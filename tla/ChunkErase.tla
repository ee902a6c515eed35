----------------------------- MODULE ChunkErase -----------------------------
(***************************************************************************)
(* The loop of CWorldTicker::Tick() that erases the chosen entries of a    *)
(* list in chunks, over positions 1..n, and that it erases what            *)
(* WorldTicker!Erased says: the chosen ones, and of every gap between two  *)
(* of them all but the first entry.                                        *)
(***************************************************************************)
EXTENDS Integers, Sequences, FiniteSets, FiniteSetsExt, SequencesExt

CONSTANT MaxLength      \* bound on the lists the two are compared on

\* One round of the loop at position i.  start is itSubRangeStart; first and
\* contiguous are fFirstMatch and fContiguous.
Round(chosen, s, i) ==
    IF i \in chosen
      THEN [s EXCEPT !.start = IF s.first THEN @ ELSE i, !.first = TRUE, !.contiguous = TRUE]
      ELSE IF s.first /\ s.contiguous
      THEN [s EXCEPT !.erased = @ \cup s.start..(i - 1), !.start = i + 1, !.contiguous = FALSE]
      ELSE s

\* the loop over the positions up to the last chosen one, and the last range
LoopErases(chosen) ==
    LET last == Max(chosen)
        end  == FoldLeft(LAMBDA s, i : Round(chosen, s, i),
                         [start |-> 1, first |-> FALSE, contiguous |-> TRUE, erased |-> {}],
                         [i \in 1..last |-> i])
    IN  IF end.first /\ end.contiguous THEN end.erased \cup end.start..last ELSE end.erased

Ticker == INSTANCE WorldTicker WITH
             Items <- {}, Chars <- {}, Funcs <- {}, Delays <- {}, TickLength <- 1,
             FirstRegen <- 1, MaxTime <- 0, now <- 0, stage <- "game", picked <- {},
             life <- <<>>, place <- <<>>, asleep <- <<>>, timeout <- <<>>, regen <- <<>>,
             ptick <- <<>>, list <- {}, plist <- {}, updates <- {}

At(positions) == {[time |-> i, age |-> 0, obj |-> i] : i \in positions}

\* The closed form is what the loop computes.
ASSUME ClosedForm ==
    \A n \in 1..MaxLength : \A chosen \in (SUBSET (1..n)) \ {{}} :
        At(LoopErases(chosen)) = Ticker!Erased(At(1..n), At(chosen))
=============================================================================
