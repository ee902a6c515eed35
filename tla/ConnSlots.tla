----------------------------- MODULE ConnSlots ------------------------------
(***************************************************************************)
(* What the connection slots promise, whatever the threads do: every       *)
(* connection is served in a slot of its own under a number of its own,    *)
(* is opened once, only ever moves towards its end, and its slot is free   *)
(* before it is given to another one.  A draining connection no longer     *)
(* reads but still writes; a finished one does neither.                    *)
(***************************************************************************)
EXTENDS Naturals

CONSTANTS
    Slots,
    born        \* the phases in which a connection may begin

VARIABLES
    phase,      \* of each slot: free, open, draining or finished
    conn,       \* the number of the connection in each slot, 0 when free
    given       \* connections accepted so far

connVars == <<phase, conn, given>>

ConnInit ==
    /\ phase = [s \in Slots |-> "free"]
    /\ conn = [s \in Slots |-> 0]
    /\ given = 0

Move(s, from, to) == phase[s] \in from /\ phase' = [phase EXCEPT ![s] = to]

Open(s) ==
    /\ \E p \in born : Move(s, {"free"}, p)
    /\ given' = given + 1
    /\ conn' = [conn EXCEPT ![s] = given + 1]

HangUp(s) == Move(s, {"open"}, "draining") /\ UNCHANGED <<conn, given>>

Finish(s) == Move(s, {"open", "draining"}, "finished") /\ UNCHANGED <<conn, given>>

Release(s) ==
    /\ Move(s, {"finished"}, "free")
    /\ conn' = [conn EXCEPT ![s] = 0]
    /\ UNCHANGED given

ConnNext == \E s \in Slots : Open(s) \/ HangUp(s) \/ Finish(s) \/ Release(s)

ConnSpec == ConnInit /\ [][ConnNext]_connVars
=============================================================================
