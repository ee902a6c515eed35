-------------------------------- MODULE Fifo --------------------------------
(***************************************************************************)
(* What src/src/sphere/containers.h promises of ThreadSafeQueue: elements  *)
(* leave in the order they entered, each of them once.  The reader's       *)
(* history is part of the state, so that "once" can be said.               *)
(***************************************************************************)
EXTENDS Naturals, Sequences

CONSTANT Elem       \* what can be queued

VARIABLES
    items,      \* the elements waiting, oldest first
    taken       \* the elements the reader consumed, in order

fifoVars == <<items, taken>>

FifoInit == items = <<>> /\ taken = <<>>

Put == \E v \in Elem :
    /\ items' = Append(items, v)
    /\ UNCHANGED taken

Get ==
    /\ items # <<>>
    /\ taken' = Append(taken, Head(items))
    /\ items' = Tail(items)

FifoNext == Put \/ Get

FifoSpec == FifoInit /\ [][FifoNext]_fifoVars
=============================================================================
