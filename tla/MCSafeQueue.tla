---------------------------- MODULE MCSafeQueue -----------------------------
(***************************************************************************)
(* TLC instance of SafeQueue: a bound on the elements consumed, needed     *)
(* where the two threads can hand the same element out again and again.    *)
(***************************************************************************)
EXTENDS SafeQueue

CONSTANT MaxTaken

TakenBound == Len(taken) <= MaxTaken
=============================================================================
