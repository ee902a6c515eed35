----------------------------- MODULE SafeQueue ------------------------------
(***************************************************************************)
(* ThreadSafeQueue (src/src/sphere/containers.h): a std::list that keeps   *)
(* one consumed node at its front.  m_head is the last consumed node;      *)
(* m_tail is always end(), so the queue is empty when m_head is the last   *)
(* node.  The writer appends nodes and erases the consumed ones (clean),   *)
(* the reader only moves m_head.                                           *)
(*                                                                         *)
(* Nodes are numbered in the order they are pushed (the dummy is node 0),  *)
(* so a node's number stands for its value and for the iterator to it, and *)
(* the list holds exactly the nodes first..last.                           *)
(*                                                                         *)
(* The same methods are composed twice: SeqSpec runs each of them to its   *)
(* end (NetworkThreads=0, the default: one thread does everything),        *)
(* ConcSpec lets one writer thread and one reader thread interleave        *)
(* between their accesses to m_head (NetworkThreads>0).                    *)
(***************************************************************************)
EXTENDS Naturals, Sequences

CONSTANT MaxPush        \* bound on the nodes ever pushed

ASSUME MaxPushAssumption == MaxPush \in Nat

VARIABLES
    first, last,    \* the nodes of m_list
    head,           \* m_head
    taken,          \* what the reader consumed
    wpc, whead,     \* writer thread: next step, the m_head it passed to erase
    rpc, rhead,     \* reader thread: next step, the m_head pop() read
    rval            \* reader thread: what front() returned

listVars   == <<first, last, head>>
writerVars == <<wpc, whead>>
readerVars == <<rpc, rhead, rval>>
vars       == <<listVars, taken, writerVars, readerVars>>

Init ==
    /\ first = 0 /\ last = 0 /\ head = 0
    /\ taken = <<>>
    /\ wpc = "idle" /\ whead = 0
    /\ rpc = "idle" /\ rhead = 0 /\ rval = 0

\* empty(): the node after m_head is end()
Empty == head = last

-----------------------------------------------------------------------------
(* One thread: every method is one step. *)

\* push(): emplace_back, then clean() erases everything before m_head
Push ==
    /\ last < MaxPush
    /\ last' = last + 1
    /\ first' = head
    /\ UNCHANGED <<head, taken, writerVars, readerVars>>

\* clean(), also called for every queue by CNetworkManager::tick
Clean ==
    /\ first' = head
    /\ UNCHANGED <<last, head, taken, writerVars, readerVars>>

\* the callers' idiom: if not empty(), consume front() and pop()
Take ==
    /\ ~Empty
    /\ taken' = Append(taken, head + 1)
    /\ head' = head + 1
    /\ UNCHANGED <<first, last, writerVars, readerVars>>

SeqNext == Push \/ Clean \/ Take

SeqSpec == Init /\ [][SeqNext]_vars

-----------------------------------------------------------------------------
(* Two threads: a step per access to m_head. *)

\* push(): emplace_back
WAppend ==
    /\ wpc = "idle" /\ last < MaxPush
    /\ last' = last + 1
    /\ wpc' = "clean"
    /\ UNCHANGED <<first, head, taken, whead, readerVars>>

\* CNetworkManager::tick calls clean() without a push
WStartClean ==
    /\ wpc = "idle"
    /\ wpc' = "clean"
    /\ UNCHANGED <<listVars, taken, whead, readerVars>>

\* Mutant of WErase: m_head is erased too
WEraseHead ==
    /\ wpc = "clean"
    /\ whead' = head
    /\ first' = head + 1
    /\ wpc' = "assign"
    /\ UNCHANGED <<last, head, taken, readerVars>>

\* clean(): m_head is read, the nodes before it are erased; the iterator
\* erase() returns is the m_head that was passed to it
WErase ==
    /\ wpc = "clean"
    /\ whead' = head
    /\ first' = head
    /\ wpc' = "assign"
    /\ UNCHANGED <<last, head, taken, readerVars>>

\* clean(): that iterator is assigned to m_head
WAssign ==
    /\ wpc = "assign"
    /\ head' = whead
    /\ wpc' = "idle"
    /\ UNCHANGED <<first, last, taken, whead, readerVars>>

\* Mutant of RFront: front() gives the node m_head points to
RFrontHead ==
    /\ rpc = "idle" /\ ~Empty
    /\ rval' = head
    /\ rpc' = "pop"
    /\ UNCHANGED <<listVars, taken, rhead, writerVars>>

\* front(): the value of the node after m_head
RFront ==
    /\ rpc = "idle" /\ ~Empty
    /\ rval' = head + 1
    /\ rpc' = "pop"
    /\ UNCHANGED <<listVars, taken, rhead, writerVars>>

\* pop(): reads m_head and finds its successor
RRead ==
    /\ rpc = "pop" /\ ~Empty
    /\ rhead' = head
    /\ rpc' = "move"
    /\ UNCHANGED <<listVars, taken, rval, writerVars>>

\* Mutant of RMove: pop() moves m_head the wrong way
RMoveBack ==
    /\ rpc = "move"
    /\ head' = rhead - 1
    /\ taken' = Append(taken, rval)
    /\ rpc' = "idle"
    /\ UNCHANGED <<first, last, rhead, rval, writerVars>>

\* pop(): moves m_head; the caller consumes what front() gave it
RMove ==
    /\ rpc = "move"
    /\ head' = rhead + 1
    /\ taken' = Append(taken, rval)
    /\ rpc' = "idle"
    /\ UNCHANGED <<first, last, rhead, rval, writerVars>>

ConcNext ==
    \/ WAppend \/ WStartClean \/ WErase \/ WAssign
    \/ RFront \/ RRead \/ RMove

ConcSpec == Init /\ [][ConcNext]_vars

-----------------------------------------------------------------------------
(* Types; the number of consumed elements is bounded by the runs only. *)
TypeOK ==
    /\ first \in Nat /\ last \in 0..MaxPush /\ head \in Nat
    /\ taken \in Seq(Nat)
    /\ wpc \in {"idle", "clean", "assign"} /\ whead \in Nat
    /\ rpc \in {"idle", "pop", "move"} /\ rhead \in Nat /\ rval \in Nat

\* Every iterator a thread holds points to a node that is still in the list:
\* neither clean() nor pop() leaves m_head, or a copy of it, dangling.
IteratorsLive ==
    /\ first <= head /\ head <= last
    /\ wpc = "assign" => first <= whead /\ whead <= last
    /\ rpc = "move"   => first <= rhead /\ rhead < last

\* pop() never skips an element: what lies at or before m_head was consumed.
NothingLost ==
    \A n \in 1..head : \E i \in DOMAIN taken : taken[i] = n

\* "A thread-safe implementation of a queue container", for one reader and one
\* writer thread: an element is handed out once.  ConcSpec violates it: clean()
\* may take m_head back.
TakenOnce ==
    \A i, j \in DOMAIN taken : taken[i] = taken[j] => i = j

\* The queue refines the first-in first-out queue: the nodes after m_head
\* are the elements waiting.
Queue == INSTANCE Fifo WITH Elem  <- 1..MaxPush,
                            items <- [i \in 1..(last - head) |-> head + i]

QueueIsFifo == Queue!FifoSpec
=============================================================================
