-------------------------- MODULE SafeQueueProofs ---------------------------
(***************************************************************************)
(* Proofs about SafeQueue, for every number of elements.                   *)
(*                                                                         *)
(* One thread (SeqSpec): the queue implements the first-in first-out queue *)
(* of Fifo.  One writer and one reader thread (ConcSpec): no iterator      *)
(* dangles and no element is skipped.  That none is handed out twice is    *)
(* false there.                                                            *)
(***************************************************************************)
EXTENDS SafeQueue, SequenceTheorems, TLAPS

-----------------------------------------------------------------------------
(* One thread. *)

\* What the refinement rests on: m_head is one of the nodes.
SeqInv ==
    /\ first \in Nat /\ last \in 0..MaxPush /\ head \in 0..last
    /\ taken \in Seq(1..MaxPush)

\* The queue starts with the dummy node alone, and m_head on it.
LEMMA SeqInvInit == Init => SeqInv
  BY MaxPushAssumption DEF Init, SeqInv

\* push() and clean() leave m_head alone, a pop() finds a node after it.
LEMMA SeqInvNext == SeqInv /\ [SeqNext]_vars => SeqInv'
<1>. USE MaxPushAssumption DEF SeqInv
<1>. SUFFICES ASSUME SeqInv, [SeqNext]_vars PROVE SeqInv'
  OBVIOUS
<1>1. CASE Push
  BY <1>1 DEF Push, readerVars, writerVars
<1>2. CASE Clean
  BY <1>2 DEF Clean, readerVars, writerVars
<1>3. CASE Take
  <2>1. head + 1 \in 1..MaxPush /\ head + 1 <= last
    BY <1>3 DEF Take, Empty
  <2>. QED BY <1>3, <2>1 DEF Take, readerVars, writerVars
<1>4. CASE UNCHANGED vars
  BY <1>4 DEF vars, listVars
<1>. QED BY <1>1, <1>2, <1>3, <1>4 DEF SeqNext

\* The items of the abstract queue when m_head is node h of h..l.
Nodes(h, l) == [k \in 1..(l - h) |-> h + k]

\* The items are the nodes after m_head, in the order they were pushed.
LEMMA NodesType ==
    ASSUME NEW l \in Nat, NEW h \in 0..l
    PROVE  /\ Nodes(h, l) \in Seq(Nat) /\ Len(Nodes(h, l)) = l - h
           /\ \A k \in 1..(l - h) : Nodes(h, l)[k] = h + k
<1>1. l - h \in Nat
  OBVIOUS
<1>2. \A k \in 1..(l - h) : h + k \in Nat
  OBVIOUS
<1>. QED BY <1>1, <1>2 DEF Nodes

\* push() appends the new node to the items.
LEMMA NodesAppend ==
    ASSUME NEW l \in Nat, NEW h \in 0..l
    PROVE  Nodes(h, l + 1) = Append(Nodes(h, l), l + 1)
<1>. DEFINE s == Nodes(h, l)
            t == Append(s, l + 1)
            u == Nodes(h, l + 1)
<1>1. u \in Seq(Nat) /\ Len(u) = l - h + 1
  BY NodesType, l + 1 \in Nat, h \in 0..(l + 1), (l + 1) - h = l - h + 1
<1>2. s \in Seq(Nat) /\ Len(s) = l - h /\ l + 1 \in Nat /\ l - h \in Nat
  BY NodesType
<1>3. /\ t \in Seq(Nat) /\ Len(t) = Len(s) + 1
      /\ \A i \in 1..Len(s) : t[i] = s[i]
      /\ t[Len(s) + 1] = l + 1
  <2>. HIDE DEF s
  <2>. QED BY <1>2, AppendProperties
<1>4. ASSUME NEW k \in 1..Len(u) PROVE u[k] = t[k]
  <2>1. u[k] = h + k
    BY <1>1 DEF Nodes
  <2>2. CASE k <= l - h
    BY <1>1, <1>2, <1>3, <2>1, <2>2 DEF Nodes
  <2>3. CASE ~(k <= l - h)
    <3>1. k = l - h + 1 /\ h + k = l + 1
      BY <1>1, <2>3
    <3>. HIDE DEF t, u, s
    <3>. QED BY <1>2, <1>3, <2>1, <3>1
  <2>. QED BY <2>2, <2>3
<1>. HIDE DEF s, t, u
<1>5. u = t
  BY <1>1, <1>2, <1>3, <1>4, SeqEqual
<1>. QED BY <1>5 DEF s, t, u

\* pop() takes the first item off.
LEMMA NodesTail ==
    ASSUME NEW l \in Nat, NEW h \in 0..l, h < l
    PROVE  /\ Nodes(h, l) # <<>> /\ Head(Nodes(h, l)) = h + 1
           /\ Nodes(h + 1, l) = Tail(Nodes(h, l))
<1>1. Nodes(h, l) \in Seq(Nat) /\ Len(Nodes(h, l)) = l - h /\ l - h >= 1
  BY NodesType
<1>2. Nodes(h, l) # <<>> /\ Head(Nodes(h, l)) = h + 1
  BY <1>1, NodesType
<1>3. Nodes(h + 1, l) \in Seq(Nat) /\ Len(Nodes(h + 1, l)) = l - h - 1
  BY NodesType, h + 1 \in 0..l, l - (h + 1) = l - h - 1
<1>4. Tail(Nodes(h, l)) \in Seq(Nat) /\ Len(Tail(Nodes(h, l))) = l - h - 1
  BY <1>1, <1>2
<1>5. ASSUME NEW k \in 1..(l - h - 1)
      PROVE  Nodes(h + 1, l)[k] = Tail(Nodes(h, l))[k]
  <2>1. Nodes(h + 1, l)[k] = (h + 1) + k
    BY DEF Nodes
  <2>2. Tail(Nodes(h, l))[k] = Nodes(h, l)[k + 1]
    BY <1>1, <1>2, <1>4
  <2>3. Nodes(h, l)[k + 1] = h + (k + 1)
    BY k + 1 \in 1..(l - h), NodesType
  <2>4. (h + 1) + k = h + (k + 1)
    OBVIOUS
  <2>. QED BY <2>1, <2>2, <2>3, <2>4
<1>. QED BY <1>2, <1>3, <1>4, <1>5, SeqEqual

\* With one thread ThreadSafeQueue is a first-in first-out queue: what the
\* reader consumed is what was pushed, in order and once.
THEOREM SequentialQueueIsFifo == SeqSpec => QueueIsFifo
<1>. USE MaxPushAssumption
<1>1. Init => Queue!FifoInit
  BY DEF Init, Queue!FifoInit
<1>2. SeqInv /\ [SeqNext]_vars => [Queue!FifoNext]_(Queue!fifoVars)
  <2>. SUFFICES ASSUME SeqInv, [SeqNext]_vars PROVE [Queue!FifoNext]_(Queue!fifoVars)
    OBVIOUS
  <2>. DEFINE items == Nodes(head, last)
  <2>1. last \in Nat /\ head \in 0..last
    BY DEF SeqInv
  <2>2. CASE Push
    <3>1. taken' = taken /\ head' = head /\ last' = last + 1 /\ last + 1 \in 1..MaxPush
      BY <2>1, <2>2 DEF Push
    <3>2. items' = Append(items, last + 1)
      BY <2>1, <3>1, NodesAppend
    <3>3. Queue!Put
      BY <3>1, <3>2 DEF Queue!Put, Nodes
    <3>. QED BY <3>3 DEF Queue!FifoNext
  <2>3. CASE Clean
    BY <2>3 DEF Clean, Queue!fifoVars
  <2>4. CASE Take
    <3>1. taken' = Append(taken, head + 1) /\ head' = head + 1 /\ last' = last /\ head < last
      BY <2>1, <2>4 DEF Take, Empty
    <3>2. items # <<>> /\ Head(items) = head + 1 /\ items' = Tail(items)
      BY <2>1, <3>1, NodesTail
    <3>3. Queue!Get
      BY <3>1, <3>2 DEF Queue!Get, Nodes
    <3>. QED BY <3>3 DEF Queue!FifoNext
  <2>5. CASE UNCHANGED vars
    BY <2>5 DEF vars, listVars, Queue!fifoVars
  <2>. QED BY <2>2, <2>3, <2>4, <2>5 DEF SeqNext
<1>. QED
  BY <1>1, <1>2, SeqInvInit, SeqInvNext, PTL DEF SeqSpec, QueueIsFifo, Queue!FifoSpec

-----------------------------------------------------------------------------
(* One writer and one reader thread. *)

\* Both threads keep a copy of m_head for a while.  The writer's copy is never
\* ahead of m_head; the reader's is never behind it, because only the writer
\* takes m_head back.  The list starts at or before all of them.
ConcInv ==
    /\ TypeOK
    /\ first <= head /\ head <= last
    /\ wpc = "assign" => first <= whead /\ whead <= head
    /\ rpc = "move" => head <= rhead /\ rhead < last

\* Both threads start outside the methods.
LEMMA ConcInvInit == Init => ConcInv
  BY MaxPushAssumption DEF Init, ConcInv, TypeOK

\* Every access to m_head keeps the copies on their side of it: the writer may
\* take m_head back, but only to where it was and never before the list.
LEMMA ConcInvNext == ConcInv /\ [ConcNext]_vars => ConcInv'
<1>. USE MaxPushAssumption DEF ConcInv, TypeOK
<1>. SUFFICES ASSUME ConcInv, [ConcNext]_vars PROVE ConcInv'
  OBVIOUS
<1>1. CASE WAppend
  BY <1>1 DEF WAppend, readerVars
<1>2. CASE WStartClean
  BY <1>2 DEF WStartClean, listVars, readerVars
<1>3. CASE WErase
  BY <1>3 DEF WErase, readerVars
<1>4. CASE WAssign
  BY <1>4 DEF WAssign, readerVars
<1>5. CASE RFront
  BY <1>5 DEF RFront, listVars, writerVars
<1>6. CASE RRead
  BY <1>6 DEF RRead, Empty, listVars, writerVars
<1>7. CASE RMove
  BY <1>7 DEF RMove, writerVars
<1>8. CASE UNCHANGED vars
  BY <1>8 DEF vars, listVars, writerVars, readerVars
<1>. QED BY <1>1, <1>2, <1>3, <1>4, <1>5, <1>6, <1>7, <1>8 DEF ConcNext

\* The two-thread queue has this invariant.
LEMMA ConcInvariant == ConcSpec => []ConcInv
  BY ConcInvInit, ConcInvNext, PTL DEF ConcSpec

\* With two threads, m_head and the copies of it that the threads hold stay numbers
\* of nodes, and only the pushes that are allowed give nodes.
THEOREM QueueTypes == ConcSpec => []TypeOK
<1>1. ConcInv => TypeOK
  BY DEF ConcInv
<1>. QED BY <1>1, ConcInvariant, PTL

\* Neither clean() in the writer thread nor pop() in the reader thread leaves
\* m_head or a copy of it pointing to an erased node, for queues of any length.
THEOREM IteratorsStayLive == ConcSpec => []IteratorsLive
<1>1. ConcInv => IteratorsLive
  BY DEF ConcInv, IteratorsLive, TypeOK
<1>. QED BY <1>1, ConcInvariant, PTL

\* What the reader is about to consume comes after nothing but consumed nodes.
Consumed(n) == \A m \in 1..n : \E i \in DOMAIN taken : taken[i] = m

ReadInv ==
    /\ Consumed(head)
    /\ rpc \in {"pop", "move"} => head < rval /\ Consumed(rval - 1)
    /\ rpc = "move" => rhead < rval

\* Nothing is consumed, and m_head is on the dummy.
LEMMA ReadInvInit == Init => ReadInv
  BY DEF Init, ReadInv, Consumed

\* A pop() moves m_head to at most the element that is consumed with it, and
\* the writer only takes m_head back, to consumed nodes.
LEMMA ReadInvNext == ConcInv /\ ReadInv /\ [ConcNext]_vars => ReadInv'
<1>. SUFFICES ASSUME ConcInv, ReadInv, [ConcNext]_vars PROVE ReadInv'
  OBVIOUS
<1>0. TypeOK /\ head \in Nat /\ rval \in Nat
  BY DEF ConcInv, TypeOK
<1>1. CASE WAppend
  BY <1>1 DEF WAppend, readerVars, ReadInv, Consumed
<1>2. CASE WStartClean
  BY <1>2 DEF WStartClean, listVars, readerVars, ReadInv, Consumed
<1>3. CASE WErase
  BY <1>3 DEF WErase, readerVars, ReadInv, Consumed
<1>4. CASE WAssign
  <2>1. head' = whead /\ whead \in Nat /\ whead <= head /\ UNCHANGED <<taken, rpc, rhead, rval>>
    BY <1>4 DEF WAssign, readerVars, ConcInv, TypeOK
  <2>2. Consumed(head)'
    BY <1>0, <2>1 DEF ReadInv, Consumed
  <2>. QED BY <1>0, <2>1, <2>2 DEF ReadInv, Consumed
<1>5. CASE RFront
  BY <1>0, <1>5 DEF RFront, listVars, writerVars, ReadInv, Consumed
<1>6. CASE RRead
  BY <1>0, <1>6 DEF RRead, listVars, writerVars, ReadInv, Consumed
<1>7. CASE RMove
  <2>1. /\ head' = rhead + 1 /\ rhead \in Nat /\ rhead < rval
        /\ taken' = Append(taken, rval) /\ rpc' = "idle"
        /\ Consumed(rval - 1) /\ rval - 1 \in Nat
    BY <1>0, <1>7 DEF RMove, ReadInv, TypeOK
  <2>2. Consumed(rval - 1)'
    <3>1. \A m \in 1..(rval - 1) : \E i \in DOMAIN taken' : taken'[i] = m
      <4>1. /\ DOMAIN taken \subseteq DOMAIN taken'
            /\ \A i \in DOMAIN taken : taken'[i] = taken[i]
        BY <1>0, <2>1, AppendProperties DEF TypeOK
      <4>. QED BY <2>1, <4>1 DEF Consumed
    <3>2. rval' = rval
      BY <1>7 DEF RMove
    <3>. QED BY <3>1, <3>2 DEF Consumed
  <2>3. \E i \in DOMAIN taken' : taken'[i] = rval
    BY <1>0, <2>1, AppendProperties DEF TypeOK
  <2>4. ASSUME NEW m \in 1..(rhead + 1) PROVE \E i \in DOMAIN taken' : taken'[i] = m
    <3>1. CASE m = rval
      BY <2>3, <3>1
    <3>2. CASE m # rval
      <4>1. m \in 1..(rval - 1)
        BY <1>0, <2>1, <3>2
      <4>2. rval' = rval
        BY <1>7 DEF RMove
      <4>. QED BY <2>2, <4>1, <4>2 DEF Consumed
    <3>. QED BY <3>1, <3>2
  <2>. QED BY <2>1, <2>4 DEF ReadInv, Consumed
<1>8. CASE UNCHANGED vars
  BY <1>8 DEF vars, listVars, readerVars, ReadInv, Consumed
<1>. QED BY <1>1, <1>2, <1>3, <1>4, <1>5, <1>6, <1>7, <1>8 DEF ConcNext

\* However the two threads interleave, pop() skips no element.
THEOREM NothingIsLost == ConcSpec => []NothingLost
<1>1. ReadInv => NothingLost
  BY DEF ReadInv, Consumed, NothingLost
<1>. QED BY <1>1, ReadInvInit, ReadInvNext, ConcInvariant, PTL DEF ConcSpec
=============================================================================
