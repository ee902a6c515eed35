------------------------- MODULE PacketQueueProofs -------------------------
(***************************************************************************)
(* PacketQueue for every number of priorities, packets and limits: types,  *)
(* that a kick is sent before its connection is closed, that queues are    *)
(* sent in order, that transactions arrive together and that no packet is  *)
(* in two places.                                                          *)
(***************************************************************************)
EXTENDS PacketQueue, SequenceTheorems, WellFoundedInduction, TLAPS

-----------------------------------------------------------------------------
(* Types. *)

\* A pointer that is not nullptr.
LEMMA Pointed ==
    ASSUME NEW S, NEW s \in Seq(S), Len(s) <= 1, s # <<>>
    PROVE  Len(s) = 1 /\ s[1] \in S /\ s = <<s[1]>>
  <1>1. Len(s) = 1
    <2>1. Len(s) # 0
      BY EmptySeq
    <2>2. Len(s) \in Nat
      BY LenProperties
    <2>3. QED  BY <2>1, <2>2
  <1>2. s[1] \in S
    BY <1>1, ElementOfSeq
  <1>3. <<s[1]>> \in Seq(S) /\ Len(<<s[1]>>) = 1 /\ <<s[1]>>[1] = s[1]
    BY <1>2
  <1>4. QED  BY <1>1, <1>2, <1>3, SeqEqual

Transactions == [pri : Prios, packets : Seq(Packets), tried : BOOLEAN]

Line    == Seq(Packets)
Batches == Seq(Seq(Packets))
Queues  == [Prios -> Batches]
Opens   == {s \in Seq(Transactions) : Len(s) <= 1}
Unders  == {s \in Batches : Len(s) <= 1}
Hands   == {s \in Line : Len(s) <= 1}
Steps   == {"idle", "check", "markWrite", "queues", "send", "async", "bytes"}
Jobs    == {"output", "flush", "tick"}

\* TypeOK, variable by variable.  Besides, a packet is in hand just while
\* sendPacket() has it, and there is a transaction left to commit empty for the
\* one that is open.
MainInv ==
    /\ queue \in Queues /\ pending \in Opens
    /\ made \in 0..MaxPackets /\ commits \in Nat /\ empties \in 0..MaxEmpty
    /\ pending # <<>> => empties < MaxEmpty

OutInv ==
    /\ queue \in Queues /\ current \in Unders /\ asyncQueue \in Line
    /\ wire \in Line /\ unsent \in 0..Len(wire)
    /\ needsFlush \in BOOLEAN /\ writeClosed \in BOOLEAN /\ up \in BOOLEAN
    /\ broken \in BOOLEAN /\ clashed \in BOOLEAN
    /\ pc \in Steps /\ job \in Jobs /\ todo \in SUBSET Prios /\ count \in 0..MaxPerTick
    /\ hand \in Hands /\ (pc = "send" <=> hand # <<>>)

SlotInv ==
    /\ threaded \in BOOLEAN /\ async \in BOOLEAN /\ sending \in BOOLEAN
    /\ inUse \in BOOLEAN /\ readClosed \in BOOLEAN

TInv == MainInv /\ OutInv /\ SlotInv

LEMMA TInvTypes == TInv => TypeOK
  <1> SUFFICES ASSUME TInv  PROVE TypeOK
    OBVIOUS
  <1>1. {inUse, readClosed, writeClosed, needsFlush, up, broken} \subseteq BOOLEAN
    BY DEF TInv, OutInv, SlotInv
  <1>2. /\ pending \in Seq(Transactions)
        /\ current \in Seq(Seq(Packets)) /\ Len(current) <= 1
        /\ hand \in Seq(Packets) /\ Len(hand) <= 1
    BY DEF TInv, MainInv, OutInv, Opens, Unders, Hands, Batches, Line
  <1>3. QED
    BY <1>1, <1>2
    DEF TypeOK, TInv, MainInv, OutInv, SlotInv, Transactions, Line, Batches, Queues, Steps, Jobs

LEMMA Numbers ==
    /\ Top \in Nat /\ MaxQueue \in Nat /\ MaxPerTick \in Nat /\ MaxPerTick # 0
    /\ MaxPackets \in Nat /\ MaxEmpty \in Nat /\ UseAsync \in 0..2
    /\ 0 \in Prios /\ Top \in Prios
  BY ConstantsAssumption DEF Prios

\* Every set of numbers with a bound that is not empty has a greatest one.
LEMMA Maximum ==
    ASSUME NEW n \in Nat, NEW S \in SUBSET (0..n), S # {}
    PROVE  \E m \in S : \A k \in S : k <= m
  <1> DEFINE below == {n - k : k \in S}
             R == OpToRel(<, Nat)
  <1>1. below \in SUBSET Nat /\ below # {}
    <2>1. \A k \in S : n - k \in Nat
      OBVIOUS
    <2>2. PICK k \in S : TRUE
      OBVIOUS
    <2>3. n - k \in below
      BY <2>2
    <2>4. QED  BY <2>1, <2>3
  <1>2. IsWellFoundedOn(R, Nat)
    BY NatLessThanWellFounded
  <1>3. PICK b \in below : \A c \in below : ~(<<c, b>> \in R)
    BY <1>1, <1>2, WFMin
  <1>4. PICK m \in S : b = n - m
    OBVIOUS
  <1>5. ASSUME NEW k \in S  PROVE k <= m
    <2>1. n - k \in below /\ n - k \in Nat /\ b \in Nat
      BY <1>4
    <2>2. ~(n - k < b)
      BY <1>3, <2>1 DEF OpToRel
    <2>3. k \in Nat /\ m \in Nat
      OBVIOUS
    <2>4. QED  BY <1>4, <2>2, <2>3
  <1>6. QED  BY <1>5

\* The parts of the invariant that sequences and numbers are read from.
LEMMA Raw ==
    ASSUME TInv
    PROVE  /\ queue \in [Prios -> Seq(Seq(Packets))]
           /\ current \in Seq(Seq(Packets)) /\ Len(current) <= 1
           /\ asyncQueue \in Seq(Packets) /\ wire \in Seq(Packets)
           /\ unsent \in Nat /\ Len(wire) \in Nat /\ unsent <= Len(wire)
           /\ hand \in Seq(Packets) /\ Len(hand) <= 1
           /\ todo \subseteq Prios /\ count \in 0..MaxPerTick
           /\ made \in 0..MaxPackets /\ commits \in Nat /\ empties \in 0..MaxEmpty
  <1>1. wire \in Seq(Packets) /\ unsent \in 0..Len(wire)
    BY DEF TInv, OutInv, Line
  <1>2. Len(wire) \in Nat
    BY <1>1, LenProperties
  <1>3. unsent \in Nat /\ unsent <= Len(wire)
    BY <1>1, <1>2
  <1>4. QED
    BY <1>1, <1>2, <1>3
    DEF TInv, OutInv, MainInv, Queues, Batches, Unders, Line, Hands

\* QueuePacketTransaction() finds a queue, and not one of a higher priority.
LEMMA QueueForType ==
    ASSUME TInv, NEW pri \in Prios
    PROVE  QueueFor(pri) \in Prios
  <1> DEFINE room == {p \in 0..pri : p = 0 \/ MaxQueue = 0 \/ Len(queue[p]) < MaxQueue}
  <1>1. room \in SUBSET (0..pri) /\ room # {} /\ pri \in Nat
    <2>1. 0 \in room  BY Numbers DEF Prios
    <2>2. QED  BY <2>1, Numbers DEF Prios
  <1>2. \E p \in room : \A q \in room : q <= p
    BY <1>1, Maximum
  <1>3. QueueFor(pri) = CHOOSE p \in room : \A q \in room : q <= p
    BY DEF QueueFor
  <1> HIDE DEF room
  <1>4. QueueFor(pri) \in room
    BY <1>2, <1>3
  <1>5. pri \in 0..Top /\ QueueFor(pri) \in 0..pri
    BY <1>1, <1>4 DEF Prios
  <1>6. QED  BY <1>5, Numbers DEF Prios

\* There is a highest queue to serve whenever there is one.
LEMMA HighestType ==
    ASSUME TInv, Served # {}
    PROVE  Highest \in todo /\ Highest \in Prios /\ Highest \in Served
  <1>1. Served \in SUBSET (0..Top) /\ todo \subseteq Prios
    BY Raw DEF Served, Prios
  <1>2. \E p \in Served : \A q \in Served : q <= p
    BY <1>1, Maximum, Numbers
  <1>3. Highest \in Served
    BY <1>2 DEF Highest
  <1>4. QED  BY <1>1, <1>3 DEF Served

\* The packets of a transaction that is put into a queue.
Marked(packets, b, q) ==
    [i \in 1..Len(packets) |-> [packets[i] EXCEPT !.by = b, !.from = q]]

LEMMA MarkedType ==
    ASSUME NEW packets \in Seq(Packets), NEW b \in Nat, NEW q \in Prios
    PROVE  /\ Marked(packets, b, q) \in Seq(Packets)
           /\ Len(Marked(packets, b, q)) = Len(packets)
           /\ \A i \in 1..Len(packets) :
                 /\ Marked(packets, b, q)[i].by = b
                 /\ Marked(packets, b, q)[i].from = q
                 /\ Marked(packets, b, q)[i].n = packets[i].n
                 /\ Marked(packets, b, q)[i].pri = packets[i].pri
  <1> DEFINE e(i) == [packets[i] EXCEPT !.by = b, !.from = q]
  <1>1. ASSUME NEW i \in 1..Len(packets)
        PROVE  /\ e(i) \in Packets /\ e(i).by = b /\ e(i).from = q
               /\ e(i).n = packets[i].n /\ e(i).pri = packets[i].pri
    <2>1. packets[i] \in Packets
      BY ElementOfSeq
    <2>2. QED  BY <2>1 DEF Packets
  <1>2. Marked(packets, b, q) = [i \in 1..Len(packets) |-> e(i)]
    BY DEF Marked
  <1>3. Len(packets) \in Nat
    BY LenProperties
  <1> HIDE DEF e
  <1>4. Marked(packets, b, q) \in [1..Len(packets) -> Packets]
    BY <1>1, <1>2
  <1>5. Marked(packets, b, q) \in Seq(Packets)
    BY <1>3, <1>4, SeqDef
  <1>6. QED  BY <1>1, <1>2, <1>3, <1>5

LEMMA CommitType ==
    ASSUME TInv, NEW packets \in Seq(Packets), NEW q \in Prios, Commit(packets, q)
    PROVE  /\ queue' \in Queues
           /\ queue' = [queue EXCEPT ![q] = Append(@, Marked(packets, commits + 1, q))]
           /\ commits' = commits + 1 /\ commits' \in Nat
           /\ empties' \in Nat /\ empties' <= empties + 1
           /\ packets # <<>> => empties' = empties
  <1>1. commits \in Nat /\ empties \in Nat /\ queue \in [Prios -> Seq(Seq(Packets))]
    BY Numbers, Raw
  <1>2. queue' = [queue EXCEPT ![q] = Append(@, Marked(packets, commits + 1, q))]
    BY DEF Commit, Marked
  <1>3. Marked(packets, commits + 1, q) \in Seq(Packets)
    BY <1>1, MarkedType
  <1> HIDE DEF Marked
  <1>4. queue[q] \in Seq(Seq(Packets))
    BY <1>1
  <1>5. Append(queue[q], Marked(packets, commits + 1, q)) \in Seq(Seq(Packets))
    BY <1>3, <1>4
  <1>6. queue' \in Queues
    BY <1>1, <1>2, <1>5 DEF Queues, Batches
  <1>7. commits' = commits + 1 /\ empties' = IF packets = <<>> THEN empties + 1 ELSE empties
    BY DEF Commit
  <1>8. QED  BY <1>1, <1>2, <1>6, <1>7

LEMMA ClashType == ASSUME TInv, MayClash  PROVE clashed' \in BOOLEAN
  BY DEF TInv, OutInv, MayClash, Clash

\* A queue that loses data keeps its type.
LEMMA ClearQueuesType ==
    ASSUME TInv, ClearQueues
    PROVE  /\ queue' \in Queues /\ asyncQueue' \in Line
           /\ wire' \in Line /\ unsent' \in 0..Len(wire')
           /\ clashed' \in BOOLEAN
           /\ Len(wire') = Len(wire) - unsent
           /\ \A i \in 1..Len(wire') : wire'[i] = wire[i]
  <1>1. wire \in Seq(Packets) /\ unsent \in 0..Len(wire) /\ Len(wire) \in Nat
    BY Raw
  <1>2. /\ wire' \in Seq(Packets) /\ Len(wire') = Len(wire) - unsent
        /\ \A i \in 1..Len(wire') : wire'[i] = wire[i]
    <2>1. \A i \in 1..(Len(wire) - unsent) : wire[i] \in Packets
      BY <1>1, ElementOfSeq
    <2>2. QED  BY <1>1, <2>1, SubSeqProperties DEF ClearQueues
  <1>3. unsent' \in 0..Len(wire')
    BY <1>1, <1>2 DEF ClearQueues
  <1>4. queue' \in Queues /\ asyncQueue' \in Line
    BY DEF ClearQueues, NoQueues, Queues, Batches, Line
  <1>5. clashed' \in BOOLEAN
    BY ClashType DEF ClearQueues
  <1>6. QED
    BY <1>2, <1>3, <1>4, <1>5 DEF Line

\* What the steps of the main thread change keeps its type ...
LEMMA MainKeeps ==
    ASSUME TInv, MainInv',
           UNCHANGED <<threaded, current, asyncQueue, wire, unsent, slotVars, outVars, up, ghosts>>
    PROVE  TInv'
  BY DEF TInv, MainInv, OutInv, SlotInv, slotVars, outVars, ghosts

\* ... and so does what a step of the output routine changes.
LEMMA OutKeeps ==
    ASSUME TInv, OutInv',
           UNCHANGED <<threaded, mainVars, async, sending, inUse, readClosed>>
    PROVE  TInv'
  BY DEF TInv, MainInv, OutInv, SlotInv, mainVars

LEMMA OpenedType ==
    ASSUME TInv, pending # <<>>
    PROVE  /\ pending[1] \in Transactions /\ Len(pending) = 1
           /\ pending[1].packets \in Seq(Packets) /\ pending[1].pri \in Prios
           /\ empties < MaxEmpty
  <1>1. pending \in Seq(Transactions) /\ Len(pending) <= 1 /\ empties < MaxEmpty
    BY DEF TInv, MainInv, Opens
  <1>2. Len(pending) = 1 /\ pending[1] \in Transactions
    BY <1>1, Pointed
  <1>3. QED  BY <1>1, <1>2 DEF Transactions

LEMMA OneTransaction ==
    ASSUME NEW t \in Transactions
    PROVE  <<t>> \in Opens
  <1>1. <<t>> \in Seq(Transactions) /\ Len(<<t>>) = 1
    OBVIOUS
  <1>2. QED  BY <1>1 DEF Opens

LEMMA MadeType ==
    ASSUME TInv, made < MaxPackets, NEW pri \in Prios
    PROVE  Made(pri) \in Packets /\ made + 1 \in 0..MaxPackets
  BY SMTT(30), Numbers, Raw DEF Made, Packets

LEMMA AppendPacketTypes == ASSUME TInv, NEW pri \in Prios, AppendPacket(pri)  PROVE TInv'
  <1>1. /\ pending # <<>> /\ made < MaxPackets /\ made' = made + 1
        /\ UNCHANGED <<queue, commits, empties>>
    BY DEF AppendPacket
  <1> DEFINE ps == Append(pending[1].packets, Made(pri))
             t == [pending[1] EXCEPT !.packets = ps, !.tried = TRUE]
  <1>2. ps \in Seq(Packets)
    BY <1>1, OpenedType, MadeType
  <1>3. pending' = <<t>>
    BY DEF AppendPacket
  <1> HIDE DEF ps
  <1>4. t \in Transactions
    BY <1>1, <1>2, OpenedType DEF Transactions
  <1> HIDE DEF t
  <1>5. pending' \in Opens /\ made' \in 0..MaxPackets /\ empties < MaxEmpty
    BY <1>1, <1>3, <1>4, OneTransaction, MadeType, OpenedType
  <1>6. MainInv'
    BY <1>1, <1>5 DEF TInv, MainInv
  <1>7. QED  BY <1>6, MainKeeps DEF AppendPacket

LEMMA RefusePacketTypes == ASSUME TInv, NEW pri \in Prios, RefusePacket(pri)  PROVE TInv'
  <1> DEFINE t == [pending[1] EXCEPT !.tried = TRUE]
  <1>1. pending # <<>> /\ pending' = <<t>> /\ UNCHANGED <<queue, made, commits, empties>>
    BY DEF RefusePacket
  <1>2. t \in Transactions
    BY <1>1, OpenedType DEF Transactions
  <1> HIDE DEF t
  <1>3. pending' \in Opens /\ empties < MaxEmpty
    BY <1>1, <1>2, OneTransaction, OpenedType
  <1>4. MainInv'
    BY <1>1, <1>3 DEF TInv, MainInv
  <1>5. QED  BY <1>4, MainKeeps DEF RefusePacket

LEMMA QueuePacketTypes == ASSUME TInv, NEW pri \in Prios, QueuePacket(pri)  PROVE TInv'
  <1> DEFINE q == QueueFor(pri)
             p == [Made(pri) EXCEPT !.pri = q]
  <1>1. q \in Prios /\ made < MaxPackets /\ made' = made + 1 /\ pending' = pending
    BY QueueForType DEF QueuePacket
  <1> HIDE DEF q
  <1>2. p \in Packets
    BY <1>1, MadeType DEF Packets
  <1>3. Commit(<<p>>, q)
    BY DEF QueuePacket, q
  <1> HIDE DEF p
  <1>4. <<p>> \in Seq(Packets) /\ <<p>> # <<>>
    BY <1>2
  <1>5. queue' \in Queues /\ commits' \in Nat /\ empties' = empties
    BY <1>1, <1>3, <1>4, CommitType
  <1>6. made' \in 0..MaxPackets
    BY <1>1, MadeType
  <1>7. MainInv'
    BY <1>1, <1>5, <1>6 DEF TInv, MainInv
  <1>8. QED  BY <1>7, MainKeeps DEF QueuePacket

\* endTransaction() commits the open transaction, or drops it.
LEMMA EndPendingTypes ==
    ASSUME TInv, EndPending
    PROVE  queue' \in Queues /\ commits' \in Nat /\ empties' \in 0..MaxEmpty
  <1>1. CASE pending = <<>> \/ writeClosed
    BY <1>1 DEF EndPending, TInv, MainInv
  <1>2. CASE pending # <<>> /\ ~writeClosed
    <2> DEFINE ps == pending[1].packets
               q == QueueFor(pending[1].pri)
    <2>1. Commit(ps, q)
      BY <1>2 DEF EndPending
    <2>2. ps \in Seq(Packets) /\ pending[1].pri \in Prios
      BY <1>2, OpenedType
    <2>3. q \in Prios
      BY <2>2, QueueForType
    <2> HIDE DEF ps, q
    <2>4. queue' \in Queues /\ commits' \in Nat /\ empties' \in Nat /\ empties' <= empties + 1
      BY <2>1, <2>2, <2>3, CommitType
    <2>5. empties \in 0..MaxEmpty /\ empties < MaxEmpty
      BY <1>2, Raw, OpenedType
    <2>6. QED  BY <2>4, <2>5, Numbers
  <1>3. QED  BY <1>1, <1>2

LEMMA BeginTransactionTypes ==
    ASSUME TInv, NEW pri \in Prios, BeginTransaction(pri)
    PROVE  TInv'
  <1> DEFINE t == [pri |-> pri, packets |-> <<>>, tried |-> FALSE]
  <1>1. EndPending /\ empties' < MaxEmpty /\ pending' = <<t>> /\ made' = made
    BY DEF BeginTransaction
  <1>2. t \in Transactions
    BY DEF Transactions
  <1> HIDE DEF t
  <1>3. pending' \in Opens
    BY <1>1, <1>2, OneTransaction
  <1>4. queue' \in Queues /\ commits' \in Nat /\ empties' \in 0..MaxEmpty
    BY <1>1, EndPendingTypes
  <1>5. MainInv'
    BY <1>1, <1>3, <1>4 DEF TInv, MainInv
  <1>6. QED  BY <1>5, MainKeeps DEF BeginTransaction

LEMMA EndTransactionTypes == ASSUME TInv, EndTransaction  PROVE TInv'
  <1>1. EndPending /\ pending' = <<>> /\ made' = made
    BY DEF EndTransaction
  <1>2. queue' \in Queues /\ commits' \in Nat /\ empties' \in 0..MaxEmpty
    BY <1>1, EndPendingTypes
  <1>3. <<>> \in Opens
    BY DEF Opens
  <1>4. MainInv'
    BY <1>1, <1>2, <1>3 DEF TInv, MainInv
  <1>5. QED  BY <1>4, MainKeeps DEF EndTransaction

\* The flags of the connection.
LEMMA FlagTypes ==
    ASSUME TInv, MarkReadClosed \/ DetectAsync \/ AsyncReady
    PROVE  TInv'
  <1>1. /\ UNCHANGED <<queue, mainVars, current, asyncQueue, wire, unsent, outVars>>
        /\ UNCHANGED <<threaded, inUse, writeClosed, needsFlush, up, broken, clashed>>
    BY DEF MarkReadClosed, DetectAsync, AsyncReady, ghosts
  <1>2. MainInv'
    BY <1>1 DEF TInv, MainInv, mainVars
  <1>3. OutInv'
    BY <1>1 DEF TInv, OutInv, outVars
  <1>4. readClosed' \in BOOLEAN /\ async' \in BOOLEAN /\ sending' \in BOOLEAN
    BY DEF TInv, SlotInv, MarkReadClosed, DetectAsync, AsyncReady
  <1>5. SlotInv'
    BY <1>1, <1>4 DEF TInv, SlotInv
  <1>6. QED  BY <1>2, <1>3, <1>5 DEF TInv

\* What a pass begins with.
LEMMA BeginsTypes ==
    ASSUME TInv, NEW what \in Jobs, NEW step \in Steps \ {"send"}, NEW prios \in SUBSET Prios,
           Begins(what, step, prios), pc # "send"
    PROVE  /\ pc' \in Steps /\ job' \in Jobs /\ todo' \in SUBSET Prios /\ count' \in 0..MaxPerTick
           /\ hand' \in Hands /\ (pc' = "send" <=> hand' # <<>>)
  <1>1. count' \in 0..MaxPerTick
    BY Numbers DEF Begins
  <1>2. QED  BY <1>1 DEF Begins, TInv, OutInv

LEMMA TickFlushTypes == ASSUME TInv, TickFlush  PROVE TInv'
  <1>1. UNCHANGED <<queue, mainVars, current, asyncQueue, wire, unsent, writeClosed, up, ghosts>>
    BY DEF TickFlush
  <1>2. CASE threaded
    <2>1. needsFlush' = TRUE /\ UNCHANGED outVars
      BY <1>2 DEF TickFlush
    <2>2. OutInv'
      BY <1>1, <2>1 DEF TInv, OutInv, outVars, ghosts
    <2>3. QED  BY <2>2, OutKeeps DEF TickFlush, ghosts
  <1>3. CASE ~threaded
    <2>1. UNCHANGED needsFlush /\ Begins("tick", "queues", Prios) /\ pc = "idle"
      BY <1>3 DEF TickFlush, TickRuns, MainRuns
    <2>2. /\ pc' \in Steps /\ job' \in Jobs /\ todo' \in SUBSET Prios /\ count' \in 0..MaxPerTick
          /\ hand' \in Hands /\ (pc' = "send" <=> hand' # <<>>)
      BY <2>1, BeginsTypes DEF Jobs, Steps
    <2>3. OutInv'
      BY <1>1, <2>1, <2>2 DEF TInv, OutInv, ghosts
    <2>4. QED  BY <2>3, OutKeeps DEF TickFlush, ghosts
  <1>4. QED  BY <1>2, <1>3

LEMMA TickCloseTypes == ASSUME TInv, TickClose  PROVE TInv'
  <1>1. UNCHANGED <<threaded, mainVars, async, sending, writeClosed, outVars, up, ghosts>>
        /\ readClosed' = TRUE
    BY DEF TickClose
  <1>2. CASE writeClosed /\ ~sending
    <2>1. ClearQueues /\ inUse' = FALSE /\ current' = <<>> /\ needsFlush' = FALSE
      BY <1>2 DEF TickClose, ClearQueues, MayClash, ghosts
    <2>2. /\ queue' \in Queues /\ asyncQueue' \in Line /\ wire' \in Line
          /\ unsent' \in 0..Len(wire')
      BY <2>1, ClearQueuesType
    <2>3. current' \in Unders
      BY <2>1 DEF Unders, Batches
    <2>4. QED
      BY <1>1, <2>1, <2>2, <2>3
      DEF TInv, MainInv, OutInv, SlotInv, mainVars, outVars, ghosts
  <1>3. CASE ~(writeClosed /\ ~sending)
    <2>1. UNCHANGED <<inUse, queue, asyncQueue, current, wire, unsent, needsFlush>>
      BY <1>3 DEF TickClose
    <2>2. QED
      BY <1>1, <2>1 DEF TInv, MainInv, OutInv, SlotInv, mainVars, outVars, ghosts
  <1>4. QED  BY <1>2, <1>3

LEMMA PassTypes ==
    ASSUME TInv,
           \/ PassFlushes \/ \E prios \in SUBSET Prios : PassBegins(prios)
           \/ MarkWriteClosed
    PROVE  TInv'
  <1>1. ASSUME NEW what \in Jobs, NEW step \in Steps \ {"send"}, NEW prios \in SUBSET Prios,
               Begins(what, step, prios), pc # "send",
               needsFlush' \in BOOLEAN, writeClosed' \in BOOLEAN,
               UNCHANGED <<threaded, queue, mainVars, current, asyncQueue, wire, unsent, async,
                           sending, inUse, readClosed, up, ghosts>>
        PROVE  TInv'
    <2>1. /\ pc' \in Steps /\ job' \in Jobs /\ todo' \in SUBSET Prios /\ count' \in 0..MaxPerTick
          /\ hand' \in Hands /\ (pc' = "send" <=> hand' # <<>>)
      BY <1>1, BeginsTypes
    <2>2. OutInv'
      BY <1>1, <2>1 DEF TInv, OutInv, ghosts
    <2>3. QED  BY <1>1, <2>2, OutKeeps DEF ghosts
  <1>2. needsFlush \in BOOLEAN /\ writeClosed \in BOOLEAN
    BY DEF TInv, OutInv
  <1>3. /\ "output" \in Jobs /\ "flush" \in Jobs /\ Prios \in SUBSET Prios /\ {} \in SUBSET Prios
        /\ "queues" \in Steps \ {"send"} /\ "markWrite" \in Steps \ {"send"}
        /\ "idle" \in Steps \ {"send"}
    BY DEF Jobs, Steps
  <1>4. CASE PassFlushes
    <2>1. /\ Begins("flush", "queues", Prios) /\ pc # "send"
          /\ UNCHANGED <<threaded, queue, mainVars, current, asyncQueue, wire, unsent, slotVars,
                         up, ghosts>>
      BY <1>4 DEF PassFlushes, Runs
    <2>2. QED  BY <1>1, <1>2, <1>3, <2>1 DEF slotVars
  <1>5. ASSUME NEW prios \in SUBSET Prios, PassBegins(prios)  PROVE TInv'
    <2>1. /\ Begins("output", "markWrite", {}) \/ Begins("output", "queues", prios)
          /\ pc # "send"
          /\ UNCHANGED <<threaded, queue, mainVars, current, asyncQueue, wire, unsent, slotVars,
                         up, ghosts>>
      BY <1>5 DEF PassBegins, Runs
    <2>2. QED  BY <1>1, <1>2, <1>3, <2>1 DEF slotVars
  <1>6. CASE MarkWriteClosed
    <2>1. /\ Begins("output", "idle", {}) /\ pc # "send"
          /\ writeClosed' \in BOOLEAN /\ needsFlush' \in BOOLEAN
          /\ UNCHANGED <<threaded, queue, mainVars, current, asyncQueue, wire, unsent, async,
                         sending, inUse, readClosed, up, ghosts>>
      BY <1>6 DEF MarkWriteClosed, Runs
    <2>2. QED  BY <1>1, <1>3, <2>1
  <1>7. QED  BY <1>4, <1>5, <1>6

LEMMA QueueStepTypes == ASSUME TInv, QueuesDone \/ QueueLimit  PROVE TInv'
  <1>1. UNCHANGED <<threaded, queue, mainVars, current, asyncQueue, wire, unsent, slotVars, up,
                    ghosts>>
    BY DEF QueuesDone, QueueLimit
  <1>2. /\ pc' \in {"async", "queues"} /\ job' = job /\ hand' = hand /\ pc = "queues"
        /\ todo' \in SUBSET Prios /\ count' \in 0..MaxPerTick
    <2>1. 0 \in 0..MaxPerTick /\ todo \in SUBSET Prios
      BY Numbers, Raw
    <2>2. CASE QueuesDone
      BY <2>1, <2>2 DEF QueuesDone, Runs
    <2>3. CASE QueueLimit
      <3>1. todo' = {q \in todo : q < Highest}
        BY <2>3 DEF QueueLimit
      <3>2. todo' \in SUBSET Prios
        BY <2>1, <3>1
      <3>3. QED  BY <2>1, <2>3, <3>2 DEF QueueLimit, Runs
    <2>4. QED  BY <2>2, <2>3
  <1>3. OutInv'
    BY <1>1, <1>2 DEF TInv, OutInv, Steps, slotVars, ghosts
  <1>4. QED  BY <1>1, <1>3, OutKeeps DEF slotVars, ghosts

\* processPacketQueue() has a transaction to take from.
LEMMA TransactionType ==
    ASSUME TInv, Served # {}
    PROVE  /\ Transaction \in Seq(Packets)
           /\ current = <<>> => queue[Highest] # <<>> /\ queue[Highest] \in Seq(Seq(Packets))
           /\ current # <<>> => Len(current) = 1 /\ current[1] = Transaction
           /\ current = <<>> => Transaction = Head(queue[Highest])
  <1>1. Highest \in Prios /\ Highest \in Served
    BY HighestType
  <1>2. CASE current # <<>>
    <2>1. current \in Seq(Seq(Packets)) /\ Len(current) <= 1
      BY Raw
    <2>2. Len(current) = 1 /\ current[1] \in Seq(Packets)
      BY <1>2, <2>1, Pointed
    <2>3. QED  BY <1>2, <2>2 DEF Transaction
  <1>3. CASE current = <<>>
    <2>1. queue[Highest] # <<>> /\ queue[Highest] \in Seq(Seq(Packets))
      BY <1>1, <1>3, Raw DEF Served
    <2>2. Head(queue[Highest]) \in Seq(Packets)
      BY <2>1, HeadTailProperties
    <2>3. QED  BY <1>3, <2>1, <2>2 DEF Transaction
  <1>4. QED  BY <1>2, <1>3

\* A packet that is considered is dropped or goes on to sendPacket().
LEMMA ConsiderType ==
    ASSUME TInv, NEW p \in Packets, Consider(p), CanTake
    PROVE  /\ todo' \in SUBSET Prios /\ count' \in 0..MaxPerTick /\ job' = job
           /\ \/ hand' = <<>> /\ pc' = "queues" /\ (~CanReceive(p.pri) \/ MayRefuse(p))
              \/ hand' = <<p>> /\ pc' = "send" /\ CanReceive(p.pri)
  <1>1. Counted \in Nat /\ Counted < MaxPerTick
    BY Numbers, Raw DEF CanTake, Counted
  <1>2. pc = "queues" /\ hand = <<>>
    BY DEF CanTake, Runs, TInv, OutInv
  <1>3. todo' \in SUBSET Prios /\ job' = job
    BY Raw DEF Consider
  <1>4. count' = Counted \/ count' = Counted + 1
    BY DEF Consider
  <1>5. count' \in 0..MaxPerTick
    BY <1>1, <1>4, Numbers
  <1>6. QED
    BY <1>2, <1>3, <1>5 DEF Consider

LEMMA OneInHand ==
    ASSUME NEW p \in Packets
    PROVE  <<p>> \in Hands /\ <<p>> # <<>>
  <1>1. <<p>> \in Seq(Packets) /\ Len(<<p>>) = 1 /\ <<p>> # <<>>
    OBVIOUS
  <1>2. QED  BY <1>1 DEF Hands, Line

LEMMA NoneInHand == <<>> \in Hands /\ <<>> \in Unders
  BY DEF Hands, Line, Unders, Batches

LEMMA TakeQueueType ==
    ASSUME TInv, TakePacket
    PROVE  queue' \in Queues /\ clashed' \in BOOLEAN
  <1>1. CASE current # <<>>
    BY <1>1 DEF TakePacket, TInv, OutInv
  <1>2. CASE current = <<>>
    <2>1. Tail(queue[Highest]) \in Seq(Seq(Packets)) /\ Highest \in Prios
      BY <1>2, TransactionType, HighestType, HeadTailProperties DEF TakePacket, CanTake
    <2>2. \/ queue' = [queue EXCEPT ![Highest] = Tail(@)] /\ clashed' = clashed
          \/ queue' = queue /\ clashed' = TRUE
      BY <1>2 DEF TakePacket, Popped, Clash
    <2>3. queue \in Queues /\ clashed \in BOOLEAN
      BY DEF TInv, OutInv
    <2>4. QED  BY <2>1, <2>2, <2>3 DEF Queues, Batches
  <1>3. QED  BY <1>1, <1>2

\* What is left of the transaction stays under way.
LEMMA TakeCurrentType ==
    ASSUME TInv, TakePacket, Transaction # <<>>
    PROVE  /\ current' \in Unders /\ Head(Transaction) \in Packets
           /\ Transaction \in Seq(Packets)
           /\ current' = IF Len(Transaction) = 1 THEN <<>> ELSE <<Tail(Transaction)>>
           /\ Consider(Head(Transaction)) /\ up' \in BOOLEAN /\ CanTake
  <1>1. /\ current' = IF Len(Transaction) = 1 THEN <<>> ELSE <<Tail(Transaction)>>
        /\ Consider(Head(Transaction)) /\ up' \in BOOLEAN /\ CanTake
    BY DEF TakePacket, TInv, OutInv
  <1>2. Transaction \in Seq(Packets)
    BY <1>1, TransactionType DEF CanTake
  <1>3. Head(Transaction) \in Packets /\ Tail(Transaction) \in Seq(Packets)
    BY <1>2, HeadTailProperties
  <1> DEFINE r == Tail(Transaction)
  <1>4. <<r>> \in Seq(Seq(Packets)) /\ Len(<<r>>) = 1
    BY <1>3
  <1>5. current' \in Unders
    BY <1>1, <1>4, NoneInHand DEF Unders, Batches
  <1>6. QED  BY <1>1, <1>2, <1>3, <1>5

LEMMA TakePacketTypes == ASSUME TInv, TakePacket  PROVE TInv'
  <1>1. UNCHANGED <<threaded, mainVars, asyncQueue, wire, unsent, slotVars, broken>>
    BY DEF TakePacket
  <1>2. queue' \in Queues /\ clashed' \in BOOLEAN
    BY TakeQueueType
  <1>3. CASE Transaction = <<>>
    <2>1. current' = <<>> /\ up' \in BOOLEAN /\ UNCHANGED outVars
      BY <1>3 DEF TakePacket
    <2>2. OutInv'
      BY <1>1, <1>2, <2>1, NoneInHand DEF TInv, OutInv, outVars, slotVars
    <2>3. QED  BY <1>1, <2>2, OutKeeps DEF slotVars
  <1>4. CASE Transaction # <<>>
    <2> DEFINE p == Head(Transaction)
    <2>1. current' \in Unders /\ p \in Packets /\ Consider(p) /\ up' \in BOOLEAN /\ CanTake
      BY <1>4, TakeCurrentType
    <2> HIDE DEF p
    <2>2. /\ todo' \in SUBSET Prios /\ count' \in 0..MaxPerTick /\ job' = job
          /\ \/ hand' = <<>> /\ pc' = "queues"
             \/ hand' = <<p>> /\ pc' = "send"
      BY <2>1, ConsiderType
    <2>3. hand' \in Hands /\ pc' \in Steps /\ (pc' = "send" <=> hand' # <<>>)
      BY <2>1, <2>2, OneInHand, NoneInHand DEF Steps
    <2>4. OutInv'
      BY <1>1, <1>2, <2>1, <2>2, <2>3 DEF TInv, OutInv, slotVars
    <2>5. QED  BY <1>1, <2>4, OutKeeps DEF slotVars
  <1>5. QED  BY <1>3, <1>4

LEMMA SendDataType ==
    ASSUME TInv, NEW p \in Packets, SendData(p)
    PROVE  wire' \in Line /\ unsent' \in 0..Len(wire')
  <1>1. wire \in Seq(Packets) /\ unsent \in 0..Len(wire) /\ Len(wire) \in Nat
    BY Raw
  <1>2. Append(wire, p) \in Seq(Packets) /\ Len(Append(wire, p)) = Len(wire) + 1
    BY <1>1
  <1>3. QED  BY <1>1, <1>2 DEF SendData, Line

LEMMA InHand ==
    ASSUME TInv, pc = "send"
    PROVE  hand[1] \in Packets /\ hand = <<hand[1]>> /\ Len(hand) = 1
  <1>1. hand \in Seq(Packets) /\ Len(hand) <= 1 /\ hand # <<>>
    BY Raw DEF TInv, OutInv
  <1>2. QED  BY <1>1, Pointed

\* sendPacket() takes one of three ways.
Lost ==
    /\ ClearQueues /\ pc' = "markWrite" /\ hand' = <<>> /\ broken' \in BOOLEAN
    /\ UNCHANGED owed

ToAsync(p) ==
    /\ asyncQueue' = Append(asyncQueue, p) /\ pc' = "queues" /\ hand' = <<>>
    /\ MayClash /\ UNCHANGED <<queue, wire, unsent, owed, broken>>

ToWire(p) ==
    /\ SendData(p) /\ pc' = "queues" /\ hand' = <<>>
    /\ UNCHANGED <<queue, asyncQueue, broken, clashed>>

LEMMA SendPacketWays ==
    ASSUME TInv, SendPacket
    PROVE  /\ pc = "send" /\ hand[1] \in Packets /\ hand = <<hand[1]>>
           /\ UNCHANGED <<threaded, mainVars, current, slotVars, job, todo, count, up>>
           /\ \/ Lost /\ (broken' = TRUE \/ (broken' = broken /\ ~CanReceive(hand[1].pri)))
              \/ ToAsync(hand[1]) /\ async
              \/ ToWire(hand[1]) /\ ~async
  <1>1. broken \in BOOLEAN /\ pc = "send"
    BY DEF TInv, OutInv, SendPacket, Runs
  <1>2. hand[1] \in Packets /\ hand = <<hand[1]>>
    BY <1>1, InHand
  <1>3. UNCHANGED <<threaded, mainVars, current, slotVars, job, todo, count, up>>
    BY DEF SendPacket
  <1>4. CASE ~CanReceive(hand[1].pri)
    <2>1. ClearQueues /\ pc' = "markWrite" /\ hand' = <<>> /\ broken' = broken
          /\ UNCHANGED owed
      BY <1>4 DEF SendPacket
    <2>2. QED  BY <1>1, <1>2, <1>3, <1>4, <2>1 DEF Lost
  <1>5. CASE CanReceive(hand[1].pri) /\ async
    <2>1. ToAsync(hand[1])
      BY <1>5 DEF SendPacket, ToAsync
    <2>2. QED  BY <1>1, <1>2, <1>3, <1>5, <2>1
  <1>6. CASE CanReceive(hand[1].pri) /\ ~async
    <2>1. ToWire(hand[1]) \/ SendDataFails
      BY <1>6 DEF SendPacket, ToWire
    <2>2. SendDataFails => Lost /\ broken' = TRUE
      BY DEF SendDataFails, Lost
    <2>3. QED  BY <1>1, <1>2, <1>3, <1>6, <2>1, <2>2
  <1>7. QED  BY <1>4, <1>5, <1>6

LEMMA SendPacketTypes == ASSUME TInv, SendPacket  PROVE TInv'
  <1>1. /\ hand[1] \in Packets
        /\ UNCHANGED <<threaded, mainVars, current, slotVars, job, todo, count, up>>
    BY SendPacketWays
  <1>2. CASE Lost
    <2>1. /\ queue' \in Queues /\ asyncQueue' \in Line /\ wire' \in Line
          /\ unsent' \in 0..Len(wire') /\ clashed' \in BOOLEAN
      BY <1>2, ClearQueuesType DEF Lost
    <2>2. OutInv'
      BY <1>1, <1>2, <2>1, NoneInHand DEF Lost, TInv, OutInv, slotVars, Steps
    <2>3. QED  BY <1>1, <2>2, OutKeeps DEF slotVars
  <1>3. CASE ToAsync(hand[1])
    <2>1. Append(asyncQueue, hand[1]) \in Line /\ clashed' \in BOOLEAN
      BY <1>1, <1>3, Raw, ClashType DEF Line, ToAsync
    <2>2. OutInv'
      BY <1>1, <1>3, <2>1, NoneInHand DEF ToAsync, TInv, OutInv, slotVars, Steps
    <2>3. QED  BY <1>1, <2>2, OutKeeps DEF slotVars
  <1>4. CASE ToWire(hand[1])
    <2>1. wire' \in Line /\ unsent' \in 0..Len(wire')
      BY <1>1, <1>4, SendDataType DEF ToWire
    <2>2. OutInv'
      BY <1>1, <1>4, <2>1, NoneInHand DEF ToWire, TInv, OutInv, slotVars, Steps
    <2>3. QED  BY <1>1, <2>2, OutKeeps DEF slotVars
  <1>5. QED  BY <1>2, <1>3, <1>4, SendPacketWays

\* processAsyncQueue() takes its first packet, or nothing.
AsyncSends ==
    /\ asyncQueue # <<>> /\ SendData(Head(asyncQueue)) /\ AsyncPopped
    /\ Goto("bytes") /\ UNCHANGED <<queue, broken>>

AsyncDrops ==
    /\ asyncQueue # <<>> /\ AsyncPopped
    /\ ~CanReceive(Head(asyncQueue).pri) \/ MayRefuse(Head(asyncQueue))
    /\ Goto("async") /\ UNCHANGED <<queue, wire, unsent, owed, broken>>

AsyncWaits == Goto("bytes") /\ UNCHANGED <<queue, asyncQueue, wire, unsent, ghosts>>

AsyncFails == SendDataFails /\ UNCHANGED <<job, todo, count>>

LEMMA AsyncWays ==
    ASSUME TInv, ProcessAsyncQueue
    PROVE  /\ pc = "async" /\ hand = <<>>
           /\ UNCHANGED <<threaded, mainVars, current, slotVars, up>>
           /\ asyncQueue # <<>> =>
                Head(asyncQueue) \in Packets /\ Tail(asyncQueue) \in Line
           /\ asyncQueue # <<>> /\ AsyncPopped =>
                asyncQueue' \in Line /\ clashed' \in BOOLEAN
           /\ AsyncSends \/ AsyncDrops \/ AsyncWaits \/ AsyncFails
  <1>1. pc = "async" /\ hand = <<>>
    BY DEF ProcessAsyncQueue, Runs, TInv, OutInv
  <1>2. asyncQueue # <<>> => Head(asyncQueue) \in Packets /\ Tail(asyncQueue) \in Line
    BY Raw, HeadTailProperties DEF Line
  <1>3. UNCHANGED <<threaded, mainVars, current, slotVars, up>>
    BY DEF ProcessAsyncQueue
  <1>4. AsyncSends \/ AsyncDrops \/ AsyncWaits \/ AsyncFails
    BY Zenon DEF ProcessAsyncQueue, AsyncSends, AsyncDrops, AsyncWaits, AsyncFails
  <1>5. asyncQueue # <<>> /\ AsyncPopped => asyncQueue' \in Line /\ clashed' \in BOOLEAN
    BY <1>2 DEF AsyncPopped, Clash, TInv, OutInv
  <1>6. QED  BY <1>1, <1>2, <1>3, <1>4, <1>5

LEMMA ProcessAsyncQueueTypes == ASSUME TInv, ProcessAsyncQueue  PROVE TInv'
  <1>1. /\ pc = "async" /\ hand = <<>>
        /\ UNCHANGED <<threaded, mainVars, current, slotVars, up>>
    BY AsyncWays
  <1>2. CASE AsyncSends
    <2>1. Head(asyncQueue) \in Packets /\ asyncQueue' \in Line /\ clashed' \in BOOLEAN
      BY <1>2, AsyncWays DEF AsyncSends
    <2>2. wire' \in Line /\ unsent' \in 0..Len(wire')
      BY <1>2, <2>1, SendDataType DEF AsyncSends
    <2>3. OutInv'
      BY <1>1, <1>2, <2>1, <2>2 DEF AsyncSends, Goto, TInv, OutInv, slotVars, Steps
    <2>4. QED  BY <1>1, <2>3, OutKeeps DEF slotVars
  <1>3. CASE AsyncDrops
    <2>1. asyncQueue' \in Line /\ clashed' \in BOOLEAN
      BY <1>3, AsyncWays DEF AsyncDrops
    <2>2. OutInv'
      BY <1>1, <1>3, <2>1 DEF AsyncDrops, Goto, TInv, OutInv, slotVars, Steps
    <2>3. QED  BY <1>1, <2>2, OutKeeps DEF slotVars
  <1>4. CASE AsyncWaits
    <2>1. OutInv'
      BY <1>1, <1>4 DEF AsyncWaits, Goto, TInv, OutInv, slotVars, ghosts, Steps
    <2>2. QED  BY <1>1, <2>1, OutKeeps DEF slotVars
  <1>5. CASE AsyncFails
    <2>1. /\ queue' \in Queues /\ asyncQueue' \in Line /\ wire' \in Line
          /\ unsent' \in 0..Len(wire') /\ clashed' \in BOOLEAN
      BY <1>5, ClearQueuesType DEF AsyncFails, SendDataFails
    <2>2. OutInv'
      BY <1>1, <1>5, <2>1, NoneInHand
      DEF AsyncFails, SendDataFails, TInv, OutInv, slotVars, Steps
    <2>3. QED  BY <1>1, <2>2, OutKeeps DEF slotVars
  <1>6. QED  BY <1>2, <1>3, <1>4, <1>5, AsyncWays

LEMMA ProcessByteQueueTypes == ASSUME TInv, ProcessByteQueue  PROVE TInv'
  <1>1. /\ pc = "bytes" /\ hand = <<>> /\ hand' = <<>>
        /\ UNCHANGED <<threaded, mainVars, current, async, sending, inUse, readClosed,
                       writeClosed, todo, count, up, owed>>
    BY DEF ProcessByteQueue, Runs, TInv, OutInv
  <1>2. CASE /\ unsent' \in 0..unsent
             /\ pc' = AfterDrain /\ needsFlush' = (needsFlush /\ job # "flush")
             /\ job' = "output" /\ UNCHANGED <<queue, asyncQueue, wire, broken, clashed>>
    <2>1. unsent' \in 0..Len(wire')
      BY <1>2, Raw
    <2>2. OutInv'
      BY <1>1, <1>2, <2>1 DEF TInv, OutInv, AfterDrain, Steps, Jobs
    <2>3. QED  BY <1>1, <2>2, OutKeeps
  <1>3. CASE ClearQueues /\ broken' = TRUE /\ pc' = "markWrite" /\ UNCHANGED <<job, needsFlush>>
    <2>1. /\ queue' \in Queues /\ asyncQueue' \in Line /\ wire' \in Line
          /\ unsent' \in 0..Len(wire') /\ clashed' \in BOOLEAN
      BY <1>3, ClearQueuesType
    <2>2. OutInv'
      BY <1>1, <1>3, <2>1 DEF TInv, OutInv, Steps
    <2>3. QED  BY <1>1, <2>2, OutKeeps
  <1>4. QED  BY <1>2, <1>3 DEF ProcessByteQueue

LEMMA TInvInit == Init => TInv
  <1> SUFFICES ASSUME Init  PROVE TInv
    OBVIOUS
  <1>1. NoQueues \in Queues /\ <<>> \in Opens /\ <<>> \in Line /\ 0 \in 0..Len(<<>>)
    BY DEF NoQueues, Queues, Batches, Opens, Line
  <1>2. 0 \in 0..MaxPackets /\ 0 \in 0..MaxEmpty /\ 0 \in 0..MaxPerTick
    BY Numbers
  <1>3. async \in BOOLEAN /\ sending \in BOOLEAN /\ threaded \in BOOLEAN
    BY ConstantsAssumption DEF Init
  <1>4. QED
    BY <1>1, <1>2, <1>3, NoneInHand
    DEF Init, TInv, MainInv, OutInv, SlotInv, Steps, Jobs

LEMMA TInvNext == TInv /\ [Next]_vars => TInv'
  <1> SUFFICES ASSUME TInv, [Next]_vars  PROVE TInv'
    OBVIOUS
  <1>1. CASE Game
    BY <1>1, AppendPacketTypes, RefusePacketTypes, QueuePacketTypes, BeginTransactionTypes,
       EndTransactionTypes, FlagTypes DEF Game
  <1>2. CASE TickFlush  BY <1>2, TickFlushTypes
  <1>3. CASE TickClose  BY <1>3, TickCloseTypes
  <1>4. CASE Output
    BY <1>4, PassTypes, QueueStepTypes, TakePacketTypes, SendPacketTypes,
       ProcessAsyncQueueTypes, ProcessByteQueueTypes DEF Output
  <1>5. CASE AsyncReady  BY <1>5, FlagTypes
  <1>6. CASE UNCHANGED vars
    BY <1>6 DEF vars, TInv, MainInv, OutInv, SlotInv, mainVars, slotVars, outVars, ghosts
  <1>7. QED  BY <1>1, <1>2, <1>3, <1>4, <1>5, <1>6 DEF Next

LEMMA TInvAlways == Spec => []TInv
  BY TInvInit, TInvNext, PTL DEF Spec

\* Types, for every number of priorities and packets: in particular a queue is
\* always found for a transaction, and the byte queue never counts more packets
\* than it has.
THEOREM TypesKept == Spec => []TypeOK
  BY TInvTypes, TInvAlways, PTL
-----------------------------------------------------------------------------
(* A kick is sent. *)

LEMMA UnderType ==
    ASSUME TInv
    PROVE  Under \in Seq(Packets) /\ hand \in Seq(Packets) /\ asyncQueue \in Seq(Packets)
           /\ wire \in Seq(Packets)
  <1>1. current # <<>> => current[1] \in Seq(Packets)
    BY Raw, Pointed
  <1>2. QED  BY <1>1, Raw DEF Under

Sent == {wire[i].n : i \in 1..(Len(wire) - unsent)}

\* What is owed has been sent, or waits with the disconnect priority.
OwedSafe ==
    \A n \in owed : (\E p \in Held : p.pri = Top /\ p.n = n) \/ (\E p \in Range(wire) : p.n = n)

\* Why the kick is sent.  Without network threads nothing closes the connection
\* while the output routine runs, so what was allowed stays allowed, and it is
\* closed for writing only when nothing waits any more.
DInv ==
    /\ writeClosed => pc = "idle"
    /\ ~async => asyncQueue = <<>>
    /\ ~threaded /\ pc = "send" => CanReceive(hand[1].pri)
    /\ ~threaded /\ ~broken /\ pc = "markWrite" => readClosed /\ ~HasPendingData
    /\ ~threaded /\ ~broken /\ writeClosed => readClosed /\ owed \subseteq Sent
    /\ ~threaded /\ ~broken /\ ~writeClosed => OwedSafe

\* No packet of the disconnect priority is lost by a step, unless it is refused.
HeldStays ==
    /\ \A p \in Held : p.pri = Top => p \in Held' \/ p \in Range(wire)' \/ p.n \notin owed'
    /\ \A p \in Range(wire) : p \in Range(wire)'

LEMMA SafeStays ==
    ASSUME OwedSafe, HeldStays, owed' \subseteq owed
    PROVE  OwedSafe'
  <1>1. ASSUME NEW n \in owed'
        PROVE  (\E p \in Held' : p.pri = Top /\ p.n = n) \/ (\E p \in Range(wire)' : p.n = n)
    <2>1. CASE \E p \in Held : p.pri = Top /\ p.n = n
      BY <2>1 DEF HeldStays
    <2>2. CASE \E p \in Range(wire) : p.n = n
      BY <2>2 DEF HeldStays
    <2>3. QED  BY <2>1, <2>2 DEF OwedSafe
  <1>2. QED  BY <1>1 DEF OwedSafe

\* Steps of the game put packets into queues and change nothing else here.
LEMMA MainD ==
    ASSUME TInv, DInv, HeldStays, MainRuns,
           UNCHANGED <<threaded, asyncQueue, wire, unsent, slotVars, outVars, ghosts>>
    PROVE  DInv'
  <1>1. ~threaded => pc = "idle"
    BY DEF MainRuns
  <1>2. Sent' = Sent
    BY DEF Sent
  <1>3. ~threaded /\ ~broken /\ ~writeClosed => OwedSafe'
    BY SafeStays DEF DInv, ghosts
  <1>4. QED
    BY <1>1, <1>2, <1>3 DEF DInv, slotVars, outVars, ghosts

\* A transaction more in a queue.
LEMMA CommitHeld ==
    ASSUME TInv, NEW packets \in Seq(Packets), NEW q \in Prios, Commit(packets, q),
           UNCHANGED <<asyncQueue, hand, current, wire>>
    PROVE  HeldStays
  <1> DEFINE m == Marked(packets, commits + 1, q)
  <1>1. /\ queue \in [Prios -> Seq(Seq(Packets))] /\ queue' = [queue EXCEPT ![q] = Append(@, m)]
        /\ m \in Seq(Packets)
    BY Raw, CommitType, MarkedType
  <1> HIDE DEF m
  <1>2. Queued(queue[Top]) \subseteq Queued(queue'[Top])
    <2>1. CASE q = Top
      <3>1. queue'[Top] = Append(queue[Top], m) /\ queue[Top] \in Seq(Seq(Packets))
        BY <1>1, <2>1
      <3>2. \A i \in DOMAIN queue[Top] :
               i \in DOMAIN queue'[Top] /\ queue'[Top][i] = queue[Top][i]
        BY <1>1, <3>1
      <3>3. QED  BY <3>2 DEF Queued
    <2>2. CASE q # Top
      BY <1>1, <2>2, Numbers
    <2>3. QED  BY <2>1, <2>2
  <1>3. Under' = Under
    BY DEF Under
  <1>4. QED  BY <1>2, <1>3 DEF HeldStays, Held

LEMMA SameHeld ==
    ASSUME UNCHANGED <<queue, asyncQueue, hand, current, wire>>
    PROVE  HeldStays
  BY DEF HeldStays, Held, Under

LEMMA EndPendingHeld ==
    ASSUME TInv, EndPending, UNCHANGED <<asyncQueue, hand, current, wire>>
    PROVE  HeldStays
  <1>1. CASE pending = <<>> \/ writeClosed
    BY <1>1, SameHeld DEF EndPending
  <1>2. CASE pending # <<>> /\ ~writeClosed
    <2> DEFINE ps == pending[1].packets
               q == QueueFor(pending[1].pri)
    <2>1. Commit(ps, q)
      BY <1>2 DEF EndPending
    <2>2. ps \in Seq(Packets) /\ q \in Prios
      BY <1>2, OpenedType, QueueForType
    <2> HIDE DEF ps, q
    <2>3. QED  BY <2>1, <2>2, CommitHeld
  <1>3. QED  BY <1>1, <1>2

LEMMA GameD == ASSUME TInv, DInv, Game  PROVE DInv'
  <1>1. ASSUME NEW pri \in Prios, AppendPacket(pri) \/ RefusePacket(pri)  PROVE DInv'
    <2>1. /\ MainRuns
          /\ UNCHANGED <<threaded, queue, current, asyncQueue, wire, unsent, slotVars, outVars,
                         ghosts>>
      BY <1>1 DEF AppendPacket, RefusePacket
    <2>2. HeldStays
      BY <2>1, SameHeld DEF outVars
    <2>3. QED  BY <2>1, <2>2, MainD
  <1>2. ASSUME NEW pri \in Prios, QueuePacket(pri)  PROVE DInv'
    <2> DEFINE q == QueueFor(pri)
               p == [Made(pri) EXCEPT !.pri = q]
    <2>1. /\ MainRuns /\ made < MaxPackets /\ Commit(<<p>>, q)
          /\ UNCHANGED <<threaded, current, asyncQueue, wire, unsent, slotVars, outVars, ghosts>>
      BY <1>2 DEF QueuePacket
    <2>2. q \in Prios
      BY QueueForType
    <2> HIDE DEF q
    <2>3. p \in Packets
      BY <2>1, <2>2, MadeType DEF Packets
    <2> HIDE DEF p
    <2>4. <<p>> \in Seq(Packets)
      BY <2>3
    <2>5. HeldStays
      BY <2>1, <2>2, <2>4, CommitHeld DEF outVars
    <2>6. QED  BY <2>1, <2>5, MainD
  <1>3. ASSUME \/ \E pri \in Prios : BeginTransaction(pri)
               \/ EndTransaction
        PROVE  DInv'
    <2>1. /\ MainRuns /\ EndPending
          /\ UNCHANGED <<threaded, current, asyncQueue, wire, unsent, slotVars, outVars, ghosts>>
      BY <1>3 DEF BeginTransaction, EndTransaction
    <2>2. HeldStays
      BY <2>1, EndPendingHeld DEF outVars
    <2>3. QED  BY <2>1, <2>2, MainD
  <1>4. CASE MarkReadClosed
    <2>1. /\ MainRuns /\ ~readClosed /\ readClosed' = TRUE
          /\ owed' = IF threaded THEN {} ELSE {p.n : p \in Waiting}
          /\ UNCHANGED <<threaded, queue, current, asyncQueue, wire, unsent, async, inUse,
                         writeClosed, outVars, broken>>
      BY <1>4 DEF MarkReadClosed
    <2>2. ~threaded => pc = "idle"
      BY <2>1 DEF MainRuns
    <2>3. Held' = Held
      BY <2>1 DEF Held, Under, outVars
    <2>4. ~threaded => OwedSafe'
      <3>1. ASSUME ~threaded, NEW n \in owed'  PROVE \E p \in Held : p.pri = Top /\ p.n = n
        BY <2>1, <3>1 DEF Waiting
      <3>2. QED  BY <2>3, <3>1 DEF OwedSafe
    <2>5. QED
      BY <2>1, <2>2, <2>4 DEF DInv, outVars
  <1>5. CASE DetectAsync
    <2>1. /\ MainRuns /\ async' = TRUE
          /\ UNCHANGED <<threaded, queue, current, asyncQueue, wire, unsent, inUse, readClosed,
                         writeClosed, outVars, ghosts>>
      BY <1>5 DEF DetectAsync
    <2>2. HeldStays
      BY <2>1, SameHeld DEF outVars
    <2>3. ~threaded => pc = "idle"
      BY <2>1 DEF MainRuns
    <2>4. ~threaded /\ ~broken /\ ~writeClosed => OwedSafe'
      BY <2>1, <2>2, SafeStays DEF DInv, ghosts
    <2>5. Sent' = Sent
      BY <2>1 DEF Sent
    <2>6. QED
      BY <2>1, <2>3, <2>4, <2>5 DEF DInv, outVars, ghosts
  <1>6. QED  BY <1>1, <1>2, <1>3, <1>4, <1>5 DEF Game

\* A connection that is cleared keeps what the socket took of its bytes.
LEMMA TickD == ASSUME TInv, DInv, TickFlush \/ TickClose  PROVE DInv'
  <1>1. CASE TickFlush
    <2>1. /\ MainRuns /\ HasPendingData
          /\ UNCHANGED <<threaded, queue, current, asyncQueue, wire, unsent, async, inUse,
                         readClosed, writeClosed, ghosts, hand>>
          /\ (pc' = pc \/ pc' = "queues") /\ (threaded => pc' = pc)
      BY <1>1 DEF TickFlush, TickRuns, Begins, outVars
    <2>2. ~writeClosed /\ (~threaded => pc = "idle")
      BY <2>1 DEF HasPendingData, MainRuns
    <2>3. HeldStays
      BY <2>1, SameHeld
    <2>4. ~threaded /\ ~broken => OwedSafe'
      BY <2>1, <2>2, <2>3, SafeStays DEF DInv, ghosts
    <2>5. QED
      BY <2>1, <2>2, <2>4 DEF DInv, ghosts
  <1>2. CASE TickClose
    <2>1. /\ MainRuns /\ readClosed' = TRUE
          /\ UNCHANGED <<threaded, async, writeClosed, outVars, ghosts>>
      BY <1>2 DEF TickClose, TickRuns
    <2>2. ~threaded => pc = "idle"
      BY <2>1 DEF MainRuns
    <2>3. CASE writeClosed /\ ~sending
      <3>1. ClearQueues /\ unsent' = 0
        BY <1>2, <2>3 DEF TickClose, ClearQueues, MayClash, ghosts
      <3>2. Sent' = Sent
        <4>1. Len(wire') = Len(wire) - unsent /\ \A i \in 1..Len(wire') : wire'[i] = wire[i]
          BY <3>1, ClearQueuesType
        <4>2. Len(wire') - unsent' = Len(wire) - unsent
          BY <3>1, <4>1, Raw
        <4>3. QED  BY <4>1, <4>2 DEF Sent
      <3>3. asyncQueue' = <<>>
        BY <3>1 DEF ClearQueues
      <3>4. QED  BY <2>1, <2>2, <2>3, <3>2, <3>3 DEF DInv, outVars, ghosts
    <2>4. CASE ~(writeClosed /\ ~sending)
      <3>1. UNCHANGED <<inUse, queue, asyncQueue, current, wire, unsent>>
        BY <1>2, <2>4 DEF TickClose
      <3>2. HeldStays
        BY <2>1, <3>1, SameHeld DEF outVars
      <3>3. ~threaded /\ ~broken /\ ~writeClosed => OwedSafe'
        BY <2>1, <3>2, SafeStays DEF DInv, ghosts
      <3>4. Sent' = Sent
        BY <3>1 DEF Sent
      <3>5. QED  BY <2>1, <2>2, <3>1, <3>3, <3>4 DEF DInv, outVars, ghosts
    <2>5. QED  BY <2>3, <2>4
  <1>3. QED  BY <1>1, <1>2

\* A step of the output routine, until it closes the connection for writing.
LEMMA OutD ==
    ASSUME TInv, DInv, ~writeClosed,
           UNCHANGED <<threaded, async, inUse, readClosed, writeClosed>>, owed' \subseteq owed,
           ~async => asyncQueue' = <<>>,
           ~threaded /\ pc' = "send" => CanReceive(hand'[1].pri),
           ~threaded /\ ~broken' /\ pc' = "markWrite" => readClosed /\ ~HasPendingData',
           ~threaded /\ ~broken' => ~broken /\ HeldStays
    PROVE  DInv'
  <1>1. ~threaded /\ ~broken' => OwedSafe'
    BY SafeStays DEF DInv
  <1>2. ~threaded /\ pc' = "send" => CanReceive(hand[1].pri)'
    BY DEF CanReceive, Closing
  <1>3. QED  BY <1>1, <1>2 DEF DInv

LEMMA NotIdle == ASSUME DInv, pc # "idle"  PROVE ~writeClosed
  BY DEF DInv

LEMMA PassD ==
    ASSUME TInv, DInv, PassFlushes \/ \E prios \in SUBSET Prios : PassBegins(prios)
    PROVE  DInv'
  <1>1. /\ ~writeClosed
        /\ UNCHANGED <<queue, current, asyncQueue, wire, unsent, hand, threaded, async, inUse,
                       readClosed, writeClosed, ghosts>>
    BY DEF PassFlushes, PassBegins, Begins, slotVars
  <1>2. pc' = "queues" \/ (pc' = "markWrite" /\ Closing /\ ~HasPendingData)
    BY DEF PassFlushes, PassBegins, Begins
  <1>3. HeldStays
    BY <1>1, SameHeld
  <1>4. HasPendingData' = HasPendingData /\ (Closing => readClosed)
    BY <1>1 DEF HasPendingData, Closing
  <1>5. ~async => asyncQueue' = <<>>
    BY <1>1 DEF DInv
  <1>6. QED
    BY <1>1, <1>2, <1>3, <1>4, <1>5, OutD DEF ghosts

\* It is closed for writing when nothing waits: all has been sent.
LEMMA MarkWriteD == ASSUME TInv, DInv, MarkWriteClosed  PROVE DInv'
  <1>1. /\ pc = "markWrite" /\ inUse /\ writeClosed' = TRUE /\ pc' = "idle"
        /\ UNCHANGED <<queue, current, asyncQueue, wire, unsent, hand, threaded, async,
                       readClosed, ghosts>>
    BY DEF MarkWriteClosed, Runs, Begins
  <1>2. ~writeClosed
    BY <1>1, NotIdle
  <1>3. ASSUME ~threaded, ~broken  PROVE readClosed /\ owed \subseteq Sent
    <2>1. readClosed /\ ~HasPendingData /\ OwedSafe
      BY <1>1, <1>2, <1>3 DEF DInv
    <2>2. /\ queue[Top] = <<>> /\ ~(async /\ asyncQueue # <<>>) /\ ~(unsent > 0)
          /\ current = <<>>
      BY <1>1, <1>2, <2>1 DEF HasPendingData, Closing
    <2>3. asyncQueue = <<>> /\ hand = <<>> /\ Under = <<>> /\ unsent = 0
      BY <1>1, <2>2, Raw DEF DInv, TInv, OutInv, Under
    <2>4. Held = {}
      <3>1. DOMAIN queue[Top] = {} /\ DOMAIN asyncQueue = {} /\ DOMAIN hand = {}
            /\ DOMAIN Under = {}
        BY <2>2, <2>3
      <3>2. QED  BY <3>1 DEF Held, Queued, Range
    <2>5. ASSUME NEW n \in owed  PROVE n \in Sent
      <3>1. PICK p \in Range(wire) : p.n = n
        BY <2>1, <2>4 DEF OwedSafe
      <3>2. PICK i \in DOMAIN wire : p = wire[i]
        BY DEF Range
      <3>3. i \in 1..(Len(wire) - unsent)
        BY <2>3, <3>2, Raw, LenProperties
      <3>4. QED  BY <3>1, <3>2, <3>3 DEF Sent
    <2>6. QED  BY <2>1, <2>5
  <1>4. Sent' = Sent
    BY <1>1 DEF Sent
  <1>5. QED  BY <1>1, <1>3, <1>4 DEF DInv, ghosts

LEMMA QueueStepD == ASSUME TInv, DInv, QueuesDone \/ QueueLimit  PROVE DInv'
  <1>1. /\ pc = "queues" /\ pc' \in {"async", "queues"}
        /\ UNCHANGED <<queue, current, asyncQueue, wire, unsent, hand, threaded, async, inUse,
                       readClosed, writeClosed, ghosts>>
    BY DEF QueuesDone, QueueLimit, Runs, slotVars
  <1>2. HeldStays /\ ~writeClosed
    BY <1>1, SameHeld, NotIdle
  <1>3. ~async => asyncQueue' = <<>>
    BY <1>1 DEF DInv
  <1>4. QED  BY <1>1, <1>2, <1>3, OutD DEF ghosts

LEMMA RangeEmpty == Range(<<>>) = {}
  BY DEF Range

\* One element more at the end, or less at the front.
LEMMA RangeAppend ==
    ASSUME NEW S, NEW t \in Seq(S), NEW e \in S
    PROVE  Range(Append(t, e)) = Range(t) \cup {e}
  <1>1. Append(t, e) = t \o <<e>> /\ <<e>> \in Seq(S)
    BY AppendIsConcat
  <1>2. Range(<<e>>) = {e}
    BY DEF Range
  <1>3. Range(t \o <<e>>) = Range(t) \cup Range(<<e>>)
    BY <1>1, RangeConcatenation
  <1>4. QED  BY <1>1, <1>2, <1>3

LEMMA RangeHeadTail ==
    ASSUME NEW S, NEW t \in Seq(S), t # <<>>
    PROVE  Range(t) = {Head(t)} \cup Range(Tail(t))
  <1>1. /\ Tail(t) \in Seq(S) /\ Len(Tail(t)) = Len(t) - 1 /\ Len(t) \in Nat \ {0}
        /\ \A i \in 1..Len(Tail(t)) : Tail(t)[i] = t[i + 1]
    BY HeadTailProperties, EmptySeq
  <1>2. Range(t) = {t[i] : i \in 1..Len(t)}
        /\ Range(Tail(t)) = {Tail(t)[i] : i \in 1..Len(Tail(t))}
    BY <1>1, RangeEquality
  <1>3. Head(t) = t[1]
    OBVIOUS
  <1>4. \A i \in 1..Len(t) : i = 1 \/ (i - 1 \in 1..Len(Tail(t)) /\ Tail(t)[i - 1] = t[i])
    BY <1>1
  <1>5. \A i \in 1..Len(Tail(t)) : i + 1 \in 1..Len(t) /\ Tail(t)[i] = t[i + 1]
    BY <1>1
  <1>6. 1 \in 1..Len(t)
    BY <1>1
  <1>7. Range(t) \subseteq {Head(t)} \cup Range(Tail(t))
    BY <1>2, <1>3, <1>4
  <1>8. {Head(t)} \cup Range(Tail(t)) \subseteq Range(t)
    BY <1>2, <1>3, <1>5, <1>6
  <1>9. QED  BY <1>7, <1>8

\* All of a queue is its first transaction and the others.
LEMMA QueuedHeadTail ==
    ASSUME NEW q \in Seq(Seq(Packets)), q # <<>>
    PROVE  Queued(q) = Range(Head(q)) \cup Queued(Tail(q))
  <1>1. ASSUME NEW u  PROVE Queued(u) = UNION {Range(r) : r \in Range(u)}
    <2>1. \A r : r \in Range(u) <=> \E i \in DOMAIN u : r = u[i]
      BY DEF Range
    <2>2. QED  BY <2>1 DEF Queued
  <1>2. Range(q) = {Head(q)} \cup Range(Tail(q)) /\ Tail(q) \in Seq(Seq(Packets))
    BY RangeHeadTail, HeadTailProperties
  <1>3. Queued(q) = UNION {Range(r) : r \in Range(q)}
    BY <1>1
  <1>4. Queued(Tail(q)) = UNION {Range(r) : r \in Range(Tail(q))}
    BY <1>1, <1>2
  <1>5. QED  BY <1>2, <1>3, <1>4

\* Whoever is in the transaction taken from, the first packet included, was and
\* stays on the way, except for a first packet that is dropped.
LEMMA TakeHeld ==
    ASSUME TInv, DInv, TakePacket
    PROVE  /\ HeldStays
           /\ ~async => asyncQueue' = <<>>
           /\ pc' = "send" => CanReceive(hand'[1].pri)
           /\ pc' # "markWrite"
  <1>1. /\ CanTake /\ pc = "queues" /\ inUse /\ hand = <<>>
        /\ UNCHANGED <<asyncQueue, wire, inUse, readClosed, writeClosed>>
    BY DEF TakePacket, CanTake, Runs, slotVars, TInv, OutInv
  <1>2. Served # {} /\ Highest \in Prios
    BY <1>1, HighestType DEF CanTake
  <1>3. Transaction \in Seq(Packets)
    BY <1>2, TransactionType
  <1>4. Queued(queue[Top]) \cup Range(Under) \subseteq Queued(queue'[Top]) \cup Range(Transaction)
    <2>1. CASE current # <<>>
      <3>1. queue' = queue /\ Transaction = Under
        BY <2>1 DEF TakePacket, Transaction, Under
      <3>2. QED  BY <3>1
    <2>2. CASE current = <<>>
      <3>1. /\ queue' = queue \/ queue' = [queue EXCEPT ![Highest] = Tail(@)]
            /\ Under = <<>>
            /\ queue[Highest] # <<>> /\ Transaction = Head(queue[Highest])
            /\ queue[Highest] \in Seq(Seq(Packets))
        BY <1>2, <2>2, TransactionType DEF TakePacket, Popped, Under
      <3>2. Queued(queue[Highest]) = Range(Transaction) \cup Queued(Tail(queue[Highest]))
        BY <3>1, QueuedHeadTail
      <3>3. CASE queue' # queue /\ Highest = Top
        <4>1. queue'[Top] = Tail(queue[Top])
          BY <1>2, <3>1, <3>3, Raw
        <4>2. QED  BY <3>1, <3>2, <3>3, <4>1, RangeEmpty
      <3>4. CASE queue' # queue /\ Highest # Top
        <4>1. queue'[Top] = queue[Top]
          BY <1>2, <3>1, <3>4, Raw, Numbers
        <4>2. QED  BY <3>1, <4>1, RangeEmpty
      <3>5. CASE queue' = queue
        BY <3>1, <3>5, RangeEmpty
      <3>6. QED  BY <3>3, <3>4, <3>5
    <2>3. QED  BY <2>1, <2>2
  <1>5. CASE Transaction = <<>>
    <2>1. UNCHANGED <<pc, hand>>
      BY <1>5 DEF TakePacket, outVars
    <2>2. HeldStays
      BY <1>1, <1>4, <1>5, <2>1, RangeEmpty DEF HeldStays, Held
    <2>3. QED  BY <1>1, <2>1, <2>2 DEF DInv
  <1>6. CASE Transaction # <<>>
    <2> DEFINE p == Head(Transaction)
    <2>1. /\ p \in Packets /\ Consider(p)
          /\ current' = IF Len(Transaction) = 1 THEN <<>> ELSE <<Tail(Transaction)>>
      BY <1>6, TakeCurrentType
    <2>2. Range(Transaction) = {p} \cup Range(Tail(Transaction))
      BY <1>3, <1>6, RangeHeadTail
    <2>3. Tail(Transaction) \in Seq(Packets) /\ Len(Tail(Transaction)) = Len(Transaction) - 1
      BY <1>3, <1>6, HeadTailProperties
    <2>4. Range(Under)' = Range(Tail(Transaction))
      <3>1. CASE Len(Transaction) = 1
        <4>1. Tail(Transaction) = <<>>
          <5>1. Len(Tail(Transaction)) = 0
            BY <2>3, <3>1
          <5>2. QED  BY <2>3, <5>1, EmptySeq
        <4>2. QED  BY <2>1, <3>1, <4>1 DEF Under
      <3>2. CASE Len(Transaction) # 1
        <4>1. current' = <<Tail(Transaction)>>
          BY <2>1, <3>2
        <4>2. Under' = Tail(Transaction)
          BY <4>1 DEF Under
        <4>3. QED  BY <4>2
      <3>3. QED  BY <3>1, <3>2
    <2> HIDE DEF p
    <2>5. \/ hand' = <<>> /\ pc' = "queues" /\ (~CanReceive(p.pri) \/ MayRefuse(p))
          \/ hand' = <<p>> /\ pc' = "send" /\ CanReceive(p.pri)
      BY <1>1, <2>1, ConsiderType
    <2>6. p.pri = Top => p \in Range(hand)'
      <3>1. p.pri = Top => CanReceive(p.pri) /\ ~MayRefuse(p)
        BY <1>1, Numbers DEF CanReceive, MayRefuse
      <3>2. hand' = <<p>> => p \in Range(hand)'
        BY DEF Range
      <3>3. QED  BY <2>5, <3>1, <3>2
    <2>7. HeldStays
      BY <1>1, <1>4, <2>2, <2>4, <2>6, RangeEmpty DEF HeldStays, Held
    <2>8. pc' = "send" => CanReceive(hand'[1].pri)
      BY <2>5
    <2>9. QED  BY <1>1, <2>5, <2>7, <2>8 DEF DInv
  <1>7. QED  BY <1>5, <1>6

LEMMA TakePacketD == ASSUME TInv, DInv, TakePacket  PROVE DInv'
  <1>1. /\ pc = "queues"
        /\ UNCHANGED <<threaded, async, inUse, readClosed, writeClosed, owed, broken>>
    BY DEF TakePacket, CanTake, Runs, slotVars, ghosts
  <1>2. ~writeClosed
    BY <1>1, NotIdle
  <1>3. QED  BY <1>1, <1>2, TakeHeld, OutD

\* A packet of the disconnect priority that is sent enters the byte queue.
LEMMA SendHeld ==
    ASSUME TInv, NEW p \in Packets, SendData(p)
    PROVE  (p \in Range(wire)' \/ p.n \notin owed') /\ owed' \subseteq owed
           /\ Range(wire) \subseteq Range(wire)'
  <1>1. CASE wire' = Append(wire, p) /\ owed' = owed
    BY <1>1, Raw, RangeAppend
  <1>2. CASE owed' = owed \ {p.n} /\ wire' = wire
    BY <1>2
  <1>3. QED  BY <1>1, <1>2 DEF SendData

LEMMA SendPacketD == ASSUME TInv, DInv, SendPacket  PROVE DInv'
  <1>1. /\ pc = "send" /\ hand[1] \in Packets /\ hand = <<hand[1]>>
        /\ UNCHANGED <<threaded, mainVars, current, slotVars, job, todo, count, up>>
        /\ \/ Lost /\ (broken' = TRUE \/ (broken' = broken /\ ~CanReceive(hand[1].pri)))
           \/ ToAsync(hand[1]) /\ async
           \/ ToWire(hand[1]) /\ ~async
    BY SendPacketWays
  <1>2. ~writeClosed
    BY <1>1, NotIdle
  <1>3. UNCHANGED <<threaded, async, inUse, readClosed, writeClosed>>
    BY <1>1 DEF slotVars
  <1>4. Range(hand) = {hand[1]}
    BY <1>1 DEF Range
  <1>5. Range(Under)' = Range(Under)
    BY <1>1 DEF Under
  <1>6. CASE Lost /\ (broken' = TRUE \/ (broken' = broken /\ ~CanReceive(hand[1].pri)))
    <2>1. asyncQueue' = <<>> /\ pc' = "markWrite" /\ owed' = owed
      BY <1>6 DEF Lost, ClearQueues
    <2>2. ~threaded => broken'
      BY <1>1, <1>6 DEF DInv
    <2>3. QED  BY <1>2, <1>3, <2>1, <2>2, OutD
  <1>7. CASE ToAsync(hand[1]) /\ async
    <2>1. /\ asyncQueue' = Append(asyncQueue, hand[1]) /\ pc' = "queues" /\ hand' = <<>>
          /\ UNCHANGED <<queue, wire, unsent, owed, broken>>
      BY <1>7 DEF ToAsync
    <2>2. Range(asyncQueue)' = Range(asyncQueue) \cup {hand[1]}
      BY <1>1, <2>1, Raw, RangeAppend
    <2>3. HeldStays
      BY <1>4, <1>5, <2>1, <2>2 DEF HeldStays, Held
    <2>4. QED  BY <1>2, <1>3, <1>7, <2>1, <2>3, OutD
  <1>8. CASE ToWire(hand[1]) /\ ~async
    <2>1. /\ SendData(hand[1]) /\ pc' = "queues" /\ hand' = <<>>
          /\ UNCHANGED <<queue, asyncQueue, broken>>
      BY <1>8 DEF ToWire
    <2>2. (hand[1] \in Range(wire)' \/ hand[1].n \notin owed') /\ owed' \subseteq owed
          /\ Range(wire) \subseteq Range(wire)'
      BY <1>1, <2>1, SendHeld
    <2>3. HeldStays
      BY <1>4, <1>5, <2>1, <2>2 DEF HeldStays, Held
    <2>4. ~async => asyncQueue' = <<>>
      BY <2>1 DEF DInv
    <2>5. QED  BY <1>2, <1>3, <2>1, <2>2, <2>3, <2>4, OutD
  <1>9. QED  BY <1>1, <1>6, <1>7, <1>8

LEMMA ProcessAsyncQueueD == ASSUME TInv, DInv, ProcessAsyncQueue  PROVE DInv'
  <1>1. /\ pc = "async" /\ hand = <<>>
        /\ UNCHANGED <<threaded, mainVars, current, slotVars, up>>
        /\ AsyncSends \/ AsyncDrops \/ AsyncWaits \/ AsyncFails
        /\ inUse
    BY AsyncWays DEF ProcessAsyncQueue, Runs
  <1>2. ~writeClosed
    BY <1>1, NotIdle
  <1>3. UNCHANGED <<threaded, async, inUse, readClosed, writeClosed>>
    BY <1>1 DEF slotVars
  <1>4. Range(Under)' = Range(Under)
    BY <1>1 DEF Under
  <1> DEFINE p == Head(asyncQueue)
  <1>5. asyncQueue # <<>> => p \in Packets /\ Range(asyncQueue) = {p} \cup Range(Tail(asyncQueue))
    BY Raw, AsyncWays, RangeHeadTail
  <1> HIDE DEF p
  <1>6. CASE AsyncSends
    <2>1. /\ asyncQueue # <<>> /\ SendData(p)
          /\ asyncQueue' = Tail(asyncQueue) \/ asyncQueue' = asyncQueue
          /\ pc' = "bytes" /\ UNCHANGED <<queue, hand, broken>>
      BY <1>6 DEF AsyncSends, AsyncPopped, Goto, p
    <2>2. (p \in Range(wire)' \/ p.n \notin owed') /\ owed' \subseteq owed
          /\ Range(wire) \subseteq Range(wire)'
      BY <1>5, <2>1, SendHeld
    <2>3. HeldStays
      BY <1>4, <1>5, <2>1, <2>2 DEF HeldStays, Held
    <2>4. ~async => asyncQueue' = <<>>
      BY <2>1 DEF DInv
    <2>5. QED  BY <1>2, <1>3, <2>1, <2>2, <2>3, <2>4, OutD
  <1>7. CASE AsyncDrops
    <2>1. /\ asyncQueue # <<>> /\ owed' = owed
          /\ asyncQueue' = Tail(asyncQueue) \/ asyncQueue' = asyncQueue
          /\ ~CanReceive(p.pri) \/ MayRefuse(p)
          /\ pc' = "async" /\ UNCHANGED <<queue, wire, hand, broken>>
      BY <1>7 DEF AsyncDrops, AsyncPopped, Goto, p
    <2>2. p.pri # Top
      BY <1>1, <2>1, Numbers DEF CanReceive, MayRefuse
    <2>3. HeldStays
      BY <1>4, <1>5, <2>1, <2>2 DEF HeldStays, Held
    <2>4. ~async => asyncQueue' = <<>>
      BY <2>1 DEF DInv
    <2>5. QED  BY <1>2, <1>3, <2>1, <2>3, <2>4, OutD
  <1>8. CASE AsyncWaits
    <2>1. pc' = "bytes" /\ UNCHANGED <<queue, asyncQueue, wire, hand, owed, broken>>
      BY <1>8 DEF AsyncWaits, Goto, ghosts
    <2>2. HeldStays
      BY <1>1, <2>1, SameHeld
    <2>3. ~async => asyncQueue' = <<>>
      BY <2>1 DEF DInv
    <2>4. QED  BY <1>2, <1>3, <2>1, <2>2, <2>3, OutD
  <1>9. CASE AsyncFails
    <2>1. broken' = TRUE /\ asyncQueue' = <<>> /\ pc' = "markWrite" /\ owed' = owed
      BY <1>9 DEF AsyncFails, SendDataFails, ClearQueues
    <2>2. QED  BY <1>2, <1>3, <2>1, OutD
  <1>10. QED  BY <1>1, <1>6, <1>7, <1>8, <1>9

LEMMA ProcessByteQueueD == ASSUME TInv, DInv, ProcessByteQueue  PROVE DInv'
  <1>1. /\ pc = "bytes" /\ hand' = hand
        /\ UNCHANGED <<threaded, current, async, inUse, readClosed, writeClosed, owed>>
    BY DEF ProcessByteQueue, Runs
  <1>2. ~writeClosed
    BY <1>1, NotIdle
  <1>3. CASE pc' = AfterDrain /\ UNCHANGED <<queue, asyncQueue, wire, broken>>
    <2>1. pc' \in {"check", "idle"}
      BY <1>3 DEF AfterDrain
    <2>2. HeldStays
      BY <1>1, <1>3, SameHeld
    <2>3. ~async => asyncQueue' = <<>>
      BY <1>3 DEF DInv
    <2>4. QED  BY <1>1, <1>2, <1>3, <2>1, <2>2, <2>3, OutD
  <1>4. CASE ClearQueues /\ broken' = TRUE /\ pc' = "markWrite"
    <2>1. asyncQueue' = <<>>
      BY <1>4 DEF ClearQueues
    <2>2. QED  BY <1>1, <1>2, <1>4, <2>1, OutD
  <1>5. QED  BY <1>3, <1>4 DEF ProcessByteQueue

LEMMA AsyncReadyD == ASSUME TInv, DInv, AsyncReady  PROVE DInv'
  <1>1. UNCHANGED <<queue, current, asyncQueue, wire, unsent, threaded, async, inUse, readClosed,
                    writeClosed, outVars, ghosts>>
    BY DEF AsyncReady
  <1>2. Sent' = Sent /\ HasPendingData' = HasPendingData
    BY <1>1 DEF Sent, HasPendingData, Closing
  <1>3. CanReceive(hand[1].pri)' = CanReceive(hand[1].pri)
    BY <1>1 DEF CanReceive, Closing, outVars
  <1>4. OwedSafe' = OwedSafe
    BY <1>1 DEF OwedSafe, Held, Under, outVars, ghosts
  <1>5. QED  BY <1>1, <1>2, <1>3, <1>4 DEF DInv, outVars, ghosts

LEMMA DInvInit == Init => DInv
  BY DEF Init, DInv, OwedSafe

LEMMA DInvNext == TInv /\ DInv /\ [Next]_vars => DInv'
  <1> SUFFICES ASSUME TInv, DInv, [Next]_vars  PROVE DInv'
    OBVIOUS
  <1>1. CASE Output
    BY <1>1, PassD, MarkWriteD, QueueStepD, TakePacketD, SendPacketD, ProcessAsyncQueueD,
       ProcessByteQueueD DEF Output
  <1>2. CASE UNCHANGED vars
    <2>1. UNCHANGED <<queue, current, asyncQueue, wire, unsent, threaded, async, inUse, readClosed,
                      writeClosed, outVars, ghosts>>
      BY <1>2 DEF vars, slotVars
    <2>2. Sent' = Sent /\ HasPendingData' = HasPendingData
      BY <2>1 DEF Sent, HasPendingData, Closing
    <2>3. CanReceive(hand[1].pri)' = CanReceive(hand[1].pri)
      BY <2>1 DEF CanReceive, Closing, outVars
    <2>4. OwedSafe' = OwedSafe
      BY <2>1 DEF OwedSafe, Held, Under, outVars, ghosts
    <2>5. QED  BY <2>1, <2>2, <2>3, <2>4 DEF DInv, outVars, ghosts
  <1>3. QED  BY <1>1, <1>2, GameD, TickD, AsyncReadyD DEF Next

\* Without network threads, a kick or a login error that waits when a connection
\* is closed for reading has been sent when it is closed for writing, whatever
\* the limits of queues and passes, unless sending failed.
THEOREM KicksAreSent == Spec => []DisconnectSent
  <1>1. TInv /\ DInv => DisconnectSent
    BY DEF DInv, DisconnectSent, Sent
  <1>2. QED
    BY <1>1, TInvInit, TInvNext, DInvInit, DInvNext, PTL DEF Spec

-----------------------------------------------------------------------------
(* Order. *)

\* v is what is left of w when some of its elements are taken out.
Sub(v, w) ==
    \E f \in [1..Len(v) -> 1..Len(w)] :
        /\ \A i, j \in 1..Len(v) : i < j => f[i] < f[j]
        /\ \A i \in 1..Len(v) : v[i] = w[f[i]]

LEMMA SubSame == ASSUME NEW S, NEW w \in Seq(S)  PROVE Sub(w, w)
  <1> DEFINE f == [i \in 1..Len(w) |-> i]
  <1>1. /\ f \in [1..Len(w) -> 1..Len(w)]
        /\ \A i, j \in 1..Len(w) : i < j => f[i] < f[j]
        /\ \A i \in 1..Len(w) : w[i] = w[f[i]]
    OBVIOUS
  <1>2. QED  BY <1>1 DEF Sub

LEMMA SubNone == ASSUME NEW S, NEW w \in Seq(S)  PROVE Sub(<<>>, w)
  <1> DEFINE f == [i \in 1..0 |-> i]
  <1>1. /\ f \in [1..0 -> 1..Len(w)] /\ Len(<<>>) = 0
        /\ \A i, j \in 1..0 : i < j => f[i] < f[j]
        /\ \A i \in 1..0 : <<>>[i] = w[f[i]]
    OBVIOUS
  <1> HIDE DEF f
  <1>2. QED  BY <1>1 DEF Sub

LEMMA SubTail == ASSUME NEW S, NEW w \in Seq(S), w # <<>>  PROVE Sub(Tail(w), w)
  <1> DEFINE f == [i \in 1..Len(Tail(w)) |-> i + 1]
  <1>1. /\ Len(w) \in Nat /\ Len(Tail(w)) = Len(w) - 1
        /\ \A i \in 1..Len(Tail(w)) : Tail(w)[i] = w[i + 1]
    BY HeadTailProperties, LenProperties
  <1>2. /\ f \in [1..Len(Tail(w)) -> 1..Len(w)]
        /\ \A i, j \in 1..Len(Tail(w)) : i < j => f[i] < f[j]
        /\ \A i \in 1..Len(Tail(w)) : Tail(w)[i] = w[f[i]]
    BY <1>1
  <1> HIDE DEF f
  <1>3. QED  BY <1>2 DEF Sub

\* The front of w.
LEMMA SubFront ==
    ASSUME NEW S, NEW w \in Seq(S), NEW v \in Seq(S), Len(v) <= Len(w),
           \A i \in 1..Len(v) : v[i] = w[i]
    PROVE  Sub(v, w)
  <1> DEFINE f == [i \in 1..Len(v) |-> i]
  <1>1. Len(w) \in Nat /\ Len(v) \in Nat
    BY LenProperties
  <1>2. /\ f \in [1..Len(v) -> 1..Len(w)]
        /\ \A i, j \in 1..Len(v) : i < j => f[i] < f[j]
        /\ \A i \in 1..Len(v) : v[i] = w[f[i]]
    BY <1>1
  <1> HIDE DEF f
  <1>3. QED  BY <1>2 DEF Sub

LEMMA SubConcat ==
    ASSUME NEW S, NEW v \in Seq(S), NEW w \in Seq(S), NEW x \in Seq(S), NEW y \in Seq(S),
           Sub(v, w), Sub(x, y)
    PROVE  Sub(v \o x, w \o y)
  <1>1. PICK f \in [1..Len(v) -> 1..Len(w)] :
           /\ \A i, j \in 1..Len(v) : i < j => f[i] < f[j]
           /\ \A i \in 1..Len(v) : v[i] = w[f[i]]
    BY DEF Sub
  <1>2. PICK g \in [1..Len(x) -> 1..Len(y)] :
           /\ \A i, j \in 1..Len(x) : i < j => g[i] < g[j]
           /\ \A i \in 1..Len(x) : x[i] = y[g[i]]
    BY DEF Sub
  <1> DEFINE lv == Len(v)
             lw == Len(w)
             lx == Len(x)
             ly == Len(y)
             h == [i \in 1..(lv + lx) |-> IF i <= lv THEN f[i] ELSE lw + g[i - lv]]
  <1>3. lv \in Nat /\ lw \in Nat /\ lx \in Nat /\ ly \in Nat
    BY LenProperties
  <1>4. /\ Len(v \o x) = lv + lx /\ Len(w \o y) = lw + ly
        /\ \A i \in 1..(lv + lx) : (v \o x)[i] = IF i <= lv THEN v[i] ELSE x[i - lv]
        /\ \A i \in 1..(lw + ly) : (w \o y)[i] = IF i <= lw THEN w[i] ELSE y[i - lw]
    BY ConcatProperties
  <1>5. \A i \in 1..lv : f[i] \in 1..lw /\ v[i] = w[f[i]]
    BY <1>1
  <1>6. \A i \in 1..lx : g[i] \in 1..ly /\ x[i] = y[g[i]]
    BY <1>2
  <1>7. \A i, j \in 1..lv : i < j => f[i] < f[j]
    BY <1>1
  <1>8. \A i, j \in 1..lx : i < j => g[i] < g[j]
    BY <1>2
  <1> HIDE DEF lv, lw, lx, ly
  <1>9. \A i \in 1..(lv + lx) : i > lv => i - lv \in 1..lx
    BY <1>3
  <1>10. h \in [1..(lv + lx) -> 1..(lw + ly)]
    <2>1. ASSUME NEW i \in 1..(lv + lx)
          PROVE  (IF i <= lv THEN f[i] ELSE lw + g[i - lv]) \in 1..(lw + ly)
      <3>1. CASE i <= lv
        <4>1. f[i] \in 1..lw
          BY <1>3, <1>5, <3>1
        <4>2. QED  BY <1>3, <3>1, <4>1
      <3>2. CASE ~(i <= lv)
        <4>1. g[i - lv] \in 1..ly
          BY <1>3, <1>6, <1>9, <3>2
        <4>2. QED  BY <1>3, <3>2, <4>1
      <3>3. QED  BY <3>1, <3>2
    <2>2. QED  BY <2>1
  <1>11. ASSUME NEW i \in 1..(lv + lx), NEW j \in 1..(lv + lx), i < j  PROVE h[i] < h[j]
    <2>1. CASE i <= lv /\ j <= lv
      <3>1. h[i] = f[i] /\ h[j] = f[j] /\ i \in 1..lv /\ j \in 1..lv
        BY <1>3, <2>1
      <3>2. QED  BY <1>7, <1>11, <3>1
    <2>2. CASE i <= lv /\ ~(j <= lv)
      <3>1. h[i] = f[i] /\ h[j] = lw + g[j - lv] /\ i \in 1..lv /\ j - lv \in 1..lx
        BY <1>3, <1>9, <2>2
      <3>2. f[i] \in 1..lw /\ g[j - lv] \in 1..ly
        BY <1>5, <1>6, <3>1
      <3>3. QED  BY <1>3, <3>1, <3>2
    <2>3. CASE ~(i <= lv)
      <3>1. /\ h[i] = lw + g[i - lv] /\ h[j] = lw + g[j - lv]
            /\ i - lv \in 1..lx /\ j - lv \in 1..lx /\ i - lv < j - lv
        BY <1>3, <1>9, <1>11, <2>3
      <3>2. g[i - lv] \in 1..ly /\ g[j - lv] \in 1..ly /\ g[i - lv] < g[j - lv]
        BY <1>6, <1>8, <3>1
      <3>3. QED  BY <1>3, <3>1, <3>2
    <2>4. QED  BY <2>1, <2>2, <2>3
  <1>12. ASSUME NEW i \in 1..(lv + lx)  PROVE (v \o x)[i] = (w \o y)[h[i]]
    <2>1. CASE i <= lv
      <3>1. h[i] = f[i] /\ i \in 1..lv
        BY <1>3, <2>1
      <3>2. f[i] \in 1..lw /\ v[i] = w[f[i]]
        BY <1>5, <3>1
      <3>3. f[i] \in 1..(lw + ly) /\ f[i] <= lw
        BY <1>3, <3>2
      <3>4. QED  BY <1>4, <2>1, <3>1, <3>2, <3>3
    <2>2. CASE ~(i <= lv)
      <3>1. h[i] = lw + g[i - lv] /\ i - lv \in 1..lx
        BY <1>9, <1>3, <2>2
      <3>2. g[i - lv] \in 1..ly /\ x[i - lv] = y[g[i - lv]]
        BY <1>6, <3>1
      <3>3. h[i] \in 1..(lw + ly) /\ ~(h[i] <= lw) /\ h[i] - lw = g[i - lv]
        BY SMTT(30), <1>3, <3>1, <3>2
      <3>4. QED  BY <1>4, <2>2, <3>2, <3>3
    <2>3. QED  BY <2>1, <2>2
  <1> HIDE DEF h
  <1>13. QED
    BY ZenonT(30), <1>4, <1>10, <1>11, <1>12 DEF Sub

Before(p, r) == p.by < r.by \/ (p.by = r.by /\ p.n < r.n)

\* What was put into one queue is in order, and a transaction is in one piece.
Sorted(w) ==
    \A i, j \in 1..Len(w) : i < j /\ w[i].from = w[j].from => Before(w[i], w[j])

Blocks(w) ==
    \A i, j, k \in 1..Len(w) : i < j /\ j < k /\ w[i].by = w[k].by => w[j].by = w[i].by

\* No transaction is both on its way and in a queue, and those on their way left
\* their queue first.
Apart(w, Q) ==
    \A i \in 1..Len(w), q \in Prios :
        \A a \in 1..Len(Q[q]) : \A b \in 1..Len(Q[q][a]) :
            /\ w[i].by # Q[q][a][b].by
            /\ w[i].from = q => w[i].by < Q[q][a][b].by

Known(w, c) == \A i \in 1..Len(w) : w[i].by <= c

\* A transaction in queue q has one number, and its packets are in order.
Whole(t, q, c) ==
    \A b \in 1..Len(t) :
        /\ t[b].from = q /\ t[b].by <= c
        /\ \A d \in 1..Len(t) : t[d].by = t[b].by /\ (b < d => t[b].n < t[d].n)

QueuesInOrder(Q, c) ==
    /\ \A q \in Prios : \A a \in 1..Len(Q[q]) : Whole(Q[q][a], q, c)
    /\ \A q, r \in Prios : \A a \in 1..Len(Q[q]), e \in 1..Len(Q[r]) :
          \A b \in 1..Len(Q[q][a]), d \in 1..Len(Q[r][e]) :
              /\ q = r /\ a < e => Q[q][a][b].by < Q[r][e][d].by
              /\ q # r => Q[q][a][b].by # Q[r][e][d].by

\* The packets of the open transaction are in order.
OpenInOrder ==
    pending # <<>> =>
        \A b, d \in 1..Len(pending[1].packets) :
            /\ pending[1].packets[b].n <= made
            /\ b < d => pending[1].packets[b].n < pending[1].packets[d].n

Ready(w, Q, c) == Sorted(w) /\ Blocks(w) /\ Apart(w, Q) /\ Known(w, c)

WInv == Ready(Way, queue, commits) /\ QueuesInOrder(queue, commits) /\ OpenInOrder

LEMMA SubReady ==
    ASSUME NEW v \in Seq(Packets), NEW w \in Seq(Packets), NEW Q, NEW c, Sub(v, w),
           Ready(w, Q, c)
    PROVE  Ready(v, Q, c)
  <1>1. PICK f \in [1..Len(v) -> 1..Len(w)] :
           /\ \A i, j \in 1..Len(v) : i < j => f[i] < f[j]
           /\ \A i \in 1..Len(v) : v[i] = w[f[i]]
    BY DEF Sub
  <1>2. \A i \in 1..Len(v) : f[i] \in 1..Len(w) /\ v[i] = w[f[i]]
    BY <1>1
  <1>3. Sorted(v)
    <2>1. ASSUME NEW i \in 1..Len(v), NEW j \in 1..Len(v), i < j, v[i].from = v[j].from
          PROVE  Before(v[i], v[j])
      BY <1>1, <1>2, <2>1 DEF Ready, Sorted
    <2>2. QED  BY <2>1 DEF Sorted
  <1>4. Blocks(v)
    <2>1. ASSUME NEW i \in 1..Len(v), NEW j \in 1..Len(v), NEW k \in 1..Len(v),
                 i < j, j < k, v[i].by = v[k].by
          PROVE  v[j].by = v[i].by
      <3>1. f[i] \in 1..Len(w) /\ f[j] \in 1..Len(w) /\ f[k] \in 1..Len(w)
        BY <1>2
      <3>2. f[i] < f[j] /\ f[j] < f[k]
        BY <1>1, <2>1
      <3>3. v[i] = w[f[i]] /\ v[j] = w[f[j]] /\ v[k] = w[f[k]]
        BY <1>2
      <3>4. QED  BY <2>1, <3>1, <3>2, <3>3 DEF Ready, Blocks
    <2>2. QED  BY <2>1 DEF Blocks
  <1>5. Apart(v, Q)
    <2>1. ASSUME NEW i \in 1..Len(v), NEW q \in Prios, NEW a \in 1..Len(Q[q]),
                 NEW b \in 1..Len(Q[q][a])
          PROVE  /\ v[i].by # Q[q][a][b].by
                 /\ v[i].from = q => v[i].by < Q[q][a][b].by
      <3>1. f[i] \in 1..Len(w) /\ v[i] = w[f[i]]
        BY <1>2
      <3>2. QED  BY <3>1 DEF Ready, Apart
    <2>2. QED  BY <2>1 DEF Apart
  <1>6. Known(v, c)
    BY <1>2 DEF Ready, Known
  <1>7. QED  BY <1>3, <1>4, <1>5, <1>6 DEF Ready

LEMMA WayType ==
    ASSUME TInv
    PROVE  /\ Way \in Seq(Packets) /\ wire \o asyncQueue \in Seq(Packets)
           /\ (wire \o asyncQueue) \o hand \in Seq(Packets)
  <1>1. wire \o asyncQueue \in Seq(Packets)
    BY UnderType, ConcatProperties
  <1>2. (wire \o asyncQueue) \o hand \in Seq(Packets)
    BY <1>1, UnderType, ConcatProperties
  <1>3. Way \in Seq(Packets)
    BY <1>2, UnderType, ConcatProperties DEF Way
  <1>4. QED  BY <1>1, <1>2, <1>3

\* Parts of the way that lose elements.
LEMMA WaySub ==
    ASSUME TInv, TInv', Sub(wire', wire), Sub(asyncQueue', asyncQueue), Sub(hand', hand),
           Sub(Under', Under)
    PROVE  Sub(Way', Way)
  <1>1. /\ wire' \in Seq(Packets) /\ asyncQueue' \in Seq(Packets) /\ hand' \in Seq(Packets)
        /\ Under' \in Seq(Packets)
    <2>1. (Under \in Seq(Packets) /\ hand \in Seq(Packets) /\ asyncQueue \in Seq(Packets)
             /\ wire \in Seq(Packets))'
      BY UnderType, PTL
    <2>2. QED  BY <2>1
  <1>2. Sub(wire' \o asyncQueue', wire \o asyncQueue)
    BY <1>1, UnderType, SubConcat
  <1>3. wire' \o asyncQueue' \in Seq(Packets) /\ (wire' \o asyncQueue') \o hand' \in Seq(Packets)
    BY <1>1, ConcatProperties
  <1>4. Sub((wire' \o asyncQueue') \o hand', (wire \o asyncQueue) \o hand)
    BY <1>1, <1>2, <1>3, UnderType, WayType, SubConcat
  <1>5. Sub(((wire' \o asyncQueue') \o hand') \o Under', ((wire \o asyncQueue) \o hand) \o Under)
    BY <1>1, <1>3, <1>4, UnderType, WayType, SubConcat
  <1>6. QED  BY <1>5 DEF Way

\* The transaction at the head of queue h goes on its way.
LEMMA Join ==
    ASSUME NEW w \in Seq(Packets), NEW Q \in [Prios -> Seq(Seq(Packets))], NEW c \in Nat,
           NEW h \in Prios, Q[h] # <<>>, Ready(w, Q, c), QueuesInOrder(Q, c)
    PROVE  LET R == [Q EXCEPT ![h] = Tail(@)]
           IN  Ready(w \o Head(Q[h]), R, c) /\ QueuesInOrder(R, c)
  <1> DEFINE R == [Q EXCEPT ![h] = Tail(@)]
             t == Q[h][1]
             lw == Len(w)
             lt == Len(t)
  <1>1. /\ Q[h] \in Seq(Seq(Packets)) /\ Head(Q[h]) = t /\ t \in Seq(Packets)
        /\ Tail(Q[h]) \in Seq(Seq(Packets)) /\ Len(Q[h]) \in Nat
        /\ Len(Tail(Q[h])) = Len(Q[h]) - 1 /\ 1 \in 1..Len(Q[h])
        /\ \A a \in 1..Len(Tail(Q[h])) : Tail(Q[h])[a] = Q[h][a + 1]
    <2>1. Q[h] \in Seq(Seq(Packets)) /\ Len(Q[h]) \in Nat \ {0}
      BY EmptySeq
    <2>2. Head(Q[h]) = t
      BY <2>1
    <2>3. QED  BY <2>1, <2>2, HeadTailProperties
  <1>2. /\ lw \in Nat /\ lt \in Nat /\ Len(w \o t) = lw + lt
        /\ \A i \in 1..(lw + lt) : (w \o t)[i] = IF i <= lw THEN w[i] ELSE t[i - lw]
    BY <1>1, LenProperties, ConcatProperties
  \* where what is left of a queue was
  <1> DEFINE was(q, a) == IF q = h THEN a + 1 ELSE a
  <1>3. ASSUME NEW q \in Prios, NEW a \in 1..Len(R[q])
        PROVE  was(q, a) \in 1..Len(Q[q]) /\ R[q][a] = Q[q][was(q, a)] /\ a \in Nat
    <2>1. CASE q = h
      <3>1. R[q] = Tail(Q[h])
        BY <2>1
      <3>2. QED  BY <1>1, <2>1, <3>1
    <2>2. CASE q # h
      <3>1. R[q] = Q[q]
        BY <2>2
      <3>2. QED  BY <2>2, <3>1
    <2>3. QED  BY <2>1, <2>2
  <1> HIDE DEF R
  <1>4. ASSUME NEW i \in 1..(lw + lt), ~(i <= lw)
        PROVE  i - lw \in 1..lt /\ (w \o t)[i] = t[i - lw]
    BY <1>2, <1>4
  <1>5. ASSUME NEW i \in 1..(lw + lt), i <= lw
        PROVE  i \in 1..lw /\ (w \o t)[i] = w[i]
    BY <1>2, <1>5
  \* the packets of t
  <1>6. ASSUME NEW b \in 1..lt
        PROVE  /\ t[b] \in Packets /\ t[b].from = h /\ t[b].by <= c
               /\ \A d \in 1..lt : t[d].by = t[b].by /\ (b < d => t[b].n < t[d].n)
               /\ \A i \in 1..lw : w[i].by # t[b].by /\ (w[i].from = h => w[i].by < t[b].by)
    <2>1. Whole(t, h, c)
      BY <1>1 DEF QueuesInOrder
    <2>2. t[b] \in Packets
      BY <1>1, ElementOfSeq
    <2>3. ASSUME NEW i \in 1..lw
          PROVE  w[i].by # t[b].by /\ (w[i].from = h => w[i].by < t[b].by)
      BY <1>1 DEF Ready, Apart
    <2>4. QED  BY <2>1, <2>2, <2>3 DEF Whole
  <1>distinct. ASSUME NEW q \in Prios, NEW r \in Prios,
                NEW a \in 1..Len(Q[q]), NEW e \in 1..Len(Q[r]),
                NEW b \in 1..Len(Q[q][a]), NEW d \in 1..Len(Q[r][e])
         PROVE  /\ q = r /\ a < e => Q[q][a][b].by < Q[r][e][d].by
                /\ q # r => Q[q][a][b].by # Q[r][e][d].by
    BY ZenonT(30) DEF QueuesInOrder
  <1>whole. ASSUME NEW q \in Prios, NEW a \in 1..Len(Q[q])  PROVE Whole(Q[q][a], q, c)
    BY DEF QueuesInOrder
  <1> DEFINE u == w \o t
  <1> HIDE DEF t, lw, lt
  <1>7. Sorted(u)
    <2>1. ASSUME NEW i \in 1..(lw + lt), NEW j \in 1..(lw + lt), i < j, u[i].from = u[j].from
          PROVE  Before(u[i], u[j])
      <3>1. CASE j <= lw
        <4>1. i \in 1..lw /\ j \in 1..lw /\ u[i] = w[i] /\ u[j] = w[j]
          BY <1>2, <1>5, <2>1, <3>1
        <4>2. QED  BY <2>1, <4>1 DEF Ready, Sorted, lw
      <3>2. CASE i <= lw /\ ~(j <= lw)
        <4>1. i \in 1..lw /\ j - lw \in 1..lt /\ u[i] = w[i] /\ u[j] = t[j - lw]
          BY <1>4, <1>5, <3>2
        <4>2. w[i].by < t[j - lw].by
          BY <1>6, <2>1, <4>1
        <4>3. QED  BY <4>1, <4>2 DEF Before
      <3>3. CASE ~(i <= lw)
        <4>1. ~(j <= lw)
          BY <1>2, <2>1, <3>3
        <4>2. /\ i - lw \in 1..lt /\ j - lw \in 1..lt /\ i - lw < j - lw
              /\ u[i] = t[i - lw] /\ u[j] = t[j - lw]
          BY <1>2, <1>4, <2>1, <3>3, <4>1
        <4>3. t[j - lw].by = t[i - lw].by /\ t[i - lw].n < t[j - lw].n
          BY <1>6, <4>2
        <4>4. QED  BY <4>2, <4>3 DEF Before
      <3>4. QED  BY <3>1, <3>2, <3>3
    <2>2. QED  BY <1>2, <2>1 DEF Sorted
  <1>8. Blocks(u)
    <2>1. ASSUME NEW i \in 1..(lw + lt), NEW j \in 1..(lw + lt), NEW k \in 1..(lw + lt),
                 i < j, j < k, u[i].by = u[k].by
          PROVE  u[j].by = u[i].by
      <3>1. CASE k <= lw
        <4>1. /\ i \in 1..lw /\ j \in 1..lw /\ k \in 1..lw
              /\ u[i] = w[i] /\ u[j] = w[j] /\ u[k] = w[k]
          BY <1>2, <1>5, <2>1, <3>1
        <4>2. QED  BY <2>1, <4>1 DEF Ready, Blocks, lw
      <3>2. CASE ~(k <= lw)
        <4>1. k - lw \in 1..lt /\ u[k] = t[k - lw]
          BY <1>4, <3>2
        <4>2. ~(i <= lw)
          <5>1. SUFFICES ASSUME i <= lw  PROVE FALSE
            OBVIOUS
          <5>2. i \in 1..lw /\ u[i] = w[i]
            BY <1>5, <5>1
          <5>3. QED  BY <1>6, <2>1, <4>1, <5>2
        <4>3. ~(j <= lw)
          BY <1>2, <2>1, <4>2
        <4>4. i - lw \in 1..lt /\ u[i] = t[i - lw] /\ j - lw \in 1..lt /\ u[j] = t[j - lw]
          BY <1>4, <4>2, <4>3
        <4>5. QED  BY <1>6, <4>4
      <3>3. QED  BY <3>1, <3>2
    <2>2. QED  BY <1>2, <2>1 DEF Blocks
  <1>9. Apart(u, R)
    <2>1. ASSUME NEW i \in 1..(lw + lt), NEW q \in Prios, NEW a \in 1..Len(R[q]),
                 NEW b \in 1..Len(R[q][a])
          PROVE  /\ u[i].by # R[q][a][b].by
                 /\ u[i].from = q => u[i].by < R[q][a][b].by
      <3>1. was(q, a) \in 1..Len(Q[q]) /\ R[q][a] = Q[q][was(q, a)] /\ a \in Nat
        BY <1>3
      <3>2. CASE i <= lw
        <4>1. i \in 1..lw /\ u[i] = w[i]
          BY <1>5, <3>2
        <4>2. QED  BY <3>1, <4>1 DEF Ready, Apart, lw
      <3>3. CASE ~(i <= lw)
        <4>1. PICK e \in 1..lt : u[i] = t[e]
          BY <1>4, <3>3
        <4>2. u[i].from = h
          BY <1>6, <4>1
        <4>3. PICK x \in 1..Len(Q[q]) : R[q][a] = Q[q][x] /\ (q = h => 1 < x)
          BY <1>3, <3>1
        <4>4. e \in 1..Len(Q[h][1]) /\ b \in 1..Len(Q[q][x]) /\ u[i] = Q[h][1][e]
          BY <4>1, <4>3 DEF t, lt
        <4>5. /\ h = q => Q[h][1][e].by < Q[q][x][b].by
              /\ h # q => Q[h][1][e].by # Q[q][x][b].by
          <5>1. 1 \in 1..Len(Q[h])
            BY <1>1
          <5>2. h = q => Q[h][1][e].by < Q[q][x][b].by
            BY <1>distinct, <4>3, <4>4, <5>1
          <5>3. h # q => Q[h][1][e].by # Q[q][x][b].by
            BY ZenonT(30), <1>distinct, <4>4, <5>1
          <5>4. QED  BY <5>2, <5>3
        <4>6. u[i] \in Packets /\ Q[q][x][b] \in Packets
          <5>1. Q[q][x] \in Seq(Packets)
            BY ElementOfSeq
          <5>2. QED  BY <1>6, <4>1, <4>4, <5>1, ElementOfSeq
        <4>7. u[i].by \in Nat /\ Q[q][x][b].by \in Nat
          BY <4>6 DEF Packets
        <4>8. QED  BY SMTT(30), <4>2, <4>3, <4>4, <4>5, <4>7
      <3>4. QED  BY <3>2, <3>3
    <2>2. QED  BY <1>2, <2>1 DEF Apart
  <1>10. Known(u, c)
    <2>1. ASSUME NEW i \in 1..(lw + lt)  PROVE u[i].by <= c
      <3>1. CASE i <= lw
        <4>1. i \in 1..lw /\ u[i] = w[i]
          BY <1>5, <3>1
        <4>2. QED  BY <4>1 DEF Ready, Known, lw
      <3>2. CASE ~(i <= lw)
        BY <1>4, <1>6, <3>2
      <3>3. QED  BY <3>1, <3>2
    <2>2. QED  BY <1>2, <2>1 DEF Known
  <1>11. QueuesInOrder(R, c)
    <2>1. ASSUME NEW q \in Prios, NEW a \in 1..Len(R[q])  PROVE Whole(R[q][a], q, c)
      <3>1. PICK x \in 1..Len(Q[q]) : R[q][a] = Q[q][x]
        BY <1>3
      <3>2. QED  BY <1>whole, <3>1
    <2>2. ASSUME NEW q \in Prios, NEW r \in Prios, NEW a \in 1..Len(R[q]), NEW e \in 1..Len(R[r]),
                 NEW b \in 1..Len(R[q][a]), NEW d \in 1..Len(R[r][e])
          PROVE  /\ q = r /\ a < e => R[q][a][b].by < R[r][e][d].by
                 /\ q # r => R[q][a][b].by # R[r][e][d].by
      <3>1. PICK x \in 1..Len(Q[q]) : R[q][a] = Q[q][x] /\ x = was(q, a) /\ a \in Nat
        BY <1>3
      <3>2. PICK y \in 1..Len(Q[r]) : R[r][e] = Q[r][y] /\ y = was(r, e) /\ e \in Nat
        BY <1>3
      <3>3. q = r /\ a < e => x < y
        BY <3>1, <3>2
      <3>4. b \in 1..Len(Q[q][x]) /\ d \in 1..Len(Q[r][y])
        BY <3>1, <3>2
      <3>5. /\ q = r /\ x < y => Q[q][x][b].by < Q[r][y][d].by
            /\ q # r => Q[q][x][b].by # Q[r][y][d].by
        BY ZenonT(30), <1>distinct, <3>4
      <3>6. QED  BY <3>1, <3>2, <3>3, <3>5
    <2>3. QED  BY <2>1, <2>2 DEF QueuesInOrder
  <1>12. u = w \o Head(Q[h])
    BY <1>1
  <1>13. QED
    BY <1>7, <1>8, <1>9, <1>10, <1>11, <1>12 DEF Ready, R

\* A new transaction joins queue h.
LEMMA Grow ==
    ASSUME NEW w \in Seq(Packets), NEW Q \in [Prios -> Seq(Seq(Packets))], NEW c \in Nat,
           NEW h \in Prios, NEW m \in Seq(Packets), Whole(m, h, c + 1),
           \A b \in 1..Len(m) : m[b].by = c + 1,
           Ready(w, Q, c), QueuesInOrder(Q, c)
    PROVE  LET R == [Q EXCEPT ![h] = Append(@, m)]
           IN  Ready(w, R, c + 1) /\ QueuesInOrder(R, c + 1)
  <1> DEFINE R == [Q EXCEPT ![h] = Append(@, m)]
  <1>1. ASSUME NEW q \in Prios, NEW a \in 1..Len(R[q])
        PROVE  /\ a \in Nat /\ Len(Q[q]) \in Nat
               /\ \/ a \in 1..Len(Q[q]) /\ R[q][a] = Q[q][a]
                  \/ a = Len(Q[q]) + 1 /\ q = h /\ R[q][a] = m
    <2>1. Q[q] \in Seq(Seq(Packets)) /\ Len(Q[q]) \in Nat
      BY LenProperties
    <2>2. CASE q = h
      <3>1. R[q] = Append(Q[q], m)
        BY <2>2
      <3>2. /\ Len(R[q]) = Len(Q[q]) + 1 /\ R[q][Len(Q[q]) + 1] = m
            /\ \A i \in 1..Len(Q[q]) : R[q][i] = Q[q][i]
        BY <2>1, <3>1, AppendProperties
      <3>3. QED  BY <2>1, <2>2, <3>2
    <2>3. CASE q # h
      <3>1. R[q] = Q[q]
        BY <2>3
      <3>2. QED  BY <2>1, <3>1
    <2>4. QED  BY <2>2, <2>3
  <1> HIDE DEF R
  <1>2. ASSUME NEW q \in Prios, NEW a \in 1..Len(Q[q]), NEW b \in 1..Len(Q[q][a])
        PROVE  Q[q][a][b].by \in Nat /\ Q[q][a][b].by <= c
    <2>1. Q[q] \in Seq(Seq(Packets))
      OBVIOUS
    <2>2. Q[q][a] \in Seq(Packets)
      BY <2>1, ElementOfSeq
    <2>3. Q[q][a][b] \in Packets
      BY <2>2, ElementOfSeq
    <2>4. Whole(Q[q][a], q, c)
      BY DEF QueuesInOrder
    <2>5. QED  BY <2>3, <2>4 DEF Packets, Whole
  <1>3. ASSUME NEW i \in 1..Len(w)  PROVE w[i].by \in Nat /\ w[i].by <= c
    <2>1. w[i] \in Packets
      BY ElementOfSeq
    <2>2. QED  BY <2>1 DEF Packets, Ready, Known
  <1>4. Apart(w, R)
    <2>1. ASSUME NEW i \in 1..Len(w), NEW q \in Prios, NEW a \in 1..Len(R[q]),
                 NEW b \in 1..Len(R[q][a])
          PROVE  /\ w[i].by # R[q][a][b].by
                 /\ w[i].from = q => w[i].by < R[q][a][b].by
      <3>1. CASE a \in 1..Len(Q[q]) /\ R[q][a] = Q[q][a]
        BY ZenonT(30), <3>1 DEF Ready, Apart
      <3>2. CASE R[q][a] = m
        <4>1. R[q][a][b].by = c + 1
          BY <3>2
        <4>2. QED  BY <1>3, <4>1
      <3>3. QED  BY <1>1, <3>1, <3>2
    <2>2. QED  BY <2>1 DEF Apart
  <1>5. Known(w, c + 1)
    BY <1>3 DEF Known
  <1>6. ASSUME NEW q \in Prios, NEW a \in 1..Len(R[q])  PROVE Whole(R[q][a], q, c + 1)
    <2>1. CASE a \in 1..Len(Q[q]) /\ R[q][a] = Q[q][a]
      <3>1. Whole(Q[q][a], q, c)
        BY <2>1 DEF QueuesInOrder
      <3>2. ASSUME NEW b \in 1..Len(Q[q][a])  PROVE Q[q][a][b].by <= c + 1
        <4>1. Q[q][a][b].by \in Nat /\ Q[q][a][b].by <= c
          BY <1>2, <2>1
        <4>2. QED  BY <4>1
      <3>3. QED  BY <2>1, <3>1, <3>2 DEF Whole
    <2>2. CASE q = h /\ R[q][a] = m
      BY <2>2
    <2>3. QED  BY <1>1, <2>1, <2>2
  <1>distinct. ASSUME NEW q \in Prios, NEW r \in Prios,
                NEW a \in 1..Len(Q[q]), NEW e \in 1..Len(Q[r]),
                NEW b \in 1..Len(Q[q][a]), NEW d \in 1..Len(Q[r][e])
         PROVE  /\ q = r /\ a < e => Q[q][a][b].by < Q[r][e][d].by
                /\ q # r => Q[q][a][b].by # Q[r][e][d].by
    BY ZenonT(30) DEF QueuesInOrder
  <1>7. ASSUME NEW q \in Prios, NEW r \in Prios, NEW a \in 1..Len(R[q]), NEW e \in 1..Len(R[r]),
               NEW b \in 1..Len(R[q][a]), NEW d \in 1..Len(R[r][e])
        PROVE  /\ q = r /\ a < e => R[q][a][b].by < R[r][e][d].by
               /\ q # r => R[q][a][b].by # R[r][e][d].by
    <2>1. CASE /\ a \in 1..Len(Q[q]) /\ R[q][a] = Q[q][a]
               /\ e \in 1..Len(Q[r]) /\ R[r][e] = Q[r][e]
      <3>1. b \in 1..Len(Q[q][a]) /\ d \in 1..Len(Q[r][e])
        BY <2>1
      <3>2. /\ q = r /\ a < e => Q[q][a][b].by < Q[r][e][d].by
            /\ q # r => Q[q][a][b].by # Q[r][e][d].by
        <4>1. a \in 1..Len(Q[q]) /\ e \in 1..Len(Q[r])
          BY <2>1
        <4>2. q = r /\ a < e => Q[q][a][b].by < Q[r][e][d].by
          BY <1>distinct, <3>1, <4>1
        <4>3. q # r => Q[q][a][b].by # Q[r][e][d].by
          BY ZenonT(30), <1>distinct, <3>1, <4>1
        <4>4. QED  BY <4>2, <4>3
      <3>3. R[q][a][b] = Q[q][a][b] /\ R[r][e][d] = Q[r][e][d]
        BY <2>1
      <3>4. QED  BY <3>2, <3>3
    <2>2. CASE /\ a \in 1..Len(Q[q]) /\ R[q][a] = Q[q][a] /\ R[r][e] = m
      <3>1. R[r][e][d].by = c + 1
        BY <2>2
      <3>2. R[q][a][b].by \in Nat /\ R[q][a][b].by <= c
        <4>1. b \in 1..Len(Q[q][a]) /\ R[q][a][b] = Q[q][a][b]
          BY <2>2
        <4>2. Q[q][a][b].by \in Nat /\ Q[q][a][b].by <= c
          BY <1>2, <2>2, <4>1
        <4>3. QED  BY <4>1, <4>2
      <3> DEFINE x == R[q][a][b].by
                 y == R[r][e][d].by
      <3>3. x \in Nat /\ x <= c /\ y = c + 1
        BY <3>1, <3>2
      <3> HIDE DEF x, y
      <3>4. x < y /\ x # y
        BY <3>3
      <3>5. QED  BY <3>4 DEF x, y
    <2>3. CASE a = Len(Q[q]) + 1 /\ q = h /\ R[q][a] = m
      <3>1. R[q][a][b].by = c + 1
        BY <2>3
      <3>2. CASE e \in 1..Len(Q[r]) /\ R[r][e] = Q[r][e]
        <4>1. R[r][e][d].by \in Nat /\ R[r][e][d].by <= c
          BY <1>2, <3>2
        <4>2. q = r => ~(a < e)
          BY <1>1, <2>3, <3>2
        <4>3. QED  BY SMTT(30), <3>1, <4>1, <4>2
      <3>3. CASE e = Len(Q[r]) + 1 /\ r = h
        <4>1. q = r /\ ~(a < e)
          BY <1>1, <2>3, <3>3
        <4>2. QED  BY <4>1
      <3>4. QED  BY <1>1, <3>2, <3>3
    <2>4. /\ \/ a \in 1..Len(Q[q]) /\ R[q][a] = Q[q][a]
             \/ a = Len(Q[q]) + 1 /\ q = h /\ R[q][a] = m
          /\ \/ e \in 1..Len(Q[r]) /\ R[r][e] = Q[r][e]
             \/ e = Len(Q[r]) + 1 /\ r = h /\ R[r][e] = m
      BY <1>1
    <2>5. QED  BY <2>1, <2>2, <2>3, <2>4
  <1>8. QueuesInOrder(R, c + 1)
    BY <1>6, <1>7 DEF QueuesInOrder
  <1>9. QED
    BY <1>4, <1>5, <1>8 DEF Ready, R

\* Steps of the game: what they commit has a number of its own.
LEMMA SameWay ==
    ASSUME UNCHANGED <<wire, asyncQueue, hand, current>>
    PROVE  Way' = Way
  BY DEF Way, Under

LEMMA CommitW ==
    ASSUME TInv, WInv, NEW packets \in Seq(Packets), NEW q \in Prios, Commit(packets, q),
           \A b, d \in 1..Len(packets) : b < d => packets[b].n < packets[d].n,
           UNCHANGED <<asyncQueue, hand, current, wire>>
    PROVE  Ready(Way', queue', commits') /\ QueuesInOrder(queue', commits')
  <1> DEFINE m == Marked(packets, commits + 1, q)
  <1>1. /\ queue \in [Prios -> Seq(Seq(Packets))] /\ queue' = [queue EXCEPT ![q] = Append(@, m)]
        /\ commits \in Nat /\ commits' = commits + 1
    BY Raw, CommitType
  <1>2. /\ m \in Seq(Packets) /\ Len(m) = Len(packets)
        /\ \A i \in 1..Len(packets) :
              m[i].by = commits + 1 /\ m[i].from = q /\ m[i].n = packets[i].n
    <2> DEFINE c == commits + 1
    <2>1. c \in Nat
      BY <1>1
    <2> HIDE DEF c
    <2>2. /\ Marked(packets, c, q) \in Seq(Packets)
          /\ Len(Marked(packets, c, q)) = Len(packets)
          /\ \A i \in 1..Len(packets) :
                /\ Marked(packets, c, q)[i].by = c
                /\ Marked(packets, c, q)[i].from = q
                /\ Marked(packets, c, q)[i].n = packets[i].n
      BY SMTT(30), <2>1, MarkedType
    <2>3. QED  BY <2>2 DEF c
  <1> HIDE DEF m
  <1>3. Whole(m, q, commits + 1)
    <2>1. ASSUME NEW b \in 1..Len(m)
          PROVE  /\ m[b].from = q /\ m[b].by <= commits + 1
                 /\ \A d \in 1..Len(m) : m[d].by = m[b].by /\ (b < d => m[b].n < m[d].n)
      <3>1. b \in 1..Len(packets) /\ m[b].by = commits + 1 /\ m[b].from = q
            /\ m[b].n = packets[b].n
        BY <1>2
      <3>2. ASSUME NEW d \in 1..Len(m)  PROVE m[d].by = m[b].by /\ (b < d => m[b].n < m[d].n)
        <4>1. d \in 1..Len(packets) /\ m[d].by = commits + 1 /\ m[d].n = packets[d].n
          BY <1>2
        <4>2. QED  BY <3>1, <4>1
      <3>3. QED  BY <1>1, <3>1, <3>2
    <2>2. QED  BY <2>1 DEF Whole
  <1>4. Way' = Way /\ Way \in Seq(Packets)
    BY SameWay, WayType
  <1>5. QED
    BY <1>1, <1>2, <1>3, <1>4, Grow DEF WInv

LEMMA EndPendingW ==
    ASSUME TInv, WInv, EndPending, UNCHANGED <<asyncQueue, hand, current, wire>>
    PROVE  Ready(Way', queue', commits') /\ QueuesInOrder(queue', commits')
  <1>1. CASE pending = <<>> \/ writeClosed
    BY <1>1, SameWay DEF EndPending, WInv
  <1>2. CASE pending # <<>> /\ ~writeClosed
    <2> DEFINE ps == pending[1].packets
               q == QueueFor(pending[1].pri)
    <2>1. Commit(ps, q)
      BY <1>2 DEF EndPending
    <2>2. ps \in Seq(Packets) /\ q \in Prios
      BY <1>2, OpenedType, QueueForType
    <2>3. \A b, d \in 1..Len(ps) : b < d => ps[b].n < ps[d].n
      BY <1>2 DEF WInv, OpenInOrder
    <2> HIDE DEF ps, q
    <2>4. QED  BY <2>1, <2>2, <2>3, CommitW
  <1>3. QED  BY <1>1, <1>2

\* A packet more in the open transaction is the newest of all.
LEMMA AppendPacketW ==
    ASSUME TInv, WInv, NEW pri \in Prios, AppendPacket(pri)
    PROVE  WInv'
  <1>1. /\ pending # <<>> /\ made' = made + 1 /\ made < MaxPackets
        /\ UNCHANGED <<queue, commits, wire, asyncQueue, hand, current>>
    BY DEF AppendPacket, outVars
  <1> DEFINE ps == pending[1].packets
             e == Made(pri)
             t == [pending[1] EXCEPT !.packets = Append(@, e), !.tried = TRUE]
  <1>2. ps \in Seq(Packets) /\ pending[1] \in Transactions /\ e \in Packets /\ e.n = made + 1
    BY <1>1, OpenedType, MadeType DEF Made
  <1>3. pending' = <<t>>
    BY DEF AppendPacket
  <1>4. pending'[1].packets = Append(ps, e)
    BY <1>2, <1>3 DEF Transactions
  <1>5. \A b, d \in 1..Len(ps) :
           ps[b].n <= made /\ (b < d => ps[b].n < ps[d].n)
    BY <1>1 DEF WInv, OpenInOrder
  <1>6. ASSUME NEW b \in 1..Len(ps)  PROVE ps[b].n \in Nat
    <2>1. ps[b] \in Packets
      BY <1>2, ElementOfSeq
    <2>2. QED  BY <2>1, Numbers DEF Packets
  <1> HIDE DEF ps, e, t
  <1>7. made \in Nat /\ Len(ps) \in Nat
    BY <1>2, Raw, LenProperties
  <1>8. /\ Len(Append(ps, e)) = Len(ps) + 1 /\ Append(ps, e)[Len(ps) + 1] = e
        /\ \A b \in 1..Len(ps) : Append(ps, e)[b] = ps[b]
    BY <1>2, AppendProperties
  <1>9. ASSUME NEW b \in 1..(Len(ps) + 1), NEW d \in 1..(Len(ps) + 1)
        PROVE  /\ Append(ps, e)[b].n <= made + 1
               /\ b < d => Append(ps, e)[b].n < Append(ps, e)[d].n
    <2>1. CASE b \in 1..Len(ps)
      <3>1. Append(ps, e)[b].n = ps[b].n /\ ps[b].n <= made /\ ps[b].n \in Nat
        BY <1>5, <1>6, <1>8, <2>1
      <3>2. CASE d \in 1..Len(ps)
        BY <1>5, <1>7, <1>8, <2>1, <3>1, <3>2
      <3>3. CASE d = Len(ps) + 1
        <4>1. Append(ps, e)[d].n = made + 1
          BY <1>2, <1>8, <3>3
        <4>2. QED  BY <1>7, <3>1, <4>1
      <3>4. QED  BY <1>7, <3>2, <3>3
    <2>2. CASE b = Len(ps) + 1
      <3>1. Append(ps, e)[b].n = made + 1 /\ ~(b < d)
        BY <1>2, <1>7, <1>8, <2>2
      <3>2. QED  BY <1>7, <3>1
    <2>3. QED  BY <1>7, <2>1, <2>2
  <1>10. OpenInOrder'
    BY <1>1, <1>4, <1>8, <1>9 DEF OpenInOrder
  <1>11. QED  BY <1>1, <1>10, SameWay DEF WInv

LEMMA GameW == ASSUME TInv, WInv, Game  PROVE WInv'
  <1>1. ASSUME NEW pri \in Prios, RefusePacket(pri)  PROVE WInv'
    <2>1. /\ pending # <<>> /\ pending' = <<[pending[1] EXCEPT !.tried = TRUE]>>
          /\ UNCHANGED <<made, queue, commits, wire, asyncQueue, hand, current>>
      BY <1>1 DEF RefusePacket, outVars
    <2>2. pending'[1].packets = pending[1].packets
      BY <2>1, OpenedType DEF Transactions
    <2>3. OpenInOrder'
      BY <2>1, <2>2 DEF WInv, OpenInOrder
    <2>4. QED  BY <2>1, <2>3, SameWay DEF WInv
  <1>2. ASSUME NEW pri \in Prios, QueuePacket(pri)  PROVE WInv'
    <2> DEFINE q == QueueFor(pri)
               p == [Made(pri) EXCEPT !.pri = q]
    <2>1. /\ made < MaxPackets /\ Commit(<<p>>, q) /\ made' = made + 1
          /\ UNCHANGED <<pending, wire, asyncQueue, hand, current>>
      BY <1>2 DEF QueuePacket, outVars
    <2>2. q \in Prios
      BY QueueForType
    <2> HIDE DEF q
    <2>3. p \in Packets
      BY <2>1, <2>2, MadeType DEF Packets
    <2> HIDE DEF p
    <2>4. <<p>> \in Seq(Packets) /\ Len(<<p>>) = 1
      BY <2>3
    <2>5. Ready(Way', queue', commits') /\ QueuesInOrder(queue', commits')
      <3>1. \A b, d \in 1..Len(<<p>>) : ~(b < d)
        BY <2>4
      <3>2. QED  BY <2>1, <2>2, <2>4, <3>1, CommitW
    <2>6. OpenInOrder'
      <3>1. CASE pending # <<>>
        <4> DEFINE ps == pending[1].packets
        <4>1. ASSUME NEW b \in 1..Len(ps)  PROVE ps[b].n \in Nat
          <5>1. ps[b] \in Packets
            BY <3>1, OpenedType, ElementOfSeq
          <5>2. QED  BY <5>1, Numbers DEF Packets
        <4>2. \A b, d \in 1..Len(ps) : ps[b].n <= made /\ (b < d => ps[b].n < ps[d].n)
          BY <3>1 DEF WInv, OpenInOrder
        <4>3. pending'[1].packets = ps /\ made \in Nat
          BY <2>1, Raw
        <4> HIDE DEF ps
        <4>4. \A b, d \in 1..Len(ps) : ps[b].n <= made + 1 /\ (b < d => ps[b].n < ps[d].n)
          BY <4>1, <4>2, <4>3
        <4>5. QED  BY <2>1, <4>3, <4>4 DEF OpenInOrder
      <3>2. QED  BY <2>1, <3>1 DEF OpenInOrder
    <2>7. QED  BY <2>5, <2>6 DEF WInv
  <1>3. ASSUME NEW pri \in Prios, BeginTransaction(pri)  PROVE WInv'
    <2>1. /\ EndPending /\ pending' = <<[pri |-> pri, packets |-> <<>>, tried |-> FALSE]>>
          /\ UNCHANGED <<made, wire, asyncQueue, hand, current>>
      BY <1>3 DEF BeginTransaction, outVars
    <2>2. Ready(Way', queue', commits') /\ QueuesInOrder(queue', commits')
      BY <2>1, EndPendingW
    <2>3. pending'[1].packets = <<>>
      BY <2>1
    <2>4. OpenInOrder'
      BY <2>3 DEF OpenInOrder
    <2>5. QED  BY <2>2, <2>4 DEF WInv
  <1>4. CASE EndTransaction
    <2>1. /\ EndPending /\ pending' = <<>> /\ UNCHANGED <<made, wire, asyncQueue, hand, current>>
      BY <1>4 DEF EndTransaction, outVars
    <2>2. Ready(Way', queue', commits') /\ QueuesInOrder(queue', commits')
      BY <2>1, EndPendingW
    <2>3. OpenInOrder'
      BY <2>1 DEF OpenInOrder
    <2>4. QED  BY <2>2, <2>3 DEF WInv
  <1>5. CASE MarkReadClosed \/ DetectAsync
    <2>1. UNCHANGED <<pending, made, queue, commits, wire, asyncQueue, hand, current>>
      BY <1>5 DEF MarkReadClosed, DetectAsync, mainVars, outVars
    <2>2. QED  BY <2>1, SameWay DEF WInv, OpenInOrder
  <1>6. QED  BY <1>1, <1>2, <1>3, <1>4, <1>5, AppendPacketW DEF Game

\* The steps after that: packets are taken off their way, or lost with the queues ...
WayShrinks ==
    /\ Sub(Way', Way) /\ (queue' = queue \/ queue' = NoQueues)
    /\ UNCHANGED <<pending, made, commits>>

\* ... or a transaction leaves its queue and goes on its way, its first packet
\* perhaps not.
WayGrows ==
    /\ \E h \in Prios : /\ queue[h] # <<>> /\ queue' = [queue EXCEPT ![h] = Tail(@)]
                        /\ Way \o Head(queue[h]) \in Seq(Packets)
                        /\ Sub(Way', Way \o Head(queue[h]))
    /\ UNCHANGED <<pending, made, commits>>

LEMMA WayTypes ==
    ASSUME TInv, TInv'
    PROVE  Way \in Seq(Packets) /\ Way' \in Seq(Packets)
  <1>1. Way \in Seq(Packets)
    BY WayType
  <1>2. (Way \in Seq(Packets))'
    BY WayType, PTL
  <1>3. QED  BY <1>1, <1>2

\* Clearing takes away the end of the byte queue and all behind it.
LEMMA ClearWay ==
    ASSUME TInv, TInv', ClearQueues, UNCHANGED <<pending, made, commits>>,
           current' = current \/ current' = <<>>, hand' = hand \/ hand' = <<>>
    PROVE  WayShrinks
  <1>1. Sub(wire', wire)
    <2>1. wire' \in Seq(Packets) /\ Len(wire') <= Len(wire)
          /\ \A i \in 1..Len(wire') : wire'[i] = wire[i]
      BY ClearQueuesType, Raw DEF Line
    <2>2. QED  BY <2>1, UnderType, SubFront
  <1>2. Sub(asyncQueue', asyncQueue) /\ Sub(hand', hand)
    BY UnderType, SubNone, SubSame DEF ClearQueues
  <1>3. Sub(Under', Under)
    <2>1. Under' = Under \/ Under' = <<>>
      BY DEF Under
    <2>2. Sub(Under, Under) /\ Sub(<<>>, Under)
      BY UnderType, SubSame, SubNone
    <2>3. QED  BY <2>1, <2>2
  <1>4. Sub(Way', Way)
    BY <1>1, <1>2, <1>3, WaySub
  <1>5. queue' = NoQueues
    BY DEF ClearQueues
  <1>6. QED  BY <1>4, <1>5 DEF WayShrinks

LEMMA StayWay ==
    ASSUME TInv, Way' = Way, UNCHANGED <<queue, pending, made, commits>>
    PROVE  WayShrinks
  BY WayType, SubSame DEF WayShrinks

LEMMA TickWay == ASSUME TInv, TInv', TickFlush \/ TickClose  PROVE WayShrinks
  <1>1. CASE TickFlush
    <2>1. UNCHANGED <<wire, asyncQueue, hand, current, queue, pending, made, commits>>
      BY <1>1 DEF TickFlush, Begins, mainVars, outVars
    <2>2. QED  BY <2>1, SameWay, StayWay
  <1>2. CASE TickClose /\ writeClosed /\ ~sending
    <2>1. ClearQueues /\ current' = <<>> /\ UNCHANGED <<hand, pending, made, commits>>
      BY <1>2 DEF TickClose, ClearQueues, MayClash, ghosts, mainVars, outVars
    <2>2. QED  BY <2>1, ClearWay
  <1>3. CASE TickClose /\ ~(writeClosed /\ ~sending)
    <2>1. UNCHANGED <<wire, asyncQueue, hand, current, queue, pending, made, commits>>
      BY <1>3 DEF TickClose, mainVars, outVars
    <2>2. QED  BY <2>1, SameWay, StayWay
  <1>4. QED  BY <1>1, <1>2, <1>3

LEMMA HeadAndTail ==
    ASSUME NEW S, NEW t \in Seq(S), t # <<>>
    PROVE  <<Head(t)>> \in Seq(S) /\ Tail(t) \in Seq(S) /\ t = <<Head(t)>> \o Tail(t)
  <1> DEFINE h == <<Head(t)>>
  <1>1. /\ Head(t) \in S /\ Tail(t) \in Seq(S) /\ Len(Tail(t)) = Len(t) - 1
        /\ \A i \in 1..Len(Tail(t)) : Tail(t)[i] = t[i + 1]
        /\ Len(t) \in Nat \ {0}
    BY HeadTailProperties, EmptySeq
  <1>2. h \in Seq(S) /\ Len(h) = 1 /\ h[1] = t[1]
    BY <1>1
  <1>3. /\ h \o Tail(t) \in Seq(S) /\ Len(h \o Tail(t)) = Len(t)
        /\ \A i \in 1..Len(t) : (h \o Tail(t))[i] = IF i <= 1 THEN h[i] ELSE Tail(t)[i - 1]
    BY <1>1, <1>2, ConcatProperties
  <1> HIDE DEF h
  <1>4. ASSUME NEW i \in 1..Len(t)  PROVE t[i] = (h \o Tail(t))[i]
    <2>1. CASE i = 1
      BY <1>2, <1>3, <2>1
    <2>2. CASE i # 1
      <3>1. ~(i <= 1) /\ i - 1 \in 1..Len(Tail(t)) /\ (i - 1) + 1 = i
        BY <1>1, <2>2
      <3>2. QED  BY <1>1, <1>3, <3>1
    <2>3. QED  BY <2>1, <2>2
  <1>5. t = h \o Tail(t)
    BY <1>3, <1>4, SeqEqual
  <1>6. QED  BY <1>1, <1>2, <1>5 DEF h

\* Taking a transaction out of its queue puts it on its way; taking its first
\* packet in hand, or dropping it, leaves the others where they are.
LEMMA TakePacketWay ==
    ASSUME TInv, TInv', TakePacket, ~clashed'
    PROVE  WayShrinks \/ WayGrows
  <1> DEFINE X == wire \o asyncQueue
             t == Transaction
  <1>1. /\ CanTake /\ Served # {} /\ hand = <<>> /\ Highest \in Prios
        /\ UNCHANGED <<wire, asyncQueue, pending, made, commits>>
    <2>1. CanTake /\ Served # {} /\ hand = <<>> /\ UNCHANGED <<wire, asyncQueue, mainVars>>
      BY DEF TakePacket, CanTake, Runs, TInv, OutInv
    <2>2. QED  BY <2>1, HighestType DEF mainVars
  <1>2. t \in Seq(Packets) /\ X \in Seq(Packets) /\ X \o t \in Seq(Packets)
    BY <1>1, TransactionType, WayType, ConcatProperties
  <1>3. Way = X \o Under
    BY <1>1, WayType, ConcatEmptySeq DEF Way
  <1>5. Sub(Way', X \o t)
    <2>1. CASE t = <<>>
      <3>1. hand' = <<>> /\ current' = <<>>
        BY <1>1, <2>1 DEF TakePacket, outVars
      <3>2. Way' = (X \o <<>>) \o <<>>
        BY <1>1, <3>1 DEF Way, Under
      <3>3. Way' = X \o t
        BY <1>2, <2>1, <3>2, ConcatEmptySeq
      <3>4. QED  BY <1>2, <3>3, SubSame
    <2>2. CASE t # <<>>
      <3> DEFINE h == <<Head(t)>>
                 r == Tail(t)
      <3>1. /\ Head(t) \in Packets /\ Consider(Head(t))
            /\ current' = IF Len(t) = 1 THEN <<>> ELSE <<r>>
        BY <2>2, TakeCurrentType
      <3>2. h \in Seq(Packets) /\ r \in Seq(Packets) /\ t = h \o r
        BY <1>2, <2>2, HeadAndTail
      <3>3. Under' = r
        <4>1. CASE Len(t) = 1
          <5>1. Len(r) = 0
            BY <1>2, <2>2, <4>1, HeadTailProperties
          <5>2. r = <<>>
            BY <3>2, <5>1, EmptySeq
          <5>3. QED  BY <3>1, <4>1, <5>2 DEF Under
        <4>2. CASE Len(t) # 1
          <5>1. current' = <<r>>
            BY <3>1, <4>2
          <5>2. QED  BY <5>1 DEF Under
        <4>3. QED  BY <4>1, <4>2
      <3>4. hand' = <<>> \/ hand' = h
        BY <1>1, <3>1, ConsiderType
      <3>5. Way' = (X \o hand') \o r
        BY <1>1, <3>3 DEF Way
      <3> HIDE DEF X, t, h, r
      <3>6. CASE hand' = h
        <4>1. Way' = X \o t
          BY <1>2, <3>2, <3>5, <3>6, ConcatAssociative
        <4>2. QED  BY <1>2, <4>1, SubSame
      <3>7. CASE hand' = <<>>
        <4>1. Way' = X \o r
          BY <1>2, <3>5, <3>7, ConcatEmptySeq
        <4>2. Sub(r, t)
          BY <1>2, <2>2, SubTail DEF r
        <4>3. Sub(X \o r, X \o t)
          BY <1>2, <3>2, <4>2, SubSame, SubConcat
        <4>4. QED  BY <4>1, <4>3
      <3>8. QED  BY <3>4, <3>6, <3>7
    <2>3. QED  BY <2>1, <2>2
  <1>6. CASE current # <<>>
    <2>1. queue' = queue /\ t = Under
      BY <1>6 DEF TakePacket, Transaction, Under
    <2>2. QED  BY <1>1, <1>3, <1>5, <2>1 DEF WayShrinks
  <1>7. CASE current = <<>>
    <2>1. /\ queue' = [queue EXCEPT ![Highest] = Tail(@)] /\ queue[Highest] # <<>>
          /\ t = Head(queue[Highest])
      BY <1>1, <1>7, TransactionType DEF TakePacket, Popped, Clash
    <2>2. Way = X
      BY <1>2, <1>3, <1>7, ConcatEmptySeq DEF Under
    <2> HIDE DEF X, t
    <2>3. QED  BY <1>1, <1>2, <1>5, <2>1, <2>2 DEF WayGrows
  <1>8. QED  BY <1>6, <1>7

\* The end of the byte queue, or nothing when the packet is refused.
LEMMA SendDataWay ==
    ASSUME TInv, NEW p \in Packets, SendData(p)
    PROVE  /\ <<p>> \in Seq(Packets)
           /\ wire' = wire \o <<p>> \/ wire' = wire
  <1>1. <<p>> \in Seq(Packets)
    OBVIOUS
  <1>2. Append(wire, p) = wire \o <<p>>
    BY UnderType, AppendIsConcat
  <1>3. QED  BY <1>1, <1>2 DEF SendData

LEMMA SendPacketWay == ASSUME TInv, TInv', DInv, SendPacket  PROVE WayShrinks
  <1>1. /\ hand[1] \in Packets /\ hand = <<hand[1]>>
        /\ UNCHANGED <<mainVars, current>>
        /\ Lost \/ (ToAsync(hand[1]) /\ async) \/ (ToWire(hand[1]) /\ ~async)
    BY SendPacketWays
  <1>2. UNCHANGED <<pending, made, commits>> /\ Under' = Under
    BY <1>1 DEF mainVars, Under
  <1>3. CASE Lost
    BY <1>1, <1>2, <1>3, ClearWay DEF Lost
  <1>4. CASE ToAsync(hand[1]) /\ async
    <2>1. asyncQueue' = Append(asyncQueue, hand[1]) /\ hand' = <<>> /\ UNCHANGED <<queue, wire>>
      BY <1>4 DEF ToAsync
    <2>2. asyncQueue' = asyncQueue \o hand
      BY <1>1, <2>1, UnderType, AppendIsConcat
    <2>3. asyncQueue \o hand \in Seq(Packets) /\ wire \o (asyncQueue \o hand) \in Seq(Packets)
      BY UnderType, ConcatProperties
    <2>4. (wire \o (asyncQueue \o hand)) \o <<>> = (wire \o asyncQueue) \o hand
      BY SMTT(30), <2>3, UnderType, ConcatEmptySeq, ConcatAssociative
    <2>5. Way' = Way
      BY <1>2, <2>1, <2>2, <2>4 DEF Way
    <2>6. QED  BY <1>2, <2>1, <2>5, StayWay
  <1>5. CASE ToWire(hand[1]) /\ ~async
    <2>1. /\ SendData(hand[1]) /\ hand' = <<>> /\ UNCHANGED <<queue, asyncQueue>>
          /\ asyncQueue = <<>>
      BY <1>5 DEF ToWire, DInv
    <2>2. wire' = wire \o hand \/ wire' = wire
      BY <1>1, <2>1, SendDataWay
    <2>3. CASE wire' = wire \o hand
      <3>1. wire \o hand \in Seq(Packets)
        BY UnderType, ConcatProperties
      <3>2. ((wire \o hand) \o <<>>) \o <<>> = (wire \o <<>>) \o hand
        BY <3>1, UnderType, ConcatEmptySeq
      <3>3. Way' = Way
        BY <1>2, <2>1, <2>3, <3>2 DEF Way
      <3>4. QED  BY <1>2, <2>1, <3>3, StayWay
    <2>4. CASE wire' = wire
      <3>1. /\ Sub(wire', wire) /\ Sub(asyncQueue', asyncQueue) /\ Sub(hand', hand)
            /\ Sub(Under', Under)
        BY <1>2, <2>1, <2>4, UnderType, SubSame, SubNone
      <3>2. QED  BY <1>2, <2>1, <3>1, WaySub DEF WayShrinks
    <2>5. QED  BY <2>2, <2>3, <2>4
  <1>6. QED  BY <1>1, <1>3, <1>4, <1>5

LEMMA ProcessAsyncQueueWay ==
    ASSUME TInv, TInv', ProcessAsyncQueue, ~clashed'
    PROVE  WayShrinks
  <1>1. /\ hand = <<>> /\ UNCHANGED <<mainVars, current>>
        /\ AsyncSends \/ AsyncDrops \/ AsyncWaits \/ AsyncFails
    BY AsyncWays
  <1>2. UNCHANGED <<pending, made, commits>> /\ Under' = Under
    BY <1>1 DEF mainVars, Under
  <1> DEFINE r == Tail(asyncQueue)
             h == <<Head(asyncQueue)>>
  <1>3. asyncQueue # <<>> =>
          /\ r \in Seq(Packets) /\ h \in Seq(Packets) /\ asyncQueue = h \o r
          /\ Sub(r, asyncQueue) /\ Head(asyncQueue) \in Packets
    BY UnderType, HeadAndTail, SubTail, AsyncWays
  <1>4. ASSUME asyncQueue # <<>>, asyncQueue' = r, UNCHANGED <<queue, wire, hand>>
        PROVE  WayShrinks
    <2>1. /\ Sub(wire', wire) /\ Sub(asyncQueue', asyncQueue) /\ Sub(hand', hand)
          /\ Sub(Under', Under)
      BY <1>2, <1>3, <1>4, UnderType, SubSame
    <2>2. QED  BY <1>2, <1>4, <2>1, WaySub DEF WayShrinks
  <1>5. CASE AsyncSends
    <2>1. /\ asyncQueue # <<>> /\ SendData(Head(asyncQueue)) /\ asyncQueue' = r
          /\ UNCHANGED <<queue, hand>>
      BY <1>5 DEF AsyncSends, AsyncPopped, Clash, Goto
    <2>2. wire' = wire \o h \/ wire' = wire
      BY <1>3, <2>1, SendDataWay
    <2>3. CASE wire' = wire \o h
      <3>1. (wire \o h) \o r = wire \o asyncQueue
        BY SMTT(30), <1>3, <2>1, UnderType, ConcatAssociative
      <3>2. Way' = Way
        BY <1>2, <2>1, <2>3, <3>1 DEF Way
      <3>3. QED  BY <1>2, <2>1, <3>2, StayWay
    <2>4. QED  BY <1>4, <2>1, <2>2, <2>3
  <1>6. CASE AsyncDrops
    BY <1>4, <1>6 DEF AsyncDrops, AsyncPopped, Clash, Goto
  <1>7. CASE AsyncWaits
    <2>1. UNCHANGED <<queue, asyncQueue, wire, hand>>
      BY <1>7 DEF AsyncWaits, Goto
    <2>2. QED  BY <1>1, <1>2, <2>1, SameWay, StayWay
  <1>8. CASE AsyncFails
    <2>1. ClearQueues /\ hand' = <<>>
      BY <1>8 DEF AsyncFails, SendDataFails
    <2>2. QED  BY <1>1, <1>2, <2>1, ClearWay
  <1>9. QED  BY <1>1, <1>5, <1>6, <1>7, <1>8

LEMMA OtherWay ==
    ASSUME TInv, TInv',
           \/ PassFlushes \/ \E prios \in SUBSET Prios : PassBegins(prios)
           \/ MarkWriteClosed \/ QueuesDone \/ QueueLimit \/ ProcessByteQueue \/ AsyncReady
           \/ UNCHANGED vars
    PROVE  WayShrinks
  <1>1. CASE ProcessByteQueue
    <2>1. UNCHANGED <<pending, made, commits, current, hand>>
      BY <1>1 DEF ProcessByteQueue, mainVars
    <2>2. CASE UNCHANGED <<queue, asyncQueue, wire>>
      BY <2>1, <2>2, SameWay, StayWay
    <2>3. CASE ClearQueues
      BY <2>1, <2>3, ClearWay
    <2>4. QED  BY <1>1, <2>2, <2>3 DEF ProcessByteQueue
  <1>2. CASE ~ProcessByteQueue
    <2>1. UNCHANGED <<wire, asyncQueue, hand, current, queue, pending, made, commits>>
      BY <1>2 DEF PassFlushes, PassBegins, MarkWriteClosed, QueuesDone, QueueLimit, AsyncReady,
                  Begins, vars, mainVars, outVars
    <2>2. QED  BY <2>1, SameWay, StayWay
  <1>3. QED  BY <1>1, <1>2

\* Nothing that can happen undoes the order of what is on its way.
LEMMA ShrinksW ==
    ASSUME TInv, TInv', WInv, WayShrinks
    PROVE  WInv'
  <1>1. Ready(Way', queue, commits)
    BY WayTypes, SubReady DEF WInv, WayShrinks
  <1>2. Ready(Way', queue', commits') /\ QueuesInOrder(queue', commits')
    <2>1. CASE queue' = queue
      BY <1>1, <2>1 DEF WInv, WayShrinks
    <2>2. CASE queue' = NoQueues
      <3>1. \A q \in Prios : 1..Len(queue'[q]) = {}
        BY <2>2 DEF NoQueues
      <3>2. QED  BY <1>1, <3>1 DEF WayShrinks, Ready, Apart, QueuesInOrder
    <2>3. QED  BY <2>1, <2>2 DEF WayShrinks
  <1>3. QED  BY <1>2 DEF WInv, WayShrinks, OpenInOrder

LEMMA GrowsW ==
    ASSUME TInv, TInv', WInv, WayGrows
    PROVE  WInv'
  <1>1. PICK h \in Prios : /\ queue[h] # <<>> /\ queue' = [queue EXCEPT ![h] = Tail(@)]
                           /\ Way \o Head(queue[h]) \in Seq(Packets)
                           /\ Sub(Way', Way \o Head(queue[h]))
    BY DEF WayGrows
  <1>2. queue \in [Prios -> Seq(Seq(Packets))] /\ commits \in Nat
    BY Raw
  <1>3. Ready(Way, queue, commits) /\ QueuesInOrder(queue, commits)
    BY DEF WInv
  <1>4. Ready(Way \o Head(queue[h]), queue', commits) /\ QueuesInOrder(queue', commits)
    BY <1>1, <1>2, <1>3, WayTypes, Join
  <1>5. Ready(Way', queue', commits)
    BY <1>1, <1>4, WayTypes, SubReady
  <1>6. QED  BY <1>4, <1>5 DEF WInv, WayGrows, OpenInOrder

\* All steps but those of the game.
LEMMA Ways ==
    ASSUME TInv, TInv', DInv, [Next]_vars, ~clashed'
    PROVE  Game \/ WayShrinks \/ WayGrows
  <1>1. CASE TickFlush \/ TickClose
    BY <1>1, TickWay
  <1>2. CASE Output
    BY <1>2, TakePacketWay, SendPacketWay, ProcessAsyncQueueWay, OtherWay DEF Output
  <1>3. CASE AsyncReady \/ UNCHANGED vars
    BY <1>3, OtherWay
  <1>4. QED  BY <1>1, <1>2, <1>3 DEF Next

LEMMA InitWay == ASSUME Init  PROVE Way = <<>>
  <1>1. <<>> \in Seq(Packets)
    OBVIOUS
  <1>2. (<<>> \o <<>>) \o <<>> = <<>>
    BY <1>1, ConcatEmptySeq
  <1>3. Way = ((<<>> \o <<>>) \o <<>>) \o <<>>
    BY DEF Init, Way, Under
  <1>4. QED  BY <1>1, <1>2, <1>3, ConcatEmptySeq

LEMMA WInvInit == Init => WInv
  <1> SUFFICES ASSUME Init  PROVE WInv
    OBVIOUS
  <1>1. Way = <<>>
    BY InitWay
  <1>2. 1..Len(Way) = {}
    BY <1>1
  <1>3. Ready(Way, queue, commits)
    BY <1>2 DEF Ready, Sorted, Blocks, Apart, Known
  <1>4. \A q \in Prios : 1..Len(queue[q]) = {}
    BY DEF Init, NoQueues
  <1>5. QueuesInOrder(queue, commits)
    BY <1>4 DEF QueuesInOrder
  <1>6. OpenInOrder
    BY DEF Init, OpenInOrder
  <1>7. QED  BY <1>3, <1>5, <1>6 DEF WInv

LEMMA WInvNext == TInv /\ TInv' /\ DInv /\ WInv /\ [Next]_vars /\ ~clashed' => WInv'
  BY Ways, GameW, ShrinksW, GrowsW

\* The byte queue is the front of the way.
LEMMA WireReady ==
    ASSUME TInv, WInv
    PROVE  Sorted(wire) /\ Blocks(wire) /\ DOMAIN wire = 1..Len(wire)
  <1>1. Sub(wire, Way)
    <2>1. wire \o <<>> = wire /\ <<>> \in Seq(Packets)
      BY UnderType, ConcatEmptySeq
    <2>2. Sub(wire, wire) /\ Sub(<<>>, asyncQueue) /\ Sub(<<>>, hand) /\ Sub(<<>>, Under)
      BY UnderType, SubSame, SubNone
    <2>3. Sub(wire \o <<>>, wire \o asyncQueue)
      BY <2>1, <2>2, UnderType, SubConcat
    <2>4. Sub(wire \o <<>>, (wire \o asyncQueue) \o hand)
      BY <2>1, <2>2, <2>3, UnderType, WayType, SubConcat
    <2>5. Sub(wire \o <<>>, ((wire \o asyncQueue) \o hand) \o Under)
      BY <2>1, <2>2, <2>4, UnderType, WayType, SubConcat
    <2>6. QED  BY <2>1, <2>5 DEF Way
  <1>2. Ready(wire, queue, commits)
    BY <1>1, UnderType, WayType, SubReady DEF WInv
  <1>3. QED  BY <1>2, UnderType, LenProperties DEF Ready

\* What is true as long as the threads have not met in a queue.
LEMMA ClashStays == ASSUME [Next]_vars, clashed  PROVE clashed'
  <1>1. CASE Game \/ TickFlush \/ TickClose \/ AsyncReady \/ UNCHANGED vars
    BY <1>1 DEF Game, AppendPacket, RefusePacket, QueuePacket, BeginTransaction, EndTransaction,
                MarkReadClosed, DetectAsync, TickFlush, TickClose, AsyncReady, vars, ghosts
  <1>2. CASE Output
    <2>1. CASE TakePacket
      BY <2>1 DEF TakePacket, Popped, Clash
    <2>2. CASE SendPacket
      BY <2>2 DEF SendPacket, SendDataFails, ClearQueues, MayClash, Clash
    <2>3. CASE ProcessAsyncQueue
      BY <2>3 DEF ProcessAsyncQueue, AsyncPopped, SendDataFails, ClearQueues, MayClash, Clash,
                  ghosts
    <2>4. CASE ProcessByteQueue
      BY <2>4 DEF ProcessByteQueue, ClearQueues, MayClash, Clash
    <2>5. QED
      BY <1>2, <2>1, <2>2, <2>3, <2>4
      DEF Output, PassFlushes, PassBegins, MarkWriteClosed, QueuesDone, QueueLimit, ghosts
  <1>3. QED  BY <1>1, <1>2 DEF Next

CInv == ~clashed => WInv

LEMMA AllAlways == Spec => [](TInv /\ DInv /\ CInv)
  <1>1. Init => TInv /\ DInv /\ CInv
    BY TInvInit, DInvInit, WInvInit DEF CInv
  <1>2. TInv /\ DInv /\ CInv /\ [Next]_vars => (TInv /\ DInv /\ CInv)'
    BY TInvNext, DInvNext, WInvNext, ClashStays DEF CInv
  <1>3. QED  BY <1>1, <1>2, PTL DEF Spec

\* Whatever the limits, what was put into one queue is sent in that order, over
\* the transaction under way, the async queue and the byte queue.
THEOREM QueuesStayInOrder == Spec => []InOrder
  <1>1. TInv /\ CInv => InOrder
    BY WireReady DEF CInv, InOrder, Sorted, Before
  <1>2. QED  BY <1>1, AllAlways, PTL

\* Whatever the limits, the packets of a transaction reach the client together.
THEOREM TransactionsStayTogether == Spec => []Together
  <1>1. TInv /\ CInv => Together
    BY WireReady DEF CInv, Together, Blocks
  <1>2. QED  BY <1>1, AllAlways, PTL

-----------------------------------------------------------------------------
(* Nothing is in two places. *)

\* No packet in s is newer than the m-th.
Old(s, m) == \A i \in DOMAIN s : s[i].n \in 1..m

\* OnlyOnce of a way w, queues Q and an open transaction o.  The packets are
\* numbered as they are made, so that the next one is no packet there is.
Alone(w, Q, o, m) ==
    /\ Lone(w) /\ Lone(o) /\ Strange(w, o) /\ Old(w, m) /\ Old(o, m)
    /\ \A p \in Prios : \A i \in DOMAIN Q[p] :
          Lone(Q[p][i]) /\ Strange(Q[p][i], w) /\ Strange(Q[p][i], o) /\ Old(Q[p][i], m)
    /\ \A p, q \in Prios : \A i \in DOMAIN Q[p], j \in DOMAIN Q[q] :
          <<p, i>> # <<q, j>> => Strange(Q[p][i], Q[q][j])

AInv == Alone(Way, queue, Opened, made)

LEMMA Domains == ASSUME NEW S, NEW s \in Seq(S)  PROVE DOMAIN s = 1..Len(s) /\ Len(s) \in Nat
  BY LenProperties

LEMMA StrangeBoth == ASSUME NEW s, NEW t, Strange(s, t)  PROVE Strange(t, s)
  BY DEF Strange

\* What is left of w holds nothing that w does not.
LEMMA SubAlone ==
    ASSUME NEW v \in Seq(Packets), NEW w \in Seq(Packets), NEW Q, NEW o, NEW m, Sub(v, w),
           Alone(w, Q, o, m)
    PROVE  Alone(v, Q, o, m)
  <1>1. DOMAIN v = 1..Len(v) /\ DOMAIN w = 1..Len(w) /\ Len(v) \in Nat
    BY Domains
  <1>2. PICK f \in [1..Len(v) -> 1..Len(w)] :
           /\ \A i, j \in 1..Len(v) : i < j => f[i] < f[j]
           /\ \A i \in 1..Len(v) : v[i] = w[f[i]]
    BY DEF Sub
  <1>3. \A i \in DOMAIN v : f[i] \in DOMAIN w /\ f[i] \in Nat /\ v[i] = w[f[i]]
    BY <1>1, <1>2
  <1>4. Lone(v)
    <2>1. ASSUME NEW i \in DOMAIN v, NEW j \in DOMAIN v, v[i].n = v[j].n  PROVE i = j
      <3>1. f[i] = f[j]
        BY <1>3, <2>1 DEF Alone, Lone
      <3>2. i \in 1..Len(v) /\ j \in 1..Len(v) /\ f[i] \in Nat /\ ~(f[i] < f[j])
            /\ ~(f[j] < f[i])
        BY <1>1, <1>3, <3>1
      <3>3. ~(i < j) /\ ~(j < i)
        BY <1>2, <3>2
      <3>4. QED  BY <1>1, <3>2, <3>3
    <2>2. QED  BY <2>1 DEF Lone
  <1>5. ASSUME NEW t, Strange(t, w)  PROVE Strange(t, v)
    BY <1>3, <1>5 DEF Strange
  <1>6. Strange(v, o)
    BY <1>3 DEF Alone, Strange
  <1>7. Old(v, m)
    BY <1>3 DEF Alone, Old
  <1>8. QED  BY <1>4, <1>5, <1>6, <1>7 DEF Alone

\* The transaction at the head of queue h goes on its way.
LEMMA JoinAlone ==
    ASSUME NEW w \in Seq(Packets), NEW Q \in [Prios -> Seq(Seq(Packets))], NEW o, NEW m,
           NEW h \in Prios, Q[h] # <<>>, Alone(w, Q, o, m)
    PROVE  Alone(w \o Head(Q[h]), [Q EXCEPT ![h] = Tail(@)], o, m)
  <1> DEFINE R == [Q EXCEPT ![h] = Tail(@)]
             t == Q[h][1]
             u == w \o t
  <1>1. /\ Q[h] \in Seq(Seq(Packets)) /\ Head(Q[h]) = t /\ t \in Seq(Packets)
        /\ Tail(Q[h]) \in Seq(Seq(Packets)) /\ Len(Q[h]) \in Nat
        /\ Len(Tail(Q[h])) = Len(Q[h]) - 1 /\ 1 \in DOMAIN Q[h]
        /\ \A a \in 1..Len(Tail(Q[h])) : Tail(Q[h])[a] = Q[h][a + 1]
    <2>1. Q[h] \in Seq(Seq(Packets)) /\ Len(Q[h]) \in Nat \ {0}
      BY EmptySeq
    <2>2. Head(Q[h]) = t
      BY <2>1
    <2>3. QED  BY <2>1, <2>2, HeadTailProperties
  <1>2. /\ DOMAIN w = 1..Len(w) /\ DOMAIN t = 1..Len(t) /\ Len(w) \in Nat /\ Len(t) \in Nat
        /\ u \in Seq(Packets) /\ Len(u) = Len(w) + Len(t)
        /\ \A i \in 1..(Len(w) + Len(t)) : u[i] = IF i <= Len(w) THEN w[i] ELSE t[i - Len(w)]
    BY <1>1, Domains, ConcatProperties
  <1>3. DOMAIN u = 1..(Len(w) + Len(t))
    BY <1>2, Domains
  <1>4. ASSUME NEW i \in DOMAIN u
        PROVE  \/ i \in DOMAIN w /\ u[i] = w[i]
               \/ i - Len(w) \in DOMAIN t /\ u[i] = t[i - Len(w)] /\ ~(i \in DOMAIN w)
    BY <1>2, <1>3
  <1>5. /\ Lone(w) /\ Lone(t) /\ Strange(t, w) /\ Strange(t, o) /\ Strange(w, o)
        /\ Old(t, m) /\ Old(w, m) /\ Lone(o) /\ Old(o, m)
    BY <1>1 DEF Alone
  <1> HIDE DEF t, u
  <1>6. Lone(u)
    <2>1. ASSUME NEW i \in DOMAIN u, NEW j \in DOMAIN u, u[i].n = u[j].n  PROVE i = j
      <3>1. i \in Int /\ j \in Int /\ Len(w) \in Int
        BY <1>2, <1>3
      <3>2. CASE i \in DOMAIN w /\ u[i] = w[i] /\ j \in DOMAIN w /\ u[j] = w[j]
        BY <1>5, <2>1, <3>2 DEF Lone
      <3>3. CASE i - Len(w) \in DOMAIN t /\ u[i] = t[i - Len(w)] /\ j \in DOMAIN w /\ u[j] = w[j]
        BY <1>5, <2>1, <3>3 DEF Strange
      <3>4. CASE i \in DOMAIN w /\ u[i] = w[i] /\ j - Len(w) \in DOMAIN t /\ u[j] = t[j - Len(w)]
        BY <1>5, <2>1, <3>4 DEF Strange
      <3>5. CASE /\ i - Len(w) \in DOMAIN t /\ u[i] = t[i - Len(w)]
                 /\ j - Len(w) \in DOMAIN t /\ u[j] = t[j - Len(w)]
        <4>1. i - Len(w) = j - Len(w)
          BY <1>5, <2>1, <3>5 DEF Lone
        <4>2. QED  BY <3>1, <4>1
      <3>6. QED  BY <1>4, <3>2, <3>3, <3>4, <3>5
    <2>2. QED  BY <2>1 DEF Lone
  <1>7. ASSUME NEW s, Strange(s, w), Strange(s, t)  PROVE Strange(s, u)
    <2> SUFFICES ASSUME NEW i \in DOMAIN s, NEW j \in DOMAIN u  PROVE s[i].n # u[j].n
      BY DEF Strange
    <2>1. CASE j \in DOMAIN w /\ u[j] = w[j]
      BY <1>7, <2>1 DEF Strange
    <2>2. CASE j - Len(w) \in DOMAIN t /\ u[j] = t[j - Len(w)]
      BY <1>7, <2>2 DEF Strange
    <2>3. QED  BY <1>4, <2>1, <2>2
  <1>8. Strange(u, o) /\ Old(u, m)
    <2>1. ASSUME NEW i \in DOMAIN u, NEW j \in DOMAIN o  PROVE u[i].n # o[j].n
      <3>1. CASE i \in DOMAIN w /\ u[i] = w[i]
        BY <1>5, <3>1 DEF Strange
      <3>2. CASE i - Len(w) \in DOMAIN t /\ u[i] = t[i - Len(w)]
        BY <1>5, <3>2 DEF Strange
      <3>3. QED  BY <1>4, <3>1, <3>2
    <2>2. Old(u, m)
      BY <1>4, <1>5 DEF Old
    <2>3. QED  BY <2>1, <2>2 DEF Strange
  \* where what is left of a queue was
  <1> DEFINE was(q, a) == IF q = h THEN a + 1 ELSE a
  <1>9. ASSUME NEW q \in Prios, NEW a \in DOMAIN R[q]
        PROVE  /\ was(q, a) \in DOMAIN Q[q] /\ R[q][a] = Q[q][was(q, a)] /\ a \in Nat
               /\ <<q, was(q, a)>> # <<h, 1>>
    <2>1. CASE q = h
      <3>1. R[q] = Tail(Q[h])
        BY <2>1
      <3>2. DOMAIN R[q] = 1..(Len(Q[h]) - 1) /\ DOMAIN Q[h] = 1..Len(Q[h])
        BY <1>1, <3>1, Domains
      <3>3. a \in Nat /\ a # 0 /\ a + 1 \in DOMAIN Q[h]
        BY <1>1, <3>2
      <3>4. R[q][a] = Q[h][a + 1]
        BY <1>1, <3>1, <3>2
      <3>5. QED  BY <2>1, <3>3, <3>4
    <2>2. CASE q # h
      <3>1. R[q] = Q[q] /\ Q[q] \in Seq(Seq(Packets))
        BY <2>2
      <3>2. a \in Nat
        BY <3>1, Domains
      <3>3. QED  BY <2>2, <3>1, <3>2
    <2>3. QED  BY <2>1, <2>2
  <1> HIDE DEF R
  <1>10. ASSUME NEW q \in Prios, NEW a \in DOMAIN R[q]
         PROVE  /\ Lone(R[q][a]) /\ Strange(R[q][a], u) /\ Strange(R[q][a], o) /\ Old(R[q][a], m)
    <2>1. was(q, a) \in DOMAIN Q[q] /\ R[q][a] = Q[q][was(q, a)] /\ <<q, was(q, a)>> # <<h, 1>>
      BY <1>9
    <2> HIDE DEF was
    <2>2. Strange(R[q][a], w) /\ Strange(R[q][a], t)
      BY <1>1, <2>1 DEF Alone, t
    <2>3. QED  BY <1>7, <2>1, <2>2 DEF Alone
  <1>11. ASSUME NEW p \in Prios, NEW q \in Prios, NEW i \in DOMAIN R[p], NEW j \in DOMAIN R[q],
                <<p, i>> # <<q, j>>
         PROVE  Strange(R[p][i], R[q][j])
    <2>1. /\ was(p, i) \in DOMAIN Q[p] /\ R[p][i] = Q[p][was(p, i)] /\ i \in Nat
          /\ was(q, j) \in DOMAIN Q[q] /\ R[q][j] = Q[q][was(q, j)] /\ j \in Nat
      BY <1>9
    <2>2. <<p, was(p, i)>> # <<q, was(q, j)>>
      BY <1>11, <2>1
    <2> HIDE DEF was
    <2>3. QED  BY <2>1, <2>2 DEF Alone
  <1>12. Alone(u, R, o, m)
    BY <1>5, <1>6, <1>8, <1>10, <1>11 DEF Alone
  <1>13. QED  BY <1>1, <1>12 DEF R, u

\* A transaction with packets that are nowhere else joins queue h.
LEMMA GrowAlone ==
    ASSUME NEW w, NEW Q \in [Prios -> Seq(Seq(Packets))], NEW o, NEW m,
           NEW h \in Prios, NEW k \in Seq(Packets),
           Lone(k), Strange(k, w), Strange(k, o), Old(k, m),
           \A p \in Prios : \A i \in DOMAIN Q[p] : Strange(k, Q[p][i]),
           Alone(w, Q, o, m)
    PROVE  Alone(w, [Q EXCEPT ![h] = Append(@, k)], o, m)
  <1> DEFINE R == [Q EXCEPT ![h] = Append(@, k)]
  <1>1. ASSUME NEW q \in Prios, NEW a \in DOMAIN R[q]
        PROVE  \/ a \in DOMAIN Q[q] /\ R[q][a] = Q[q][a]
               \/ q = h /\ a = Len(Q[h]) + 1 /\ a \notin DOMAIN Q[q] /\ R[q][a] = k
    <2>1. CASE q = h
      <3>1. Q[h] \in Seq(Seq(Packets)) /\ R[q] = Append(Q[h], k)
        BY <2>1
      <3>2. /\ R[q] \in Seq(Seq(Packets)) /\ Len(R[q]) = Len(Q[h]) + 1
            /\ R[q][Len(Q[h]) + 1] = k /\ \A i \in 1..Len(Q[h]) : R[q][i] = Q[h][i]
        BY <3>1, AppendProperties
      <3>3. /\ DOMAIN R[q] = 1..(Len(Q[h]) + 1) /\ DOMAIN Q[h] = 1..Len(Q[h])
            /\ Len(Q[h]) \in Nat
        BY <3>1, <3>2, Domains
      <3>4. QED  BY <2>1, <3>2, <3>3
    <2>2. CASE q # h
      <3>1. R[q] = Q[q]
        BY <2>2
      <3>2. QED  BY <3>1
    <2>3. QED  BY <2>1, <2>2
  <1> HIDE DEF R
  <1>2. ASSUME NEW q \in Prios, NEW a \in DOMAIN R[q]
        PROVE  Lone(R[q][a]) /\ Strange(R[q][a], w) /\ Strange(R[q][a], o) /\ Old(R[q][a], m)
    BY <1>1 DEF Alone
  <1>3. ASSUME NEW p \in Prios, NEW q \in Prios, NEW i \in DOMAIN R[p], NEW j \in DOMAIN R[q],
               <<p, i>> # <<q, j>>
        PROVE  Strange(R[p][i], R[q][j])
    <2>1. CASE i \in DOMAIN Q[p] /\ R[p][i] = Q[p][i]
      <3>1. CASE j \in DOMAIN Q[q] /\ R[q][j] = Q[q][j]
        BY <1>3, <2>1, <3>1 DEF Alone
      <3>2. CASE R[q][j] = k
        BY <2>1, <3>2, StrangeBoth
      <3>3. QED  BY <1>1, <3>1, <3>2
    <2>2. CASE p = h /\ i = Len(Q[h]) + 1 /\ R[p][i] = k
      <3>1. ~(q = h /\ j = Len(Q[h]) + 1)
        BY <1>3, <2>2
      <3>2. j \in DOMAIN Q[q] /\ R[q][j] = Q[q][j]
        BY <1>1, <3>1
      <3>3. QED  BY <2>2, <3>2
    <2>3. QED  BY <1>1, <2>1, <2>2
  <1>4. Alone(w, R, o, m)
    BY <1>2, <1>3 DEF Alone
  <1>5. QED  BY <1>4 DEF R

\* A packet that is made is newer than all there are.
LEMMA Newer ==
    ASSUME NEW s, NEW m \in Nat, Old(s, m)
    PROVE  Old(s, m + 1) /\ \A i \in DOMAIN s : s[i].n # m + 1
  BY DEF Old

LEMMA LaterAlone ==
    ASSUME NEW w, NEW Q, NEW o, NEW m \in Nat, Alone(w, Q, o, m)
    PROVE  Alone(w, Q, o, m + 1)
  BY Newer DEF Alone

\* Commit() only marks the packets.
LEMMA CommitA ==
    ASSUME TInv, NEW packets \in Seq(Packets), NEW q \in Prios, NEW o, NEW m,
           Commit(packets, q), Alone(Way, queue, o, m),
           Lone(packets), Strange(packets, Way), Strange(packets, o), Old(packets, m),
           \A p \in Prios : \A i \in DOMAIN queue[p] : Strange(packets, queue[p][i])
    PROVE  Alone(Way, queue', o, m)
  <1>1. PICK k \in Seq(Packets) :
           /\ queue' = [queue EXCEPT ![q] = Append(@, k)]
           /\ Len(k) = Len(packets) /\ \A i \in 1..Len(packets) : k[i].n = packets[i].n
    <2>1. PICK c \in Nat : c = commits + 1
      BY Raw
    <2>2. queue' = [queue EXCEPT ![q] = Append(@, Marked(packets, c, q))]
      BY <2>1, CommitType
    <2>3. /\ Marked(packets, c, q) \in Seq(Packets)
          /\ Len(Marked(packets, c, q)) = Len(packets)
          /\ \A i \in 1..Len(packets) : Marked(packets, c, q)[i].n = packets[i].n
      BY SMTT(30), MarkedType
    <2>4. QED  BY <2>2, <2>3
  <1>2. \A i \in DOMAIN k : i \in DOMAIN packets /\ k[i].n = packets[i].n
    BY <1>1, Domains
  <1>3. Lone(k) /\ Old(k, m)
    BY <1>2 DEF Lone, Old
  <1>4. \A t : Strange(packets, t) => Strange(k, t)
    BY <1>2 DEF Strange
  <1>5. queue \in [Prios -> Seq(Seq(Packets))]
    BY Raw
  <1>6. QED
    BY <1>1, <1>3, <1>4, <1>5, GrowAlone

\* The open transaction is put into a queue, or is deleted.
LEMMA EndPendingA ==
    ASSUME TInv, AInv, EndPending
    PROVE  Alone(Way, queue', <<>>, made)
  <1>1. Alone(Way, queue, <<>>, made)
    BY DEF AInv, Alone, Lone, Strange, Old
  <1>2. CASE pending = <<>> \/ writeClosed
    BY <1>1, <1>2 DEF EndPending
  <1>3. CASE pending # <<>> /\ ~writeClosed
    <2> DEFINE ps == pending[1].packets
               q == QueueFor(pending[1].pri)
    <2>1. Commit(ps, q) /\ Opened = ps
      BY <1>3 DEF EndPending, Opened
    <2>2. ps \in Seq(Packets) /\ q \in Prios
      BY <1>3, OpenedType, QueueForType
    <2> HIDE DEF ps, q
    <2>3. Lone(ps) /\ Strange(Way, ps) /\ Old(ps, made)
      BY <2>1 DEF AInv, Alone
    <2>4. Strange(ps, <<>>)
      BY DEF Strange
    <2>5. \A p \in Prios : \A i \in DOMAIN queue[p] : Strange(ps, queue[p][i])
      BY <2>1, StrangeBoth DEF AInv, Alone
    <2>6. QED  BY <1>1, <2>1, <2>2, <2>3, <2>4, <2>5, StrangeBoth, CommitA
  <1>4. QED  BY <1>2, <1>3

LEMMA GameA == ASSUME TInv, AInv, Game  PROVE AInv'
  <1>1. made \in Nat
    BY Numbers, Raw
  <1>2. ASSUME NEW pri \in Prios, AppendPacket(pri)  PROVE AInv'
    <2>1. /\ pending # <<>> /\ made' = made + 1 /\ made < MaxPackets
          /\ UNCHANGED <<queue, wire, asyncQueue, hand, current>>
      BY <1>2 DEF AppendPacket, outVars
    <2> DEFINE ps == pending[1].packets
               e == Made(pri)
               t == [pending[1] EXCEPT !.packets = Append(@, e), !.tried = TRUE]
    <2>2. ps \in Seq(Packets) /\ pending[1] \in Transactions /\ e \in Packets /\ e.n = made + 1
      BY <2>1, OpenedType, MadeType DEF Made
    <2>3. pending' = <<t>>
      BY <1>2 DEF AppendPacket
    <2>4. Opened' = Append(ps, e) /\ Opened = ps
      <3>1. pending'[1].packets = Append(ps, e) /\ pending' # <<>>
        BY <2>2, <2>3 DEF Transactions
      <3>2. QED  BY <2>1, <3>1 DEF Opened
    <2> HIDE DEF ps, e, t
    <2>5. /\ DOMAIN ps = 1..Len(ps) /\ Len(ps) \in Nat
          /\ DOMAIN Append(ps, e) = 1..(Len(ps) + 1)
          /\ \A i \in 1..Len(ps) : Append(ps, e)[i] = ps[i]
          /\ Append(ps, e)[Len(ps) + 1] = e
      BY <2>2, Domains, AppendProperties
    <2>6. \A i \in DOMAIN Append(ps, e) :
              \/ i \in DOMAIN ps /\ Append(ps, e)[i] = ps[i]
              \/ i = Len(ps) + 1 /\ Append(ps, e)[i].n = made + 1
      BY <2>2, <2>5
    <2>7. Alone(Way, queue, ps, made)
      BY <2>4 DEF AInv
    <2>8. Lone(Append(ps, e)) /\ Old(Append(ps, e), made + 1)
      <3>1. Old(ps, made + 1) /\ \A i \in DOMAIN ps : ps[i].n # made + 1
        BY <1>1, <2>7, Newer DEF Alone
      <3>2. Lone(ps)
        BY <2>7 DEF Alone
      <3>3. Lone(Append(ps, e))
        BY <2>6, <3>1, <3>2 DEF Lone
      <3>4. Old(Append(ps, e), made + 1)
        BY <1>1, <2>6, <3>1 DEF Old
      <3>5. QED  BY <3>3, <3>4
    <2>9. ASSUME NEW s, Strange(s, ps), Old(s, made)  PROVE Strange(s, Append(ps, e))
      <3>1. \A i \in DOMAIN s : s[i].n # made + 1
        BY <1>1, <2>9, Newer
      <3>2. QED  BY <2>6, <2>9, <3>1 DEF Strange
    <2>10. Alone(Way, queue, Append(ps, e), made + 1)
      <3>1. Alone(Way, queue, ps, made + 1)
        BY <1>1, <2>7, LaterAlone
      <3>2. Strange(Way, Append(ps, e))
        BY <2>7, <2>9 DEF Alone
      <3>3. \A p \in Prios : \A i \in DOMAIN queue[p] : Strange(queue[p][i], Append(ps, e))
        BY <2>7, <2>9 DEF Alone
      <3>4. QED  BY <2>8, <3>1, <3>2, <3>3 DEF Alone
    <2>11. QED  BY <2>1, <2>4, <2>10, SameWay DEF AInv
  <1>3. ASSUME NEW pri \in Prios, RefusePacket(pri)  PROVE AInv'
    <2>1. /\ pending # <<>> /\ pending' = <<[pending[1] EXCEPT !.tried = TRUE]>>
          /\ UNCHANGED <<made, queue, wire, asyncQueue, hand, current>>
      BY <1>3 DEF RefusePacket, outVars
    <2>2. pending'[1].packets = pending[1].packets /\ pending' # <<>>
      BY <2>1, OpenedType DEF Transactions
    <2>3. Opened' = Opened
      BY <2>1, <2>2 DEF Opened
    <2>4. QED  BY <2>1, <2>3, SameWay DEF AInv
  <1>4. ASSUME NEW pri \in Prios, QueuePacket(pri)  PROVE AInv'
    <2> DEFINE q == QueueFor(pri)
               e == [Made(pri) EXCEPT !.pri = q]
    <2>1. /\ made < MaxPackets /\ Commit(<<e>>, q) /\ made' = made + 1
          /\ UNCHANGED <<pending, wire, asyncQueue, hand, current>>
      BY <1>4 DEF QueuePacket, outVars
    <2>2. q \in Prios
      BY QueueForType
    <2>3. e \in Packets /\ e.n = made + 1
      BY <2>1, <2>2, MadeType DEF Packets, Made
    <2> HIDE DEF q, e
    <2>4. <<e>> \in Seq(Packets) /\ DOMAIN <<e>> = {1} /\ <<e>>[1] = e
      BY <2>3
    <2> DEFINE k == <<e>>
    <2>5. k \in Seq(Packets) /\ \A i \in DOMAIN k : i = 1 /\ k[i].n = made + 1
      BY <2>3, <2>4
    <2>6. Commit(k, q)
      BY <2>1
    <2> HIDE DEF k
    <2>7. Lone(k) /\ Old(k, made + 1)
      BY <1>1, <2>5 DEF Lone, Old
    <2>8. ASSUME NEW s, Old(s, made)  PROVE Strange(k, s)
      <3>1. \A i \in DOMAIN s : s[i].n # made + 1
        BY <1>1, <2>8, Newer
      <3>2. QED  BY <2>5, <3>1 DEF Strange
    <2>9. /\ Strange(k, Way) /\ Strange(k, Opened)
          /\ \A p \in Prios : \A i \in DOMAIN queue[p] : Strange(k, queue[p][i])
      BY <2>8 DEF AInv, Alone
    <2>10. Alone(Way, queue, Opened, made + 1)
      BY <1>1, LaterAlone DEF AInv
    <2>11. Alone(Way, queue', Opened, made + 1)
      BY <2>2, <2>5, <2>6, <2>7, <2>9, <2>10, CommitA
    <2>12. QED  BY <2>1, <2>11, SameWay DEF AInv, Opened
  <1>5. ASSUME NEW pri \in Prios, BeginTransaction(pri) \/ EndTransaction  PROVE AInv'
    <2>1. /\ EndPending /\ UNCHANGED <<made, wire, asyncQueue, hand, current>>
          /\ \/ pending' = <<[pri |-> pri, packets |-> <<>>, tried |-> FALSE]>>
             \/ pending' = <<>>
      BY <1>5 DEF BeginTransaction, EndTransaction, outVars
    <2>2. Opened' = <<>>
      BY <2>1 DEF Opened
    <2>3. QED  BY <2>1, <2>2, EndPendingA, SameWay DEF AInv
  <1>6. CASE MarkReadClosed \/ DetectAsync
    <2>1. UNCHANGED <<pending, made, queue, wire, asyncQueue, hand, current>>
      BY <1>6 DEF MarkReadClosed, DetectAsync, mainVars, outVars
    <2>2. QED  BY <2>1, SameWay DEF AInv, Opened
  <1>7. Top \in Prios
    BY Numbers
  <1>8. QED  BY <1>2, <1>3, <1>4, <1>5, <1>6, <1>7 DEF Game

LEMMA AInvNext == TInv /\ TInv' /\ DInv /\ AInv /\ [Next]_vars /\ ~clashed' => AInv'
  <1> SUFFICES ASSUME TInv, TInv', DInv, AInv, [Next]_vars, ~clashed'  PROVE AInv'
    OBVIOUS
  <1>1. queue \in [Prios -> Seq(Seq(Packets))]
    BY Raw
  <1>2. CASE WayShrinks
    <2>1. Alone(Way', queue, Opened, made)
      BY <1>2, WayTypes, SubAlone DEF WayShrinks, AInv
    <2>2. Alone(Way', queue', Opened, made)
      <3>1. CASE queue' = NoQueues
        <4>1. \A p \in Prios : DOMAIN queue'[p] = {}
          BY <3>1 DEF NoQueues
        <4>2. QED  BY <2>1, <4>1 DEF Alone
      <3>2. QED  BY <1>2, <2>1, <3>1 DEF WayShrinks
    <2>3. QED  BY <1>2, <2>2 DEF WayShrinks, AInv, Opened
  <1>3. CASE WayGrows
    <2>1. PICK h \in Prios : /\ queue[h] # <<>> /\ queue' = [queue EXCEPT ![h] = Tail(@)]
                             /\ Way \o Head(queue[h]) \in Seq(Packets)
                             /\ Sub(Way', Way \o Head(queue[h]))
      BY <1>3 DEF WayGrows
    <2>2. Alone(Way \o Head(queue[h]), queue', Opened, made)
      BY <1>1, <2>1, WayTypes, JoinAlone DEF AInv
    <2>3. Alone(Way', queue', Opened, made)
      BY <2>1, <2>2, WayTypes, SubAlone
    <2>4. QED  BY <1>3, <2>3 DEF WayGrows, AInv, Opened
  <1>4. QED  BY <1>2, <1>3, Ways, GameA

LEMMA AInvInit == Init => AInv
  <1> SUFFICES ASSUME Init  PROVE AInv
    OBVIOUS
  <1>1. Way = <<>>
    BY InitWay
  <1>2. Opened = <<>> /\ \A p \in Prios : DOMAIN queue[p] = {}
    BY DEF Init, Opened, NoQueues
  <1>3. DOMAIN <<>> = {}
    OBVIOUS
  <1>4. QED  BY <1>1, <1>2, <1>3 DEF AInv, Alone, Lone, Strange, Old

\* Whatever the limits, a packet is in one place: in the open transaction, in one
\* transaction of one queue, or once on its way.  The transaction under way that
\* outlasts a pass, a queue that is taken from and cleared, and a packet that is
\* refused leave no second one behind.  With network threads, until both threads
\* meet in one queue: what clean() then undoes may be sent twice.
THEOREM PacketsAreSentOnce == Spec => []OnlyOnce
  <1> DEFINE EInv == ~clashed => AInv
  <1>1. EInv => OnlyOnce
    BY DEF AInv, Alone, OnlyOnce
  <1>2. TInv /\ DInv /\ EInv /\ TInv' /\ [Next]_vars => EInv'
    BY AInvNext, ClashStays
  <1>3. Init => EInv
    BY AInvInit
  <1> HIDE DEF EInv
  <1>4. QED  BY <1>1, <1>2, <1>3, AllAlways, PTL DEF Spec
=============================================================================
