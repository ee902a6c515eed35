---------------------------- MODULE PacketQueue -----------------------------
(***************************************************************************)
(* What is sent to one client: the main thread queues packets and packet   *)
(* transactions by priority (PacketSend, PacketTransaction, CNetworkOutput *)
(* ::QueuePacket), the output pass of the connection's thread sends them   *)
(* (CNetworkOutput), until the connection is closed (CNetworkManager::     *)
(* tick).  The connection is past its handshake.                           *)
(*                                                                         *)
(* A packet is its number and its priority.  A pointer that may be nullptr *)
(* is a sequence of at most one element.                                   *)
(***************************************************************************)
EXTENDS Naturals, Sequences, Functions

CONSTANTS
    Top,            \* PRI_HIGHEST, which is NETWORK_DISCONNECTPRI; PRI_IDLE is 0
    MaxQueue,       \* NETWORK_MAXQUEUESIZE, 0 for no limit
    MaxPerTick,     \* NETWORK_MAXPACKETS
    UseAsync,       \* g_Cfg.m_fUseAsyncNetwork; 2: when the client's version allows it
    Threads,        \* whether the connection may be served by a thread of its own
    MaxPackets,     \* bound on the packets ever queued
    MaxEmpty        \* bound on the transactions committed without a packet

ASSUME ConstantsAssumption ==
    /\ Top \in Nat /\ MaxQueue \in Nat /\ MaxPerTick \in Nat \ {0}
    /\ MaxPackets \in Nat /\ MaxEmpty \in Nat /\ UseAsync \in 0..2 /\ Threads \subseteq BOOLEAN

Prios == 0..Top

\* n: its place among the packets; by: the transaction it is part of (ghost);
\* from: the queue that transaction was put into (ghost)
Packets == [n : 1..MaxPackets, pri : Prios, by : Nat, from : Prios]

VARIABLES
    threaded,               \* CNetworkThread::isActive(): it has a thread of its own
    queue,                  \* m_outgoing.queue: transactions by priority
    pending,                \* m_outgoing.pendingTransaction
    current,                \* m_outgoing.currentTransaction
    asyncQueue,             \* m_outgoing.asyncQueue
    wire, unsent,           \* all that entered the byte queue, and how many
                            \* packets at its end the socket has not taken
    async, sending,         \* m_useAsync, m_isSendingAsync
    inUse, readClosed, writeClosed, needsFlush,
    pc, job,                \* the output routine: next step, what it was called for
    todo, count,            \* priorities still to process, packets sent of this one
    hand,                   \* the packet being sent
    up,                     \* the process runs
    made, commits, empties, \* packets queued, transactions committed (ghosts)
    owed, broken, clashed   \* disconnect packets that wait when reading is closed (not
                            \* kept with network threads); sending failed; both
                            \* threads met in one queue (ghosts)

mainVars   == <<pending, made, commits, empties>>
outVars    == <<pc, job, todo, count, hand>>
slotVars   == <<async, sending, inUse, readClosed, writeClosed, needsFlush>>
ghosts     == <<owed, broken, clashed>>
vars == <<threaded, queue, mainVars, current, asyncQueue, wire, unsent, slotVars,
          outVars, up, ghosts>>

-----------------------------------------------------------------------------
(* CNetState *)

Closing == readClosed \/ writeClosed
NoQueues == [p \in Prios |-> <<>>]

\* canReceive()
CanReceive(pri) == inUse /\ (Closing => pri >= Top)

\* Mutant of HasPendingData: the transaction under way is not counted
HasPendingButCurrent ==
    /\ inUse /\ ~writeClosed
    /\ \/ \E p \in (IF Closing THEN {Top} ELSE Prios) : queue[p] # <<>>
       \/ async /\ asyncQueue # <<>>
       \/ unsent > 0

\* hasPendingData()
HasPendingData ==
    /\ inUse /\ ~writeClosed
    /\ \/ \E p \in (IF Closing THEN {Top} ELSE Prios) : queue[p] # <<>>
       \/ async /\ asyncQueue # <<>>
       \/ unsent > 0
       \/ current # <<>>

-----------------------------------------------------------------------------
Init ==
    /\ threaded \in Threads
    /\ queue = NoQueues /\ pending = <<>> /\ current = <<>>
    /\ asyncQueue = <<>> /\ wire = <<>> /\ unsent = 0
    /\ async = (UseAsync = 1) /\ sending = (UseAsync # 0)
    /\ inUse = TRUE /\ readClosed = FALSE /\ writeClosed = FALSE /\ needsFlush = FALSE
    /\ pc = "idle" /\ job = "output" /\ todo = {} /\ count = 0 /\ hand = <<>>
    /\ up = TRUE
    /\ made = 0 /\ commits = 0 /\ empties = 0
    /\ owed = {} /\ broken = FALSE /\ clashed = FALSE

-----------------------------------------------------------------------------
(* Main thread: game code. *)

\* An output routine the main loop called has to return first.
MainRuns == up /\ inUse /\ (threaded \/ pc = "idle")

\* QueuePacketTransaction(): the queue a transaction of priority pri goes
\* into (a full queue makes it take a lower one, down to PRI_IDLE) ...
QueueFor(pri) ==
    LET room == {p \in 0..pri : p = 0 \/ MaxQueue = 0 \/ Len(queue[p]) < MaxQueue}
    IN  CHOOSE p \in room : \A q \in room : q <= p

\* ... and its packets are known by the transaction from then on
Commit(packets, q) ==
    /\ queue' = [queue EXCEPT ![q] =
                   Append(@, [i \in 1..Len(packets) |->
                                [packets[i] EXCEPT !.by = commits + 1, !.from = q]])]
    /\ commits' = commits + 1
    /\ empties' = IF packets = <<>> THEN empties + 1 ELSE empties

Made(pri) == [n |-> made + 1, pri |-> pri, by |-> 0, from |-> 0]

\* QueuePacket(): a packet that becomes part of the open transaction, whatever
\* its own priority is
AppendPacket(pri) ==
    /\ MainRuns /\ made < MaxPackets
    /\ pending # <<>> /\ CanReceive(pri)
    /\ made' = made + 1
    /\ pending' = <<[pending[1] EXCEPT !.packets = Append(@, Made(pri)), !.tried = TRUE]>>
    /\ UNCHANGED <<threaded, queue, commits, empties, current, asyncQueue, wire, unsent,
                   slotVars, outVars, up, ghosts>>

\* QueuePacket(): the packet is deleted, it may not be received
RefusePacket(pri) ==
    /\ MainRuns
    /\ pending # <<>> /\ ~CanReceive(pri)
    /\ pending' = <<[pending[1] EXCEPT !.tried = TRUE]>>
    /\ UNCHANGED <<threaded, queue, made, commits, empties, current, asyncQueue, wire, unsent,
                   slotVars, outVars, up, ghosts>>

\* QueuePacket(): a packet of its own, with no transaction open or past it; a
\* transaction of one packet hands its lower priority on to the packet
QueuePacket(pri) ==
    /\ MainRuns /\ made < MaxPackets
    /\ CanReceive(pri) /\ ~writeClosed
    /\ made' = made + 1
    /\ LET q == QueueFor(pri)
       IN  Commit(<<[Made(pri) EXCEPT !.pri = q]>>, q)
    /\ UNCHANGED <<threaded, pending, current, asyncQueue, wire, unsent, slotVars, outVars,
                   up, ghosts>>

\* endTransaction(): committed, or deleted when the connection writes no more
EndPending ==
    IF pending = <<>> \/ writeClosed
      THEN UNCHANGED <<queue, commits, empties>>
      ELSE Commit(pending[1].packets, QueueFor(pending[1].pri))

\* OpenPacketTransaction: beginTransaction() ends the one that is open
BeginTransaction(pri) ==
    /\ MainRuns
    /\ EndPending /\ empties' < MaxEmpty
    /\ pending' = <<[pri |-> pri, packets |-> <<>>, tried |-> FALSE]>>
    /\ UNCHANGED <<threaded, made, current, asyncQueue, wire, unsent, slotVars, outVars,
                   up, ghosts>>

\* its destructor; whoever opens a transaction has packets for it
EndTransaction ==
    /\ MainRuns /\ pending # <<>> /\ pending[1].tried
    /\ EndPending
    /\ pending' = <<>>
    /\ UNCHANGED <<threaded, made, current, asyncQueue, wire, unsent, slotVars, outVars,
                   up, ghosts>>

\* what is left of the transaction under way
Under == IF current = <<>> THEN <<>> ELSE current[1]

Queued(transactions) == UNION {Range(transactions[i]) : i \in DOMAIN transactions}

\* the packets of the disconnect priority that wait: queued as such, or under way
Held == Queued(queue[Top]) \cup Range(asyncQueue) \cup Range(hand) \cup Range(Under)
Waiting == {p \in Held : p.pri = Top}

\* addKick(), addLoginErr() and others, after they queued their packets
MarkReadClosed ==
    /\ MainRuns /\ ~readClosed
    /\ readClosed' = TRUE
    /\ owed' = IF threaded THEN {} ELSE {p.n : p \in Waiting}
    /\ UNCHANGED <<threaded, queue, mainVars, current, asyncQueue, wire, unsent, async,
                   sending, inUse, writeClosed, needsFlush, outVars, up, broken, clashed>>

\* detectAsyncMode(): a packet from the client told its version
DetectAsync ==
    /\ MainRuns /\ UseAsync = 2 /\ ~async /\ ~readClosed
    /\ async' = TRUE
    /\ UNCHANGED <<threaded, queue, mainVars, current, asyncQueue, wire, unsent,
                   sending, inUse, readClosed, writeClosed, needsFlush, outVars, up, ghosts>>

-----------------------------------------------------------------------------
(* Main thread: CNetworkManager::tick(). *)

TickRuns == MainRuns /\ pending = <<>>

Begins(what, step, prios) ==
    /\ pc' = step /\ job' = what /\ todo' = prios /\ count' = 0
    /\ UNCHANGED hand

\* closing with data that wait: flush(), by the thread when it has one.  The
\* clean() before it, in every tick, changes nothing that is not consumed,
\* unless the thread uses the same queue meanwhile (Clash).
TickFlush ==
    /\ TickRuns /\ Closing /\ HasPendingData /\ ~needsFlush
    /\ IF threaded
         THEN needsFlush' = TRUE /\ UNCHANGED outVars
         ELSE UNCHANGED needsFlush /\ Begins("tick", "queues", Prios)
    /\ UNCHANGED <<threaded, queue, mainVars, current, asyncQueue, wire, unsent, async,
                   sending, inUse, readClosed, writeClosed, up, ghosts>>

\* closing and nothing waits: closed for reading; cleared when it is closed
TickClose ==
    /\ TickRuns /\ Closing
    /\ (readClosed /\ writeClosed) \/ ~HasPendingData
    /\ readClosed' = TRUE
    /\ IF writeClosed /\ ~sending
         THEN /\ inUse' = FALSE /\ queue' = NoQueues /\ asyncQueue' = <<>> /\ current' = <<>>
              /\ wire' = SubSeq(wire, 1, Len(wire) - unsent) /\ unsent' = 0
              /\ needsFlush' = FALSE
         ELSE UNCHANGED <<inUse, queue, asyncQueue, current, wire, unsent, needsFlush>>
    /\ UNCHANGED <<threaded, mainVars, async, sending, writeClosed, outVars, up, ghosts>>

-----------------------------------------------------------------------------
(* With network threads: the main thread calls clean() on every queue, in    *)
(* each tick and in each push, while the output thread uses them.            *)

\* clean() reads m_head, erases what is before it and writes it back: a pop()
\* in between is undone, a second erase meets the first (SafeQueue).  The bound
\* of one clash keeps the runs finite; nothing is claimed after it.
Clash    == threaded /\ ~clashed /\ clashed' = TRUE
MayClash == Clash \/ UNCHANGED clashed

-----------------------------------------------------------------------------
(* CNetworkOutput: one pass over this connection. *)

Runs(step) == up /\ inUse /\ pc = step

Goto(step) == pc' = step /\ UNCHANGED <<job, todo, count, hand>>

\* Mutant of ClearQueues: the byte queue still counts what it lost
ClearQueuesButBytes ==
    /\ queue' = NoQueues /\ asyncQueue' = <<>>
    /\ wire' = SubSeq(wire, 1, Len(wire) - unsent) /\ UNCHANGED unsent /\ MayClash

\* clearQueues(): all but the transaction under way
ClearQueues ==
    /\ queue' = NoQueues /\ asyncQueue' = <<>>
    /\ wire' = SubSeq(wire, 1, Len(wire) - unsent) /\ unsent' = 0 /\ MayClash

\* flush() returns to checkFlushRequests(), or to CNetworkManager::tick()
AfterDrain == IF job = "flush" THEN "check" ELSE "idle"

\* processOutput(), checkFlushRequests(): a requested flush() first
PassFlushes ==
    /\ Runs("idle") /\ (threaded \/ pending = <<>>)
    /\ ~writeClosed /\ needsFlush
    /\ Begins("flush", "queues", Prios)
    /\ UNCHANGED <<threaded, queue, mainVars, current, asyncQueue, wire, unsent, slotVars,
                   up, ghosts>>

\* closing, and nothing waits?  If not, processOutput() takes the queues that
\* this tick's number allows, PRI_HIGHEST always ...
PassBegins(prios) ==
    /\ \/ Runs("idle") /\ (threaded \/ pending = <<>>) /\ ~needsFlush
       \/ Runs("check")
    /\ ~writeClosed /\ Top \in prios
    /\ IF Closing /\ ~HasPendingData THEN Begins("output", "markWrite", {})
                                     ELSE Begins("output", "queues", prios)
    /\ UNCHANGED <<threaded, queue, mainVars, current, asyncQueue, wire, unsent, slotVars,
                   up, ghosts>>

\* ... and so it is closed for writing, like one that could not be sent to
MarkWriteClosed ==
    /\ Runs("markWrite")
    /\ writeClosed' = TRUE
    /\ needsFlush' = (needsFlush /\ job # "flush")
    /\ Begins("output", "idle", {})
    /\ UNCHANGED <<threaded, queue, mainVars, current, asyncQueue, wire, unsent, async,
                   sending, inUse, readClosed, up, ghosts>>

\* The queue being processed is the highest of todo that has something to
\* send; an empty one is served all the same while a transaction is under way.
Served == {p \in todo : queue[p] # <<>> \/ current # <<>>}
Highest == CHOOSE p \in Served : \A q \in Served : q <= p

\* packets sent from it: the count starts again with each queue
Counted == IF \E p \in todo : p > Highest THEN 0 ELSE count

QueuesDone ==
    /\ Runs("queues") /\ Served = {}
    /\ pc' = "async" /\ todo' = {} /\ count' = 0 /\ UNCHANGED <<job, hand>>
    /\ UNCHANGED <<threaded, queue, mainVars, current, asyncQueue, wire, unsent, slotVars,
                   up, ghosts>>

\* as many packets as one call sends
QueueLimit ==
    /\ Runs("queues") /\ Served # {} /\ Counted >= MaxPerTick
    /\ todo' = {q \in todo : q < Highest} /\ count' = 0 /\ UNCHANGED <<pc, job, hand>>
    /\ UNCHANGED <<threaded, queue, mainVars, current, asyncQueue, wire, unsent, slotVars,
                   up, ghosts>>

\* the transaction under way, or else the next one of the queue
Transaction == IF current # <<>> THEN current[1] ELSE Head(queue[Highest])

\* some packets have an onSend() that may say no, none of the disconnect priority
MayRefuse(p) == p.pri < Top

\* a packet is dropped when the connection may not receive it any more, or it
\* refuses; it is sent otherwise
Consider(p) ==
    /\ todo' = {q \in todo : q <= Highest}
    /\ \/ (~CanReceive(p.pri) \/ MayRefuse(p)) /\ count' = Counted /\ UNCHANGED <<hand, pc>>
       \/ CanReceive(p.pri) /\ count' = Counted + 1 /\ hand' = <<p>> /\ pc' = "send"
    /\ UNCHANGED job

CanTake == Runs("queues") /\ Served # {} /\ Counted < MaxPerTick

\* Mutants of TakePacket: each priority has a transaction of its own; a
\* transaction is not taken out of the queue
TakeFromQueue ==
    /\ CanTake
    /\ LET t == Head(queue[Highest])
       IN  /\ queue' = [queue EXCEPT ![Highest] =
                          IF Len(t) <= 1 THEN Tail(@) ELSE <<Tail(t)>> \o Tail(@)]
           /\ IF t = <<>> THEN UNCHANGED outVars ELSE Consider(Head(t))
    /\ UNCHANGED <<threaded, mainVars, current, asyncQueue, wire, unsent, slotVars, up, ghosts>>

TakeKeepsQueue ==
    /\ CanTake
    /\ IF Transaction = <<>>
         THEN current' = <<>> /\ up' \in BOOLEAN /\ UNCHANGED outVars
         ELSE /\ current' = IF Len(Transaction) = 1 THEN <<>> ELSE <<Tail(Transaction)>>
              /\ Consider(Head(Transaction)) /\ UNCHANGED up
    /\ UNCHANGED <<threaded, queue, mainVars, asyncQueue, wire, unsent, slotVars, ghosts>>

\* the next transaction leaves its queue, or its pop() is undone
Popped ==
    \/ queue' = [queue EXCEPT ![Highest] = Tail(@)] /\ UNCHANGED clashed
    \/ Clash /\ UNCHANGED queue

\* processPacketQueue(): its first packet.  front() and pop_front() of an empty
\* transaction are undefined, and so are those of one that is given out again
\* after it was deleted: the allocator stops the process, or what is found there
\* (of an empty one nullptr, dropped like a packet that is not allowed) is taken.
TakePacket ==
    /\ CanTake
    /\ IF current = <<>> THEN Popped ELSE UNCHANGED <<queue, clashed>>
    /\ IF Transaction = <<>>
         THEN current' = <<>> /\ up' \in BOOLEAN /\ UNCHANGED outVars
         ELSE /\ current' = IF Len(Transaction) = 1 THEN <<>> ELSE <<Tail(Transaction)>>
              /\ Consider(Head(Transaction)) /\ up' \in (IF clashed THEN BOOLEAN ELSE {up})
    /\ UNCHANGED <<threaded, mainVars, asyncQueue, wire, unsent, slotVars, owed, broken>>

\* sendPacketData(): into the byte queue, or refused by onSend() or by a script
\* that filters packets of its kind
SendData(p) ==
    \/ wire' = Append(wire, p) /\ unsent' = unsent + 1 /\ UNCHANGED owed
    \/ owed' = owed \ {p.n} /\ UNCHANGED <<wire, unsent>>

\* it is too long to be compressed; the caller gives the connection up
SendDataFails ==
    ClearQueues /\ broken' = TRUE /\ pc' = "markWrite" /\ hand' = <<>> /\ UNCHANGED owed

\* Mutant of SendPacket: the packet overtakes those in the async queue
SendPacketPastAsync ==
    /\ Runs("send")
    /\ \/ /\ ~CanReceive(hand[1].pri)
          /\ ClearQueues /\ pc' = "markWrite" /\ hand' = <<>>
          /\ UNCHANGED <<owed, broken>>
       \/ /\ CanReceive(hand[1].pri) /\ async /\ sending
          /\ asyncQueue' = Append(asyncQueue, hand[1]) /\ pc' = "queues" /\ hand' = <<>>
          /\ MayClash /\ UNCHANGED <<queue, wire, unsent, owed, broken>>
       \/ /\ CanReceive(hand[1].pri) /\ (~async \/ ~sending)
          /\ SendData(hand[1]) /\ pc' = "queues" /\ hand' = <<>>
          /\ UNCHANGED <<queue, asyncQueue, broken, clashed>>
    /\ UNCHANGED <<threaded, mainVars, current, slotVars, job, todo, count, up>>

\* sendPacket(): the same question again, but now a no ends the connection
SendPacket ==
    /\ Runs("send")
    /\ \/ /\ ~CanReceive(hand[1].pri)
          /\ ClearQueues /\ pc' = "markWrite" /\ hand' = <<>>
          /\ UNCHANGED <<owed, broken>>
       \/ /\ CanReceive(hand[1].pri) /\ async
          /\ asyncQueue' = Append(asyncQueue, hand[1]) /\ pc' = "queues" /\ hand' = <<>>
          /\ MayClash /\ UNCHANGED <<queue, wire, unsent, owed, broken>>
       \/ /\ CanReceive(hand[1].pri) /\ ~async
          /\ SendData(hand[1]) /\ pc' = "queues" /\ hand' = <<>>
          /\ UNCHANGED <<queue, asyncQueue, broken, clashed>>
       \/ /\ CanReceive(hand[1].pri) /\ ~async
          /\ SendDataFails
    /\ UNCHANGED <<threaded, mainVars, current, slotVars, job, todo, count, up>>

\* pop(), or one that is undone
AsyncPopped ==
    \/ asyncQueue' = Tail(asyncQueue) /\ UNCHANGED clashed
    \/ Clash /\ UNCHANGED asyncQueue

\* processAsyncQueue(): one packet, the first that may still be received
ProcessAsyncQueue ==
    /\ Runs("async")
    /\ IF ~async \/ asyncQueue = <<>> \/ sending
         THEN Goto("bytes") /\ UNCHANGED <<queue, asyncQueue, wire, unsent, ghosts>>
         ELSE \/ /\ CanReceive(Head(asyncQueue).pri)
                 /\ SendData(Head(asyncQueue)) /\ AsyncPopped
                 /\ Goto("bytes") /\ UNCHANGED <<queue, broken>>
              \/ /\ CanReceive(Head(asyncQueue).pri)
                 /\ SendDataFails /\ UNCHANGED <<job, todo, count>>
              \/ /\ ~CanReceive(Head(asyncQueue).pri) \/ MayRefuse(Head(asyncQueue))
                 /\ AsyncPopped
                 /\ Goto("async") /\ UNCHANGED <<queue, wire, unsent, owed, broken>>
    /\ UNCHANGED <<threaded, mainVars, current, slotVars, up>>

\* processByteQueue(): the socket takes some of the data, or fails
ProcessByteQueue ==
    /\ Runs("bytes")
    /\ \/ /\ unsent' \in 0..unsent
          /\ pc' = AfterDrain /\ needsFlush' = (needsFlush /\ job # "flush")
          /\ job' = "output"
          /\ UNCHANGED <<queue, asyncQueue, wire, broken, clashed>>
       \/ /\ unsent > 0
          /\ ClearQueues /\ broken' = TRUE /\ pc' = "markWrite"
          /\ UNCHANGED <<job, needsFlush>>
    /\ UNCHANGED <<threaded, mainVars, current, async, sending, inUse, readClosed, writeClosed,
                   todo, count, hand, up, owed>>

Output ==
    \/ PassFlushes
    \/ \E prios \in SUBSET Prios : PassBegins(prios)
    \/ MarkWriteClosed \/ QueuesDone \/ QueueLimit \/ TakePacket
    \/ SendPacket \/ ProcessAsyncQueue \/ ProcessByteQueue

\* onAsyncSendComplete(), called by libev's thread: the socket is writable
AsyncReady ==
    /\ up /\ inUse /\ sending
    /\ sending' = FALSE
    /\ UNCHANGED <<threaded, queue, mainVars, current, asyncQueue, wire, unsent, async,
                   inUse, readClosed, writeClosed, needsFlush, outVars, up, ghosts>>

Game ==
    \/ \E pri \in Prios : AppendPacket(pri) \/ RefusePacket(pri) \/ QueuePacket(pri)
                            \/ BeginTransaction(pri)
    \/ EndTransaction \/ MarkReadClosed \/ DetectAsync

Next == Game \/ TickFlush \/ TickClose \/ Output \/ AsyncReady

Spec == Init /\ [][Next]_vars

-----------------------------------------------------------------------------
\* Types.
TypeOK ==
    /\ threaded \in BOOLEAN /\ clashed \in BOOLEAN
    /\ queue \in [Prios -> Seq(Seq(Packets))]
    /\ pending \in Seq([pri : Prios, packets : Seq(Packets), tried : BOOLEAN])
    /\ current \in Seq(Seq(Packets)) /\ Len(current) <= 1
    /\ asyncQueue \in Seq(Packets)
    /\ wire \in Seq(Packets) /\ unsent \in 0..Len(wire)
    /\ async \in BOOLEAN /\ sending \in BOOLEAN
    /\ {inUse, readClosed, writeClosed, needsFlush, up, broken} \subseteq BOOLEAN
    /\ pc \in {"idle", "check", "markWrite", "queues", "send", "async", "bytes"}
    /\ job \in {"output", "flush", "tick"} /\ todo \subseteq Prios /\ count \in 0..MaxPerTick
    /\ hand \in Seq(Packets) /\ Len(hand) <= 1
    /\ made \in 0..MaxPackets /\ commits \in Nat /\ empties \in 0..MaxEmpty

\* The packets of a transaction reach the client together: no packet of
\* another one gets in between, whatever its priority.  Like the next two, with
\* network threads this holds until both threads meet in one queue.
Together ==
    ~clashed => \A i, j, k \in DOMAIN wire :
        i < j /\ j < k /\ wire[i].by = wire[k].by => wire[j].by = wire[i].by

\* What was put into one queue is sent in that order, through the transaction
\* under way, the async queue and the byte queue.
InOrder ==
    ~clashed => \A i, j \in DOMAIN wire :
        i < j /\ wire[i].from = wire[j].from =>
            \/ wire[i].by < wire[j].by
            \/ wire[i].by = wire[j].by /\ wire[i].n < wire[j].n

\* the packets that left the queues, the first to arrive first
Way == wire \o asyncQueue \o hand \o Under

Opened == IF pending = <<>> THEN <<>> ELSE pending[1].packets

\* no packet is twice in s; s and t have none in common
Lone(s)       == \A i, j \in DOMAIN s : s[i].n = s[j].n => i = j
Strange(s, t) == \A i \in DOMAIN s, j \in DOMAIN t : s[i].n # t[j].n

\* A packet is in one place only, on its way, in the open transaction or in one
\* that is queued, so it is sent and deleted once.
OnlyOnce == ~clashed =>
    /\ Lone(Way) /\ Lone(Opened) /\ Strange(Way, Opened)
    /\ \A p \in Prios : \A i \in DOMAIN queue[p] :
          /\ Lone(queue[p][i]) /\ Strange(queue[p][i], Way) /\ Strange(queue[p][i], Opened)
          /\ \A q \in Prios : \A j \in DOMAIN queue[q] :
                <<p, i>> # <<q, j>> => Strange(queue[p][i], queue[q][j])

\* Without network threads: what waits with the disconnect priority when a
\* connection is closed for reading (a kick, a login error) has been sent when
\* it is closed for writing, unless the socket failed or the packet was refused.
DisconnectSent ==
    ~threaded /\ writeClosed /\ ~broken =>
        owed \subseteq {wire[i].n : i \in 1..(Len(wire) - unsent)}

\* A transaction in a queue has a packet: processPacketQueue() "acquires the
\* next packet from the transaction" without asking.
NoneEmpty == \A p \in Prios : \A i \in DOMAIN queue[p] : queue[p][i] # <<>>
=============================================================================
