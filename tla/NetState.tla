------------------------------ MODULE NetState ------------------------------
(***************************************************************************)
(* The life of a connection slot (CNetState): the main thread accepts,     *)
(* initialises, closes and clears slots (CNetworkManager), a network       *)
(* thread adopts them, reads from and writes to them and gives them up     *)
(* again (CNetworkThread, CNetworkInput, CNetworkOutput).                  *)
(*                                                                         *)
(* Threaded = FALSE is NetworkThreads=0 (the default): one thread object   *)
(* whose routines the main loop calls.  Threaded = TRUE gives every        *)
(* network thread a control flow of its own.  A step ends where another    *)
(* thread's step changes what the next line does: between what a routine   *)
(* tests or takes and what it does with it (change), and inside clear()    *)
(* and init().  What is queued for a client is abstracted to the kinds of  *)
(* data that are waiting.                                                  *)
(***************************************************************************)
EXTENDS Naturals, Sequences, FiniteSets, SequencesExt

CONSTANTS
    NSlots,         \* g_Cfg.m_iClientsMax
    NThreads,       \* network thread objects
    Threaded,       \* m_isThreaded
    UseAsync,       \* g_Cfg.m_fUseAsyncNetwork = 1
    MaxConn         \* bound on the connections ever accepted

ASSUME ConstantsAssumption ==
    /\ NSlots \in Nat \ {0}
    /\ NThreads \in Nat \ {0}
    /\ MaxConn \in Nat
    /\ Threaded \in BOOLEAN
    /\ UseAsync \in BOOLEAN
    /\ ~Threaded => NThreads = 1

Slots   == 1..NSlots
Threads == 1..NThreads

\* A CClient is named by the number of the connection it was made for; 0 is nullptr.
Clients == 0..MaxConn
NoClient == 0
NoThread == 0

\* "hi": queue[PRI_HIGHEST]; "lo": the other priorities; "async": asyncQueue;
\* "bytes": the byte queue and the transaction under way
Kinds == {"hi", "lo", "async", "bytes"}

SlotState ==
    [inUse : BOOLEAN, readClosed : BOOLEAN, writeClosed : BOOLEAN,
     needsFlush : BOOLEAN, sending : BOOLEAN,
     unknown : BOOLEAN,                 \* GetConnectType() is CONNECT_UNK
     client : Clients, parent : Threads \cup {NoThread},
     out : SUBSET Kinds]

\* What a thread is about to do to a slot: queue data, clear the queues, close a
\* side, answer the flush request
Changes ==
    [slot : Slots, add : SUBSET Kinds, wipe : BOOLEAN,
     read : BOOLEAN, write : BOOLEAN, flush : BOOLEAN]

VARIABLES
    net,            \* m_states
    nconn,          \* connections accepted so far
    doomed,         \* m_ObjSpecialDelete: clients waiting to be deleted
    lastGiven,      \* m_lastGivenSlot (0: none)
    list, assigned, \* per thread: m_states and m_assignQueue
    mpc, mslot,     \* main thread: next step, the slot it works on
    tpc, tpos,      \* per thread: next step, position in its list
    tjob,           \* per thread: the routine that was called
    held,           \* per thread: the CClient* read before the current step
    change          \* per thread: what it has decided to do to a slot

mainVars   == <<mpc, mslot>>
threadVars == <<list, assigned, tpc, tpos, tjob, held, change>>
heapVars   == <<nconn, doomed>>
vars == <<net, heapVars, lastGiven, mainVars, threadVars>>

-----------------------------------------------------------------------------
(* CNetState *)

Closing(s) == net[s].readClosed \/ net[s].writeClosed
Closed(s)  == net[s].readClosed /\ net[s].writeClosed

\* Mutant of Pending(): the async queue is not counted
PendingNoAsync(s) ==
    /\ net[s].inUse
    /\ ~net[s].writeClosed
    /\ net[s].out \cap (IF Closing(s) THEN {"hi", "bytes"} ELSE Kinds) # {}

\* hasPendingData(): a closing state only counts the disconnect priority
Pending(s) ==
    /\ net[s].inUse
    /\ ~net[s].writeClosed
    /\ net[s].out \cap (IF Closing(s) THEN {"hi", "async", "bytes"} ELSE Kinds) # {}

\* canReceive() and QueuePacketTransaction()'s own test
CanQueue(s, k) ==
    /\ net[s].inUse /\ net[s].client # NoClient
    /\ ~net[s].writeClosed
    /\ Closing(s) => k = "hi"

\* Packets of the queues in ks that the client may still receive
Sendable(s, ks) ==
    net[s].out \cap ks \cap (IF Closing(s) THEN {"hi"} ELSE {"hi", "lo"})

\* sendPacket() puts packets into the async queue, which is emptied one
\* packet per pass and only when no send is under way
AsyncWaiting(s, ks) ==
    UseAsync /\ ("async" \in net[s].out \/ Sendable(s, ks) # {})

HasBytes(s, ks) ==
    \/ "bytes" \in net[s].out
    \/ IF UseAsync THEN AsyncWaiting(s, ks) /\ ~net[s].sending
                   ELSE Sendable(s, ks) # {}

\* processPacketQueue() for the priorities in ks, processAsyncQueue() and
\* processByteQueue(): what may be waiting afterwards.  Packets that are no
\* longer allowed are dropped; bytes stay while the socket takes none, or
\* only some, of them.
AfterSend(s, ks) ==
    {q \in SUBSET Kinds :
        /\ q \ {"async", "bytes"} = net[s].out \ (ks \cup {"async", "bytes"})
        /\ "async" \in q => AsyncWaiting(s, ks)
        /\ AsyncWaiting(s, ks) /\ net[s].sending => "async" \in q
        /\ "bytes" \in q => HasBytes(s, ks)}

NoChange(s) ==
    [slot |-> s, add |-> {}, wipe |-> FALSE, read |-> FALSE, write |-> FALSE,
     flush |-> FALSE]

ChangedSlot(x, c) ==
    [x EXCEPT !.out = (IF c.wipe THEN {} ELSE @) \cup c.add,
              !.readClosed = @ \/ c.read, !.writeClosed = @ \/ c.write,
              !.needsFlush = @ /\ ~c.flush]

Changed(n, c) == [n EXCEPT ![c.slot] = ChangedSlot(@, c)]

\* Routine t leaves the slots as n and then does c: at once when it is called by
\* the main loop; a thread of its own does it in its next step (Write).
Does(t, n, c) ==
    IF Threaded THEN net' = n /\ change' = [change EXCEPT ![t] = c]
                ELSE net' = Changed(n, c) /\ UNCHANGED change

\* The packets are taken; what could not be sent at once is put into the
\* asynchronous queue and the byte queue.  fl says whether a flush request is
\* answered too.
Sent(t, s, ks, fl) ==
    \E q \in AfterSend(s, ks) :
        Does(t, [net EXCEPT ![s].out = @ \cap q],
                [NoChange(s) EXCEPT !.add = q \cap {"async", "bytes"}, !.flush = fl])

\* It failed: clearQueues() and markWriteClosed()
SendFailed(t, s, ks, fl) ==
    /\ HasBytes(s, ks) \/ Sendable(s, ks) # {}
    /\ Does(t, net, [NoChange(s) EXCEPT !.wipe = TRUE, !.write = TRUE, !.flush = fl])

-----------------------------------------------------------------------------
Init ==
    /\ net = [s \in Slots |->
                [inUse |-> FALSE, readClosed |-> TRUE, writeClosed |-> TRUE,
                 needsFlush |-> FALSE, sending |-> FALSE, unknown |-> FALSE,
                 client |-> NoClient, parent |-> NoThread, out |-> {}]]
    /\ nconn = 0 /\ doomed = {} /\ lastGiven = 0
    /\ list = [t \in Threads |-> <<>>] /\ assigned = [t \in Threads |-> <<>>]
    /\ mpc = "game" /\ mslot = 1
    /\ tpc = [t \in Threads |-> "idle"] /\ tpos = [t \in Threads |-> 1]
    /\ tjob = [t \in Threads |-> "tick"] /\ held = [t \in Threads |-> NoClient]
    /\ change = [t \in Threads |-> NoChange(1)]

-----------------------------------------------------------------------------
(* Main thread: one round of Sphere_OnTick. *)

\* A network routine called by the main loop has to return first.
MainRuns(pc) == mpc = pc /\ (Threaded \/ \A t \in Threads : tpc[t] = "idle")

\* QueuePacket() from game code, for any client
GameQueue(s, k) ==
    /\ MainRuns("game")
    /\ CanQueue(s, k) /\ k \in {"hi", "lo"}
    /\ net' = [net EXCEPT ![s].out = @ \cup {k}]
    /\ UNCHANGED <<heapVars, lastGiven, mainVars, threadVars>>

\* addKick() or another forced disconnection from game code
GameKick(s, ks) ==
    /\ MainRuns("game")
    /\ net[s].inUse
    /\ \A k \in ks : CanQueue(s, k)
    /\ net' = [net EXCEPT ![s].out = @ \cup ks, ![s].readClosed = TRUE]
    /\ UNCHANGED <<heapVars, lastGiven, mainVars, threadVars>>

\* CWorld::_OnTick deletes the scheduled clients, unless it returned early:
\* while loading, or twice in one millisecond
WorldTick ==
    /\ MainRuns("game")
    /\ doomed' \in {{}, doomed}
    /\ mpc' = "accept"
    /\ UNCHANGED <<net, nconn, lastGiven, mslot, threadVars>>

\* processAllInput(): nothing to accept, or the connection was rejected;
\* the thread object's input runs here when it has no thread
AfterAccept ==
    IF Threaded
      THEN mpc' = "tick" /\ mslot' = 1 /\ UNCHANGED threadVars
      ELSE /\ mpc' = "output" /\ mslot' = 1
           /\ tpc' = [tpc EXCEPT ![1] = "receive"] /\ tjob' = [tjob EXCEPT ![1] = "input"]
           /\ tpos' = [tpos EXCEPT ![1] = 1]
           /\ UNCHANGED <<list, assigned, held, change>>

AcceptNone ==
    /\ MainRuns("accept")
    /\ AfterAccept
    /\ UNCHANGED <<net, heapVars, lastGiven>>

\* Mutant of FreeSlot: the search does not go back to the start
FreeSlotNoWrap == lastGiven + 1

\* findFreeSlot(): the first free slot after the last one given, then from the start
FreeSlot ==
    LET free  == {s \in Slots : ~net[s].inUse}
        after == {s \in free : s > lastGiven}
        from  == IF after # {} THEN after ELSE free
    IN  CHOOSE s \in from : \A r \in from : s <= r

AcceptSlot ==
    /\ MainRuns("accept")
    /\ nconn < MaxConn
    /\ \E s \in Slots : ~net[s].inUse
    /\ mslot' = FreeSlot /\ lastGiven' = FreeSlot
    /\ mpc' = "initClear"
    /\ UNCHANGED <<net, heapVars, threadVars>>

\* CNetState::init(): clear() first (the slot has no client at this point)
InitClear ==
    /\ MainRuns("initClear")
    /\ net' = [net EXCEPT ![mslot].readClosed = TRUE, ![mslot].writeClosed = TRUE,
                          ![mslot].needsFlush = FALSE, ![mslot].out = {},
                          ![mslot].sending = FALSE]
    /\ mpc' = "initClient"
    /\ UNCHANGED <<heapVars, lastGiven, mslot, threadVars>>

\* init(): the CClient is made; registerClient() assumes a send is under way
InitClient ==
    /\ MainRuns("initClient")
    /\ nconn' = nconn + 1
    /\ net' = [net EXCEPT ![mslot].client = nconn', ![mslot].unknown = TRUE,
                          ![mslot].sending = UseAsync]
    /\ mpc' = "initWrite"
    /\ UNCHANGED <<doomed, lastGiven, mslot, threadVars>>

\* init(): the flags are opened one after the other, m_isInUse comes last
InitOpenWrite ==
    /\ MainRuns("initWrite")
    /\ net' = [net EXCEPT ![mslot].writeClosed = FALSE]
    /\ mpc' = "initRead"
    /\ UNCHANGED <<heapVars, lastGiven, mslot, threadVars>>

InitOpenRead ==
    /\ MainRuns("initRead")
    /\ net' = [net EXCEPT ![mslot].readClosed = FALSE]
    /\ mpc' = "initUse"
    /\ UNCHANGED <<heapVars, lastGiven, mslot, threadVars>>

InitUse ==
    /\ MainRuns("initUse")
    /\ net' = [net EXCEPT ![mslot].inUse = TRUE]
    /\ mpc' = "assign"
    /\ UNCHANGED <<heapVars, lastGiven, mslot, threadVars>>

\* selectBestThread(): the first thread with the fewest clients
BestThread ==
    LET fewest == {t \in Threads : \A u \in Threads : Len(list[t]) <= Len(list[u])}
    IN  CHOOSE t \in fewest : \A u \in fewest : t <= u

AssignState ==
    /\ MainRuns("assign")
    /\ LET queue == [assigned EXCEPT ![BestThread] = Append(@, mslot)]
       IN  /\ assigned' = queue
           /\ IF Threaded
                THEN mpc' = "tick" /\ mslot' = 1 /\ UNCHANGED <<tpc, tpos, tjob>>
                ELSE /\ mpc' = "output" /\ mslot' = 1
                     /\ tpc' = [tpc EXCEPT ![1] = "receive"]
                     /\ tpos' = [tpos EXCEPT ![1] = 1]
                     /\ tjob' = [tjob EXCEPT ![1] = "input"]
    /\ UNCHANGED <<net, heapVars, lastGiven, list, held, change>>

\* processAllOutput()
MainOutput ==
    /\ MainRuns("output")
    /\ mpc' = "tick" /\ mslot' = 1
    /\ tpc' = [tpc EXCEPT ![1] = "flush"] /\ tpos' = [tpos EXCEPT ![1] = 1]
    /\ tjob' = [tjob EXCEPT ![1] = "output"]
    /\ UNCHANGED <<net, heapVars, lastGiven, list, assigned, held, change>>

-----------------------------------------------------------------------------
(* Main thread: CNetworkManager::tick(). *)

\* on to the next slot; after the last one a thread object without a thread ticks
NextSlot ==
    IF mslot < NSlots
      THEN mpc' = "tick" /\ mslot' = mslot + 1 /\ UNCHANGED threadVars
      ELSE /\ mpc' = "game" /\ mslot' = 1
           /\ IF Threaded
                THEN UNCHANGED threadVars
                ELSE /\ tpc' = [tpc EXCEPT ![1] = "new"]
                     /\ tjob' = [tjob EXCEPT ![1] = "tick"]
                     /\ UNCHANGED <<list, assigned, tpos, held, change>>

ToClear == mpc' = "clear" /\ UNCHANGED <<mslot, threadVars>>

\* a slot that is free, or open and healthy
TickSkip ==
    /\ MainRuns("tick")
    /\ ~net[mslot].inUse \/ ~Closing(mslot)
    /\ NextSlot
    /\ UNCHANGED <<net, heapVars, lastGiven>>

\* the handshake did not complete in time
TickTimeout ==
    /\ MainRuns("tick")
    /\ net[mslot].inUse /\ net[mslot].unknown
    /\ ToClear
    /\ UNCHANGED <<net, heapVars, lastGiven>>

\* closing, and data are waiting: have them flushed, at once or by the thread
TickFlush ==
    /\ MainRuns("tick")
    /\ net[mslot].inUse /\ Closing(mslot) /\ ~Closed(mslot) /\ Pending(mslot)
    /\ IF net[mslot].needsFlush \/ net[mslot].parent = NoThread
         THEN UNCHANGED net
         ELSE IF Threaded
           THEN net' = [net EXCEPT ![mslot].needsFlush = TRUE]
           ELSE \/ Sent(1, mslot, {"hi", "lo"}, TRUE)
                \/ SendFailed(1, mslot, {"hi", "lo"}, TRUE)
    /\ NextSlot
    /\ UNCHANGED <<heapVars, lastGiven>>

\* closing, nothing left to send: closed for reading too, cleared once closed
TickClosing ==
    /\ MainRuns("tick")
    /\ net[mslot].inUse /\ Closing(mslot)
    /\ Closed(mslot) \/ ~Pending(mslot)
    /\ net' = [net EXCEPT ![mslot].readClosed = TRUE]
    /\ IF net[mslot].writeClosed /\ ~net[mslot].sending THEN ToClear ELSE NextSlot
    /\ UNCHANGED <<heapVars, lastGiven>>

\* Mutant of ClearFlags: the flags are not closed
ClearNoFlags ==
    /\ MainRuns("clear")
    /\ net' = [net EXCEPT ![mslot].needsFlush = FALSE]
    /\ mpc' = "clearClient"
    /\ UNCHANGED <<heapVars, lastGiven, mslot, threadVars>>

\* clear(): the flags first ...
ClearFlags ==
    /\ MainRuns("clear")
    /\ net' = [net EXCEPT ![mslot].readClosed = TRUE, ![mslot].writeClosed = TRUE,
                          ![mslot].needsFlush = FALSE]
    /\ mpc' = "clearClient"
    /\ UNCHANGED <<heapVars, lastGiven, mslot, threadVars>>

\* Mutant of ClearClient: the pointer to the client stays
ClearKeepsClient ==
    /\ MainRuns("clearClient")
    /\ doomed' = doomed \cup ({net[mslot].client} \ {NoClient})
    /\ mpc' = "clearQueues"
    /\ UNCHANGED <<net, nconn, lastGiven, mslot, threadVars>>

\* ... then the client is scheduled for deletion and forgotten ...
ClearClient ==
    /\ MainRuns("clearClient")
    /\ doomed' = doomed \cup ({net[mslot].client} \ {NoClient})
    /\ net' = [net EXCEPT ![mslot].client = NoClient]
    /\ mpc' = "clearQueues"
    /\ UNCHANGED <<nconn, lastGiven, mslot, threadVars>>

\* Mutant of ClearQueues: the queues are not reset
ClearKeepsQueues ==
    /\ MainRuns("clearQueues")
    /\ net' = [net EXCEPT ![mslot].sending = FALSE,
                          ![mslot].unknown = FALSE, ![mslot].inUse = FALSE]
    /\ NextSlot
    /\ UNCHANGED <<heapVars, lastGiven>>

\* ... then the queues, and m_isInUse last; the parent thread is left alone
ClearQueues ==
    /\ MainRuns("clearQueues")
    /\ net' = [net EXCEPT ![mslot].out = {}, ![mslot].sending = FALSE,
                          ![mslot].unknown = FALSE, ![mslot].inUse = FALSE]
    /\ NextSlot
    /\ UNCHANGED <<heapVars, lastGiven>>

-----------------------------------------------------------------------------
(* Network thread t: CNetworkThread::tick() and the routines it is made of. *)

Current(t) == list[t][tpos[t]]
AtEnd(t)   == tpos[t] > Len(list[t])

At(t, pc) == tpc[t] = pc

Goto(t, pc) == tpc' = [tpc EXCEPT ![t] = pc] /\ UNCHANGED <<tpos, held>>

\* start of a pass over the list, the next state of a pass, the end of a routine
Pass(t, pc) ==
    /\ tpc' = [tpc EXCEPT ![t] = pc] /\ tpos' = [tpos EXCEPT ![t] = 1]
    /\ held' = [held EXCEPT ![t] = NoClient]
Advance(t, pc) ==
    /\ tpc' = [tpc EXCEPT ![t] = pc] /\ tpos' = [tpos EXCEPT ![t] = @ + 1]
    /\ held' = [held EXCEPT ![t] = NoClient]
Hold(t, pc) ==
    /\ tpc' = [tpc EXCEPT ![t] = pc]
    /\ held' = [held EXCEPT ![t] = net[Current(t)].client]
    /\ UNCHANGED tpos

Leave(t, pc) ==
    /\ tpc' = [tpc EXCEPT ![t] = pc] /\ held' = [held EXCEPT ![t] = NoClient]
    /\ UNCHANGED tpos

\* everything a step of thread t leaves alone, unless it says otherwise
ElseSame  == UNCHANGED <<heapVars, lastGiven, mainVars, tjob, change>>
ListsSame == UNCHANGED <<list, assigned>>

\* a routine that may have decided on a change
BodySame == ListsSame /\ UNCHANGED <<heapVars, lastGiven, mainVars, tjob>>

\* the thread's own loop calls tick()
ThreadTick(t) ==
    /\ Threaded /\ At(t, "idle")
    /\ Goto(t, "new")
    /\ UNCHANGED net /\ ListsSame /\ ElseSame

\* Mutant of CheckNew(): the parent thread is not set
CheckNewNoParent(t) ==
    /\ At(t, "new")
    /\ IF assigned[t] = <<>>
         THEN Pass(t, "drop") /\ UNCHANGED net /\ ListsSame
         ELSE /\ list' = [list EXCEPT ![t] = Append(@, Head(assigned[t]))]
              /\ assigned' = [assigned EXCEPT ![t] = Tail(@)]
              /\ Goto(t, "new") /\ UNCHANGED net
    /\ ElseSame

\* checkNewStates(): one assigned state per step
CheckNew(t) ==
    /\ At(t, "new")
    /\ IF assigned[t] = <<>>
         THEN Pass(t, "drop") /\ UNCHANGED net /\ ListsSame
         ELSE /\ net' = [net EXCEPT ![Head(assigned[t])].parent = t]
              /\ list' = [list EXCEPT ![t] = Append(@, Head(assigned[t]))]
              /\ assigned' = [assigned EXCEPT ![t] = Tail(@)]
              /\ Goto(t, "new")
    /\ ElseSame

Erase(t) == list' = [list EXCEPT ![t] = RemoveAt(@, tpos[t])]

\* Mutants of DropCheck(): a state that is not in use is kept, one that is
\* closing is dropped
DropKeepsUnused(t) ==
    /\ At(t, "drop") /\ ~AtEnd(t)
    /\ LET s == Current(t)
       IN  \/ net[s].parent # t /\ Erase(t) /\ Goto(t, "drop")
           \/ net[s].parent = t /\ UNCHANGED list /\ Advance(t, "drop")
    /\ UNCHANGED <<net, assigned>> /\ ElseSame

DropClosing(t) ==
    /\ At(t, "drop") /\ ~AtEnd(t)
    /\ LET s == Current(t)
       IN  \/ net[s].parent # t /\ Erase(t) /\ Goto(t, "drop")
           \/ net[s].parent = t /\ Closing(s) /\ UNCHANGED list /\ Goto(t, "unparent")
           \/ net[s].parent = t /\ ~Closing(s) /\ UNCHANGED list /\ Advance(t, "drop")
    /\ UNCHANGED <<net, assigned>> /\ ElseSame

\* dropInvalidStates(): keep a state that is ours and in use
DropCheck(t) ==
    /\ At(t, "drop") /\ ~AtEnd(t)
    /\ LET s == Current(t)
       IN  \/ net[s].parent # t /\ Erase(t) /\ Goto(t, "drop")
           \/ net[s].parent = t /\ ~net[s].inUse /\ UNCHANGED list /\ Goto(t, "unparent")
           \/ net[s].parent = t /\ net[s].inUse /\ UNCHANGED list /\ Advance(t, "drop")
    /\ UNCHANGED <<net, assigned>> /\ ElseSame

\* dropInvalidStates(): give up a state that was found not in use
DropUnparent(t) ==
    /\ At(t, "unparent")
    /\ net' = [net EXCEPT ![Current(t)].parent = NoThread]
    /\ Erase(t) /\ Goto(t, "drop")
    /\ UNCHANGED assigned /\ ElseSame

\* tick() returns when no state is left
DropDone(t) ==
    /\ At(t, "drop") /\ AtEnd(t)
    /\ Pass(t, IF list[t] = <<>> THEN "idle" ELSE "receive")
    /\ UNCHANGED net /\ ListsSame /\ ElseSame

\* receiveData(): the states that still read; their socket may have failed ...
Receive(t) ==
    /\ At(t, "receive") /\ ~AtEnd(t)
    /\ \/ Advance(t, "receive")
       \/ ~net[Current(t)].readClosed /\ Goto(t, "failed")
    /\ UNCHANGED net /\ ListsSame /\ ElseSame

\* ... and is closed for reading then
ReceiveFailed(t) ==
    /\ At(t, "failed")
    /\ net' = [net EXCEPT ![Current(t)].readClosed = TRUE]
    /\ Advance(t, "receive")
    /\ ListsSame /\ ElseSame

ReceiveDone(t) ==
    /\ At(t, "receive") /\ AtEnd(t)
    /\ Pass(t, "input")
    /\ UNCHANGED net /\ ListsSame /\ ElseSame

\* processData(): the state still reads ...
InputCheck(t) ==
    /\ At(t, "input") /\ ~AtEnd(t)
    /\ IF net[Current(t)].readClosed THEN Advance(t, "input") ELSE Goto(t, "inputClient")
    /\ UNCHANGED net /\ ListsSame /\ ElseSame

\* ... and has a client: if it does not, the assertion throws out of the pass
AfterInput(t) == IF tjob[t] = "input" THEN "idle" ELSE "flush"

InputClient(t) ==
    /\ At(t, "inputClient")
    /\ IF net[Current(t)].client = NoClient THEN Pass(t, AfterInput(t))
                                            ELSE Hold(t, "inputBody")
    /\ UNCHANGED net /\ ListsSame /\ ElseSame

\* processData(): what the packets of this client may do
InputBody(t) ==
    /\ At(t, "inputBody")
    /\ LET s == Current(t)
       IN  \/ Does(t, net, NoChange(s))
           \/ /\ net[s].client = held[t]                            \* SetConnectType()
              /\ Does(t, [net EXCEPT ![s].unknown = FALSE], NoChange(s))
           \/ Does(t, net, [NoChange(s) EXCEPT !.read = TRUE])       \* malformed packet
           \/ /\ CanQueue(s, "hi")                                  \* addLoginErr()
              /\ Does(t, net, [NoChange(s) EXCEPT !.add = {"hi"}, !.read = TRUE])
           \/ \E r \in Slots :                                      \* packets for anybody
                /\ CanQueue(r, "lo")
                /\ Does(t, net, [NoChange(r) EXCEPT !.add = {"lo"}])
           \/ \E r \in Slots :                                      \* the previous login
                net[r].inUse /\ Does(t, net, [NoChange(r) EXCEPT !.read = TRUE])
    /\ IF Threaded THEN Leave(t, "inputWrite") ELSE Advance(t, "input")
    /\ BodySame

InputDone(t) ==
    /\ At(t, "input") /\ AtEnd(t)
    /\ Pass(t, AfterInput(t))
    /\ UNCHANGED net /\ ListsSame /\ ElseSame

-----------------------------------------------------------------------------
(* Network thread t: CNetworkOutput. *)

NeedsClient(s) == net[s].out \cap {"hi", "lo", "async"} # {}

\* a queue with packets in it makes the routine read the client
SendStep(t, client, body) ==
    Goto(t, IF NeedsClient(Current(t)) THEN client ELSE body)

AfterOutput(t) == IF tjob[t] = "output" THEN "idle" ELSE "quota"

\* The client is read.  If there is none, the assertion throws out of
\* processOutput().
SendClient(t, client, body) ==
    /\ At(t, client)
    /\ IF net[Current(t)].client = NoClient THEN Pass(t, AfterOutput(t)) ELSE Hold(t, body)
    /\ UNCHANGED net /\ ListsSame /\ ElseSame

\* Without a client only the byte queue is sent.
Queues(t, ks) == IF held[t] = NoClient THEN {} ELSE ks

\* checkFlushRequests(), state by state: flush() it if that was asked for ...
FlushCheck(t) ==
    /\ At(t, "flush") /\ ~AtEnd(t)
    /\ LET s == Current(t)
       IN  \/ net[s].writeClosed /\ Advance(t, "flush")
           \/ /\ ~net[s].writeClosed /\ net[s].needsFlush
              /\ IF net[s].inUse THEN SendStep(t, "flushClient", "flushBody")
                                 ELSE Goto(t, "flushEnd")
           \/ ~net[s].writeClosed /\ ~net[s].needsFlush /\ Goto(t, "flushEnd")
    /\ UNCHANGED net /\ ListsSame /\ ElseSame

FlushClient(t) == SendClient(t, "flushClient", "flushBody")

FlushBody(t) ==
    /\ At(t, "flushBody")
    /\ LET s  == Current(t)
           ks == Queues(t, {"hi", "lo"})
       IN  IF net[s].writeClosed
             THEN Does(t, net, [NoChange(s) EXCEPT !.flush = TRUE])
             ELSE Sent(t, s, ks, TRUE) \/ SendFailed(t, s, ks, TRUE)
    /\ Leave(t, IF Threaded THEN "flushWrite" ELSE "flushEnd")
    /\ BodySame

\* ... and a closing state with nothing left ...
FlushEnd(t) ==
    /\ At(t, "flushEnd")
    /\ IF Closing(Current(t)) /\ ~Pending(Current(t))
         THEN Goto(t, "markWrite")
         ELSE Advance(t, "flush")
    /\ UNCHANGED net /\ ListsSame /\ ElseSame

\* Mutant of MarkWrite(): the wrong side is closed
MarkReadAgain(t) ==
    /\ At(t, "markWrite")
    /\ net' = [net EXCEPT ![Current(t)].readClosed = TRUE]
    /\ Advance(t, "flush")
    /\ ListsSame /\ ElseSame

\* ... is closed for writing
MarkWrite(t) ==
    /\ At(t, "markWrite")
    /\ net' = [net EXCEPT ![Current(t)].writeClosed = TRUE]
    /\ Advance(t, "flush")
    /\ ListsSame /\ ElseSame

FlushDone(t) ==
    /\ At(t, "flush") /\ AtEnd(t)
    /\ Pass(t, "output")
    /\ UNCHANGED net /\ ListsSame /\ ElseSame

\* processOutput(): the states that still write ...
OutputCheck(t) ==
    /\ At(t, "output") /\ ~AtEnd(t)
    /\ IF net[Current(t)].writeClosed
         THEN Advance(t, "output")
         ELSE SendStep(t, "outputClient", "outputBody")
    /\ UNCHANGED net /\ ListsSame /\ ElseSame

OutputClient(t) == SendClient(t, "outputClient", "outputBody")

\* ... send; the lower priorities are not served by every call
OutputBody(t) ==
    /\ At(t, "outputBody")
    /\ LET s == Current(t)
       IN  IF net[s].writeClosed
             THEN Does(t, net, NoChange(s))
             ELSE \E lows \in SUBSET {"lo"} :
                    LET ks == Queues(t, {"hi"} \cup lows)
                    IN  Sent(t, s, ks, FALSE) \/ SendFailed(t, s, ks, FALSE)
    /\ IF Threaded THEN Leave(t, "outputWrite") ELSE Advance(t, "output")
    /\ BodySame

OutputDone(t) ==
    /\ At(t, "output") /\ AtEnd(t)
    /\ Pass(t, AfterOutput(t))
    /\ UNCHANGED net /\ ListsSame /\ ElseSame

\* tick(): every ten seconds the clients that moved too many bytes are kicked
QuotaCheck(t) ==
    /\ At(t, "quota") /\ ~AtEnd(t)
    /\ LET s == Current(t)
       IN  \/ Does(t, net, NoChange(s))
           \/ /\ net[s].client # NoClient
              /\ \E ks \in SUBSET {"hi"} :
                   /\ \A k \in ks : CanQueue(s, k)
                   /\ Does(t, net, [NoChange(s) EXCEPT !.add = ks, !.read = TRUE])
           \/ /\ net[s].client = NoClient
              /\ Does(t, net, [NoChange(s) EXCEPT !.read = TRUE, !.write = TRUE])
    /\ IF Threaded THEN Leave(t, "quotaWrite") ELSE Advance(t, "quota")
    /\ BodySame

QuotaDone(t) ==
    /\ At(t, "quota") /\ AtEnd(t)
    /\ Pass(t, "idle")
    /\ UNCHANGED net /\ ListsSame /\ ElseSame

\* What a thread has decided is done, whatever became of the slot since.
Write(t) ==
    /\ \/ At(t, "inputWrite") /\ Advance(t, "input")
       \/ At(t, "flushWrite") /\ Leave(t, "flushEnd")
       \/ At(t, "outputWrite") /\ Advance(t, "output")
       \/ At(t, "quotaWrite") /\ Advance(t, "quota")
    /\ net' = Changed(net, change[t])
    /\ change' = [change EXCEPT ![t] = NoChange(1)]
    /\ BodySame

-----------------------------------------------------------------------------
\* libev's thread: the socket is writable again
AsyncReady(s) ==
    /\ net[s].sending /\ net[s].parent # NoThread
    /\ net' = [net EXCEPT ![s].sending = FALSE]
    /\ UNCHANGED <<heapVars, lastGiven, mainVars, threadVars>>

Game ==
    \/ \E s \in Slots, k \in Kinds : GameQueue(s, k)
    \/ \E s \in Slots, ks \in SUBSET {"hi"} : GameKick(s, ks)

Main ==
    \/ WorldTick \/ AcceptNone \/ AcceptSlot
    \/ InitClear \/ InitClient \/ InitOpenWrite \/ InitOpenRead \/ InitUse
    \/ AssignState \/ MainOutput
    \/ TickSkip \/ TickTimeout \/ TickFlush \/ TickClosing
    \/ ClearFlags \/ ClearClient \/ ClearQueues

Thread(t) ==
    \/ ThreadTick(t) \/ CheckNew(t) \/ DropCheck(t) \/ DropUnparent(t) \/ DropDone(t)
    \/ Receive(t) \/ ReceiveFailed(t) \/ ReceiveDone(t)
    \/ InputCheck(t) \/ InputClient(t) \/ InputBody(t) \/ InputDone(t)
    \/ FlushCheck(t) \/ FlushClient(t) \/ FlushBody(t) \/ FlushEnd(t)
    \/ MarkWrite(t) \/ FlushDone(t)
    \/ OutputCheck(t) \/ OutputClient(t) \/ OutputBody(t) \/ OutputDone(t)
    \/ QuotaCheck(t) \/ QuotaDone(t) \/ Write(t)

Next ==
    \/ Game
    \/ Main
    \/ \E t \in Threads : Thread(t)
    \/ \E s \in Slots : AsyncReady(s)

Spec == Init /\ [][Next]_vars

\* The socket of s takes everything that waits for it in one pass.
Drains(s) ==
    \E t \in Threads :
        /\ OutputBody(t) /\ Current(t) = s
        /\ Changed(net', change'[t])[s].out \cap {"hi", "async", "bytes"} = {}

\* A connection that stopped reading is not kicked over and over.
KicksEnd ==
    <>[][\A s \in Slots : Closing(s) /\ "hi" \notin net[s].out => "hi" \notin net'[s].out]_vars

\* The main loop and the threads keep running; a peer that lives takes its
\* data, or the socket fails, in the end (TCP's promise, not this program's);
\* libev reports a writable socket.
Fairness ==
    /\ WF_vars(Main)
    /\ \A t \in Threads : WF_vars(Thread(t))
    /\ \A s \in Slots : SF_vars(Drains(s)) /\ WF_vars(AsyncReady(s))
    /\ KicksEnd

FairSpec == Spec /\ Fairness

-----------------------------------------------------------------------------
MainPcs ==
    {"game", "accept", "initClear", "initClient", "initWrite", "initRead", "initUse",
     "assign",
     "output", "tick", "clear", "clearClient", "clearQueues"}

ThreadPcs ==
    {"idle", "new", "drop", "unparent", "receive", "failed",
     "input", "inputClient", "inputBody",
     "flush", "flushClient", "flushBody", "flushEnd", "markWrite",
     "output", "outputClient", "outputBody", "quota",
     "inputWrite", "flushWrite", "outputWrite", "quotaWrite"}

\* init() has made the client and opens the slot for it
OpeningPcs == {"initWrite", "initRead", "initUse"}

\* Types.
TypeOK ==
    /\ net \in [Slots -> SlotState]
    /\ nconn \in 0..MaxConn /\ doomed \in SUBSET (1..MaxConn)
    /\ lastGiven \in 0..NSlots
    /\ list \in [Threads -> Seq(Slots)] /\ assigned \in [Threads -> Seq(Slots)]
    /\ mpc \in MainPcs /\ mslot \in Slots
    /\ tpc \in [Threads -> ThreadPcs] /\ tpos \in [Threads -> Nat \ {0}]
    /\ tjob \in [Threads -> {"tick", "input", "output"}]
    /\ held \in [Threads -> Clients] /\ change \in [Threads -> Changes]

\* A client belongs to one slot at most, and no slot points to a client that
\* is waiting to be deleted: clear() and init() never share or leak one.
ClientsOwned ==
    \A s \in Slots : net[s].client # NoClient =>
        /\ net[s].client \notin doomed
        /\ \A r \in Slots : net[r].client = net[s].client => r = s

\* No slot is listed twice, by one thread or by two.
ListedOnce ==
    \A t, u \in Threads :
        LET tl == list[t] \o assigned[t]
            ul == list[u] \o assigned[u]
        IN  \A i \in DOMAIN tl, j \in DOMAIN ul :
                tl[i] = ul[j] => t = u /\ i = j

\* Every accepted connection is served: it waits to be adopted by a thread,
\* or its parent thread has it in its list.
Served ==
    \A s \in Slots : net[s].inUse /\ ~(mpc = "assign" /\ mslot = s) =>
        \E t \in Threads :
            \/ \E i \in DOMAIN assigned[t] : assigned[t][i] = s
            \/ net[s].parent = t /\ \E i \in DOMAIN list[t] : list[t][i] = s

\* A client that is past the handshake is never cleared while disconnect
\* data (a login error, a kick) or bytes under way wait for its socket.
DisconnectDataSent ==
    mpc = "clear" /\ ~net[mslot].unknown =>
        net[mslot].out \cap {"hi", "async", "bytes"} = {}

\* A slot given back carries no client, no open side, no flush request and no
\* asynchronous send over to the next connection, and without threads no data.
\* (With threads there may be some, see the README.)
FreeIsBlank ==
    \A s \in Slots : ~net[s].inUse /\ ~(mpc \in OpeningPcs /\ mslot = s) =>
        /\ net[s].client = NoClient /\ (net[s].out = {} \/ Threaded)
        /\ net[s].readClosed /\ net[s].writeClosed
        /\ ~net[s].needsFlush /\ ~net[s].sending /\ ~net[s].unknown

\* A connection that is closing is cleared in the end, so its slot can be
\* given again.
ClosingIsFreed ==
    \A s \in Slots : net[s].inUse /\ Closing(s) ~> ~net[s].inUse

-----------------------------------------------------------------------------
\* The slots implement the connection protocol of ConnSlots: a connection
\* exists from InitUse to ClearClient.  A thread that still lists the slot may
\* have closed it again by the time it is in use.
Live(s) == net[s].inUse /\ net[s].client # NoClient

Phase ==
    [s \in Slots |-> IF ~Live(s)               THEN "free"
                     ELSE IF net[s].writeClosed THEN "finished"
                     ELSE IF net[s].readClosed  THEN "draining"
                     ELSE "open"]

Conn == INSTANCE ConnSlots WITH
            phase <- Phase,
            conn  <- [s \in Slots |-> IF Live(s) THEN net[s].client ELSE 0],
            given <- IF mpc \in OpeningPcs THEN nconn - 1 ELSE nconn,
            born  <- IF Threaded THEN {"open", "draining", "finished"} ELSE {"open"}

SlotsAreConnections == Conn!ConnSpec
=============================================================================
