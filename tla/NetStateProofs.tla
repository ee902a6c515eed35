--------------------------- MODULE NetStateProofs ---------------------------
(***************************************************************************)
(* Proofs about NetState, for every number of slots, network threads and   *)
(* connections, threaded or not, with or without asynchronous sends:       *)
(* types, the ownership of clients, that a free slot is blank, and that    *)
(* the slots implement the connection protocol of ConnSlots.  With one     *)
(* network thread: every connection is served.  With NetworkThreads=0: no  *)
(* slot is listed twice and no disconnect data are lost.                   *)
(*                                                                         *)
(* The argument: only the main thread gives a slot a client or takes it    *)
(* away (MainInv says how far it got); whatever another thread does to a   *)
(* slot, whenever it does it, only ever closes it further (Touch).         *)
(***************************************************************************)
EXTENDS NetState, FiniteSetTheorems, SequenceTheorems, WellFoundedInduction, TLAPS

-----------------------------------------------------------------------------
(* The inductive invariant. *)

\* Where a thread works on the state its position names.
WorkPcs ==
    {"unparent", "failed", "inputClient", "inputBody", "flushClient", "flushBody",
     "flushEnd", "markWrite", "outputClient", "outputBody",
     "inputWrite", "flushWrite", "outputWrite", "quotaWrite"}

\* Where a thread of its own does what it has decided to do.
WritePcs == {"inputWrite", "flushWrite", "outputWrite", "quotaWrite"}

AtWork ==
    \A t \in Threads :
        /\ tpc[t] \in WorkPcs => tpos[t] <= Len(list[t])
        /\ tpc[t] \in WritePcs => Threaded

\* Clients are numbered as they are made.
Numbered ==
    /\ \A s \in Slots : net[s].client <= nconn
    /\ doomed \subseteq 1..nconn

\* A slot that is not in use has no client, but for the one init() works on.
Unowned ==
    \A s \in Slots : ~net[s].inUse /\ ~(mpc \in OpeningPcs /\ mslot = s) =>
        net[s].client = NoClient

\* How far init() and clear() got with the slot the main thread works on.
Progress ==
    /\ mpc \in {"initClear", "initClient"} => ~net[mslot].inUse /\ nconn < MaxConn
    /\ mpc \in OpeningPcs =>
         ~net[mslot].inUse /\ net[mslot].client = nconn /\ nconn # 0
    /\ mpc \in {"clear", "clearClient", "clearQueues"} => net[mslot].inUse
    /\ mpc \in {"clearClient", "clearQueues"} => net[mslot].writeClosed
    /\ mpc = "clearQueues" => net[mslot].client = NoClient

\* The lines of init() that open a slot.
InitOpen == InitOpenWrite \/ InitOpenRead \/ InitUse

MainInv == Numbered /\ Unowned /\ Progress /\ ClientsOwned

IInv == TypeOK /\ AtWork /\ MainInv

-----------------------------------------------------------------------------
(* What a step may do to a slot. *)

\* A slot keeps its connection, and what was closed stays closed: without
\* threads nothing is queued for a slot that is closed for writing, and no
\* flush is asked for when it is closed for reading as well.
Touched(old, new) ==
    /\ new.inUse = old.inUse /\ new.client = old.client
    /\ old.readClosed => new.readClosed
    /\ old.writeClosed => new.writeClosed /\ (Threaded \/ new.out = old.out)
    /\ old.readClosed /\ old.writeClosed /\ new.needsFlush => old.needsFlush
    /\ new.sending => old.sending
    /\ new.unknown => old.unknown

Touch ==
    \/ UNCHANGED net
    \/ \E s \in Slots, r \in SlotState :
          net' = [net EXCEPT ![s] = r] /\ Touched(net[s], r)

\* Only a thread that adopts a slot or gives it up changes its parent as well.
Handle == Touch /\ \A s \in Slots : net'[s].parent = net[s].parent

\* A slot that is touched and keeps its parent is handled.
LEMMA TouchHandles ==
    ASSUME TypeOK, NEW s \in Slots, NEW r \in SlotState, net' = [net EXCEPT ![s] = r],
           Touched(net[s], r), r.parent = net[s].parent
    PROVE  Handle
  BY DEF Handle, Touch, TypeOK

\* What a change does to the slots.
LEMMA ChangedSlots ==
    ASSUME NEW n \in [Slots -> SlotState], NEW c \in Changes
    PROVE  /\ Changed(n, c) \in [Slots -> SlotState]
           /\ \A s \in Slots : s # c.slot => Changed(n, c)[s] = n[s]
           /\ LET old == n[c.slot]
                  new == Changed(n, c)[c.slot]
              IN  /\ new.inUse = old.inUse /\ new.client = old.client
                  /\ new.parent = old.parent /\ new.sending = old.sending
                  /\ new.unknown = old.unknown
                  /\ new.out = (IF c.wipe THEN {} ELSE old.out) \cup c.add
                  /\ new.readClosed = (old.readClosed \/ c.read)
                  /\ new.writeClosed = (old.writeClosed \/ c.write)
                  /\ new.needsFlush = (old.needsFlush /\ ~c.flush)
<1>. DEFINE r == ChangedSlot(n[c.slot], c)
<1>1. c.slot \in Slots /\ n[c.slot] \in SlotState
  BY DEF Changes
<1>2. Changed(n, c) = [n EXCEPT ![c.slot] = r]
  BY DEF Changed
<1>3. r \in SlotState
  <2>. DEFINE old  == n[c.slot]
              out  == (IF c.wipe THEN {} ELSE old.out) \cup c.add
              rd   == old.readClosed \/ c.read
              wr   == old.writeClosed \/ c.write
              flsh == old.needsFlush /\ ~c.flush
  <2>1. out \in SUBSET Kinds /\ rd \in BOOLEAN /\ wr \in BOOLEAN /\ flsh \in BOOLEAN
        /\ old \in SlotState
    BY <1>1 DEF SlotState, Changes
  <2>2. r = [old EXCEPT !.out = out, !.readClosed = rd, !.writeClosed = wr, !.needsFlush = flsh]
    BY DEF ChangedSlot
  <2>. HIDE DEF old, out, rd, wr, flsh, r
  <2>. QED BY <2>1, <2>2 DEF SlotState
<1>4. /\ r.inUse = n[c.slot].inUse /\ r.client = n[c.slot].client
      /\ r.parent = n[c.slot].parent /\ r.sending = n[c.slot].sending
      /\ r.unknown = n[c.slot].unknown
      /\ r.out = (IF c.wipe THEN {} ELSE n[c.slot].out) \cup c.add
      /\ r.readClosed = (n[c.slot].readClosed \/ c.read)
      /\ r.writeClosed = (n[c.slot].writeClosed \/ c.write)
      /\ r.needsFlush = (n[c.slot].needsFlush /\ ~c.flush)
  BY <1>1 DEF ChangedSlot, SlotState
<1>. HIDE DEF r
<1>5. Changed(n, c)[c.slot] = r
  BY <1>1, <1>2
<1>. QED BY <1>1, <1>2, <1>3, <1>4, <1>5

\* A routine that only touches a slot and then changes it touches it; data are
\* queued for a slot that is closed for writing by a thread of its own only.
LEMMA DoesHandles ==
    ASSUME TypeOK, NEW t \in Threads, NEW c \in Changes, NEW b \in SlotState,
           Touched(net[c.slot], b), b.parent = net[c.slot].parent,
           Threaded \/ ~net[c.slot].writeClosed \/ (c.add = {} /\ ~c.wipe),
           Does(t, [net EXCEPT ![c.slot] = b], c)
    PROVE  Handle /\ change' \in [Threads -> Changes]
<1>. DEFINE s == c.slot
            n == [net EXCEPT ![s] = b]
<1>1. s \in Slots /\ net[s] \in SlotState /\ n \in [Slots -> SlotState]
      /\ n[s] = b /\ net \in [Slots -> SlotState] /\ change \in [Threads -> Changes]
  BY DEF TypeOK, Changes
<1>2. CASE Threaded
  <2>1. net' = n /\ change' = [change EXCEPT ![t] = c]
    BY <1>2 DEF Does
  <2>2. Handle
    BY <1>1, <2>1, TouchHandles
  <2>. QED BY <1>1, <2>1, <2>2
<1>3. CASE ~Threaded
  <2>1. net' = Changed(n, c) /\ change' = change
    BY <1>3 DEF Does
  <2>. DEFINE r == Changed(n, c)[s]
  <2>. HIDE DEF n
  <2>2. /\ Changed(n, c) \in [Slots -> SlotState]
        /\ \A q \in Slots : q # s => Changed(n, c)[q] = n[q]
        /\ r.inUse = b.inUse /\ r.client = b.client
        /\ r.parent = b.parent /\ r.sending = b.sending
        /\ r.unknown = b.unknown
        /\ r.out = (IF c.wipe THEN {} ELSE b.out) \cup c.add
        /\ r.readClosed = (b.readClosed \/ c.read)
        /\ r.writeClosed = (b.writeClosed \/ c.write)
        /\ r.needsFlush = (b.needsFlush /\ ~c.flush)
    BY <1>1, ChangedSlots
  <2>. HIDE DEF r
  <2>3. net' = [net EXCEPT ![s] = r] /\ r \in SlotState
    <3>1. \A q \in Slots : q # s => n[q] = net[q]
      BY <1>1 DEF n
    <3>2. Changed(n, c) = [net EXCEPT ![s] = r]
      BY <1>1, <2>2, <3>1 DEF r
    <3>. QED BY <1>1, <2>1, <2>2, <3>2 DEF r
  <2>4. net[s].writeClosed => b.out = net[s].out /\ r.out = b.out
    BY <1>3, <2>2 DEF Touched
  <2>5. Touched(net[s], r) /\ r.parent = net[s].parent
    BY <2>2, <2>4 DEF Touched
  <2>. QED BY <1>1, <2>1, <2>3, <2>5, TouchHandles
<1>. QED BY <1>2, <1>3

\* The same when it changes the slots as they are.
LEMMA DoesToNet ==
    ASSUME TypeOK, NEW t \in Threads, NEW c \in Changes,
           Threaded \/ ~net[c.slot].writeClosed \/ (c.add = {} /\ ~c.wipe),
           Does(t, net, c)
    PROVE  Handle /\ change' \in [Threads -> Changes]
<1>1. c.slot \in Slots /\ net[c.slot] \in SlotState
  BY DEF TypeOK, Changes
<1>2. net = [net EXCEPT ![c.slot] = net[c.slot]]
  BY <1>1 DEF TypeOK
<1>3. Touched(net[c.slot], net[c.slot])
  BY DEF Touched
<1>4. Does(t, [net EXCEPT ![c.slot] = net[c.slot]], c)
  BY <1>2
<1>. QED BY <1>1, <1>3, <1>4, DoesHandles

\* Sending, and a failure to send, only touch the slot.
LEMMA SentHandles ==
    ASSUME TypeOK, NEW t \in Threads, NEW s \in Slots, NEW ks \in SUBSET Kinds, NEW fl \in BOOLEAN,
           ~net[s].writeClosed, Sent(t, s, ks, fl) \/ SendFailed(t, s, ks, fl)
    PROVE  Handle /\ change' \in [Threads -> Changes]
<1>0. net[s] \in SlotState /\ net \in [Slots -> SlotState]
  BY DEF TypeOK
<1>1. CASE Sent(t, s, ks, fl)
  <2>1. PICK q \in AfterSend(s, ks) :
            Does(t, [net EXCEPT ![s].out = @ \cap q],
                    [NoChange(s) EXCEPT !.add = q \cap {"async", "bytes"}, !.flush = fl])
    BY <1>1 DEF Sent
  <2>2. q \in SUBSET Kinds
    BY <2>1 DEF AfterSend
  <2>. DEFINE b == [net[s] EXCEPT !.out = @ \cap q]
              c == [NoChange(s) EXCEPT !.add = q \cap {"async", "bytes"}, !.flush = fl]
  <2>3. b \in SlotState /\ Touched(net[s], b) /\ b.parent = net[s].parent
    BY <1>0, <2>2 DEF SlotState, Touched
  <2>4. c \in Changes /\ c.slot = s
    BY <2>2 DEF Changes, NoChange
  <2>5. Does(t, [net EXCEPT ![s] = b], c)
    BY <2>1
  <2>. HIDE DEF b, c
  <2>. QED BY <2>3, <2>4, <2>5, DoesHandles
<1>2. CASE SendFailed(t, s, ks, fl)
  <2>. DEFINE c == [NoChange(s) EXCEPT !.wipe = TRUE, !.write = TRUE, !.flush = fl]
  <2>1. c \in Changes /\ c.slot = s
    BY DEF Changes, NoChange
  <2>2. Does(t, net, c)
    BY <1>2 DEF SendFailed
  <2>. HIDE DEF c
  <2>. QED BY <2>1, <2>2, DoesToNet
<1>. QED BY <1>1, <1>2

\* Closing a side, putting data into the queues, a finished
\* handshake, a finished send: the step handles one slot.
LEMMA ClosingHandles ==
    ASSUME TypeOK, NEW s \in Slots, NEW ks \in SUBSET Kinds,
           \/ /\ ks # {} => ~net[s].writeClosed
              /\ \/ net' = [net EXCEPT ![s].out = @ \cup ks]
                 \/ net' = [net EXCEPT ![s].out = @ \cup ks, ![s].readClosed = TRUE]
           \/ net' = [net EXCEPT ![s].readClosed = TRUE]
           \/ net' = [net EXCEPT ![s].writeClosed = TRUE]
           \/ net' = [net EXCEPT ![s].readClosed = TRUE, ![s].writeClosed = TRUE]
           \/ net' = [net EXCEPT ![s].readClosed = TRUE, ![s].writeClosed = TRUE,
                                 ![s].needsFlush = FALSE]
           \/ \E b \in BOOLEAN : (b => ~Closed(s)) /\ net' = [net EXCEPT ![s].needsFlush = b]
           \/ net' = [net EXCEPT ![s].unknown = FALSE]
           \/ net' = [net EXCEPT ![s].sending = FALSE]
    PROVE  Handle
<1>. DEFINE old == net[s]
<1>0. old \in SlotState
  BY DEF TypeOK
<1>1. CASE (ks # {} => ~old.writeClosed) /\ net' = [net EXCEPT ![s].out = @ \cup ks]
  <2>. DEFINE r == [old EXCEPT !.out = @ \cup ks]
  <2>1. r \in SlotState /\ Touched(old, r) /\ r.parent = old.parent
    BY <1>0, <1>1 DEF SlotState, Touched
  <2>. QED BY <1>1, <2>1, TouchHandles
<1>2. CASE /\ ks # {} => ~old.writeClosed
           /\ net' = [net EXCEPT ![s].out = @ \cup ks, ![s].readClosed = TRUE]
  <2>. DEFINE r == [old EXCEPT !.out = @ \cup ks, !.readClosed = TRUE]
  <2>1. r \in SlotState /\ Touched(old, r) /\ r.parent = old.parent
    BY <1>0, <1>2 DEF SlotState, Touched
  <2>. QED BY ZenonT(30), <1>2, <2>1, TouchHandles
<1>3. CASE net' = [net EXCEPT ![s].readClosed = TRUE]
  <2>. DEFINE r == [old EXCEPT !.readClosed = TRUE]
  <2>1. r \in SlotState /\ Touched(old, r) /\ r.parent = old.parent
    BY <1>0 DEF SlotState, Touched
  <2>. QED BY <1>3, <2>1, TouchHandles
<1>4. CASE net' = [net EXCEPT ![s].writeClosed = TRUE]
  <2>. DEFINE r == [old EXCEPT !.writeClosed = TRUE]
  <2>1. r \in SlotState /\ Touched(old, r) /\ r.parent = old.parent
    BY <1>0 DEF SlotState, Touched
  <2>. QED BY <1>4, <2>1, TouchHandles
<1>5. CASE net' = [net EXCEPT ![s].readClosed = TRUE, ![s].writeClosed = TRUE]
  <2>. DEFINE r == [old EXCEPT !.readClosed = TRUE, !.writeClosed = TRUE]
  <2>1. r \in SlotState /\ Touched(old, r) /\ r.parent = old.parent
    BY <1>0 DEF SlotState, Touched
  <2>. QED BY ZenonT(30), <1>5, <2>1, TouchHandles
<1>6. CASE net' = [net EXCEPT ![s].readClosed = TRUE, ![s].writeClosed = TRUE,
                              ![s].needsFlush = FALSE]
  <2>. DEFINE r == [old EXCEPT !.readClosed = TRUE, !.writeClosed = TRUE, !.needsFlush = FALSE]
  <2>1. r \in SlotState /\ Touched(old, r) /\ r.parent = old.parent
    BY <1>0 DEF SlotState, Touched
  <2>. QED BY ZenonT(30), <1>6, <2>1, TouchHandles
<1>7. ASSUME NEW b \in BOOLEAN, b => ~Closed(s), net' = [net EXCEPT ![s].needsFlush = b]
      PROVE  Handle
  <2>. DEFINE r == [old EXCEPT !.needsFlush = b]
  <2>1. r \in SlotState /\ Touched(old, r) /\ r.parent = old.parent
    BY <1>0, <1>7 DEF SlotState, Touched, Closed
  <2>. QED BY <1>7, <2>1, TouchHandles
<1>8. CASE net' = [net EXCEPT ![s].unknown = FALSE]
  <2>. DEFINE r == [old EXCEPT !.unknown = FALSE]
  <2>1. r \in SlotState /\ Touched(old, r) /\ r.parent = old.parent
    BY <1>0 DEF SlotState, Touched
  <2>. QED BY <1>8, <2>1, TouchHandles
<1>9. CASE net' = [net EXCEPT ![s].sending = FALSE]
  <2>. DEFINE r == [old EXCEPT !.sending = FALSE]
  <2>1. r \in SlotState /\ Touched(old, r) /\ r.parent = old.parent
    BY <1>0 DEF SlotState, Touched
  <2>. QED BY <1>9, <2>1, TouchHandles
<1>. QED BY <1>1, <1>2, <1>3, <1>4, <1>5, <1>6, <1>7, <1>8, <1>9

\* Another parent thread: the slot is only touched.
LEMMA ParentTouches ==
    ASSUME TypeOK, NEW s \in Slots, NEW t \in Threads \cup {NoThread},
           net' = [net EXCEPT ![s].parent = t]
    PROVE  Touch
<1>. DEFINE r == [net[s] EXCEPT !.parent = t]
<1>1. r \in SlotState /\ Touched(net[s], r)
  BY DEF TypeOK, SlotState, Touched
<1>2. net' = [net EXCEPT ![s] = r]
  OBVIOUS
<1>. QED BY <1>1, <1>2 DEF Touch

-----------------------------------------------------------------------------
(* What a step of a network thread does. *)

ThreadOK ==
    /\ list \in [Threads -> Seq(Slots)] /\ assigned \in [Threads -> Seq(Slots)]
    /\ tpc \in [Threads -> ThreadPcs] /\ tpos \in [Threads -> Nat \ {0}]
    /\ tjob \in [Threads -> {"tick", "input", "output"}]
    /\ held \in [Threads -> Clients] /\ change \in [Threads -> Changes]
    /\ AtWork

\* It moves on in its own lists and only touches slots.
ThreadEffect == ThreadOK' /\ Touch /\ UNCHANGED <<heapVars, lastGiven, mainVars>>

\* Unless it adopts a slot or gives one up, it leaves the lists and parents alone.
PassEffect == ThreadEffect /\ Handle /\ ListsSame

\* A thread that works on a state, or is not at the end of its list, has one.
LEMMA CurrentSlot ==
    ASSUME TypeOK, ThreadOK, NEW t \in Threads, tpc[t] \in WorkPcs \/ ~AtEnd(t)
    PROVE  /\ Current(t) \in Slots /\ net[Current(t)] \in SlotState
           /\ tpos[t] <= Len(list[t]) /\ tpos[t] \in 1..Len(list[t])
<1>1. list[t] \in Seq(Slots) /\ tpos[t] \in Nat \ {0} /\ Len(list[t]) \in Nat
  BY DEF ThreadOK
<1>2. tpos[t] \in 1..Len(list[t])
  BY <1>1 DEF ThreadOK, AtWork, AtEnd
<1>3. list[t][tpos[t]] \in Slots
  BY <1>1, <1>2
<1>. QED BY <1>1, <1>2, <1>3 DEF Current, TypeOK

\* The ways a thread moves on without changing its lists.
LEMMA Moves ==
    ASSUME TypeOK, ThreadOK, NEW t \in Threads, ListsSame, UNCHANGED tjob,
           change' \in [Threads -> Changes],
           NEW pc \in ThreadPcs, pc \in WritePcs => Threaded,
           \/ Goto(t, pc) /\ (pc \in WorkPcs => tpos[t] <= Len(list[t]))
           \/ Pass(t, pc) /\ pc \notin WorkPcs
           \/ Advance(t, pc) /\ pc \notin WorkPcs
           \/ Hold(t, pc) /\ tpc[t] \in WorkPcs
           \/ Leave(t, pc) /\ (pc \in WorkPcs => tpos[t] <= Len(list[t]))
    PROVE  ThreadOK'
<1>. USE DEF ThreadOK, ListsSame
<1>1. CASE Goto(t, pc) /\ (pc \in WorkPcs => tpos[t] <= Len(list[t]))
  BY <1>1 DEF Goto, AtWork
<1>2. CASE Pass(t, pc) /\ pc \notin WorkPcs
  BY <1>2, ConstantsAssumption DEF Pass, AtWork, Clients, NoClient
<1>3. CASE Advance(t, pc) /\ pc \notin WorkPcs
  BY <1>3, ConstantsAssumption DEF Advance, AtWork, Clients, NoClient
<1>4. CASE Hold(t, pc) /\ tpc[t] \in WorkPcs
  <2>1. net[Current(t)].client \in Clients /\ tpos[t] <= Len(list[t])
    BY <1>4, CurrentSlot DEF SlotState
  <2>. QED BY <1>4, <2>1 DEF Hold, AtWork
<1>5. CASE Leave(t, pc) /\ (pc \in WorkPcs => tpos[t] <= Len(list[t]))
  BY <1>5, ConstantsAssumption DEF Leave, AtWork, Clients, NoClient
<1>. QED BY <1>1, <1>2, <1>3, <1>4, <1>5

\* The lists change only when a thread adopts a state or gives one up.
LEMMA CheckNewEffect ==
    ASSUME TypeOK, ThreadOK, NEW t \in Threads, CheckNew(t)
    PROVE  ThreadEffect
<1>0. UNCHANGED <<heapVars, lastGiven, mainVars, tjob, change>> /\ change' \in [Threads -> Changes]
  BY DEF CheckNew, ElseSame, ThreadOK
<1>1. CASE assigned[t] = <<>>
  <2>1. Pass(t, "drop") /\ UNCHANGED net /\ ListsSame
    BY <1>1 DEF CheckNew
  <2>2. ThreadOK'
    BY <1>0, <2>1, Moves DEF ThreadPcs, WorkPcs, WritePcs
  <2>. QED BY <1>0, <2>1, <2>2 DEF ThreadEffect, Touch
<1>2. CASE assigned[t] # <<>>
  <2>1. assigned[t] \in Seq(Slots) /\ Head(assigned[t]) \in Slots /\ Tail(assigned[t]) \in Seq(Slots)
    BY <1>2, HeadTailProperties DEF ThreadOK
  <2>2. /\ net' = [net EXCEPT ![Head(assigned[t])].parent = t]
        /\ list' = [list EXCEPT ![t] = Append(@, Head(assigned[t]))]
        /\ assigned' = [assigned EXCEPT ![t] = Tail(@)]
        /\ Goto(t, "new")
    BY <1>2 DEF CheckNew
  <2>3. Touch
    BY <2>1, <2>2, ParentTouches
  <2>4. list[t] \in Seq(Slots) /\ Append(list[t], Head(assigned[t])) \in Seq(Slots)
    BY <2>1, AppendProperties DEF ThreadOK
  <2>5. ThreadOK'
    BY <1>0, <2>1, <2>2, <2>4 DEF ThreadOK, Goto, AtWork, ThreadPcs, WorkPcs, WritePcs
  <2>. QED BY <1>0, <2>3, <2>5 DEF ThreadEffect
<1>. QED BY <1>1, <1>2

\* A state taken out of the list leaves a list of slots.
LEMMA EraseEffect ==
    ASSUME TypeOK, ThreadOK, NEW t \in Threads, tpos[t] \in 1..Len(list[t]),
           Erase(t), Goto(t, "drop"), UNCHANGED <<assigned, tjob, change>>
    PROVE  ThreadOK'
<1>1. list[t] \in Seq(Slots)
  BY DEF ThreadOK
<1>2. RemoveAt(list[t], tpos[t]) \in Seq(Slots)
  <2>1. SubSeq(list[t], 1, tpos[t] - 1) \in Seq(Slots)
    BY <1>1
  <2>2. SubSeq(list[t], tpos[t] + 1, Len(list[t])) \in Seq(Slots)
    BY <1>1
  <2>. QED BY <2>1, <2>2, ConcatProperties DEF RemoveAt
<1>3. list' = [list EXCEPT ![t] = RemoveAt(@, tpos[t])]
  BY DEF Erase
<1>. QED BY <1>2, <1>3 DEF ThreadOK, Goto, AtWork, ThreadPcs, WorkPcs, WritePcs

\* dropInvalidStates(): a state is kept, given up, or taken out of the list.
LEMMA DropEffect ==
    ASSUME TypeOK, ThreadOK, NEW t \in Threads, DropCheck(t) \/ DropUnparent(t)
    PROVE  ThreadEffect
<1>0. /\ UNCHANGED <<heapVars, lastGiven, mainVars, tjob, assigned, change>>
      /\ change' \in [Threads -> Changes]
  BY DEF DropCheck, DropUnparent, ElseSame, ThreadOK
<1>1. CASE DropCheck(t)
  <2>1. ~AtEnd(t) /\ UNCHANGED net
    BY <1>1 DEF DropCheck
  <2>2. tpos[t] \in 1..Len(list[t]) /\ tpos[t] <= Len(list[t])
    BY <2>1, CurrentSlot
  <2>3. CASE Erase(t) /\ Goto(t, "drop")
    BY <1>0, <2>2, <2>3, EraseEffect, <2>1 DEF ThreadEffect, Touch
  <2>4. CASE UNCHANGED list /\ Goto(t, "unparent")
    <3>1. ThreadOK'
      BY <1>0, <2>2, <2>4, Moves DEF ListsSame, ThreadPcs, WorkPcs, WritePcs
    <3>. QED BY <1>0, <2>1, <3>1 DEF ThreadEffect, Touch
  <2>5. CASE UNCHANGED list /\ Advance(t, "drop")
    <3>1. ThreadOK'
      BY <1>0, <2>5, Moves DEF ListsSame, ThreadPcs, WorkPcs, WritePcs
    <3>. QED BY <1>0, <2>1, <3>1 DEF ThreadEffect, Touch
  <2>. QED BY <1>1, <2>3, <2>4, <2>5 DEF DropCheck
<1>2. CASE DropUnparent(t)
  <2>1. tpc[t] \in WorkPcs /\ Erase(t) /\ Goto(t, "drop")
        /\ net' = [net EXCEPT ![Current(t)].parent = NoThread]
    BY <1>2 DEF DropUnparent, At, WorkPcs
  <2>2. Current(t) \in Slots /\ tpos[t] \in 1..Len(list[t])
    BY <2>1, CurrentSlot
  <2>3. ThreadOK'
    BY <1>0, <2>1, <2>2, EraseEffect
  <2>4. Touch
    BY <2>1, <2>2, ParentTouches
  <2>. QED BY <1>0, <2>3, <2>4 DEF ThreadEffect
<1>. QED BY <1>1, <1>2

\* The steps that only look at a state, and those that walk the list.
LEMMA WalkEffect ==
    ASSUME TypeOK, ThreadOK, NEW t \in Threads,
           \/ ThreadTick(t) \/ DropDone(t) \/ Receive(t) \/ ReceiveDone(t)
           \/ InputCheck(t) \/ InputClient(t) \/ InputDone(t)
           \/ FlushCheck(t) \/ FlushClient(t) \/ FlushEnd(t) \/ FlushDone(t)
           \/ OutputCheck(t) \/ OutputClient(t) \/ OutputDone(t) \/ QuotaDone(t)
    PROVE  PassEffect
<1>0. /\ UNCHANGED <<heapVars, lastGiven, mainVars, tjob, net, change>> /\ ListsSame
      /\ change' \in [Threads -> Changes]
  BY DEF ThreadOK, ThreadTick, DropDone, Receive, ReceiveDone, InputCheck, InputClient, InputDone,
         FlushCheck, FlushClient, FlushEnd, FlushDone, OutputCheck, OutputClient, OutputDone,
         QuotaDone, SendClient, ElseSame
<1>. SUFFICES ThreadOK'
  BY <1>0 DEF PassEffect, ThreadEffect, Handle, Touch
<1>. DEFINE Inside == tpc[t] \in WorkPcs \/ ~AtEnd(t)
<1>1. Inside => tpos[t] <= Len(list[t])
  BY CurrentSlot
<1>2. \A pc \in ThreadPcs \ (WorkPcs \cup WritePcs) :
          Goto(t, pc) \/ Pass(t, pc) \/ Advance(t, pc) => ThreadOK'
  BY <1>0, Moves
<1>3. \A pc \in ThreadPcs \ WritePcs : Goto(t, pc) /\ Inside => ThreadOK'
  BY <1>0, <1>1, Moves
<1>4. \A pc \in ThreadPcs \ WritePcs : Hold(t, pc) /\ tpc[t] \in WorkPcs => ThreadOK'
  BY <1>0, Moves
<1>. USE DEF At, ThreadPcs, WorkPcs, WritePcs
<1>5. CASE ThreadTick(t)
  BY <1>2, <1>5 DEF ThreadTick
<1>6. CASE DropDone(t) \/ ReceiveDone(t) \/ FlushDone(t) \/ QuotaDone(t)
  BY <1>2, <1>6 DEF DropDone, ReceiveDone, FlushDone, QuotaDone
<1>7. CASE InputDone(t) \/ OutputDone(t)
  BY <1>2, <1>7 DEF InputDone, OutputDone, AfterInput, AfterOutput
<1>8. CASE Receive(t)
  BY <1>2, <1>3, <1>8 DEF Receive
<1>9. CASE InputCheck(t)
  BY <1>2, <1>3, <1>9 DEF InputCheck
<1>10. CASE InputClient(t)
  BY <1>2, <1>4, <1>10 DEF InputClient, AfterInput
<1>11. CASE FlushCheck(t)
  BY <1>2, <1>3, <1>11 DEF FlushCheck, SendStep
<1>12. CASE FlushClient(t)
  BY <1>2, <1>4, <1>12 DEF FlushClient, SendClient, AfterOutput
<1>13. CASE FlushEnd(t)
  BY <1>2, <1>3, <1>13 DEF FlushEnd
<1>14. CASE OutputCheck(t)
  BY <1>2, <1>3, <1>14 DEF OutputCheck, SendStep
<1>15. CASE OutputClient(t)
  BY <1>2, <1>4, <1>15 DEF OutputClient, SendClient, AfterOutput
<1>. QED BY <1>5, <1>6, <1>7, <1>8, <1>9, <1>10, <1>11, <1>12, <1>13, <1>14, <1>15

\* What the packets of a client may do.
LEMMA InputHandles ==
    ASSUME TypeOK, NEW t \in Threads, Current(t) \in Slots, InputBody(t)
    PROVE  Handle /\ change' \in [Threads -> Changes]
<1>. DEFINE s == Current(t)
<1>0. net[s] \in SlotState /\ net \in [Slots -> SlotState]
  BY DEF TypeOK
<1>1. ASSUME NEW r \in Slots
      PROVE  /\ NoChange(r) \in Changes /\ [NoChange(r) EXCEPT !.read = TRUE] \in Changes
             /\ [NoChange(r) EXCEPT !.add = {"lo"}] \in Changes
             /\ [NoChange(r) EXCEPT !.add = {"hi"}, !.read = TRUE] \in Changes
             /\ NoChange(r).slot = r /\ NoChange(r).add = {} /\ ~NoChange(r).wipe
  BY DEF NoChange, Changes, Kinds
<1>2. ASSUME NEW r \in Slots, Does(t, net, [NoChange(r) EXCEPT !.read = TRUE])
      PROVE  Handle /\ change' \in [Threads -> Changes]
  <2>. DEFINE c == [NoChange(r) EXCEPT !.read = TRUE]
  <2>1. c \in Changes /\ c.add = {} /\ ~c.wipe
    BY <1>1 DEF NoChange
  <2>. HIDE DEF c
  <2>2. Does(t, net, c)
    BY <1>2 DEF c
  <2>. QED BY <2>1, <2>2, DoesToNet
<1>3. ASSUME NEW r \in Slots, ~net[r].writeClosed, Does(t, net, [NoChange(r) EXCEPT !.add = {"lo"}])
      PROVE  Handle /\ change' \in [Threads -> Changes]
  <2>. DEFINE c == [NoChange(r) EXCEPT !.add = {"lo"}]
  <2>1. c \in Changes /\ c.slot = r
    BY <1>1 DEF NoChange
  <2>2. Does(t, net, c)
    BY <1>3
  <2>. HIDE DEF c
  <2>. QED BY <1>3, <2>1, <2>2, DoesToNet
<1>4. ASSUME ~net[s].writeClosed, Does(t, net, [NoChange(s) EXCEPT !.add = {"hi"}, !.read = TRUE])
      PROVE  Handle /\ change' \in [Threads -> Changes]
  <2>. DEFINE c == [NoChange(s) EXCEPT !.add = {"hi"}, !.read = TRUE]
  <2>1. c \in Changes /\ c.slot = s
    BY <1>1 DEF NoChange
  <2>2. Does(t, net, c)
    BY <1>4
  <2>. HIDE DEF c
  <2>. QED BY <1>4, <2>1, <2>2, DoesToNet
<1>5. ASSUME Does(t, net, NoChange(s))
      PROVE  Handle /\ change' \in [Threads -> Changes]
  BY <1>1, <1>5, DoesToNet
<1>6. ASSUME Does(t, [net EXCEPT ![s].unknown = FALSE], NoChange(s))
      PROVE  Handle /\ change' \in [Threads -> Changes]
  <2>. DEFINE b == [net[s] EXCEPT !.unknown = FALSE]
  <2>1. b \in SlotState /\ Touched(net[s], b) /\ b.parent = net[s].parent
    BY <1>0 DEF SlotState, Touched
  <2>2. Does(t, [net EXCEPT ![s] = b], NoChange(s))
    BY <1>6
  <2>. HIDE DEF b
  <2>. QED BY <1>1, <2>1, <2>2, DoesHandles
<1>. QED BY <1>2, <1>3, <1>4, <1>5, <1>6 DEF InputBody, CanQueue

\* The kick of a client that moved too many bytes.
LEMMA QuotaHandles ==
    ASSUME TypeOK, NEW t \in Threads, Current(t) \in Slots, QuotaCheck(t)
    PROVE  Handle /\ change' \in [Threads -> Changes]
<1>. DEFINE s == Current(t)
<1>1. ASSUME Does(t, net, NoChange(s))
      PROVE  Handle /\ change' \in [Threads -> Changes]
  <2>1. NoChange(s) \in Changes /\ NoChange(s).add = {} /\ ~NoChange(s).wipe
    BY DEF NoChange, Changes
  <2>. QED BY <1>1, <2>1, DoesToNet
<1>2. ASSUME NEW ks \in SUBSET {"hi"}, \A k \in ks : CanQueue(s, k),
             Does(t, net, [NoChange(s) EXCEPT !.add = ks, !.read = TRUE])
      PROVE  Handle /\ change' \in [Threads -> Changes]
  <2>. DEFINE c == [NoChange(s) EXCEPT !.add = ks, !.read = TRUE]
  <2>1. c \in Changes /\ c.slot = s /\ c.add = ks /\ ~c.wipe
    BY DEF NoChange, Changes, Kinds
  <2>2. Does(t, net, c)
    BY <1>2
  <2>. HIDE DEF c
  <2>3. net[s].writeClosed => ks = {}
    BY <1>2 DEF CanQueue
  <2>. QED BY <2>1, <2>2, <2>3, DoesToNet
<1>3. ASSUME Does(t, net, [NoChange(s) EXCEPT !.read = TRUE, !.write = TRUE])
      PROVE  Handle /\ change' \in [Threads -> Changes]
  <2>. DEFINE c == [NoChange(s) EXCEPT !.read = TRUE, !.write = TRUE]
  <2>1. c \in Changes /\ c.add = {} /\ ~c.wipe
    BY DEF NoChange, Changes
  <2>2. Does(t, net, c)
    BY <1>3
  <2>. HIDE DEF c
  <2>. QED BY <2>1, <2>2, DoesToNet
<1>. QED BY <1>1, <1>2, <1>3 DEF QuotaCheck

\* What a thread of its own has decided to do to a slot.
LEMMA WriteHandles ==
    ASSUME TypeOK, ThreadOK, NEW t \in Threads, Write(t)
    PROVE  Threaded /\ Handle /\ change' \in [Threads -> Changes]
<1>. DEFINE c == change[t]
            s == c.slot
            r == Changed(net, c)[s]
<1>1. c \in Changes /\ s \in Slots /\ net \in [Slots -> SlotState] /\ Threaded
  BY DEF TypeOK, ThreadOK, AtWork, WritePcs, Write, At, Changes
<1>2. change' \in [Threads -> Changes]
  <2>1. NoChange(1) \in Changes
    BY ConstantsAssumption DEF NoChange, Changes, Slots
  <2>2. change' = [change EXCEPT ![t] = NoChange(1)]
    BY DEF Write
  <2>. QED BY <2>1, <2>2 DEF ThreadOK
<1>3. net' = Changed(net, c)
  BY DEF Write
<1>. HIDE DEF c
<1>4. /\ Changed(net, c) \in [Slots -> SlotState]
      /\ \A q \in Slots : q # s => Changed(net, c)[q] = net[q]
      /\ r.inUse = net[s].inUse /\ r.client = net[s].client
      /\ r.parent = net[s].parent /\ r.sending = net[s].sending
      /\ r.unknown = net[s].unknown
      /\ r.readClosed = (net[s].readClosed \/ c.read)
      /\ r.writeClosed = (net[s].writeClosed \/ c.write)
      /\ r.needsFlush = (net[s].needsFlush /\ ~c.flush)
  BY <1>1, ChangedSlots
<1>5. net' = [net EXCEPT ![s] = r] /\ r \in SlotState
  BY <1>1, <1>3, <1>4
<1>6. Touched(net[s], r) /\ r.parent = net[s].parent
  BY <1>1, <1>4 DEF Touched
<1>. HIDE DEF r
<1>7. Handle
  BY <1>1, <1>5, <1>6, TouchHandles
<1>. QED BY <1>1, <1>2, <1>7

\* The steps that close a side of a state, read its packets or send to it.
LEMMA WorkEffect ==
    ASSUME TypeOK, ThreadOK, NEW t \in Threads,
           \/ ReceiveFailed(t) \/ InputBody(t) \/ FlushBody(t)
           \/ MarkWrite(t) \/ OutputBody(t) \/ QuotaCheck(t) \/ Write(t)
    PROVE  PassEffect
<1>0. UNCHANGED <<heapVars, lastGiven, mainVars, tjob>> /\ ListsSame
  BY DEF ReceiveFailed, InputBody, FlushBody, MarkWrite, OutputBody, QuotaCheck, Write, ElseSame,
         BodySame
<1>1. tpc[t] \in WorkPcs \/ ~AtEnd(t)
  BY DEF ReceiveFailed, InputBody, FlushBody, MarkWrite, OutputBody, QuotaCheck, Write, At, WorkPcs
<1>2. Current(t) \in Slots /\ tpos[t] <= Len(list[t])
  BY <1>1, CurrentSlot
<1>3. \/ \E pc \in {"receive", "input", "flush", "output", "quota"} : Advance(t, pc)
      \/ Threaded /\ \E pc \in WritePcs : Leave(t, pc)
      \/ Leave(t, "flushEnd")
  BY DEF ReceiveFailed, InputBody, FlushBody, MarkWrite, OutputBody, QuotaCheck, Write, WritePcs
<1>4. ASSUME Handle, change' \in [Threads -> Changes]
      PROVE  PassEffect
  <2>1. ThreadOK'
    BY <1>0, <1>2, <1>3, <1>4, Moves DEF ThreadPcs, WritePcs, WorkPcs
  <2>. QED BY <1>0, <1>4, <2>1 DEF PassEffect, ThreadEffect, Handle
<1>5. CASE ReceiveFailed(t) \/ MarkWrite(t)
  <2>1. Handle
    BY <1>2, <1>5, ClosingHandles DEF ReceiveFailed, MarkWrite
  <2>2. change' \in [Threads -> Changes]
    BY <1>5 DEF ReceiveFailed, MarkWrite, ElseSame, ThreadOK
  <2>. QED BY <1>4, <2>1, <2>2
<1>6. CASE InputBody(t)
  BY <1>2, <1>4, <1>6, InputHandles
<1>7. CASE FlushBody(t)
  <2>1. Queues(t, {"hi", "lo"}) \in SUBSET Kinds
    BY DEF Queues, Kinds
  <2>2. CASE net[Current(t)].writeClosed
    <3>. DEFINE c == [NoChange(Current(t)) EXCEPT !.flush = TRUE]
    <3>1. Does(t, net, c)
      BY <1>7, <2>2 DEF FlushBody
    <3>2. c \in Changes /\ c.add = {} /\ ~c.wipe
      BY <1>2 DEF NoChange, Changes
    <3>. HIDE DEF c
    <3>. QED BY <1>4, <3>1, <3>2, DoesToNet
  <2>3. CASE ~net[Current(t)].writeClosed
    <3>1. \/ Sent(t, Current(t), Queues(t, {"hi", "lo"}), TRUE)
          \/ SendFailed(t, Current(t), Queues(t, {"hi", "lo"}), TRUE)
      BY <1>7, <2>3 DEF FlushBody
    <3>. QED BY <1>2, <1>4, <2>1, <2>3, <3>1, SentHandles
  <2>. QED BY <2>2, <2>3
<1>8. CASE OutputBody(t)
  <2>1. CASE net[Current(t)].writeClosed
    <3>1. Does(t, net, NoChange(Current(t)))
      BY <1>8, <2>1 DEF OutputBody
    <3>2. /\ NoChange(Current(t)) \in Changes
          /\ NoChange(Current(t)).add = {} /\ ~NoChange(Current(t)).wipe
      BY <1>2 DEF NoChange, Changes
    <3>. QED BY <1>4, <3>1, <3>2, DoesToNet
  <2>2. CASE ~net[Current(t)].writeClosed
    <3>1. PICK lows \in SUBSET {"lo"} :
              LET ks == Queues(t, {"hi"} \cup lows)
              IN  Sent(t, Current(t), ks, FALSE) \/ SendFailed(t, Current(t), ks, FALSE)
      BY <1>8, <2>2 DEF OutputBody
    <3>2. Queues(t, {"hi"} \cup lows) \in SUBSET Kinds
      BY DEF Queues, Kinds
    <3>. QED BY <1>2, <1>4, <2>2, <3>1, <3>2, SentHandles
  <2>. QED BY <2>1, <2>2
<1>9. CASE QuotaCheck(t)
  BY <1>2, <1>4, <1>9, QuotaHandles
<1>10. CASE Write(t)
  BY <1>4, <1>10, WriteHandles
<1>. QED BY <1>5, <1>6, <1>7, <1>8, <1>9, <1>10

\* Every step of a network thread.
LEMMA ThreadStep ==
    ASSUME TypeOK, ThreadOK, NEW t \in Threads, Thread(t)
    PROVE  ThreadEffect
  BY CheckNewEffect, DropEffect, WalkEffect, WorkEffect DEF Thread, PassEffect

-----------------------------------------------------------------------------
(* Choices of the main thread: a smallest element exists. *)

\* Every set of numbers that is not empty has a smallest one.
LEMMA Minimum ==
    ASSUME NEW S \in SUBSET Nat, S # {}
    PROVE  \E m \in S : \A n \in S : m <= n
<1>. DEFINE R == OpToRel(<, Nat)
<1>1. IsWellFoundedOn(R, Nat)
  BY NatLessThanWellFounded
<1>2. PICK m \in S : \A n \in S : ~(<<n, m>> \in R)
  BY <1>1, WFMin
<1>3. ASSUME NEW n \in S PROVE m <= n
  <2>1. ~(n < m)
    BY <1>2 DEF OpToRel
  <2>. QED BY <2>1
<1>. QED BY <1>3

\* findFreeSlot() finds a free slot if there is one.
LEMMA FreeSlotFree ==
    ASSUME TypeOK, \E s \in Slots : ~net[s].inUse
    PROVE  FreeSlot \in Slots /\ ~net[FreeSlot].inUse
<1>. DEFINE free  == {s \in Slots : ~net[s].inUse}
            after == {s \in free : s > lastGiven}
            from  == IF after # {} THEN after ELSE free
<1>1. from # {} /\ from \subseteq free /\ from \in SUBSET Nat
  BY DEF Slots
<1>2. \E s \in from : \A r \in from : s <= r
  BY <1>1, Minimum
<1>3. FreeSlot = CHOOSE s \in from : \A r \in from : s <= r
  BY DEF FreeSlot
<1>. HIDE DEF from
<1>4. FreeSlot \in from
  BY <1>2, <1>3
<1>. QED BY <1>1, <1>4

\* selectBestThread() selects a thread.
LEMMA BestThreadExists ==
    ASSUME ThreadOK
    PROVE  BestThread \in Threads
<1>. DEFINE size(t) == Len(list[t])
            fewest == {t \in Threads : \A u \in Threads : size(t) <= size(u)}
<1>1. Threads # {} /\ Threads \in SUBSET Nat
  BY ConstantsAssumption DEF Threads
<1>2. \A t \in Threads : size(t) \in Nat
  BY DEF ThreadOK
<1>. HIDE DEF size
<1>3. \E m \in {size(t) : t \in Threads} : \A n \in {size(t) : t \in Threads} : m <= n
  BY ZenonT(30), <1>1, <1>2, Minimum
<1>4. fewest # {} /\ fewest \in SUBSET Nat
  <2>1. PICK t \in Threads : \A n \in {size(u) : u \in Threads} : size(t) <= n
    BY <1>3
  <2>2. t \in fewest
    BY <2>1
  <2>. QED BY <1>1, <2>2
<1>5. \E t \in fewest : \A u \in fewest : t <= u
  BY <1>4, Minimum
<1>6. BestThread = CHOOSE t \in fewest : \A u \in fewest : t <= u
  BY DEF BestThread, size
<1>. HIDE DEF fewest
<1>7. BestThread \in fewest
  BY <1>5, <1>6
<1>. QED BY <1>7 DEF fewest

-----------------------------------------------------------------------------
(* What a step of the main thread does. *)

\* Between two slots no client is being made or taken away.
QuietPcs == {"game", "accept", "assign", "output", "tick"}

\* The main thread's own way between slots, up to the beginning of clear().
QuietWay ==
    \/ UNCHANGED mainVars
    \/ /\ mpc \in QuietPcs /\ mpc' \in QuietPcs \cup {"clear"}
       /\ mpc' = "clear" => mslot' = mslot /\ net[mslot].inUse

\* Touched slots, deleted clients and that way keep the invariant.
LEMMA TouchKeeps ==
    ASSUME TypeOK, MainInv, Touch, UNCHANGED nconn, doomed' \subseteq doomed, QuietWay
    PROVE  net' \in [Slots -> SlotState] /\ MainInv'
<1>1. /\ net' \in [Slots -> SlotState]
      /\ \A s \in Slots : Touched(net[s], net'[s])
  <2>1. CASE UNCHANGED net
    BY <2>1 DEF TypeOK, Touched
  <2>2. CASE ~UNCHANGED net
    <3>1. PICK s \in Slots, r \in SlotState :
              net' = [net EXCEPT ![s] = r] /\ Touched(net[s], r)
      BY <2>2 DEF Touch
    <3>. QED BY <3>1 DEF TypeOK, Touched
  <2>. QED BY <2>1, <2>2
<1>2. /\ \A s \in Slots : net'[s].inUse = net[s].inUse /\ net'[s].client = net[s].client
      /\ \A s \in Slots : net[s].writeClosed => net'[s].writeClosed
  BY <1>1 DEF Touched
<1>3. mslot \in Slots /\ doomed \subseteq 1..nconn /\ mpc \in MainPcs
  BY DEF TypeOK, MainInv, Numbered
<1>4. Numbered'
  BY <1>2, <1>3 DEF MainInv, Numbered
<1>5. ClientsOwned'
  BY <1>2 DEF MainInv, ClientsOwned
<1>6. Unowned' /\ Progress'
  <2>1. CASE UNCHANGED mainVars
    BY <1>2, <1>3, <2>1 DEF MainInv, Unowned, Progress, mainVars
  <2>2. CASE /\ mpc \in QuietPcs /\ mpc' \in QuietPcs \cup {"clear"}
             /\ mpc' = "clear" => mslot' = mslot /\ net[mslot].inUse
    BY <1>2, <1>3, <2>2 DEF MainInv, Unowned, Progress, QuietPcs, OpeningPcs
  <2>. QED BY <2>1, <2>2 DEF QuietWay
<1>. QED BY <1>1, <1>4, <1>5, <1>6 DEF MainInv

\* The thread object that has no thread of its own is started by the main thread.
LEMMA StartThread ==
    ASSUME ThreadOK, UNCHANGED <<list, held, change>>, assigned' \in [Threads -> Seq(Slots)],
           UNCHANGED tjob \/ \E job \in {"tick", "input", "output"} : tjob' = [tjob EXCEPT ![1] = job],
           UNCHANGED tpos \/ tpos' = [tpos EXCEPT ![1] = 1],
           UNCHANGED <<tpc, tpos>> \/ \E pc \in {"new", "receive", "flush"} : tpc' = [tpc EXCEPT ![1] = pc]
    PROVE  ThreadOK'
<1>1. 1 \in Threads
  BY ConstantsAssumption DEF Threads
<1>2. tjob' \in [Threads -> {"tick", "input", "output"}] /\ tpos' \in [Threads -> Nat \ {0}]
  <2>1. ASSUME NEW job \in {"tick", "input", "output"}, tjob' = [tjob EXCEPT ![1] = job]
        PROVE  tjob' \in [Threads -> {"tick", "input", "output"}]
    BY <1>1, <2>1 DEF ThreadOK
  <2>2. tjob' \in [Threads -> {"tick", "input", "output"}]
    BY <2>1 DEF ThreadOK
  <2>3. tpos \in [Threads -> Nat \ {0}]
    BY DEF ThreadOK
  <2>4. tpos' \in [Threads -> Nat \ {0}]
    BY <1>1, <2>3
  <2>. QED BY <2>2, <2>4
<1>3. tpc' \in [Threads -> ThreadPcs] /\ AtWork'
  <2>1. CASE UNCHANGED <<tpc, tpos>>
    BY <2>1 DEF ThreadOK, AtWork
  <2>2. ASSUME NEW pc \in {"new", "receive", "flush"}, tpc' = [tpc EXCEPT ![1] = pc]
        PROVE  tpc' \in [Threads -> ThreadPcs] /\ AtWork'
    <3>1. tpc' \in [Threads -> ThreadPcs]
      BY <1>1, <2>2 DEF ThreadOK, ThreadPcs
    <3>2. ASSUME NEW t \in Threads, tpc'[t] \in WorkPcs PROVE t # 1 /\ tpc[t] \in WorkPcs
      BY <2>2, <3>2 DEF ThreadOK, WorkPcs
    <3>3. ASSUME NEW t \in Threads, tpc'[t] \in WritePcs PROVE tpc[t] \in WritePcs
      BY <2>2, <3>3 DEF ThreadOK, WritePcs
    <3>. QED BY <1>1, <3>1, <3>2, <3>3 DEF ThreadOK, AtWork
  <2>. QED BY <2>1, <2>2
<1>. QED BY <1>2, <1>3 DEF ThreadOK

\* The main thread goes on to the next slot, or ends its round.
LEMMA NextSlotMoves ==
    ASSUME ThreadOK, mslot \in Slots, NextSlot
    PROVE  mpc' \in {"tick", "game"} /\ mslot' \in Slots /\ ThreadOK'
<1>0. NSlots \in Nat \ {0} /\ mslot \in Nat /\ 1 \in Slots
  BY ConstantsAssumption DEF Slots
<1>1. UNCHANGED threadVars => ThreadOK'
  BY DEF threadVars, ThreadOK, AtWork
<1>2. mpc' \in {"tick", "game"} /\ mslot' \in Slots
  BY <1>0 DEF NextSlot, Slots
<1>3. mslot < NSlots \/ Threaded => ThreadOK'
  BY <1>1 DEF NextSlot
<1>4. ~(mslot < NSlots) /\ ~Threaded => ThreadOK'
  BY StartThread DEF NextSlot, ThreadOK
<1>. QED BY <1>2, <1>3, <1>4

\* The main thread's steps between slots, and the one libev's thread does.
LEMMA QuietStep ==
    ASSUME IInv,
           \/ Game \/ WorldTick \/ AcceptNone \/ AssignState \/ MainOutput
           \/ TickSkip \/ TickTimeout \/ TickFlush \/ TickClosing
           \/ \E s \in Slots : AsyncReady(s)
    PROVE  IInv' /\ Handle /\ UNCHANGED nconn /\ QuietWay
<1>0. TypeOK /\ ThreadOK /\ MainInv /\ mslot \in Slots /\ net[mslot] \in SlotState
      /\ NSlots \in Nat \ {0} /\ mslot \in Nat
  BY ConstantsAssumption DEF IInv, TypeOK, ThreadOK, Slots
<1>1. SUFFICES /\ Handle /\ UNCHANGED nconn /\ doomed' \subseteq doomed
               /\ QuietWay /\ mslot' \in Slots /\ lastGiven' = lastGiven /\ ThreadOK'
  <2>1. net' \in [Slots -> SlotState] /\ MainInv'
    BY <1>0, <1>1, TouchKeeps DEF Handle
  <2>2. mpc' \in MainPcs
    BY <1>0, <1>1 DEF TypeOK, QuietWay, QuietPcs, MainPcs, mainVars
  <2>3. TypeOK'
    BY <1>0, <1>1, <2>1, <2>2 DEF TypeOK, ThreadOK
  <2>. QED BY <1>1, <2>1, <2>3 DEF IInv, ThreadOK
<1>. USE DEF QuietPcs, QuietWay
<1>2. 1 \in Slots
  BY <1>0 DEF Slots
<1>3. UNCHANGED threadVars => ThreadOK'
  BY <1>0 DEF threadVars, ThreadOK, AtWork
<1>4. AfterAccept => mpc' \in {"tick", "output"} /\ mslot' = 1 /\ ThreadOK'
  <2>1. CASE Threaded
    BY <1>3, <2>1 DEF AfterAccept
  <2>2. CASE ~Threaded
    BY <1>0, <2>2, StartThread DEF AfterAccept, ThreadOK
  <2>. QED BY <2>1, <2>2
<1>5. NextSlot => mpc' \in {"tick", "game"} /\ mslot' \in Slots /\ ThreadOK'
  BY <1>0, NextSlotMoves
<1>6. CASE Game
  <2>1. CASE \E s \in Slots, k \in Kinds : GameQueue(s, k)
    <3>1. PICK s \in Slots, k \in Kinds : GameQueue(s, k)
      BY <2>1
    <3>2. Handle
      BY <1>0, <3>1, {k} \in SUBSET Kinds, ClosingHandles DEF GameQueue, CanQueue
    <3>. QED BY <1>0, <1>3, <3>1, <3>2 DEF GameQueue, heapVars, mainVars
  <2>2. CASE \E s \in Slots, ks \in SUBSET {"hi"} : GameKick(s, ks)
    <3>1. PICK s \in Slots, ks \in SUBSET {"hi"} : GameKick(s, ks)
      BY <2>2
    <3>2. ks \in SUBSET Kinds
      BY DEF Kinds
    <3>3. Handle
      BY <1>0, <3>1, <3>2, ClosingHandles DEF GameKick, CanQueue
    <3>. QED BY <1>0, <1>3, <3>1, <3>3 DEF GameKick, heapVars, mainVars
  <2>. QED BY <1>6, <2>1, <2>2 DEF Game
<1>7. CASE WorldTick
  BY <1>0, <1>3, <1>7 DEF WorldTick, MainRuns, Handle, Touch
<1>8. CASE AcceptNone
  BY <1>0, <1>2, <1>4, <1>8 DEF AcceptNone, MainRuns, heapVars, Handle, Touch
<1>9. CASE AssignState
  <2>1. assigned' \in [Threads -> Seq(Slots)]
    <3>1. assigned[BestThread] \in Seq(Slots) /\ Append(assigned[BestThread], mslot) \in Seq(Slots)
      BY <1>0, BestThreadExists, AppendProperties DEF ThreadOK
    <3>. QED BY <1>0, <1>9, <3>1 DEF AssignState, ThreadOK
  <2>2. ThreadOK'
    BY <1>0, <1>9, <2>1, StartThread DEF AssignState
  <2>. QED BY <1>0, <1>2, <1>9, <2>2 DEF AssignState, MainRuns, heapVars, Handle, Touch
<1>10. CASE MainOutput
  <2>1. ThreadOK'
    BY <1>0, <1>10, StartThread DEF MainOutput, ThreadOK
  <2>. QED BY <1>0, <1>2, <1>10, <2>1 DEF MainOutput, MainRuns, heapVars, Handle, Touch
<1>11. CASE TickSkip
  BY <1>0, <1>5, <1>11 DEF TickSkip, MainRuns, heapVars, Handle, Touch
<1>12. CASE TickTimeout
  BY <1>0, <1>3, <1>12 DEF TickTimeout, ToClear, MainRuns, heapVars, Handle, Touch
<1>13. CASE TickFlush
  <2>1. Handle
    <3>1. {"hi", "lo"} \in SUBSET Kinds
      BY DEF Kinds
    <3>2. 1 \in Threads /\ ~net[mslot].writeClosed
      BY <1>13, ConstantsAssumption DEF TickFlush, Pending, Threads
    <3>3. CASE UNCHANGED net
      BY <3>3 DEF Handle, Touch
    <3>4. CASE net' = [net EXCEPT ![mslot].needsFlush = TRUE]
      BY <1>0, <3>2, <3>4, ClosingHandles DEF Closed
    <3>5. CASE \/ Sent(1, mslot, {"hi", "lo"}, TRUE)
               \/ SendFailed(1, mslot, {"hi", "lo"}, TRUE)
      BY <1>0, <3>1, <3>2, <3>5, SentHandles
    <3>. QED BY <1>13, <3>3, <3>4, <3>5 DEF TickFlush
  <2>. QED BY <1>0, <1>5, <1>13, <2>1 DEF TickFlush, MainRuns, heapVars
<1>14. CASE TickClosing
  <2>1. Handle
    BY <1>0, <1>14, ClosingHandles DEF TickClosing
  <2>2. NextSlot \/ ToClear
    BY <1>14 DEF TickClosing
  <2>. QED BY <1>0, <1>3, <1>5, <1>14, <2>1, <2>2 DEF TickClosing, ToClear, MainRuns, heapVars
<1>15. CASE \E s \in Slots : AsyncReady(s)
  <2>1. PICK s \in Slots : AsyncReady(s)
    BY <1>15
  <2>2. Handle
    BY <1>0, <2>1, ClosingHandles DEF AsyncReady
  <2>. QED BY <1>0, <1>3, <2>1, <2>2 DEF AsyncReady, heapVars, mainVars
<1>. QED BY <1>6, <1>7, <1>8, <1>9, <1>10, <1>11, <1>12, <1>13, <1>14, <1>15

\* The steps of init() and clear(), each with its part of the invariant.
LEMMA SlotStep ==
    ASSUME IInv,
           \/ AcceptSlot \/ InitClear \/ InitClient \/ InitOpen
           \/ ClearFlags \/ ClearClient \/ ClearQueues
    PROVE  IInv'
<1>0. TypeOK /\ ThreadOK /\ MainInv /\ mslot \in Slots /\ net[mslot] \in SlotState
      /\ NSlots \in Nat \ {0} /\ MaxConn \in Nat /\ nconn \in Nat /\ mslot \in Nat
      /\ \A s \in Slots : net[s].client \in 0..MaxConn
  BY ConstantsAssumption DEF IInv, TypeOK, ThreadOK, Slots, SlotState, Clients
<1>1. UNCHANGED threadVars => ThreadOK'
  BY <1>0 DEF threadVars, ThreadOK, AtWork
<1>2. SUFFICES /\ ThreadOK'
               /\ net' \in [Slots -> SlotState]
               /\ nconn' \in 0..MaxConn /\ doomed' \in SUBSET (1..MaxConn)
               /\ lastGiven' \in 0..NSlots /\ mpc' \in MainPcs /\ mslot' \in Slots
               /\ MainInv'
  BY <1>2 DEF IInv, TypeOK, ThreadOK
<1>. USE DEF MainInv, Numbered, Unowned, Progress, ClientsOwned, MainRuns, MainPcs, heapVars, NoClient,
             OpeningPcs
<1>3. CASE AcceptSlot
  <2>1. FreeSlot \in Slots /\ ~net[FreeSlot].inUse
    BY <1>0, <1>3, FreeSlotFree DEF AcceptSlot
  <2>2. /\ UNCHANGED <<net, nconn, doomed, threadVars>> /\ nconn < MaxConn
        /\ mslot' = FreeSlot /\ lastGiven' = FreeSlot /\ mpc' = "initClear" /\ mpc = "accept"
    BY <1>3 DEF AcceptSlot
  <2>3. lastGiven' \in 0..NSlots
    BY <2>1, <2>2, <1>0 DEF Slots
  <2>4. net' \in [Slots -> SlotState] /\ nconn' \in 0..MaxConn /\ doomed' \in SUBSET (1..MaxConn)
    BY <1>0, <2>2 DEF TypeOK
  <2>. QED BY <1>0, <1>1, <2>1, <2>2, <2>3, <2>4
<1>4. CASE InitClear
  <2>1. net' \in [Slots -> SlotState]
    BY ZenonT(90), <1>0, <1>4 DEF InitClear, TypeOK, SlotState, Kinds
  <2>2. \A s \in Slots : net'[s].inUse = net[s].inUse /\ net'[s].client = net[s].client
    BY <1>0, <1>4 DEF InitClear, TypeOK, SlotState
  <2>3. /\ UNCHANGED <<nconn, doomed, lastGiven, mslot, threadVars>>
        /\ mpc = "initClear" /\ mpc' = "initClient"
    BY <1>4 DEF InitClear
  <2>4. lastGiven \in 0..NSlots /\ nconn \in 0..MaxConn /\ doomed \in SUBSET (1..MaxConn)
    BY <1>0 DEF TypeOK
  <2>. QED BY <1>0, <1>1, <2>1, <2>2, <2>3, <2>4
<1>5. CASE InitClient
  <2>1. /\ nconn' = nconn + 1 /\ nconn < MaxConn /\ ~net[mslot].inUse
        /\ UNCHANGED <<doomed, lastGiven, mslot, threadVars>>
        /\ mpc = "initClient" /\ mpc' = "initWrite"
    BY <1>0, <1>5 DEF InitClient
  <2>. DEFINE r == [net[mslot] EXCEPT !.client = nconn + 1, !.unknown = TRUE, !.sending = UseAsync]
  <2>2. nconn + 1 \in 1..MaxConn /\ nconn + 1 \in Clients
    BY <1>0, <2>1 DEF Clients
  <2>3. net' = [net EXCEPT ![mslot] = r]
    BY <1>0, <1>5 DEF InitClient
  <2>4. r \in SlotState
    BY <1>0, <2>2, ConstantsAssumption DEF SlotState
  <2>5. net' \in [Slots -> SlotState]
    BY <1>0, <2>3, <2>4 DEF TypeOK
  <2>6. /\ \A s \in Slots : net'[s].inUse = net[s].inUse
        /\ \A s \in Slots \ {mslot} : net'[s].client = net[s].client
        /\ net'[mslot].client = nconn + 1
    BY <1>0, <2>1, <2>3 DEF TypeOK, SlotState
  <2>7. lastGiven \in 0..NSlots /\ doomed \in SUBSET (1..MaxConn)
    BY <1>0 DEF TypeOK
  <2>8. ClientsOwned'
    BY <1>0, <2>1, <2>6
  <2>9. Numbered' /\ Unowned' /\ Progress'
    BY <1>0, <2>1, <2>6
  <2>. QED BY <1>0, <1>1, <2>1, <2>2, <2>5, <2>7, <2>8, <2>9
<1>6. CASE InitOpenWrite \/ InitOpenRead
  <2>0. PICK r \in SlotState : /\ net' = [net EXCEPT ![mslot] = r]
                               /\ r.client = net[mslot].client /\ r.inUse = net[mslot].inUse
    <3>1. CASE InitOpenWrite
      <4>. DEFINE r == [net[mslot] EXCEPT !.writeClosed = FALSE]
      <4>1. r \in SlotState /\ r.client = net[mslot].client /\ r.inUse = net[mslot].inUse
        BY <1>0 DEF SlotState
      <4>2. net' = [net EXCEPT ![mslot] = r]
        BY <3>1 DEF InitOpenWrite
      <4>. QED BY <4>1, <4>2
    <3>2. CASE InitOpenRead
      <4>. DEFINE r == [net[mslot] EXCEPT !.readClosed = FALSE]
      <4>1. r \in SlotState /\ r.client = net[mslot].client /\ r.inUse = net[mslot].inUse
        BY <1>0 DEF SlotState
      <4>2. net' = [net EXCEPT ![mslot] = r]
        BY <3>2 DEF InitOpenRead
      <4>. QED BY <4>1, <4>2
    <3>. QED BY <1>6, <3>1, <3>2
  <2>1. net' \in [Slots -> SlotState]
    BY <1>0, <2>0 DEF TypeOK
  <2>2. \A s \in Slots : net'[s].client = net[s].client /\ net'[s].inUse = net[s].inUse
    BY <1>0, <2>0 DEF TypeOK
  <2>3. /\ UNCHANGED <<nconn, doomed, lastGiven, mslot, threadVars>>
        /\ mpc \in OpeningPcs /\ mpc' \in {"initRead", "initUse"}
    BY <1>6 DEF InitOpenWrite, InitOpenRead
  <2>4. lastGiven \in 0..NSlots /\ nconn \in 0..MaxConn /\ doomed \in SUBSET (1..MaxConn)
    BY <1>0 DEF TypeOK
  <2>. QED BY <1>0, <1>1, <2>1, <2>2, <2>3, <2>4
<1>10. CASE InitUse
  <2>1. net' \in [Slots -> SlotState]
    BY <1>0, <1>10 DEF InitUse, TypeOK, SlotState
  <2>2. /\ \A s \in Slots : net'[s].client = net[s].client
        /\ \A s \in Slots \ {mslot} : net'[s].inUse = net[s].inUse
        /\ net'[mslot].inUse
    BY <1>0, <1>10 DEF InitUse, TypeOK, SlotState
  <2>3. /\ UNCHANGED <<nconn, doomed, lastGiven, mslot, threadVars>>
        /\ mpc = "initUse" /\ mpc' = "assign"
    BY <1>10 DEF InitUse
  <2>4. lastGiven \in 0..NSlots /\ nconn \in 0..MaxConn /\ doomed \in SUBSET (1..MaxConn)
    BY <1>0 DEF TypeOK
  <2>. QED BY <1>0, <1>1, <2>1, <2>2, <2>3, <2>4
<1>7. CASE ClearFlags
  <2>1. net' \in [Slots -> SlotState]
    BY <1>0, <1>7 DEF ClearFlags, TypeOK, SlotState
  <2>2. /\ \A s \in Slots : net'[s].client = net[s].client /\ net'[s].inUse = net[s].inUse
        /\ net'[mslot].writeClosed
    BY <1>0, <1>7 DEF ClearFlags, TypeOK, SlotState
  <2>3. /\ UNCHANGED <<nconn, doomed, lastGiven, mslot, threadVars>>
        /\ mpc = "clear" /\ mpc' = "clearClient"
    BY <1>7 DEF ClearFlags
  <2>4. lastGiven \in 0..NSlots /\ nconn \in 0..MaxConn /\ doomed \in SUBSET (1..MaxConn)
    BY <1>0 DEF TypeOK
  <2>. QED BY <1>0, <1>1, <2>1, <2>2, <2>3, <2>4
<1>8. CASE ClearClient
  <2>1. net' = [net EXCEPT ![mslot] = [net[mslot] EXCEPT !.client = 0]]
    BY <1>0, <1>8 DEF ClearClient
  <2>2. [net[mslot] EXCEPT !.client = 0] \in SlotState
    BY <1>0 DEF SlotState, Clients
  <2>3. net' \in [Slots -> SlotState]
    BY <1>0, <2>1, <2>2 DEF TypeOK
  <2>4. /\ \A s \in Slots : net'[s].inUse = net[s].inUse /\ net'[s].writeClosed = net[s].writeClosed
        /\ \A s \in Slots \ {mslot} : net'[s].client = net[s].client
        /\ net'[mslot].client = 0
    BY <1>0, <2>1 DEF TypeOK, SlotState
  <2>5. /\ UNCHANGED <<nconn, lastGiven, mslot, threadVars>>
        /\ doomed' = doomed \cup ({net[mslot].client} \ {0})
        /\ mpc = "clearClient" /\ mpc' = "clearQueues"
    BY <1>8 DEF ClearClient
  <2>6. lastGiven \in 0..NSlots /\ nconn \in 0..MaxConn /\ doomed \in SUBSET (1..MaxConn)
    BY <1>0 DEF TypeOK
  <2>7. doomed' \subseteq 1..nconn /\ doomed' \in SUBSET (1..MaxConn)
    <3>1. net[mslot].client <= nconn /\ doomed \subseteq 1..nconn /\ net[mslot].client \in 0..MaxConn
      BY <1>0
    <3>2. {net[mslot].client} \ {0} \subseteq 1..nconn
      BY <1>0, <3>1
    <3>3. 1..nconn \subseteq 1..MaxConn
      BY <1>0, <2>6
    <3>. QED BY <2>5, <3>1, <3>2, <3>3
  <2>8. ClientsOwned'
    BY <1>0, <2>4, <2>5
  <2>. QED BY <1>0, <1>1, <2>3, <2>4, <2>5, <2>6, <2>7, <2>8
<1>9. CASE ClearQueues
  <2>1. net' \in [Slots -> SlotState]
    BY ZenonT(30), <1>0, <1>9 DEF ClearQueues, TypeOK, SlotState, Kinds
  <2>2. /\ \A s \in Slots : net'[s].client = net[s].client
        /\ \A s \in Slots \ {mslot} : net'[s].inUse = net[s].inUse
    BY <1>0, <1>9 DEF ClearQueues, TypeOK, SlotState
  <2>3. UNCHANGED <<nconn, doomed, lastGiven>> /\ mpc = "clearQueues" /\ NextSlot
    BY <1>9 DEF ClearQueues
  <2>4. lastGiven \in 0..NSlots /\ nconn \in 0..MaxConn /\ doomed \in SUBSET (1..MaxConn)
    BY <1>0 DEF TypeOK
  <2>5. mpc' \in {"tick", "game"} /\ mslot' \in Slots /\ ThreadOK'
    BY <1>0, <2>3, NextSlotMoves
  <2>. QED BY <1>0, <2>1, <2>2, <2>3, <2>4, <2>5
<1>. QED BY <1>3, <1>4, <1>5, <1>6, <1>7, <1>8, <1>9, <1>10 DEF InitOpen

-----------------------------------------------------------------------------
(* The invariant, and the theorems it gives. *)

\* The server starts with free slots and idle threads.
LEMMA IInvInit == Init => IInv
<1>. SUFFICES ASSUME Init PROVE IInv
  OBVIOUS
<1>1. 1 \in Slots /\ 0 \in Clients /\ MaxConn \in Nat /\ NSlots \in Nat
  BY ConstantsAssumption DEF Slots, Clients
<1>2. net \in [Slots -> SlotState]
  <2>. DEFINE r == [inUse |-> FALSE, readClosed |-> TRUE, writeClosed |-> TRUE,
                   needsFlush |-> FALSE, sending |-> FALSE, unknown |-> FALSE,
                   client |-> NoClient, parent |-> NoThread, out |-> {}]
  <2>1. r \in SlotState
    BY <1>1 DEF SlotState, NoClient, NoThread
  <2>2. net = [s \in Slots |-> r]
    BY DEF Init
  <2>. HIDE DEF r
  <2>. QED BY <2>1, <2>2
<1>3. TypeOK
  <2>1. /\ nconn \in 0..MaxConn /\ doomed \in SUBSET (1..MaxConn) /\ lastGiven \in 0..NSlots
        /\ mpc \in MainPcs /\ mslot \in Slots
    BY <1>1 DEF Init, MainPcs
  <2>2. <<>> \in Seq(Slots)
    OBVIOUS
  <2>3. list \in [Threads -> Seq(Slots)] /\ assigned \in [Threads -> Seq(Slots)]
    BY <2>2 DEF Init
  <2>4. /\ tpc \in [Threads -> ThreadPcs] /\ tpos \in [Threads -> Nat \ {0}]
        /\ tjob \in [Threads -> {"tick", "input", "output"}] /\ held \in [Threads -> Clients]
        /\ change \in [Threads -> Changes]
    BY <1>1 DEF Init, ThreadPcs, NoClient, NoChange, Changes
  <2>. QED BY <1>2, <2>1, <2>3, <2>4 DEF TypeOK
<1>4. AtWork
  BY DEF Init, AtWork, WorkPcs, WritePcs
<1>5. MainInv
  BY DEF Init, MainInv, Numbered, Unowned, Progress, ClientsOwned, NoClient, OpeningPcs
<1>. QED BY <1>3, <1>4, <1>5 DEF IInv

\* A network thread's step keeps the invariant and only touches slots.
LEMMA ThreadKeeps ==
    ASSUME IInv, NEW t \in Threads, Thread(t)
    PROVE  IInv' /\ Touch /\ UNCHANGED <<nconn, mainVars>>
<1>1. TypeOK /\ ThreadOK /\ MainInv
  BY DEF IInv, TypeOK, ThreadOK
<1>2. ThreadOK' /\ Touch /\ UNCHANGED <<nconn, doomed, lastGiven, mainVars>>
  BY <1>1, ThreadStep DEF ThreadEffect, heapVars
<1>3. net' \in [Slots -> SlotState] /\ MainInv'
  BY <1>1, <1>2, TouchKeeps DEF QuietWay
<1>. QED BY <1>1, <1>2, <1>3 DEF IInv, TypeOK, ThreadOK, mainVars

\* Every step keeps the invariant.
LEMMA IInvNext == IInv /\ [Next]_vars => IInv'
<1>. SUFFICES ASSUME IInv, [Next]_vars PROVE IInv'
  OBVIOUS
<1>1. CASE Game \/ Main \/ \E s \in Slots : AsyncReady(s)
  BY <1>1, QuietStep, SlotStep DEF Main, InitOpen
<1>2. CASE \E t \in Threads : Thread(t)
  BY <1>2, ThreadKeeps
<1>3. CASE UNCHANGED vars
  BY <1>3 DEF vars, heapVars, mainVars, threadVars, IInv, TypeOK, AtWork, MainInv,
              Numbered, Unowned, Progress, ClientsOwned
<1>. QED BY <1>1, <1>2, <1>3 DEF Next

\* The invariant holds.
LEMMA IInvAlways == Spec => []IInv
  BY IInvInit, IInvNext, PTL DEF Spec

\* Every variable keeps its type: findFreeSlot() and selectBestThread() return
\* a slot and a thread, and no pass over a thread's list leaves the list,
\* whatever the number of slots, threads and connections.
THEOREM TypesKept == Spec => []TypeOK
<1>1. IInv => TypeOK
  BY DEF IInv
<1>. QED BY <1>1, IInvAlways, PTL

\* A client belongs to one slot, and no slot points to one that waits to be
\* deleted: init() and clear() neither share nor leak one, with any number of
\* network threads working on the same slots.
THEOREM ClientsAreOwned == Spec => []ClientsOwned
<1>1. IInv => ClientsOwned
  BY DEF IInv, MainInv
<1>. QED BY <1>1, IInvAlways, PTL

-----------------------------------------------------------------------------
(* A free slot is blank. *)

IsBlank(x) ==
    /\ x.client = NoClient /\ (x.out = {} \/ Threaded)
    /\ x.readClosed /\ x.writeClosed
    /\ ~x.needsFlush /\ ~x.sending /\ ~x.unknown

\* So is every slot that is not in use, but for the one init() works on; from
\* clear()'s first lines on the slot is closed, and stays so, because nothing
\* a thread does to it afterwards opens it or asks for a flush.
Blanks ==
    /\ \A s \in Slots : ~net[s].inUse /\ ~(mpc \in OpeningPcs /\ mslot = s) => IsBlank(net[s])
    /\ mpc \in {"clearClient", "clearQueues"} =>
         net[mslot].readClosed /\ net[mslot].writeClosed /\ ~net[mslot].needsFlush

\* A touched slot that was blank, or closed by clear(), is so afterwards.
LEMMA TouchBlanks ==
    ASSUME TypeOK, Blanks, Touch, QuietWay, mslot' \in Slots
    PROVE  Blanks'
<1>1. \A s \in Slots : Touched(net[s], net'[s])
  BY DEF Touch, TypeOK, Touched
<1>2. \A s \in Slots : net[s] \in SlotState /\ (net'[s].inUse = net[s].inUse)
  BY <1>1 DEF TypeOK, Touched
<1>3. ASSUME NEW s \in Slots, ~net'[s].inUse, ~(mpc' \in OpeningPcs /\ mslot' = s)
      PROVE  IsBlank(net'[s])
  <2>1. IsBlank(net[s])
    BY <1>2, <1>3 DEF Blanks, QuietWay, QuietPcs, mainVars, OpeningPcs
  <2>. QED BY <1>1, <2>1 DEF IsBlank, Touched
<1>4. ASSUME mpc' \in {"clearClient", "clearQueues"}
      PROVE  net'[mslot'].readClosed /\ net'[mslot'].writeClosed /\ ~net'[mslot'].needsFlush
  <2>1. UNCHANGED mainVars
    BY <1>4 DEF QuietWay, QuietPcs
  <2>2. net[mslot].readClosed /\ net[mslot].writeClosed /\ ~net[mslot].needsFlush
    BY <1>4, <2>1 DEF Blanks, mainVars
  <2>3. mslot \in Slots /\ mslot' = mslot
    BY <2>1 DEF TypeOK, mainVars
  <2>. QED BY <1>1, <2>2, <2>3 DEF Touched
<1>. QED BY <1>3, <1>4 DEF Blanks

\* init() and clear(): InitClear blanks the slot again, ClearFlags, ClearClient
\* and ClearQueues each do their part of it.
LEMMA SlotStepBlanks ==
    ASSUME IInv, Blanks,
           \/ AcceptSlot \/ InitClear \/ InitClient \/ InitOpen
           \/ ClearFlags \/ ClearClient \/ ClearQueues
    PROVE  Blanks'
<1>0. TypeOK /\ mslot \in Slots /\ net[mslot] \in SlotState /\ IInv' /\ MainInv
  BY SlotStep DEF IInv, TypeOK
<1>1. ASSUME NEW r \in SlotState, net' = [net EXCEPT ![mslot] = r],
             ~r.inUse /\ mpc' \notin OpeningPcs => IsBlank(r),
             mpc' \in OpeningPcs => mslot' = mslot,
             mpc' \in {"clearClient", "clearQueues"} =>
                 mslot' = mslot /\ r.readClosed /\ r.writeClosed /\ ~r.needsFlush
      PROVE  Blanks'
  <2>1. \A s \in Slots : net'[s] = IF s = mslot THEN r ELSE net[s]
    BY <1>0, <1>1 DEF TypeOK
  <2>2. ASSUME NEW s \in Slots, ~net'[s].inUse, ~(mpc' \in OpeningPcs /\ mslot' = s)
        PROVE  IsBlank(net'[s])
    <3>1. CASE s = mslot
      BY <1>1, <2>1, <2>2, <3>1
    <3>2. CASE s # mslot
      BY <2>1, <2>2, <3>2 DEF Blanks
    <3>. QED BY <3>1, <3>2
  <2>3. mpc' \in {"clearClient", "clearQueues"} =>
            net'[mslot'].readClosed /\ net'[mslot'].writeClosed /\ ~net'[mslot'].needsFlush
    BY <1>0, <1>1, <2>1
  <2>. QED BY <2>2, <2>3 DEF Blanks
<1>. USE DEF MainInv, Progress, MainRuns, OpeningPcs
<1>2. CASE AcceptSlot
  BY <1>0, <1>2 DEF AcceptSlot, heapVars, Blanks
<1>3. CASE InitClear
  <2>. DEFINE r == [net[mslot] EXCEPT !.readClosed = TRUE, !.writeClosed = TRUE, !.needsFlush = FALSE,
                                      !.out = {}, !.sending = FALSE]
  <2>1. /\ net' = [net EXCEPT ![mslot] = r] /\ mpc = "initClear" /\ mpc' = "initClient"
        /\ ~net[mslot].inUse
    BY <1>0, <1>3 DEF InitClear, TypeOK
  <2>2. IsBlank(net[mslot])
    BY <1>0, <2>1 DEF Blanks
  <2>3. r \in SlotState /\ IsBlank(r)
    BY <1>0, <2>2 DEF SlotState, IsBlank
  <2>. HIDE DEF r
  <2>. QED BY <1>1, <2>1, <2>3
<1>4. CASE InitClient
  <2>. DEFINE r == [net[mslot] EXCEPT !.client = nconn + 1, !.unknown = TRUE, !.sending = UseAsync]
  <2>0. /\ nconn' = nconn + 1 /\ mpc = "initClient" /\ mpc' = "initWrite" /\ mslot' = mslot
    BY <1>4 DEF InitClient
  <2>1. net' = [net EXCEPT ![mslot] = r]
    BY <1>0, <1>4, <2>0 DEF InitClient
  <2>2. nconn + 1 \in Clients
    BY <1>0, <2>0 DEF IInv, TypeOK, Clients
  <2>3. r \in SlotState
    BY <1>0, <2>2, ConstantsAssumption DEF SlotState
  <2>. HIDE DEF r
  <2>. QED BY <1>1, <2>0, <2>1, <2>3
<1>5. CASE InitOpenWrite \/ InitOpenRead
  <2>1. PICK r \in SlotState : net' = [net EXCEPT ![mslot] = r]
    <3>1. CASE InitOpenWrite
      <4>. DEFINE r == [net[mslot] EXCEPT !.writeClosed = FALSE]
      <4>1. r \in SlotState /\ net' = [net EXCEPT ![mslot] = r]
        BY <1>0, <3>1 DEF SlotState, InitOpenWrite
      <4>. QED BY <4>1
    <3>2. CASE InitOpenRead
      <4>. DEFINE r == [net[mslot] EXCEPT !.readClosed = FALSE]
      <4>1. r \in SlotState /\ net' = [net EXCEPT ![mslot] = r]
        BY <1>0, <3>2 DEF SlotState, InitOpenRead
      <4>. QED BY <4>1
    <3>. QED BY <1>5, <3>1, <3>2
  <2>2. mpc' \in {"initRead", "initUse"} /\ mslot' = mslot
    BY <1>5 DEF InitOpenWrite, InitOpenRead
  <2>. QED BY <1>1, <2>1, <2>2
<1>9. CASE InitUse
  <2>. DEFINE r == [net[mslot] EXCEPT !.inUse = TRUE]
  <2>1. net' = [net EXCEPT ![mslot] = r] /\ mpc' = "assign"
    BY <1>0, <1>9 DEF InitUse, TypeOK
  <2>2. r \in SlotState /\ r.inUse
    BY <1>0 DEF SlotState
  <2>. HIDE DEF r
  <2>. QED BY <1>1, <2>1, <2>2
<1>6. CASE ClearFlags
  <2>. DEFINE r == [net[mslot] EXCEPT !.readClosed = TRUE, !.writeClosed = TRUE, !.needsFlush = FALSE]
  <2>1. /\ net' = [net EXCEPT ![mslot] = r] /\ mpc = "clear" /\ mpc' = "clearClient"
        /\ mslot' = mslot /\ net[mslot].inUse
    BY <1>0, <1>6 DEF ClearFlags, TypeOK
  <2>2. r \in SlotState /\ r.inUse /\ r.readClosed /\ r.writeClosed /\ ~r.needsFlush
    BY <1>0, <2>1 DEF SlotState
  <2>. HIDE DEF r
  <2>. QED BY <1>1, <2>1, <2>2
<1>7. CASE ClearClient
  <2>. DEFINE r == [net[mslot] EXCEPT !.client = NoClient]
  <2>1. /\ net' = [net EXCEPT ![mslot] = r] /\ mpc = "clearClient" /\ mpc' = "clearQueues"
        /\ mslot' = mslot /\ net[mslot].inUse
    BY <1>0, <1>7 DEF ClearClient, TypeOK
  <2>2. net[mslot].readClosed /\ net[mslot].writeClosed /\ ~net[mslot].needsFlush
    BY <2>1 DEF Blanks
  <2>3. NoClient \in Clients
    BY ConstantsAssumption DEF Clients, NoClient
  <2>4. r \in SlotState /\ r.inUse /\ r.readClosed /\ r.writeClosed /\ ~r.needsFlush
    BY <1>0, <2>1, <2>2, <2>3 DEF SlotState
  <2>. HIDE DEF r
  <2>. QED BY <1>1, <2>1, <2>4
<1>8. CASE ClearQueues
  <2>. DEFINE r == [net[mslot] EXCEPT !.out = {}, !.sending = FALSE, !.unknown = FALSE, !.inUse = FALSE]
  <2>1. net' = [net EXCEPT ![mslot] = r] /\ mpc = "clearQueues" /\ net[mslot].client = NoClient
    BY <1>0, <1>8 DEF ClearQueues, TypeOK
  <2>2. mpc' \in {"tick", "game"}
    BY <1>8 DEF ClearQueues, NextSlot
  <2>3. net[mslot].readClosed /\ net[mslot].writeClosed /\ ~net[mslot].needsFlush
    BY <2>1 DEF Blanks
  <2>4. r \in SlotState /\ IsBlank(r)
    BY <1>0, <2>1, <2>3 DEF SlotState, IsBlank
  <2>. HIDE DEF r
  <2>. QED BY <1>1, <2>1, <2>2, <2>4
<1>. QED BY <1>2, <1>3, <1>4, <1>5, <1>6, <1>7, <1>8, <1>9 DEF InitOpen

\* Every step keeps free slots blank.
LEMMA BlanksNext == IInv /\ Blanks /\ [Next]_vars => Blanks'
<1>. SUFFICES ASSUME IInv, Blanks, [Next]_vars PROVE Blanks'
  OBVIOUS
<1>0. TypeOK /\ IInv'
  BY IInvNext DEF IInv
<1>1. mslot' \in Slots
  BY <1>0 DEF IInv, TypeOK
<1>2. CASE \/ Game \/ WorldTick \/ AcceptNone \/ AssignState \/ MainOutput
           \/ TickSkip \/ TickTimeout \/ TickFlush \/ TickClosing
           \/ \E s \in Slots : AsyncReady(s)
  BY <1>0, <1>1, <1>2, QuietStep, TouchBlanks DEF Handle
<1>3. CASE \E t \in Threads : Thread(t)
  BY <1>0, <1>1, <1>3, ThreadKeeps, TouchBlanks DEF QuietWay
<1>4. CASE UNCHANGED vars
  BY <1>4 DEF vars, mainVars, Blanks
<1>. QED BY <1>2, <1>3, <1>4, SlotStepBlanks DEF Next, Main, InitOpen

\* A slot that was given back carries no client, no open side, no flush request,
\* no send under way and no handshake state over to the next connection,
\* whatever the threads that still list the slot do while clear() runs and
\* afterwards; without threads it carries no queued data over either.
THEOREM FreeSlotsAreBlank == Spec => []FreeIsBlank
<1>1. Init => Blanks
  BY DEF Init, Blanks, IsBlank, OpeningPcs
<1>2. Blanks => FreeIsBlank
  BY DEF Blanks, IsBlank, FreeIsBlank
<1>. QED BY <1>1, <1>2, IInvInit, IInvNext, BlanksNext, PTL DEF Spec

-----------------------------------------------------------------------------
(* With one network thread every accepted connection is served. *)

\* A list without the state at position i.
LEMMA RemoveAtElements ==
    ASSUME NEW S, NEW q \in Seq(S), NEW i \in 1..Len(q)
    PROVE  /\ RemoveAt(q, i) \in Seq(S) /\ Len(RemoveAt(q, i)) = Len(q) - 1
           /\ \A j \in 1..(Len(q) - 1) : RemoveAt(q, i)[j] = IF j < i THEN q[j] ELSE q[j + 1]
<1>. DEFINE a == SubSeq(q, 1, i - 1)
            b == SubSeq(q, i + 1, Len(q))
<1>1. a \in Seq(S) /\ Len(a) = i - 1 /\ \A j \in 1..(i - 1) : a[j] = q[j]
  OBVIOUS
<1>2. b \in Seq(S) /\ Len(b) = Len(q) - i /\ \A j \in 1..(Len(q) - i) : b[j] = q[i + j]
  OBVIOUS
<1>3. RemoveAt(q, i) = a \o b
  BY DEF RemoveAt
<1>4. i \in Nat /\ i >= 1 /\ i <= Len(q) /\ Len(q) \in Nat
  OBVIOUS
<1>. HIDE DEF a, b
<1>5. a \o b \in Seq(S) /\ Len(a \o b) = Len(q) - 1
  <2>1. a \o b \in Seq(S) /\ Len(a \o b) = Len(a) + Len(b)
    BY <1>1, <1>2, ConcatProperties
  <2>. QED BY <1>1, <1>2, <1>4, <2>1
<1>6. ASSUME NEW j \in 1..(Len(q) - 1) PROVE (a \o b)[j] = IF j < i THEN q[j] ELSE q[j + 1]
  <2>1. (a \o b)[j] = IF j <= Len(a) THEN a[j] ELSE b[j - Len(a)]
    BY <1>1, <1>2, <1>4, ConcatProperties
  <2>2. CASE j < i
    BY <1>1, <1>4, <2>1, <2>2
  <2>3. CASE ~(j < i)
    <3>1. j - (i - 1) \in 1..(Len(q) - i) /\ i + (j - (i - 1)) = j + 1
      BY <1>4, <2>3
    <3>2. b[j - (i - 1)] = q[j + 1]
      BY <1>2, <3>1
    <3>. QED BY <1>1, <1>4, <2>1, <2>3, <3>2
  <2>. QED BY <2>2, <2>3
<1>. QED BY <1>3, <1>5, <1>6

\* A slot that waits to be adopted, or is listed, by the only network thread.
Waits(s)  == \E i \in DOMAIN assigned[1] : assigned[1][i] = s
Listed(s) == \E i \in DOMAIN list[1] : list[1][i] = s

\* A connection that was given to a thread, or is about to be.
Given(s) == net[s].inUse /\ ~(mpc = "assign" /\ mslot = s)

\* A slot found not in use may be accepted again before the thread gives it
\* up: then it waits, and is adopted again.
Serving ==
    /\ \A s \in Slots : Given(s) => Waits(s) \/ (net[s].parent = 1 /\ Listed(s))
    /\ tpc[1] = "unparent" /\ Given(Current(1)) => Waits(Current(1))

\* The steps that neither give a slot to the thread nor take one away.
LEMMA ServingFrame ==
    ASSUME TypeOK, AtWork, 1 \in Threads, Serving, UNCHANGED <<list, assigned>>,
           \A s \in Slots : /\ net'[s].parent = net[s].parent
                            /\ Given(s)' => Given(s),
           tpc'[1] = "unparent" => tpc[1] = "unparent" /\ tpos'[1] = tpos[1]
    PROVE  Serving'
<1>1. \A s \in Slots : (Waits(s) <=> Waits(s)') /\ (Listed(s) <=> Listed(s)')
  BY DEF Waits, Listed
<1>2. ASSUME NEW s \in Slots, Given(s)' PROVE Waits(s)' \/ (net'[s].parent = 1 /\ Listed(s)')
  BY <1>1, <1>2 DEF Serving
<1>3. ASSUME tpc'[1] = "unparent", Given(Current(1))' PROVE Waits(Current(1))'
  <2>1. tpc[1] = "unparent" /\ Current(1)' = Current(1)
    BY <1>3 DEF Current
  <2>2. Current(1) \in Slots
    BY <2>1, CurrentSlot DEF TypeOK, ThreadOK, WorkPcs
  <2>3. Given(Current(1))
    BY <1>3, <2>1, <2>2 DEF Given
  <2>. QED BY <1>1, <2>1, <2>2, <2>3 DEF Serving
<1>. QED BY <1>2, <1>3 DEF Serving

\* Where the main thread leaves the thread object it starts, and its lists.
LEMMA MainLeavesThread ==
    ASSUME TypeOK, 1 \in Threads,
           \/ Game \/ WorldTick \/ AcceptNone \/ MainOutput
           \/ TickSkip \/ TickTimeout \/ TickFlush \/ TickClosing
           \/ AcceptSlot \/ InitClear \/ InitClient \/ InitOpen
           \/ ClearFlags \/ ClearClient \/ ClearQueues
           \/ \E s \in Slots : AsyncReady(s)
    PROVE  /\ UNCHANGED <<list, assigned>>
           /\ \/ UNCHANGED <<tpc, tpos>>
              \/ (~Threaded => tpc[1] = "idle") /\ tpc'[1] \in {"new", "receive", "flush"}
<1>1. tpc \in [Threads -> ThreadPcs]
  BY DEF TypeOK
<1>2. ASSUME NextSlot \/ AfterAccept \/ ToClear, MainRuns(mpc)
      PROVE  /\ UNCHANGED <<list, assigned>>
             /\ \/ UNCHANGED <<tpc, tpos>>
                \/ (~Threaded => tpc[1] = "idle") /\ tpc'[1] \in {"new", "receive", "flush"}
  BY <1>1, <1>2 DEF NextSlot, AfterAccept, ToClear, MainRuns, threadVars
<1>3. CASE Game
  BY <1>3 DEF Game, GameQueue, GameKick, threadVars
<1>4. CASE WorldTick \/ \E s \in Slots : AsyncReady(s)
  BY <1>4 DEF WorldTick, AsyncReady, threadVars
<1>5. CASE AcceptNone \/ TickSkip \/ TickTimeout \/ TickFlush \/ TickClosing \/ ClearQueues
  BY <1>2, <1>5 DEF AcceptNone, TickSkip, TickTimeout, TickFlush, TickClosing, ClearQueues, MainRuns
<1>6. CASE MainOutput
  BY <1>1, <1>6 DEF MainOutput, MainRuns
<1>7. CASE \/ AcceptSlot \/ InitClear \/ InitClient \/ InitOpen \/ ClearFlags \/ ClearClient
  BY <1>7 DEF AcceptSlot, InitClear, InitClient, InitOpen, InitOpenWrite, InitOpenRead, InitUse,
              ClearFlags, ClearClient, threadVars
<1>. QED BY <1>3, <1>4, <1>5, <1>6, <1>7

\* A pass over the list leads to the next state, the next pass or the end.
LEMMA PassLeavesLists ==
    ASSUME TypeOK, AtWork, NEW t \in Threads, Thread(t),
           ~CheckNew(t), ~DropCheck(t), ~DropUnparent(t)
    PROVE  /\ PassEffect
           /\ tpc'[t] \notin {"drop", "unparent"}
           /\ tpc'[t] = "new" => Threaded
           /\ tpc'[t] = "markWrite" => FlushEnd(t)
<1>1. PassEffect
  BY WalkEffect, WorkEffect DEF Thread, ThreadOK, TypeOK
<1>2. tpc \in [Threads -> ThreadPcs]
  BY DEF TypeOK
<1>. USE DEF Goto, Pass, Advance, Hold, Leave
<1>3. CASE \/ ThreadTick(t) \/ DropDone(t) \/ Receive(t) \/ ReceiveDone(t)
           \/ InputCheck(t) \/ InputClient(t) \/ InputDone(t)
  BY <1>1, <1>2, <1>3 DEF ThreadTick, DropDone, Receive, ReceiveDone, InputCheck, InputClient,
                          InputDone, AfterInput
<1>4. CASE \/ FlushCheck(t) \/ FlushClient(t) \/ FlushEnd(t) \/ FlushDone(t)
           \/ OutputCheck(t) \/ OutputClient(t) \/ OutputDone(t) \/ QuotaDone(t)
  BY <1>1, <1>2, <1>4 DEF FlushCheck, FlushClient, FlushEnd, FlushDone, OutputCheck, OutputClient,
                          OutputDone, QuotaDone, SendStep, SendClient, AfterOutput
<1>5. CASE \/ ReceiveFailed(t) \/ InputBody(t) \/ FlushBody(t)
           \/ MarkWrite(t) \/ OutputBody(t) \/ QuotaCheck(t) \/ Write(t)
  <2>1. \E pc \in {"receive", "input", "flush", "flushEnd", "output", "quota"} \cup WritePcs :
            tpc' = [tpc EXCEPT ![t] = pc]
    BY <1>5 DEF ReceiveFailed, InputBody, FlushBody, MarkWrite, OutputBody, QuotaCheck, Write, WritePcs
  <2>. QED BY <1>1, <1>2, <2>1 DEF WritePcs
<1>. QED BY <1>3, <1>4, <1>5 DEF Thread

\* The main thread's steps: only InitUse puts a slot into use, and the slot is
\* about to be given to the thread then.
LEMMA MainServes ==
    ASSUME IInv, NThreads = 1, Serving, Game \/ Main \/ \E s \in Slots : AsyncReady(s)
    PROVE  Serving'
<1>0. /\ TypeOK /\ AtWork /\ 1 \in Threads /\ Threads = {1} /\ mslot \in Slots
      /\ net \in [Slots -> SlotState] /\ ThreadOK /\ Progress
  BY DEF IInv, MainInv, TypeOK, Threads, ThreadOK
<1>. USE DEF MainRuns
<1>1. CASE \/ Game \/ WorldTick \/ AcceptNone \/ MainOutput
           \/ TickSkip \/ TickTimeout \/ TickFlush \/ TickClosing
           \/ \E s \in Slots : AsyncReady(s)
  <2>1. Handle /\ QuietWay
    BY <1>1, QuietStep
  <2>2. \A s \in Slots : net'[s].parent = net[s].parent /\ net'[s].inUse = net[s].inUse
    BY <1>0, <2>1 DEF Handle, Touch, Touched
  <2>3. UNCHANGED mainVars \/ mpc # "assign"
    BY <1>1 DEF Game, GameQueue, GameKick, WorldTick, AcceptNone, MainOutput, TickSkip, TickTimeout,
                TickFlush, TickClosing, AsyncReady
  <2>4. \A s \in Slots : Given(s)' => Given(s)
    BY <2>2, <2>3 DEF Given, mainVars
  <2>5. /\ UNCHANGED <<list, assigned>>
        /\ UNCHANGED <<tpc, tpos>> \/ tpc'[1] # "unparent"
    BY <1>0, <1>1, MainLeavesThread
  <2>. QED BY <1>0, <2>2, <2>4, <2>5, ServingFrame
<1>2. CASE \/ AcceptSlot \/ InitClear \/ InitClient \/ InitOpen
           \/ ClearFlags \/ ClearClient \/ ClearQueues
  <2>1. mpc # "assign"
    BY <1>2 DEF AcceptSlot, InitClear, InitClient, InitOpen, InitOpenWrite, InitOpenRead, InitUse,
                ClearFlags, ClearClient, ClearQueues
  <2>2. /\ \A s \in Slots : net'[s].parent = net[s].parent
        /\ \A s \in Slots : Given(s)' => Given(s)
    <3>1. CASE AcceptSlot
      BY <1>0, <3>1, <2>1 DEF AcceptSlot, Given
    <3>2. CASE InitClear
      BY <1>0, <3>2, <2>1 DEF InitClear, Given, SlotState
    <3>3. CASE InitClient
      BY <1>0, <3>3, <2>1 DEF InitClient, Given, SlotState
    <3>4. CASE InitOpen
      BY <1>0, <3>4, <2>1 DEF InitOpen, InitOpenWrite, InitOpenRead, InitUse, Given, SlotState
    <3>5. CASE ClearFlags
      BY <1>0, <3>5, <2>1 DEF ClearFlags, Given, SlotState
    <3>6. CASE ClearClient
      BY <1>0, <3>6, <2>1 DEF ClearClient, Given, SlotState
    <3>7. CASE ClearQueues
      BY <1>0, <3>7, <2>1 DEF ClearQueues, Given, SlotState
    <3>. QED BY <1>2, <3>1, <3>2, <3>3, <3>4, <3>5, <3>6, <3>7
  <2>3. /\ UNCHANGED <<list, assigned>>
        /\ UNCHANGED <<tpc, tpos>> \/ tpc'[1] # "unparent"
    BY <1>0, <1>2, MainLeavesThread
  <2>. QED BY <1>0, <2>2, <2>3, ServingFrame
<1>3. CASE AssignState
  <2>1. BestThread = 1
    BY <1>0, BestThreadExists
  <2>2. /\ UNCHANGED <<net, list>> /\ mpc = "assign" /\ mpc' # "assign"
        /\ assigned' = [assigned EXCEPT ![1] = Append(@, mslot)]
        /\ UNCHANGED <<tpc, tpos>> \/ tpc'[1] # "unparent"
    BY <1>0, <1>3, <2>1 DEF AssignState, ThreadOK
  <2>3. \A s \in Slots : (Waits(s) \/ s = mslot => Waits(s)') /\ (Listed(s) => Listed(s)')
    <3>1. assigned[1] \in Seq(Slots) /\ assigned'[1] = Append(assigned[1], mslot)
      BY <1>0, <2>2 DEF ThreadOK
    <3>2. /\ Len(assigned'[1]) = Len(assigned[1]) + 1
          /\ \A i \in 1..Len(assigned[1]) : assigned'[1][i] = assigned[1][i]
          /\ assigned'[1][Len(assigned[1]) + 1] = mslot
      BY <1>0, <3>1, AppendProperties
    <3>3. /\ DOMAIN assigned[1] = 1..Len(assigned[1]) /\ DOMAIN assigned'[1] = 1..(Len(assigned[1]) + 1)
          /\ Len(assigned[1]) \in Nat
      BY <1>0, <3>1, <3>2, AppendProperties
    <3>. QED BY <2>2, <3>2, <3>3 DEF Waits, Listed
  <2>4. ASSUME tpc'[1] = "unparent"
        PROVE  tpc[1] = "unparent" /\ Current(1)' = Current(1) /\ Current(1) \in Slots
    BY <1>0, <2>2, <2>4, CurrentSlot DEF Current, WorkPcs
  <2>. QED BY <1>0, <2>2, <2>3, <2>4 DEF Serving, Given
<1>. QED BY <1>1, <1>2, <1>3 DEF Main, InitOpen

\* CheckNew: the slot leaves the queue for the list, with the thread as its parent.
LEMMA CheckNewServes ==
    ASSUME IInv, NThreads = 1, Serving, CheckNew(1)
    PROVE  Serving'
<1>0. /\ TypeOK /\ 1 \in Threads /\ Threads = {1}
      /\ net \in [Slots -> SlotState] /\ assigned[1] \in Seq(Slots) /\ list[1] \in Seq(Slots)
      /\ list \in [Threads -> Seq(Slots)] /\ assigned \in [Threads -> Seq(Slots)]
      /\ tpc \in [Threads -> ThreadPcs]
  BY DEF IInv, TypeOK, Threads
<1>1. tpc'[1] # "unparent" /\ UNCHANGED mainVars
  BY <1>0 DEF CheckNew, Pass, Goto, ElseSame
<1>2. CASE assigned[1] = <<>>
  <2>1. UNCHANGED <<net, list, assigned>>
    BY <1>2 DEF CheckNew, ListsSame
  <2>. QED BY <1>1, <2>1 DEF Serving, Given, Waits, Listed, mainVars
<1>3. CASE assigned[1] # <<>>
  <2>0. PICK h \in Slots : h = Head(assigned[1])
    BY <1>0, <1>3, HeadTailProperties
  <2>1. /\ net' = [net EXCEPT ![h].parent = 1]
        /\ list'[1] = Append(list[1], h) /\ assigned'[1] = Tail(assigned[1])
    BY <1>0, <1>3, <2>0 DEF CheckNew
  <2>2. /\ h \in Slots /\ h = assigned[1][1]
        /\ Len(assigned'[1]) = Len(assigned[1]) - 1 /\ Len(assigned[1]) \in Nat \ {0}
        /\ \A i \in 1..(Len(assigned[1]) - 1) : assigned'[1][i] = assigned[1][i + 1]
        /\ DOMAIN assigned'[1] = 1..(Len(assigned[1]) - 1)
    BY <1>0, <1>3, <2>0, <2>1, HeadTailProperties
  <2>3. /\ Len(list'[1]) = Len(list[1]) + 1 /\ Len(list[1]) \in Nat
        /\ \A i \in 1..Len(list[1]) : list'[1][i] = list[1][i]
        /\ list'[1][Len(list[1]) + 1] = h
        /\ DOMAIN list'[1] = 1..(Len(list[1]) + 1)
    BY <1>0, <2>1, <2>2, AppendProperties
  <2>4. \A s \in Slots : /\ net'[s].inUse = net[s].inUse
                         /\ net'[s].parent = IF s = h THEN 1 ELSE net[s].parent
    BY <1>0, <2>1, <2>2 DEF SlotState
  <2>5. Listed(h)' /\ \A s \in Slots : Listed(s) => Listed(s)'
    <3>1. Len(list[1]) + 1 \in DOMAIN list'[1] /\ DOMAIN list[1] = 1..Len(list[1])
      BY <1>0, <2>3
    <3>2. Listed(h)'
      BY <2>3, <3>1 DEF Listed
    <3>3. \A i \in DOMAIN list[1] : i \in DOMAIN list'[1] /\ list'[1][i] = list[1][i]
      BY <2>3, <3>1
    <3>. QED BY <3>2, <3>3 DEF Listed
  <2>6. ASSUME NEW s \in Slots, Waits(s), s # h PROVE Waits(s)'
    <3>1. PICK i \in 1..Len(assigned[1]) : assigned[1][i] = s
      BY <1>0, <2>6 DEF Waits
    <3>2. i - 1 \in 1..(Len(assigned[1]) - 1) /\ (i - 1) + 1 = i
      BY <2>2, <2>6, <3>1
    <3>3. assigned'[1][i - 1] = s
      BY <2>2, <3>1, <3>2
    <3>. QED BY <2>2, <3>2, <3>3 DEF Waits
  <2>7. \A s \in Slots : Given(s)' => Given(s)
    BY <1>1, <2>4 DEF Given, mainVars
  <2>8. ASSUME NEW s \in Slots, Given(s)' PROVE Waits(s)' \/ (net'[s].parent = 1 /\ Listed(s)')
    <3>1. CASE s = h
      BY <2>4, <2>5, <3>1
    <3>2. CASE s # h
      BY <2>4, <2>5, <2>6, <2>7, <2>8, <3>2 DEF Serving
    <3>. QED BY <3>1, <3>2
  <2>. QED BY <1>1, <2>8 DEF Serving
<1>. QED BY <1>2, <1>3

\* What is listed after the state at the thread's position was taken out.
LEMMA EraseLists ==
    ASSUME TypeOK, 1 \in Threads, tpos[1] \in 1..Len(list[1]), Erase(1)
    PROVE  \A s \in Slots : Listed(s) /\ s # Current(1) => Listed(s)'
<1>. DEFINE q == list[1]
            i == tpos[1]
<1>1. q \in Seq(Slots) /\ list'[1] = RemoveAt(q, i) /\ i \in 1..Len(q) /\ Len(q) \in Nat
  BY DEF TypeOK, Erase
<1>2. /\ Len(list'[1]) = Len(q) - 1 /\ DOMAIN list'[1] = 1..(Len(q) - 1)
      /\ \A j \in 1..(Len(q) - 1) : list'[1][j] = IF j < i THEN q[j] ELSE q[j + 1]
  BY <1>1, RemoveAtElements
<1>3. ASSUME NEW s \in Slots, Listed(s), s # Current(1) PROVE Listed(s)'
  <2>1. PICK j \in 1..Len(q) : q[j] = s /\ j # i
    BY <1>1, <1>3 DEF Listed, Current
  <2>2. CASE j < i
    BY <1>1, <1>2, <2>1, <2>2 DEF Listed
  <2>3. CASE j > i
    <3>1. j - 1 \in 1..(Len(q) - 1) /\ ~(j - 1 < i) /\ (j - 1) + 1 = j
      BY <1>1, <2>1, <2>3
    <3>2. list'[1][j - 1] = s
      BY <1>2, <2>1, <3>1
    <3>. QED BY <1>2, <3>1, <3>2 DEF Listed
  <2>. QED BY <1>1, <2>1, <2>2, <2>3
<1>. QED BY <1>3

\* dropInvalidStates() takes out a state that is another thread's, or that it
\* gives up: that one is not in use, or waits to be adopted again.
LEMMA DropServes ==
    ASSUME IInv, NThreads = 1, Serving, DropCheck(1) \/ DropUnparent(1)
    PROVE  Serving'
<1>0. /\ TypeOK /\ AtWork /\ ThreadOK /\ 1 \in Threads /\ Threads = {1}
      /\ net \in [Slots -> SlotState] /\ tpc \in [Threads -> ThreadPcs]
  BY DEF IInv, TypeOK, ThreadOK, Threads
<1>1. UNCHANGED <<assigned, mainVars>>
  BY DEF DropCheck, DropUnparent, ElseSame
<1>2. Current(1) \in Slots /\ tpos[1] \in 1..Len(list[1])
  BY <1>0, CurrentSlot DEF DropCheck, DropUnparent, At, WorkPcs
<1>3. \A s \in Slots : Waits(s) => Waits(s)'
  BY <1>1 DEF Waits
<1>4. CASE DropCheck(1)
  <2>1. UNCHANGED net /\ \A s \in Slots : Given(s)' <=> Given(s)
    BY <1>1, <1>4 DEF DropCheck, Given, mainVars
  <2>2. CASE net[Current(1)].parent # 1 /\ Erase(1) /\ Goto(1, "drop")
    <3>1. tpc'[1] # "unparent"
      BY <1>0, <2>2 DEF Goto
    <3>. QED BY <1>0, <1>2, <1>3, <2>1, <2>2, <3>1, EraseLists DEF Serving
  <2>3. CASE ~net[Current(1)].inUse /\ UNCHANGED list /\ Goto(1, "unparent")
    <3>1. Current(1)' = Current(1) /\ ~Given(Current(1))
      BY <2>3 DEF Goto, Current, Given
    <3>2. ~Given(Current(1))'
      BY <1>1, <1>2, <2>1, <2>3, <3>1 DEF Given, mainVars
    <3>3. \A s \in Slots : Listed(s) => Listed(s)'
      BY <2>3 DEF Listed
    <3>. QED BY <1>3, <2>1, <3>2, <3>3 DEF Serving
  <2>4. CASE UNCHANGED list /\ Advance(1, "drop")
    <3>1. tpc'[1] # "unparent"
      BY <1>0, <2>4 DEF Advance
    <3>2. \A s \in Slots : Listed(s) => Listed(s)'
      BY <2>4 DEF Listed
    <3>. QED BY <1>3, <2>1, <3>1, <3>2 DEF Serving
  <2>. QED BY <1>4, <2>2, <2>3, <2>4 DEF DropCheck
<1>5. CASE DropUnparent(1)
  <2>1. /\ net' = [net EXCEPT ![Current(1)].parent = NoThread]
        /\ tpc[1] = "unparent" /\ Erase(1) /\ Goto(1, "drop")
    BY <1>5 DEF DropUnparent, At
  <2>2. tpc'[1] # "unparent"
    BY <1>0, <2>1 DEF Goto
  <2>3. \A s \in Slots : /\ net'[s].inUse = net[s].inUse
                         /\ s # Current(1) => net'[s].parent = net[s].parent
    BY <1>0, <1>2, <2>1 DEF SlotState
  <2>4. \A s \in Slots : Given(s)' => Given(s)
    BY <1>1, <2>3 DEF Given, mainVars
  <2>5. \A s \in Slots : Listed(s) /\ s # Current(1) => Listed(s)'
    BY <1>0, <1>2, <2>1, EraseLists
  <2>6. \A s \in Slots : Given(s) /\ s = Current(1) => Waits(s)
    BY <2>1 DEF Serving
  <2>. QED BY <1>3, <2>2, <2>3, <2>4, <2>5, <2>6 DEF Serving
<1>. QED BY <1>4, <1>5

\* Every step keeps the connections served.
LEMMA ServingNext == IInv /\ NThreads = 1 /\ Serving /\ [Next]_vars => Serving'
<1>. SUFFICES ASSUME IInv, NThreads = 1, Serving, [Next]_vars PROVE Serving'
  OBVIOUS
<1>0. TypeOK /\ AtWork /\ Threads = {1} /\ 1 \in Threads
  BY DEF IInv, Threads
<1>1. CASE Game \/ Main \/ \E s \in Slots : AsyncReady(s)
  BY <1>1, MainServes
<1>2. CASE Thread(1)
  <2>1. CASE CheckNew(1) \/ DropCheck(1) \/ DropUnparent(1)
    BY <2>1, CheckNewServes, DropServes
  <2>2. CASE ~CheckNew(1) /\ ~DropCheck(1) /\ ~DropUnparent(1)
    <3>1. PassEffect /\ tpc'[1] # "unparent"
      BY <1>0, <1>2, <2>2, PassLeavesLists
    <3>2. \A s \in Slots : net'[s].parent = net[s].parent /\ net'[s].inUse = net[s].inUse
      BY <1>0, <3>1 DEF PassEffect, Handle, Touch, Touched, TypeOK
    <3>3. \A s \in Slots : Given(s)' => Given(s)
      BY <3>1, <3>2 DEF PassEffect, ThreadEffect, Given, mainVars
    <3>. QED BY <1>0, <3>1, <3>2, <3>3, ServingFrame DEF PassEffect, ListsSame
  <2>. QED BY <2>1, <2>2
<1>3. CASE UNCHANGED vars
  BY <1>3 DEF vars, mainVars, threadVars, Serving, Given, Waits, Listed, Current
<1>. QED BY <1>0, <1>1, <1>2, <1>3 DEF Next

\* With one network thread, with a control flow of its own or run by the main
\* loop, every accepted connection is served: also when its slot is given
\* again while the thread still lists it for the connection before.  (With
\* two threads a slot may be given up by the thread it had before.)
THEOREM AllServed ==
    ASSUME NThreads = 1
    PROVE  Spec => []Served
<1>1. Init => Serving
  BY DEF Init, Serving, Given, Threads
<1>2. Serving => Served
  <2>1. 1 \in Threads
    BY DEF Threads
  <2>. QED BY <2>1 DEF Serving, Served, Given, Waits, Listed
<1>3. IInv /\ Serving /\ [Next]_vars => Serving'
  BY ServingNext
<1>. QED BY <1>1, <1>2, <1>3, IInvInit, IInvNext, PTL DEF Spec

-----------------------------------------------------------------------------
(* NetworkThreads=0: the main loop runs the only thread object. *)

\* The main loop waits for the routine it called, which returns before it
\* accepts a connection or clears a slot.
Alternate == tpc[1] # "idle" => mpc \in {"output", "tick", "game"}

\* Every step of a routine starts inside it.
LEMMA InsideRoutine ==
    ASSUME ~Threaded, Thread(1)
    PROVE  tpc[1] # "idle"
<1>1. CASE \/ ThreadTick(1) \/ CheckNew(1) \/ DropCheck(1) \/ DropUnparent(1) \/ DropDone(1)
           \/ Receive(1) \/ ReceiveFailed(1) \/ ReceiveDone(1)
           \/ InputCheck(1) \/ InputClient(1) \/ InputBody(1) \/ InputDone(1)
  BY <1>1 DEF ThreadTick, CheckNew, DropCheck, DropUnparent, DropDone, Receive, ReceiveFailed,
              ReceiveDone, InputCheck, InputClient, InputBody, InputDone, At
<1>2. CASE \/ FlushCheck(1) \/ FlushClient(1) \/ FlushBody(1) \/ FlushEnd(1)
           \/ MarkWrite(1) \/ FlushDone(1)
           \/ OutputCheck(1) \/ OutputClient(1) \/ OutputBody(1) \/ OutputDone(1)
           \/ QuotaCheck(1) \/ QuotaDone(1) \/ Write(1)
  BY <1>2 DEF FlushCheck, FlushClient, FlushBody, FlushEnd, MarkWrite, FlushDone, SendClient,
              OutputCheck, OutputClient, OutputBody, OutputDone, QuotaCheck, QuotaDone, Write, At
<1>. QED BY <1>1, <1>2 DEF Thread

\* The loop's own steps start when no routine runs.
LEMMA OutsideRoutine ==
    ASSUME ~Threaded, 1 \in Threads, Game \/ Main
    PROVE  tpc[1] = "idle"
  BY DEF Game, Main, GameQueue, GameKick, WorldTick, AcceptNone, AcceptSlot, InitClear, InitClient,
         InitOpenWrite, InitOpenRead, InitUse, AssignState, MainOutput,
         TickSkip, TickTimeout, TickFlush, TickClosing, ClearFlags, ClearClient, ClearQueues, MainRuns

\* A step of a routine leaves the main thread where it is.
LEMMA RoutineStep ==
    ASSUME IInv, NEW t \in Threads, Thread(t)
    PROVE  UNCHANGED mainVars /\ Touch
  BY ThreadKeeps

\* The two take turns.
LEMMA AlternateNext == IInv /\ ~Threaded /\ Alternate /\ [Next]_vars => Alternate'
<1>. SUFFICES ASSUME IInv, ~Threaded, Alternate, [Next]_vars PROVE Alternate'
  OBVIOUS
<1>0. 1 \in Threads /\ Threads = {1} /\ tpc \in [Threads -> ThreadPcs]
  BY ConstantsAssumption DEF IInv, TypeOK, Threads
<1>1. CASE Game
  BY <1>1 DEF Game, GameQueue, GameKick, mainVars, threadVars, Alternate
<1>2. CASE Main
  <2>0. tpc[1] = "idle"
    BY <1>0, <1>2, OutsideRoutine
  <2>1. CASE \/ AcceptSlot \/ InitClear \/ InitClient \/ InitOpen \/ ClearFlags \/ ClearClient
             \/ WorldTick
    BY <2>0, <2>1 DEF AcceptSlot, InitClear, InitClient, InitOpen, InitOpenWrite, InitOpenRead,
                      InitUse, ClearFlags, ClearClient, WorldTick, threadVars, Alternate
  <2>2. CASE AcceptNone \/ AssignState \/ MainOutput
    BY <2>2 DEF AcceptNone, AfterAccept, AssignState, MainOutput, Alternate
  <2>3. CASE TickSkip \/ TickTimeout \/ TickFlush \/ TickClosing \/ ClearQueues
    <3>1. NextSlot \/ ToClear
      BY <2>3 DEF TickSkip, TickTimeout, TickFlush, TickClosing, ClearQueues
    <3>. QED BY <2>0, <3>1 DEF NextSlot, ToClear, threadVars, Alternate
  <2>. QED BY <1>2, <2>1, <2>2, <2>3 DEF Main, InitOpen
<1>3. CASE Thread(1)
  BY <1>0, <1>3, InsideRoutine, RoutineStep DEF Alternate, mainVars
<1>4. CASE \E s \in Slots : AsyncReady(s)
  BY <1>4 DEF AsyncReady, mainVars, threadVars, Alternate
<1>5. CASE UNCHANGED vars
  BY <1>5 DEF vars, mainVars, threadVars, Alternate
<1>. QED BY <1>0, <1>1, <1>2, <1>3, <1>4, <1>5 DEF Next

\* Nobody closes the slot that init() opens.
Opened ==
    /\ mpc \in {"initRead", "initUse"} => ~net[mslot].writeClosed
    /\ mpc = "initUse" => ~net[mslot].readClosed

LEMMA OpenedNext == IInv /\ ~Threaded /\ Alternate /\ Opened /\ [Next]_vars => Opened'
<1>. SUFFICES ASSUME IInv, ~Threaded, Alternate, Opened, [Next]_vars, mpc' \in {"initRead", "initUse"}
              PROVE  Opened'
  BY DEF Opened
<1>0. /\ 1 \in Threads /\ Threads = {1} /\ mslot \in Slots /\ net \in [Slots -> SlotState]
      /\ net[mslot] \in SlotState
  BY ConstantsAssumption DEF IInv, TypeOK, Threads
<1>1. CASE Game
  BY <1>1 DEF Game, GameQueue, GameKick, MainRuns, mainVars
<1>2. CASE \/ WorldTick \/ AcceptNone \/ AcceptSlot \/ InitClear \/ InitClient
           \/ AssignState \/ MainOutput
  BY <1>2 DEF WorldTick, AcceptNone, AfterAccept, AcceptSlot, InitClear, InitClient, AssignState,
              MainOutput
<1>3. CASE TickSkip \/ TickTimeout \/ TickFlush \/ TickClosing \/ ClearQueues
  <2>1. NextSlot \/ ToClear
    BY <1>3 DEF TickSkip, TickTimeout, TickFlush, TickClosing, ClearQueues
  <2>. QED BY <2>1 DEF NextSlot, ToClear
<1>4. CASE ClearFlags \/ ClearClient
  BY <1>4 DEF ClearFlags, ClearClient
<1>5. CASE InitOpenWrite
  BY <1>0, <1>5 DEF InitOpenWrite, Opened, SlotState
<1>6. CASE InitOpenRead
  BY <1>0, <1>6 DEF InitOpenRead, MainRuns, Opened, SlotState
<1>7. CASE InitUse
  BY <1>7 DEF InitUse
<1>8. CASE Thread(1)
  BY <1>0, <1>8, InsideRoutine, RoutineStep DEF Alternate, mainVars
<1>9. CASE \E s \in Slots : AsyncReady(s)
  BY <1>0, <1>9 DEF AsyncReady, mainVars, Opened, SlotState
<1>10. CASE UNCHANGED vars
  BY <1>10 DEF vars, mainVars, Opened
<1>. QED BY <1>0, <1>1, <1>2, <1>3, <1>4, <1>5, <1>6, <1>7, <1>8, <1>9, <1>10 DEF Next, Main

-----------------------------------------------------------------------------
(* What is waiting for a client when its slot is cleared. *)

\* What a client that is kicked still gets.
LastWords == {"hi", "async", "bytes"}

\* A slot in use has a client, and nothing waits for it once it is closed for
\* writing: clear() itself is the exception.  A slot found ready to be closed
\* for writing still is when it is closed.
Finishing ==
    /\ Alternate /\ Opened
    /\ \A s \in Slots : net[s].inUse /\ ~(mpc = "clearQueues" /\ mslot = s) =>
           net[s].client # NoClient
    /\ \A s \in Slots : /\ net[s].inUse /\ net[s].writeClosed
                        /\ ~(mpc \in {"clearClient", "clearQueues"} /\ mslot = s)
                        => net[s].out \cap LastWords = {}
    /\ tpc[1] = "markWrite" => Closing(Current(1)) /\ ~Pending(Current(1))
    /\ mpc = "clear" => net[mslot].unknown \/ net[mslot].writeClosed

\* A step closes a slot for writing when nothing waits for it, or the data
\* are given up because the socket failed.
ClosesClean ==
    \A s \in Slots : net[s].inUse /\ net'[s].writeClosed /\ ~net[s].writeClosed =>
        net'[s].out \cap LastWords = {}

\* A change that closes a slot for writing empties its queues, unless the slot
\* is not in use.
LEMMA DoesClean ==
    ASSUME ~Threaded, NEW t \in Threads, NEW n \in [Slots -> SlotState], NEW c \in Changes,
           Does(t, n, c), \A r \in Slots : n[r].writeClosed = net[r].writeClosed,
           c.write => (c.wipe /\ c.add = {}) \/ ~net[c.slot].inUse
    PROVE  ClosesClean
<1>1. net' = Changed(n, c)
  BY DEF Does
<1>2. /\ \A r \in Slots : r # c.slot => net'[r].writeClosed = net[r].writeClosed
      /\ net'[c.slot].writeClosed = (net[c.slot].writeClosed \/ c.write)
      /\ net'[c.slot].out = (IF c.wipe THEN {} ELSE n[c.slot].out) \cup c.add
  <2>1. c.slot \in Slots
    BY DEF Changes
  <2>2. /\ \A r \in Slots : c.slot # r => Changed(n, c)[r] = n[r]
        /\ Changed(n, c)[c.slot].writeClosed = (n[c.slot].writeClosed \/ c.write)
        /\ Changed(n, c)[c.slot].out = (IF c.wipe THEN {} ELSE n[c.slot].out) \cup c.add
    BY <2>1, ChangedSlots
  <2>. QED BY <1>1, <2>1, <2>2
<1>. QED BY <1>2 DEF ClosesClean

\* Sending leaves the flag alone; a failure to send empties the queues.
LEMMA SentClean ==
    ASSUME TypeOK, ~Threaded, NEW t \in Threads, NEW s \in Slots, NEW ks, NEW fl \in BOOLEAN,
           Sent(t, s, ks, fl) \/ SendFailed(t, s, ks, fl)
    PROVE  ClosesClean
<1>0. net \in [Slots -> SlotState] /\ net[s] \in SlotState
  BY DEF TypeOK
<1>1. CASE Sent(t, s, ks, fl)
  <2>1. PICK q \in AfterSend(s, ks) :
            Does(t, [net EXCEPT ![s].out = @ \cap q],
                    [NoChange(s) EXCEPT !.add = q \cap {"async", "bytes"}, !.flush = fl])
    BY <1>1 DEF Sent
  <2>. DEFINE n == [net EXCEPT ![s].out = @ \cap q]
              c == [NoChange(s) EXCEPT !.add = q \cap {"async", "bytes"}, !.flush = fl]
  <2>2. q \in SUBSET Kinds
    BY <2>1 DEF AfterSend
  <2>3. c \in Changes /\ ~c.write
    BY <2>2 DEF Changes, NoChange
  <2>4. n \in [Slots -> SlotState] /\ \A r \in Slots : n[r].writeClosed = net[r].writeClosed
    BY <1>0, <2>2 DEF SlotState
  <2>5. Does(t, n, c)
    BY <2>1
  <2>. HIDE DEF n, c
  <2>. QED BY <2>3, <2>4, <2>5, DoesClean
<1>2. CASE SendFailed(t, s, ks, fl)
  <2>. DEFINE c == [NoChange(s) EXCEPT !.wipe = TRUE, !.write = TRUE, !.flush = fl]
  <2>1. c \in Changes /\ c.wipe /\ c.add = {}
    BY DEF Changes, NoChange
  <2>2. Does(t, net, c)
    BY <1>2 DEF SendFailed
  <2>. HIDE DEF c
  <2>. QED BY <1>0, <2>1, <2>2, DoesClean
<1>. QED BY <1>1, <1>2

\* What packets do closes no slot for writing.
LEMMA InputClean ==
    ASSUME TypeOK, ~Threaded, NEW t \in Threads, Current(t) \in Slots, InputBody(t)
    PROVE  ClosesClean
<1>. DEFINE s == Current(t)
<1>0. net \in [Slots -> SlotState] /\ net[s] \in SlotState
  BY DEF TypeOK
<1>1. ASSUME NEW c \in Changes, ~c.write, Does(t, net, c)
      PROVE  ClosesClean
  BY <1>0, <1>1, DoesClean
<1>2. ASSUME NEW r \in Slots
      PROVE  /\ NoChange(r) \in Changes /\ ~NoChange(r).write
             /\ [NoChange(r) EXCEPT !.read = TRUE] \in Changes
             /\ ~[NoChange(r) EXCEPT !.read = TRUE].write
             /\ [NoChange(r) EXCEPT !.add = {"lo"}] \in Changes
             /\ ~[NoChange(r) EXCEPT !.add = {"lo"}].write
             /\ [NoChange(r) EXCEPT !.add = {"hi"}, !.read = TRUE] \in Changes
             /\ ~[NoChange(r) EXCEPT !.add = {"hi"}, !.read = TRUE].write
  BY DEF NoChange, Changes, Kinds
<1>3. ASSUME Does(t, [net EXCEPT ![s].unknown = FALSE], NoChange(s))
      PROVE  ClosesClean
  <2>. DEFINE n == [net EXCEPT ![s].unknown = FALSE]
  <2>1. n \in [Slots -> SlotState] /\ \A r \in Slots : n[r].writeClosed = net[r].writeClosed
    BY <1>0 DEF SlotState
  <2>2. Does(t, n, NoChange(s))
    BY <1>3
  <2>. HIDE DEF n
  <2>. QED BY <1>2, <2>1, <2>2, DoesClean
<1>. QED BY <1>1, <1>2, <1>3 DEF InputBody

\* The steps that leave the flag alone.
LEMMA OpenClean ==
    ASSUME TypeOK,
           \/ Game \/ WorldTick \/ AcceptNone \/ AssignState \/ MainOutput
           \/ TickSkip \/ TickTimeout \/ TickClosing
           \/ \E s \in Slots : AsyncReady(s)
    PROVE  ClosesClean
<1>. SUFFICES \A s \in Slots : net'[s].writeClosed = net[s].writeClosed
  BY DEF ClosesClean
<1>0. net \in [Slots -> SlotState] /\ mslot \in Slots
  BY DEF TypeOK
<1>1. CASE Game
  <2>1. ASSUME NEW s \in Slots, NEW k, GameQueue(s, k)
        PROVE  \A r \in Slots : net'[r].writeClosed = net[r].writeClosed
    BY <1>0, <2>1 DEF GameQueue, SlotState
  <2>2. ASSUME NEW s \in Slots, NEW ks, GameKick(s, ks)
        PROVE  \A r \in Slots : net'[r].writeClosed = net[r].writeClosed
    <3>1. net' = [net EXCEPT ![s] = [net[s] EXCEPT !.out = @ \cup ks, !.readClosed = TRUE]]
      BY <2>2 DEF GameKick
    <3>. QED BY <1>0, <3>1 DEF SlotState
  <2>. QED BY <1>1, <2>1, <2>2 DEF Game
<1>2. CASE \E s \in Slots : AsyncReady(s)
  BY <1>0, <1>2 DEF AsyncReady, SlotState
<1>3. CASE TickClosing
  BY <1>0, <1>3 DEF TickClosing, SlotState
<1>4. CASE \/ WorldTick \/ AcceptNone \/ AssignState \/ MainOutput \/ TickSkip \/ TickTimeout
  BY <1>4 DEF WorldTick, AcceptNone, AssignState, MainOutput, TickSkip, TickTimeout
<1>. QED BY <1>1, <1>2, <1>3, <1>4

\* The steps of a routine: MarkWrite closes a slot that had nothing to send
\* when that was tested, and QuotaCheck one that has no client.
LEMMA RoutineClean ==
    ASSUME IInv, ~Threaded, Finishing, Thread(1), 1 \in Threads
    PROVE  ClosesClean
<1>0. /\ TypeOK /\ ThreadOK /\ net \in [Slots -> SlotState]
      /\ mpc \in {"output", "tick", "game"}
  BY InsideRoutine DEF IInv, TypeOK, ThreadOK, Finishing, Alternate
<1>1. CASE \/ CheckNew(1) \/ DropCheck(1) \/ DropUnparent(1)
  <2>1. \A s \in Slots : net'[s].writeClosed = net[s].writeClosed
    <3>1. CASE CheckNew(1)
      BY <1>0, <3>1 DEF CheckNew, SlotState
    <3>2. CASE DropCheck(1) \/ DropUnparent(1)
      BY <1>0, <3>2 DEF DropCheck, DropUnparent, SlotState
    <3>. QED BY <1>1, <3>1, <3>2
  <2>. QED BY <2>1 DEF ClosesClean
<1>2. CASE \/ ThreadTick(1) \/ DropDone(1) \/ Receive(1) \/ ReceiveDone(1)
           \/ InputCheck(1) \/ InputClient(1) \/ InputDone(1)
           \/ FlushCheck(1) \/ FlushClient(1) \/ FlushEnd(1) \/ FlushDone(1)
           \/ OutputCheck(1) \/ OutputClient(1) \/ OutputDone(1) \/ QuotaDone(1)
  <2>1. UNCHANGED net
    BY <1>2 DEF ThreadTick, DropDone, Receive, ReceiveDone, InputCheck, InputClient, InputDone,
                FlushCheck, FlushClient, FlushEnd, FlushDone, OutputCheck, OutputClient, OutputDone,
                QuotaDone, SendClient
  <2>. QED BY <2>1 DEF ClosesClean
<1>3. CASE ReceiveFailed(1)
  <2>1. \A s \in Slots : net'[s].writeClosed = net[s].writeClosed
    BY <1>0, <1>3 DEF ReceiveFailed, SlotState
  <2>. QED BY <2>1 DEF ClosesClean
<1>4. CASE InputBody(1) \/ FlushBody(1) \/ OutputBody(1)
  <2>1. Current(1) \in Slots
    BY <1>0, <1>4, CurrentSlot DEF InputBody, FlushBody, OutputBody, At, WorkPcs
  <2>2. CASE InputBody(1)
    BY <1>0, <2>1, <2>2, InputClean
  <2>3. CASE ~InputBody(1) /\ net[Current(1)].writeClosed
    <3>1. PICK c \in Changes : Does(1, net, c) /\ ~c.write
      <4>1. /\ NoChange(Current(1)) \in Changes /\ ~NoChange(Current(1)).write
            /\ [NoChange(Current(1)) EXCEPT !.flush = TRUE] \in Changes
            /\ ~[NoChange(Current(1)) EXCEPT !.flush = TRUE].write
        BY <2>1 DEF Changes, NoChange
      <4>2. \/ Does(1, net, NoChange(Current(1)))
            \/ Does(1, net, [NoChange(Current(1)) EXCEPT !.flush = TRUE])
        BY <1>4, <2>3 DEF FlushBody, OutputBody
      <4>. QED BY <4>1, <4>2
    <3>. QED BY <1>0, <3>1, DoesClean
  <2>4. CASE ~InputBody(1) /\ ~net[Current(1)].writeClosed
    <3>1. \E ks : \E fl \in BOOLEAN :
              Sent(1, Current(1), ks, fl) \/ SendFailed(1, Current(1), ks, fl)
      <4>1. CASE FlushBody(1)
        BY <2>4, <4>1 DEF FlushBody
      <4>2. CASE OutputBody(1)
        BY <2>4, <4>2 DEF OutputBody
      <4>. QED BY <1>4, <2>4, <4>1, <4>2
    <3>. QED BY <1>0, <2>1, <3>1, SentClean
  <2>. QED BY <2>2, <2>3, <2>4
<1>5. CASE MarkWrite(1)
  <2>1. /\ Current(1) \in Slots /\ tpc[1] = "markWrite"
        /\ net' = [net EXCEPT ![Current(1)].writeClosed = TRUE]
    BY <1>0, <1>5, CurrentSlot DEF MarkWrite, At, WorkPcs
  <2>2. /\ \A s \in Slots \ {Current(1)} : net'[s].writeClosed = net[s].writeClosed
        /\ net'[Current(1)].out = net[Current(1)].out
    BY <1>0, <2>1 DEF SlotState
  <2>3. net[Current(1)].inUse /\ ~net[Current(1)].writeClosed => net[Current(1)].out \cap LastWords = {}
    BY <2>1 DEF Finishing, Pending, LastWords
  <2>. QED BY <2>2, <2>3 DEF ClosesClean
<1>6. CASE QuotaCheck(1)
  <2>1. Current(1) \in Slots
    BY <1>0, <1>6, CurrentSlot DEF QuotaCheck
  <2>2. PICK c \in Changes : Does(1, net, c) /\ (c.write => ~net[c.slot].inUse)
    <3>1. CASE Does(1, net, NoChange(Current(1)))
      <4>1. NoChange(Current(1)) \in Changes /\ ~NoChange(Current(1)).write
        BY <2>1 DEF Changes, NoChange
      <4>. QED BY <3>1, <4>1
    <3>2. ASSUME NEW ks \in SUBSET {"hi"},
                 Does(1, net, [NoChange(Current(1)) EXCEPT !.add = ks, !.read = TRUE])
          PROVE  \E c \in Changes : Does(1, net, c) /\ ~c.write
      <4>1. /\ [NoChange(Current(1)) EXCEPT !.add = ks, !.read = TRUE] \in Changes
            /\ ~[NoChange(Current(1)) EXCEPT !.add = ks, !.read = TRUE].write
        BY <2>1 DEF Changes, NoChange, Kinds
      <4>. QED BY <3>2, <4>1
    <3>3. ASSUME net[Current(1)].client = NoClient,
                 Does(1, net, [NoChange(Current(1)) EXCEPT !.read = TRUE, !.write = TRUE])
          PROVE  \E c \in Changes : Does(1, net, c) /\ ~net[c.slot].inUse
      <4>1. ~net[Current(1)].inUse
        BY <1>0, <2>1, <3>3 DEF Finishing
      <4>2. /\ [NoChange(Current(1)) EXCEPT !.read = TRUE, !.write = TRUE] \in Changes
            /\ [NoChange(Current(1)) EXCEPT !.read = TRUE, !.write = TRUE].slot = Current(1)
        BY <2>1 DEF Changes, NoChange
      <4>. QED BY <3>3, <4>1, <4>2
    <3>. QED BY <1>6, <3>1, <3>2, <3>3 DEF QuotaCheck
  <2>. QED BY <1>0, <2>2, DoesClean
<1>7. CASE Write(1)
  BY <1>0, <1>7, WriteHandles
<1>. QED BY <1>1, <1>2, <1>3, <1>4, <1>5, <1>6, <1>7 DEF Thread

\* Touched slots keep all of it but the last two lines.
LEMMA TouchFinishes ==
    ASSUME TypeOK, ~Threaded, Finishing, Touch, ClosesClean, QuietWay
    PROVE  /\ \A s \in Slots : net'[s].inUse /\ ~(mpc' = "clearQueues" /\ mslot' = s) =>
                  net'[s].client # NoClient
           /\ \A s \in Slots : /\ net'[s].inUse /\ net'[s].writeClosed
                               /\ ~(mpc' \in {"clearClient", "clearQueues"} /\ mslot' = s)
                               => net'[s].out \cap LastWords = {}
<1>1. \A s \in Slots : Touched(net[s], net'[s])
  BY DEF Touch, TypeOK, Touched
<1>2. \A s \in Slots : /\ mpc' = "clearQueues" /\ mslot' = s <=> mpc = "clearQueues" /\ mslot = s
                       /\ mpc' \in {"clearClient", "clearQueues"} /\ mslot' = s
                          <=> mpc \in {"clearClient", "clearQueues"} /\ mslot = s
  BY DEF QuietWay, QuietPcs, mainVars
<1>3. ASSUME NEW s \in Slots, net'[s].inUse, ~(mpc' = "clearQueues" /\ mslot' = s)
      PROVE  net'[s].client # NoClient
  BY <1>1, <1>2, <1>3 DEF Finishing, Touched
<1>4. ASSUME NEW s \in Slots, net'[s].inUse, net'[s].writeClosed,
             ~(mpc' \in {"clearClient", "clearQueues"} /\ mslot' = s)
      PROVE  net'[s].out \cap LastWords = {}
  <2>1. CASE net[s].writeClosed
    BY <1>1, <1>2, <1>4, <2>1 DEF Finishing, Touched
  <2>2. CASE ~net[s].writeClosed
    BY <1>1, <1>4, <2>2 DEF ClosesClean, Touched
  <2>. QED BY <2>1, <2>2
<1>. QED BY <1>3, <1>4

\* The main loop's steps between slots: TickTimeout and TickClosing lead to
\* clear() for a client of unknown type, or one closed for writing.
LEMMA QuietFinishes ==
    ASSUME IInv, ~Threaded, Finishing, 1 \in Threads,
           \/ Game \/ WorldTick \/ AcceptNone \/ AssignState \/ MainOutput
           \/ TickSkip \/ TickTimeout \/ TickFlush \/ TickClosing
           \/ \E s \in Slots : AsyncReady(s)
    PROVE  Finishing'
<1>0. TypeOK /\ AtWork /\ mslot \in Slots /\ net \in [Slots -> SlotState] /\ tpc \in [Threads -> ThreadPcs]
  BY DEF IInv, TypeOK
<1>1. Handle /\ QuietWay /\ Touch
  BY QuietStep DEF Handle
<1>2. Alternate' /\ Opened'
  BY AlternateNext, OpenedNext DEF Finishing, Next, Main
<1>3. ClosesClean
  <2>1. CASE TickFlush
    <3>1. CASE UNCHANGED net
      BY <3>1 DEF ClosesClean
    <3>2. CASE ~UNCHANGED net
      <4>1. Sent(1, mslot, {"hi", "lo"}, TRUE) \/ SendFailed(1, mslot, {"hi", "lo"}, TRUE)
        BY <2>1, <3>2 DEF TickFlush
      <4>. QED BY <1>0, <4>1, SentClean
    <3>. QED BY <3>1, <3>2
  <2>. QED BY <1>0, <2>1, OpenClean
<1>4. CASE \E s \in Slots : AsyncReady(s)
  <2>1. PICK s \in Slots : net' = [net EXCEPT ![s].sending = FALSE]
    BY <1>4 DEF AsyncReady
  <2>2. UNCHANGED <<mainVars, list, tpc, tpos>>
    BY <1>4 DEF AsyncReady, threadVars
  <2>3. \A r \in Slots : /\ net'[r].readClosed = net[r].readClosed
                         /\ net'[r].writeClosed = net[r].writeClosed
                         /\ net'[r].unknown = net[r].unknown
                         /\ net'[r].inUse = net[r].inUse /\ net'[r].out = net[r].out
    BY <1>0, <2>1 DEF SlotState
  <2>4. ASSUME tpc'[1] = "markWrite" PROVE (Closing(Current(1)) /\ ~Pending(Current(1)))'
    <3>1. tpc[1] = "markWrite" /\ Current(1)' = Current(1) /\ Current(1) \in Slots
      BY <1>0, <2>2, <2>4, CurrentSlot DEF Current, ThreadOK, TypeOK, WorkPcs
    <3>2. Closing(Current(1)) /\ ~Pending(Current(1))
      BY <3>1 DEF Finishing
    <3>. QED BY <2>3, <3>1, <3>2 DEF Closing, Pending
  <2>5. mpc' = "clear" => net'[mslot'].unknown \/ net'[mslot'].writeClosed
    BY <1>0, <2>2, <2>3 DEF Finishing, mainVars
  <2>. QED BY <1>0, <1>1, <1>2, <1>3, <2>4, <2>5, TouchFinishes DEF Finishing
<1>5. CASE ~\E s \in Slots : AsyncReady(s)
  <2>1. tpc'[1] # "markWrite"
    <3>1. CASE AssignState
      BY <1>0, <3>1, OutsideRoutine DEF AssignState, Main
    <3>2. CASE ~AssignState
      BY <1>0, <1>5, <3>2, OutsideRoutine, MainLeavesThread DEF Main
    <3>. QED BY <3>1, <3>2
  <2>2. ASSUME mpc' = "clear" PROVE net'[mslot'].unknown \/ net'[mslot'].writeClosed
    <3>1. CASE TickTimeout
      BY <3>1 DEF TickTimeout, ToClear
    <3>2. CASE TickClosing
      <4>1. /\ net' = [net EXCEPT ![mslot].readClosed = TRUE] /\ mslot' = mslot
            /\ net[mslot].writeClosed
        BY <2>2, <3>2 DEF TickClosing, ToClear, NextSlot
      <4>. QED BY <1>0, <4>1 DEF SlotState
    <3>3. CASE Game
      <4>1. UNCHANGED mainVars /\ mpc = "game"
        BY <3>3 DEF Game, GameQueue, GameKick, MainRuns
      <4>. QED BY <2>2, <4>1 DEF mainVars
    <3>4. CASE WorldTick \/ AcceptNone \/ AssignState \/ MainOutput \/ TickSkip \/ TickFlush
      BY <2>2, <3>4 DEF WorldTick, AcceptNone, AfterAccept, AssignState, MainOutput, TickSkip,
                        TickFlush, NextSlot
    <3>. QED BY <1>5, <3>1, <3>2, <3>3, <3>4
  <2>. QED BY <1>0, <1>1, <1>2, <1>3, <2>1, <2>2, TouchFinishes DEF Finishing
<1>. QED BY <1>4, <1>5

\* A routine's steps: FlushEnd is the test that leads to MarkWrite.
LEMMA RoutineFinishes ==
    ASSUME IInv, ~Threaded, Finishing, Thread(1), 1 \in Threads
    PROVE  Finishing'
<1>0. TypeOK /\ AtWork /\ ThreadOK /\ tpc \in [Threads -> ThreadPcs]
  BY DEF IInv, TypeOK, ThreadOK
<1>1. UNCHANGED mainVars /\ Touch /\ QuietWay
  BY RoutineStep DEF QuietWay
<1>2. Alternate' /\ Opened' /\ mpc # "clear"
  BY AlternateNext, OpenedNext, InsideRoutine DEF Finishing, Next, Alternate
<1>3. ClosesClean
  BY RoutineClean
<1>4. ASSUME tpc'[1] = "markWrite" PROVE (Closing(Current(1)) /\ ~Pending(Current(1)))'
  <2>1. ~CheckNew(1) /\ ~DropCheck(1) /\ ~DropUnparent(1)
    BY <1>0, <1>4 DEF CheckNew, DropCheck, DropUnparent, Pass, Goto, Advance
  <2>2. FlushEnd(1)
    BY <1>0, <1>4, <2>1, PassLeavesLists
  <2>3. Closing(Current(1)) /\ ~Pending(Current(1)) /\ Goto(1, "markWrite")
    BY <1>0, <1>4, <2>2 DEF FlushEnd, Advance
  <2>4. UNCHANGED <<net, list, tpos>>
    BY <2>2, <2>3 DEF FlushEnd, ListsSame, Goto
  <2>. QED BY <2>3, <2>4 DEF Closing, Pending, Current
<1>. QED BY <1>0, <1>1, <1>2, <1>3, <1>4, TouchFinishes DEF Finishing, mainVars

\* init() and clear(): InitUse puts a slot into use that has its client and is
\* open, and clear() takes the client away before the slot is free.
LEMMA SlotStepFinishes ==
    ASSUME IInv, ~Threaded, Finishing, 1 \in Threads,
           \/ AcceptSlot \/ InitClear \/ InitClient \/ InitOpen
           \/ ClearFlags \/ ClearClient \/ ClearQueues
    PROVE  Finishing'
<1>0. /\ TypeOK /\ mslot \in Slots /\ net \in [Slots -> SlotState] /\ net[mslot] \in SlotState
      /\ Progress /\ tpc \in [Threads -> ThreadPcs]
  BY DEF IInv, MainInv, TypeOK
<1>1. Alternate' /\ Opened' /\ tpc[1] = "idle"
  BY AlternateNext, OpenedNext, OutsideRoutine DEF Finishing, Next, Main, InitOpen
<1>2. tpc'[1] # "markWrite"
  BY <1>0, <1>1, MainLeavesThread
<1>3. mpc' # "clear"
  BY DEF AcceptSlot, InitClear, InitClient, InitOpen, InitOpenWrite, InitOpenRead, InitUse,
         ClearFlags, ClearClient, ClearQueues, NextSlot
<1>4. ASSUME NEW r, net' = [net EXCEPT ![mslot] = r],
             mpc \notin {"clearClient", "clearQueues"} \/ mslot' = mslot \/ ~r.inUse,
             mpc' = "clearQueues" => mslot' = mslot,
             mpc' # "clearQueues" /\ r.inUse => r.client # NoClient,
             mpc' \notin {"clearClient", "clearQueues"} /\ r.inUse /\ r.writeClosed =>
                 r.out \cap LastWords = {},
             mpc' \in {"clearClient", "clearQueues"} => mslot' = mslot
      PROVE  Finishing'
  <2>1. \A s \in Slots : net'[s] = IF s = mslot THEN r ELSE net[s]
    BY <1>0, <1>4
  <2>2. ASSUME NEW s \in Slots, net'[s].inUse, ~(mpc' = "clearQueues" /\ mslot' = s)
        PROVE  net'[s].client # NoClient
    BY <1>4, <2>1, <2>2 DEF Finishing
  <2>3. ASSUME NEW s \in Slots, net'[s].inUse, net'[s].writeClosed,
               ~(mpc' \in {"clearClient", "clearQueues"} /\ mslot' = s)
        PROVE  net'[s].out \cap LastWords = {}
    BY <1>4, <2>1, <2>3 DEF Finishing
  <2>. QED BY <1>1, <1>2, <1>3, <2>2, <2>3 DEF Finishing
<1>. USE DEF Progress, MainRuns
<1>5. CASE AcceptSlot
  <2>1. UNCHANGED net /\ mpc = "accept" /\ mpc' = "initClear"
    BY <1>5 DEF AcceptSlot
  <2>. QED BY <1>1, <1>2, <1>3, <2>1 DEF Finishing
<1>6. CASE InitClear
  <2>. DEFINE r == [net[mslot] EXCEPT !.readClosed = TRUE, !.writeClosed = TRUE, !.needsFlush = FALSE,
                                      !.out = {}, !.sending = FALSE]
  <2>1. net' = [net EXCEPT ![mslot] = r] /\ mpc = "initClear" /\ mpc' = "initClient" /\ ~net[mslot].inUse
    BY <1>0, <1>6 DEF InitClear
  <2>2. ~r.inUse
    BY <1>0, <2>1 DEF SlotState
  <2>. HIDE DEF r
  <2>. QED BY <1>4, <2>1, <2>2
<1>7. CASE InitClient
  <2>. DEFINE r == [net[mslot] EXCEPT !.client = nconn + 1, !.unknown = TRUE, !.sending = UseAsync]
  <2>0. nconn' = nconn + 1 /\ mpc = "initClient" /\ mpc' = "initWrite"
    BY <1>7 DEF InitClient
  <2>1. net' = [net EXCEPT ![mslot] = r] /\ ~net[mslot].inUse
    BY <1>0, <1>7, <2>0 DEF InitClient
  <2>2. ~r.inUse
    BY <1>0, <2>1 DEF SlotState
  <2>. HIDE DEF r
  <2>. QED BY <1>4, <2>0, <2>1, <2>2
<1>8. CASE InitOpen
  <2>1. CASE InitOpenWrite \/ InitOpenRead
    <3>1. PICK r \in SlotState : net' = [net EXCEPT ![mslot] = r] /\ ~r.inUse
      <4>1. /\ [net[mslot] EXCEPT !.writeClosed = FALSE] \in SlotState
            /\ [net[mslot] EXCEPT !.readClosed = FALSE] \in SlotState
            /\ ~[net[mslot] EXCEPT !.writeClosed = FALSE].inUse
            /\ ~[net[mslot] EXCEPT !.readClosed = FALSE].inUse
        BY <1>0, <2>1 DEF InitOpenWrite, InitOpenRead, SlotState, OpeningPcs
      <4>. QED BY <2>1, <4>1 DEF InitOpenWrite, InitOpenRead
    <3>2. mpc \in {"initWrite", "initRead"} /\ mpc' \in {"initRead", "initUse"}
      BY <2>1 DEF InitOpenWrite, InitOpenRead
    <3>. QED BY <1>4, <3>1, <3>2
  <2>2. CASE InitUse
    <3>. DEFINE r == [net[mslot] EXCEPT !.inUse = TRUE]
    <3>1. /\ net' = [net EXCEPT ![mslot] = r] /\ mpc = "initUse" /\ mpc' = "assign"
          /\ net[mslot].client # NoClient /\ ~net[mslot].writeClosed
      BY <1>0, <2>2 DEF InitUse, NoClient, OpeningPcs, Finishing, Opened
    <3>2. r.client # NoClient /\ ~r.writeClosed
      BY <1>0, <3>1 DEF SlotState
    <3>. HIDE DEF r
    <3>. QED BY <1>4, <3>1, <3>2
  <2>. QED BY <1>8, <2>1, <2>2 DEF InitOpen
<1>9. CASE ClearFlags
  <2>. DEFINE r == [net[mslot] EXCEPT !.readClosed = TRUE, !.writeClosed = TRUE, !.needsFlush = FALSE]
  <2>1. /\ net' = [net EXCEPT ![mslot] = r] /\ mpc = "clear" /\ mpc' = "clearClient" /\ mslot' = mslot
        /\ net[mslot].inUse
    BY <1>0, <1>9 DEF ClearFlags
  <2>2. r.client = net[mslot].client /\ net[mslot].client # NoClient
    BY <1>0, <2>1 DEF SlotState, Finishing
  <2>. HIDE DEF r
  <2>. QED BY <1>4, <2>1, <2>2
<1>10. CASE ClearClient
  <2>. DEFINE r == [net[mslot] EXCEPT !.client = NoClient]
  <2>1. net' = [net EXCEPT ![mslot] = r] /\ mpc' = "clearQueues" /\ mslot' = mslot
    BY <1>0, <1>10 DEF ClearClient
  <2>. HIDE DEF r
  <2>. QED BY <1>4, <2>1
<1>11. CASE ClearQueues
  <2>. DEFINE r == [net[mslot] EXCEPT !.out = {}, !.sending = FALSE, !.unknown = FALSE, !.inUse = FALSE]
  <2>1. net' = [net EXCEPT ![mslot] = r] /\ mpc' \in {"tick", "game"}
    BY <1>0, <1>11 DEF ClearQueues, NextSlot
  <2>2. ~r.inUse
    BY <1>0 DEF SlotState
  <2>. HIDE DEF r
  <2>. QED BY <1>4, <2>1, <2>2
<1>. QED BY <1>5, <1>6, <1>7, <1>8, <1>9, <1>10, <1>11

\* Every step keeps it.
LEMMA FinishingNext == IInv /\ ~Threaded /\ Finishing /\ [Next]_vars => Finishing'
<1>. SUFFICES ASSUME IInv, ~Threaded, Finishing, [Next]_vars PROVE Finishing'
  OBVIOUS
<1>0. 1 \in Threads /\ Threads = {1}
  BY ConstantsAssumption DEF Threads
<1>1. CASE Game \/ Main \/ \E s \in Slots : AsyncReady(s)
  BY <1>0, <1>1, QuietFinishes, SlotStepFinishes DEF Main, InitOpen
<1>2. CASE Thread(1)
  BY <1>0, <1>2, RoutineFinishes
<1>3. CASE UNCHANGED vars
  BY <1>3 DEF vars, mainVars, threadVars, Finishing, Alternate, Opened, Closing, Pending, Current
<1>. QED BY <1>0, <1>1, <1>2, <1>3 DEF Next

\* With NetworkThreads=0 no client past the handshake is cleared while a login
\* error, a kick or bytes under way wait for its socket: what was queued
\* before the test for pending data is sent, or the socket failed.
THEOREM DisconnectDataGoesOut ==
    ASSUME ~Threaded
    PROVE  Spec => []DisconnectDataSent
<1>1. Init => Finishing
  BY ConstantsAssumption DEF Init, Finishing, Alternate, Opened, Threads
<1>2. IInv /\ Finishing => DisconnectDataSent
  <2>1. IInv => mslot \in Slots /\ (mpc = "clear" => net[mslot].inUse)
    BY DEF IInv, TypeOK, MainInv, Progress
  <2>. QED BY <2>1 DEF Finishing, DisconnectDataSent, LastWords
<1>3. IInv /\ Finishing /\ [Next]_vars => Finishing'
  BY FinishingNext
<1>. QED BY <1>1, <1>2, <1>3, IInvInit, IInvNext, PTL DEF Spec

-----------------------------------------------------------------------------
(* No slot is listed twice. *)

InitPcs == {"initClear", "initClient", "initWrite", "initRead", "initUse", "assign"}
TickPcs == {"tick", "clear", "clearClient", "clearQueues"}
DropPcs == {"new", "drop", "unparent"}

InUseAt(i) == net[list[1][i]].inUse

\* A slot waits for the thread from the round it was accepted in to the end
\* of that round; the thread's list has the slots that are in use, but for
\* those cleared since tick() began, which the thread then gives up.
Listing ==
    /\ Alternate
    /\ \A i, j \in DOMAIN list[1] : list[1][i] = list[1][j] => i = j
    /\ assigned[1] # <<>> => Len(assigned[1]) = 1 /\ ~Listed(assigned[1][1])
    /\ mpc \in InitPcs \cup {"accept"} \/ (mpc = "game" /\ tpc[1] # "new") => assigned[1] = <<>>
    /\ mpc \in InitPcs => ~Listed(mslot)
    /\ tpc[1] \in DropPcs => mpc = "game"
    /\ mpc \notin TickPcs /\ tpc[1] \notin DropPcs => \A i \in DOMAIN list[1] : InUseAt(i)
    /\ tpc[1] \in {"drop", "unparent"} => \A i \in DOMAIN list[1] : i < tpos[1] => InUseAt(i)

\* The steps that leave the lists alone.
LEMMA ListingFrame ==
    ASSUME TypeOK, 1 \in Threads, Listing, Alternate', UNCHANGED <<list, assigned>>,
           \/ \A s \in Slots : net[s].inUse => net'[s].inUse
           \/ mpc' \in TickPcs \/ tpc'[1] = "new",
           mpc' \in InitPcs \cup {"accept"} \/ (mpc' = "game" /\ tpc'[1] # "new") =>
               mpc \in InitPcs \cup {"accept"} \/ (mpc = "game" /\ tpc[1] # "new"),
           mpc' \in InitPcs => \/ mpc \in InitPcs /\ mslot' = mslot
                               \/ mpc = "accept" /\ tpc[1] = "idle" /\ ~net[mslot'].inUse,
           tpc'[1] \in DropPcs => mpc' = "game",
           mpc' \notin TickPcs /\ tpc'[1] \notin DropPcs =>
               \/ mpc \notin TickPcs /\ tpc[1] \notin DropPcs
               \/ \A i \in DOMAIN list[1] : InUseAt(i),
           tpc'[1] \notin {"drop", "unparent"}
    PROVE  Listing'
<1>1. \A i \in DOMAIN list[1] : list[1][i] \in Slots
  BY DEF TypeOK
<1>2. \A s : Listed(s)' <=> Listed(s)
  BY DEF Listed
<1>3. ASSUME mpc' \notin TickPcs, tpc'[1] \notin DropPcs, NEW i \in DOMAIN list[1]
      PROVE  InUseAt(i)'
  <2>1. InUseAt(i) /\ \A s \in Slots : net[s].inUse => net'[s].inUse
    BY <1>3 DEF Listing, DropPcs
  <2>. QED BY <1>1, <2>1 DEF InUseAt
<1>4. ASSUME mpc' \in InitPcs PROVE ~Listed(mslot')
  <2>1. CASE mpc \in InitPcs /\ mslot' = mslot
    BY <2>1 DEF Listing
  <2>2. CASE mpc = "accept" /\ tpc[1] = "idle" /\ ~net[mslot'].inUse
    <3>1. \A i \in DOMAIN list[1] : InUseAt(i)
      BY <2>2 DEF Listing, TickPcs, DropPcs
    <3>. QED BY <2>2, <3>1 DEF Listed, InUseAt
  <2>. QED BY <1>4, <2>1, <2>2
<1>. QED BY <1>2, <1>3, <1>4 DEF Listing

\* The main loop's steps but for AssignState: AcceptSlot takes a slot that is
\* not in use, so it is not listed.
LEMMA MainLists ==
    ASSUME IInv, ~Threaded, Listing, 1 \in Threads,
           \/ Game \/ WorldTick \/ AcceptNone \/ MainOutput
           \/ TickSkip \/ TickTimeout \/ TickFlush \/ TickClosing
           \/ AcceptSlot \/ InitClear \/ InitClient \/ InitOpen
           \/ ClearFlags \/ ClearClient \/ ClearQueues
    PROVE  Listing'
<1>0. TypeOK /\ mslot \in Slots /\ net \in [Slots -> SlotState] /\ net[mslot] \in SlotState
  BY DEF IInv, TypeOK
<1>1. /\ Alternate' /\ tpc[1] = "idle" /\ UNCHANGED <<list, assigned>>
      /\ UNCHANGED <<tpc, tpos>> \/ tpc'[1] \in {"new", "receive", "flush"}
  BY <1>0, AlternateNext, OutsideRoutine, MainLeavesThread DEF Listing, Next, Main, InitOpen
<1>. USE DEF InitPcs, TickPcs, DropPcs
<1>2. CASE \/ Game \/ WorldTick \/ AcceptNone \/ MainOutput
           \/ TickSkip \/ TickTimeout \/ TickFlush \/ TickClosing
  <2>1. \A s \in Slots : net[s].inUse => net'[s].inUse
    BY <1>0, <1>2, QuietStep DEF Handle, Touch, Touched
  <2>2. CASE Game
    <3>1. UNCHANGED <<mainVars, tpc>>
      BY <2>2 DEF Game, GameQueue, GameKick, threadVars
    <3>. QED BY <1>0, <1>1, <2>1, <3>1, ListingFrame DEF mainVars
  <2>3. CASE WorldTick
    <3>1. mpc = "game" /\ mpc' = "accept" /\ UNCHANGED tpc
      BY <2>3 DEF WorldTick, MainRuns, threadVars
    <3>. QED BY <1>0, <1>1, <2>1, <3>1, ListingFrame
  <2>4. CASE AcceptNone
    <3>1. mpc = "accept" /\ mpc' = "output" /\ tpc'[1] = "receive"
      BY <1>0, <2>4 DEF AcceptNone, AfterAccept, MainRuns, TypeOK
    <3>. QED BY <1>0, <1>1, <2>1, <3>1, ListingFrame
  <2>5. CASE MainOutput
    <3>1. mpc = "output" /\ mpc' = "tick" /\ tpc'[1] = "flush"
      BY <1>0, <2>5 DEF MainOutput, MainRuns, TypeOK
    <3>. QED BY <1>0, <1>1, <2>1, <3>1, ListingFrame
  <2>6. CASE TickSkip \/ TickTimeout \/ TickFlush \/ TickClosing
    <3>1. mpc = "tick" /\ (NextSlot \/ ToClear)
      BY <2>6 DEF TickSkip, TickTimeout, TickFlush, TickClosing, MainRuns
    <3>2. \/ mpc' \in {"tick", "clear"} /\ UNCHANGED tpc
          \/ mpc' = "game" /\ tpc'[1] = "new"
      BY <1>0, <3>1 DEF NextSlot, ToClear, threadVars, TypeOK
    <3>. QED BY <1>0, <1>1, <2>1, <3>1, <3>2, ListingFrame
  <2>. QED BY <1>2, <2>2, <2>3, <2>4, <2>5, <2>6
<1>3. CASE AcceptSlot
  <2>1. FreeSlot \in Slots /\ ~net[FreeSlot].inUse
    BY <1>0, <1>3, FreeSlotFree DEF AcceptSlot
  <2>2. /\ UNCHANGED <<net, tpc>> /\ mslot' = FreeSlot
        /\ mpc = "accept" /\ mpc' = "initClear"
    BY <1>3 DEF AcceptSlot, MainRuns, threadVars
  <2>. QED BY <1>0, <1>1, <2>1, <2>2, ListingFrame
<1>4. CASE InitClear \/ InitClient \/ InitOpen
  <2>1. \A s \in Slots : net[s].inUse => net'[s].inUse
    <3>1. CASE InitClear
      BY <1>0, <3>1 DEF InitClear, SlotState
    <3>2. CASE InitClient
      BY <1>0, <3>2 DEF InitClient, SlotState
    <3>3. CASE InitOpen
      BY <1>0, <3>3 DEF InitOpen, InitOpenWrite, InitOpenRead, InitUse, SlotState
    <3>. QED BY <1>4, <3>1, <3>2, <3>3
  <2>2. mpc \in InitPcs /\ mpc' \in InitPcs /\ mslot' = mslot /\ UNCHANGED tpc
    BY <1>4 DEF InitClear, InitClient, InitOpen, InitOpenWrite, InitOpenRead, InitUse, MainRuns,
                threadVars
  <2>. QED BY <1>0, <1>1, <2>1, <2>2, ListingFrame
<1>5. CASE ClearFlags \/ ClearClient
  <2>1. \A s \in Slots : net[s].inUse => net'[s].inUse
    <3>1. CASE ClearFlags
      BY <1>0, <3>1 DEF ClearFlags, SlotState
    <3>2. CASE ClearClient
      BY <1>0, <3>2 DEF ClearClient, SlotState
    <3>. QED BY <1>5, <3>1, <3>2
  <2>2. mpc \in TickPcs /\ mpc' \in {"clearClient", "clearQueues"} /\ UNCHANGED tpc
    BY <1>5 DEF ClearFlags, ClearClient, MainRuns, threadVars
  <2>. QED BY <1>0, <1>1, <2>1, <2>2, ListingFrame
<1>6. CASE ClearQueues
  <2>1. mpc = "clearQueues" /\ NextSlot
    BY <1>6 DEF ClearQueues, MainRuns
  <2>2. \/ mpc' = "tick" /\ UNCHANGED tpc
        \/ mpc' = "game" /\ tpc'[1] = "new"
    BY <1>0, <2>1 DEF NextSlot, threadVars, TypeOK
  <2>. QED BY <1>0, <1>1, <2>1, <2>2, ListingFrame
<1>. QED BY <1>2, <1>3, <1>4, <1>5, <1>6

\* The new slot is the only one that waits.
LEMMA AssignLists ==
    ASSUME IInv, ~Threaded, Listing, Threads = {1}, AssignState
    PROVE  Listing'
<1>0. TypeOK /\ ThreadOK /\ mslot \in Slots
  BY DEF IInv, TypeOK, ThreadOK
<1>1. BestThread = 1 /\ Alternate' /\ tpc[1] = "idle"
  BY <1>0, BestThreadExists, AlternateNext, OutsideRoutine DEF Listing, Next, Main
<1>2. /\ mpc = "assign" /\ assigned[1] = <<>> /\ ~Listed(mslot)
      /\ \A i \in DOMAIN list[1] : InUseAt(i)
  BY <1>1 DEF AssignState, MainRuns, Listing, InitPcs, TickPcs, DropPcs
<1>3. /\ assigned'[1] = Append(<<>>, mslot) /\ UNCHANGED <<net, list>>
      /\ mpc' = "output" /\ tpc'[1] = "receive"
  BY <1>0, <1>1, <1>2 DEF AssignState, ThreadOK
<1>4. Len(assigned'[1]) = 1 /\ assigned'[1][1] = mslot
  BY <1>0, <1>3
<1>5. \A s : Listed(s)' <=> Listed(s)
  BY <1>3 DEF Listed
<1>6. \A i \in DOMAIN list[1] : InUseAt(i)'
  BY <1>2, <1>3 DEF InUseAt
<1>. QED BY <1>1, <1>2, <1>3, <1>4, <1>5, <1>6 DEF Listing, InitPcs, TickPcs, DropPcs

\* checkNewStates() appends it to a list that does not have it.
LEMMA CheckNewLists ==
    ASSUME IInv, ~Threaded, Listing, 1 \in Threads, CheckNew(1)
    PROVE  Listing'
<1>0. /\ TypeOK /\ ThreadOK /\ list[1] \in Seq(Slots) /\ assigned[1] \in Seq(Slots)
      /\ tpc[1] = "new" /\ mpc = "game" /\ UNCHANGED mainVars
  BY DEF IInv, TypeOK, ThreadOK, CheckNew, At, Listing, DropPcs, ElseSame
<1>1. Alternate'
  BY AlternateNext DEF Listing, Next, Thread
<1>2. CASE assigned[1] = <<>>
  <2>1. /\ UNCHANGED <<net, list, assigned>> /\ tpc'[1] = "drop" /\ tpos'[1] = 1
    BY <1>0, <1>2 DEF CheckNew, Pass, ListsSame, ThreadOK
  <2>2. \A i \in DOMAIN list[1] : ~(i < 1)
    BY <1>0
  <2>3. \A s : Listed(s)' <=> Listed(s)
    BY <2>1 DEF Listed
  <2>. QED BY <1>0, <1>1, <1>2, <2>1, <2>2, <2>3 DEF Listing, InitPcs, TickPcs, DropPcs, mainVars
<1>3. CASE assigned[1] # <<>>
  <2>1. PICK h \in Slots : h = Head(assigned[1])
    BY <1>0, <1>3, HeadTailProperties
  <2>2. /\ list'[1] = Append(list[1], h) /\ assigned'[1] = Tail(assigned[1]) /\ tpc'[1] = "new"
    BY <1>0, <1>3, <2>1 DEF CheckNew, Goto, ThreadOK
  <2>3. h = assigned[1][1] /\ Len(assigned[1]) = 1 /\ ~Listed(h) /\ assigned'[1] = <<>>
    <3>1. Len(assigned[1]) = 1 /\ ~Listed(assigned[1][1])
      BY <1>3 DEF Listing
    <3>2. h = assigned[1][1]
      BY <1>0, <1>3, <2>1
    <3>3. Tail(assigned[1]) \in Seq(Slots) /\ Len(Tail(assigned[1])) = 0
      BY <1>0, <1>3, <3>1, HeadTailProperties
    <3>4. Tail(assigned[1]) = <<>>
      BY <3>3, EmptySeq
    <3>. QED BY <2>2, <3>1, <3>2, <3>4
  <2>4. /\ Len(list[1]) \in Nat /\ DOMAIN list[1] = 1..Len(list[1])
        /\ DOMAIN list'[1] = 1..(Len(list[1]) + 1)
        /\ \A i \in 1..Len(list[1]) : list'[1][i] = list[1][i]
        /\ list'[1][Len(list[1]) + 1] = h
    BY <1>0, <2>1, <2>2, AppendProperties
  <2>5. ASSUME NEW i \in DOMAIN list'[1], NEW j \in DOMAIN list'[1], list'[1][i] = list'[1][j]
        PROVE  i = j
    <3>1. \A k \in 1..Len(list[1]) : list'[1][k] # h
      BY <2>3, <2>4 DEF Listed
    <3>2. CASE i = Len(list[1]) + 1 \/ j = Len(list[1]) + 1
      BY <2>4, <2>5, <3>1, <3>2
    <3>3. CASE i \in 1..Len(list[1]) /\ j \in 1..Len(list[1])
      BY <2>4, <2>5, <3>3 DEF Listing
    <3>. QED BY <2>4, <3>2, <3>3
  <2>. QED BY <1>0, <1>1, <2>2, <2>3, <2>5 DEF Listing, InitPcs, TickPcs, DropPcs, mainVars
<1>. QED BY <1>2, <1>3

\* The list without the state at the thread's position.
LEMMA ErasedList ==
    ASSUME TypeOK, 1 \in Threads, tpos[1] \in 1..Len(list[1]), Erase(1), UNCHANGED tpos,
           \A i, j \in DOMAIN list[1] : list[1][i] = list[1][j] => i = j,
           \A s \in Slots : net'[s].inUse = net[s].inUse
    PROVE  /\ \A i, j \in DOMAIN list'[1] : list'[1][i] = list'[1][j] => i = j
           /\ (\A i \in DOMAIN list[1] : i < tpos[1] => InUseAt(i))
              => \A i \in DOMAIN list'[1] : i < tpos'[1] => InUseAt(i)'
<1>. DEFINE q == list[1]
            p == tpos[1]
<1>1. q \in Seq(Slots) /\ list'[1] = RemoveAt(q, p) /\ Len(q) \in Nat /\ DOMAIN q = 1..Len(q)
      /\ (\A i \in DOMAIN q : q[i] \in Slots) /\ p \in 1..Len(q) /\ p \in Nat
      /\ \A i, j \in DOMAIN q : q[i] = q[j] => i = j
  BY DEF TypeOK, Erase
<1>. HIDE DEF q, p
<1>2. /\ DOMAIN list'[1] = 1..(Len(q) - 1)
      /\ \A j \in 1..(Len(q) - 1) : list'[1][j] = IF j < p THEN q[j] ELSE q[j + 1]
  <2>1. q \in Seq(Slots) /\ p \in 1..Len(q)
    BY <1>1
  <2>2. /\ RemoveAt(q, p) \in Seq(Slots) /\ Len(RemoveAt(q, p)) = Len(q) - 1
        /\ \A j \in 1..(Len(q) - 1) : RemoveAt(q, p)[j] = IF j < p THEN q[j] ELSE q[j + 1]
    BY <2>1, RemoveAtElements
  <2>3. DOMAIN RemoveAt(q, p) = 1..(Len(q) - 1)
    BY <2>2
  <2>. QED BY <1>1, <2>2, <2>3
<1>3. \A i \in 1..(Len(q) - 1) : i \in DOMAIN q /\ i + 1 \in DOMAIN q /\ i \in Nat
  BY <1>1
<1>4. ASSUME NEW i \in 1..(Len(q) - 1), NEW j \in 1..(Len(q) - 1), list'[1][i] = list'[1][j]
      PROVE  i = j
  <2>1. /\ i \in DOMAIN q /\ i + 1 \in DOMAIN q /\ j \in DOMAIN q /\ j + 1 \in DOMAIN q
        /\ i \in Nat /\ j \in Nat
        /\ list'[1][i] = IF i < p THEN q[i] ELSE q[i + 1]
        /\ list'[1][j] = IF j < p THEN q[j] ELSE q[j + 1]
    BY <1>2, <1>3
  <2>2. CASE i < p /\ j < p
    BY <1>1, <1>4, <2>1, <2>2
  <2>3. CASE i < p /\ ~(j < p)
    <3>1. i = j + 1
      BY <1>1, <1>4, <2>1, <2>3
    <3>. QED BY <1>1, <2>1, <2>3, <3>1
  <2>4. CASE ~(i < p) /\ j < p
    <3>1. i + 1 = j
      BY <1>1, <1>4, <2>1, <2>4
    <3>. QED BY <1>1, <2>1, <2>4, <3>1
  <2>5. CASE ~(i < p) /\ ~(j < p)
    <3>1. i + 1 = j + 1
      BY <1>1, <1>4, <2>1, <2>5
    <3>. QED BY <2>1, <3>1
  <2>. QED BY <2>2, <2>3, <2>4, <2>5
<1>5. ASSUME \A i \in DOMAIN q : i < p => InUseAt(i), NEW i \in 1..(Len(q) - 1), i < p
      PROVE  InUseAt(i)'
  <2>1. list'[1][i] = q[i] /\ q[i] \in Slots /\ InUseAt(i)
    BY <1>1, <1>2, <1>3, <1>5
  <2>. QED BY <2>1 DEF InUseAt, q
<1>. QED BY <1>2, <1>4, <1>5 DEF q, p

\* dropInvalidStates() goes on past states in use and takes out the others.
LEMMA DropLists ==
    ASSUME IInv, ~Threaded, Listing, 1 \in Threads, DropCheck(1) \/ DropUnparent(1)
    PROVE  Listing'
<1>0. /\ TypeOK /\ AtWork /\ ThreadOK /\ net \in [Slots -> SlotState] /\ mpc = "game"
      /\ tpc[1] \in {"drop", "unparent"} /\ UNCHANGED <<assigned, mainVars>>
  BY DEF IInv, TypeOK, ThreadOK, DropCheck, DropUnparent, At, Listing, DropPcs, ElseSame
<1>1. Alternate' /\ assigned[1] = <<>>
  BY <1>0, AlternateNext DEF Listing, Next, Thread
<1>2. Current(1) \in Slots /\ tpos[1] \in 1..Len(list[1]) /\ tpos[1] \in Nat
  BY <1>0, CurrentSlot DEF DropCheck, DropUnparent, At, WorkPcs
<1>3. \A s \in Slots : net'[s].inUse = net[s].inUse
  BY <1>0, <1>2 DEF DropCheck, DropUnparent, SlotState
<1>4. /\ \A i, j \in DOMAIN list[1] : list[1][i] = list[1][j] => i = j
      /\ \A i \in DOMAIN list[1] : i < tpos[1] => InUseAt(i)
  BY <1>0 DEF Listing
<1>5. SUFFICES /\ tpc'[1] \in {"drop", "unparent"}
               /\ \A i, j \in DOMAIN list'[1] : list'[1][i] = list'[1][j] => i = j
               /\ \A i \in DOMAIN list'[1] : i < tpos'[1] => InUseAt(i)'
  BY <1>0, <1>1, <1>5 DEF Listing, InitPcs, TickPcs, DropPcs, mainVars
<1>6. CASE Erase(1) /\ Goto(1, "drop")
  <2>1. UNCHANGED tpos /\ tpc'[1] = "drop"
    BY <1>0, <1>6 DEF Goto, ThreadOK
  <2>. QED BY <1>0, <1>2, <1>3, <1>4, <1>6, <2>1, ErasedList
<1>7. CASE UNCHANGED list /\ Goto(1, "unparent")
  <2>1. tpos'[1] = tpos[1] /\ tpc'[1] = "unparent" /\ list'[1] = list[1]
    BY <1>0, <1>7 DEF Goto, ThreadOK
  <2>2. \A i \in DOMAIN list[1] : list[1][i] \in Slots
    BY <1>0 DEF TypeOK
  <2>. QED BY <1>3, <1>4, <2>1, <2>2 DEF InUseAt
<1>8. CASE UNCHANGED list /\ Advance(1, "drop") /\ net[Current(1)].inUse
  <2>1. tpos'[1] = tpos[1] + 1 /\ tpc'[1] = "drop"
    BY <1>0, <1>8 DEF Advance, ThreadOK
  <2>2. ASSUME NEW i \in DOMAIN list[1], i < tpos[1] + 1 PROVE InUseAt(i)
    <3>1. CASE i = tpos[1]
      BY <1>8, <3>1 DEF InUseAt, Current
    <3>2. CASE i # tpos[1]
      <4>1. i < tpos[1]
        BY <1>0, <1>2, <2>2, <3>2 DEF TypeOK
      <4>. QED BY <1>4, <4>1
    <3>. QED BY <3>1, <3>2
  <2>3. \A i \in DOMAIN list[1] : list[1][i] \in Slots
    BY <1>0 DEF TypeOK
  <2>. QED BY <1>3, <1>4, <1>8, <2>1, <2>2, <2>3 DEF InUseAt
<1>. QED BY <1>6, <1>7, <1>8 DEF DropCheck, DropUnparent

\* When the pass is over, and after it, every listed state is in use.
LEMMA PassLists ==
    ASSUME IInv, ~Threaded, Listing, 1 \in Threads, Thread(1),
           ~CheckNew(1), ~DropCheck(1), ~DropUnparent(1)
    PROVE  Listing'
<1>0. TypeOK /\ AtWork /\ list[1] \in Seq(Slots) /\ tpos[1] \in Nat
  BY DEF IInv, TypeOK
<1>1. /\ PassEffect /\ tpc'[1] \notin {"new", "drop", "unparent"}
  BY <1>0, PassLeavesLists
<1>2. UNCHANGED <<list, assigned, mainVars>> /\ \A s \in Slots : net'[s].inUse = net[s].inUse
  BY <1>0, <1>1 DEF PassEffect, ThreadEffect, Handle, Touch, Touched, ListsSame, TypeOK
<1>3. Alternate'
  BY AlternateNext DEF Listing, Next
<1>4. tpc[1] \in DropPcs => mpc = "game" /\ \A i \in DOMAIN list[1] : InUseAt(i)
  <2>1. ASSUME tpc[1] \in DropPcs PROVE DropDone(1)
    <3>1. tpc[1] \in {"new", "drop", "unparent"}
      BY <2>1 DEF DropPcs
    <3>2. ~\/ ThreadTick(1)
           \/ Receive(1) \/ ReceiveFailed(1) \/ ReceiveDone(1)
           \/ InputCheck(1) \/ InputClient(1) \/ InputBody(1) \/ InputDone(1)
      BY <3>1 DEF ThreadTick, Receive, ReceiveFailed, ReceiveDone, InputCheck, InputClient,
                  InputBody, InputDone, At
    <3>3. ~\/ FlushCheck(1) \/ FlushClient(1) \/ FlushBody(1) \/ FlushEnd(1)
           \/ MarkWrite(1) \/ FlushDone(1)
           \/ OutputCheck(1) \/ OutputClient(1) \/ OutputBody(1) \/ OutputDone(1)
           \/ QuotaCheck(1) \/ QuotaDone(1) \/ Write(1)
      BY <3>1 DEF FlushCheck, FlushClient, FlushBody, FlushEnd, MarkWrite, FlushDone, SendClient,
                  OutputCheck, OutputClient, OutputBody, OutputDone, QuotaCheck, QuotaDone, Write, At
    <3>. QED BY <3>2, <3>3 DEF Thread
  <2>2. ASSUME DropDone(1) PROVE mpc = "game" /\ \A i \in DOMAIN list[1] : InUseAt(i)
    <3>1. tpc[1] = "drop" /\ tpos[1] > Len(list[1])
      BY <2>2 DEF DropDone, At, AtEnd
    <3>2. \A i \in DOMAIN list[1] : i < tpos[1]
      BY <1>0, <3>1
    <3>. QED BY <3>1, <3>2 DEF Listing, DropPcs
  <2>. QED BY <2>1, <2>2
<1>5. tpc[1] # "new"
  <2>1. ASSUME tpc[1] = "new" PROVE FALSE
    <3>1. DropDone(1) \/ ~(tpc[1] \in DropPcs)
      BY DEF Thread, ThreadTick, Receive, ReceiveFailed, ReceiveDone, InputCheck, InputClient,
             InputBody, InputDone, FlushCheck, FlushClient, FlushBody, FlushEnd, MarkWrite, FlushDone,
             SendClient, OutputCheck, OutputClient, OutputBody, OutputDone, QuotaCheck, QuotaDone,
             Write, At, DropPcs
    <3>. QED BY <2>1, <3>1 DEF DropDone, At, DropPcs
  <2>. QED BY <2>1
<1>. QED
  BY <1>0, <1>1, <1>2, <1>3, <1>4, <1>5, ListingFrame DEF mainVars, InitPcs, DropPcs, Listing

\* Every step keeps it.
LEMMA ListingNext == IInv /\ ~Threaded /\ Listing /\ [Next]_vars => Listing'
<1>. SUFFICES ASSUME IInv, ~Threaded, Listing, [Next]_vars PROVE Listing'
  OBVIOUS
<1>0. 1 \in Threads /\ Threads = {1} /\ TypeOK
  BY ConstantsAssumption DEF Threads, IInv
<1>1. CASE Game \/ Main
  BY <1>0, <1>1, MainLists, AssignLists DEF Main, InitOpen
<1>2. CASE Thread(1)
  BY <1>0, <1>2, CheckNewLists, DropLists, PassLists
<1>3. CASE \E s \in Slots : AsyncReady(s)
  <2>1. UNCHANGED <<list, assigned, tpc, tpos, mainVars>>
    BY <1>3 DEF AsyncReady, threadVars
  <2>2. \A s \in Slots : net'[s].inUse = net[s].inUse
    BY <1>0, <1>3, QuietStep DEF Handle, Touch, Touched, TypeOK
  <2>3. \A i \in DOMAIN list[1] : list[1][i] \in Slots
    BY <1>0 DEF TypeOK
  <2>. QED BY <2>1, <2>2, <2>3 DEF Listing, Listed, InUseAt, Alternate, mainVars
<1>4. CASE UNCHANGED vars
  BY <1>4 DEF vars, mainVars, threadVars, Listing, Listed, InUseAt, Alternate
<1>. QED BY <1>0, <1>1, <1>2, <1>3, <1>4 DEF Next

\* With NetworkThreads=0 no slot is listed twice: a slot that is accepted again
\* was taken out of the list before, in the round it was cleared in.
THEOREM SlotsListedOnce ==
    ASSUME ~Threaded
    PROVE  Spec => []ListedOnce
<1>0. Threads = {1}
  BY ConstantsAssumption DEF Threads
<1>1. Init => Listing
  BY <1>0 DEF Init, Listing, Alternate, InitPcs, TickPcs, DropPcs
<1>2. IInv /\ Listing => ListedOnce
  <2>. SUFFICES ASSUME IInv, Listing PROVE ListedOnce
    OBVIOUS
  <2>. DEFINE l == list[1]
              a == assigned[1]
  <2>1. l \in Seq(Slots) /\ a \in Seq(Slots) /\ Len(l) \in Nat /\ Len(a) \in {0, 1}
    <3>1. l \in Seq(Slots) /\ a \in Seq(Slots)
      BY <1>0 DEF IInv, TypeOK
    <3>2. a = <<>> \/ Len(a) = 1
      BY DEF Listing
    <3>. QED BY <3>1, <3>2
  <2>2. \A i \in 1..Len(l) : Len(a) = 1 => l[i] # a[1]
    <3>1. Len(a) = 1 => ~Listed(a[1])
      BY <2>1 DEF Listing
    <3>. QED BY <2>1, <3>1 DEF Listed
  <2>3. \A i, j \in 1..Len(l) : l[i] = l[j] => i = j
    BY <2>1 DEF Listing
  <2>. HIDE DEF l, a
  <2>4. /\ Len(l \o a) = Len(l) + Len(a) /\ DOMAIN (l \o a) = 1..(Len(l) + Len(a))
        /\ \A i \in 1..(Len(l) + Len(a)) : (l \o a)[i] = IF i <= Len(l) THEN l[i] ELSE a[i - Len(l)]
    <3>1. l \o a \in Seq(Slots) /\ Len(l \o a) = Len(l) + Len(a)
      BY <2>1, ConcatProperties
    <3>2. DOMAIN (l \o a) = 1..Len(l \o a)
      BY <3>1
    <3>3. \A i \in 1..(Len(l) + Len(a)) : (l \o a)[i] = IF i <= Len(l) THEN l[i] ELSE a[i - Len(l)]
      BY <2>1, ConcatProperties
    <3>. QED BY <3>1, <3>2, <3>3
  <2>5. ASSUME NEW i \in DOMAIN (l \o a), NEW j \in DOMAIN (l \o a), (l \o a)[i] = (l \o a)[j]
        PROVE  i = j
    <3>1. CASE i <= Len(l) /\ j <= Len(l)
      BY <2>1, <2>4, <2>3, <2>5, <3>1
    <3>2. CASE i <= Len(l) /\ ~(j <= Len(l))
      BY <2>1, <2>4, <2>2, <2>5, <3>2
    <3>3. CASE ~(i <= Len(l)) /\ j <= Len(l)
      BY <2>1, <2>4, <2>2, <2>5, <3>3
    <3>4. CASE ~(i <= Len(l)) /\ ~(j <= Len(l))
      BY <2>1, <2>4, <3>4
    <3>. QED BY <3>1, <3>2, <3>3, <3>4
  <2>. QED BY <1>0, <2>5 DEF ListedOnce, l, a
<1>3. IInv /\ Listing /\ [Next]_vars => Listing'
  BY ListingNext
<1>. QED BY <1>1, <1>2, <1>3, IInvInit, IInvNext, PTL DEF Spec

-----------------------------------------------------------------------------
(* The slots implement ConnSlots. *)

\* Phase and connection of a slot in state x.
LiveState(x) == x.inUse /\ x.client # NoClient

PhaseOf(x) ==
    IF ~LiveState(x) THEN "free"
    ELSE IF x.writeClosed THEN "finished"
    ELSE IF x.readClosed THEN "draining"
    ELSE "open"

ConnOf(x) == IF LiveState(x) THEN x.client ELSE 0

phaseBar == [s \in Slots |-> PhaseOf(net[s])]
connBar  == [s \in Slots |-> ConnOf(net[s])]
givenBar == IF mpc \in OpeningPcs THEN nconn - 1 ELSE nconn
bornBar  == IF Threaded THEN {"open", "draining", "finished"} ELSE {"open"}

\* They are what NetState maps to ConnSlots.
LEMMA Mapping ==
    /\ Phase = phaseBar
    /\ [s \in Slots |-> IF Live(s) THEN net[s].client ELSE 0] = connBar
  BY DEF Phase, phaseBar, connBar, PhaseOf, ConnOf, Live, LiveState

\* A step that changes the state of one slot changes the phase and the
\* connection of that slot alone.
LEMMA OneSlot ==
    ASSUME TypeOK, NEW s \in Slots, NEW r \in SlotState, net' = [net EXCEPT ![s] = r]
    PROVE  /\ phaseBar' = [phaseBar EXCEPT ![s] = PhaseOf(r)]
           /\ connBar' = [connBar EXCEPT ![s] = ConnOf(r)]
           /\ phaseBar[s] = PhaseOf(net[s]) /\ connBar[s] = ConnOf(net[s])
<1>1. \A q \in Slots : net'[q] = IF q = s THEN r ELSE net[q]
  BY DEF TypeOK
<1>2. phaseBar' = [q \in Slots |-> PhaseOf(net'[q])] /\ connBar' = [q \in Slots |-> ConnOf(net'[q])]
  BY DEF phaseBar, connBar, PhaseOf, ConnOf, LiveState
<1>3. ASSUME NEW q \in Slots
      PROVE  /\ PhaseOf(net'[q]) = [phaseBar EXCEPT ![s] = PhaseOf(r)][q]
             /\ ConnOf(net'[q]) = [connBar EXCEPT ![s] = ConnOf(r)][q]
  <2>1. CASE q = s
    <3>1. net'[q] = r
      BY <1>1, <2>1
    <3>. QED BY <2>1, <3>1 DEF phaseBar, connBar
  <2>2. CASE q # s
    <3>1. net'[q] = net[q]
      BY <1>1, <2>2
    <3>. QED BY <2>2, <3>1 DEF phaseBar, connBar
  <2>. QED BY <2>1, <2>2
<1>4. /\ [phaseBar EXCEPT ![s] = PhaseOf(r)] = [q \in Slots |-> [phaseBar EXCEPT ![s] = PhaseOf(r)][q]]
      /\ [connBar EXCEPT ![s] = ConnOf(r)] = [q \in Slots |-> [connBar EXCEPT ![s] = ConnOf(r)][q]]
  BY DEF phaseBar, connBar
<1>5. phaseBar[s] = PhaseOf(net[s]) /\ connBar[s] = ConnOf(net[s])
  BY DEF phaseBar, connBar
<1>. QED BY <1>2, <1>3, <1>4, <1>5

\* The actions of ConnSlots over these.
Opens(s) ==
    /\ phaseBar[s] = "free" /\ \E p \in bornBar : phaseBar' = [phaseBar EXCEPT ![s] = p]
    /\ connBar' = [connBar EXCEPT ![s] = givenBar + 1] /\ givenBar' = givenBar + 1

MovesOn(s, from, to) ==
    /\ phaseBar[s] \in from /\ phaseBar' = [phaseBar EXCEPT ![s] = to]
    /\ givenBar' = givenBar

ConnStep ==
    \/ UNCHANGED <<phaseBar, connBar, givenBar>>
    \/ \E s \in Slots :
        \/ Opens(s)
        \/ MovesOn(s, {"open"}, "draining") /\ connBar' = connBar
        \/ MovesOn(s, {"open", "draining"}, "finished") /\ connBar' = connBar
        \/ MovesOn(s, {"finished"}, "free") /\ connBar' = [connBar EXCEPT ![s] = 0]

\* A touched slot stays in its phase or moves towards its end.
LEMMA TouchMoves ==
    ASSUME TypeOK, Touch, UNCHANGED givenBar
    PROVE  ConnStep
<1>1. CASE UNCHANGED net
  BY <1>1 DEF ConnStep, phaseBar, connBar
<1>2. CASE ~UNCHANGED net
  <2>1. PICK s \in Slots, r \in SlotState : net' = [net EXCEPT ![s] = r] /\ Touched(net[s], r)
    BY <1>2 DEF Touch
  <2>2. /\ phaseBar' = [phaseBar EXCEPT ![s] = PhaseOf(r)]
        /\ connBar' = [connBar EXCEPT ![s] = ConnOf(r)]
        /\ phaseBar[s] = PhaseOf(net[s]) /\ connBar[s] = ConnOf(net[s])
    BY <2>1, OneSlot
  <2>3. ConnOf(r) = ConnOf(net[s])
    BY <2>1 DEF ConnOf, LiveState, Touched
  <2>4. connBar' = connBar
    BY <2>2, <2>3 DEF connBar
  <2>5. \/ PhaseOf(r) = PhaseOf(net[s])
        \/ PhaseOf(net[s]) = "open" /\ PhaseOf(r) = "draining"
        \/ PhaseOf(net[s]) \in {"open", "draining"} /\ PhaseOf(r) = "finished"
    BY <2>1 DEF PhaseOf, LiveState, Touched, SlotState, TypeOK
  <2>6. CASE PhaseOf(r) = PhaseOf(net[s])
    <3>1. phaseBar' = phaseBar
      BY <2>2, <2>6 DEF phaseBar
    <3>. QED BY <2>4, <3>1 DEF ConnStep
  <2>. QED BY <2>2, <2>4, <2>5, <2>6 DEF ConnStep, MovesOn
<1>. QED BY <1>1, <1>2

\* Without network threads nobody closes a slot that init() opens; a thread
\* that still lists it may.
Undisturbed == Threaded \/ (Alternate /\ Opened)

LEMMA UndisturbedNext == IInv /\ Undisturbed /\ [Next]_vars => Undisturbed'
  BY AlternateNext, OpenedNext DEF Undisturbed

\* init() and clear(): InitUse opens a connection, ClearFlags finishes it,
\* ClearClient releases the slot, and the steps in between change no phase.
LEMMA SlotStepMoves ==
    ASSUME IInv, Undisturbed,
           \/ AcceptSlot \/ InitClear \/ InitClient \/ InitOpen
           \/ ClearFlags \/ ClearClient \/ ClearQueues
    PROVE  ConnStep
<1>0. TypeOK /\ MainInv /\ mslot \in Slots /\ net[mslot] \in SlotState /\ nconn \in Nat
  BY DEF IInv, TypeOK
<1>. DEFINE old == net[mslot]
<1>1. ASSUME NEW r \in SlotState, net' = [net EXCEPT ![mslot] = r],
             PhaseOf(r) = PhaseOf(old), ConnOf(r) = ConnOf(old), UNCHANGED givenBar
      PROVE  ConnStep
  <2>1. /\ phaseBar' = [phaseBar EXCEPT ![mslot] = PhaseOf(r)]
        /\ connBar' = [connBar EXCEPT ![mslot] = ConnOf(r)]
        /\ phaseBar[mslot] = PhaseOf(old) /\ connBar[mslot] = ConnOf(old)
    BY <1>0, <1>1, OneSlot
  <2>2. phaseBar' = phaseBar /\ connBar' = connBar
    BY <1>1, <2>1 DEF phaseBar, connBar
  <2>. QED BY <1>1, <2>2 DEF ConnStep
<1>. USE DEF MainInv, Progress, MainRuns, NoClient, OpeningPcs
<1>2. CASE AcceptSlot
  <2>1. UNCHANGED net /\ givenBar' = givenBar
    BY <1>2 DEF AcceptSlot, heapVars, givenBar
  <2>. QED BY <2>1 DEF ConnStep, phaseBar, connBar
<1>3. CASE InitClear
  <2>. DEFINE r == [old EXCEPT !.readClosed = TRUE, !.writeClosed = TRUE, !.needsFlush = FALSE,
                               !.out = {}, !.sending = FALSE]
  <2>1. r \in SlotState /\ ~old.inUse /\ r.inUse = old.inUse
    BY <1>0, <1>3 DEF SlotState, InitClear
  <2>2. net' = [net EXCEPT ![mslot] = r] /\ givenBar' = givenBar
    BY <1>0, <1>3 DEF InitClear, TypeOK, heapVars, givenBar
  <2>3. PhaseOf(r) = PhaseOf(old) /\ ConnOf(r) = ConnOf(old)
    BY <2>1 DEF PhaseOf, ConnOf, LiveState
  <2>. HIDE DEF r
  <2>. QED BY <1>1, <2>1, <2>2, <2>3
<1>4. CASE InitClient
  <2>. DEFINE r == [old EXCEPT !.client = nconn + 1, !.unknown = TRUE, !.sending = UseAsync]
  <2>1. nconn + 1 \in Clients
    BY <1>0, <1>4, ConstantsAssumption DEF InitClient, Clients
  <2>2. r \in SlotState /\ ~old.inUse /\ r.inUse = old.inUse
    BY <1>0, <1>4, <2>1, ConstantsAssumption DEF SlotState, InitClient
  <2>3. net' = [net EXCEPT ![mslot] = r] /\ givenBar' = givenBar
    <3>1. nconn' = nconn + 1 /\ mpc = "initClient" /\ mpc' = "initWrite"
      BY <1>4 DEF InitClient
    <3>2. givenBar' = givenBar
      BY <1>0, <3>1 DEF givenBar
    <3>3. net' = [net EXCEPT ![mslot] = r]
      BY <1>0, <1>4, <3>1 DEF InitClient
    <3>. QED BY <3>2, <3>3
  <2>4. PhaseOf(r) = PhaseOf(old) /\ ConnOf(r) = ConnOf(old)
    BY <2>2 DEF PhaseOf, ConnOf, LiveState
  <2>. HIDE DEF r
  <2>. QED BY <1>1, <2>2, <2>3, <2>4
<1>5. CASE InitOpen
  <2>1. CASE InitOpenWrite \/ InitOpenRead
    <3>1. PICK r \in SlotState : net' = [net EXCEPT ![mslot] = r] /\ r.inUse = old.inUse
      <4>1. /\ [old EXCEPT !.writeClosed = FALSE] \in SlotState
            /\ [old EXCEPT !.readClosed = FALSE] \in SlotState
            /\ [old EXCEPT !.writeClosed = FALSE].inUse = old.inUse
            /\ [old EXCEPT !.readClosed = FALSE].inUse = old.inUse
        BY <1>0 DEF SlotState
      <4>. QED BY <2>1, <4>1 DEF InitOpenWrite, InitOpenRead
    <3>2. ~old.inUse /\ givenBar' = givenBar
      BY <1>0, <2>1 DEF InitOpenWrite, InitOpenRead, heapVars, givenBar
    <3>3. PhaseOf(r) = PhaseOf(old) /\ ConnOf(r) = ConnOf(old)
      BY <3>1, <3>2 DEF PhaseOf, ConnOf, LiveState
    <3>. QED BY <1>1, <3>1, <3>2, <3>3
  <2>2. CASE InitUse
    <3>. DEFINE r == [old EXCEPT !.inUse = TRUE]
    <3>1. r \in SlotState /\ r.inUse /\ ~old.inUse /\ r.client = nconn /\ nconn # 0
          /\ r.readClosed = old.readClosed /\ r.writeClosed = old.writeClosed
      BY <1>0, <2>2 DEF SlotState, InitUse
    <3>2. net' = [net EXCEPT ![mslot] = r]
      BY <1>0, <2>2 DEF InitUse, TypeOK
    <3>3. givenBar' = nconn /\ givenBar + 1 = nconn /\ givenBar' = givenBar + 1
      BY <1>0, <2>2 DEF InitUse, heapVars, givenBar
    <3>4. ~Threaded => ~old.readClosed /\ ~old.writeClosed
      BY <2>2 DEF InitUse, Undisturbed, Opened
    <3>5. PhaseOf(old) = "free" /\ PhaseOf(r) \in bornBar /\ ConnOf(r) = nconn
      BY <3>1, <3>4 DEF PhaseOf, ConnOf, LiveState, bornBar
    <3>. HIDE DEF r
    <3>6. Opens(mslot)
      <4>1. /\ phaseBar' = [phaseBar EXCEPT ![mslot] = PhaseOf(r)]
            /\ connBar' = [connBar EXCEPT ![mslot] = ConnOf(r)]
            /\ phaseBar[mslot] = PhaseOf(old)
        BY <1>0, <3>1, <3>2, OneSlot
      <4>. QED BY <3>3, <3>5, <4>1 DEF Opens
    <3>. QED BY <1>0, <3>6 DEF ConnStep
  <2>. QED BY <1>5, <2>1, <2>2 DEF InitOpen
<1>6. CASE ClearFlags
  <2>. DEFINE r == [old EXCEPT !.readClosed = TRUE, !.writeClosed = TRUE, !.needsFlush = FALSE]
  <2>1. r \in SlotState /\ Touched(old, r)
    BY <1>0 DEF SlotState, Touched
  <2>2. net' = [net EXCEPT ![mslot] = r] /\ givenBar' = givenBar
    BY <1>0, <1>6 DEF ClearFlags, TypeOK, heapVars, givenBar
  <2>3. Touch
    BY <1>0, <2>1, <2>2 DEF Touch
  <2>. QED BY <1>0, <2>2, <2>3, TouchMoves
<1>7. CASE ClearClient
  <2>. DEFINE r == [old EXCEPT !.client = 0]
  <2>0. 0 \in Clients
    BY ConstantsAssumption DEF Clients
  <2>1. r \in SlotState /\ r.client = 0 /\ r.inUse = old.inUse /\ old.writeClosed
    BY <1>0, <1>7, <2>0 DEF SlotState, ClearClient
  <2>2. net' = [net EXCEPT ![mslot] = r] /\ givenBar' = givenBar
    BY <1>0, <1>7 DEF ClearClient, TypeOK, givenBar
  <2>3. PhaseOf(old) \in {"free", "finished"} /\ PhaseOf(r) = "free" /\ ConnOf(r) = 0
    BY <2>1 DEF PhaseOf, ConnOf, LiveState
  <2>4. PhaseOf(old) = "free" => ConnOf(old) = 0
    BY DEF PhaseOf, ConnOf
  <2>. HIDE DEF r
  <2>5. CASE PhaseOf(old) = "free"
    BY <1>1, <2>1, <2>2, <2>3, <2>4, <2>5
  <2>6. CASE PhaseOf(old) = "finished"
    <3>1. MovesOn(mslot, {"finished"}, "free") /\ connBar' = [connBar EXCEPT ![mslot] = 0]
      BY ZenonT(30), <1>0, <2>1, <2>2, <2>3, <2>6, OneSlot DEF MovesOn
    <3>. QED BY <1>0, <3>1 DEF ConnStep
  <2>. QED BY <2>3, <2>5, <2>6
<1>8. CASE ClearQueues
  <2>. DEFINE r == [old EXCEPT !.out = {}, !.sending = FALSE, !.unknown = FALSE, !.inUse = FALSE]
  <2>1. r \in SlotState /\ ~r.inUse /\ old.client = 0
    BY <1>0, <1>8 DEF SlotState, ClearQueues
  <2>2. net' = [net EXCEPT ![mslot] = r] /\ givenBar' = givenBar
    BY <1>0, <1>8 DEF ClearQueues, NextSlot, TypeOK, heapVars, givenBar
  <2>3. PhaseOf(r) = PhaseOf(old) /\ ConnOf(r) = ConnOf(old)
    BY <2>1 DEF PhaseOf, ConnOf, LiveState
  <2>. HIDE DEF r
  <2>. QED BY <1>1, <2>1, <2>2, <2>3
<1>. QED BY <1>2, <1>3, <1>4, <1>5, <1>6, <1>7, <1>8

\* Every step is one of those, or none.
LEMMA NextMoves == IInv /\ Undisturbed /\ [Next]_vars => ConnStep
<1>. SUFFICES ASSUME IInv, Undisturbed, [Next]_vars PROVE ConnStep
  OBVIOUS
<1>0. TypeOK
  BY DEF IInv
<1>1. CASE \/ Game \/ WorldTick \/ AcceptNone \/ AssignState \/ MainOutput
           \/ TickSkip \/ TickTimeout \/ TickFlush \/ TickClosing
           \/ \E s \in Slots : AsyncReady(s)
  <2>1. Touch /\ UNCHANGED nconn /\ QuietWay
    BY <1>1, QuietStep DEF Handle
  <2>2. givenBar' = givenBar
    BY <2>1 DEF givenBar, mainVars, QuietWay, QuietPcs, OpeningPcs
  <2>. QED BY <1>0, <2>1, <2>2, TouchMoves
<1>2. CASE \E t \in Threads : Thread(t)
  <2>1. Touch /\ UNCHANGED <<nconn, mainVars>>
    BY <1>2, ThreadKeeps
  <2>2. givenBar' = givenBar
    BY <2>1 DEF givenBar, mainVars
  <2>. QED BY <1>0, <2>1, <2>2, TouchMoves
<1>3. CASE UNCHANGED vars
  <2>1. UNCHANGED net /\ givenBar' = givenBar
    BY <1>3 DEF vars, heapVars, mainVars, givenBar
  <2>. QED BY <2>1 DEF ConnStep, phaseBar, connBar
<1>. QED BY <1>1, <1>2, <1>3, SlotStepMoves DEF Next, Main, InitOpen

\* The slots implement the connection protocol of ConnSlots, whatever the
\* network threads do between two lines of init() or clear(): a connection
\* gets a slot of its own, only moves towards its end, and is finished before
\* its slot is released.  With NetworkThreads=0 it begins open; a thread that
\* still lists the slot may have closed it before init() is done.
THEOREM SlotsImplementConnections == Spec => SlotsAreConnections
<1>1. Init => Conn!ConnInit
  <2>. SUFFICES ASSUME Init PROVE Conn!ConnInit
    OBVIOUS
  <2>1. Phase = [s \in Slots |-> "free"]
    BY DEF Init, Phase, Live
  <2>2. [s \in Slots |-> IF Live(s) THEN net[s].client ELSE 0] = [s \in Slots |-> 0]
    BY DEF Init, Live
  <2>. QED BY <2>1, <2>2 DEF Init, OpeningPcs, Conn!ConnInit
<1>2. ConnStep => [Conn!ConnNext]_(Conn!connVars)
  <2>1. /\ Phase = phaseBar /\ Phase' = phaseBar'
        /\ [s \in Slots |-> IF Live(s) THEN net[s].client ELSE 0] = connBar
        /\ [s \in Slots |-> IF Live(s) THEN net[s].client ELSE 0]' = connBar'
    BY Mapping DEF Phase, phaseBar, connBar, PhaseOf, ConnOf, Live, LiveState
  <2>. QED BY <2>1 DEF ConnStep, Opens, MovesOn, givenBar, bornBar, Conn!ConnNext, Conn!connVars,
                      Conn!Open, Conn!HangUp, Conn!Finish, Conn!Release, Conn!Move
<1>3. Init => Undisturbed
  BY ConstantsAssumption DEF Init, Undisturbed, Alternate, Opened, Threads
<1>. QED
  BY <1>1, <1>2, <1>3, IInvInit, IInvNext, UndisturbedNext, NextMoves, PTL
     DEF Spec, SlotsAreConnections, Conn!ConnSpec
=============================================================================
