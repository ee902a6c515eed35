---------------------------- MODULE WorldTicker -----------------------------
(***************************************************************************)
(* The timers of the world: CWorldTicker's list of timers and its list of  *)
(* the characters' periodic ticks, the two values every object keeps to    *)
(* find its own entries (CTimedObject::_iTimeout and                       *)
(* CChar::_iTimePeriodicTick), sleeping and waking, and the deletion of    *)
(* objects, which happens in two steps: Delete() unlinks and schedules,    *)
(* and the end of CWorld::_OnTick() destroys.                              *)
(*                                                                         *)
(* One thread does all of this.  What interleaves is the code that timers  *)
(* run (triggers, NPC brains, timed functions): it sets timers, moves, puts*)
(* to sleep, creates and deletes objects, those that CWorldTicker::Tick()  *)
(* has picked and not yet run among them.  These operations are possible   *)
(* at every stage of a tick, and between ticks.                            *)
(***************************************************************************)
EXTENDS Integers, FiniteSets

CONSTANTS
    Items, Chars, Funcs,    \* the storage of objects, used again and again
    Delays,                 \* the delays timers are set to
    TickLength,             \* MSECS_PER_TICK, from one periodic tick to the next
    FirstRegen,             \* MSECS_PER_SEC, from a character's birth to its first
    MaxTime                 \* bound on the clock

ASSUME ConstantsAssumption ==
    /\ Items \cap Chars = {} /\ Items \cap Funcs = {} /\ Chars \cap Funcs = {}
    /\ Delays \subseteq Nat /\ MaxTime \in Nat
    /\ TickLength \in Nat \ {0} /\ FirstRegen \in Nat \ {0}

Things  == Items \cup Chars     \* CObjBase
Objects == Things \cup Funcs    \* CTimedObject

VARIABLES
    now,        \* CWorldGameTime::GetCurrentTime()
    stage,      \* where _OnTick() is: "game" (not in it), "status", "timers", "chars"
    picked,     \* _vecObjs: what the loop of this stage still has to run
    life,       \* "gone", "live", or "doomed": in m_ObjDelete
    place,      \* where a thing is: see Places
    asleep,     \* _fIsSleeping
    timeout,    \* _iTimeout, 0 for none
    regen,      \* _iTimeNextRegen
    ptick,      \* _iTimePeriodicTick, 0 for none
    list,       \* _mWorldTickList: records of a time, an age and an object
    plist,      \* _mCharTickList
    updates     \* _ObjStatusUpdates

vars == <<now, stage, picked, life, place, asleep, timeout, regen, ptick,
          list, plist, updates>>

\* "world": top level in a sector; "box": an item in a container; "off": a
\* disconnected character; "nowhere": has no valid point yet
Places == {"world", "box", "off", "nowhere"}

-----------------------------------------------------------------------------
(* What an object may do *)

\* _CanTick() of items, characters and timed functions.  Flags that override
\* it (CAN_O_NOSLEEP, CAN_I_TIMER_CONTAINED, NPCACT_RIDDEN) are left out.
Able(o) ==
    \/ o \in Funcs
    \/ o \in Items /\ ~asleep[o] /\ place[o] # "box"
    \/ o \in Chars /\ ~asleep[o] /\ place[o] = "world"

\* AddTimedObject() lists what can tick, and what has no place yet: its timer may
\* have been set before its point or its container
Listable(o) == Able(o) \/ (o \in Things /\ place[o] = "nowhere")

\* _CanHoldTimer()
HoldsTimer(o) == o \in Items => place[o] # "box"

(* The lists.  An object finds its entry by the time it remembers. *)

\* among entries of one time, the order they were inserted in
Before(e, f) == e.time < f.time \/ (e.time = f.time /\ e.age < f.age)

Inserted(l, t, o) ==
    l \cup {[time |-> t, age |-> Cardinality({e \in l : e.time = t}), obj |-> o]}

\* ages count from 0
Packed(l) ==
    {[time |-> e.time, age |-> Cardinality({f \in l : f.time = e.time /\ f.age < e.age}),
      obj |-> e.obj] : e \in l}

\* Mutant of Without(): takes any entry of that time
WithoutAnyAt(l, t, o) ==
    LET here == {e \in l : e.time = t}
    IN  IF here = {} THEN l ELSE Packed(l \ {CHOOSE e \in here : \A f \in here : e.age <= f.age})

\* _RemoveTimedObject(), _RemoveCharTicking(); no entry has time 0
Without(l, t, o) == Packed({e \in l : e.time # t \/ e.obj # o})

\* Mutant of Moved(): the new time is remembered before the old entry is looked up
MovedTooLate(l, old, new, o, listable) ==
    IF listable THEN Inserted(Without(l, new, o), new, o) ELSE Without(l, old, o)

\* AddTimedObject() of an object whose timer was old
Moved(l, old, new, o, listable) ==
    IF listable THEN Inserted(Without(l, old, o), new, o) ELSE Without(l, old, o)

\* AddCharTicking() for the time next (_iTimeNextRegen): nothing if that is what
\* the character remembers already
PeriodicAdded(c, next) ==
    IF next # ptick[c]
      THEN /\ plist' = Moved(plist, ptick[c], next, c, TRUE)
           /\ ptick' = [ptick EXCEPT ![c] = next]
      ELSE UNCHANGED <<plist, ptick>>

\* DelCharTicking(): the remembered time stays when no entry was found
PeriodicDeleted(c) ==
    IF \E e \in plist : e.time = ptick[c] /\ e.obj = c
      THEN /\ plist' = Without(plist, ptick[c], c)
           /\ ptick' = [ptick EXCEPT ![c] = 0]
      ELSE UNCHANGED <<plist, ptick>>

-----------------------------------------------------------------------------
Init ==
    /\ now = 1 /\ stage = "game" /\ picked = {}
    /\ life = [o \in Objects |-> "gone"]
    /\ place = [o \in Things |-> "nowhere"]
    /\ asleep = [o \in Things |-> TRUE]
    /\ timeout = [o \in Objects |-> 0]
    /\ regen = [c \in Chars |-> 0] /\ ptick = [c \in Chars |-> 0]
    /\ list = {} /\ plist = {} /\ updates = {}

(* What code that runs may do to a thing *)

\* the constructors: a new object sleeps and has no place
Create(o) ==
    /\ life[o] = "gone"
    /\ life' = [life EXCEPT ![o] = "live"]
    /\ regen' = IF o \in Chars THEN [regen EXCEPT ![o] = now + FirstRegen] ELSE regen
    /\ UNCHANGED <<now, stage, picked, place, asleep, timeout, ptick, list, plist, updates>>

\* _SetTimeout() with a delay: nothing on a deleted object, and on an item that
\* cannot hold a timer.  Its entry moves, or only goes.
SetTimeout(o, delay) ==
    /\ life[o] = "live" /\ HoldsTimer(o)
    /\ timeout' = [timeout EXCEPT ![o] = now + delay]
    /\ list' = Moved(list, timeout[o], now + delay, o, Listable(o))
    /\ UNCHANGED <<now, stage, picked, life, place, asleep, regen, ptick, plist, updates>>

\* Mutant of ClearTimer(): the delay is stored
ClearTimerStores(o) ==
    /\ life[o] = "live" /\ timeout[o] # 0
    /\ timeout' = [timeout EXCEPT ![o] = -1]
    /\ list' = Without(list, timeout[o], o)
    /\ UNCHANGED <<now, stage, picked, life, place, asleep, regen, ptick, plist, updates>>

\* _SetTimeout() with a negative delay
ClearTimer(o) ==
    /\ life[o] = "live" /\ timeout[o] # 0
    /\ timeout' = [timeout EXCEPT ![o] = 0]
    /\ list' = Without(list, timeout[o], o)
    /\ UNCHANGED <<now, stage, picked, life, place, asleep, regen, ptick, plist, updates>>

\* UpdatePropertyFlag()
PropertiesChange(o) ==
    /\ life[o] # "gone" /\ o \notin updates
    /\ updates' = updates \cup {o}
    /\ UNCHANGED <<now, stage, picked, life, place, asleep, timeout, regen, ptick, list, plist>>

\* Stat_SetVal(STR, 0): the character shall tick, and die, even when asleep
StrengthGone(c) ==
    /\ c \in Chars /\ life[c] # "gone"
    /\ PeriodicAdded(c, regen[c])
    /\ UNCHANGED <<now, stage, picked, life, place, asleep, timeout, regen, list, updates>>

\* the list after _GoAwake(): the entry of an item's timer comes back by force; a
\* character gets a new timer after that, and is listed only if it can tick
AwakeList(o, kept, drawn) ==
    IF o \in Chars
      THEN Moved(list, timeout[o], now + drawn, o, place'[o] = "world")
      ELSE IF timeout[o] # 0 THEN Moved(list, timeout[o], kept, o, TRUE) ELSE list

\* _GoAwake() of a thing that has arrived at place': a timer that ran out while it
\* slept is due at once, if the item can hold one.  What has no place in the world
\* yet, or had none until now, is listed for a status update.
Awakes(o, drawn) ==
    LET late == timeout[o] \in 1..(now - 1) /\ (o \in Items => place'[o] # "box")
        kept == IF late THEN now + 1 ELSE timeout[o]
    IN  /\ asleep' = [asleep EXCEPT ![o] = FALSE]
        /\ timeout' = [timeout EXCEPT ![o] = IF o \in Chars THEN now + drawn ELSE kept]
        /\ list' = AwakeList(o, kept, drawn)
        /\ updates' = IF o \in Items /\ place[o] # "world" THEN updates \cup {o} ELSE updates
        /\ IF o \in Chars THEN PeriodicAdded(o, regen[o]) ELSE UNCHANGED <<plist, ptick>>

\* _GoSleep(): the timer keeps its value and loses its entry
FallsAsleep(o) ==
    /\ asleep' = [asleep EXCEPT ![o] = TRUE]
    /\ list' = Without(list, timeout[o], o)
    /\ updates' = updates \ {o}
    /\ IF o \in Chars THEN PeriodicDeleted(o) ELSE UNCHANGED <<plist, ptick>>

\* its sector, or what it is in, wakes up
GoAwake(o, drawn) ==
    /\ life[o] = "live" /\ asleep[o] /\ place[o] # "nowhere"
    /\ place' = place
    /\ Awakes(o, drawn)
    /\ UNCHANGED <<now, stage, picked, life, regen>>

\* its sector falls asleep
GoSleep(o) ==
    /\ life[o] = "live" /\ place[o] # "nowhere"
    /\ FallsAsleep(o)
    /\ UNCHANGED <<now, stage, picked, life, place, timeout, regen>>

\* MoveItemToSector(), MoveCharToSector(): into a sector that is awake, or one
\* that sleeps, which puts an item that sleeps to sleep once more
MoveToSector(o, drawn) ==
    /\ life[o] = "live" /\ place[o] \in {"nowhere", "off"}
    /\ place' = [place EXCEPT ![o] = "world"]
    /\ \/ asleep[o] /\ Awakes(o, drawn)
       \/ asleep[o] /\ o \in Items /\ FallsAsleep(o) /\ UNCHANGED timeout
       \/ (asleep[o] => o \in Chars) /\ UNCHANGED <<asleep, timeout, list, updates, plist, ptick>>
    /\ UNCHANGED <<now, stage, picked, life, regen>>

\* ContentAddPrivate() into an item: what is awake falls asleep, and
\* SetDecayTime(-1) clears the timer if it is for decay
PutInBox(o) ==
    /\ o \in Items /\ life[o] = "live" /\ place[o] # "box"
    /\ place' = [place EXCEPT ![o] = "box"]
    /\ asleep' = [asleep EXCEPT ![o] = TRUE]
    /\ updates' = IF asleep[o] THEN updates ELSE updates \ {o}
    /\ \/ /\ timeout' = [timeout EXCEPT ![o] = 0]
          /\ list' = Without(list, timeout[o], o)
       \/ /\ list' = IF asleep[o] THEN list ELSE Without(list, timeout[o], o)
          /\ UNCHANGED timeout
    /\ UNCHANGED <<now, stage, picked, life, regen, plist, ptick>>

\* CItemContainer::OnRemoveObj() wakes what is taken out
TakeOutOfBox(o, drawn) ==
    /\ o \in Items /\ life[o] = "live" /\ place[o] = "box"
    /\ place' = [place EXCEPT ![o] = "world"]
    /\ Awakes(o, drawn)
    /\ UNCHANGED <<now, stage, picked, life, regen>>

\* SetDisconnected(): a pet, a conjured or a ridden creature is not put to sleep
SetDisconnected(c) ==
    /\ c \in Chars /\ life[c] = "live" /\ place[c] = "world"
    /\ place' = [place EXCEPT ![c] = "off"]
    /\ \/ FallsAsleep(c)
       \/ UNCHANGED <<asleep, list, updates, plist, ptick>>
    /\ UNCHANGED <<now, stage, picked, life, timeout, regen>>

\* Mutant of Deletes(): a thing in a box is woken when it leaves it, and stays awake
DeletesOnce(o) ==
    LET late == place[o] = "box" /\ timeout[o] \in 1..(now - 1)
    IN  /\ life' = [x \in Objects |-> IF x = o THEN "doomed" ELSE life[x]]
        /\ asleep' = [asleep EXCEPT ![o] = place[o] # "box"]
        /\ place' = [place EXCEPT ![o] = "nowhere"]
        /\ timeout' = [timeout EXCEPT ![o] = IF late THEN now + 1 ELSE @]
        /\ list' = IF place[o] = "box" /\ timeout[o] # 0
                     THEN Moved(list, timeout[o], timeout'[o], o, TRUE)
                     ELSE Without(list, timeout[o], o)
        /\ updates' = updates \ {o}
        /\ IF o \in Chars THEN PeriodicDeleted(o) ELSE UNCHANGED <<plist, ptick>>

\* Delete(): DeletePrepare() sleeps and unlinks, which wakes what was in a box;
\* DeleteCleanup() dooms the functions set on it; CObjBase::Delete() prepares once
\* more, so that it sleeps again, and schedules the destruction.
Deletes(o) ==
    LET late == place[o] = "box" /\ timeout[o] \in 1..(now - 1)
    IN  /\ \E its \in SUBSET {f \in Funcs : life[f] = "live"} :
            life' = [x \in Objects |-> IF x \in its \cup {o} THEN "doomed" ELSE life[x]]
        /\ asleep' = [asleep EXCEPT ![o] = TRUE]
        /\ place' = [place EXCEPT ![o] = "nowhere"]
        /\ timeout' = [timeout EXCEPT ![o] = IF late THEN now + 1 ELSE @]
        /\ list' = Without(list, timeout[o], o)
        /\ updates' = updates \ {o}
        /\ IF o \in Chars THEN PeriodicDeleted(o) ELSE UNCHANGED <<plist, ptick>>

\* a deletion, anywhere in the code; of what is deleted already it does nothing
Delete(o) ==
    /\ life[o] = "live"
    /\ Deletes(o)
    /\ UNCHANGED <<now, stage, picked, regen>>

\* CTimedFunctionHandler::Add()
AddFunction(f, delay) ==
    /\ life[f] = "gone"
    /\ life' = [life EXCEPT ![f] = "live"]
    /\ timeout' = [timeout EXCEPT ![f] = now + delay]
    /\ list' = Moved(list, 0, now + delay, f, TRUE)
    /\ UNCHANGED <<now, stage, picked, place, asleep, regen, ptick, plist, updates>>

\* CTimedFunctionHandler::Stop(): it stays listed until it is destroyed
StopFunction(f) ==
    /\ life[f] = "live"
    /\ life' = [life EXCEPT ![f] = "doomed"]
    /\ UNCHANGED <<now, stage, picked, place, asleep, timeout, regen, ptick, list, plist, updates>>

-----------------------------------------------------------------------------
(* CWorld::_OnTick() *)

\* _GameClock.Advance(), and the status updates: the set is copied and cleared
\* before the first of them runs
TickBegins ==
    /\ stage = "game" /\ stage' = "status"
    /\ \E passed \in 1..(MaxTime - now) : now' = now + passed
    /\ updates' = {}
    /\ UNCHANGED <<picked, life, place, asleep, timeout, regen, ptick, list, plist>>

\* the entries the selection walks over
Due(l) == {e \in l : e.time < now}

\* Erasing "in chunks": the entries chosen, and, for itSubRangeStart stays behind
\* the first entry that is not chosen, the others that follow it, up to the next
\* one chosen.
Erased(due, chosen) ==
    chosen \cup
    {e \in due : /\ \E first \in chosen : Before(first, e)
                /\ \E last \in chosen : Before(e, last)
                /\ \E p \in due \ chosen :
                     Before(p, e) /\ ~\E q \in due : Before(p, q) /\ Before(q, e)}

\* a deleted object that could tick: the selection would meet it for ever
Stuck(o) ==
    o \in Things /\ life[o] = "doomed" /\ timeout[o] \in 1..now /\ Able(o)

Chosen(o) == timeout[o] \in 1..now /\ Able(o) /\ ~Stuck(o)

\* the timers are taken off before the first of them runs
SelectTimers ==
    LET due    == Due(list)
        chosen == {e \in due : Chosen(e.obj)}
    IN  /\ stage = "status" /\ stage' = "timers"
        /\ \A e \in due : ~Stuck(e.obj)
        /\ picked' = chosen
        /\ list' = Packed(list \ Erased(due, chosen))
        /\ timeout' = [o \in Objects |->
                         IF \E e \in chosen : e.obj = o THEN 0 ELSE timeout[o]]
        /\ UNCHANGED <<now, life, place, asleep, regen, ptick, plist, updates>>

\* the next one to run
IsNext(e) == e \in picked /\ ~\E f \in picked : Before(f, e)

\* _OnTick() of a function: it destroys itself, then its command runs
FunctionRuns ==
    /\ stage = "timers"
    /\ \E e \in picked :
         /\ IsNext(e) /\ e.obj \in Funcs
         /\ picked' = picked \ {e}
         /\ life' = [life EXCEPT ![e.obj] = "gone"]
         /\ timeout' = [timeout EXCEPT ![e.obj] = 0]
         /\ list' = Without(list, timeout[e.obj], e.obj)
    /\ UNCHANGED <<now, stage, place, asleep, regen, ptick, plist, updates>>

\* _OnTick() of a thing, deleted or asleep by now or not, has done what it does and
\* returns: the thing is deleted, stays, or is an NPC without a timer, which gets
\* one.
TimerRuns(delay) ==
    /\ stage = "timers"
    /\ \E e \in picked :
         LET o == e.obj
         IN  /\ IsNext(e) /\ o \in Things
             /\ picked' = picked \ {e}
             /\ \/ /\ life[o] = "live" /\ Deletes(o)
                \/ UNCHANGED <<life, place, asleep, timeout, ptick, list, plist, updates>>
                \/ /\ o \in Chars /\ life[o] = "live" /\ timeout[o] = 0
                   /\ timeout' = [timeout EXCEPT ![o] = now + delay]
                   /\ list' = Moved(list, 0, now + delay, o, Listable(o))
                   /\ UNCHANGED <<life, place, asleep, ptick, plist, updates>>
    /\ UNCHANGED <<now, stage, regen>>

ChosenChar(c) == ptick[c] \in 1..now /\ Able(c) /\ life[c] # "doomed"

SelectChars ==
    LET due    == Due(plist)
        chosen == {e \in due : ChosenChar(e.obj)}
    IN  /\ stage = "timers" /\ picked = {} /\ stage' = "chars"
        /\ picked' = chosen
        /\ plist' = Packed(plist \ Erased(due, chosen))
        /\ ptick' = [c \in Chars |-> IF \E e \in chosen : e.obj = c THEN 0 ELSE ptick[c]]
        /\ UNCHANGED <<now, life, place, asleep, timeout, regen, list, updates>>

\* OnTickPeriodic() puts the next time off, and AddCharTicking() follows; a
\* character without strength dies and is deleted.
CharRuns ==
    /\ stage = "chars"
    /\ \E e \in picked :
         LET c == e.obj
         IN  /\ IsNext(e)
             /\ picked' = picked \ {e}
             /\ regen' = [regen EXCEPT ![c] = now + TickLength]
             /\ \/ /\ PeriodicAdded(c, now + TickLength)
                   /\ UNCHANGED <<life, place, asleep, timeout, list, updates>>
                \/ Deletes(c)
    /\ UNCHANGED <<now, stage>>

\* Mutant of Destroyed(): the destructor leaves the periodic ticks alone
DestroyedTicking(dead) ==
    /\ life' = [o \in Objects |-> IF o \in dead THEN "gone" ELSE life[o]]
    /\ timeout' = [o \in Objects |-> IF o \in dead THEN 0 ELSE timeout[o]]
    /\ regen' = [c \in Chars |-> IF c \in dead THEN 0 ELSE regen[c]]
    /\ ptick' = [c \in Chars |-> IF c \in dead THEN 0 ELSE ptick[c]]
    /\ list' = Packed({e \in list : e.obj \in dead => e.time # timeout[e.obj]})
    /\ UNCHANGED plist
    /\ updates' = updates \ dead

\* the destructors, each of which takes the object's entries out of the lists, of
\* the timers, of the periodic ticks and of the status updates
Destroyed(dead) ==
    /\ life' = [o \in Objects |-> IF o \in dead THEN "gone" ELSE life[o]]
    /\ timeout' = [o \in Objects |-> IF o \in dead THEN 0 ELSE timeout[o]]
    /\ regen' = [c \in Chars |-> IF c \in dead THEN 0 ELSE regen[c]]
    /\ ptick' = [c \in Chars |-> IF c \in dead THEN 0 ELSE ptick[c]]
    /\ list' = Packed({e \in list : e.obj \in dead => e.time # timeout[e.obj]})
    /\ plist' = Packed({e \in plist : e.obj \in dead => e.time # ptick[e.obj]})
    /\ updates' = updates \ dead

Doomed == {o \in Objects : life[o] = "doomed"}

\* m_ObjDelete.ClearContainer() after Tick()
TickEnds ==
    /\ stage = "chars" /\ picked = {} /\ stage' = "game"
    /\ Destroyed(Doomed)
    /\ UNCHANGED <<now, picked, place, asleep>>

\* the garbage collection, before a save or by command: it destroys, too, what was
\* made and never placed, and the functions set on that
CollectGarbage ==
    /\ stage = "game"
    /\ \E its \in SUBSET {f \in Funcs : life[f] = "live"} :
         Destroyed(Doomed \cup its \cup {o \in Things : life[o] = "live" /\ place[o] = "nowhere"})
    /\ UNCHANGED <<now, stage, picked, place, asleep>>

-----------------------------------------------------------------------------
\* what code that runs in a timer, a command or a client's request may do
Code ==
    \/ \E o \in Things :
         \/ Create(o) \/ ClearTimer(o) \/ PropertiesChange(o) \/ GoSleep(o)
         \/ PutInBox(o) \/ SetDisconnected(o) \/ StrengthGone(o) \/ Delete(o)
         \/ \E d \in Delays : \/ SetTimeout(o, d) \/ GoAwake(o, d)
                              \/ MoveToSector(o, d) \/ TakeOutOfBox(o, d)
    \/ \E f \in Funcs : StopFunction(f) \/ \E d \in Delays : AddFunction(f, d)

Tick ==
    \/ TickBegins \/ SelectTimers \/ FunctionRuns
    \/ \E d \in Delays : TimerRuns(d)
    \/ SelectChars \/ CharRuns \/ TickEnds \/ CollectGarbage

Next == Code \/ Tick

Spec == Init /\ [][Next]_vars

-----------------------------------------------------------------------------
\* The variables have their types.
TypeOK ==
    /\ now \in Nat \ {0} /\ stage \in {"game", "status", "timers", "chars"}
    /\ life \in [Objects -> {"gone", "live", "doomed"}]
    /\ place \in [Things -> Places] /\ asleep \in [Things -> BOOLEAN]
    /\ timeout \in [Objects -> Nat]
    /\ regen \in [Chars -> Nat] /\ ptick \in [Chars -> Nat]
    /\ \A e \in list \cup picked : e.time \in Nat /\ e.obj \in Objects
    /\ \A e \in plist : e.time \in Nat /\ e.obj \in Chars
    /\ updates \subseteq Things

\* Every entry of the two lists is found by the time its object remembers, and is
\* its only one: the lists are searched by nothing else, so that an entry that is
\* not could neither be moved nor removed, and would outlive its object.
KeysMatch ==
    /\ \A e \in list : e.time # 0 /\ timeout[e.obj] = e.time
    /\ \A e \in plist : e.time # 0 /\ ptick[e.obj] = e.time
    /\ \A e, f \in list : e.obj = f.obj => e = f
    /\ \A e, f \in plist : e.obj = f.obj => e = f

\* No pointer the ticker keeps is left behind when an object is destroyed: not in
\* the two lists, in the set of status updates, or among those still to run.
NothingDangles ==
    /\ \A e \in list \cup plist \cup picked : life[e.obj] # "gone"
    /\ \A o \in updates : life[o] # "gone"

\* A thing that was deleted is never able to tick and has no timer in the list: the
\* selection would skip such a thing without going on to the next entry.
SelectionEnds ==
    /\ \A o \in Things : life[o] = "doomed" => asleep[o]
    /\ \A e \in list : e.obj \in Things => life[e.obj] = "live"

HasTimer(o) == \E e \in list : e.obj = o /\ e.time = timeout[o]
HasTick(c)  == \E e \in plist : e.obj = c /\ e.time = ptick[c]

\* The periodic tick of a character is in the list when the character remembers one
\* ("I'm reasonably sure that the element i'm trying to remove is present in this
\* container."): one that is not there never comes back, for AddCharTicking() takes
\* it for listed.
CharsListed == \A c \in Chars : ptick[c] # 0 => HasTick(c)

\* A timer or a periodic tick that is listed, of an object that can tick before and
\* after a step, is still listed after the step, unless it was picked, moved or
\* cleared: nothing done to one object, and no erasing in chunks, loses another's.
NeverDropped ==
    [][/\ \A o \in Objects :
            HasTimer(o) /\ Able(o) /\ Able(o)' /\ timeout'[o] = timeout[o] => HasTimer(o)'
       /\ \A c \in Chars :
            HasTick(c) /\ Able(c) /\ Able(c)' /\ ptick'[c] = ptick[c] => HasTick(c)']_vars

=============================================================================
