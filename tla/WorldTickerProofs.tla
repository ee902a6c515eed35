------------------------- MODULE WorldTickerProofs --------------------------
(***************************************************************************)
(* Theorems about WorldTicker, for any items, characters and timed         *)
(* functions, any delays and any bound on the clock: the lists and the     *)
(* times the objects remember fit each other, and nothing that is kept     *)
(* points to a destroyed object.                                           *)
(***************************************************************************)
EXTENDS WorldTicker, TLAPS

\* No object has two entries in the list l.
Single(l) == \A e, f \in l : e.obj = f.obj => e = f

\* The entries of l are of objects in S, each under the time key says.
Keyed(l, key, S) ==
    \A e \in l : e.obj \in S /\ e.time \in Nat \ {0} /\ key[e.obj] = e.time

\* What is picked belongs to the stage, and nothing is picked twice.
PickedOK ==
    /\ stage \in {"game", "status"} => picked = {}
    /\ stage = "chars" => \A e \in picked : e.obj \in Chars
    /\ Single(picked)

\* AddCharTicking() is never asked for a time of 0.
RegenOK == \A c \in Chars : life[c] # "gone" => regen[c] # 0

IInv ==
    /\ TypeOK
    /\ Keyed(list, timeout, Objects) /\ Single(list)
    /\ Keyed(plist, ptick, Chars) /\ Single(plist)
    /\ NothingDangles /\ SelectionEnds
    /\ PickedOK /\ RegenOK

-----------------------------------------------------------------------------
(***************************************************************************)
(* The lists                                                               *)
(***************************************************************************)

\* Ages are renumbered, entries neither made nor merged.
LEMMA PackedEntries ==
    ASSUME NEW l
    PROVE  /\ \A g \in Packed(l) : \E e \in l : g.time = e.time /\ g.obj = e.obj
           /\ Single(l) => Single(Packed(l))
<1>1. \A g \in Packed(l) : \E e \in l :
          g = [time |-> e.time,
               age |-> Cardinality({f \in l : f.time = e.time /\ f.age < e.age}),
               obj |-> e.obj]
  BY DEF Packed
<1>2. ASSUME NEW g \in Packed(l)
      PROVE  \E e \in l : g.time = e.time /\ g.obj = e.obj
  <2>1. PICK e \in l :
            g = [time |-> e.time,
                 age |-> Cardinality({f \in l : f.time = e.time /\ f.age < e.age}),
                 obj |-> e.obj]
    BY <1>1
  <2> QED BY <2>1
<1>3. ASSUME Single(l), NEW g \in Packed(l), NEW h \in Packed(l), g.obj = h.obj
      PROVE  g = h
  <2>1. PICK e \in l :
            g = [time |-> e.time,
                 age |-> Cardinality({f \in l : f.time = e.time /\ f.age < e.age}),
                 obj |-> e.obj]
    BY <1>1
  <2>2. PICK d \in l :
            h = [time |-> d.time,
                 age |-> Cardinality({f \in l : f.time = d.time /\ f.age < d.age}),
                 obj |-> d.obj]
    BY <1>1
  <2>3. e = d
    BY <1>3, <2>1, <2>2 DEF Single
  <2> QED BY <2>1, <2>2, <2>3
<1> QED BY <1>2, <1>3 DEF Single

\* Part of a list that is in order is in order, whatever happens to the times of
\* the objects that have no entry left.
LEMMA PackedPart ==
    ASSUME NEW S, NEW key, NEW l, Keyed(l, key, S), Single(l), NEW part \in SUBSET l,
           NEW key2, \A e \in part : key2[e.obj] = key[e.obj]
    PROVE  /\ Keyed(Packed(part), key2, S) /\ Single(Packed(part))
           /\ \A g \in Packed(part) : \E e \in part : e.obj = g.obj
<1>1. Single(part)
  BY DEF Single
<1>2. \A g \in Packed(part) : \E e \in part : g.time = e.time /\ g.obj = e.obj
  BY PackedEntries
<1>3. Single(Packed(part))
  BY <1>1, PackedEntries
<1>4. ASSUME NEW g \in Packed(part)
      PROVE  g.obj \in S /\ g.time \in Nat \ {0} /\ key2[g.obj] = g.time
  <2>1. PICK e \in part : g.time = e.time /\ g.obj = e.obj
    BY <1>2
  <2> QED BY <2>1 DEF Keyed
<1> QED BY <1>2, <1>3, <1>4 DEF Keyed

\* Without() takes the object's only entry out of a list in order.
LEMMA WithoutOK ==
    ASSUME NEW S, NEW key, NEW l, Keyed(l, key, S), Single(l), NEW o,
           NEW key2, \A x \in S : x # o => key2[x] = key[x]
    PROVE  /\ Keyed(Without(l, key[o], o), key2, S)
           /\ Single(Without(l, key[o], o))
           /\ \A g \in Without(l, key[o], o) : g.obj # o /\ \E e \in l : e.obj = g.obj
<1> DEFINE part == {e \in l : e.time # key[o] \/ e.obj # o}
<1>1. \A e \in part : e.obj # o /\ e.obj \in S
  BY DEF Keyed
<1>2. Without(l, key[o], o) = Packed(part)
  BY DEF Without
<1>3. part \in SUBSET l /\ \A e \in part : key2[e.obj] = key[e.obj]
  BY <1>1
<1> HIDE DEF part
<1> QED BY <1>1, <1>2, <1>3, PackedPart

\* Moved() gives the object one entry, under its new time, or none.
LEMMA MovedOK ==
    ASSUME NEW S, NEW key, NEW l, Keyed(l, key, S), Single(l), NEW o \in S,
           NEW t \in Nat \ {0}, NEW listable \in BOOLEAN,
           NEW key2, \A x \in S : x # o => key2[x] = key[x], key2[o] = t
    PROVE  /\ Keyed(Moved(l, key[o], t, o, listable), key2, S)
           /\ Single(Moved(l, key[o], t, o, listable))
           /\ \A g \in Moved(l, key[o], t, o, listable) :
                  \/ g.obj = o /\ listable
                  \/ g.obj # o /\ \E e \in l : e.obj = g.obj
<1> DEFINE rest == Without(l, key[o], o)
           age == Cardinality({e \in rest : e.time = t})
<1>1. /\ Keyed(rest, key2, S) /\ Single(rest)
      /\ \A g \in rest : g.obj # o /\ \E e \in l : e.obj = g.obj
  BY WithoutOK
<1>2. Moved(l, key[o], t, o, listable) =
          IF listable THEN rest \cup {[time |-> t, age |-> age, obj |-> o]} ELSE rest
  BY DEF Moved, Inserted
<1> HIDE DEF rest, age
<1> QED BY <1>1, <1>2 DEF Keyed, Single

\* An object without an entry is given one, whatever time is looked for.
LEMMA NewOK ==
    ASSUME NEW S, NEW key, NEW l, Keyed(l, key, S), Single(l), NEW o \in S,
           \A e \in l : e.obj # o, NEW old,
           NEW t \in Nat \ {0}, NEW listable \in BOOLEAN,
           NEW key2, \A x \in S : x # o => key2[x] = key[x], key2[o] = t
    PROVE  /\ Keyed(Moved(l, old, t, o, listable), key2, S)
           /\ Single(Moved(l, old, t, o, listable))
           /\ \A g \in Moved(l, old, t, o, listable) :
                  \/ g.obj = o
                  \/ g.obj # o /\ \E e \in l : e.obj = g.obj
<1> DEFINE rest == Without(l, old, o)
           age == Cardinality({e \in rest : e.time = t})
<1>1. rest = Packed(l)
  <2>1. {e \in l : e.time # old \/ e.obj # o} = l
    OBVIOUS
  <2> QED BY <2>1 DEF Without
<1>2. \A e \in l : key2[e.obj] = key[e.obj]
  BY DEF Keyed
<1>3. /\ Keyed(rest, key2, S) /\ Single(rest)
      /\ \A g \in rest : \E e \in l : e.obj = g.obj
  BY <1>1, <1>2, PackedPart
<1>4. Moved(l, old, t, o, listable) =
          IF listable THEN rest \cup {[time |-> t, age |-> age, obj |-> o]} ELSE rest
  BY DEF Moved, Inserted
<1> HIDE DEF rest, age
<1> QED BY <1>3, <1>4 DEF Keyed, Single

-----------------------------------------------------------------------------
(***************************************************************************)
(* The parts of the invariant, per action                                  *)
(***************************************************************************)

\* PeriodicAdded() and PeriodicDeleted() keep the list of periodic ticks in order.
LEMMA PeriodicAddedOK ==
    ASSUME IInv, NEW c \in Chars, NEW next \in Nat \ {0}, PeriodicAdded(c, next)
    PROVE  /\ ptick' \in [Chars -> Nat]
           /\ Keyed(plist', ptick', Chars) /\ Single(plist')
           /\ \A g \in plist' : g.obj = c \/ \E e \in plist : e.obj = g.obj
<1>1. CASE next # ptick[c]
  <2>1. /\ plist' = Moved(plist, ptick[c], next, c, TRUE)
        /\ ptick' = [ptick EXCEPT ![c] = next]
    BY <1>1 DEF PeriodicAdded
  <2>2. /\ ptick' \in [Chars -> Nat] /\ ptick'[c] = next
        /\ \A x \in Chars : x # c => ptick'[x] = ptick[x]
    BY <2>1 DEF IInv, TypeOK
  <2>3. Keyed(plist, ptick, Chars) /\ Single(plist)
    BY DEF IInv
  <2> DEFINE listable == TRUE
  <2>4. listable \in BOOLEAN
    OBVIOUS
  <2>5. plist' = Moved(plist, ptick[c], next, c, listable)
    BY <2>1
  <2> HIDE DEF listable
  <2>6. /\ Keyed(Moved(plist, ptick[c], next, c, listable), ptick', Chars)
        /\ Single(Moved(plist, ptick[c], next, c, listable))
        /\ \A g \in Moved(plist, ptick[c], next, c, listable) :
              \/ g.obj = c /\ listable
              \/ g.obj # c /\ \E e \in plist : e.obj = g.obj
    BY <2>2, <2>3, <2>4, MovedOK
  <2> QED BY <2>2, <2>5, <2>6
<1>2. CASE next = ptick[c]
  BY <1>2 DEF PeriodicAdded, IInv, TypeOK
<1> QED BY <1>1, <1>2

LEMMA PeriodicDeletedOK ==
    ASSUME IInv, NEW c \in Chars, PeriodicDeleted(c)
    PROVE  /\ ptick' \in [Chars -> Nat]
           /\ Keyed(plist', ptick', Chars) /\ Single(plist')
           /\ \A g \in plist' : \E e \in plist : e.obj = g.obj
<1>1. CASE \E e \in plist : e.time = ptick[c] /\ e.obj = c
  <2>1. /\ plist' = Without(plist, ptick[c], c)
        /\ ptick' = [ptick EXCEPT ![c] = 0]
    BY <1>1 DEF PeriodicDeleted
  <2>2. /\ ptick' \in [Chars -> Nat]
        /\ \A x \in Chars : x # c => ptick'[x] = ptick[x]
    BY <2>1 DEF IInv, TypeOK
  <2>3. Keyed(plist, ptick, Chars) /\ Single(plist)
    BY DEF IInv
  <2>4. /\ Keyed(Without(plist, ptick[c], c), ptick', Chars)
        /\ Single(Without(plist, ptick[c], c))
        /\ \A g \in Without(plist, ptick[c], c) : \E e \in plist : e.obj = g.obj
    BY <2>2, <2>3, WithoutOK
  <2> QED BY <2>1, <2>2, <2>4
<1>2. CASE ~\E e \in plist : e.time = ptick[c] /\ e.obj = c
  BY <1>2 DEF PeriodicDeleted, IInv, TypeOK
<1> QED BY <1>1, <1>2

\* The same of the list of timers: an entry leaves it ...
LEMMA TimerGone ==
    ASSUME IInv, NEW o \in Objects, list' = Without(list, timeout[o], o),
           \A x \in Objects : x # o => timeout'[x] = timeout[x]
    PROVE  /\ Keyed(list', timeout', Objects) /\ Single(list')
           /\ \A g \in list' : g.obj # o /\ \E e \in list : e.obj = g.obj
<1>1. Keyed(list, timeout, Objects) /\ Single(list)
  BY DEF IInv
<1> QED BY <1>1, WithoutOK

\* ... or moves.
LEMMA TimerMoved ==
    ASSUME IInv, NEW o \in Objects, NEW t \in Nat \ {0}, NEW listable \in BOOLEAN,
           list' = Moved(list, timeout[o], t, o, listable), timeout'[o] = t,
           \A x \in Objects : x # o => timeout'[x] = timeout[x]
    PROVE  /\ Keyed(list', timeout', Objects) /\ Single(list')
           /\ \A g \in list' : g.obj = o \/ \E e \in list : e.obj = g.obj
<1>1. Keyed(list, timeout, Objects) /\ Single(list)
  BY DEF IInv
<1> QED BY <1>1, MovedOK

\* A thing that sleeps loses its entries; the rest stay as they were.
LEMMA FallsAsleepOK ==
    ASSUME IInv, NEW o \in Things, FallsAsleep(o),
           timeout' \in [Objects -> Nat],
           \A x \in Objects : x # o => timeout'[x] = timeout[x]
    PROVE  /\ asleep' = [asleep EXCEPT ![o] = TRUE] /\ updates' \subseteq updates
           /\ ptick' \in [Chars -> Nat]
           /\ Keyed(list', timeout', Objects) /\ Single(list')
           /\ Keyed(plist', ptick', Chars) /\ Single(plist')
           /\ \A g \in list' : g.obj # o /\ \E e \in list : e.obj = g.obj
           /\ \A g \in plist' : \E e \in plist : e.obj = g.obj
<1>1. /\ asleep' = [asleep EXCEPT ![o] = TRUE]
      /\ list' = Without(list, timeout[o], o)
      /\ updates' = updates \ {o}
      /\ IF o \in Chars THEN PeriodicDeleted(o) ELSE UNCHANGED <<plist, ptick>>
  BY DEF FallsAsleep
<1>2. /\ Keyed(list', timeout', Objects) /\ Single(list')
      /\ \A g \in list' : g.obj # o /\ \E e \in list : e.obj = g.obj
  BY <1>1, TimerGone DEF Objects
<1>3. /\ ptick' \in [Chars -> Nat]
      /\ Keyed(plist', ptick', Chars) /\ Single(plist')
      /\ \A g \in plist' : \E e \in plist : e.obj = g.obj
  <2>1. CASE o \in Chars
    BY <1>1, <2>1, PeriodicDeletedOK
  <2>2. CASE o \notin Chars
    BY <1>1, <2>2 DEF IInv, TypeOK
  <2> QED BY <2>1, <2>2
<1> QED BY <1>1, <1>2, <1>3
\* A thing that wakes has an entry in each list at most.
LEMMA AwakesOK ==
    ASSUME IInv, NEW o \in Things, NEW drawn \in Nat, life[o] = "live", Awakes(o, drawn)
    PROVE  /\ asleep' = [asleep EXCEPT ![o] = FALSE]
           /\ timeout' \in [Objects -> Nat] /\ ptick' \in [Chars -> Nat]
           /\ updates' \subseteq updates \cup {o}
           /\ Keyed(list', timeout', Objects) /\ Single(list')
           /\ Keyed(plist', ptick', Chars) /\ Single(plist')
           /\ \A g \in list' : g.obj = o \/ \E e \in list : e.obj = g.obj
           /\ \A g \in plist' : g.obj = o \/ \E e \in plist : e.obj = g.obj
<1> DEFINE late == timeout[o] \in 1..(now - 1) /\ (o \in Items => place'[o] # "box")
           kept == IF late THEN now + 1 ELSE timeout[o]
           next == IF o \in Chars THEN now + drawn ELSE kept
<1>1. /\ asleep' = [asleep EXCEPT ![o] = FALSE]
      /\ timeout' = [timeout EXCEPT ![o] = next]
      /\ list' = AwakeList(o, kept, drawn)
      /\ updates' \subseteq updates \cup {o}
      /\ IF o \in Chars THEN PeriodicAdded(o, regen[o]) ELSE UNCHANGED <<plist, ptick>>
  BY DEF Awakes
<1>2. o \in Objects /\ now \in Nat \ {0} /\ timeout \in [Objects -> Nat]
      /\ timeout[o] \in Nat /\ ptick \in [Chars -> Nat] /\ regen \in [Chars -> Nat]
  BY DEF IInv, TypeOK, Objects
<1>3. next \in Nat /\ kept \in Nat /\ now + drawn \in Nat \ {0}
      /\ (timeout[o] # 0 => kept # 0) /\ (timeout[o] = 0 => kept = 0)
  BY <1>2
<1>4. timeout' \in [Objects -> Nat] /\ timeout'[o] = next
      /\ \A x \in Objects : x # o => timeout'[x] = timeout[x]
  BY <1>1, <1>2, <1>3
<1> HIDE DEF kept, next
<1>5. /\ Keyed(list', timeout', Objects) /\ Single(list')
      /\ \A g \in list' : g.obj = o \/ \E e \in list : e.obj = g.obj
  <2>1. CASE o \in Chars
    <3> DEFINE listable == place'[o] = "world"
    <3>1. listable \in BOOLEAN
      OBVIOUS
    <3>2. list' = Moved(list, timeout[o], now + drawn, o, listable)
      BY <1>1, <2>1 DEF AwakeList
    <3>3. timeout'[o] = now + drawn
      BY <1>4, <2>1 DEF next
    <3> HIDE DEF listable
    <3> QED BY <1>2, <1>3, <1>4, <3>1, <3>2, <3>3, TimerMoved
  <2>2. CASE o \notin Chars /\ timeout[o] # 0
    <3> DEFINE listable == TRUE
    <3>1. listable \in BOOLEAN
      OBVIOUS
    <3>2. list' = Moved(list, timeout[o], kept, o, listable)
      BY <1>1, <2>2 DEF AwakeList
    <3>3. timeout'[o] = kept /\ kept \in Nat \ {0}
      BY <1>3, <1>4, <2>2 DEF next
    <3> HIDE DEF listable
    <3> QED BY <1>2, <1>4, <3>1, <3>2, <3>3, TimerMoved
  <2>3. CASE o \notin Chars /\ timeout[o] = 0
    <3>1. list' = list
      BY <1>1, <2>3 DEF AwakeList
    <3>2. timeout'[o] = timeout[o]
      BY <1>3, <1>4, <2>3 DEF next
    <3> QED BY <1>4, <3>1, <3>2 DEF IInv, Keyed
  <2> QED BY <2>1, <2>2, <2>3
<1>6. /\ ptick' \in [Chars -> Nat]
      /\ Keyed(plist', ptick', Chars) /\ Single(plist')
      /\ \A g \in plist' : g.obj = o \/ \E e \in plist : e.obj = g.obj
  <2>1. CASE o \in Chars
    <3>1. regen[o] \in Nat \ {0}
      BY <1>2, <2>1 DEF IInv, RegenOK
    <3> QED BY <1>1, <2>1, <3>1, PeriodicAddedOK
  <2>2. CASE o \notin Chars
    BY <1>1, <1>2, <2>2 DEF IInv
  <2> QED BY <2>1, <2>2
<1> QED BY <1>1, <1>4, <1>5, <1>6

\* A deleted thing has no timer and sleeps; nothing is destroyed yet.
LEMMA DeletesOK ==
    ASSUME IInv, NEW o \in Things, life[o] # "gone", Deletes(o)
    PROVE  /\ life' \in [Objects -> {"gone", "live", "doomed"}]
           /\ \A x \in Objects : life'[x] = "gone" <=> life[x] = "gone"
           /\ \A x \in Things : x # o => life'[x] = life[x]
           /\ asleep' = [asleep EXCEPT ![o] = TRUE]
           /\ place' \in [Things -> Places]
           /\ timeout' \in [Objects -> Nat] /\ ptick' \in [Chars -> Nat]
           /\ updates' \subseteq updates
           /\ Keyed(list', timeout', Objects) /\ Single(list')
           /\ Keyed(plist', ptick', Chars) /\ Single(plist')
           /\ \A g \in list' : g.obj # o /\ \E e \in list : e.obj = g.obj
           /\ \A g \in plist' : \E e \in plist : e.obj = g.obj
<1> DEFINE late == place[o] = "box" /\ timeout[o] \in 1..(now - 1)
           next == IF late THEN now + 1 ELSE timeout[o]
<1>1. /\ asleep' = [asleep EXCEPT ![o] = TRUE]
      /\ place' = [place EXCEPT ![o] = "nowhere"]
      /\ timeout' = [timeout EXCEPT ![o] = next]
      /\ list' = Without(list, timeout[o], o)
      /\ updates' = updates \ {o}
      /\ IF o \in Chars THEN PeriodicDeleted(o) ELSE UNCHANGED <<plist, ptick>>
  BY DEF Deletes
<1>2. /\ o \in Objects /\ now \in Nat /\ timeout \in [Objects -> Nat]
      /\ place \in [Things -> Places] /\ ptick \in [Chars -> Nat]
      /\ life \in [Objects -> {"gone", "live", "doomed"}]
  BY DEF IInv, TypeOK, Objects
<1>3. PICK its \in SUBSET {f \in Funcs : life[f] = "live"} :
          life' = [x \in Objects |-> IF x \in its \cup {o} THEN "doomed" ELSE life[x]]
  BY DEF Deletes
<1>4. /\ life' \in [Objects -> {"gone", "live", "doomed"}]
      /\ \A x \in Objects : life'[x] = "gone" <=> life[x] = "gone"
      /\ \A x \in Things : x # o => life'[x] = life[x]
  <2>1. \A x \in Things : x \in Objects /\ x \notin its
    BY ConstantsAssumption DEF Things, Objects
  <2>2. life' \in [Objects -> {"gone", "live", "doomed"}]
    BY <1>2, <1>3
  <2>3. \A x \in Objects : life'[x] = "gone" <=> life[x] = "gone"
    BY <1>2, <1>3
  <2> QED BY <1>3, <2>1, <2>2, <2>3
<1>5. /\ place' \in [Things -> Places] /\ timeout' \in [Objects -> Nat]
      /\ \A x \in Objects : x # o => timeout'[x] = timeout[x]
  BY <1>1, <1>2 DEF Places
<1>6. /\ Keyed(list', timeout', Objects) /\ Single(list')
      /\ \A g \in list' : g.obj # o /\ \E e \in list : e.obj = g.obj
  BY <1>1, <1>2, <1>5, TimerGone
<1>7. /\ ptick' \in [Chars -> Nat]
      /\ Keyed(plist', ptick', Chars) /\ Single(plist')
      /\ \A g \in plist' : \E e \in plist : e.obj = g.obj
  <2>1. CASE o \in Chars
    BY <1>1, <2>1, PeriodicDeletedOK
  <2>2. CASE o \notin Chars
    BY <1>1, <1>2, <2>2 DEF IInv
  <2> QED BY <2>1, <2>2
<1> QED BY <1>1, <1>4, <1>5, <1>6, <1>7

\* What a step on the object o that leaves all lives as they are has to show.
LEMMA StepKeeps ==
    ASSUME IInv, NEW o \in Objects, life[o] # "gone", UNCHANGED <<now, stage, life>>,
           picked' \subseteq picked,
           place' \in [Things -> Places], asleep' \in [Things -> BOOLEAN],
           timeout' \in [Objects -> Nat], ptick' \in [Chars -> Nat],
           regen' \in [Chars -> Nat],
           \A c \in Chars : regen'[c] = regen[c] \/ regen'[c] # 0,
           updates' \subseteq updates \cup (Things \cap {o}),
           Keyed(list', timeout', Objects), Single(list'),
           Keyed(plist', ptick', Chars), Single(plist'),
           \A g \in list' : \/ g.obj = o /\ life[o] = "live"
                            \/ \E e \in list : e.obj = g.obj,
           \A g \in plist' : g.obj = o \/ \E e \in plist : e.obj = g.obj,
           \A x \in Things : asleep'[x] \/ ~asleep[x] \/ life[x] = "live"
    PROVE  IInv'
<1> USE DEF IInv
<1>1. TypeOK'
  <2>1. \A e \in list' \cup picked' : e.time \in Nat /\ e.obj \in Objects
    BY DEF TypeOK, Keyed
  <2>2. \A e \in plist' : e.time \in Nat /\ e.obj \in Chars
    BY DEF Keyed
  <2>3. updates' \subseteq Things
    BY DEF TypeOK
  <2>4. /\ now' \in Nat \ {0} /\ stage' \in {"game", "status", "timers", "chars"}
        /\ life' \in [Objects -> {"gone", "live", "doomed"}]
    BY DEF TypeOK
  <2> QED BY <2>1, <2>2, <2>3, <2>4 DEF TypeOK
<1>2. NothingDangles'
  <2>1. \A g \in list' \cup plist' \cup picked' : life'[g.obj] # "gone"
    BY DEF NothingDangles
  <2>2. \A x \in updates' : life'[x] # "gone"
    BY DEF NothingDangles
  <2> QED BY <2>1, <2>2 DEF NothingDangles
<1>3. SelectionEnds'
  <2>1. \A x \in Things : life'[x] = "doomed" => asleep'[x]
    BY DEF SelectionEnds
  <2>2. \A g \in list' : g.obj \in Things => life'[g.obj] = "live"
    BY DEF SelectionEnds
  <2> QED BY <2>1, <2>2 DEF SelectionEnds
<1>4. PickedOK' /\ RegenOK'
  BY DEF PickedOK, RegenOK, Single
<1> QED BY <1>1, <1>2, <1>3, <1>4

-----------------------------------------------------------------------------
(***************************************************************************)
(* What code does                                                          *)
(***************************************************************************)

LEMMA Facts ==
    ASSUME IInv
    PROVE  /\ Things \subseteq Objects /\ Chars \subseteq Things /\ Items \subseteq Things
           /\ Funcs \subseteq Objects /\ Funcs \cap Things = {} /\ Items \cap Chars = {}
           /\ now \in Nat \ {0} /\ life \in [Objects -> {"gone", "live", "doomed"}]
           /\ place \in [Things -> Places] /\ asleep \in [Things -> BOOLEAN]
           /\ timeout \in [Objects -> Nat]
           /\ regen \in [Chars -> Nat] /\ ptick \in [Chars -> Nat]
           /\ updates \subseteq Things
           /\ Keyed(list, timeout, Objects) /\ Single(list)
           /\ Keyed(plist, ptick, Chars) /\ Single(plist)
           /\ \A d \in Delays : d \in Nat
BY ConstantsAssumption DEF IInv, TypeOK, Things, Objects

LEMMA SetTimeoutKeeps ==
    ASSUME IInv, NEW o \in Objects, NEW delay \in Nat, SetTimeout(o, delay) PROVE IInv'
<1> DEFINE listable == Listable(o)
           t == now + delay
<1>1. /\ life[o] = "live"
      /\ timeout' = [timeout EXCEPT ![o] = t]
      /\ list' = Moved(list, timeout[o], t, o, listable)
      /\ UNCHANGED <<now, stage, picked, life, place, asleep, regen, ptick, plist, updates>>
  BY DEF SetTimeout
<1>2. listable \in BOOLEAN
  BY DEF Listable, Able
<1>3. /\ t \in Nat \ {0} /\ timeout' \in [Objects -> Nat] /\ timeout'[o] = t
      /\ \A x \in Objects : x # o => timeout'[x] = timeout[x]
  BY <1>1, Facts
<1> HIDE DEF listable, t
<1>4. /\ Keyed(list', timeout', Objects) /\ Single(list')
      /\ \A g \in list' : g.obj = o \/ \E e \in list : e.obj = g.obj
  BY <1>1, <1>2, <1>3, TimerMoved
<1> QED BY <1>1, <1>3, <1>4, Facts, StepKeeps

LEMMA ClearTimerKeeps ==
    ASSUME IInv, NEW o \in Objects, ClearTimer(o) PROVE IInv'
<1>1. /\ life[o] = "live"
      /\ timeout' = [timeout EXCEPT ![o] = 0]
      /\ list' = Without(list, timeout[o], o)
      /\ UNCHANGED <<now, stage, picked, life, place, asleep, regen, ptick, plist, updates>>
  BY DEF ClearTimer
<1>2. /\ timeout' \in [Objects -> Nat]
      /\ \A x \in Objects : x # o => timeout'[x] = timeout[x]
  BY <1>1, Facts
<1>3. /\ Keyed(list', timeout', Objects) /\ Single(list')
      /\ \A g \in list' : g.obj # o /\ \E e \in list : e.obj = g.obj
  BY <1>1, <1>2, TimerGone
<1> QED BY <1>1, <1>2, <1>3, Facts, StepKeeps

LEMMA PropertiesChangeKeeps ==
    ASSUME IInv, NEW o \in Things, PropertiesChange(o) PROVE IInv'
<1>1. /\ life[o] # "gone" /\ o \in Objects /\ updates' \subseteq updates \cup (Things \cap {o})
      /\ UNCHANGED <<now, stage, picked, life, place, asleep, timeout, regen, ptick,
                     list, plist>>
  BY Facts DEF PropertiesChange
<1> QED BY <1>1, Facts, StepKeeps

LEMMA StrengthGoneKeeps ==
    ASSUME IInv, NEW o \in Things, StrengthGone(o) PROVE IInv'
<1>1. /\ o \in Chars /\ life[o] # "gone" /\ PeriodicAdded(o, regen[o])
      /\ UNCHANGED <<now, stage, picked, life, place, asleep, timeout, regen, list, updates>>
  BY DEF StrengthGone
<1>2. regen[o] \in Nat \ {0} /\ o \in Objects
  BY <1>1, Facts DEF IInv, RegenOK
<1>3. /\ ptick' \in [Chars -> Nat]
      /\ Keyed(plist', ptick', Chars) /\ Single(plist')
      /\ \A g \in plist' : g.obj = o \/ \E e \in plist : e.obj = g.obj
  BY <1>1, <1>2, PeriodicAddedOK
<1> QED BY <1>1, <1>2, <1>3, Facts, StepKeeps

\* Awakes() and FallsAsleep() are all that the moves do to the lists.
LEMMA AwakesKeeps ==
    ASSUME IInv, NEW o \in Things, NEW drawn \in Nat, life[o] = "live", Awakes(o, drawn),
           place' \in [Things -> Places], UNCHANGED <<now, stage, picked, life, regen>>
    PROVE  IInv'
<1>1. /\ asleep' = [asleep EXCEPT ![o] = FALSE]
      /\ timeout' \in [Objects -> Nat] /\ ptick' \in [Chars -> Nat]
      /\ updates' \subseteq updates \cup {o}
      /\ Keyed(list', timeout', Objects) /\ Single(list')
      /\ Keyed(plist', ptick', Chars) /\ Single(plist')
      /\ \A g \in list' : g.obj = o \/ \E e \in list : e.obj = g.obj
      /\ \A g \in plist' : g.obj = o \/ \E e \in plist : e.obj = g.obj
  BY AwakesOK
<1>2. /\ asleep' \in [Things -> BOOLEAN]
      /\ \A x \in Things : asleep'[x] \/ ~asleep[x] \/ life[x] = "live"
  BY <1>1, Facts
<1> QED BY <1>1, <1>2, Facts, StepKeeps

LEMMA FallsAsleepKeeps ==
    ASSUME IInv, NEW o \in Things, life[o] # "gone", FallsAsleep(o), timeout' = timeout,
           place' \in [Things -> Places], UNCHANGED <<now, stage, picked, life, regen>>
    PROVE  IInv'
<1>1. /\ asleep' = [asleep EXCEPT ![o] = TRUE] /\ updates' \subseteq updates
      /\ ptick' \in [Chars -> Nat]
      /\ Keyed(list', timeout', Objects) /\ Single(list')
      /\ Keyed(plist', ptick', Chars) /\ Single(plist')
      /\ \A g \in list' : g.obj # o /\ \E e \in list : e.obj = g.obj
      /\ \A g \in plist' : \E e \in plist : e.obj = g.obj
  BY Facts, FallsAsleepOK
<1>2. /\ asleep' \in [Things -> BOOLEAN]
      /\ \A x \in Things : asleep'[x] \/ ~asleep[x]
  BY <1>1, Facts
<1> QED BY <1>1, <1>2, Facts, StepKeeps

LEMMA GoAwakeKeeps ==
    ASSUME IInv, NEW o \in Things, NEW drawn \in Nat, GoAwake(o, drawn) PROVE IInv'
BY Facts, AwakesKeeps DEF GoAwake

LEMMA GoSleepKeeps ==
    ASSUME IInv, NEW o \in Things, GoSleep(o) PROVE IInv'
BY Facts, FallsAsleepKeeps DEF GoSleep

LEMMA MoveToSectorKeeps ==
    ASSUME IInv, NEW o \in Things, NEW drawn \in Nat, MoveToSector(o, drawn) PROVE IInv'
<1>1. /\ life[o] = "live" /\ o \in Objects /\ place' = [place EXCEPT ![o] = "world"]
      /\ UNCHANGED <<now, stage, picked, life, regen>>
  BY Facts DEF MoveToSector
<1>2. place' \in [Things -> Places]
  BY <1>1, Facts DEF Places
<1>3. CASE Awakes(o, drawn)
  BY <1>1, <1>2, <1>3, AwakesKeeps
<1>4. CASE FallsAsleep(o) /\ UNCHANGED timeout
  BY <1>1, <1>2, <1>4, FallsAsleepKeeps
<1>5. CASE UNCHANGED <<asleep, timeout, list, updates, plist, ptick>>
  BY <1>1, <1>2, <1>5, Facts, StepKeeps
<1> QED BY <1>3, <1>4, <1>5 DEF MoveToSector

LEMMA PutInBoxKeeps ==
    ASSUME IInv, NEW o \in Things, PutInBox(o) PROVE IInv'
<1>1. /\ o \in Objects /\ life[o] = "live"
      /\ place' = [place EXCEPT ![o] = "box"]
      /\ asleep' = [asleep EXCEPT ![o] = TRUE]
      /\ updates' \subseteq updates
      /\ \/ /\ timeout' = [timeout EXCEPT ![o] = 0]
            /\ list' = Without(list, timeout[o], o)
         \/ /\ list' = list \/ list' = Without(list, timeout[o], o)
            /\ timeout' = timeout
      /\ UNCHANGED <<now, stage, picked, life, regen, plist, ptick>>
  BY Facts DEF PutInBox
<1>2. /\ place' \in [Things -> Places] /\ asleep' \in [Things -> BOOLEAN]
      /\ \A x \in Things : asleep'[x] \/ ~asleep[x]
  BY <1>1, Facts DEF Places
<1>3. /\ timeout' \in [Objects -> Nat]
      /\ \A x \in Objects : x # o => timeout'[x] = timeout[x]
  BY <1>1, Facts
<1>4. /\ Keyed(list', timeout', Objects) /\ Single(list')
      /\ \A g \in list' : \E e \in list : e.obj = g.obj
  <2>1. CASE list' = Without(list, timeout[o], o)
    <3>1. /\ Keyed(list', timeout', Objects) /\ Single(list')
          /\ \A g \in list' : g.obj # o /\ \E e \in list : e.obj = g.obj
      BY <1>1, <1>3, <2>1, TimerGone
    <3> QED BY <3>1
  <2>2. CASE list' = list /\ timeout' = timeout
    BY <2>2, Facts
  <2> QED BY <1>1, <2>1, <2>2
<1> QED BY <1>1, <1>2, <1>3, <1>4, Facts, StepKeeps

LEMMA TakeOutOfBoxKeeps ==
    ASSUME IInv, NEW o \in Things, NEW drawn \in Nat, TakeOutOfBox(o, drawn) PROVE IInv'
<1>1. place' \in [Things -> Places]
  BY Facts DEF TakeOutOfBox, Places
<1> QED BY <1>1, AwakesKeeps DEF TakeOutOfBox

LEMMA SetDisconnectedKeeps ==
    ASSUME IInv, NEW o \in Things, SetDisconnected(o) PROVE IInv'
<1>1. /\ life[o] = "live" /\ o \in Objects /\ place' = [place EXCEPT ![o] = "off"]
      /\ UNCHANGED <<now, stage, picked, life, timeout, regen>>
      /\ FallsAsleep(o) \/ UNCHANGED <<asleep, list, updates, plist, ptick>>
  BY Facts DEF SetDisconnected
<1>2. place' \in [Things -> Places]
  BY <1>1, Facts DEF Places
<1>3. CASE FallsAsleep(o)
  BY <1>1, <1>2, <1>3, FallsAsleepKeeps
<1>4. CASE UNCHANGED <<asleep, list, updates, plist, ptick>>
  BY <1>1, <1>2, <1>4, Facts, StepKeeps
<1> QED BY <1>1, <1>3, <1>4
\* A deletion, from code or at the end of what was picked
LEMMA DeletesKeeps ==
    ASSUME IInv, NEW o \in Things, life[o] # "gone", Deletes(o), UNCHANGED <<now, stage>>,
           picked' \subseteq picked, regen' \in [Chars -> Nat],
           \A c \in Chars : regen'[c] = regen[c] \/ regen'[c] # 0
    PROVE  IInv'
<1> USE DEF IInv
<1>1. /\ life' \in [Objects -> {"gone", "live", "doomed"}]
      /\ \A x \in Objects : life'[x] = "gone" <=> life[x] = "gone"
      /\ \A x \in Things : x # o => life'[x] = life[x]
      /\ asleep' = [asleep EXCEPT ![o] = TRUE]
      /\ place' \in [Things -> Places]
      /\ timeout' \in [Objects -> Nat] /\ ptick' \in [Chars -> Nat]
      /\ updates' \subseteq updates
      /\ Keyed(list', timeout', Objects) /\ Single(list')
      /\ Keyed(plist', ptick', Chars) /\ Single(plist')
      /\ \A g \in list' : g.obj # o /\ \E e \in list : e.obj = g.obj
      /\ \A g \in plist' : \E e \in plist : e.obj = g.obj
  BY DeletesOK
<1>2. TypeOK'
  <2>1. \A e \in list' \cup picked' : e.time \in Nat /\ e.obj \in Objects
    BY <1>1 DEF TypeOK, Keyed
  <2>2. \A e \in plist' : e.time \in Nat /\ e.obj \in Chars
    BY <1>1 DEF Keyed
  <2>3. /\ now' \in Nat \ {0} /\ stage' \in {"game", "status", "timers", "chars"}
        /\ asleep' \in [Things -> BOOLEAN] /\ updates' \subseteq Things
    BY <1>1 DEF TypeOK
  <2> QED BY <1>1, <2>1, <2>2, <2>3 DEF TypeOK
<1>3. NothingDangles'
  <2>1. \A g \in list' \cup plist' \cup picked' :
            g.obj \in Objects /\ life[g.obj] # "gone"
    BY <1>1, Facts DEF NothingDangles, Keyed, TypeOK
  <2>2. \A x \in updates' : x \in Objects /\ life[x] # "gone"
    BY <1>1, Facts DEF NothingDangles
  <2> QED BY <1>1, <2>1, <2>2 DEF NothingDangles
<1>4. SelectionEnds'
  <2>1. ASSUME NEW x \in Things, life'[x] = "doomed" PROVE asleep'[x]
    BY <1>1, <2>1, Facts DEF SelectionEnds
  <2>2. \A g \in list' : g.obj \in Things => life'[g.obj] = "live"
    BY <1>1 DEF SelectionEnds
  <2> QED BY <2>1, <2>2 DEF SelectionEnds
<1>5. PickedOK'
  BY DEF PickedOK, Single
<1>6. RegenOK'
  BY <1>1, Facts DEF RegenOK
<1> QED BY <1>1, <1>2, <1>3, <1>4, <1>5, <1>6

LEMMA DeleteKeeps ==
    ASSUME IInv, NEW o \in Things, Delete(o) PROVE IInv'
<1>1. /\ life[o] # "gone" /\ Deletes(o) /\ UNCHANGED <<now, stage>>
      /\ picked' \subseteq picked /\ regen' = regen
  BY DEF Delete
<1> QED BY <1>1, Facts, DeletesKeeps

LEMMA CreateKeeps ==
    ASSUME IInv, NEW o \in Things, Create(o) PROVE IInv'
<1> USE DEF IInv
<1>1. /\ o \in Objects /\ life[o] = "gone"
      /\ life' = [life EXCEPT ![o] = "live"]
      /\ regen' = IF o \in Chars THEN [regen EXCEPT ![o] = now + FirstRegen] ELSE regen
      /\ UNCHANGED <<now, stage, picked, place, asleep, timeout, ptick, list, plist, updates>>
  BY Facts DEF Create
<1>2. now + FirstRegen \in Nat \ {0}
  BY Facts, ConstantsAssumption
<1>3. /\ life' \in [Objects -> {"gone", "live", "doomed"}] /\ regen' \in [Chars -> Nat]
      /\ \A x \in Objects : life'[x] = IF x = o THEN "live" ELSE life[x]
      /\ \A c \in Chars : regen'[c] = IF c = o THEN now + FirstRegen ELSE regen[c]
  BY <1>1, <1>2, Facts
<1>4. TypeOK'
  BY <1>1, <1>3 DEF TypeOK
<1>5. Keyed(list', timeout', Objects) /\ Single(list') /\ Keyed(plist', ptick', Chars)
      /\ Single(plist')
  BY <1>1
<1>6. NothingDangles' /\ SelectionEnds'
  <2>1. \A e \in list \cup plist \cup picked : e.obj \in Objects
    BY Facts DEF TypeOK, Keyed
  <2>2. updates \subseteq Objects
    BY Facts
  <2> QED BY <1>1, <1>3, <2>1, <2>2, Facts DEF NothingDangles, SelectionEnds
<1>7. PickedOK'
  BY <1>1 DEF PickedOK
<1>8. RegenOK'
  BY <1>2, <1>3, Facts DEF RegenOK
<1> QED BY <1>4, <1>5, <1>6, <1>7, <1>8

LEMMA AddFunctionKeeps ==
    ASSUME IInv, NEW f \in Funcs, NEW delay \in Nat, AddFunction(f, delay) PROVE IInv'
<1> USE DEF IInv
<1> DEFINE listable == TRUE
           t == now + delay
<1>1. /\ f \in Objects /\ f \notin Things /\ life[f] = "gone"
      /\ life' = [life EXCEPT ![f] = "live"]
      /\ timeout' = [timeout EXCEPT ![f] = t]
      /\ list' = Moved(list, 0, t, f, listable)
      /\ UNCHANGED <<now, stage, picked, place, asleep, regen, ptick, plist, updates>>
  BY Facts DEF AddFunction
<1>2. /\ t \in Nat \ {0} /\ listable \in BOOLEAN
  BY Facts
<1> HIDE DEF t, listable
\* it has no entry, so that no time is the one to look for
<1>3. /\ Keyed(list', timeout', Objects) /\ Single(list')
      /\ \A g \in list' : \/ g.obj = f
                          \/ g.obj # f /\ \E e \in list : e.obj = g.obj
  <2>1. \A e \in list : e.obj # f
    BY <1>1 DEF NothingDangles
  <2>2. \A x \in Objects : x # f => timeout'[x] = timeout[x]
    BY <1>1, Facts
  <2>3. timeout'[f] = t
    BY <1>1, Facts
  <2>4. Keyed(list, timeout, Objects) /\ Single(list) /\ f \in Objects
    BY <1>1
  <2>5. /\ Keyed(Moved(list, 0, t, f, listable), timeout', Objects)
        /\ Single(Moved(list, 0, t, f, listable))
        /\ \A g \in Moved(list, 0, t, f, listable) :
               \/ g.obj = f
               \/ g.obj # f /\ \E e \in list : e.obj = g.obj
    BY <1>2, <2>1, <2>2, <2>3, <2>4, NewOK
  <2> QED BY <1>1, <2>5
<1>4. /\ life' \in [Objects -> {"gone", "live", "doomed"}]
      /\ timeout' \in [Objects -> Nat]
      /\ \A x \in Objects : life'[x] = IF x = f THEN "live" ELSE life[x]
  BY <1>1, <1>2, Facts
<1>5. TypeOK'
  <2>1. \A e \in list' \cup picked' : e.time \in Nat /\ e.obj \in Objects
    BY <1>1, <1>3 DEF TypeOK, Keyed
  <2> QED BY <1>1, <1>4, <2>1 DEF TypeOK
<1>6. NothingDangles' /\ SelectionEnds'
  <2>1. \A e \in list \cup plist \cup picked : e.obj \in Objects
    BY Facts DEF TypeOK, Keyed
  <2>2. updates \subseteq Objects
    BY Facts
  <2>3. \A g \in list' : life'[g.obj] # "gone" /\ (g.obj \in Things => life'[g.obj] = "live")
    BY <1>1, <1>3, <1>4, <2>1 DEF NothingDangles, SelectionEnds
  <2>4. \A g \in plist' \cup picked' : life'[g.obj] # "gone"
    BY <1>1, <1>4, <2>1 DEF NothingDangles
  <2>5. \A x \in updates' : life'[x] # "gone"
    BY <1>1, <1>4, <2>2 DEF NothingDangles
  <2>6. \A x \in Things : life'[x] = "doomed" => asleep'[x]
    BY <1>1, <1>4, Facts DEF SelectionEnds
  <2> QED BY <2>3, <2>4, <2>5, <2>6 DEF NothingDangles, SelectionEnds
<1>7. PickedOK' /\ RegenOK'
  BY <1>1, <1>4, Facts DEF PickedOK, RegenOK
<1> QED BY <1>1, <1>3, <1>5, <1>6, <1>7

LEMMA StopFunctionKeeps ==
    ASSUME IInv, NEW f \in Funcs, StopFunction(f) PROVE IInv'
<1> USE DEF IInv
<1>1. /\ f \in Objects /\ f \notin Things /\ life[f] = "live"
      /\ life' = [life EXCEPT ![f] = "doomed"]
      /\ UNCHANGED <<now, stage, picked, place, asleep, timeout, regen, ptick, list, plist,
                     updates>>
  BY Facts DEF StopFunction
<1>2. /\ life' \in [Objects -> {"gone", "live", "doomed"}]
      /\ \A x \in Objects : life'[x] = IF x = f THEN "doomed" ELSE life[x]
  BY <1>1, Facts
<1>3. TypeOK'
  BY <1>1, <1>2 DEF TypeOK
<1>4. NothingDangles' /\ SelectionEnds'
  <2>1. \A e \in list \cup plist \cup picked : e.obj \in Objects
    BY Facts DEF TypeOK, Keyed
  <2>2. updates \subseteq Objects
    BY Facts
  <2> QED BY <1>1, <1>2, <2>1, <2>2, Facts DEF NothingDangles, SelectionEnds
<1>5. PickedOK' /\ RegenOK'
  BY <1>1, <1>2, Facts DEF PickedOK, RegenOK
<1> QED BY <1>1, <1>3, <1>4, <1>5

-----------------------------------------------------------------------------
(***************************************************************************)
(* The tick                                                                *)
(***************************************************************************)

LEMMA TickBeginsKeeps ==
    ASSUME IInv, TickBegins PROVE IInv'
<1> USE DEF IInv
<1>1. /\ stage = "game" /\ stage' = "status" /\ now' \in Nat \ {0} /\ updates' = {}
      /\ UNCHANGED <<picked, life, place, asleep, timeout, regen, ptick, list, plist>>
  <2>1. PICK passed \in 1..(MaxTime - now) : now' = now + passed
    BY DEF TickBegins
  <2> QED BY <2>1, Facts DEF TickBegins
<1>2. TypeOK'
  BY <1>1 DEF TypeOK
<1>3. NothingDangles' /\ SelectionEnds'
  BY <1>1 DEF NothingDangles, SelectionEnds
<1>4. PickedOK' /\ RegenOK'
  BY <1>1 DEF PickedOK, RegenOK, Single
<1> QED BY <1>1, <1>2, <1>3, <1>4

\* What is erased in chunks holds the chosen entries.
LEMMA ErasesChosen ==
    ASSUME NEW l, NEW due, NEW chosen, NEW e \in l \ Erased(due, chosen)
    PROVE  e \in l /\ e \notin chosen
BY DEF Erased

LEMMA SelectTimersKeeps ==
    ASSUME IInv, SelectTimers PROVE IInv'
<1> USE DEF IInv
<1> DEFINE due == Due(list)
           chosen == {e \in due : Chosen(e.obj)}
<1>1. /\ stage' = "timers" /\ picked' = chosen
      /\ list' = Packed(list \ Erased(due, chosen))
      /\ timeout' = [o \in Objects |->
                       IF \E e \in chosen : e.obj = o THEN 0 ELSE timeout[o]]
      /\ UNCHANGED <<now, life, place, asleep, regen, ptick, plist, updates>>
  BY DEF SelectTimers
<1>2. due \in SUBSET list /\ chosen \in SUBSET due
  BY DEF Due
<1> HIDE DEF due, chosen
<1>3. /\ timeout' \in [Objects -> Nat]
      /\ \A x \in Objects : timeout'[x] = IF \E e \in chosen : e.obj = x THEN 0
                                         ELSE timeout[x]
  BY <1>1, Facts
<1>4. /\ Keyed(list', timeout', Objects) /\ Single(list')
      /\ \A g \in list' : \E e \in list : e.obj = g.obj
  <2> DEFINE kept == list \ Erased(due, chosen)
  <2>1. kept \in SUBSET list /\ \A e \in kept : e \notin chosen
    BY ErasesChosen
  <2>2. list' = Packed(kept)
    BY <1>1
  <2> HIDE DEF kept
  <2>3. Keyed(list, timeout, Objects) /\ Single(list)
    OBVIOUS
  <2>4. \A e \in kept : timeout'[e.obj] = timeout[e.obj]
    BY <1>2, <1>3, <2>1 DEF Keyed, Single
  <2>5. /\ Keyed(Packed(kept), timeout', Objects) /\ Single(Packed(kept))
        /\ \A g \in Packed(kept) : \E e \in kept : e.obj = g.obj
    BY <2>1, <2>3, <2>4, PackedPart
  <2> QED BY <2>1, <2>2, <2>5
<1>5. picked' \subseteq list
  BY <1>1, <1>2
<1>6. TypeOK'
  <2>1. \A e \in list' \cup picked' : e.time \in Nat /\ e.obj \in Objects
    BY <1>4, <1>5 DEF TypeOK, Keyed
  <2> QED BY <1>1, <1>3, <2>1 DEF TypeOK
<1>7. NothingDangles' /\ SelectionEnds'
  <2>1. \A g \in list' \cup plist' \cup picked' :
            \E e \in list \cup plist : e.obj = g.obj
    BY <1>1, <1>4, <1>5
  <2>2. \A g \in list' : \E e \in list : e.obj = g.obj
    BY <1>1, <1>4
  <2>3. UNCHANGED <<life, asleep, updates>>
    BY <1>1
  <2>4. NothingDangles'
    BY <2>1, <2>3 DEF NothingDangles
  <2>5. SelectionEnds'
    BY <2>2, <2>3 DEF SelectionEnds
  <2> QED BY <2>4, <2>5
<1>8. PickedOK' /\ RegenOK'
  BY <1>1, <1>5, Facts DEF PickedOK, RegenOK, Single
<1> QED BY <1>1, <1>4, <1>6, <1>7, <1>8

LEMMA SelectCharsKeeps ==
    ASSUME IInv, SelectChars PROVE IInv'
<1> USE DEF IInv
<1> DEFINE due == Due(plist)
           chosen == {e \in due : ChosenChar(e.obj)}
<1>1. /\ stage' = "chars" /\ picked' = chosen
      /\ plist' = Packed(plist \ Erased(due, chosen))
      /\ ptick' = [c \in Chars |-> IF \E e \in chosen : e.obj = c THEN 0 ELSE ptick[c]]
      /\ UNCHANGED <<now, life, place, asleep, timeout, regen, list, updates>>
  BY DEF SelectChars
<1>2. due \in SUBSET plist /\ chosen \in SUBSET due
  BY DEF Due
<1> HIDE DEF due, chosen
<1>3. /\ ptick' \in [Chars -> Nat]
      /\ \A x \in Chars : ptick'[x] = IF \E e \in chosen : e.obj = x THEN 0 ELSE ptick[x]
  BY <1>1, Facts
<1>4. /\ Keyed(plist', ptick', Chars) /\ Single(plist')
      /\ \A g \in plist' : \E e \in plist : e.obj = g.obj
  <2> DEFINE kept == plist \ Erased(due, chosen)
  <2>1. kept \in SUBSET plist /\ \A e \in kept : e \notin chosen
    BY ErasesChosen
  <2>2. plist' = Packed(kept)
    BY <1>1
  <2> HIDE DEF kept
  <2>3. Keyed(plist, ptick, Chars) /\ Single(plist)
    OBVIOUS
  <2>4. \A e \in kept : ptick'[e.obj] = ptick[e.obj]
    BY <1>2, <1>3, <2>1 DEF Keyed, Single
  <2>5. /\ Keyed(Packed(kept), ptick', Chars) /\ Single(Packed(kept))
        /\ \A g \in Packed(kept) : \E e \in kept : e.obj = g.obj
    BY <2>1, <2>3, <2>4, PackedPart
  <2> QED BY <2>1, <2>2, <2>5
<1>5. picked' \subseteq plist
  BY <1>1, <1>2
<1>6. TypeOK'
  <2>1. \A e \in plist' : e.time \in Nat /\ e.obj \in Chars
    BY <1>4 DEF Keyed
  <2>2. \A e \in list' \cup picked' : e.time \in Nat /\ e.obj \in Objects
    BY <1>1, <1>5, Facts DEF TypeOK
  <2> QED BY <1>1, <1>3, <2>1, <2>2 DEF TypeOK
<1>7. NothingDangles' /\ SelectionEnds'
  <2>1. \A g \in list' \cup plist' \cup picked' :
            \E e \in list \cup plist : e.obj = g.obj
    BY <1>1, <1>4, <1>5
  <2>2. \A g \in list' : \E e \in list : e.obj = g.obj
    BY <1>1, <1>4
  <2>3. NothingDangles'
    BY <1>1, <2>1 DEF NothingDangles
  <2>4. SelectionEnds'
    BY <1>1, <2>2 DEF SelectionEnds
  <2> QED BY <2>3, <2>4
<1>8. PickedOK' /\ RegenOK'
  BY <1>1, <1>5 DEF PickedOK, RegenOK, Single, TypeOK
<1> QED BY <1>1, <1>4, <1>6, <1>7, <1>8

LEMMA FunctionRunsKeeps ==
    ASSUME IInv, FunctionRuns PROVE IInv'
<1> USE DEF IInv
<1>1. PICK e \in picked :
         /\ e.obj \in Funcs
         /\ picked' = picked \ {e}
         /\ life' = [life EXCEPT ![e.obj] = "gone"]
         /\ timeout' = [timeout EXCEPT ![e.obj] = 0]
         /\ list' = Without(list, timeout[e.obj], e.obj)
  BY DEF FunctionRuns
<1>2. /\ stage = "timers"
      /\ UNCHANGED <<now, stage, place, asleep, regen, ptick, plist, updates>>
  BY DEF FunctionRuns
<1> DEFINE f == e.obj
<1>3. /\ f \in Objects /\ f \notin Things
      /\ life' \in [Objects -> {"gone", "live", "doomed"}]
      /\ timeout' \in [Objects -> Nat]
      /\ \A x \in Objects : x # f => life'[x] = life[x] /\ timeout'[x] = timeout[x]
  BY <1>1, Facts
<1>4. \A g \in picked' : g \in picked /\ g.obj # f
  BY <1>1 DEF PickedOK, Single
<1> HIDE DEF f
<1>5. /\ Keyed(list', timeout', Objects) /\ Single(list')
      /\ \A g \in list' : g.obj # f /\ \E d \in list : d.obj = g.obj
  <2>1. list' = Without(list, timeout[f], f)
    BY <1>1 DEF f
  <2> QED BY <1>3, <2>1, TimerGone
<1>6. TypeOK'
  <2>1. \A g \in list' \cup picked' : g.time \in Nat /\ g.obj \in Objects
    BY <1>4, <1>5 DEF TypeOK, Keyed
  <2> QED BY <1>2, <1>3, <2>1 DEF TypeOK
<1>7. NothingDangles' /\ SelectionEnds'
  <2>1. \A g \in list' \cup picked' : g.obj # f /\ g.obj \in Objects /\ life[g.obj] # "gone"
    BY <1>4, <1>5 DEF NothingDangles, TypeOK
  <2>2. \A g \in plist' : g.obj # f /\ g.obj \in Objects /\ life[g.obj] # "gone"
    BY <1>2, <1>3, Facts DEF NothingDangles, TypeOK
  <2>3. \A x \in Things : x # f /\ x \in Objects
    BY <1>3, Facts
  <2>4. \A g \in list' : g.obj \in Things => life[g.obj] = "live"
    BY <1>5 DEF SelectionEnds
  <2>5. \A g \in list' \cup plist' \cup picked' : life'[g.obj] # "gone"
    BY <1>3, <2>1, <2>2
  <2>6. \A x \in updates' : life'[x] # "gone"
    BY <1>2, <1>3, <2>3, Facts DEF NothingDangles
  <2>7. \A g \in list' : g.obj \in Things => life'[g.obj] = "live"
    BY <1>3, <2>1, <2>4
  <2>8. \A x \in Things : life'[x] = "doomed" => asleep'[x]
    BY <1>2, <1>3, <2>3 DEF SelectionEnds
  <2> QED BY <2>5, <2>6, <2>7, <2>8 DEF NothingDangles, SelectionEnds
<1>8. PickedOK'
  BY <1>2, <1>4 DEF PickedOK, Single
<1>9. RegenOK'
  BY <1>2, <1>3, Facts DEF RegenOK
<1> QED BY <1>2, <1>5, <1>6, <1>7, <1>8, <1>9

LEMMA TimerRunsKeeps ==
    ASSUME IInv, NEW delay \in Nat, TimerRuns(delay) PROVE IInv'
<1>1. PICK e \in picked :
         LET o == e.obj
         IN  /\ o \in Things
             /\ picked' = picked \ {e}
             /\ \/ /\ life[o] = "live" /\ Deletes(o)
                \/ UNCHANGED <<life, place, asleep, timeout, ptick, list, plist, updates>>
                \/ /\ o \in Chars /\ life[o] = "live" /\ timeout[o] = 0
                   /\ timeout' = [timeout EXCEPT ![o] = now + delay]
                   /\ list' = Moved(list, 0, now + delay, o, Listable(o))
                   /\ UNCHANGED <<life, place, asleep, ptick, plist, updates>>
  BY DEF TimerRuns
<1> DEFINE o == e.obj
           t == now + delay
           listable == Listable(o)
<1>2. /\ o \in Things /\ o \in Objects /\ life[o] # "gone" /\ picked' \subseteq picked
      /\ UNCHANGED <<now, stage, regen>> /\ t \in Nat \ {0} /\ listable \in BOOLEAN
  BY <1>1, Facts DEF TimerRuns, IInv, NothingDangles, Listable, Able
<1>3. CASE life[o] = "live" /\ Deletes(o)
  BY <1>2, <1>3, Facts, DeletesKeeps
<1>4. CASE UNCHANGED <<life, place, asleep, timeout, ptick, list, plist, updates>>
  BY <1>2, <1>4, Facts, StepKeeps
<1>5. CASE /\ life[o] = "live" /\ timeout[o] = 0
           /\ timeout' = [timeout EXCEPT ![o] = t]
           /\ list' = Moved(list, 0, t, o, listable)
           /\ UNCHANGED <<life, place, asleep, ptick, plist, updates>>
  <2> HIDE DEF o, t, listable
  <2>1. /\ timeout' \in [Objects -> Nat] /\ timeout'[o] = t
        /\ \A x \in Objects : x # o => timeout'[x] = timeout[x]
    BY <1>2, <1>5, Facts
  <2>2. list' = Moved(list, timeout[o], t, o, listable)
    BY <1>5
  <2>3. /\ Keyed(list', timeout', Objects) /\ Single(list')
        /\ \A g \in list' : g.obj = o \/ \E d \in list : d.obj = g.obj
    BY <1>2, <2>1, <2>2, TimerMoved
  <2> QED BY <1>2, <1>5, <2>1, <2>3, Facts, StepKeeps
<1> QED BY <1>1, <1>3, <1>4, <1>5

LEMMA CharRunsKeeps ==
    ASSUME IInv, CharRuns PROVE IInv'
<1>1. PICK e \in picked :
         LET c == e.obj
         IN  /\ picked' = picked \ {e}
             /\ regen' = [regen EXCEPT ![c] = now + TickLength]
             /\ \/ /\ PeriodicAdded(c, now + TickLength)
                   /\ UNCHANGED <<life, place, asleep, timeout, list, updates>>
                \/ Deletes(c)
  BY DEF CharRuns
<1> DEFINE c == e.obj
           next == now + TickLength
<1>2. /\ c \in Chars /\ c \in Things /\ c \in Objects /\ life[c] # "gone"
      /\ picked' \subseteq picked /\ UNCHANGED <<now, stage>> /\ next \in Nat \ {0}
  BY <1>1, Facts, ConstantsAssumption DEF CharRuns, IInv, PickedOK, NothingDangles
<1>3. /\ regen' \in [Chars -> Nat]
      /\ \A d \in Chars : regen'[d] = regen[d] \/ regen'[d] # 0
  BY <1>1, <1>2, Facts
<1>4. CASE /\ PeriodicAdded(c, next)
           /\ UNCHANGED <<life, place, asleep, timeout, list, updates>>
  <2> HIDE DEF c, next
  <2>1. /\ ptick' \in [Chars -> Nat]
        /\ Keyed(plist', ptick', Chars) /\ Single(plist')
        /\ \A g \in plist' : g.obj = c \/ \E d \in plist : d.obj = g.obj
    BY <1>2, <1>4, PeriodicAddedOK
  <2> QED BY <1>2, <1>3, <1>4, <2>1, Facts, StepKeeps
<1>5. CASE Deletes(c)
  BY <1>2, <1>3, <1>5, DeletesKeeps
<1> QED BY <1>1, <1>4, <1>5

\* The destructors take the entries out, and nothing is picked by then.
LEMMA DestroyedKeeps ==
    ASSUME IInv, NEW dead \in SUBSET Objects, Destroyed(dead), picked = {}, stage' = "game",
           UNCHANGED <<now, picked, place, asleep>>
    PROVE  IInv'
<1> USE DEF IInv
<1> DEFINE rest == {e \in list : e.obj \in dead => e.time # timeout[e.obj]}
           prest == {e \in plist : e.obj \in dead => e.time # ptick[e.obj]}
<1>1. /\ life' = [o \in Objects |-> IF o \in dead THEN "gone" ELSE life[o]]
      /\ timeout' = [o \in Objects |-> IF o \in dead THEN 0 ELSE timeout[o]]
      /\ regen' = [c \in Chars |-> IF c \in dead THEN 0 ELSE regen[c]]
      /\ ptick' = [c \in Chars |-> IF c \in dead THEN 0 ELSE ptick[c]]
      /\ list' = Packed(rest) /\ plist' = Packed(prest)
      /\ updates' = updates \ dead
  BY DEF Destroyed
<1>2. /\ life' \in [Objects -> {"gone", "live", "doomed"}]
      /\ timeout' \in [Objects -> Nat]
      /\ regen' \in [Chars -> Nat] /\ ptick' \in [Chars -> Nat]
  BY <1>1, Facts
<1>3. /\ rest \in SUBSET list /\ \A e \in rest : e.obj \in Objects /\ e.obj \notin dead
      /\ prest \in SUBSET plist /\ \A e \in prest : e.obj \in Chars /\ e.obj \notin dead
  BY DEF Keyed
<1> HIDE DEF rest, prest
<1>4. /\ Keyed(list', timeout', Objects) /\ Single(list')
      /\ \A g \in list' : \E e \in rest : e.obj = g.obj
  <2>1. \A e \in rest : timeout'[e.obj] = timeout[e.obj]
    BY <1>1, <1>3
  <2>2. Keyed(list, timeout, Objects) /\ Single(list)
    OBVIOUS
  <2>3. /\ Keyed(Packed(rest), timeout', Objects) /\ Single(Packed(rest))
        /\ \A g \in Packed(rest) : \E e \in rest : e.obj = g.obj
    BY <1>3, <2>1, <2>2, PackedPart
  <2> QED BY <1>1, <2>3
<1>5. /\ Keyed(plist', ptick', Chars) /\ Single(plist')
      /\ \A g \in plist' : \E e \in prest : e.obj = g.obj
  <2>1. \A e \in prest : ptick'[e.obj] = ptick[e.obj]
    BY <1>1, <1>3
  <2>2. Keyed(plist, ptick, Chars) /\ Single(plist)
    OBVIOUS
  <2>3. /\ Keyed(Packed(prest), ptick', Chars) /\ Single(Packed(prest))
        /\ \A g \in Packed(prest) : \E e \in prest : e.obj = g.obj
    BY <1>3, <2>1, <2>2, PackedPart
  <2> QED BY <1>1, <2>3
<1>6. TypeOK'
  <2>1. \A g \in list' \cup picked' : g.time \in Nat /\ g.obj \in Objects
    BY <1>4 DEF Keyed
  <2>2. \A g \in plist' : g.time \in Nat /\ g.obj \in Chars
    BY <1>5 DEF Keyed
  <2> QED BY <1>1, <1>2, <2>1, <2>2 DEF TypeOK
<1>7. NothingDangles' /\ SelectionEnds'
  <2>1. \A x \in Objects : x \notin dead => life'[x] = life[x]
    BY <1>1
  <2>2. \A g \in list' : g.obj \in Objects /\ g.obj \notin dead /\ life[g.obj] # "gone"
                       /\ (g.obj \in Things => life[g.obj] = "live")
    BY <1>3, <1>4 DEF NothingDangles, SelectionEnds
  <2>3. \A g \in plist' : g.obj \in Objects /\ g.obj \notin dead /\ life[g.obj] # "gone"
    BY <1>3, <1>5, Facts DEF NothingDangles
  <2>4. \A x \in updates' : x \in Objects /\ x \notin dead /\ life[x] # "gone"
    BY <1>1, Facts DEF NothingDangles
  <2>5. \A x \in Things : life'[x] = "doomed" => asleep'[x]
    BY <1>1, Facts DEF SelectionEnds
  <2> QED BY <2>1, <2>2, <2>3, <2>4, <2>5 DEF NothingDangles, SelectionEnds
<1>8. PickedOK' /\ RegenOK'
  BY <1>1, Facts DEF PickedOK, RegenOK, Single
<1> QED BY <1>4, <1>5, <1>6, <1>7, <1>8

LEMMA TickEndsKeeps ==
    ASSUME IInv, TickEnds PROVE IInv'
<1>1. Doomed \in SUBSET Objects
  BY DEF Doomed
<1> QED BY <1>1, DestroyedKeeps DEF TickEnds

LEMMA CollectGarbageKeeps ==
    ASSUME IInv, CollectGarbage PROVE IInv'
<1>1. PICK its \in SUBSET {f \in Funcs : life[f] = "live"} :
          Destroyed(Doomed \cup its \cup {o \in Things : life[o] = "live" /\ place[o] = "nowhere"})
  BY DEF CollectGarbage
<1> DEFINE dead == Doomed \cup its \cup {o \in Things : life[o] = "live" /\ place[o] = "nowhere"}
<1>2. dead \in SUBSET Objects
  BY Facts DEF Doomed
<1>3. Destroyed(dead)
  BY <1>1
<1> HIDE DEF dead
<1>4. picked = {}
  BY DEF CollectGarbage, IInv, PickedOK
<1> QED BY <1>2, <1>3, <1>4, DestroyedKeeps DEF CollectGarbage

-----------------------------------------------------------------------------
(***************************************************************************)
(* The theorems                                                            *)
(***************************************************************************)

LEMMA IInvInit == Init => IInv
<1> SUFFICES ASSUME Init PROVE IInv
  OBVIOUS
<1> USE DEF Init
<1>1. TypeOK
  BY DEF TypeOK, Places
<1>2. Keyed(list, timeout, Objects) /\ Single(list) /\ Keyed(plist, ptick, Chars) /\ Single(plist)
  BY DEF Keyed, Single
<1>3. NothingDangles /\ SelectionEnds
  BY ConstantsAssumption DEF NothingDangles, SelectionEnds, Things, Objects
<1>4. PickedOK /\ RegenOK
  BY DEF PickedOK, RegenOK, Single, Objects, Things
<1> QED BY <1>1, <1>2, <1>3, <1>4 DEF IInv

LEMMA IInvNext == IInv /\ [Next]_vars => IInv'
<1> SUFFICES ASSUME IInv, [Next]_vars PROVE IInv'
  OBVIOUS
<1>1. \A d \in Delays : d \in Nat
  BY Facts
<1>2. ASSUME NEW o \in Things,
             \/ Create(o) \/ ClearTimer(o) \/ PropertiesChange(o) \/ GoSleep(o)
             \/ PutInBox(o) \/ SetDisconnected(o) \/ StrengthGone(o) \/ Delete(o)
      PROVE  IInv'
  BY <1>2, Facts, CreateKeeps, ClearTimerKeeps, PropertiesChangeKeeps, GoSleepKeeps,
     PutInBoxKeeps, SetDisconnectedKeeps, StrengthGoneKeeps, DeleteKeeps
<1>3. ASSUME NEW o \in Things, NEW d \in Delays,
             \/ SetTimeout(o, d) \/ GoAwake(o, d) \/ MoveToSector(o, d) \/ TakeOutOfBox(o, d)
      PROVE  IInv'
  BY <1>1, <1>3, Facts, SetTimeoutKeeps, GoAwakeKeeps, MoveToSectorKeeps, TakeOutOfBoxKeeps
<1>4. ASSUME NEW f \in Funcs, StopFunction(f) PROVE IInv'
  BY <1>4, StopFunctionKeeps
<1>5. ASSUME NEW f \in Funcs, NEW d \in Delays, AddFunction(f, d) PROVE IInv'
  BY <1>1, <1>5, AddFunctionKeeps
<1>6. CASE Code
  BY <1>2, <1>3, <1>4, <1>5, <1>6 DEF Code
<1>7. ASSUME NEW d \in Delays, TimerRuns(d) PROVE IInv'
  BY <1>1, <1>7, TimerRunsKeeps
<1>8. CASE Tick
  BY <1>7, <1>8, TickBeginsKeeps, SelectTimersKeeps, FunctionRunsKeeps, SelectCharsKeeps,
     CharRunsKeeps, TickEndsKeeps, CollectGarbageKeeps DEF Tick
<1>9. CASE UNCHANGED vars
  BY <1>9 DEF vars, IInv, TypeOK, Keyed, Single, NothingDangles, SelectionEnds, PickedOK,
     RegenOK
<1> QED BY <1>6, <1>8, <1>9 DEF Next

LEMMA IInvAlways == Spec => []IInv
BY IInvInit, IInvNext, PTL DEF Spec

\* Type correctness: the variables of the ticker keep their types.
THEOREM TypesKept == Spec => []TypeOK
<1>1. IInv => TypeOK
  BY DEF IInv
<1> QED BY <1>1, IInvAlways, PTL

\* An object finds its entries by the times it remembers, whatever is set, moved,
\* put to sleep or deleted while CWorldTicker::Tick() runs what it has picked.
THEOREM EntriesAreFound == Spec => []KeysMatch
<1>1. IInv => KeysMatch
  BY DEF IInv, Keyed, Single, KeysMatch
<1> QED BY <1>1, IInvAlways, PTL

\* The lists, the updates and what is picked hold no pointer to a destroyed object:
\* neither Delete(), nor a function that destroys itself, nor garbage collection
\* leaves one behind.
THEOREM NoPointerDangles == Spec => []NothingDangles
<1>1. IInv => NothingDangles
  BY DEF IInv
<1> QED BY <1>1, IInvAlways, PTL

\* A deleted thing cannot tick and has no timer in the list: the loop that selects
\* the due timers, which does not go on over an entry of a deleted thing that could
\* tick, meets none.  (No callback runs during the selection.)
THEOREM SelectionGoesOn == Spec => []SelectionEnds
<1>1. IInv => SelectionEnds
  BY DEF IInv
<1> QED BY <1>1, IInvAlways, PTL

-----------------------------------------------------------------------------
(***************************************************************************)
(* No timer is lost                                                        *)
(***************************************************************************)

\* NeverDropped for one object, of its timer ...
TimerKept(o) ==
    HasTimer(o) /\ Able(o) /\ Able(o)' /\ timeout'[o] = timeout[o] => HasTimer(o)'

\* ... and of its periodic tick.
TickKept(c) ==
    HasTick(c) /\ Able(c) /\ Able(c)' /\ ptick'[c] = ptick[c] => HasTick(c)'

TimersKept == \A x \in Objects : TimerKept(x)
TicksKept  == \A x \in Chars : TickKept(x)

\* Every entry of an object other than o is in the list m as it was in l.
OthersStay(l, m, o) ==
    \A e \in l : e.obj # o => \E g \in m : g.obj = e.obj /\ g.time = e.time

\* Renumbering loses no entry.
LEMMA PackedStay ==
    ASSUME NEW l, NEW e \in l
    PROVE  \E g \in Packed(l) : g.obj = e.obj /\ g.time = e.time
<1> DEFINE g == [time |-> e.time,
                 age |-> Cardinality({f \in l : f.time = e.time /\ f.age < e.age}),
                 obj |-> e.obj]
<1>1. g \in Packed(l)
  BY DEF Packed
<1> QED BY <1>1

\* Without() touches no entry of another object, even at the same time.
LEMMA WithoutStay ==
    ASSUME NEW l, NEW t, NEW o
    PROVE  OthersStay(l, Without(l, t, o), o)
<1> DEFINE part == {e \in l : e.time # t \/ e.obj # o}
<1>1. Without(l, t, o) = Packed(part)
  BY DEF Without
<1>2. \A e \in l : e.obj # o => e \in part
  OBVIOUS
<1> HIDE DEF part
<1> QED BY <1>1, <1>2, PackedStay DEF OthersStay

\* Neither does Moved(), and the object has its new entry if it may be listed.
LEMMA MovedStay ==
    ASSUME NEW l, NEW old, NEW t, NEW o, NEW listable \in BOOLEAN
    PROVE  /\ OthersStay(l, Moved(l, old, t, o, listable), o)
           /\ listable => \E g \in Moved(l, old, t, o, listable) : g.obj = o /\ g.time = t
<1> DEFINE rest == Without(l, old, o)
           new == [time |-> t, age |-> Cardinality({e \in rest : e.time = t}), obj |-> o]
<1>1. OthersStay(l, rest, o)
  BY WithoutStay
<1>2. Moved(l, old, t, o, listable) = IF listable THEN rest \cup {new} ELSE rest
  BY DEF Moved, Inserted
<1>3. new.obj = o /\ new.time = t
  OBVIOUS
<1> HIDE DEF rest, new
<1> QED BY <1>1, <1>2, <1>3 DEF OthersStay

\* What a step does to o loses no timer of another object.
LEMMA OthersKept ==
    ASSUME NEW o, OthersStay(list, list', o), NEW x \in Objects, x # o
    PROVE  TimerKept(x)
<1> SUFFICES ASSUME HasTimer(x), timeout'[x] = timeout[x] PROVE HasTimer(x)'
  BY DEF TimerKept
<1>1. PICK e \in list : e.obj = x /\ e.time = timeout[x]
  BY DEF HasTimer
<1>2. PICK g \in list' : g.obj = x /\ g.time = e.time
  BY <1>1 DEF OthersStay
<1> QED BY <1>1, <1>2 DEF HasTimer

\* The timer of an object is set: it has its entry, or cannot tick any more.
LEMMA MovedKept ==
    ASSUME NEW o \in Objects, NEW old, NEW t, NEW listable \in BOOLEAN,
           list' = Moved(list, old, t, o, listable), timeout'[o] = t,
           ~listable => ~(Able(o)')
    PROVE  TimersKept
<1>1. /\ OthersStay(list, list', o)
      /\ listable => \E g \in list' : g.obj = o /\ g.time = t
  BY MovedStay
<1>2. TimerKept(o)
  BY <1>1 DEF TimerKept, HasTimer
<1> QED BY <1>1, <1>2, OthersKept DEF TimersKept

\* The entry of an object is taken out: it has another timer now, or cannot tick.
LEMMA GoneKept ==
    ASSUME NEW o \in Objects, NEW old, list' = Without(list, old, o),
           timeout'[o] = timeout[o] => ~(Able(o)')
    PROVE  TimersKept
<1>1. OthersStay(list, list', o)
  BY WithoutStay
<1>2. TimerKept(o)
  BY DEF TimerKept
<1> QED BY <1>1, <1>2, OthersKept DEF TimersKept

\* A step that leaves the list alone loses nothing.
LEMMA SameKept ==
    ASSUME list' = list PROVE TimersKept
BY DEF TimersKept, TimerKept, HasTimer

LEMMA SameTicksKept ==
    ASSUME plist' = plist PROVE TicksKept
BY DEF TicksKept, TickKept, HasTick

\* PeriodicAdded() and PeriodicDeleted() lose no periodic tick: the character's own
\* is listed under the new time, or was cleared with the entry.
LEMMA AddedKept ==
    ASSUME IInv, NEW c \in Chars, NEW next, PeriodicAdded(c, next)
    PROVE  TicksKept
<1>1. CASE next # ptick[c]
  <2> DEFINE rest == Without(plist, ptick[c], c)
             new == [time |-> next, age |-> Cardinality({e \in rest : e.time = next}),
                     obj |-> c]
  <2>1. plist' = rest \cup {new} /\ ptick' = [ptick EXCEPT ![c] = next]
    BY <1>1 DEF PeriodicAdded, Moved, Inserted
  <2>2. OthersStay(plist, rest, c)
    BY WithoutStay
  <2>3. new.obj = c /\ new.time = next
    OBVIOUS
  <2> HIDE DEF rest, new
  <2>4. ptick'[c] = next
    BY <2>1, Facts
  <2> QED BY <2>1, <2>2, <2>3, <2>4 DEF TicksKept, TickKept, HasTick, OthersStay
<1>2. CASE next = ptick[c]
  BY <1>2, SameTicksKept DEF PeriodicAdded
<1> QED BY <1>1, <1>2

LEMMA DeletedKept ==
    ASSUME IInv, NEW c \in Chars, PeriodicDeleted(c)
    PROVE  TicksKept
<1>1. CASE \E e \in plist : e.time = ptick[c] /\ e.obj = c
  <2>1. plist' = Without(plist, ptick[c], c) /\ ptick'[c] = 0
    BY <1>1, Facts DEF PeriodicDeleted
  <2>2. ptick[c] # 0
    BY <1>1, Facts DEF Keyed
  <2>3. OthersStay(plist, plist', c)
    BY <2>1, WithoutStay
  <2> QED BY <2>1, <2>2, <2>3 DEF TicksKept, TickKept, HasTick, OthersStay
<1>2. CASE ~\E e \in plist : e.time = ptick[c] /\ e.obj = c
  BY <1>2, SameTicksKept DEF PeriodicDeleted
<1> QED BY <1>1, <1>2

\* What sleeps cannot tick: its timer may leave the list.
LEMMA FallsAsleepKept ==
    ASSUME IInv, NEW o \in Things, FallsAsleep(o)
    PROVE  TimersKept /\ TicksKept
<1>1. /\ asleep' = [asleep EXCEPT ![o] = TRUE]
      /\ list' = Without(list, timeout[o], o)
      /\ IF o \in Chars THEN PeriodicDeleted(o) ELSE UNCHANGED <<plist, ptick>>
  BY DEF FallsAsleep
<1>2. ~(Able(o)')
  BY <1>1, Facts DEF Able
<1>3. TimersKept
  BY <1>1, <1>2, Facts, GoneKept
<1>4. TicksKept
  BY <1>1, DeletedKept, SameTicksKept
<1> QED BY <1>3, <1>4

\* What wakes is listed where it can tick.
LEMMA AwakesKept ==
    ASSUME IInv, NEW o \in Things, NEW drawn, Awakes(o, drawn)
    PROVE  TimersKept /\ TicksKept
<1> DEFINE late == timeout[o] \in 1..(now - 1) /\ (o \in Items => place'[o] # "box")
           kept == IF late THEN now + 1 ELSE timeout[o]
           next == IF o \in Chars THEN now + drawn ELSE kept
<1>1. /\ timeout' = [timeout EXCEPT ![o] = next]
      /\ list' = AwakeList(o, kept, drawn)
      /\ IF o \in Chars THEN PeriodicAdded(o, regen[o]) ELSE UNCHANGED <<plist, ptick>>
  BY DEF Awakes
<1> HIDE DEF kept, next
<1>2. timeout'[o] = next
  BY <1>1, Facts
<1>3. TimersKept
  <2>1. CASE o \in Chars
    <3> DEFINE listable == place'[o] = "world"
    <3>1. listable \in BOOLEAN
      OBVIOUS
    <3>2. list' = Moved(list, timeout[o], now + drawn, o, listable)
      BY <1>1, <2>1 DEF AwakeList
    <3>3. timeout'[o] = now + drawn
      BY <1>2, <2>1 DEF next
    <3>4. ~listable => ~(Able(o)')
      BY <2>1, Facts DEF Able
    <3> HIDE DEF listable
    <3> QED BY <3>1, <3>2, <3>3, <3>4, Facts, MovedKept
  <2>2. CASE o \notin Chars /\ timeout[o] # 0
    <3> DEFINE rest == Without(list, timeout[o], o)
               new == [time |-> kept, age |-> Cardinality({e \in rest : e.time = kept}),
                       obj |-> o]
    <3>1. list' = rest \cup {new}
      BY <1>1, <2>2 DEF AwakeList, Moved, Inserted
    <3>2. OthersStay(list, rest, o)
      BY WithoutStay
    <3>3. new.obj = o /\ new.time = kept
      OBVIOUS
    <3>4. timeout'[o] = kept
      BY <1>2, <2>2 DEF next
    <3> HIDE DEF rest, new
    <3>5. TimerKept(o)
      BY <3>1, <3>3, <3>4 DEF TimerKept, HasTimer
    <3>6. OthersStay(list, list', o)
      BY <3>1, <3>2 DEF OthersStay
    <3> QED BY <3>5, <3>6, OthersKept DEF TimersKept
  <2>3. CASE o \notin Chars /\ timeout[o] = 0
    <3>1. list' = list
      BY <1>1, <2>3 DEF AwakeList
    <3> QED BY <3>1, SameKept
  <2> QED BY <2>1, <2>2, <2>3
<1>4. TicksKept
  BY <1>1, AddedKept, SameTicksKept
<1> QED BY <1>3, <1>4

\* A deleted thing sleeps.
LEMMA DeletesKept ==
    ASSUME IInv, NEW o \in Things, Deletes(o)
    PROVE  TimersKept /\ TicksKept
<1>1. /\ asleep' = [asleep EXCEPT ![o] = TRUE]
      /\ list' = Without(list, timeout[o], o)
      /\ IF o \in Chars THEN PeriodicDeleted(o) ELSE UNCHANGED <<plist, ptick>>
  BY DEF Deletes
<1>2. ~(Able(o)')
  BY <1>1, Facts DEF Able
<1>3. TimersKept
  BY <1>1, <1>2, Facts, GoneKept
<1>4. TicksKept
  BY <1>1, DeletedKept, SameTicksKept
<1> QED BY <1>3, <1>4

\* The destructors take the entries of what dies, and of nothing else.
LEMMA DestroyedKept ==
    ASSUME IInv, NEW dead \in SUBSET Objects, Destroyed(dead)
    PROVE  TimersKept /\ TicksKept
<1> DEFINE rest == {e \in list : e.obj \in dead => e.time # timeout[e.obj]}
           prest == {e \in plist : e.obj \in dead => e.time # ptick[e.obj]}
<1>1. /\ timeout' = [o \in Objects |-> IF o \in dead THEN 0 ELSE timeout[o]]
      /\ ptick' = [c \in Chars |-> IF c \in dead THEN 0 ELSE ptick[c]]
      /\ list' = Packed(rest) /\ plist' = Packed(prest)
  BY DEF Destroyed
<1>2. /\ \A e \in list : e.obj \notin dead => e \in rest
      /\ \A e \in plist : e.obj \notin dead => e \in prest
  OBVIOUS
<1> HIDE DEF rest, prest
<1>3. \A e \in list \cup plist : e.time # 0
  BY Facts DEF Keyed
<1>4. ASSUME NEW o \in Objects PROVE TimerKept(o)
  <2> SUFFICES ASSUME HasTimer(o), timeout'[o] = timeout[o] PROVE HasTimer(o)'
    BY DEF TimerKept
  <2>1. PICK e \in list : e.obj = o /\ e.time = timeout[o]
    BY DEF HasTimer
  <2>2. e \in rest
    BY <1>1, <1>2, <1>3, <2>1
  <2>3. PICK g \in list' : g.obj = e.obj /\ g.time = e.time
    BY <1>1, <2>2, PackedStay
  <2> QED BY <2>1, <2>3 DEF HasTimer
<1>5. ASSUME NEW c \in Chars PROVE TickKept(c)
  <2> SUFFICES ASSUME HasTick(c), ptick'[c] = ptick[c] PROVE HasTick(c)'
    BY DEF TickKept
  <2>1. PICK e \in plist : e.obj = c /\ e.time = ptick[c]
    BY DEF HasTick
  <2>2. e \in prest
    BY <1>1, <1>2, <1>3, <2>1
  <2>3. PICK g \in plist' : g.obj = e.obj /\ g.time = e.time
    BY <1>1, <2>2, PackedStay
  <2> QED BY <2>1, <2>3 DEF HasTick
<1> QED BY <1>4, <1>5 DEF TimersKept, TicksKept

\* Erasing in chunks reaches due entries only, and what is due and can tick is
\* chosen: it is run, and remembers no timer.
LEMMA SelectTimersKept ==
    ASSUME IInv, SelectTimers
    PROVE  TimersKept /\ TicksKept
<1> DEFINE due    == Due(list)
           chosen == {e \in due : Chosen(e.obj)}
           kept   == list \ Erased(due, chosen)
<1>1. /\ \A e \in due : ~Stuck(e.obj)
      /\ list' = Packed(kept)
      /\ timeout' = [o \in Objects |->
                       IF \E e \in chosen : e.obj = o THEN 0 ELSE timeout[o]]
      /\ plist' = plist
  BY DEF SelectTimers
<1>2. ASSUME NEW o \in Objects PROVE TimerKept(o)
  <2> SUFFICES ASSUME HasTimer(o), Able(o), timeout'[o] = timeout[o] PROVE HasTimer(o)'
    BY DEF TimerKept
  <2>1. PICK e \in list : e.obj = o /\ e.time = timeout[o]
    BY DEF HasTimer
  <2>2. e.time \in Nat \ {0}
    BY Facts DEF Keyed
  <2>3. e \notin chosen
    BY <1>1, <2>1, <2>2
  <2>4. e \notin due
    <3> SUFFICES ASSUME e \in due PROVE FALSE
      OBVIOUS
    <3>1. timeout[o] \in 1..now
      BY <2>1, <2>2, Facts DEF Due
    <3> QED BY <1>1, <2>1, <2>3, <3>1 DEF Chosen
  <2>5. e \in kept
    BY <2>3, <2>4 DEF Erased
  <2> HIDE DEF kept
  <2>6. PICK g \in list' : g.obj = e.obj /\ g.time = e.time
    BY <1>1, <2>5, PackedStay
  <2> QED BY <2>1, <2>6 DEF HasTimer
<1> QED BY <1>1, <1>2, SameTicksKept DEF TimersKept

\* The same of the periodic ticks: no deleted character is awake.
LEMMA SelectCharsKept ==
    ASSUME IInv, SelectChars
    PROVE  TimersKept /\ TicksKept
<1> DEFINE due    == Due(plist)
           chosen == {e \in due : ChosenChar(e.obj)}
           kept   == plist \ Erased(due, chosen)
<1>1. /\ plist' = Packed(kept)
      /\ ptick' = [c \in Chars |-> IF \E e \in chosen : e.obj = c THEN 0 ELSE ptick[c]]
      /\ list' = list
  BY DEF SelectChars
<1>2. ASSUME NEW c \in Chars PROVE TickKept(c)
  <2> SUFFICES ASSUME HasTick(c), Able(c), ptick'[c] = ptick[c] PROVE HasTick(c)'
    BY DEF TickKept
  <2>1. PICK e \in plist : e.obj = c /\ e.time = ptick[c]
    BY DEF HasTick
  <2>2. e.time \in Nat \ {0}
    BY Facts DEF Keyed
  <2>3. e \notin chosen
    BY <1>1, <2>1, <2>2
  <2>4. life[c] # "doomed"
    BY Facts DEF IInv, SelectionEnds, Able
  <2>5. e \notin due
    <3> SUFFICES ASSUME e \in due PROVE FALSE
      OBVIOUS
    <3>1. ptick[c] \in 1..now
      BY <2>1, <2>2, Facts DEF Due
    <3> QED BY <2>1, <2>3, <2>4, <3>1 DEF ChosenChar
  <2>6. e \in kept
    BY <2>3, <2>5 DEF Erased
  <2> HIDE DEF kept
  <2>7. PICK g \in plist' : g.obj = e.obj /\ g.time = e.time
    BY <1>1, <2>6, PackedStay
  <2> QED BY <2>1, <2>7 DEF HasTick
<1> QED BY <1>1, <1>2, SameKept DEF TicksKept

\* What code that runs does to one thing loses no timer.
LEMMA CodeKept ==
    ASSUME IInv, Code
    PROVE  TimersKept /\ TicksKept
<1>1. ASSUME NEW o \in Things,
             Create(o) \/ PropertiesChange(o) \/ StrengthGone(o) \/ GoSleep(o) \/ Delete(o)
      PROVE  TimersKept /\ TicksKept
  <2>1. CASE Create(o) \/ PropertiesChange(o)
    BY <2>1, SameKept, SameTicksKept DEF Create, PropertiesChange
  <2>2. CASE StrengthGone(o)
    BY <2>2, AddedKept, SameKept DEF StrengthGone
  <2>3. CASE GoSleep(o)
    BY <2>3, FallsAsleepKept DEF GoSleep
  <2>4. CASE Delete(o)
    BY <2>4, DeletesKept DEF Delete
  <2> QED BY <1>1, <2>1, <2>2, <2>3, <2>4
<1>2. ASSUME NEW o \in Things, ClearTimer(o) PROVE TimersKept /\ TicksKept
  <2>1. /\ list' = Without(list, timeout[o], o) /\ plist' = plist
        /\ timeout'[o] = 0 /\ timeout[o] # 0
    BY <1>2, Facts DEF ClearTimer
  <2> QED BY <2>1, Facts, GoneKept, SameTicksKept
<1>3. ASSUME NEW o \in Things, PutInBox(o) PROVE TimersKept /\ TicksKept
  <2>1. /\ place' = [place EXCEPT ![o] = "box"] /\ o \in Items /\ plist' = plist
        /\ list' = Without(list, timeout[o], o) \/ list' = list
    BY <1>3 DEF PutInBox
  <2>2. ~(Able(o)')
    BY <2>1, Facts DEF Able
  <2> QED BY <2>1, <2>2, Facts, GoneKept, SameKept, SameTicksKept
<1>4. ASSUME NEW o \in Things, SetDisconnected(o) PROVE TimersKept /\ TicksKept
  <2>1. FallsAsleep(o) \/ UNCHANGED <<list, plist>>
    BY <1>4 DEF SetDisconnected
  <2> QED BY <2>1, FallsAsleepKept, SameKept, SameTicksKept
<1>5. ASSUME NEW o \in Things, NEW d \in Delays, SetTimeout(o, d)
      PROVE  TimersKept /\ TicksKept
  <2> DEFINE listable == Listable(o)
             t == now + d
  <2>1. /\ list' = Moved(list, timeout[o], t, o, listable) /\ plist' = plist
        /\ timeout' = [timeout EXCEPT ![o] = t] /\ UNCHANGED <<place, asleep>>
    BY <1>5 DEF SetTimeout
  <2>2. listable \in BOOLEAN /\ (~listable => ~(Able(o)'))
    BY <2>1 DEF Listable, Able
  <2> HIDE DEF listable, t
  <2>3. timeout'[o] = t
    BY <2>1, Facts
  <2> QED BY <2>1, <2>2, <2>3, Facts, MovedKept, SameTicksKept
<1>6. ASSUME NEW o \in Things, NEW d \in Delays,
             GoAwake(o, d) \/ MoveToSector(o, d) \/ TakeOutOfBox(o, d)
      PROVE  TimersKept /\ TicksKept
  <2>1. Awakes(o, d) \/ FallsAsleep(o) \/ UNCHANGED <<list, plist>>
    BY <1>6 DEF GoAwake, MoveToSector, TakeOutOfBox
  <2> QED BY <2>1, AwakesKept, FallsAsleepKept, SameKept, SameTicksKept
<1>7. ASSUME NEW f \in Funcs, StopFunction(f) PROVE TimersKept /\ TicksKept
  BY <1>7, SameKept, SameTicksKept DEF StopFunction
<1>8. ASSUME NEW f \in Funcs, NEW d \in Delays, AddFunction(f, d)
      PROVE  TimersKept /\ TicksKept
  <2> DEFINE listable == TRUE
             t == now + d
  <2>1. /\ list' = Moved(list, 0, t, f, listable) /\ plist' = plist
        /\ timeout' = [timeout EXCEPT ![f] = t]
    BY <1>8 DEF AddFunction
  <2>2. listable \in BOOLEAN /\ (~listable => ~(Able(f)'))
    OBVIOUS
  <2> HIDE DEF listable, t
  <2>3. timeout'[f] = t
    BY <2>1, Facts
  <2> QED BY <2>1, <2>2, <2>3, Facts, MovedKept, SameTicksKept
<1> QED BY <1>1, <1>2, <1>3, <1>4, <1>5, <1>6, <1>7, <1>8 DEF Code

\* Neither does what _OnTick() does itself.
LEMMA TickKeepsTimers ==
    ASSUME IInv, Tick
    PROVE  TimersKept /\ TicksKept
<1>1. CASE TickBegins
  BY <1>1, SameKept, SameTicksKept DEF TickBegins
<1>2. CASE FunctionRuns
  <2>1. PICK e \in picked : /\ e.obj \in Funcs
                            /\ timeout' = [timeout EXCEPT ![e.obj] = 0]
                            /\ list' = Without(list, timeout[e.obj], e.obj)
    BY <1>2 DEF FunctionRuns
  <2>2. PICK f \in Objects : f = e.obj
    BY <2>1, Facts
  <2>3. timeout'[f] = 0 /\ list' = Without(list, timeout[f], f) /\ plist' = plist
    BY <1>2, <2>1, <2>2, Facts DEF FunctionRuns
\* a function that has no timer left has no entry that could be taken
  <2>4. TimersKept
    <3>1. CASE timeout[f] = 0
      <4>1. ~HasTimer(f)
        BY <3>1, Facts DEF HasTimer, Keyed
      <4>2. TimerKept(f)
        BY <4>1 DEF TimerKept
      <4>3. OthersStay(list, list', f)
        BY <2>3, WithoutStay
      <4> QED BY <4>2, <4>3, OthersKept DEF TimersKept
    <3>2. CASE timeout[f] # 0
      BY <2>3, <3>2, GoneKept
    <3> QED BY <3>1, <3>2
  <2> QED BY <2>3, <2>4, SameTicksKept
<1>3. ASSUME NEW d \in Delays, TimerRuns(d) PROVE TimersKept /\ TicksKept
  <2>1. PICK e \in picked :
           /\ e.obj \in Things
           /\ \/ Deletes(e.obj)
              \/ UNCHANGED <<list, plist>>
              \/ /\ timeout' = [timeout EXCEPT ![e.obj] = now + d]
                 /\ list' = Moved(list, 0, now + d, e.obj, Listable(e.obj))
                 /\ UNCHANGED <<place, asleep, plist>>
    BY <1>3 DEF TimerRuns
  <2>2. CASE Deletes(e.obj)
    BY <2>1, <2>2, DeletesKept
  <2>3. CASE UNCHANGED <<list, plist>>
    BY <2>3, SameKept, SameTicksKept
  <2>4. CASE /\ timeout' = [timeout EXCEPT ![e.obj] = now + d]
             /\ list' = Moved(list, 0, now + d, e.obj, Listable(e.obj))
             /\ UNCHANGED <<place, asleep, plist>>
    <3> DEFINE listable == Listable(e.obj)
               t == now + d
    <3>1. listable \in BOOLEAN /\ (~listable => ~(Able(e.obj)'))
      BY <2>4 DEF Listable, Able
    <3>2. list' = Moved(list, 0, t, e.obj, listable)
      BY <2>4
    <3> HIDE DEF listable, t
    <3>3. timeout'[e.obj] = t
      BY <2>1, <2>4, Facts DEF t
    <3> QED BY <2>1, <2>4, <3>1, <3>2, <3>3, Facts, MovedKept, SameTicksKept
  <2> QED BY <2>1, <2>2, <2>3, <2>4
<1>4. CASE CharRuns
  <2>1. PICK e \in picked :
           \/ PeriodicAdded(e.obj, now + TickLength) /\ list' = list
           \/ Deletes(e.obj)
    BY <1>4 DEF CharRuns
  <2>2. e.obj \in Chars
    BY <1>4 DEF CharRuns, IInv, PickedOK
  <2> QED BY <2>1, <2>2, Facts, AddedKept, SameKept, DeletesKept
<1>5. CASE TickEnds
  BY <1>5, DestroyedKept DEF TickEnds, Doomed
<1>6. CASE CollectGarbage
  <2>1. PICK its \in SUBSET {f \in Funcs : life[f] = "live"} :
            Destroyed(Doomed \cup its
                      \cup {o \in Things : life[o] = "live" /\ place[o] = "nowhere"})
    BY <1>6 DEF CollectGarbage
  <2> DEFINE dead == Doomed \cup its
                     \cup {o \in Things : life[o] = "live" /\ place[o] = "nowhere"}
  <2>2. dead \in SUBSET Objects
    BY Facts DEF Doomed
  <2>3. Destroyed(dead)
    BY <2>1
  <2> HIDE DEF dead
  <2> QED BY <2>2, <2>3, DestroyedKept
<1>7. CASE SelectTimers \/ SelectChars
  BY <1>7, SelectTimersKept, SelectCharsKept
<1> QED BY <1>1, <1>2, <1>3, <1>4, <1>5, <1>6, <1>7 DEF Tick

\* A timer that is listed stays listed until it is picked, moved or cleared, or its
\* object can tick no longer: what Without() and Moved() do to one object, the
\* renumbering, the destructors and the erasing in chunks lose no other's.
THEOREM NoTimerIsDropped == Spec => NeverDropped
<1>1. IInv /\ [Next]_vars =>
        [/\ \A o \in Objects :
              HasTimer(o) /\ Able(o) /\ Able(o)' /\ timeout'[o] = timeout[o] => HasTimer(o)'
         /\ \A c \in Chars :
              HasTick(c) /\ Able(c) /\ Able(c)' /\ ptick'[c] = ptick[c] => HasTick(c)']_vars
  <2> SUFFICES ASSUME IInv, Next PROVE TimersKept /\ TicksKept
    BY DEF TimersKept, TicksKept, TimerKept, TickKept
  <2> QED BY CodeKept, TickKeepsTimers DEF Next
<1> QED BY <1>1, IInvAlways, PTL DEF Spec, NeverDropped
=============================================================================
