-------------------------- MODULE WorldSaveProofs ---------------------------
(***************************************************************************)
(* Theorems about WorldSave, for any number of sectors, characters, items  *)
(* and UIDs: no character is written twice by one save, the numbers in the *)
(* files are unique, and nothing that was there all the time is left out.  *)
(*                                                                         *)
(* The inductive invariant says what the parities mean while characters    *)
(* move about: a sector with the world's parity holds only characters that *)
(* have it, and having it means having been written once.                  *)
(***************************************************************************)
EXTENDS WorldSave, TLAPS

\* Characters are in sectors, items in sectors or on characters of the world.
PlacesOK ==
    /\ \A c \in Chars : life[c] = "placed" => place[c] \in Sector
    /\ \A i \in Items : life[i] = "placed" =>
            \/ place[i] \in Sector
            \/ place[i] \in Chars /\ life[place[i]] = "placed"

\* What SaveStage has passed has the parity of the world; between saves, every
\* sector has it, unless the last save failed.
SectorsSaved ==
    \A s \in Sector : (IF saving THEN s < next ELSE sound >= 1)
                      => sectorParity[s] = worldParity

\* The save before the one that goes on, or the two that are completed, have not
\* failed.
Whole == sound = Healed \/ (saving /\ sound = 1)

\* Then a saved sector holds saved characters only, those that sailed excepted.
CharsSaved ==
    \A c \in Chars :
        /\ life[c] = "new" => charParity[c] = worldParity
        /\ /\ life[c] = "placed" /\ c \notin sailed /\ Whole
           /\ sectorParity[place[c]] = worldParity
           => charParity[c] = worldParity

\* A character is written when it gets the parity of the save.
WrittenOnce ==
    /\ ~saving => \A o \in Objects : written[o] = 0
    /\ \A c \in Chars : /\ written[c] <= 1
                        /\ charParity[c] # worldParity => written[c] = 0

\* The indices in use, and those of the records in the files, are distinct.
UidsApart ==
    /\ \A o \in Objects : /\ o \in Alive => uid[o] \notin held
                          /\ written[o] > 0 => o \in Alive \/ uid[o] \in held
    /\ \A o, p \in Objects :
            /\ o \in Alive \/ written[o] > 0
            /\ p \in Alive \/ written[p] > 0
            /\ uid[o] = uid[p]
            => o = p

\* The parity that says whether an object has been written
Done(o) ==
    \/ o \in Chars /\ charParity[o] = worldParity
    \/ o \in Items /\ place[o] \in Chars /\ charParity[place[o]] = worldParity
    \/ o \in Items /\ place[o] \in Sector /\ sectorParity[place[o]] = worldParity

\* When parities are together at the beginning of a save, an object that has
\* stayed is written once if its parity says so, else not.
StillWritten ==
    \A o \in still : /\ life[o] = "placed" /\ o \notin sailed
                     /\ place[o] \notin sailed
                     /\ sound = Healed =>
                            written[o] = IF Done(o) THEN 1 ELSE 0

IInv == /\ TypeOK /\ PlacesOK /\ SectorsSaved /\ CharsSaved
        /\ WrittenOnce /\ UidsApart /\ StillWritten

-----------------------------------------------------------------------------
(***************************************************************************)
(* Writing, object by object                                               *)
(***************************************************************************)

\* What a step does that writes the sectors ss and the characters cs, but not the
\* items lost.
Effect(ss, cs, lost) ==
    /\ sectorParity' \in [Sector -> BOOLEAN]
    /\ charParity' \in [Chars -> BOOLEAN]
    /\ written' \in [Objects -> Nat]
    /\ \A s \in Sector : sectorParity'[s] = IF s \in ss THEN worldParity
                                            ELSE sectorParity[s]
    /\ \A c \in Chars : charParity'[c] = IF c \in cs THEN worldParity
                                         ELSE charParity[c]
    /\ \A c \in Chars :
            written'[c] = IF c \in cs /\ charParity[c] # worldParity
                          THEN written[c] + 1 ELSE written[c]
    /\ \A i \in Items :
            written'[i] = IF /\ life[i] = "placed"
                             /\ \/ place[i] \in ss /\ i \notin lost
                                \/ place[i] \in cs /\ charParity[place[i]] # worldParity
                          THEN written[i] + 1 ELSE written[i]

\* The names of sectors, characters and items are different things.
LEMMA Names ==
    /\ Chars \cap Items = {} /\ Chars \cap Sector = {} /\ Objects \cap Sector = {}
    /\ Nowhere \notin Sector /\ Nowhere \notin Objects
    /\ Chars \subseteq Objects /\ Items \subseteq Objects /\ Players \subseteq Chars
BY SaveAssumption DEF Chars, Objects, Sector, Nowhere

\* Nothing is written.
LEMMA NoEffect ==
    ASSUME TypeOK, UNCHANGED <<sectorParity, charParity, written>>
    PROVE  Effect({}, {}, {})
BY DEF TypeOK, Effect

\* Write(cs, is), with the items on the ground of the sectors ss that are not lost
LEMMA WriteEffect ==
    ASSUME TypeOK, NEW ss \in SUBSET Sector, NEW cs \in SUBSET Chars,
           sectorParity' = [s \in Sector |-> IF s \in ss THEN worldParity
                                             ELSE sectorParity[s]],
           NEW lost,
           Write(cs, {i \in Items : life[i] = "placed" /\ place[i] \in ss
                                   /\ i \notin lost})
    PROVE  Effect(ss, cs, lost)
<1> DEFINE is == {i \in Items : life[i] = "placed" /\ place[i] \in ss
                                /\ i \notin lost}
           unsaved == {c \in cs : charParity[c] # worldParity}
           out == unsaved \union is \union UNION {Carried(c) : c \in unsaved}
<1>1. charParity' = [c \in Chars |-> IF c \in unsaved THEN worldParity
                                     ELSE charParity[c]]
  BY DEF Write
<1>2. written' = [o \in Objects |-> IF o \in out THEN written[o] + 1
                                    ELSE written[o]]
  BY DEF Write
<1>3. \A c \in Chars : c \in out <=> c \in unsaved
  BY Names DEF Carried
<1>4. \A i \in Items : i \in out <=> /\ life[i] = "placed"
                                     /\ \/ place[i] \in ss /\ i \notin lost
                                        \/ place[i] \in unsaved
  BY Names DEF Carried, Placed
<1>5. /\ sectorParity' \in [Sector -> BOOLEAN]
      /\ charParity' \in [Chars -> BOOLEAN]
      /\ \A s \in Sector : sectorParity'[s] = IF s \in ss THEN worldParity
                                              ELSE sectorParity[s]
      /\ \A c \in Chars : charParity'[c] = IF c \in cs THEN worldParity
                                           ELSE charParity[c]
  BY <1>1 DEF TypeOK
<1> HIDE DEF out
<1>6. written' \in [Objects -> Nat]
  BY <1>2 DEF TypeOK
<1>7. \A c \in Chars :
          written'[c] = IF c \in cs /\ charParity[c] # worldParity
                        THEN written[c] + 1 ELSE written[c]
  BY <1>2, <1>3, Names
<1>8. \A i \in Items :
          written'[i] = IF /\ life[i] = "placed"
                           /\ \/ place[i] \in ss /\ i \notin lost
                              \/ place[i] \in cs /\ charParity[place[i]] # worldParity
                        THEN written[i] + 1 ELSE written[i]
  BY <1>2, <1>4, Names
<1> QED BY <1>5, <1>6, <1>7, <1>8 DEF Effect

\* WriteSectors(ss, lost) writes the characters in those of the sectors that are
\* not saved, but for the lost ones.
LEMMA WriteSectorsEffect ==
    ASSUME TypeOK, NEW ss \in SUBSET Sector, NEW lost, WriteSectors(ss, lost)
    PROVE  LET unsaved == {s \in ss : sectorParity[s] # worldParity}
           IN  Effect(unsaved, {c \in Chars : /\ life[c] = "placed"
                                             /\ place[c] \in unsaved
                                             /\ c \notin lost}, lost)
<1> DEFINE unsaved == {s \in ss : sectorParity[s] # worldParity}
           inside == (UNION {In(s) : s \in unsaved}) \ lost
<1>0. \A o : o \in inside <=> /\ o \in Objects /\ life[o] = "placed"
                             /\ place[o] \in unsaved /\ o \notin lost
  <2>1. \A o, s : o \in In(s) <=> /\ o \in Objects /\ life[o] = "placed"
                                 /\ place[o] = s
    BY DEF In, Placed
  <2>2. \A o : o \in inside <=> /\ \E s \in unsaved : o \in In(s)
                               /\ o \notin lost
    OBVIOUS
  <2> QED BY <2>1, <2>2
<1>1. /\ inside \cap Chars = {c \in Chars : /\ life[c] = "placed"
                                           /\ place[c] \in unsaved
                                           /\ c \notin lost}
      /\ inside \cap Items = {i \in Items : /\ life[i] = "placed"
                                           /\ place[i] \in unsaved
                                           /\ i \notin lost}
  <2> HIDE DEF inside, unsaved
  <2> QED BY <1>0, Names
<1>2. WriteSectors(ss, lost)
  OBVIOUS
<1>3. sectorParity' = [s \in Sector |-> IF s \in unsaved THEN worldParity
                                        ELSE sectorParity[s]]
  BY DEF WriteSectors
<1>4. Write(inside \cap Chars, inside \cap Items)
  BY DEF WriteSectors
<1> QED BY ZenonT(30), <1>1, <1>3, <1>4, WriteEffect

-----------------------------------------------------------------------------
(***************************************************************************)
(* What a step that writes keeps                                           *)
(***************************************************************************)

LEMMA EffectWrittenOnce ==
    ASSUME TypeOK, WrittenOnce, NEW ss, NEW cs, NEW lost, Effect(ss, cs, lost),
           UNCHANGED <<saving, worldParity>>,
           saving \/ (ss = {} /\ cs = {})
    PROVE  WrittenOnce'
<1>1. ASSUME ~saving'
      PROVE  \A o \in Objects : written'[o] = 0
  BY <1>1 DEF WrittenOnce, Effect, Objects
<1>2. ASSUME NEW c \in Chars
      PROVE  /\ written'[c] <= 1
             /\ charParity'[c] # worldParity' => written'[c] = 0
  <2>1. written[c] \in Nat /\ written[c] <= 1
        /\ (charParity[c] # worldParity => written[c] = 0)
    BY Names DEF TypeOK, WrittenOnce
  <2>2. /\ charParity'[c] = IF c \in cs THEN worldParity ELSE charParity[c]
        /\ written'[c] = IF c \in cs /\ charParity[c] # worldParity
                         THEN written[c] + 1 ELSE written[c]
    BY DEF Effect
  <2> QED BY <2>1, <2>2
<1> QED BY <1>1, <1>2 DEF WrittenOnce

LEMMA EffectUidsApart ==
    ASSUME TypeOK, UidsApart, NEW ss, NEW cs \in SUBSET Alive, NEW lost, Effect(ss, cs, lost),
           UNCHANGED <<uid, held>>,
           \A o \in Objects : o \in Alive' <=> o \in Alive
    PROVE  UidsApart'
<1>1. ASSUME NEW o \in Objects, written'[o] > 0
      PROVE  o \in Alive \/ written[o] > 0
  <2>1. CASE o \in Chars
    BY <1>1, <2>1 DEF Effect
  <2>2. CASE o \in Items
    BY <1>1, <2>2 DEF Effect, Alive
  <2> QED BY <2>1, <2>2 DEF Objects
<1> QED BY <1>1 DEF UidsApart

LEMMA EffectStillWritten ==
    ASSUME TypeOK, StillWritten, NEW ss \in SUBSET Sector, NEW cs \in SUBSET Chars,
           Effect(ss, cs, {}),
           \A s \in ss : sectorParity[s] # worldParity,
           UNCHANGED <<worldParity, still, sailed, sound>>,
           \A i \in Items : life'[i] = life[i] /\ place'[i] = place[i],
           \A c \in Chars : life[c] = "placed" => /\ life'[c] = "placed"
                                                 /\ place'[c] \in Sector
    PROVE  StillWritten'
<1> SUFFICES ASSUME NEW o \in still
             PROVE  /\ life'[o] = "placed" /\ o \notin sailed
                    /\ place'[o] \notin sailed
                    /\ sound = Healed => written'[o] = IF Done(o)' THEN 1 ELSE 0
  BY DEF StillWritten
<1>1. /\ life[o] = "placed" /\ o \notin sailed /\ place[o] \notin sailed
      /\ sound = Healed => written[o] = IF Done(o) THEN 1 ELSE 0
  BY DEF StillWritten
<1>2. CASE o \in Chars
  <2>1. life'[o] = "placed" /\ place'[o] \notin sailed
    BY <1>1, <1>2, Names DEF TypeOK
  <2>2. Done(o) <=> charParity[o] = worldParity
    BY <1>2, Names DEF Done
  <2>3. Done(o)' <=> charParity'[o] = worldParity
    BY <1>2, Names DEF Done
  <2>4. /\ charParity'[o] = IF o \in cs THEN worldParity ELSE charParity[o]
        /\ written'[o] = IF o \in cs /\ charParity[o] # worldParity
                         THEN written[o] + 1 ELSE written[o]
    BY <1>2 DEF Effect
  <2> QED BY <1>1, <2>1, <2>2, <2>3, <2>4
<1>3. CASE o \in Items /\ place[o] \in Chars
  <2>1. Done(o) <=> charParity[place[o]] = worldParity
    BY <1>3, Names DEF Done
  <2>2. Done(o)' <=> charParity'[place[o]] = worldParity
    BY <1>3, Names DEF Done
  <2>3. charParity'[place[o]] = IF place[o] \in cs THEN worldParity
                                ELSE charParity[place[o]]
    BY <1>3 DEF Effect
  <2>4. written'[o] = IF place[o] \in cs /\ charParity[place[o]] # worldParity
                      THEN written[o] + 1 ELSE written[o]
    BY <1>1, <1>3, Names DEF Effect
  <2> QED BY <1>1, <1>3, <2>1, <2>2, <2>3, <2>4
<1>4. CASE o \in Items /\ place[o] \in Sector
  <2>1. Done(o) <=> sectorParity[place[o]] = worldParity
    BY <1>4, Names DEF Done
  <2>2. Done(o)' <=> sectorParity'[place[o]] = worldParity
    BY <1>4, Names DEF Done
  <2>3. sectorParity'[place[o]] = IF place[o] \in ss THEN worldParity
                                  ELSE sectorParity[place[o]]
    BY <1>4 DEF Effect
  <2>4. written'[o] = IF place[o] \in ss THEN written[o] + 1 ELSE written[o]
    BY <1>1, <1>4, Names DEF Effect
  <2> QED BY <1>1, <1>4, <2>1, <2>2, <2>3, <2>4
<1>5. CASE o \in Items /\ place[o] \notin Sector /\ place[o] \notin Chars
  <2>1. ~Done(o) /\ ~Done(o)'
    BY <1>5, Names DEF Done
  <2>2. written'[o] = written[o]
    BY <1>5 DEF Effect
  <2> QED BY <1>1, <1>5, <2>1, <2>2
<1>6. o \in Objects
  BY DEF TypeOK
<1> QED BY <1>2, <1>3, <1>4, <1>5, <1>6 DEF Objects

-----------------------------------------------------------------------------
(***************************************************************************)
(* The stages                                                              *)
(***************************************************************************)

LEMMA IInvInit == Init => IInv
<1> SUFFICES ASSUME Init PROVE IInv
  OBVIOUS
<1>1. uid \in [Objects -> Uids]
  <2>1. (CHOOSE u \in Uids : TRUE) \in Uids
    BY SaveAssumption
  <2> DEFINE first == CHOOSE u \in Uids : TRUE
  <2>2. first \in Uids /\ uid \in [Objects -> {first}]
    BY <2>1 DEF Init
  <2> HIDE DEF first
  <2> QED BY <2>2
<1>2. /\ saving = FALSE /\ next = Sectors + 1 /\ worldParity = FALSE
      /\ sectorParity = [s \in Sector |-> FALSE]
      /\ charParity = [c \in Chars |-> FALSE]
      /\ life = [o \in Objects |-> "unborn"]
      /\ place = [o \in Objects |-> Nowhere]
      /\ online = {} /\ held = {} /\ still = {} /\ sailed = {}
      /\ written = [o \in Objects |-> 0] /\ sound = Healed
  BY DEF Init
<1>3. TypeOK
  <2>1. next \in 1..(Sectors + 1)
    BY <1>2, SaveAssumption
  <2>2. sound \in -1..Healed
    BY <1>2 DEF Healed
  <2>3. /\ written \in [Objects -> Nat]
        /\ place \in [Objects -> Sector \union Chars \union {Nowhere}]
        /\ life \in [Objects -> {"unborn", "new", "placed", "deleted", "gone"}]
    BY <1>2
  <2> QED BY <1>1, <1>2, <2>1, <2>2, <2>3 DEF TypeOK
<1>4. /\ PlacesOK /\ SectorsSaved /\ CharsSaved
      /\ WrittenOnce /\ UidsApart /\ StillWritten
  <2>1. \A o \in Objects : life[o] = "unborn" /\ written[o] = 0
    BY <1>2
  <2>2. PlacesOK /\ SectorsSaved /\ CharsSaved
    BY <1>2, <2>1, Names DEF PlacesOK, SectorsSaved, CharsSaved
  <2>3. WrittenOnce /\ StillWritten
    <3>1. \A c \in Chars : written[c] = 0 /\ written[c] <= 1
      BY <2>1, Names
    <3>2. WrittenOnce
      BY <2>1, <3>1 DEF WrittenOnce
    <3>3. StillWritten
      BY <1>2 DEF StillWritten
    <3> QED BY <3>2, <3>3
  <2>4. UidsApart
    BY <2>1 DEF UidsApart, Alive
  <2> QED BY <2>2, <2>3, <2>4
<1> QED BY <1>3, <1>4 DEF IInv

LEMMA SaveBeginsKeeps ==
    ASSUME IInv, SaveBegins PROVE IInv'
<1> USE DEF IInv, Whole, Healed
<1>1. TypeOK'
  BY SaveAssumption DEF TypeOK, SaveBegins, Sector, Placed
<1>2. \A o \in Objects : life'[o] = IF life[o] \in {"new", "deleted"} THEN "gone"
                                  ELSE life[o]
  BY DEF SaveBegins
<1>3. \A o \in Objects : (life'[o] = "placed" <=> life[o] = "placed")
                       /\ life'[o] # "new"
  BY <1>2
<1>4. worldParity' # worldParity
  BY DEF SaveBegins, TypeOK
<1>5. PlacesOK'
  BY <1>3, Names DEF PlacesOK, SaveBegins
<1>6. SectorsSaved'
  BY DEF SectorsSaved, SaveBegins, Sector
<1>7. sound >= 1 => \A s \in Sector : sectorParity'[s] # worldParity'
  BY <1>4 DEF SectorsSaved, SaveBegins
<1>8. CharsSaved'
  <2>1. Whole' => sound >= 1
    BY DEF SaveBegins
  <2> QED BY <1>3, <1>5, <1>7, <2>1, Names DEF CharsSaved, PlacesOK
<1>9. WrittenOnce'
  BY Names DEF WrittenOnce, SaveBegins
<1>10. UidsApart'
  <2>1. \A o \in Objects : o \in Alive' => o \in Alive
    BY <1>2 DEF Alive
  <2> QED BY <2>1 DEF UidsApart, SaveBegins, WrittenOnce, TypeOK
<1>11. StillWritten'
  <2> SUFFICES ASSUME NEW o \in still'
               PROVE  /\ life'[o] = "placed" /\ o \notin sailed
                      /\ place[o] \notin sailed
                      /\ written[o] = 0
                      /\ sound = Healed => ~Done(o)'
    BY DEF StillWritten, SaveBegins
  <2>1. /\ o \in Objects /\ life[o] = "placed" /\ o \notin sailed
        /\ place[o] \notin sailed
    BY DEF SaveBegins, Placed
  <2>2. life'[o] = "placed" /\ written[o] = 0
    BY <1>3, <2>1 DEF WrittenOnce, SaveBegins
  <2>3. ASSUME NEW c \in Chars, life[c] = "placed", c \notin sailed,
               sound = Healed
        PROVE  charParity'[c] # worldParity'
    BY <1>4, <2>3 DEF CharsSaved, SectorsSaved, PlacesOK, SaveBegins
  <2>4. place' = place
    BY DEF SaveBegins
  <2>5. sound = Healed => ~Done(o)'
    BY <1>7, <2>1, <2>3, <2>4, Names DEF Done, PlacesOK
  <2> QED BY <2>1, <2>2, <2>5
<1> QED BY <1>1, <1>5, <1>6, <1>8, <1>9, <1>10, <1>11

LEMMA SaveSectorsKeeps ==
    ASSUME IInv, SaveSectors PROVE IInv'
<1> USE DEF IInv, Whole, Healed
<1>1. PICK last \in next..Sectors : WriteSectors(next..last, {}) /\ next' = last + 1
  BY DEF SaveSectors
<1> DEFINE ss == {s \in next..last : sectorParity[s] # worldParity}
           cs == {c \in Chars : /\ life[c] = "placed" /\ place[c] \in ss
                               /\ c \notin {}}
<1>2. next..last \subseteq Sector /\ ss \subseteq Sector
      /\ last \in Nat /\ next \in Nat /\ last <= Sectors /\ next <= last
  BY SaveAssumption DEF TypeOK, Sector
<1>3. Effect(ss, cs, {})
  BY <1>1, <1>2, WriteSectorsEffect
<1>4. /\ UNCHANGED <<saving, worldParity, life, place, online, uid, held, still,
                     sailed, sound>>
      /\ saving
  BY DEF SaveSectors, world
<1>5. next' \in 1..(Sectors + 1)
  BY <1>1, <1>2, SaveAssumption
<1>6. TypeOK'
  BY <1>3, <1>4, <1>5 DEF TypeOK, Effect
<1>7. PlacesOK'
  BY <1>4 DEF PlacesOK
<1>8. SectorsSaved'
  <2> SUFFICES ASSUME NEW s \in Sector, s < last + 1
               PROVE  sectorParity'[s] = worldParity
    BY <1>1, <1>4 DEF SectorsSaved
  <2>1. s \in ss \/ sectorParity[s] = worldParity
    <3>1. s < next \/ s \in next..last
      BY <1>2 DEF Sector
    <3> QED BY <1>4, <3>1 DEF SectorsSaved
  <2> QED BY <2>1, <1>3 DEF Effect
<1>9. CharsSaved'
  <2> SUFFICES ASSUME NEW c \in Chars
               PROVE  /\ life[c] = "new" => charParity'[c] = worldParity
                      /\ /\ life[c] = "placed" /\ c \notin sailed
                         /\ Whole /\ sectorParity'[place[c]] = worldParity
                         => charParity'[c] = worldParity
    BY <1>4 DEF CharsSaved
  <2>1. charParity'[c] = IF c \in cs THEN worldParity ELSE charParity[c]
    BY <1>3 DEF Effect
  <2>2. CASE c \in cs
    BY <2>1, <2>2
  <2>3. CASE c \notin cs
    <3>1. \/ life[c] # "placed"
          \/ place[c] \in Sector /\ place[c] \notin ss
      BY <2>3 DEF PlacesOK
    <3>2. \/ life[c] # "placed"
          \/ sectorParity'[place[c]] = sectorParity[place[c]]
      BY <3>1, <1>3 DEF Effect
    <3> QED BY <2>1, <2>3, <3>2 DEF CharsSaved
  <2> QED BY <2>2, <2>3
<1>10. WrittenOnce'
  BY <1>3, <1>4, EffectWrittenOnce
<1>11. UidsApart'
  <2>1. cs \subseteq Alive
    BY Names DEF Alive
  <2> QED BY <1>3, <1>4, <2>1, EffectUidsApart DEF Alive
<1>12. StillWritten'
  <2>1. \A c \in Chars : life[c] = "placed" => /\ life'[c] = "placed"
                                              /\ place'[c] \in Sector
    BY <1>4 DEF PlacesOK
  <2> QED BY <1>2, <1>3, <1>4, <2>1, EffectStillWritten
<1> QED BY <1>6, <1>7, <1>8, <1>9, <1>10, <1>11, <1>12

LEMMA SaveEndsKeeps ==
    ASSUME IInv, SaveEnds PROVE IInv'
<1> USE DEF IInv, Whole, Healed, parities
<1>1. TypeOK'
  <2>1. sound' \in -1..2
    BY DEF TypeOK, SaveEnds
  <2>2. written' \in [Objects -> Nat]
    BY DEF SaveEnds
  <2> QED BY <2>1, <2>2 DEF TypeOK, SaveEnds
<1>2. PlacesOK'
  BY DEF PlacesOK, SaveEnds
<1>3. SectorsSaved'
  BY SaveAssumption DEF SectorsSaved, SaveEnds, Sector
<1>4. CharsSaved'
  <2>1. Whole' => Whole
    BY DEF TypeOK, SaveEnds
  <2> QED BY <2>1 DEF CharsSaved, SaveEnds
<1>5. WrittenOnce'
  BY Names DEF WrittenOnce, SaveEnds
<1>6. UidsApart'
  BY DEF UidsApart, SaveEnds, Alive
<1>7. StillWritten'
  BY DEF StillWritten, SaveEnds
<1> QED BY <1>1, <1>2, <1>3, <1>4, <1>5, <1>6, <1>7

\* The sectors have the parity of the save although objects are missing.
LEMMA StageFailsKeeps ==
    ASSUME IInv, StageFails PROVE IInv'
<1> USE DEF IInv, Whole, Healed
<1>a. PICK last \in next..Sectors :
          /\ \E lost \in SUBSET In(last) : WriteSectors(next..last, lost)
          /\ next' = last + 1
  BY DEF StageFails
<1>b. PICK lost \in SUBSET In(last) : WriteSectors(next..last, lost)
  BY <1>a
<1>1. WriteSectors(next..last, lost) /\ next' = last + 1
  BY <1>a, <1>b
<1> DEFINE ss == {s \in next..last : sectorParity[s] # worldParity}
           cs == {c \in Chars : /\ life[c] = "placed" /\ place[c] \in ss
                               /\ c \notin lost}
<1>2. next..last \subseteq Sector /\ ss \subseteq Sector
      /\ last \in Nat /\ next \in Nat /\ last <= Sectors /\ next <= last
  BY SaveAssumption DEF TypeOK, Sector
<1>3. Effect(ss, cs, lost)
  BY <1>1, <1>2, WriteSectorsEffect
<1>4. /\ UNCHANGED <<saving, worldParity, life, place, online, uid, held, still,
                     sailed>>
      /\ saving /\ sound' = -1
  BY DEF StageFails, world
<1>5. next' \in 1..(Sectors + 1)
  BY <1>1, <1>2, SaveAssumption
<1>6. TypeOK'
  BY <1>3, <1>4, <1>5 DEF TypeOK, Effect
<1>7. PlacesOK'
  BY <1>4 DEF PlacesOK
<1>8. SectorsSaved'
  <2> SUFFICES ASSUME NEW s \in Sector, s < last + 1
               PROVE  sectorParity'[s] = worldParity
    BY <1>1, <1>4 DEF SectorsSaved
  <2>1. s \in ss \/ sectorParity[s] = worldParity
    <3>1. s < next \/ s \in next..last
      BY <1>2 DEF Sector
    <3> QED BY <1>4, <3>1 DEF SectorsSaved
  <2> QED BY <2>1, <1>3 DEF Effect
<1>9. CharsSaved'
  <2>1. \A c \in Chars : charParity'[c] = IF c \in cs THEN worldParity
                                          ELSE charParity[c]
    BY <1>3 DEF Effect
  <2> QED BY <1>4, <2>1 DEF CharsSaved
<1>10. WrittenOnce'
  BY <1>3, <1>4, EffectWrittenOnce
<1>11. UidsApart'
  <2>1. cs \subseteq Alive
    BY Names DEF Alive
  <2> QED BY <1>3, <1>4, <2>1, EffectUidsApart DEF Alive
<1>12. StillWritten'
  BY <1>4 DEF StillWritten
<1> QED BY <1>4, <1>6, <1>7, <1>8, <1>9, <1>10, <1>11, <1>12

LEMMA SaveAbortedKeeps ==
    ASSUME IInv, SaveAborted PROVE IInv'
<1> USE DEF IInv, Whole, Healed, SaveAborted, parities, world
<1>1. TypeOK'
  <2>1. sound' \in -1..2 /\ written' \in [Objects -> Nat]
    OBVIOUS
  <2> QED BY <2>1 DEF TypeOK
<1>2. PlacesOK' /\ SectorsSaved' /\ CharsSaved'
  BY DEF PlacesOK, SectorsSaved, CharsSaved
<1>3. WrittenOnce'
  BY Names DEF WrittenOnce
<1>4. UidsApart'
  BY DEF UidsApart, Alive
<1>5. StillWritten'
  BY DEF StillWritten
<1> QED BY <1>1, <1>2, <1>3, <1>4, <1>5

-----------------------------------------------------------------------------
(***************************************************************************)
(* The game                                                                *)
(***************************************************************************)

LEMMA CreateKeeps ==
    ASSUME IInv, NEW o \in Objects, Create(o) PROVE IInv'
<1> USE DEF IInv, Whole, Healed
<1>1. PICK u \in FreeUids : uid' = [uid EXCEPT ![o] = u]
  BY DEF Create
<1>2. u \in Uids /\ u \notin held /\ \A p \in Alive : uid[p] # u
  BY <1>1 DEF FreeUids
<1>3. /\ life[o] = "unborn" /\ life' = [life EXCEPT ![o] = "new"]
      /\ charParity' = IF o \in Chars THEN [charParity EXCEPT ![o] = worldParity]
                       ELSE charParity
      /\ UNCHANGED <<saving, next, worldParity, sectorParity, place, online, held,
                     written, still, sailed, sound>>
  BY DEF Create
<1>4. \A p \in Objects : life'[p] = IF p = o THEN "new" ELSE life[p]
  BY <1>3 DEF TypeOK
<1>5. \A c \in Chars : charParity'[c] = IF c = o THEN worldParity ELSE charParity[c]
  BY <1>3 DEF TypeOK
<1>6. TypeOK'
  <2>1. uid' \in [Objects -> Uids]
    BY <1>1, <1>2 DEF TypeOK
  <2>2. life' \in [Objects -> {"unborn", "new", "placed", "deleted", "gone"}]
    BY <1>3 DEF TypeOK
  <2>3. charParity' \in [Chars -> BOOLEAN]
    BY <1>3 DEF TypeOK
  <2> QED BY <1>3, <2>1, <2>2, <2>3 DEF TypeOK
<1>7. PlacesOK'
  BY <1>3, <1>4, Names DEF PlacesOK
<1>8. SectorsSaved'
  BY <1>3 DEF SectorsSaved
<1>9. CharsSaved'
  BY <1>3, <1>4, <1>5, Names DEF CharsSaved
<1>10. WrittenOnce'
  BY <1>3, <1>5 DEF WrittenOnce
<1>11. UidsApart'
  <2>1. \A p \in Objects : p \in Alive' <=> p = o \/ p \in Alive
    BY <1>4 DEF Alive
  <2>2. \A p \in Objects : uid'[p] = IF p = o THEN u ELSE uid[p]
    BY <1>1 DEF TypeOK
  <2>3. \A p \in Objects : p \in Alive \/ written[p] > 0 => uid[p] # u
    BY <1>2 DEF UidsApart
  <2> QED BY <1>2, <1>3, <2>1, <2>2, <2>3 DEF UidsApart
<1>12. StillWritten'
  <2> SUFFICES ASSUME NEW p \in still
               PROVE  life'[p] = "placed" /\ (Done(p)' <=> Done(p))
    BY <1>3 DEF StillWritten
  <2>1. p \in Objects /\ life[p] = "placed" /\ p # o
    BY <1>3 DEF StillWritten, TypeOK
  <2>2. p \in Items /\ place[p] \in Chars => place[p] # o
    BY <1>3, <2>1, Names DEF PlacesOK
  <2>3. Done(p)' <=> Done(p)
    BY <1>3, <1>5, <2>1, <2>2 DEF Done
  <2> QED BY <1>4, <2>1, <2>3
<1> QED BY <1>6, <1>7, <1>8, <1>9, <1>10, <1>11, <1>12

LEMMA LogOutKeeps ==
    ASSUME IInv, NEW c \in Players, LogOut(c) PROVE IInv'
<1> USE DEF IInv, Whole, Healed, LogOut, parities
<1>1. TypeOK'
  BY DEF TypeOK
<1>2. PlacesOK' /\ SectorsSaved' /\ CharsSaved'
  BY DEF PlacesOK, SectorsSaved, CharsSaved
<1>3. WrittenOnce' /\ StillWritten'
  BY DEF WrittenOnce, StillWritten, Done
<1>4. UidsApart'
  BY DEF UidsApart, Alive
<1> QED BY <1>1, <1>2, <1>3, <1>4

LEMMA MoveOfflineKeeps ==
    ASSUME IInv, NEW c \in Chars, NEW s \in Sector, MoveOffline(c, s) PROVE IInv'
<1> USE DEF IInv, Whole, Healed
<1>1. /\ c \in Players /\ life[c] = "placed"
      /\ place' = [place EXCEPT ![c] = s]
      /\ IF saving THEN /\ sailed' = sailed \union {c}
                        /\ still' = still \ ({c} \union Carried(c))
                   ELSE sailed' = sailed /\ still' = still
      /\ UNCHANGED <<saving, next, worldParity, sectorParity, charParity, life,
                     online, uid, held, written, sound>>
  BY DEF MoveOffline, parities, Placed
<1>2. \A o \in Objects : place'[o] = IF o = c THEN s ELSE place[o]
  BY <1>1 DEF TypeOK
<1>3. TypeOK'
  <2>1. place' \in [Objects -> Sector \union Chars \union {Nowhere}]
    BY <1>1 DEF TypeOK
  <2>2. still' \subseteq Objects /\ sailed' \subseteq Players
    BY <1>1 DEF TypeOK
  <2> QED BY <1>1, <2>1, <2>2 DEF TypeOK
<1>4. PlacesOK'
  BY <1>1, <1>2, Names DEF PlacesOK
<1>5. SectorsSaved'
  BY <1>1 DEF SectorsSaved
<1>6. CharsSaved'
  <2> SUFFICES ASSUME NEW d \in Chars
               PROVE  /\ life[d] = "new" => charParity[d] = worldParity
                      /\ /\ life[d] = "placed" /\ d \notin sailed' /\ Whole
                         /\ sectorParity[place'[d]] = worldParity
                         => charParity[d] = worldParity
    BY <1>1 DEF CharsSaved
  <2>1. CASE d # c
    BY <1>1, <1>2, <2>1, Names DEF CharsSaved
  <2>2. CASE d = c /\ saving
    BY <1>1, <2>2
  <2>3. CASE d = c /\ ~saving
    BY <1>1, <2>3 DEF CharsSaved, SectorsSaved, PlacesOK
  <2> QED BY <2>1, <2>2, <2>3
<1>7. WrittenOnce'
  BY <1>1 DEF WrittenOnce
<1>8. UidsApart'
  BY <1>1 DEF UidsApart, Alive
<1>9. StillWritten'
  <2> SUFFICES ASSUME NEW o \in still'
               PROVE  /\ o \notin sailed' /\ place'[o] \notin sailed'
                      /\ o \in still /\ (Done(o)' <=> Done(o))
    BY <1>1 DEF StillWritten
  <2>1. o \in still /\ o \in Objects
    BY <1>1 DEF TypeOK
  <2>2. /\ life[o] = "placed" /\ o \notin sailed /\ place[o] \notin sailed
    BY <2>1 DEF StillWritten
  <2>3. CASE saving
    <3>1. o # c /\ ~(o \in Items /\ life[o] = "placed" /\ place[o] = c)
      BY <1>1, <2>1, <2>3 DEF Carried, Placed
    <3>2. place'[o] = place[o]
      BY <1>2, <2>1, <3>1
    <3>3. place[o] # c
      BY <2>2, <2>1, <3>1, Names DEF PlacesOK, Objects
    <3>4. Done(o)' <=> Done(o)
      BY <1>1, <3>2 DEF Done
    <3> QED BY <1>1, <2>1, <2>2, <2>3, <3>1, <3>2, <3>3, <3>4
  <2>4. CASE ~saving
    <3>1. o \notin sailed' /\ place'[o] \notin sailed'
      BY <1>1, <1>2, <2>1, <2>2, <2>4, Names DEF TypeOK
    <3>2. Done(o)' <=> Done(o)
      BY <1>1, <1>2, <2>1, Names DEF Done
    <3> QED BY <2>1, <3>1, <3>2
  <2> QED BY <2>3, <2>4
<1> QED BY <1>3, <1>4, <1>5, <1>6, <1>7, <1>8, <1>9

LEMMA MoveItemKeeps ==
    ASSUME IInv, NEW i \in Items, NEW p, MoveItem(i, p) PROVE IInv'
<1> USE DEF IInv, Whole, Healed
<1>1. /\ life[i] \in {"new", "placed"}
      /\ p \in Sector \/ (p \in Chars /\ life[p] = "placed")
      /\ place' = [place EXCEPT ![i] = p]
      /\ life' = [life EXCEPT ![i] = "placed"]
      /\ still' = still \ {i}
      /\ UNCHANGED <<saving, next, worldParity, sectorParity, charParity, online,
                     uid, held, written, sailed, sound>>
  BY DEF MoveItem, parities, Placed
<1>2. /\ i \in Objects /\ i \notin Chars
      /\ \A o \in Objects : /\ place'[o] = IF o = i THEN p ELSE place[o]
                           /\ life'[o] = IF o = i THEN "placed" ELSE life[o]
  BY <1>1, Names DEF TypeOK
<1>3. TypeOK'
  BY <1>1, <1>2 DEF TypeOK
<1>4. PlacesOK'
  BY <1>1, <1>2, Names DEF PlacesOK
<1>5. SectorsSaved' /\ WrittenOnce'
  BY <1>1 DEF SectorsSaved, WrittenOnce
<1>6. CharsSaved'
  BY <1>1, <1>2, Names DEF CharsSaved
<1>7. UidsApart'
  <2>1. \A o \in Objects : o \in Alive' <=> o \in Alive
    BY <1>1, <1>2 DEF Alive
  <2> QED BY <1>1, <2>1 DEF UidsApart
<1>8. StillWritten'
  <2> SUFFICES ASSUME NEW o \in still, o # i
               PROVE  /\ life'[o] = life[o] /\ place'[o] = place[o]
                      /\ (Done(o)' <=> Done(o))
    BY <1>1 DEF StillWritten
  <2>1. life'[o] = life[o] /\ place'[o] = place[o]
    BY <1>2 DEF TypeOK
  <2> QED BY <1>1, <2>1 DEF Done
<1> QED BY <1>3, <1>4, <1>5, <1>6, <1>7, <1>8

LEMMA DeleteKeeps ==
    ASSUME IInv, NEW o \in Objects, Delete(o) PROVE IInv'
<1> USE DEF IInv, Whole, Healed
<1> DEFINE all == {o} \union (IF o \in Chars THEN Carried(o) ELSE {})
<1>1. /\ life[o] \in {"new", "placed"}
      /\ life' = [x \in Objects |-> IF x \in all THEN "deleted" ELSE life[x]]
      /\ place' = [x \in Objects |-> IF x \in all THEN Nowhere ELSE place[x]]
      /\ still' = still \ all
      /\ online' = online \ all
      /\ UNCHANGED <<saving, next, worldParity, sectorParity, charParity, uid, held,
                     written, sailed, sound>>
  BY DEF Delete, parities
<1>2. /\ \A x \in Objects : x \in all => life[x] \in {"new", "placed"}
      /\ \A x \in Objects : x \in all /\ x # o =>
              o \in Chars /\ x \in Items /\ place[x] = o
      /\ \A x \in Items : life[x] = "placed" /\ place[x] = o /\ o \in Chars
              => x \in all
  BY <1>1, Names DEF Carried, Placed
<1> HIDE DEF all
<1>3. \A x \in Objects : /\ life'[x] = IF x \in all THEN "deleted" ELSE life[x]
                       /\ place'[x] = IF x \in all THEN Nowhere ELSE place[x]
  BY <1>1
<1>4. TypeOK'
  BY <1>1 DEF TypeOK
<1>5. PlacesOK'
  <2>1. ASSUME NEW c \in Chars, life'[c] = "placed"
        PROVE  place'[c] \in Sector
    BY <1>3, <2>1, Names DEF PlacesOK
  <2>2. ASSUME NEW i \in Items, life'[i] = "placed"
        PROVE  place'[i] \in Sector \/ (place'[i] \in Chars /\ life'[place'[i]] = "placed")
    <3>1. i \in Objects /\ i \notin all /\ life[i] = "placed" /\ place'[i] = place[i]
      BY <1>3, <2>2, Names
    <3>2. CASE place[i] \in Sector
      BY <3>1, <3>2
    <3>3. CASE place[i] \in Chars /\ life[place[i]] = "placed"
      <4>1. place[i] \in Objects /\ place[i] \notin Items
        BY <3>3, Names
      <4>2. place[i] # o
        BY <1>2, <3>1, <3>3
      <4>3. place[i] \notin all
        BY <1>2, <4>1, <4>2
      <4> QED BY <1>3, <3>1, <3>3, <4>1, <4>3
    <3> QED BY <3>1, <3>2, <3>3 DEF PlacesOK
  <2> QED BY <2>1, <2>2 DEF PlacesOK
<1>6. SectorsSaved' /\ WrittenOnce'
  BY <1>1 DEF SectorsSaved, WrittenOnce
<1>7. CharsSaved'
  BY <1>1, <1>3, Names DEF CharsSaved
<1>8. UidsApart'
  <2>1. \A x \in Objects : x \in Alive' <=> x \in Alive
    <3> SUFFICES ASSUME NEW x \in Objects
                 PROVE  life'[x] \in {"new", "placed", "deleted"}
                        <=> life[x] \in {"new", "placed", "deleted"}
      BY DEF Alive
    <3>1. CASE x \in all
      BY <1>2, <1>3, <3>1
    <3>2. CASE x \notin all
      BY <1>3, <3>2
    <3> QED BY <3>1, <3>2
  <2> QED BY <1>1, <2>1 DEF UidsApart
<1>9. StillWritten'
  <2> SUFFICES ASSUME NEW x \in still, x \notin all
               PROVE  /\ life'[x] = life[x] /\ place'[x] = place[x]
                      /\ (Done(x)' <=> Done(x))
    BY <1>1 DEF StillWritten
  <2>1. life'[x] = life[x] /\ place'[x] = place[x]
    BY <1>3 DEF TypeOK
  <2> QED BY <1>1, <2>1 DEF Done
<1> QED BY <1>4, <1>5, <1>6, <1>7, <1>8, <1>9

LEMMA DestroyDeletedKeeps ==
    ASSUME IInv, DestroyDeleted PROVE IInv'
<1> USE DEF IInv, Whole, Healed
<1> DEFINE dead == {o \in Objects : life[o] = "deleted"}
<1>1. /\ life' = [o \in Objects |-> IF o \in dead THEN "gone" ELSE life[o]]
      /\ held' = IF saving THEN held \union {uid[o] : o \in dead} ELSE held
      /\ UNCHANGED <<saving, next, worldParity, sectorParity, charParity, place,
                     online, uid, written, still, sailed, sound>>
  BY DEF DestroyDeleted, parities
<1>2. \A o \in Objects : life'[o] = IF life[o] = "deleted" THEN "gone" ELSE life[o]
  BY <1>1
<1>3. TypeOK'
  BY <1>1 DEF TypeOK
<1>4. PlacesOK'
  BY <1>1, <1>2, Names DEF PlacesOK
<1>5. SectorsSaved' /\ WrittenOnce'
  BY <1>1 DEF SectorsSaved, WrittenOnce
<1>6. CharsSaved'
  BY <1>1, <1>2, Names DEF CharsSaved
<1>7. UidsApart'
  <2>1. \A o \in Objects : o \in Alive' <=> o \in Alive /\ life[o] # "deleted"
    BY <1>2 DEF Alive
  <2>2. ASSUME NEW o \in Objects, o \in Alive'
        PROVE  uid[o] \notin held'
    <3>1. o \in Alive /\ o \notin dead
      BY <2>1, <2>2
    <3>2. \A d \in dead : d \in Alive /\ uid[d] # uid[o]
      BY <3>1 DEF UidsApart, Alive
    <3> QED BY <1>1, <3>1, <3>2 DEF UidsApart
  <2>3. ASSUME NEW o \in Objects, written[o] > 0
        PROVE  o \in Alive' \/ uid[o] \in held'
    <3>1. saving
      BY <2>3 DEF WrittenOnce
    <3>2. CASE o \in dead
      BY <1>1, <3>1, <3>2
    <3>3. CASE o \notin dead
      BY <1>1, <2>1, <2>3, <3>3 DEF UidsApart
    <3> QED BY <3>2, <3>3
  <2> QED BY <1>1, <2>1, <2>2, <2>3 DEF UidsApart
<1>8. StillWritten'
  BY <1>1, <1>2 DEF StillWritten, Done, TypeOK
<1> QED BY <1>3, <1>4, <1>5, <1>6, <1>7, <1>8
\* What MoveCharToSector writes: nothing, the character, or its new sector.
\* Wherever it arrives, it has the parity of a saved sector.
LEMMA WalkEffect ==
    ASSUME IInv, NEW c \in Chars, NEW s \in Sector, Walk(c, s)
    PROVE  \E ss \in SUBSET Sector, cs \in SUBSET Chars :
               /\ Effect(ss, cs, {})
               /\ \A z \in ss : sectorParity[z] # worldParity
               /\ cs \subseteq Alive
               /\ saving \/ (ss = {} /\ cs = {})
               /\ \A d \in Chars : life[d] = "placed" /\ place[d] \in ss => d \in cs
               /\ (c \notin sailed /\ Whole /\ sectorParity'[s] = worldParity)
                  => charParity'[c] = worldParity
<1> USE DEF IInv, Whole, Healed
<1>1. life[c] \in {"new", "placed"} /\ c \in Alive
  BY Names DEF Walk, Alive
<1>2. charParity[c] \in BOOLEAN /\ sectorParity[s] \in BOOLEAN
      /\ worldParity \in BOOLEAN
  BY DEF TypeOK
<1>3. ASSUME c \notin sailed, Whole, life[c] = "placed" => sectorParity[place[c]] = worldParity
      PROVE  charParity[c] = worldParity
  BY <1>1, <1>3 DEF CharsSaved
<1>4. CASE c \in online /\ place[c] = s
  <2>1. UNCHANGED <<sectorParity, charParity, written>>
    BY <1>4 DEF Walk, MoveCharToSector
  <2>2. Effect({}, {}, {})
    BY <2>1, NoEffect
  <2>3. (c \notin sailed /\ Whole /\ sectorParity'[s] = worldParity)
        => charParity'[c] = worldParity
    BY <1>3, <1>4, <2>1
  <2> QED BY <2>2, <2>3
<1>5. CASE ~(c \in online /\ place[c] = s)
           /\ (~saving \/ charParity[c] = sectorParity[s])
  <2>1. UNCHANGED <<sectorParity, charParity, written>>
    BY <1>5 DEF Walk, MoveCharToSector
  <2>2. Effect({}, {}, {})
    BY <2>1, NoEffect
  <2>3. (c \notin sailed /\ Whole /\ sectorParity'[s] = worldParity)
        => charParity'[c] = worldParity
    <3>1. CASE ~saving
      BY <1>3, <2>1, <3>1 DEF SectorsSaved, PlacesOK
    <3>2. CASE charParity[c] = sectorParity[s]
      BY <2>1, <3>2
    <3> QED BY <1>5, <3>1, <3>2
  <2> QED BY <2>2, <2>3
<1>6. CASE /\ ~(c \in online /\ place[c] = s)
           /\ ~(~saving \/ charParity[c] = sectorParity[s])
  <2>1. IF sectorParity[s] = worldParity
        THEN Write({c}, {}) /\ UNCHANGED sectorParity
        ELSE WriteSectors({s}, {})
    BY <1>6 DEF Walk, MoveCharToSector
  <2>2. CASE sectorParity[s] = worldParity
    <3>1. sectorParity' = [z \in Sector |-> IF z \in {} THEN worldParity
                                            ELSE sectorParity[z]]
      BY <2>1, <2>2 DEF TypeOK
    <3>2. Write({c}, {i \in Items : life[i] = "placed" /\ place[i] \in {}})
      BY <2>1, <2>2
    <3>3. Effect({}, {c}, {})
      BY <3>1, <3>2, WriteEffect
    <3>4. charParity'[c] = worldParity
      BY <3>3 DEF Effect
    <3> QED BY <1>1, <1>6, <3>3, <3>4
  <2>3. CASE sectorParity[s] # worldParity
    <3> DEFINE cs == {d \in Chars : /\ life[d] = "placed" /\ place[d] \in {s}
                                    /\ d \notin {}}
    <3>1. {z \in {s} : sectorParity[z] # worldParity} = {s}
      BY <2>3
    <3>2. WriteSectors({s}, {})
      BY <2>1, <2>3
    <3>3. Effect({s}, cs, {})
      BY <3>1, <3>2, WriteSectorsEffect
    <3>4. charParity[c] = worldParity
      BY <1>2, <1>6, <2>3
    <3>5. charParity'[c] = worldParity
      BY <3>3, <3>4 DEF Effect
    <3>6. cs \subseteq Alive
      BY Names DEF Alive
    <3> QED BY <1>6, <2>3, <3>3, <3>5, <3>6
  <2> QED BY <2>2, <2>3
<1> QED BY <1>4, <1>5, <1>6

LEMMA WalkKeeps ==
    ASSUME IInv, NEW c \in Chars, NEW s \in Sector, Walk(c, s) PROVE IInv'
<1> USE DEF IInv, Whole, Healed
<1>1. PICK ss \in SUBSET Sector, cs \in SUBSET Chars :
          /\ Effect(ss, cs, {})
          /\ \A z \in ss : sectorParity[z] # worldParity
          /\ cs \subseteq Alive
          /\ saving \/ (ss = {} /\ cs = {})
          /\ \A d \in Chars : life[d] = "placed" /\ place[d] \in ss => d \in cs
          /\ (c \notin sailed /\ Whole /\ sectorParity'[s] = worldParity)
             => charParity'[c] = worldParity
  BY WalkEffect
<1>2. /\ life[c] \in {"new", "placed"}
      /\ life' = [life EXCEPT ![c] = "placed"]
      /\ place' = [place EXCEPT ![c] = s]
      /\ online' = online \union {c}
      /\ UNCHANGED <<saving, next, worldParity, uid, held, still, sailed, sound>>
  BY DEF Walk, MoveCharToSector
<1>3. \A o \in Objects : /\ life'[o] = IF o = c THEN "placed" ELSE life[o]
                       /\ place'[o] = IF o = c THEN s ELSE place[o]
  BY <1>2 DEF TypeOK
<1>4. TypeOK'
  <2>1. /\ life' \in [Objects -> {"unborn", "new", "placed", "deleted", "gone"}]
        /\ place' \in [Objects -> Sector \union Chars \union {Nowhere}]
    BY <1>2 DEF TypeOK
  <2> QED BY <1>1, <1>2, <2>1 DEF TypeOK, Effect
<1>5. PlacesOK'
  BY <1>3, Names DEF PlacesOK
<1>6. SectorsSaved'
  BY <1>1, <1>2 DEF SectorsSaved, Effect
<1>7. CharsSaved'
  <2> SUFFICES ASSUME NEW d \in Chars
               PROVE  /\ life'[d] = "new" => charParity'[d] = worldParity
                      /\ (life'[d] = "placed" /\ d \notin sailed /\ Whole
                          /\ sectorParity'[place'[d]] = worldParity)
                         => charParity'[d] = worldParity
    BY <1>2 DEF CharsSaved
  <2>1. CASE d = c
    BY <1>1, <1>3, <2>1, Names
  <2>2. CASE d # c
    <3>1. life'[d] = life[d] /\ place'[d] = place[d]
      BY <1>3, <2>2, Names
    <3>2. charParity'[d] = IF d \in cs THEN worldParity ELSE charParity[d]
      BY <1>1 DEF Effect
    <3>3. CASE d \in cs
      BY <3>2, <3>3
    <3>4. CASE d \notin cs /\ life[d] = "placed"
      <4>1. place[d] \in Sector /\ place[d] \notin ss
        BY <1>1, <3>4 DEF PlacesOK
      <4>2. sectorParity'[place[d]] = sectorParity[place[d]]
        BY <1>1, <4>1 DEF Effect
      <4> QED BY <3>1, <3>2, <3>4, <4>2 DEF CharsSaved
    <3>5. CASE d \notin cs /\ life[d] # "placed"
      BY <3>1, <3>2, <3>5 DEF CharsSaved
    <3> QED BY <3>3, <3>4, <3>5
  <2> QED BY <2>1, <2>2
<1>8. WrittenOnce'
  BY <1>1, <1>2, EffectWrittenOnce
<1>9. UidsApart'
  <2>1. \A o \in Objects : o \in Alive' <=> o \in Alive
    BY <1>2, <1>3 DEF Alive
  <2> QED BY <1>1, <1>2, <2>1, EffectUidsApart
<1>10. StillWritten'
  <2>1. \A i \in Items : life'[i] = life[i] /\ place'[i] = place[i]
    BY <1>3, Names
  <2>2. \A d \in Chars : life[d] = "placed" => /\ life'[d] = "placed"
                                              /\ place'[d] \in Sector
    BY <1>3, Names DEF PlacesOK
  <2> QED BY <1>1, <1>2, <2>1, <2>2, EffectStillWritten
<1> QED BY <1>4, <1>5, <1>6, <1>7, <1>8, <1>9, <1>10

-----------------------------------------------------------------------------
(***************************************************************************)
(* The theorems                                                            *)
(***************************************************************************)

LEMMA IInvNext == IInv /\ [Next]_vars => IInv'
<1> SUFFICES ASSUME IInv, [Next]_vars PROVE IInv'
  OBVIOUS
<1>1. CASE SaveBegins
  BY <1>1, SaveBeginsKeeps
<1>2. CASE SaveSectors
  BY <1>2, SaveSectorsKeeps
<1>3. CASE SaveEnds
  BY <1>3, SaveEndsKeeps
<1>12. CASE StageFails
  BY <1>12, StageFailsKeeps
<1>13. CASE SaveAborted
  BY <1>13, SaveAbortedKeeps
<1>4. ASSUME NEW o \in Objects, Create(o) PROVE IInv'
  BY <1>4, CreateKeeps
<1>5. ASSUME NEW o \in Objects, Delete(o) PROVE IInv'
  BY <1>5, DeleteKeeps
<1>6. ASSUME NEW c \in Chars, NEW s \in Sector, Walk(c, s) PROVE IInv'
  BY <1>6, WalkKeeps
<1>7. ASSUME NEW c \in Chars, NEW s \in Sector, MoveOffline(c, s) PROVE IInv'
  BY <1>7, MoveOfflineKeeps
<1>8. ASSUME NEW c \in Players, LogOut(c) PROVE IInv'
  BY <1>8, LogOutKeeps
<1>9. ASSUME NEW i \in Items, NEW p \in Sector \union Chars, MoveItem(i, p) PROVE IInv'
  BY <1>9, MoveItemKeeps
<1>10. CASE DestroyDeleted
  BY <1>10, DestroyDeletedKeeps
<1>11. CASE UNCHANGED vars
  BY <1>11 DEF vars, parities, world, IInv, TypeOK, PlacesOK, SectorsSaved,
     CharsSaved, Whole, WrittenOnce, UidsApart, StillWritten, Done, Alive
<1> QED BY <1>1, <1>2, <1>3, <1>4, <1>5, <1>6, <1>7, <1>8, <1>9, <1>10, <1>11,
          <1>12, <1>13 DEF Next, Stages, Game

LEMMA IInvAlways == Spec => []IInv
BY IInvInit, IInvNext, PTL DEF Spec

\* Type correctness: the variables of a save keep their types.
THEOREM TypesKept == Spec => []TypeOK
<1>1. IInv => TypeOK
  BY DEF IInv
<1> QED BY <1>1, IInvAlways, PTL

\* A background save writes no character twice, whatever way it takes through
\* saved and unsaved sectors while CSector::r_Write goes from one to the next.
THEOREM NoCharTwice == Spec => []CharsOnce
<1>1. IInv => CharsOnce
  BY DEF IInv, WrittenOnce, CharsOnce
<1> QED BY <1>1, IInvAlways, PTL

\* Two records of one save never have the same UID: FreeUID keeps the index of
\* an object that was destroyed during the save until the save has ended.
THEOREM UidsUnique == Spec => []UidsDiffer
<1>1. IInv => UidsDiffer
  BY DEF IInv, UidsApart, UidsDiffer
<1> QED BY <1>1, IInvAlways, PTL

\* A save that is completed, when it and the two completed before it have met no
\* failure (an exception in a stage of SaveStage, or in Save), has written all
\* that was in the world since it began and stayed, and wrote it once.  A player
\* that was moved while offline, and what it carries, is not among them.
THEOREM AllWritten == Spec => NobodyForgotten
<1>1. ASSUME IInv, SaveEnds, sound = Healed, NEW o \in still
      PROVE  written[o] = 1
  <2> USE <1>1 DEF IInv, Whole
  <2>1. \A s \in Sector : sectorParity[s] = worldParity
    BY SaveAssumption DEF SaveEnds, SectorsSaved, Sector
  <2>2. ASSUME NEW c \in Chars, life[c] = "placed", c \notin sailed
        PROVE  charParity[c] = worldParity
    BY <2>1, <2>2 DEF CharsSaved, PlacesOK
  <2>3. /\ o \in Objects /\ life[o] = "placed" /\ o \notin sailed
        /\ place[o] \notin sailed
        /\ written[o] = IF Done(o) THEN 1 ELSE 0
    BY DEF StillWritten, TypeOK
  <2>4. Done(o)
    BY <2>1, <2>2, <2>3 DEF Done, PlacesOK, Objects
  <2> QED BY <2>3, <2>4
<1>2. IInv => (SaveEnds /\ sound = Healed => \A o \in still : written[o] = 1)
  BY <1>1
<1>3. IInv /\ [Next]_vars
      => [SaveEnds /\ sound = Healed => \A o \in still : written[o] = 1]_vars
  BY <1>2
<1> QED BY <1>3, IInvAlways, PTL DEF Spec, NobodyForgotten
=============================================================================
