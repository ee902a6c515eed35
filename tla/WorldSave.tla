----------------------------- MODULE WorldSave ------------------------------
(***************************************************************************)
(* What a background save writes while the game goes on: the save parity   *)
(* of the world, its sectors and characters, the objects that move, appear *)
(* and are deleted between two stages, and the UIDs that must not be used  *)
(* again before the save ends.                                             *)
(*                                                                         *)
(* A forced save is the case where nothing happens between the stages.     *)
(* Garbage is collected at the beginning of a save (ForceGarbageCollect=1, *)
(* the default).  The files themselves are the subject of WorldFiles.      *)
(***************************************************************************)
EXTENDS Integers

CONSTANTS Sectors,   \* number of sectors
          Players,   \* characters that have an account
          Npcs,
          Items,
          Uids       \* indices of the object table

ASSUME SaveAssumption ==
    /\ Sectors \in Nat \ {0}
    /\ Players \cap Npcs = {} /\ (Players \union Npcs) \cap Items = {}
    /\ (Players \union Npcs \union Items) \cap (0..Sectors) = {}
    /\ Uids # {}

Chars == Players \union Npcs
Objects == Chars \union Items
Sector == 1..Sectors
Nowhere == 0

VARIABLES saving,       \* IsSaving()
          next,         \* the sector that _iSaveStage is at
          worldParity,  \* CWorld::m_fSaveParity
          sectorParity, \* CSector::m_fSaveParity
          charParity,   \* STATF_SAVEPARITY
          life,         \* "unborn", "new" (m_ObjNew), "placed", "deleted"
                        \* (m_ObjDelete) or "gone"
          place,        \* the sector, or the character that carries the item
          online,       \* the characters in a list of active characters
          uid,          \* the index of an object in the object table
          held,         \* the indices with UID_PLACE_HOLDER
          written,      \* how often the save has written an object
          still,        \* placed objects that have not moved since the save
                        \* began: items to another place, characters while
                        \* they were offline
          sailed,       \* characters moved while offline, during a save
          sound         \* saves completed since the last failure, up to
                        \* Healed; -1 while a save goes on that has failed

parities == <<worldParity, sectorParity, charParity>>
world == <<life, place, online, uid, held>>
vars == <<saving, next, parities, world, written, still, sailed, sound>>

\* After a failure it takes two saves to bring all parities together again.
Healed == 2

Alive == {o \in Objects : life[o] \in {"new", "placed", "deleted"}}
Placed == {o \in Objects : life[o] = "placed"}
In(s) == {o \in Placed : place[o] = s}
Carried(c) == {i \in Items \cap Placed : place[i] = c}

-----------------------------------------------------------------------------
(***************************************************************************)
(* Writing                                                                 *)
(***************************************************************************)

\* mutant of Write: the characters keep their parity
WriteOnly(cs, is) ==
    LET unsaved == {c \in cs : charParity[c] # worldParity}
        out == unsaved \union is \union UNION {Carried(c) : c \in unsaved}
    IN  /\ written' = [o \in Objects |-> IF o \in out THEN written[o] + 1
                                         ELSE written[o]]
        /\ UNCHANGED charParity

\* CChar::r_WriteParity of the characters cs, with what they carry, and
\* r_WriteSafe of the items is, which have no parity.
Write(cs, is) ==
    LET unsaved == {c \in cs : charParity[c] # worldParity}
        out == unsaved \union is \union UNION {Carried(c) : c \in unsaved}
    IN  /\ charParity' = [c \in Chars |-> IF c \in unsaved THEN worldParity
                                          ELSE charParity[c]]
        /\ written' = [o \in Objects |-> IF o \in out THEN written[o] + 1
                                         ELSE written[o]]

\* CSector::r_Write of the sectors ss, which does not come to the objects lost
\* when it throws.  The parity of a sector is the first thing it changes.
WriteSectors(ss, lost) ==
    LET unsaved == {s \in ss : sectorParity[s] # worldParity}
        inside == (UNION {In(s) : s \in unsaved}) \ lost
    IN  /\ sectorParity' = [s \in Sector |-> IF s \in unsaved THEN worldParity
                                             ELSE sectorParity[s]]
        /\ Write(inside \cap Chars, inside \cap Items)

\* mutant of MoveCharToSector: the character is not written on its way
MoveUnwritten(c, s) ==
    /\ place' = [place EXCEPT ![c] = s]
    /\ online' = online \union {c}
    /\ UNCHANGED <<parities, written>>

\* CSector::MoveCharToSector
MoveCharToSector(c, s) ==
    /\ place' = [place EXCEPT ![c] = s]
    /\ online' = online \union {c}
    /\ CASE c \in online /\ place[c] = s -> UNCHANGED <<sectorParity, charParity, written>>
         [] ~saving \/ charParity[c] = sectorParity[s] ->
                UNCHANGED <<sectorParity, charParity, written>>
         [] OTHER ->
                IF sectorParity[s] = worldParity
                THEN Write({c}, {}) /\ UNCHANGED sectorParity
                ELSE WriteSectors({s}, {})
    /\ UNCHANGED worldParity

-----------------------------------------------------------------------------
(***************************************************************************)
(* Stages                                                                  *)
(***************************************************************************)

\* SaveTry: GarbageCollection deletes what was never placed, then the parity is
\* flipped.
SaveBegins ==
    /\ ~saving
    /\ saving' = TRUE /\ next' = 1
    /\ worldParity' = ~worldParity
    /\ life' = [o \in Objects |-> IF life[o] \in {"new", "deleted"} THEN "gone"
                                  ELSE life[o]]
    /\ still' = {o \in Placed : o \notin sailed /\ place[o] \notin sailed}
    /\ UNCHANGED <<sectorParity, charParity, place, online, uid, held, written,
                   sailed, sound>>

\* mutant of SaveSectors: the counter is advanced once too often
SaveSectorsTwo ==
    /\ saving
    /\ \E last \in next..Sectors :
          /\ WriteSectors(next..last, {})
          /\ next' = last + 2
    /\ UNCHANGED <<saving, worldParity, world, still, sailed, sound>>

\* SaveStage of one sector, or of several with EF_Dynamic_Backsave.
SaveSectors ==
    /\ saving
    /\ \E last \in next..Sectors :
          /\ WriteSectors(next..last, {})
          /\ next' = last + 1
    /\ UNCHANGED <<saving, worldParity, world, still, sailed, sound>>

\* An exception in the last of the sectors: what it has not written is passed
\* over ("to avoid loops, we need to skip the current operation"), and the save
\* goes on to its end.
StageFails ==
    /\ saving
    /\ \E last \in next..Sectors :
          /\ \E lost \in SUBSET In(last) : WriteSectors(next..last, lost)
          /\ next' = last + 1
    /\ sound' = -1
    /\ UNCHANGED <<saving, worldParity, world, still, sailed>>

\* The last stages, and SaveThreadClose.
SaveEnds ==
    /\ saving
    /\ next = Sectors + 1
    /\ saving' = FALSE
    /\ held' = {}
    /\ written' = [o \in Objects |-> 0]
    /\ still' = {}
    /\ sound' = IF sound < Healed THEN sound + 1 ELSE sound
    /\ UNCHANGED <<next, parities, life, place, online, uid, sailed>>

\* Save() catches an exception: the files are closed as they are, and are not
\* loaded.  The other sectors keep their parity.
SaveAborted ==
    /\ saving
    /\ saving' = FALSE
    /\ written' = [o \in Objects |-> 0]
    /\ still' = {}
    /\ sound' = 0
    /\ UNCHANGED <<next, parities, world, sailed>>

-----------------------------------------------------------------------------
(***************************************************************************)
(* The game between two stages                                             *)
(***************************************************************************)

FreeUids == Uids \ (held \union {uid[o] : o \in Alive})

\* CObjBase::CObjBase: AllocUID takes a slot that is nullptr.  A character is
\* born with the parity of the world.
Create(o) ==
    /\ life[o] = "unborn"
    /\ \E u \in FreeUids : uid' = [uid EXCEPT ![o] = u]
    /\ life' = [life EXCEPT ![o] = "new"]
    /\ charParity' = IF o \in Chars THEN [charParity EXCEPT ![o] = worldParity]
                     ELSE charParity
    /\ UNCHANGED <<saving, next, worldParity, sectorParity, place, online, held,
                   written, still, sailed, sound>>

\* CChar::MoveToChar of a character that is not an offline player: it walks, it
\* is placed for the first time, or its player has logged in.
Walk(c, s) ==
    /\ life[c] \in {"new", "placed"}
    /\ MoveCharToSector(c, s)
    /\ life' = [life EXCEPT ![c] = "placed"]
    /\ UNCHANGED <<saving, next, uid, held, still, sailed, sound>>

\* CChar::SetDisconnected: to the other list of the same sector.
LogOut(c) ==
    /\ c \in Players \cap Placed \cap online
    /\ online' = online \ {c}
    /\ UNCHANGED <<saving, next, parities, life, place, uid, held, written, still,
                   sailed, sound>>

\* CChar::MoveToChar of an offline player (the ship it is on sails): to the list
\* of disconnected characters of another sector, whatever the parities are.
MoveOffline(c, s) ==
    /\ c \in (Players \cap Placed) \ online
    /\ place[c] # s
    /\ place' = [place EXCEPT ![c] = s]
    /\ IF saving THEN /\ sailed' = sailed \union {c}
                      /\ still' = still \ ({c} \union Carried(c))
                 ELSE UNCHANGED <<sailed, still>>
    /\ UNCHANGED <<saving, next, parities, life, online, uid, held, written,
                   sound>>

\* An item is put on the ground or into the pack of a character.
MoveItem(i, p) ==
    /\ life[i] \in {"new", "placed"}
    /\ p \in Sector \union (Placed \cap Chars) /\ p # place[i]
    /\ place' = [place EXCEPT ![i] = p]
    /\ life' = [life EXCEPT ![i] = "placed"]
    /\ still' = still \ {i}
    /\ UNCHANGED <<saving, next, parities, online, uid, held, written, sailed,
                   sound>>

\* CObjBase::Delete: out of the world with its contents, its UID stays in use.
Delete(o) ==
    /\ life[o] \in {"new", "placed"}
    /\ LET all == {o} \union (IF o \in Chars THEN Carried(o) ELSE {})
       IN  /\ life' = [x \in Objects |-> IF x \in all THEN "deleted" ELSE life[x]]
           /\ place' = [x \in Objects |-> IF x \in all THEN Nowhere ELSE place[x]]
           /\ still' = still \ all
           /\ online' = online \ all
    /\ UNCHANGED <<saving, next, parities, uid, held, written, sailed,
                   sound>>

\* mutant of DestroyDeleted: no placeholder
DestroyAndFree ==
    LET dead == {o \in Objects : life[o] = "deleted"}
    IN  /\ dead # {}
        /\ life' = [o \in Objects |-> IF o \in dead THEN "gone" ELSE life[o]]
        /\ UNCHANGED <<saving, next, parities, place, online, uid, held, written,
                       still, sailed, sound>>

\* CWorld::_OnTick destroys the deleted objects; FreeUID leaves a placeholder
\* while a save is going on.
DestroyDeleted ==
    LET dead == {o \in Objects : life[o] = "deleted"}
    IN  /\ dead # {}
        /\ life' = [o \in Objects |-> IF o \in dead THEN "gone" ELSE life[o]]
        /\ held' = IF saving THEN held \union {uid[o] : o \in dead} ELSE held
        /\ UNCHANGED <<saving, next, parities, place, online, uid, written, still,
                       sailed, sound>>

-----------------------------------------------------------------------------
Init ==
    /\ saving = FALSE /\ next = Sectors + 1
    /\ worldParity = FALSE
    /\ sectorParity = [s \in Sector |-> FALSE]
    /\ charParity = [c \in Chars |-> FALSE]
    /\ life = [o \in Objects |-> "unborn"]
    /\ place = [o \in Objects |-> Nowhere]
    /\ online = {} /\ held = {} /\ still = {} /\ sailed = {}
    /\ uid \in [Objects -> {CHOOSE u \in Uids : TRUE}]
    /\ written = [o \in Objects |-> 0]
    /\ sound = Healed

Stages == SaveBegins \/ SaveSectors \/ StageFails \/ SaveEnds \/ SaveAborted

Game ==
    \/ \E o \in Objects : Create(o) \/ Delete(o)
    \/ \E c \in Chars, s \in Sector : Walk(c, s) \/ MoveOffline(c, s)
    \/ \E c \in Players : LogOut(c)
    \/ \E i \in Items, p \in Sector \union Chars : MoveItem(i, p)
    \/ DestroyDeleted

Next == Stages \/ Game

Spec == Init /\ [][Next]_vars

-----------------------------------------------------------------------------
TypeOK ==
    /\ saving \in BOOLEAN /\ next \in 1..(Sectors + 1)
    /\ worldParity \in BOOLEAN
    /\ sectorParity \in [Sector -> BOOLEAN]
    /\ charParity \in [Chars -> BOOLEAN]
    /\ life \in [Objects -> {"unborn", "new", "placed", "deleted", "gone"}]
    /\ place \in [Objects -> Sector \union Chars \union {Nowhere}]
    /\ online \subseteq Chars
    /\ uid \in [Objects -> Uids]
    /\ held \subseteq Uids
    /\ written \in [Objects -> Nat]
    /\ still \subseteq Objects /\ sailed \subseteq Players
    /\ sound \in -1..Healed

\* No character is written twice by one save, however it moves between the
\* sectors that are saved and those that are not yet.
CharsOnce == \A c \in Chars : written[c] <= 1

\* When a save ends, and neither it nor the two saves before it met a failure, it
\* has written every object that was there all the time: the characters wherever
\* they went, the items if they were not moved, exactly once.  A failed stage or
\* an aborted save leaves parities that differ, and the next two saves that are
\* completed may omit characters without a word.  (A player that was moved while
\* offline during a save is left out.)
NobodyForgotten ==
    [][SaveEnds /\ sound = Healed => \A o \in still : written[o] = 1]_vars

\* What SaveStage says where it counts a save: "Save only counts if we get to the
\* end winout trapping".  A save that is counted has left nothing out.  It is not
\* so: a stage that failed is passed over, and the save is counted.
OnlyWholeSavesCount == [][SaveEnds => \A o \in still : written[o] = 1]_vars

\* Two objects in the files never have the same UID ("Can't free up the UID til
\* after the save !").
UidsDiffer ==
    \A o, p \in Objects : written[o] > 0 /\ written[p] > 0 /\ uid[o] = uid[p] => o = p
=============================================================================
