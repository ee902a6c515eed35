----------------------------- MODULE WorldFiles -----------------------------
(***************************************************************************)
(* The files of the world save: how CWorld::SaveTry archives the previous  *)
(* save and writes the next one, and how CWorld::LoadWorld finds a save    *)
(* when the server starts, with crashes at any step.                       *)
(*                                                                         *)
(* A save is four files (data, world, chars, multis).  A file is reduced   *)
(* to the save it was written by, the SAVECOUNT of its header and whether  *)
(* it ends with [EOF]; a file that does not exist is read like an empty    *)
(* one.  What the sectors write is the subject of WorldSave.               *)
(***************************************************************************)
EXTENDS Integers, Sequences, Functions, FiniteSetsExt

CONSTANTS Levels,       \* m_iSaveBackupLevels
          Base,         \* archive names per level: 8 in the code
          Background,   \* m_iSaveBackgroundTime # 0
          FirstCounts,  \* SAVECOUNT of the save found on the disk at first
          MaxSaves,     \* bound: saves that are begun
          MaxFaults     \* bound: crashes and failures

ASSUME FilesAssumption ==
    /\ Levels \in Nat
    /\ Base \in Nat \ {0, 1}
    /\ Background \in BOOLEAN
    /\ FirstCounts \subseteq Nat
    /\ MaxSaves \in Nat
    /\ MaxFaults \in Nat

VARIABLES disk,     \* kind of file -> name -> what is on the disk
          statics,  \* SAVECOUNT in the statics file
          pc,       \* what the process is doing, "down" when there is none
          count,    \* m_iSaveCountID
          stage,    \* _iSaveStage
          open,     \* the files open for writing
          at, step, \* SaveTry: the file it is at, the step of OpenScriptBackup
          force,    \* fForceImmediate of the save that is being opened
          boot,     \* the save is the one LoadWorld makes when it gives up
          source,   \* LoadWorld: the name it loads
          loaded,   \* kind of file -> save it was of when it was read last
          globals,  \* saves whose global variables and lists were read into
                    \* this process
          refused,  \* Save() returns at once: no space, f_onserver_save
          saves,    \* number of saves begun
          done,     \* the last save that was completed
          crashes,  \* crashes since then
          exposed,  \* since then, what the archives do not cover
          faults    \* crashes and failures so far

process == <<pc, count, stage, open, at, step, force, boot, source, loaded,
             globals>>
ghosts == <<saves, done, crashes, exposed>>
vars == <<disk, statics, process, ghosts, faults, refused>>

Order == <<"data", "world", "chars", "multis">>
Kinds == Range(Order)

\* what shifting a count g times divides it by
Power[g \in 0..Levels] == IF g = 0 THEN 1 ELSE Base * Power[g - 1]
Digit(n, g) == (n \div Power[g]) % Base

\* GetBackupName: the level is the number of trailing zero digits of the count.
Level(n) ==
    CHOOSE g \in 0..Levels :
        /\ g = Levels \/ Digit(n, g) # 0
        /\ \A h \in 0..(g - 1) : Digit(n, h) = 0

Backup(n) == <<Level(n), Digit(n, Level(n))>>
Archives == (0..Levels) \X (0..(Base - 1))
Current == <<-1, 0>>

NoCount == -1
Nothing == [save |-> 0, count |-> NoCount, end |-> FALSE]
Names == {Current} \union Archives
File == [save : Nat, count : Nat \union {NoCount}, end : BOOLEAN]

\* mutants of NextStage: the accounts stage has no successor; it goes back
NextStageUnknown == [gc |-> "sectors", sectors |-> "globals",
                     globals |-> "accounts", accounts |-> "finished"]
NextStageLoops == [gc |-> "sectors", sectors |-> "globals",
                   globals |-> "accounts", accounts |-> "globals"]

NextStage == [gc |-> "sectors", sectors |-> "globals", globals |-> "accounts",
              accounts |-> "eof"]

\* The memory of the process is gone.
ProcessEnds ==
    /\ pc' = "down" /\ count' = 0 /\ stage' = "sectors" /\ open' = {}
    /\ at' = 1 /\ step' = "remove" /\ force' = FALSE /\ boot' = FALSE
    /\ source' = Current /\ loaded' = [k \in Kinds |-> 0] /\ globals' = {}

IsSaving == "world" \in open
Fault == faults < MaxFaults /\ faults' = faults + 1

-----------------------------------------------------------------------------
(***************************************************************************)
(* SaveTry: OpenScriptBackup of the four files, then their headers.        *)
(***************************************************************************)

SaveBegins ==
    /\ pc = "run" /\ ~IsSaving /\ ~refused
    /\ saves < MaxSaves
    /\ \E f \in BOOLEAN : force' = (f \/ ~Background)
    /\ pc' = "opening"
    /\ exposed' = IF count = 0 THEN exposed \union {"count"} ELSE exposed
    /\ UNCHANGED <<disk, statics, count, stage, open, at, step, boot, source,
                   loaded, globals, saves, done, crashes, faults, refused>>

RemoveArchive ==
    /\ pc = "opening" /\ step = "remove"
    /\ disk' = [disk EXCEPT ![Order[at]][Backup(count)] = Nothing]
    /\ step' = "rename"
    /\ UNCHANGED <<statics, pc, count, stage, open, at, force, boot, source,
                   loaded, globals, ghosts, faults, refused>>

RenamePrevious ==
    /\ pc = "opening" /\ step = "rename"
    /\ disk' = IF count > 0
               THEN [disk EXCEPT ![Order[at]][Backup(count)] = disk[Order[at]][Current],
                                 ![Order[at]][Current] = Nothing]
               ELSE disk
    /\ step' = "open"
    /\ UNCHANGED <<statics, pc, count, stage, open, at, force, boot, source,
                   loaded, globals, ghosts, faults, refused>>

OpenNew ==
    /\ pc = "opening" /\ step = "open"
    /\ disk' = [disk EXCEPT ![Order[at]][Current] = Nothing]
    /\ open' = open \union {Order[at]}
    /\ IF at < Len(Order)
       THEN at' = at + 1 /\ step' = "remove" /\ UNCHANGED <<pc, stage, saves>>
       ELSE /\ at' = 1 /\ step' = "remove" /\ pc' = "headers"
            /\ stage' = "gc"
            /\ saves' = saves + 1
    /\ UNCHANGED <<statics, count, force, boot, source, loaded, globals, done,
                   crashes, exposed, faults, refused>>

\* SaveTry returns at once: what it opened before stays open.
OpenFails ==
    /\ pc = "opening" /\ step = "open"
    /\ Fault
    /\ exposed' = exposed \union {"open"}
    /\ IF boot
       THEN ProcessEnds
       ELSE /\ open' = open \ {Order[at]}
            /\ pc' = "run" /\ at' = 1 /\ step' = "remove" /\ force' = FALSE
            /\ UNCHANGED <<count, stage, boot, source, loaded, globals>>
    /\ UNCHANGED <<disk, statics, saves, done, crashes, refused>>

\* mutant of WriteHeader: the header says the count that this save will have
HeaderCountsAhead ==
    /\ pc = "headers"
    /\ disk' = [disk EXCEPT ![Order[at]][Current] =
                    [save |-> saves, count |-> count + 1, end |-> FALSE]]
    /\ IF at < Len(Order)
       THEN at' = at + 1 /\ UNCHANGED <<pc, force>>
       ELSE at' = 1 /\ pc' = (IF force THEN "forcing" ELSE "run") /\ force' = FALSE
    /\ UNCHANGED <<statics, count, stage, open, step, boot, source, loaded,
                   globals, ghosts, faults, refused>>

\* CWorld::r_Write, which flushes the file.
WriteHeader ==
    /\ pc = "headers"
    /\ disk' = [disk EXCEPT ![Order[at]][Current] =
                    [save |-> saves, count |-> count, end |-> FALSE]]
    /\ IF at < Len(Order)
       THEN at' = at + 1 /\ UNCHANGED <<pc, force>>
       ELSE at' = 1 /\ pc' = (IF force THEN "forcing" ELSE "run") /\ force' = FALSE
    /\ UNCHANGED <<statics, count, stage, open, step, boot, source, loaded,
                   globals, ghosts, faults, refused>>

-----------------------------------------------------------------------------
(***************************************************************************)
(* SaveStage, from the loop of SaveForce or once per Save(false).          *)
(***************************************************************************)

Saves == IsSaving /\ (pc = "forcing" \/ (pc = "run" /\ Background /\ ~refused))

\* Save(true) while a save is active.
SaveForced ==
    /\ pc = "run" /\ IsSaving /\ ~refused
    /\ stage # "done"
    /\ pc' = "forcing"
    /\ UNCHANGED <<disk, statics, count, stage, open, at, step, force, boot,
                   source, loaded, globals, ghosts, faults, refused>>

StageDone ==
    /\ Saves
    /\ stage \in DOMAIN NextStage
    /\ stage' = NextStage[stage]
    /\ UNCHANGED <<disk, statics, pc, count, open, at, step, force, boot,
                   source, loaded, globals, ghosts, faults, refused>>

\* An exception, or Account_SaveAll could not open its file: the stage is
\* passed over, and SaveForce leaves its loop with the files open.
StageFails ==
    /\ Saves
    /\ stage \in DOMAIN NextStage \ {"gc"}
    /\ Fault
    /\ IF boot
       THEN ProcessEnds
       ELSE /\ stage' = NextStage[stage]
            /\ pc' = "run"
            /\ UNCHANGED <<count, open, at, step, force, boot, source, loaded,
                           globals>>
    /\ UNCHANGED <<disk, statics, ghosts, refused>>

\* The last stage writes [EOF] to the files and counts the save.
SaveEofs ==
    /\ Saves
    /\ stage = "eof"
    /\ count' = count + 1
    /\ pc' = "closing"
    /\ UNCHANGED <<disk, statics, stage, open, at, step, force, boot, source,
                   loaded, globals, ghosts, faults, refused>>

ClosedNext == Order[CHOOSE i \in 1..Len(Order) :
                        /\ Order[i] \in open
                        /\ \A j \in 1..(i - 1) : Order[j] \notin open]

\* SaveThreadClose: a file reaches the disk when it is closed.
CloseFile ==
    /\ pc = "closing"
    /\ disk' = [disk EXCEPT ![ClosedNext][Current].end = TRUE]
    /\ open' = open \ {ClosedNext}
    /\ IF open' # {}
       THEN UNCHANGED <<pc, stage, boot, done, crashes, exposed>>
       ELSE /\ stage' = "done" /\ pc' = "run" /\ boot' = FALSE
            /\ IF \A k \in Kinds : disk'[k][Current].save = saves
               THEN done' = saves /\ crashes' = 0 /\ exposed' = {}
               ELSE UNCHANGED <<done, crashes, exposed>>
    /\ UNCHANGED <<statics, count, at, step, force, source, loaded, globals,
                   saves, faults, refused>>

\* Save(): CheckAvailableSpaceForSave throws, the files are closed as they are.
SaveAborted ==
    /\ pc = "run" /\ open # {}
    /\ Fault
    /\ open' = {}
    /\ exposed' = exposed \union {"abort"}
    /\ UNCHANGED <<disk, statics, pc, count, stage, at, step, force, boot,
                   source, loaded, globals, saves, done, crashes, refused>>

\* SaveStatics, or one that fails after it renamed the previous file.
SaveStatics ==
    /\ pc = "run"
    /\ \/ statics' = count /\ UNCHANGED faults
       \/ statics' = NoCount /\ Fault
    /\ statics' # statics
    /\ UNCHANGED <<disk, process, ghosts, refused>>

-----------------------------------------------------------------------------
(***************************************************************************)
(* The end of a process, and LoadWorld in the next one.                    *)
(***************************************************************************)

\* Of the files in SaveThreadClose's hands any part may have been flushed.
Crash ==
    /\ pc # "down"
    /\ Fault
    /\ \E flushed \in SUBSET open :
          disk' = [k \in Kinds |->
                      IF pc = "closing" /\ k \in flushed
                      THEN [disk[k] EXCEPT ![Current].end = TRUE] ELSE disk[k]]
    /\ crashes' = crashes + 1
    /\ exposed' = IF pc \in {"opening", "headers"}
                  THEN exposed \union {"headers"} ELSE exposed
    /\ ProcessEnds
    /\ UNCHANGED <<statics, saves, done, refused>>

\* A save that was opened in part is resumed when _iSaveStage is INT32_MAX:
\* it overflows, and indexes the sectors with a negative number.
StageOverflows ==
    /\ pc = "run" /\ IsSaving /\ stage = "done" /\ ~refused
    /\ crashes' = crashes + 1
    /\ ProcessEnds
    /\ UNCHANGED <<disk, statics, saves, done, exposed, faults, refused>>

\* CWorld::Close makes a save that is active complete first.
Shutdown ==
    /\ pc = "run" /\ ~IsSaving
    /\ ProcessEnds
    /\ UNCHANGED <<disk, statics, ghosts, faults, refused>>

\* Unless Save() refuses: its files are left as a crash leaves them.
ShutdownUnsaved ==
    /\ pc = "run" /\ IsSaving /\ refused
    /\ crashes' = crashes + 1
    /\ ProcessEnds
    /\ UNCHANGED <<disk, statics, saves, done, exposed, faults, refused>>

Start ==
    /\ pc = "down"
    /\ pc' = "loading"
    /\ UNCHANGED <<disk, statics, count, stage, open, at, step, force, boot,
                   source, loaded, globals, ghosts, faults, refused>>

\* LoadFile returns TRUE only for a file that ends with [EOF].
Ends(k) == disk[k][source].end
Complete == Ends("world") /\ Ends("chars") /\ Ends("multis")

\* m_iSaveCountID after the headers of the files that were read: chars only if
\* world was good, multis only if both were.
CountRead ==
    LET headers == <<count, disk["data"][source].count, statics,
                     disk["world"][source].count,
                     IF Ends("world") THEN disk["chars"][source].count ELSE NoCount,
                     IF Ends("world") /\ Ends("chars")
                     THEN disk["multis"][source].count ELSE NoCount>>
    IN  headers[Max({i \in DOMAIN headers : headers[i] # NoCount})]

\* RES_WORLDVARS, RES_WORLDLISTS and RES_TIMERF add to what there is; a file
\* without an end may stop before them.
ReadGlobals ==
    LET more == globals \union ({disk["data"][source].save} \ {0})
    IN  globals' \in (IF Ends("data") THEN {more} ELSE {globals, more})

\* mutant of GivesUp: the name that was just tried is tried again
GivesUpLate(c) == c = 0

GivesUp(c) == c = 0 \/ Backup(c) = source

\* mutant of LoadDone: the multis are loaded under the name of the latest save
LoadDoneKeepsMultis ==
    /\ pc = "loading" /\ Complete
    /\ count' = CountRead
    /\ ReadGlobals
    /\ loaded' = [k \in Kinds |->
                     disk[k][IF k = "multis" THEN Current ELSE source].save]
    /\ pc' = "run" /\ source' = Current
    /\ UNCHANGED <<disk, statics, stage, open, at, step, force, boot, ghosts,
                   faults, refused>>

LoadDone ==
    /\ pc = "loading" /\ Complete
    /\ count' = CountRead
    /\ ReadGlobals
    /\ loaded' = [k \in Kinds |-> disk[k][source].save]
    /\ pc' = "run" /\ source' = Current
    /\ UNCHANGED <<disk, statics, stage, open, at, step, force, boot, ghosts,
                   faults, refused>>

LoadNext ==
    /\ pc = "loading" /\ ~Complete
    /\ count' = CountRead
    /\ ReadGlobals
    /\ ~GivesUp(count')
    /\ source' = Backup(count')
    /\ UNCHANGED <<disk, statics, pc, stage, open, at, step, force, boot,
                   loaded, ghosts, faults, refused>>

\* No previous backup available ?  An empty world is saved: Save(true).
LoadGivesUp ==
    /\ pc = "loading" /\ ~Complete /\ ~refused
    /\ count' = CountRead
    /\ ReadGlobals
    /\ GivesUp(count')
    /\ pc' = "opening" /\ force' = TRUE /\ boot' = TRUE /\ source' = Current
    /\ exposed' = IF count' = 0 THEN exposed \union {"count"} ELSE exposed
    /\ UNCHANGED <<disk, statics, stage, open, at, step, loaded, saves, done,
                   crashes, faults, refused>>

\* "No save found unable to create new one": the server does not start.
LoadFails ==
    /\ pc = "loading" /\ ~Complete /\ refused
    /\ GivesUp(CountRead)
    /\ ProcessEnds
    /\ UNCHANGED <<disk, statics, ghosts, faults, refused>>

\* Space on the disk and f_onserver_save, which every Save() asks, change.
Refusal ==
    /\ pc \in {"run", "loading"}
    /\ refused' = ~refused
    /\ UNCHANGED <<disk, statics, process, ghosts, faults>>

-----------------------------------------------------------------------------
Init ==
    /\ \E c \in FirstCounts :
          disk = [k \in Kinds |-> [n \in Names |->
                     IF n = Current THEN [save |-> 1, count |-> c, end |-> TRUE]
                     ELSE Nothing]]
    /\ statics = NoCount
    /\ pc = "down" /\ count = 0 /\ stage = "sectors" /\ open = {}
    /\ at = 1 /\ step = "remove" /\ force = FALSE /\ boot = FALSE
    /\ source = Current
    /\ loaded = [k \in Kinds |-> 0] /\ globals = {} /\ refused = FALSE
    /\ saves = 1 /\ done = 1 /\ crashes = 0 /\ exposed = {}
    /\ faults = 0

SaveTry == SaveBegins \/ RemoveArchive \/ RenamePrevious \/ OpenNew \/ OpenFails
           \/ WriteHeader
SaveStage == StageDone \/ StageFails \/ SaveEofs \/ CloseFile
LoadWorld == LoadDone \/ LoadNext \/ LoadGivesUp \/ LoadFails

Next == \/ SaveTry \/ SaveForced \/ SaveStage \/ SaveAborted \/ SaveStatics
        \/ Crash \/ StageOverflows \/ Shutdown \/ ShutdownUnsaved \/ Start
        \/ LoadWorld \/ Refusal

Spec == Init /\ [][Next]_vars

\* The process runs, and the ticks call Save(false) again and again.  A call that
\* is refused takes no stage; nothing is assumed of how long that lasts.
FairSpec ==
    /\ Spec
    /\ WF_vars(RemoveArchive \/ RenamePrevious \/ OpenNew \/ WriteHeader)
    /\ WF_vars(SaveStage)
    /\ WF_vars(LoadWorld)

-----------------------------------------------------------------------------
TypeOK ==
    /\ disk \in [Kinds -> [Names -> File]]
    /\ statics \in Nat \union {NoCount}
    /\ pc \in {"down", "loading", "opening", "headers", "run", "forcing", "closing"}
    /\ count \in Nat
    /\ stage \in DOMAIN NextStage \union {"eof", "done"}
    /\ open \subseteq Kinds
    /\ at \in 1..Len(Order) /\ step \in {"remove", "rename", "open"}
    /\ force \in BOOLEAN /\ boot \in BOOLEAN
    /\ source \in Names
    /\ loaded \in [Kinds -> Nat] /\ globals \subseteq Nat
    /\ refused \in BOOLEAN
    /\ saves \in Nat /\ done \in 0..saves
    /\ crashes \in Nat /\ exposed \subseteq {"count", "headers", "open", "abort"}
    /\ faults \in 0..MaxFaults

\* LoadWorld ends with the files of one save: the world, chars and multis in
\* memory and the data file that was read last are of the same one ("WE MUST Sync
\* these files ! CHAR and WORLD !!!"), however often the process died.  What the
\* data files it tried before have left behind is the subject of OneSavesGlobals.
\* Not covered, here and below (exposed): since the last completed save a crash
\* while files were opened or headers written, a failed open, an aborted save, or
\* a save with SAVECOUNT 0, which does not archive the previous one.
Synced ==
    [][LoadDone /\ exposed = {} =>
         \A k \in Kinds : loaded'[k] = loaded'["world"]]_vars

\* Before a backup is tried LoadWorld is to "reset everything that has been
\* loaded": the global variables, lists and timed functions are of one save too.
\* They are not when a crash came after the data file was closed.
OneSavesGlobals ==
    [][LoadDone /\ exposed = {} => globals' = {loaded'["world"]}]_vars

\* After one crash since the last completed save, which was not while files were
\* opened or headers written (exposed), LoadWorld comes back with that save or a
\* later one.
LastSaveLoaded ==
    [][(LoadDone \/ LoadGivesUp \/ LoadFails) /\ exposed = {} /\ crashes <= 1 =>
         loaded'["world"] >= done]_vars

\* There is a complete save to load whenever LoadWorld runs ("Auto change to the
\* most recent previous backup !"), leaving out what LastSaveLoaded leaves out.
SaveIsLeft ==
    pc = "loading" /\ exposed = {} =>
        \E n \in Names : \A k \in Kinds :
            disk[k][n].end /\ disk[k][n].save = disk["world"][n].save

\* LoadWorld ends: the backups it tries one after the other do not lead back to
\* one it has tried ("break endless loop").
LoadEnds == (pc = "loading" /\ exposed = {}) ~> pc # "loading"

\* A background save ends, although stages fail, unless Save() is refused over
\* and over.
SaveEnds ==
    <>[]~refused => ((IsSaving /\ stage # "done" /\ Background) ~> ~IsSaving)
=============================================================================
