-------------------------- MODULE WorldFilesProofs --------------------------
(***************************************************************************)
(* WorldFiles for every number of backup levels, of saves and of faults:   *)
(* types, that LoadWorld never mixes the files of two saves, and that it   *)
(* finds the last completed save after one crash.                          *)
(***************************************************************************)
EXTENDS WorldFiles, WellFoundedInduction, TLAPS

-----------------------------------------------------------------------------
(* The names of the files. *)

\* A set of numbers that is not empty has a least one.
LEMMA LeastNumber ==
  ASSUME NEW S \in SUBSET Nat, S # {}
  PROVE  \E m \in S : \A n \in S : m <= n
  <1>1. IsWellFoundedOn(OpToRel(<, Nat), Nat)
    BY NatLessThanWellFounded
  <1>2. PICK m \in S : \A n \in S : ~(<<n, m>> \in OpToRel(<, Nat))
    BY <1>1, WFMin
  <1>3. \A n \in S : ~(n < m)
    BY <1>2 DEF OpToRel
  <1> QED  BY <1>3

\* The powers of Base exist: there is no least exponent without one.
Powers(l) ==
    {f \in [0..l -> Nat \ {0}] : f[0] = 1 /\ \A g \in 1..l : f[g] = Base * f[g - 1]}

LEMMA PowersExist ==
  ASSUME NEW l \in Nat  PROVE Powers(l) # {}
  <1> DEFINE S == {n \in Nat : Powers(n) = {}}
  <1> SUFFICES ASSUME S # {}  PROVE FALSE
    OBVIOUS
  <1>1. PICK m \in S : \A n \in S : m <= n
    BY LeastNumber
  <1>2. m # 0
    <2> DEFINE f == [g \in 0..0 |-> 1]
    <2>1. f \in [0..0 -> Nat \ {0}] /\ f[0] = 1
      OBVIOUS
    <2>2. \A g \in 1..0 : f[g] = Base * f[g - 1]
      OBVIOUS
    <2> HIDE DEF f
    <2>3. f \in Powers(0)
      BY <2>1, <2>2 DEF Powers
    <2>4. QED  BY <2>3
  <1>3. m - 1 \in Nat /\ m - 1 \notin S
    BY <1>1, <1>2
  <1>4. PICK f \in Powers(m - 1) : TRUE
    BY <1>3
  <1>5. /\ \A g \in 0..(m - 1) : f[g] \in Nat \ {0}
        /\ f[0] = 1 /\ \A g \in 1..(m - 1) : f[g] = Base * f[g - 1]
    BY <1>4 DEF Powers
  <1> DEFINE e == [g \in 0..m |-> IF g = m THEN Base * f[m - 1] ELSE f[g]]
  <1>6. Base * f[m - 1] \in Nat \ {0}
    <2>1. f[m - 1] \in Nat \ {0} /\ Base \in Nat \ {0}
      BY <1>3, <1>5, FilesAssumption
    <2>2. \A a, b \in Nat \ {0} : a * b \in Nat \ {0}
      OBVIOUS
    <2>3. QED  BY <2>1, <2>2
  <1>7. e \in [0..m -> Nat \ {0}] /\ e[0] = 1
    BY <1>2, <1>3, <1>5, <1>6
  <1>8. ASSUME NEW g \in 1..m  PROVE e[g] = Base * e[g - 1]
    <2>1. CASE g = m  BY <1>2, <1>3, <2>1
    <2>2. CASE g # m
      <3>1. g \in 1..(m - 1) /\ g - 1 \in 0..(m - 1) /\ g - 1 # m
        BY <1>3, <2>2
      <3>2. e[g] = f[g] /\ e[g - 1] = f[g - 1]
        BY <1>3, <2>2, <3>1
      <3>3. QED  BY <1>5, <3>1, <3>2
    <2>3. QED  BY <2>1, <2>2
  <1> HIDE DEF e
  <1>9. e \in Powers(m)
    BY <1>7, <1>8 DEF Powers
  <1> QED  BY <1>1, <1>9

LEMMA PowerType == \A g \in 0..Levels : Power[g] \in Nat \ {0}
  <1>1. Levels \in Nat /\ Base \in Nat
    BY FilesAssumption
  <1>2. PICK f \in Powers(Levels) : TRUE
    BY <1>1, PowersExist
  <1>3. /\ f \in [0..Levels -> Nat \ {0}] /\ f[0] = 1
        /\ \A g \in 1..Levels : f[g] = Base * f[g - 1]
    BY <1>2 DEF Powers
  <1>4. f = [g \in 0..Levels |-> IF g = 0 THEN 1 ELSE Base * f[g - 1]]
    <2>1. ASSUME NEW g \in 0..Levels  PROVE f[g] = IF g = 0 THEN 1 ELSE Base * f[g - 1]
      BY <1>1, <1>3
    <2>2. QED  BY <1>3, <2>1
  <1>5. Power = [g \in 0..Levels |-> IF g = 0 THEN 1 ELSE Base * Power[g - 1]]
    BY <1>4 DEF Power
  <1> DEFINE S == {g \in 0..Levels : Power[g] # f[g]}
  <1>6. S = {}
    <2> SUFFICES ASSUME S # {}  PROVE FALSE
      OBVIOUS
    <2>1. S \in SUBSET Nat
      BY <1>1
    <2>2. PICK m \in S : \A n \in S : m <= n
      BY <2>1, LeastNumber
    <2>3. m \in 0..Levels /\ m # 0
      BY <1>3, <1>5
    <2>4. m - 1 \in 0..Levels /\ ~(m <= m - 1)
      BY <1>1, <2>3
    <2>5. Power[m - 1] = f[m - 1]
      BY <2>2, <2>4
    <2>6. Power[m] = Base * Power[m - 1]
      BY <1>5, <2>3
    <2>7. f[m] = Base * f[m - 1]
      BY <1>1, <1>3, <2>3
    <2>8. QED  BY <2>2, <2>5, <2>6, <2>7
  <1> QED  BY <1>3, <1>6

LEMMA DigitType ==
  ASSUME NEW n \in Nat, NEW g \in 0..Levels
  PROVE  Digit(n, g) \in 0..(Base - 1)
  <1>1. Power[g] \in Nat \ {0} /\ Base \in Nat \ {0}
    BY PowerType, FilesAssumption
  <1>2. \A p \in Nat \ {0}, b \in Nat \ {0} : (n \div p) % b \in 0..(b - 1)
    OBVIOUS
  <1> QED  BY <1>1, <1>2 DEF Digit

\* Every save count has an archive name, which is not the name of the save itself.
LEMMA BackupType ==
  ASSUME NEW n \in Nat
  PROVE  Backup(n) \in Archives /\ Backup(n) \in Names /\ Backup(n) # Current
  <1> DEFINE S == {g \in 0..Levels : g = Levels \/ Digit(n, g) # 0}
  <1>1. Levels \in Nat /\ S \in SUBSET Nat /\ Levels \in S
    BY FilesAssumption
  <1>2. PICK m \in S : \A g \in S : m <= g
    BY <1>1, LeastNumber
  <1>3. \A h \in 0..(m - 1) : Digit(n, h) = 0
    BY <1>1, <1>2
  <1>4. Level(n) \in 0..Levels
    <2>1. \E g \in 0..Levels : /\ g = Levels \/ Digit(n, g) # 0
                               /\ \A h \in 0..(g - 1) : Digit(n, h) = 0
      BY <1>2, <1>3
    <2>2. QED  BY <2>1 DEF Level
  <1>5. Backup(n) \in Archives
    BY <1>4, DigitType DEF Backup, Archives
  <1>6. Current \notin Archives
    BY <1>1 DEF Current, Archives
  <1> QED  BY <1>5, <1>6 DEF Names

LEMMA KindsAre ==
  /\ Len(Order) = 4 /\ Kinds = {"data", "world", "chars", "multis"}
  /\ Order[1] = "data" /\ Order[2] = "world" /\ Order[3] = "chars" /\ Order[4] = "multis"
  /\ \A i \in 1..4 : Order[i] \in Kinds
  /\ \A i, j \in 1..4 : Order[i] = Order[j] => i = j
  /\ \A k \in Kinds : \E i \in 1..4 : Order[i] = k
  <1>1. /\ Len(Order) = 4 /\ DOMAIN Order = 1..4
        /\ Order[1] = "data" /\ Order[2] = "world" /\ Order[3] = "chars" /\ Order[4] = "multis"
    BY DEF Order
  <1>2. \A i \in 1..4 : i = 1 \/ i = 2 \/ i = 3 \/ i = 4
    OBVIOUS
  <1>3. Kinds = {"data", "world", "chars", "multis"}
    <2>1. Kinds = {Order[i] : i \in 1..4}
      BY <1>1 DEF Kinds, Range
    <2>2. QED  BY <1>1, <1>2, <2>1
  <1>4. \A i, j \in 1..4 : Order[i] = Order[j] => i = j
    BY <1>1, <1>2
  <1> QED  BY <1>1, <1>2, <1>3, <1>4

\* SaveThreadClose closes one of the files that are open.
LEMMA ClosedNextIs ==
  ASSUME open \subseteq Kinds, open # {}
  PROVE  ClosedNext \in open
  <1> DEFINE S == {i \in 1..4 : Order[i] \in open}
  <1>1. S \in SUBSET Nat /\ S # {}
    <2>1. PICK k \in Kinds : k \in open
      OBVIOUS
    <2>2. PICK i \in 1..4 : Order[i] = k
      BY KindsAre
    <2>3. i \in S
      BY <2>1, <2>2
    <2>4. QED  BY <2>3
  <1>2. PICK m \in S : \A i \in S : m <= i
    BY <1>1, LeastNumber
  <1>3. \E i \in 1..Len(Order) : /\ Order[i] \in open
                                 /\ \A j \in 1..(i - 1) : Order[j] \notin open
    <2>1. \A j \in 1..(m - 1) : j \in 1..4 /\ ~(m <= j)
      BY <1>2
    <2>2. QED  BY <1>2, <2>1, KindsAre
  <1> QED  BY <1>3 DEF ClosedNext

LEMMA MaxIs ==
  ASSUME NEW S \in SUBSET (1..6), S # {}
  PROVE  Max(S) \in S /\ \A i \in S : i <= Max(S)
  <1> DEFINE T == {n \in Nat : \E i \in S : n = 6 - i}
  <1>1. T \in SUBSET Nat /\ T # {}
    <2>1. PICK i \in S : TRUE
      OBVIOUS
    <2>2. 6 - i \in T
      BY <2>1
    <2>3. QED  BY <2>2
  <1>2. PICK m \in T : \A n \in T : m <= n
    BY <1>1, LeastNumber
  <1>3. PICK j \in S : m = 6 - j
    BY <1>2
  <1>4. \A i \in S : 6 - i \in T /\ m <= 6 - i
    BY <1>2
  <1>5. \A i \in S : j >= i
    BY <1>3, <1>4
  <1>6. \E x \in S : \A y \in S : x >= y
    BY <1>5
  <1>7. Max(S) \in S /\ \A y \in S : Max(S) >= y
    BY <1>6 DEF Max
  <1> QED  BY <1>7

\* The headers that LoadWorld reads one after the other: the last that it found
\* says the count, which is that of the world where the others agree.
LEMMA CountReadIs ==
  ASSUME TypeOK
  PROVE  /\ CountRead \in Nat
         /\ \A c \in Nat : (\A k \in Kinds : disk[k][source].count = c) => CountRead = c
  <1> DEFINE h2 == disk["data"][source].count
             h4 == disk["world"][source].count
             h5 == IF Ends("world") THEN disk["chars"][source].count ELSE NoCount
             h6 == IF Ends("world") /\ Ends("chars")
                     THEN disk["multis"][source].count ELSE NoCount
             headers == <<count, h2, statics, h4, h5, h6>>
             read == {i \in DOMAIN headers : headers[i] # NoCount}
  <1>1. /\ count \in Nat /\ statics \in Nat \union {NoCount}
        /\ h2 \in Nat \union {NoCount} /\ h4 \in Nat \union {NoCount}
        /\ h5 \in Nat \union {NoCount} /\ h6 \in Nat \union {NoCount}
    <2>1. \A k \in Kinds : disk[k][source] \in File
      BY DEF TypeOK
    <2>2. \A k \in Kinds : disk[k][source].count \in Nat \union {NoCount}
      BY <2>1 DEF File
    <2>3. QED  BY <2>2, KindsAre DEF TypeOK
  <1>2. CountRead = headers[Max(read)]
    BY DEF CountRead
  <1>3. \A c \in Nat : (\A k \in Kinds : disk[k][source].count = c) =>
           h4 = c /\ (h5 = c \/ h5 = NoCount) /\ (h6 = c \/ h6 = NoCount)
    BY KindsAre
  <1> HIDE DEF h2, h4, h5, h6
  <1>4. /\ DOMAIN headers = 1..6
        /\ headers[1] = count /\ headers[2] = h2 /\ headers[3] = statics
        /\ headers[4] = h4 /\ headers[5] = h5 /\ headers[6] = h6
    OBVIOUS
  <1> HIDE DEF headers
  <1>5. 1 \in read /\ read \in SUBSET (1..6)
    BY <1>1, <1>4 DEF NoCount
  <1>6. Max(read) \in read /\ \A i \in read : i <= Max(read)
    BY <1>5, MaxIs
  <1> DEFINE m == Max(read)
  <1>7. m \in 1..6 /\ headers[m] # NoCount
    BY <1>4, <1>6
  <1>8. 4 \in read => m >= 4
    BY <1>6
  <1>9. 4 \in read <=> h4 # NoCount
    BY <1>4
  <1> HIDE DEF m
  <1>10. \/ m = 1 \/ m = 2 \/ m = 3 \/ m = 4 \/ m = 5 \/ m = 6
    BY <1>7
  <1>11. headers[m] \in Nat
    BY <1>1, <1>4, <1>7, <1>10
  <1>12. ASSUME NEW c \in Nat, \A k \in Kinds : disk[k][source].count = c
         PROVE  headers[m] = c
    <2>1. h4 = c /\ (h5 = c \/ h5 = NoCount) /\ (h6 = c \/ h6 = NoCount)
      BY <1>3, <1>12
    <2>2. m = 4 \/ m = 5 \/ m = 6
      BY <1>8, <1>9, <1>10, <2>1 DEF NoCount
    <2>3. QED  BY <1>4, <1>7, <2>1, <2>2
  <1> QED  BY <1>2, <1>11, <1>12 DEF m

-----------------------------------------------------------------------------
(* Types. *)

Stages == {"gc", "sectors", "globals", "accounts", "eof", "done"}

LEMMA StagesAre ==
  /\ DOMAIN NextStage = {"gc", "sectors", "globals", "accounts"}
  /\ DOMAIN NextStage \union {"eof", "done"} = Stages
  /\ \A s \in DOMAIN NextStage : NextStage[s] \in Stages \ {"done", "gc"}
  BY DEF NextStage, Stages

LEMMA NothingType ==
  /\ Nothing \in File /\ Current \in Names /\ Archives \subseteq Names
  /\ Nothing.save = 0 /\ Nothing.count = NoCount /\ Nothing.end = FALSE
  BY DEF Nothing, File, Names

\* One file of the disk gets other contents.
LEMMA DiskPut ==
  ASSUME TypeOK, NEW k \in Kinds, NEW n \in Names, NEW f \in File,
         disk' = [disk EXCEPT ![k][n] = f]
  PROVE  /\ disk' \in [Kinds -> [Names -> File]]
         /\ disk'[k][n] = f
         /\ \A j \in Kinds, m \in Names : j # k \/ m # n => disk'[j][m] = disk[j][m]
  <1>1. disk' = [disk EXCEPT ![k] = [disk[k] EXCEPT ![n] = f]]
    OBVIOUS
  <1>2. disk \in [Kinds -> [Names -> File]]
    BY DEF TypeOK
  <1>3. [disk[k] EXCEPT ![n] = f] \in [Names -> File]
    BY <1>2
  <1> QED  BY <1>1, <1>2, <1>3

LEMMA InitTypes == Init => TypeOK
  <1> SUFFICES ASSUME Init  PROVE TypeOK
    OBVIOUS
  <1>1. disk \in [Kinds -> [Names -> File]]
    <2>1. PICK c \in FirstCounts :
             disk = [k \in Kinds |-> [n \in Names |->
                       IF n = Current THEN [save |-> 1, count |-> c, end |-> TRUE]
                       ELSE Nothing]]
      BY DEF Init
    <2>2. [save |-> 1, count |-> c, end |-> TRUE] \in File
      BY FilesAssumption DEF File
    <2>3. QED  BY <2>1, <2>2, NothingType
  <1>2. loaded \in [Kinds -> Nat]
    BY DEF Init
  <1>3. faults \in 0..MaxFaults
    BY FilesAssumption DEF Init
  <1>4. at \in 1..Len(Order) /\ source \in Names
    BY KindsAre, NothingType DEF Init
  <1>5. stage \in DOMAIN NextStage \union {"eof", "done"}
    BY StagesAre DEF Init
  <1>6. /\ statics \in Nat \union {NoCount} /\ saves \in Nat /\ done \in 0..saves
        /\ count \in Nat /\ crashes \in Nat
    BY DEF Init
  <1>7. open \subseteq Kinds /\ exposed \subseteq {"count", "headers", "open", "abort"}
    BY DEF Init
  <1> QED  BY <1>1, <1>2, <1>3, <1>4, <1>5, <1>6, <1>7 DEF Init, TypeOK

\* the process that ends leaves nothing behind
LEMMA EndTypes ==
  ASSUME ProcessEnds
  PROVE  /\ pc' = "down" /\ count' \in Nat /\ stage' \in DOMAIN NextStage \union {"eof", "done"}
         /\ open' \subseteq Kinds /\ at' \in 1..Len(Order) /\ step' \in {"remove", "rename", "open"}
         /\ force' \in BOOLEAN /\ boot' \in BOOLEAN /\ source' \in Names
         /\ loaded' \in [Kinds -> Nat] /\ globals' \subseteq Nat
  <1>1. at' \in 1..Len(Order) /\ source' \in Names
    BY KindsAre, NothingType DEF ProcessEnds
  <1>2. stage' \in DOMAIN NextStage \union {"eof", "done"}
    BY StagesAre DEF ProcessEnds
  <1>3. loaded' \in [Kinds -> Nat]
    BY DEF ProcessEnds
  <1> QED  BY <1>1, <1>2, <1>3 DEF ProcessEnds

LEMMA FaultTypes == ASSUME TypeOK, Fault  PROVE faults' \in 0..MaxFaults
  BY FilesAssumption DEF TypeOK, Fault

LEMMA OpeningTypes ==
  ASSUME TypeOK, SaveBegins \/ RemoveArchive \/ RenamePrevious \/ OpenNew \/ OpenFails
  PROVE  TypeOK'
  <1>0. /\ at \in 1..4 /\ Order[at] \in Kinds /\ Len(Order) = 4
        /\ Backup(count) \in Names /\ Current \in Names /\ Nothing \in File
    BY KindsAre, BackupType, NothingType DEF TypeOK
  <1>1. CASE SaveBegins
    BY <1>1 DEF SaveBegins, TypeOK
  <1>2. CASE RemoveArchive
    <2>1. disk' \in [Kinds -> [Names -> File]]
      BY <1>0, <1>2, DiskPut DEF RemoveArchive
    <2>2. QED  BY <1>2, <2>1 DEF RemoveArchive, TypeOK, ghosts
  <1>3. CASE RenamePrevious
    <2>1. disk' \in [Kinds -> [Names -> File]]
      BY <1>0, <1>3 DEF RenamePrevious, TypeOK
    <2>2. QED  BY <1>3, <2>1 DEF RenamePrevious, TypeOK, ghosts
  <1>4. CASE OpenNew
    <2>1. disk' \in [Kinds -> [Names -> File]]
      BY <1>0, <1>4, DiskPut DEF OpenNew
    <2>2. open' \subseteq Kinds
      BY <1>0, <1>4 DEF OpenNew, TypeOK
    <2>3. /\ at' \in 1..Len(Order) /\ step' = "remove" /\ saves' \in Nat /\ done \in 0..saves'
          /\ stage' \in DOMAIN NextStage \union {"eof", "done"}
          /\ pc' \in {"opening", "headers"}
      BY <1>0, <1>4, StagesAre DEF OpenNew, TypeOK, Stages
    <2>4. QED  BY <1>4, <2>1, <2>2, <2>3 DEF OpenNew, TypeOK
  <1>5. CASE OpenFails
    <2>1. faults' \in 0..MaxFaults
      BY <1>5, FaultTypes DEF OpenFails
    <2>2. CASE boot
      BY <1>5, <2>1, <2>2, EndTypes DEF OpenFails, TypeOK
    <2>3. CASE ~boot
      <3>1. at' \in 1..Len(Order) /\ open' \subseteq Kinds
        BY <1>0, <1>5, <2>3 DEF OpenFails, TypeOK
      <3>2. QED  BY <1>5, <2>1, <2>3, <3>1 DEF OpenFails, TypeOK
    <2>4. QED  BY <2>2, <2>3
  <1> QED  BY <1>1, <1>2, <1>3, <1>4, <1>5

LEMMA HeaderTypes == ASSUME TypeOK, WriteHeader  PROVE TypeOK'
  <1>0. /\ at \in 1..4 /\ Order[at] \in Kinds /\ Len(Order) = 4 /\ Current \in Names
        /\ [save |-> saves, count |-> count, end |-> FALSE] \in File
    BY KindsAre, NothingType DEF TypeOK, File
  <1>1. disk' \in [Kinds -> [Names -> File]]
    BY <1>0, DiskPut DEF WriteHeader
  <1>2. at' \in 1..Len(Order)
    BY <1>0 DEF WriteHeader
  <1>3. force' \in BOOLEAN
    BY DEF WriteHeader, TypeOK
  <1>4. pc' \in {"headers", "forcing", "run"}
    BY DEF WriteHeader
  <1> QED  BY <1>1, <1>2, <1>3, <1>4 DEF WriteHeader, TypeOK, ghosts

LEMMA StageTypes ==
  ASSUME TypeOK, StageDone \/ StageFails \/ SaveEofs \/ SaveForced \/ SaveAborted \/ SaveStatics
  PROVE  TypeOK'
  <1>1. CASE StageDone
    BY <1>1, StagesAre DEF StageDone, TypeOK, ghosts, Stages
  <1>2. CASE StageFails
    <2>1. faults' \in 0..MaxFaults
      BY <1>2, FaultTypes DEF StageFails
    <2>2. CASE boot
      BY <1>2, <2>1, <2>2, EndTypes DEF StageFails, TypeOK, ghosts
    <2>3. CASE ~boot
      BY <1>2, <2>1, <2>3, StagesAre DEF StageFails, TypeOK, ghosts, Stages
    <2>4. QED  BY <2>2, <2>3
  <1>3. CASE SaveEofs
    BY <1>3 DEF SaveEofs, TypeOK, ghosts
  <1>4. CASE SaveForced
    BY <1>4 DEF SaveForced, TypeOK, ghosts
  <1>5. CASE SaveAborted
    BY <1>5, FaultTypes DEF SaveAborted, TypeOK
  <1>6. CASE SaveStatics
    BY <1>6, FaultTypes DEF SaveStatics, TypeOK, ghosts, process
  <1> QED  BY <1>1, <1>2, <1>3, <1>4, <1>5, <1>6

LEMMA EndPut ==
  ASSUME NEW f \in File
  PROVE  /\ [f EXCEPT !.end = TRUE] = [save |-> f.save, count |-> f.count, end |-> TRUE]
         /\ [f EXCEPT !.end = TRUE] \in File
  <1> DEFINE g == [f EXCEPT !.end = TRUE]
  <1>1. g \in File /\ g.save = f.save /\ g.count = f.count /\ g.end = TRUE
    BY DEF File
  <1> HIDE DEF g
  <1>2. g = [save |-> g.save, count |-> g.count, end |-> g.end]
    BY <1>1 DEF File
  <1> QED  BY <1>1, <1>2 DEF g

\* A file that is closed gets its end.
LEMMA CloseDisk ==
  ASSUME TypeOK, CloseFile, ClosedNext \in Kinds
  PROVE  /\ disk' \in [Kinds -> [Names -> File]]
         /\ disk'[ClosedNext][Current]
               = [save |-> disk[ClosedNext][Current].save,
                  count |-> disk[ClosedNext][Current].count, end |-> TRUE]
         /\ \A j \in Kinds, m \in Names :
               j # ClosedNext \/ m # Current => disk'[j][m] = disk[j][m]
  <1> DEFINE old == disk[ClosedNext][Current]
             f == [save |-> old.save, count |-> old.count, end |-> TRUE]
  <1>1. old \in File /\ Current \in Names
    BY NothingType DEF TypeOK
  <1>2. f \in File /\ [old EXCEPT !.end = TRUE] = f
    <2> HIDE DEF old
    <2>1. [old EXCEPT !.end = TRUE] = f /\ [old EXCEPT !.end = TRUE] \in File
      BY <1>1, EndPut
    <2>2. QED  BY <2>1
  <1>3. disk' = [disk EXCEPT ![ClosedNext][Current] = f]
    BY <1>2 DEF CloseFile
  <1> HIDE DEF f
  <1>4. PICK c \in Kinds : c = ClosedNext
    OBVIOUS
  <1>5. disk' = [disk EXCEPT ![c][Current] = f]
    BY <1>3, <1>4
  <1>6. /\ disk' \in [Kinds -> [Names -> File]]
        /\ disk'[c][Current] = f
        /\ \A j \in Kinds, m \in Names : j # c \/ m # Current => disk'[j][m] = disk[j][m]
    <2>1. PICK g \in File : g = f
      BY <1>2
    <2>2. disk' = [disk EXCEPT ![c][Current] = g] /\ Current \in Names
      BY <1>1, <1>5, <2>1
    <2> HIDE DEF old
    <2>3. disk' \in [Kinds -> [Names -> File]] /\ disk'[c][Current] = g
      BY <2>2, DiskPut
    <2>4. \A j \in Kinds, m \in Names : j # c \/ m # Current => disk'[j][m] = disk[j][m]
      BY <2>2, DiskPut
    <2>5. QED  BY <2>1, <2>3, <2>4
  <1>7. f = [save |-> disk[c][Current].save, count |-> disk[c][Current].count, end |-> TRUE]
    BY <1>4 DEF f
  <1> QED  BY <1>4, <1>6, <1>7

\* The process dies with a save under way: a crash, or a shutdown whose Save() is
\* refused.
Killed == Crash \/ ShutdownUnsaved

\* A crash while files are closed may have written the end of some of them.
LEMMA CrashDisk ==
  ASSUME TypeOK, Killed
  PROVE  /\ disk' \in [Kinds -> [Names -> File]]
         /\ \A k \in Kinds :
               /\ disk'[k][Current].save = disk[k][Current].save
               /\ disk'[k][Current].count = disk[k][Current].count
               /\ disk[k][Current].end => disk'[k][Current].end
               /\ \A n \in Names : n # Current => disk'[k][n] = disk[k][n]
  <1>1. PICK flushed \in SUBSET open :
          disk' = [k \in Kinds |->
                      IF pc = "closing" /\ k \in flushed
                      THEN [disk[k] EXCEPT ![Current].end = TRUE] ELSE disk[k]]
    <2>1. CASE Crash
      BY <2>1 DEF Crash
    <2>2. CASE ShutdownUnsaved
      BY <2>2 DEF ShutdownUnsaved, TypeOK
    <2>3. QED  BY <2>1, <2>2 DEF Killed
  <1>2. ASSUME NEW k \in Kinds
        PROVE  /\ disk'[k] \in [Names -> File]
               /\ disk'[k][Current].save = disk[k][Current].save
               /\ disk'[k][Current].count = disk[k][Current].count
               /\ disk[k][Current].end => disk'[k][Current].end
               /\ \A n \in Names : n # Current => disk'[k][n] = disk[k][n]
    <2> DEFINE old == disk[k][Current]
               f == [save |-> old.save, count |-> old.count, end |-> TRUE]
    <2>1. disk[k] \in [Names -> File] /\ old \in File /\ Current \in Names
      BY NothingType DEF TypeOK
    <2>3. [old EXCEPT !.end = TRUE] = f /\ [old EXCEPT !.end = TRUE] \in File
      <3> HIDE DEF old
      <3>1. QED  BY <2>1, EndPut
    <2>4. f \in File
      BY <2>3
    <2>5. disk'[k] = disk[k] \/ disk'[k] = [disk[k] EXCEPT ![Current] = f]
      BY <1>1, <2>3
    <2>6. f.save = old.save /\ f.count = old.count /\ f.end
      OBVIOUS
    <2> HIDE DEF f, old
    <2>7. CASE disk'[k] = disk[k]
      BY <2>1, <2>7
    <2>8. CASE disk'[k] = [disk[k] EXCEPT ![Current] = f]
      BY <2>1, <2>4, <2>6, <2>8 DEF old
    <2>9. QED  BY <2>5, <2>7, <2>8
  <1>3. disk' \in [Kinds -> [Names -> File]]
    BY <1>1, <1>2
  <1> QED  BY <1>2, <1>3

LEMMA CloseTypes == ASSUME TypeOK, CloseFile, open # {}  PROVE TypeOK'
  <1>1. ClosedNext \in Kinds
    BY ClosedNextIs DEF TypeOK
  <1>2. disk' \in [Kinds -> [Names -> File]]
    BY <1>1, CloseDisk
  <1>3. open' \subseteq Kinds
    BY DEF CloseFile, TypeOK
  <1>4. CASE open' # {}
    BY <1>2, <1>3, <1>4 DEF CloseFile, TypeOK
  <1>5. CASE open' = {}
    <2>1. /\ stage' \in DOMAIN NextStage \union {"eof", "done"} /\ pc' = "run" /\ boot' = FALSE
      BY <1>5 DEF CloseFile
    <2>2. /\ saves' \in Nat /\ done' \in 0..saves' /\ crashes' \in Nat
          /\ exposed' \subseteq {"count", "headers", "open", "abort"}
      BY <1>5 DEF CloseFile, TypeOK
    <2>3. QED  BY <1>2, <1>3, <2>1, <2>2 DEF CloseFile, TypeOK
  <1> QED  BY <1>4, <1>5

LEMMA ProcessTypes ==
  ASSUME TypeOK, Crash \/ StageOverflows \/ Shutdown \/ ShutdownUnsaved \/ Start  PROVE TypeOK'
  <1>1. CASE Crash
    <2>1. disk' \in [Kinds -> [Names -> File]]
      BY <1>1, CrashDisk DEF Killed
    <2>2. faults' \in 0..MaxFaults
      BY <1>1, FaultTypes DEF Crash
    <2>3. crashes' \in Nat /\ exposed' \subseteq {"count", "headers", "open", "abort"}
      BY <1>1 DEF Crash, TypeOK
    <2>4. QED  BY <1>1, <2>1, <2>2, <2>3, EndTypes DEF Crash, TypeOK
  <1>2. CASE StageOverflows
    BY <1>2, EndTypes DEF StageOverflows, TypeOK
  <1>3. CASE Shutdown
    BY <1>3, EndTypes DEF Shutdown, TypeOK, ghosts
  <1>4. CASE ShutdownUnsaved
    BY <1>4, EndTypes DEF ShutdownUnsaved, TypeOK
  <1>5. CASE Start
    BY <1>5 DEF Start, TypeOK, ghosts
  <1> QED  BY <1>1, <1>2, <1>3, <1>4, <1>5

LEMMA LoadTypes == ASSUME TypeOK, LoadWorld  PROVE TypeOK'
  <1>0. CountRead \in Nat /\ disk["data"][source].save \in Nat
    <2>1. disk["data"][source] \in File
      BY KindsAre DEF TypeOK
    <2>2. QED  BY <2>1, CountReadIs DEF File
  <1>1. ReadGlobals => globals' \subseteq Nat
    BY <1>0 DEF ReadGlobals, TypeOK
  <1>2. CASE LoadDone
    <2>1. loaded' \in [Kinds -> Nat]
      <3>1. \A k \in Kinds : disk[k][source] \in File
        BY DEF TypeOK
      <3>2. \A k \in Kinds : disk[k][source].save \in Nat
        BY <3>1 DEF File
      <3>3. QED  BY <1>2, <3>2 DEF LoadDone
    <2>2. QED  BY <1>0, <1>1, <1>2, <2>1, NothingType DEF LoadDone, TypeOK, ghosts
  <1>3. CASE LoadNext
    <2>1. count' \in Nat /\ source' \in Names
      BY <1>0, <1>3, BackupType DEF LoadNext
    <2>2. QED  BY <1>1, <1>3, <2>1 DEF LoadNext, TypeOK, ghosts
  <1>4. CASE LoadGivesUp
    <2>1. exposed' \subseteq {"count", "headers", "open", "abort"}
      BY <1>4 DEF LoadGivesUp, TypeOK
    <2>2. QED  BY <1>0, <1>1, <1>4, <2>1, NothingType DEF LoadGivesUp, TypeOK
  <1>5. CASE LoadFails
    BY <1>5, EndTypes DEF LoadFails, TypeOK, ghosts
  <1> QED  BY <1>2, <1>3, <1>4, <1>5 DEF LoadWorld

LEMMA StepTypes ==
  ASSUME TypeOK, [Next]_vars, pc = "closing" => open # {}
  PROVE  TypeOK'
  <1>1. CASE SaveTry
    BY <1>1, OpeningTypes, HeaderTypes DEF SaveTry
  <1>2. CASE SaveStage
    <2>1. CASE CloseFile
      BY <2>1, CloseTypes DEF CloseFile
    <2>2. QED  BY <1>2, <2>1, StageTypes DEF SaveStage
  <1>3. CASE SaveForced \/ SaveAborted \/ SaveStatics
    BY <1>3, StageTypes
  <1>4. CASE Crash \/ StageOverflows \/ Shutdown \/ ShutdownUnsaved \/ Start
    BY <1>4, ProcessTypes
  <1>5. CASE LoadWorld
    BY <1>5, LoadTypes
  <1>6. CASE Refusal \/ UNCHANGED vars
    BY <1>6 DEF Refusal, vars, process, ghosts, TypeOK
  <1> QED  BY <1>1, <1>2, <1>3, <1>4, <1>5, <1>6 DEF Next

-----------------------------------------------------------------------------
(***************************************************************************)
(* What the processes leave on the disk.  The current names are overwritten *)
(* by every save, so what the files that are open contain depends on how   *)
(* they were opened.                                                       *)
(***************************************************************************)
Written(c) == [save |-> saves, count |-> c, end |-> FALSE]

\* not all of the current files are of the last save that was begun
Mixed == \E k \in Kinds : disk[k][Current].save # saves

\* a save that is written: headers are written, no stage has failed to open a file
Whole == open = Kinds /\ stage # "done" /\ \A k \in Kinds : disk[k][Current] = Written(count)

\* a save that is closed, file by file
Closed == \A k \in Kinds :
             disk[k][Current] = [save |-> saves, count |-> count - 1, end |-> k \notin open]

OpenInv ==
    /\ saves >= 1
    /\ pc \notin {"opening", "headers"} => at = 1 /\ step = "remove"
    /\ pc \in {"down", "loading"} => open = {}
    /\ pc = "opening" =>
          /\ \A i \in 1..(at - 1) : Order[i] \in open /\ disk[Order[i]][Current] = Nothing
          /\ \A k \in open : /\ disk[k][Current].save = 0
                             /\ k = "data" \/ \E i \in 1..(at - 1) : Order[i] = k
    /\ pc = "headers" =>
          /\ open = Kinds /\ stage = "gc" /\ step = "remove"
          /\ \A i \in 1..Len(Order) :
                disk[Order[i]][Current] = IF i < at THEN Written(count) ELSE Nothing
    /\ pc \in {"run", "forcing"} =>
          /\ open = {} \/ Whole \/ (Mixed /\ exposed # {})
          /\ "world" \notin open => \A k \in open : k = "data" /\ disk[k][Current].save = 0
    /\ pc = "closing" =>
          /\ open # {} /\ stage = "eof" /\ count >= 1
          /\ Closed \/ (Mixed /\ exposed # {})


LEMMA InitOpen == Init => OpenInv
  BY DEF Init, OpenInv

\* A step outside the handlers of the files.
LEMMA EndOpen ==
  ASSUME TypeOK, OpenInv, ProcessEnds, saves' = saves
  PROVE  OpenInv'
  BY DEF OpenInv, ProcessEnds

LEMMA BeginOpen == ASSUME TypeOK, OpenInv, SaveBegins  PROVE OpenInv'
  <1>1. /\ pc = "run" /\ pc' = "opening" /\ "world" \notin open
        /\ UNCHANGED <<disk, open, at, step, saves>>
    BY DEF SaveBegins, IsSaving
  <1>2. at = 1 /\ saves >= 1 /\ \A k \in open : k = "data" /\ disk[k][Current].save = 0
    BY <1>1 DEF OpenInv
  <1> QED  BY <1>1, <1>2 DEF OpenInv

LEMMA RemoveOpen == ASSUME TypeOK, OpenInv, RemoveArchive  PROVE OpenInv'
  <1>1. /\ pc = "opening" /\ pc' = pc /\ UNCHANGED <<open, at, saves>>
        /\ at \in 1..4 /\ Order[at] \in Kinds /\ open \subseteq Kinds
    BY KindsAre DEF RemoveArchive, TypeOK, ghosts
  <1>2. Backup(count) \in Names /\ Backup(count) # Current /\ Current \in Names /\ Nothing \in File
    BY BackupType, NothingType DEF TypeOK
  <1>3. \A k \in Kinds : disk'[k][Current] = disk[k][Current]
    BY <1>1, <1>2, DiskPut DEF RemoveArchive
  <1>4. \A i \in 1..(at - 1) : Order[i] \in Kinds
    BY <1>1, KindsAre
  <1> QED  BY <1>1, <1>3, <1>4 DEF OpenInv

\* The previous file of a name becomes the archive.
LEMMA RenameDisk ==
  ASSUME TypeOK, RenamePrevious, NEW k \in Kinds, NEW n \in Names
  PROVE  disk'[k][n] = IF count > 0 /\ k = Order[at] /\ n = Backup(count) THEN disk[k][Current]
                       ELSE IF count > 0 /\ k = Order[at] /\ n = Current THEN Nothing
                       ELSE disk[k][n]
  <1>1. /\ at \in 1..4 /\ Order[at] \in Kinds
        /\ Backup(count) \in Names /\ Backup(count) # Current
        /\ Current \in Names /\ Nothing \in File
    BY KindsAre, BackupType, NothingType DEF TypeOK
  <1>2. CASE ~(count > 0)
    BY <1>2 DEF RenamePrevious
  <1>3. CASE count > 0
    <2>1. disk' = [disk EXCEPT ![Order[at]] =
                      [[disk[Order[at]] EXCEPT ![Backup(count)] = disk[Order[at]][Current]]
                          EXCEPT ![Current] = Nothing]]
      <3>1. disk' = [disk EXCEPT ![Order[at]][Backup(count)] = disk[Order[at]][Current],
                                 ![Order[at]][Current] = Nothing]
        BY <1>3 DEF RenamePrevious
      <3>2. QED  BY <1>1, <3>1 DEF TypeOK
    <2>2. disk[k] \in [Names -> File] /\ disk \in [Kinds -> [Names -> File]]
      BY DEF TypeOK
    <2>3. QED  BY <1>1, <1>3, <2>1, <2>2
  <1> QED  BY <1>2, <1>3

LEMMA RenameOpen == ASSUME TypeOK, OpenInv, RenamePrevious  PROVE OpenInv'
  <1>1. /\ pc = "opening" /\ pc' = pc /\ UNCHANGED <<open, at, saves>>
        /\ at \in 1..4 /\ Order[at] \in Kinds /\ open \subseteq Kinds
    BY KindsAre DEF RenamePrevious, TypeOK, ghosts
  <1>2. \A k \in Kinds : disk'[k][Current] = disk[k][Current] \/ disk'[k][Current] = Nothing
    BY RenameDisk, BackupType, NothingType DEF TypeOK
  <1>3. Nothing.save = 0
    BY NothingType
  <1>4. \A i \in 1..(at - 1) : Order[i] \in Kinds
    BY <1>1, KindsAre
  <1> QED  BY <1>1, <1>2, <1>3, <1>4 DEF OpenInv

LEMMA NewOpen == ASSUME TypeOK, OpenInv, OpenNew  PROVE OpenInv'
  <1>1. /\ pc = "opening" /\ open' = open \union {Order[at]} /\ at \in 1..4
        /\ Order[at] \in Kinds /\ open \subseteq Kinds /\ saves \in Nat
        /\ step' = "remove" /\ Len(Order) = 4
    BY KindsAre DEF OpenNew, TypeOK
  <1>2. /\ disk'[Order[at]][Current] = Nothing
        /\ \A k \in Kinds : k # Order[at] => disk'[k][Current] = disk[k][Current]
    <2>1. PICK o \in Kinds : o = Order[at]
      BY <1>1
    <2>2. disk' = [disk EXCEPT ![o][Current] = Nothing]
      BY <2>1 DEF OpenNew
    <2>3. Current \in Names /\ Nothing \in File
      BY NothingType
    <2>4. disk'[o][Current] = Nothing
      BY <2>2, <2>3, DiskPut
    <2>5. \A k \in Kinds : k # o => disk'[k][Current] = disk[k][Current]
      BY <2>2, <2>3, DiskPut
    <2>6. QED  BY <2>1, <2>4, <2>5
  <1>3. Nothing.save = 0
    BY NothingType
  <1>4. /\ saves >= 1
        /\ \A i \in 1..(at - 1) : Order[i] \in open /\ disk[Order[i]][Current] = Nothing
        /\ \A k \in open : /\ disk[k][Current].save = 0
                           /\ k = "data" \/ \E i \in 1..(at - 1) : Order[i] = k
    BY <1>1 DEF OpenInv
  <1>5. \A i \in 1..at : Order[i] \in open' /\ disk'[Order[i]][Current] = Nothing
    <2>1. ASSUME NEW i \in 1..at
          PROVE  Order[i] \in open' /\ disk'[Order[i]][Current] = Nothing
      <3>1. CASE i = at  BY <1>1, <1>2, <3>1
      <3>2. CASE i # at
        <4>1. i \in 1..(at - 1) /\ Order[i] \in Kinds /\ Order[i] # Order[at]
          BY <1>1, <3>2, KindsAre
        <4>2. QED  BY <1>1, <1>2, <1>4, <4>1
      <3>3. QED  BY <3>1, <3>2
    <2>2. QED  BY <2>1
  <1>6. CASE at < 4
    <2>1. at' = at + 1 /\ pc' = pc /\ saves' = saves
      BY <1>1, <1>6 DEF OpenNew
    <2>2. \A k \in open' : /\ disk'[k][Current].save = 0
                           /\ k = "data" \/ \E i \in 1..(at' - 1) : Order[i] = k
      <3>1. at \in 1..(at' - 1) /\ \A i \in 1..(at - 1) : i \in 1..(at' - 1)
        BY <1>1, <2>1
      <3>2. QED  BY <1>1, <1>2, <1>3, <1>4, <3>1
    <2>3. \A i \in 1..(at' - 1) : i \in 1..at
      BY <1>1, <2>1
    <2>4. QED  BY <1>1, <1>4, <1>5, <2>1, <2>2, <2>3 DEF OpenInv
  <1>7. CASE ~(at < 4)
    <2>1. at = 4 /\ at' = 1 /\ pc' = "headers" /\ stage' = "gc" /\ saves' = saves + 1
      BY <1>1, <1>7 DEF OpenNew
    <2>2. open' = Kinds
      <3>1. \A k \in Kinds : k \in open'
        BY <1>5, <2>1, KindsAre
      <3>2. QED  BY <1>1, <3>1
    <2>3. \A i \in 1..4 : disk'[Order[i]][Current] = Nothing /\ ~(i < at')
      BY <1>5, <2>1
    <2>4. QED  BY <1>1, <1>4, <2>1, <2>2, <2>3 DEF OpenInv
  <1> QED  BY <1>6, <1>7

LEMMA FailsOpen == ASSUME TypeOK, OpenInv, OpenFails  PROVE OpenInv'
  <1>1. CASE boot
    BY <1>1, EndOpen DEF OpenFails
  <1>2. CASE ~boot
    <2>1. /\ pc = "opening" /\ pc' = "run" /\ open' = open \ {Order[at]} /\ at \in 1..4
          /\ open \subseteq Kinds /\ saves' = saves /\ disk' = disk /\ at' = 1 /\ step' = "remove"
          /\ exposed' # {}
      BY <1>2, KindsAre DEF OpenFails, TypeOK
    <2>2. /\ saves >= 1
          /\ \A i \in 1..(at - 1) : Order[i] \in open /\ disk[Order[i]][Current] = Nothing
          /\ \A k \in open : /\ disk[k][Current].save = 0
                             /\ k = "data" \/ \E i \in 1..(at - 1) : Order[i] = k
      BY <2>1 DEF OpenInv
    <2>3. open' = {} \/ Mixed'
      <3>1. CASE at = 1
        BY <2>1, <2>2, <3>1, KindsAre
      <3>2. CASE at # 1
        <4>1. disk["data"][Current] = Nothing /\ "data" \in Kinds
          BY <2>1, <2>2, <3>2, KindsAre
        <4>2. disk'["data"][Current].save # saves'
          BY <2>1, <2>2, <4>1, NothingType
        <4>3. QED  BY <4>1, <4>2 DEF Mixed
      <3>3. QED  BY <3>1, <3>2
    <2>4. "world" \notin open' => \A k \in open' : k = "data" /\ disk'[k][Current].save = 0
      <3>1. CASE at = 1 \/ at = 2
        BY <2>1, <2>2, <3>1, KindsAre
      <3>2. CASE at = 3 \/ at = 4
        <4>1. "world" \in open /\ Order[at] # "world"
          BY <2>2, <3>2, KindsAre
        <4>2. QED  BY <2>1, <4>1
      <3>3. QED  BY <2>1, <3>1, <3>2
    <2>5. QED  BY <2>1, <2>2, <2>3, <2>4 DEF OpenInv
  <1> QED  BY <1>1, <1>2

LEMMA HeaderOpen == ASSUME TypeOK, OpenInv, WriteHeader  PROVE OpenInv'
  <1>1. /\ pc = "headers" /\ UNCHANGED <<open, saves, count, stage, step>> /\ at \in 1..4
        /\ Order[at] \in Kinds /\ Len(Order) = 4 /\ Current \in Names /\ Written(count) \in File
    BY KindsAre, NothingType DEF WriteHeader, TypeOK, ghosts, Written, File
  <1>2. /\ saves >= 1 /\ open = Kinds /\ stage = "gc" /\ step = "remove"
        /\ \A i \in 1..4 :
              disk[Order[i]][Current] = IF i < at THEN Written(count) ELSE Nothing
    BY <1>1 DEF OpenInv
  <1>3. /\ disk'[Order[at]][Current] = Written(count)
        /\ \A k \in Kinds : k # Order[at] => disk'[k][Current] = disk[k][Current]
    <2>1. PICK o \in Kinds : o = Order[at]
      BY <1>1
    <2>2. PICK f \in File : f = Written(count)
      BY <1>1
    <2>3. disk' = [disk EXCEPT ![o][Current] = f]
      BY <2>1, <2>2 DEF WriteHeader, Written
    <2>4. disk'[o][Current] = f
      BY <1>1, <2>3, DiskPut
    <2>5. \A k \in Kinds : k # o => disk'[k][Current] = disk[k][Current]
      BY <1>1, <2>3, DiskPut
    <2>6. QED  BY <2>1, <2>2, <2>4, <2>5
  <1>4. Written(count)' = Written(count)
    BY <1>1 DEF Written
  <1>5. \A i \in 1..4 :
           disk'[Order[i]][Current] = IF i < at \/ i = at THEN Written(count) ELSE Nothing
    BY <1>1, <1>2, <1>3, KindsAre
  <1>6. CASE at < 4
    <2>1. at' = at + 1 /\ pc' = pc
      BY <1>1, <1>6 DEF WriteHeader
    <2>2. \A i \in 1..4 : i < at' <=> i < at \/ i = at
      BY <1>1, <2>1
    <2>3. QED  BY <1>1, <1>2, <1>4, <1>5, <2>1, <2>2 DEF OpenInv
  <1>7. CASE ~(at < 4)
    <2>1. at = 4 /\ at' = 1 /\ pc' \in {"forcing", "run"}
      BY <1>1, <1>7 DEF WriteHeader
    <2>2. \A k \in Kinds : disk'[k][Current] = Written(count)
      BY <1>5, <2>1, KindsAre
    <2>3. Whole'
      BY <1>1, <1>2, <1>4, <2>2 DEF Whole
    <2>4. "world" \in open'
      BY <1>1, <1>2, KindsAre
    <2>5. QED  BY <1>1, <1>2, <2>1, <2>3, <2>4 DEF OpenInv
  <1> QED  BY <1>6, <1>7

\* Stages, and what does not touch the files of the save.
LEMMA StageOpen ==
  ASSUME TypeOK, OpenInv, StageDone \/ StageFails \/ SaveForced \/ SaveStatics
  PROVE  OpenInv'
  <1>1. CASE ProcessEnds /\ saves' = saves
    BY <1>1, EndOpen
  <1>2. CASE ~(ProcessEnds /\ saves' = saves)
    <2>1. /\ pc \in {"run", "forcing"} /\ pc' \in {"run", "forcing"}
          /\ UNCHANGED <<disk, count, open, at, step, saves, exposed>>
      BY <1>2 DEF StageDone, StageFails, SaveForced, SaveStatics, Saves, ghosts, process
    <2>2. stage # "done" => stage' # "done"
      BY StagesAre DEF StageDone, StageFails, SaveForced, SaveStatics, ProcessEnds, process
    <2>3. /\ saves >= 1 /\ at = 1 /\ step = "remove"
          /\ open = {} \/ Whole \/ (Mixed /\ exposed # {})
          /\ "world" \notin open => \A k \in open : k = "data" /\ disk[k][Current].save = 0
      BY <2>1 DEF OpenInv
    <2>4. Whole => Whole'
      BY <2>1, <2>2 DEF Whole, Written
    <2>5. Mixed => Mixed'
      BY <2>1 DEF Mixed
    <2>6. QED  BY <2>1, <2>3, <2>4, <2>5 DEF OpenInv
  <1> QED  BY <1>1, <1>2

LEMMA EofsOpen == ASSUME TypeOK, OpenInv, SaveEofs  PROVE OpenInv'
  <1>1. /\ pc \in {"run", "forcing"} /\ pc' = "closing" /\ stage = "eof" /\ count' = count + 1
        /\ UNCHANGED <<disk, stage, open, at, step, saves, exposed>>
        /\ open # {} /\ count \in Nat
    BY DEF SaveEofs, Saves, IsSaving, TypeOK, ghosts
  <1>2. saves >= 1 /\ at = 1 /\ step = "remove" /\ (Whole \/ (Mixed /\ exposed # {}))
    BY <1>1 DEF OpenInv
  <1>3. Whole => Closed'
    <2> SUFFICES ASSUME Whole  PROVE Closed'
      OBVIOUS
    <2>1. count' - 1 = count /\ \A k \in Kinds : k \in open'
      BY <1>1 DEF Whole
    <2>2. \A k \in Kinds : disk'[k][Current] = [save |-> saves, count |-> count, end |-> FALSE]
      BY <1>1 DEF Whole, Written
    <2>3. QED  BY <1>1, <2>1, <2>2 DEF Closed
  <1>4. Mixed => Mixed'
    BY <1>1 DEF Mixed
  <1>5. count' >= 1
    BY <1>1
  <1> QED  BY <1>1, <1>2, <1>3, <1>4, <1>5 DEF OpenInv

LEMMA CloseOpen == ASSUME TypeOK, OpenInv, CloseFile  PROVE OpenInv'
  <1>1. /\ pc = "closing" /\ open # {} /\ open \subseteq Kinds /\ saves >= 1
        /\ stage = "eof" /\ count >= 1 /\ at = 1 /\ step = "remove"
        /\ Closed \/ (Mixed /\ exposed # {})
    BY DEF CloseFile, OpenInv, TypeOK
  <1>2. ClosedNext \in open
    BY <1>1, ClosedNextIs
  <1>3. PICK c \in open : c = ClosedNext
    BY <1>2
  <1>4. /\ disk'[c][Current] = [save |-> disk[c][Current].save,
                                count |-> disk[c][Current].count, end |-> TRUE]
        /\ \A k \in Kinds : k # c => disk'[k][Current] = disk[k][Current]
    BY <1>1, <1>3, CloseDisk, NothingType
  <1>5. open' = open \ {c} /\ UNCHANGED <<count, at, step, saves>>
    BY <1>3 DEF CloseFile
  <1>6. CASE open' = {}
    <2>1. pc' = "run"
      BY <1>6 DEF CloseFile
    <2>2. QED  BY <1>1, <1>5, <1>6, <2>1 DEF OpenInv
  <1>7. CASE open' # {}
    <2>1. UNCHANGED <<pc, stage, exposed>>
      BY <1>7 DEF CloseFile
    <2>2. Closed => Closed'
      <3> SUFFICES ASSUME Closed, NEW k \in Kinds
                   PROVE  disk'[k][Current]
                            = [save |-> saves, count |-> count - 1, end |-> k \notin open']
        BY <1>5 DEF Closed
      <3>1. disk[k][Current] = [save |-> saves, count |-> count - 1, end |-> k \notin open]
        BY DEF Closed
      <3>2. CASE k = c
        <4>1. disk[c][Current].save = saves /\ disk[c][Current].count = count - 1
          BY <3>1, <3>2
        <4>2. k \notin open'
          BY <1>5, <3>2
        <4>3. QED  BY <1>4, <3>2, <4>1, <4>2
      <3>3. CASE k # c
        BY <1>4, <1>5, <3>1, <3>3
      <3>4. QED  BY <3>2, <3>3
    <2>3. Mixed => Mixed'
      <3>1. \A k \in Kinds : disk'[k][Current].save = disk[k][Current].save
        BY <1>4
      <3>2. QED  BY <1>5, <3>1 DEF Mixed
    <2>4. QED  BY <1>1, <1>5, <1>7, <2>1, <2>2, <2>3 DEF OpenInv
  <1> QED  BY <1>6, <1>7

LEMMA OtherOpen ==
  ASSUME TypeOK, OpenInv,
         SaveAborted \/ Crash \/ StageOverflows \/ Shutdown \/ ShutdownUnsaved \/ Start \/ LoadWorld
         \/ Refusal \/ UNCHANGED vars
  PROVE  OpenInv'
  <1>1. CASE SaveAborted
    <2>1. pc = "run" /\ pc' = pc /\ open' = {} /\ UNCHANGED <<at, step, saves>>
      BY <1>1 DEF SaveAborted
    <2>2. QED  BY <2>1 DEF OpenInv
  <1>2. CASE Crash \/ StageOverflows \/ Shutdown \/ ShutdownUnsaved \/ LoadFails
    BY <1>2, EndOpen DEF Crash, StageOverflows, Shutdown, ShutdownUnsaved, LoadFails, ghosts
  <1>3. CASE Start \/ (LoadWorld /\ ~LoadFails)
    <2>1. /\ pc \in {"down", "loading"} /\ pc' \in {"loading", "run", "opening"}
          /\ UNCHANGED <<open, at, step, saves>>
      BY <1>3 DEF Start, LoadWorld, LoadDone, LoadNext, LoadGivesUp, ghosts
    <2>2. open = {} /\ at = 1 /\ step = "remove" /\ saves >= 1
      BY <2>1 DEF OpenInv
    <2>3. \A i \in 1..(at - 1) : FALSE
      BY <2>2
    <2>4. QED  BY <2>1, <2>2, <2>3 DEF OpenInv
  <1>4. CASE Refusal \/ UNCHANGED vars
    BY <1>4 DEF Refusal, vars, process, ghosts, OpenInv, Whole, Mixed, Closed, Written
  <1> QED  BY <1>1, <1>2, <1>3, <1>4

LEMMA OpenInvStep == ASSUME TypeOK, OpenInv, [Next]_vars  PROVE TypeOK' /\ OpenInv'
  <1>1. TypeOK'
    BY StepTypes DEF OpenInv
  <1>2. CASE SaveTry
    BY <1>1, <1>2, BeginOpen, RemoveOpen, RenameOpen, NewOpen, FailsOpen, HeaderOpen DEF SaveTry
  <1>3. CASE SaveStage
    BY <1>1, <1>3, StageOpen, EofsOpen, CloseOpen DEF SaveStage
  <1>4. CASE SaveForced \/ SaveStatics
    BY <1>1, <1>4, StageOpen
  <1>5. CASE SaveAborted \/ Crash \/ StageOverflows \/ Shutdown \/ ShutdownUnsaved \/ Start \/ LoadWorld
             \/ Refusal \/ UNCHANGED vars
    BY <1>1, <1>5, OtherOpen
  <1> QED  BY <1>1, <1>2, <1>3, <1>4, <1>5 DEF Next

\* Types, and how the files of a save that is opened, written or closed look: what
\* is in the current names is blank, of the save that is under way, or the save
\* was opened in part and is known not to be whole.
THEOREM FilesInvariant == Spec => [](TypeOK /\ OpenInv)
  <1>1. Init => TypeOK /\ OpenInv
    BY InitTypes, InitOpen
  <1>2. (TypeOK /\ OpenInv) /\ [Next]_vars => (TypeOK /\ OpenInv)'
    BY OpenInvStep
  <1> QED  BY <1>1, <1>2, PTL DEF Spec

\* The variables keep their types: the files of every name have contents that
\* CScript can read, and a save that is being closed has a file left to close.
THEOREM FileTypes == Spec => []TypeOK
  BY FilesInvariant, PTL

-----------------------------------------------------------------------------
(***************************************************************************)
(* What LoadWorld finds: the archives that were written since the last     *)
(* completed save, and the current name, lead from one to the other until  *)
(* there is one whose files are complete.                                  *)
(***************************************************************************)
\* LoadWorld alone follows the names.
SourceInv == pc # "loading" => source = Current

\* the file that a name has once the save that is being opened has archived it
Moved(k) == \E i \in 1..Len(Order) : Order[i] = k /\ (i < at \/ (i = at /\ step = "open"))

Has(k, n) ==
    IF pc = "opening" /\ n = Backup(count) /\ ~Moved(k) THEN disk[k][Current] ELSE disk[k][n]

Ended(n) == Has("world", n).end /\ Has("chars", n).end /\ Has("multis", n).end

\* the files of a name are of one save; where they are not complete, the header
\* leads to another such name
Sound(n, F) ==
    /\ \A k \in Kinds : /\ Has(k, n).save = Has("world", n).save
                        /\ Has(k, n).count = Has("world", n).count
    /\ Has("world", n).count # NoCount
    /\ ~Ended(n) => Has("world", n).count > 0 /\ Backup(Has("world", n).count) \in F

Opening == pc \in {"opening", "headers"}

\* F: the archives that were written since the last completed save
Linked(F) ==
    /\ \A n \in F : Sound(n, F)
    /\ Opening => Backup(count) \in F /\ count > 0
    /\ ~Opening => Sound(Current, F)
    /\ pc = "loading" => source \in F \union {Current}

LinkInv == exposed = {} => \E F \in SUBSET Archives : Linked(F)

FilesInv == TypeOK /\ OpenInv /\ SourceInv

\* the files of name n become those of name m, or stay those of it; some that had
\* no end may get it
Kept(n, m) ==
    \A k \in Kinds : /\ Has(k, m)'.save = Has(k, n).save
                     /\ Has(k, m)'.count = Has(k, n).count
                     /\ Has(k, n).end => Has(k, m)'.end

LEMMA SoundKept ==
  ASSUME NEW n \in Names, NEW m \in Names, NEW F, NEW G, F \subseteq G,
         Sound(n, F), Kept(n, m)
  PROVE  Sound(m, G)'
  <1>1. {"world", "chars", "multis"} \subseteq Kinds
    BY KindsAre
  <1>2. \A k \in Kinds : Has(k, n).save = Has("world", n).save
                         /\ Has(k, n).count = Has("world", n).count
    BY DEF Sound
  <1>3. \A k \in Kinds : Has(k, m)'.save = Has("world", m)'.save
                         /\ Has(k, m)'.count = Has("world", m)'.count
    BY <1>1, <1>2 DEF Kept
  <1>4. Ended(n) => Ended(m)'
    BY <1>1 DEF Ended, Kept
  <1>5. Has("world", m)'.count = Has("world", n).count
    BY <1>1 DEF Kept
  <1>6. ~Ended(m)' => Has("world", m)'.count > 0 /\ Backup(Has("world", n).count) \in G
    BY <1>4, <1>5 DEF Sound
  <1>7. Has("world", m)'.count # NoCount
    BY <1>5 DEF Sound
  <1>8. Backup(Has("world", m)'.count) = Backup(Has("world", n).count)
    BY <1>5
  <1> QED  BY <1>3, <1>6, <1>7, <1>8 DEF Sound

\* A step in which every name keeps its files keeps the links.
LEMMA LinkKept ==
  ASSUME NEW F \in SUBSET Archives, Linked(F), \A n \in F : Kept(n, n),
         Opening' => Opening /\ count' = count,
         ~Opening' => ~Opening /\ Kept(Current, Current),
         pc' = "loading" => source' \in F \union {Current}
  PROVE  Linked(F)'
  <1>1. \A n \in F : Sound(n, F)'
    BY SoundKept, NothingType DEF Linked
  <1>2. ~Opening' => Sound(Current, F)'
    BY SoundKept, NothingType DEF Linked
  <1>3. Opening' => (Backup(count) \in F /\ count > 0)'
    BY DEF Linked
  <1> QED  BY <1>1, <1>2, <1>3 DEF Linked

\* A save begins: what the current name has is what the archive will have.
LEMMA BeginKept ==
  ASSUME pc # "opening", pc' = "opening", at' = 1, step' = "remove", disk' = disk,
         NEW b, b = Backup(count')
  PROVE  Kept(Current, b) /\ \A n \in Names : n # b => Kept(n, n)
  <1>1. \A k \in Kinds : ~Moved(k)'
    BY DEF Moved
  <1> QED  BY <1>1 DEF Kept, Has

LEMMA LinkBegins ==
  ASSUME NEW F \in SUBSET Archives, \A n \in F : Sound(n, F), Sound(Current, F),
         pc # "opening", pc' = "opening", at' = 1, step' = "remove", disk' = disk,
         count' \in Nat, count' > 0
  PROVE  \E G \in SUBSET Archives : Linked(G)'
  <1>1. PICK b \in Archives : b = Backup(count')
    BY BackupType
  <1> DEFINE G == F \union {b}
  <1>2. F \subseteq Names
    BY NothingType
  <1>3. Kept(Current, b) /\ \A n \in F : n # b => Kept(n, n)
    BY <1>1, <1>2, BeginKept
  <1>4. \A n \in G : Sound(n, G)'
    <2>1. Sound(b, G)'
      BY <1>3, SoundKept, NothingType
    <2>2. ASSUME NEW n \in F, n # b  PROVE Sound(n, G)'
      BY <1>3, <2>2, SoundKept, NothingType
    <2>3. QED  BY <2>1, <2>2
  <1>5. (Backup(count) \in G /\ count > 0)'
    BY <1>1
  <1>6. Opening'
    BY DEF Opening
  <1>7. Linked(G)'
    BY <1>4, <1>5, <1>6 DEF Linked
  <1> QED  BY <1>7

LEMMA SourceStep == ASSUME SourceInv, [Next]_vars  PROVE SourceInv'
  <1>1. CASE SaveTry
    BY <1>1 DEF SaveTry, SaveBegins, RemoveArchive, RenamePrevious, OpenNew, OpenFails,
                WriteHeader, ProcessEnds, SourceInv
  <1>2. CASE SaveStage
    BY <1>2 DEF SaveStage, StageDone, StageFails, SaveEofs, CloseFile, Saves, ProcessEnds,
                SourceInv
  <1>3. CASE SaveForced \/ SaveAborted \/ SaveStatics
    BY <1>3 DEF SaveForced, SaveAborted, SaveStatics, SourceInv, process
  <1>4. CASE Crash \/ StageOverflows \/ Shutdown \/ ShutdownUnsaved \/ Start
    BY <1>4 DEF Crash, StageOverflows, Shutdown, ShutdownUnsaved, Start, ProcessEnds, SourceInv
  <1>5. CASE LoadWorld
    BY <1>5 DEF LoadWorld, LoadDone, LoadNext, LoadGivesUp, LoadFails, ProcessEnds, SourceInv
  <1>6. CASE Refusal \/ UNCHANGED vars
    BY <1>6 DEF Refusal, vars, process, SourceInv
  <1> QED  BY <1>1, <1>2, <1>3, <1>4, <1>5, <1>6 DEF Next

\* The previous file and its archive change places; what the archive will have
\* does not.
LEMMA RemoveKept ==
  ASSUME TypeOK, RemoveArchive, NEW n \in Archives
  PROVE  Kept(n, n)
  <1>1. /\ pc = "opening" /\ pc' = pc /\ count' = count /\ at' = at
        /\ step = "remove" /\ step' = "rename"
        /\ at \in 1..4 /\ Order[at] \in Kinds /\ Current \in Names /\ n \in Names
    BY KindsAre, NothingType DEF RemoveArchive, TypeOK
  <1>2. PICK o \in Kinds : o = Order[at]
    BY <1>1
  <1>3. PICK b \in Names : b = Backup(count) /\ b # Current
    BY BackupType DEF TypeOK
  <1>4. disk' = [disk EXCEPT ![o][b] = Nothing]
    BY <1>2, <1>3 DEF RemoveArchive
  <1>5. \A k \in Kinds, m \in Names : k # o \/ m # b => disk'[k][m] = disk[k][m]
    BY <1>4, NothingType, DiskPut
  <1>6. \A k \in Kinds : Moved(k)' <=> Moved(k)
    BY <1>1 DEF Moved
  <1>7. ~Moved(o)
    BY <1>1, <1>2, KindsAre DEF Moved
  <1>8. Backup(count') = b
    BY <1>1, <1>3
  <1>9. \A k \in Kinds : Has(k, n)' = Has(k, n)
    BY <1>1, <1>3, <1>5, <1>6, <1>7, <1>8 DEF Has
  <1> QED  BY <1>9 DEF Kept

LEMMA RenameKept ==
  ASSUME TypeOK, RenamePrevious, count > 0, NEW n \in Archives
  PROVE  Kept(n, n)
  <1>1. /\ pc = "opening" /\ pc' = pc /\ count' = count /\ at' = at
        /\ step = "rename" /\ step' = "open"
        /\ at \in 1..4 /\ Order[at] \in Kinds /\ Current \in Names /\ n \in Names
        /\ n # Current
    BY KindsAre, NothingType DEF RenamePrevious, TypeOK, Archives, Current
  <1>2. PICK o \in Kinds : o = Order[at]
    BY <1>1
  <1>3. PICK b \in Names : b = Backup(count) /\ b # Current
    BY BackupType DEF TypeOK
  <1>4. \A k \in Kinds : /\ disk'[k][n] = IF k = o /\ n = b THEN disk[k][Current] ELSE disk[k][n]
                         /\ k # o => disk'[k][Current] = disk[k][Current]
    BY <1>1, <1>2, <1>3, RenameDisk
  <1>5. Moved(o)' /\ ~Moved(o)
    BY <1>1, <1>2, KindsAre DEF Moved
  <1>6. \A k \in Kinds : k # o => (Moved(k)' <=> Moved(k))
    <2>1. ASSUME NEW k \in Kinds, k # o  PROVE Moved(k)' <=> Moved(k)
      BY <1>1, <1>2, <2>1 DEF Moved
    <2>2. QED  BY <2>1
  <1>8. Backup(count') = b
    BY <1>1, <1>3
  <1>9. \A k \in Kinds : Has(k, n)' = Has(k, n)
    BY <1>1, <1>3, <1>4, <1>5, <1>6, <1>8 DEF Has
  <1> QED  BY <1>9 DEF Kept

LEMMA NewKept ==
  ASSUME TypeOK, OpenNew, NEW n \in Archives
  PROVE  Kept(n, n)
  <1>1. /\ pc = "opening" /\ count' = count /\ step = "open" /\ step' = "remove"
        /\ at \in 1..4 /\ Order[at] \in Kinds /\ Current \in Names /\ n \in Names
        /\ n # Current
    BY KindsAre, NothingType DEF OpenNew, TypeOK, Archives, Current
  <1>2. PICK o \in Kinds : o = Order[at]
    BY <1>1
  <1>3. disk' = [disk EXCEPT ![o][Current] = Nothing]
    BY <1>2 DEF OpenNew
  <1>4. \A k \in Kinds : /\ disk'[k][n] = disk[k][n]
                         /\ k # o => disk'[k][Current] = disk[k][Current]
    BY <1>1, <1>3, NothingType, DiskPut
  <1>5. Moved(o)
    BY <1>1, <1>2, KindsAre DEF Moved
  <1>6. CASE at < 4
    <2>1. pc' = pc /\ at' = at + 1
      BY <1>1, <1>6, KindsAre DEF OpenNew
    <2>2. \A i \in 1..4 : i < at' <=> i < at \/ i = at
      BY <1>1, <2>1
    <2>3. \A k \in Kinds : Moved(k)' <=> Moved(k)
      BY <1>1, <2>2, KindsAre DEF Moved
    <2>4. Backup(count') = Backup(count)
      BY <1>1
    <2>5. \A k \in Kinds : Has(k, n)' = Has(k, n)
      BY <1>1, <1>4, <1>5, <2>1, <2>3, <2>4 DEF Has
    <2>6. QED  BY <2>5 DEF Kept
  <1>7. CASE ~(at < 4)
    <2>1. at = 4 /\ pc' = "headers"
      BY <1>1, <1>7, KindsAre DEF OpenNew
    <2>2. \A k \in Kinds : Moved(k)
      BY <1>1, <2>1, KindsAre DEF Moved
    <2>3. \A k \in Kinds : Has(k, n)' = Has(k, n)
      BY <1>4, <2>1, <2>2 DEF Has
    <2>4. QED  BY <2>3 DEF Kept
  <1> QED  BY <1>6, <1>7

\* No save is being opened, and the files keep what they contain.
LEMMA SameKept ==
  ASSUME NEW n \in Names, pc # "opening", pc' # "opening",
         \A k \in Kinds : /\ disk'[k][n].save = disk[k][n].save
                          /\ disk'[k][n].count = disk[k][n].count
                          /\ disk[k][n].end => disk'[k][n].end
  PROVE  Kept(n, n)
  BY DEF Kept, Has

LEMMA HeaderKept ==
  ASSUME TypeOK, WriteHeader, NEW n \in Archives
  PROVE  Kept(n, n)
  <1>1. /\ pc = "headers" /\ pc' # "opening"
        /\ at \in 1..4 /\ Order[at] \in Kinds /\ Current \in Names
        /\ Written(count) \in File
    BY KindsAre, NothingType DEF WriteHeader, TypeOK, Written, File
  <1>2. PICK o \in Kinds : o = Order[at]
    BY <1>1
  <1>3. PICK f \in File : f = Written(count)
    BY <1>1
  <1>4. disk' = [disk EXCEPT ![o][Current] = f]
    BY <1>2, <1>3 DEF WriteHeader, Written
  <1>5. n \in Names /\ n # Current
    BY NothingType DEF Archives, Current
  <1>6. \A k \in Kinds : disk'[k][n] = disk[k][n]
    BY <1>1, <1>4, <1>5, DiskPut
  <1> QED  BY <1>1, <1>5, <1>6, SameKept

LEMMA HeaderLinks ==
  ASSUME TypeOK, OpenInv, OpenInv', WriteHeader, exposed = {},
         NEW F \in SUBSET Archives, Linked(F)
  PROVE  Linked(F)'
  <1>1. /\ pc = "headers" /\ count' = count /\ exposed' = exposed
        /\ at \in 1..4 /\ Order[at] \in Kinds /\ Current \in Names
        /\ Written(count) \in File
    BY KindsAre, NothingType DEF WriteHeader, TypeOK, ghosts, Written, File
  <1>2. Backup(count) \in F /\ count > 0 /\ \A n \in F : Sound(n, F)
    BY <1>1 DEF Linked, Opening
  <1>3. \A n \in F : Kept(n, n)
    BY HeaderKept
  <1>4. CASE at < 4
    <2>1. pc' = "headers"
      BY <1>1, <1>4, KindsAre DEF WriteHeader
    <2>2. QED  BY <1>1, <1>3, <2>1, LinkKept DEF Opening
  <1>5. CASE ~(at < 4)
    <2>1. pc' \in {"run", "forcing"} /\ open' = Kinds
      BY <1>1, <1>5, KindsAre DEF WriteHeader, OpenInv
    <2>2. Whole'
      BY <1>1, <2>1, KindsAre DEF OpenInv
    <2>3. Sound(Current, F)'
      <3>1. \A k \in Kinds : Has(k, Current)' = Written(count)'
        BY <2>1, <2>2 DEF Has, Whole
      <3>2. Written(count)'.count = count /\ count \in Nat
        BY <1>1 DEF Written, TypeOK
      <3>3. Backup(count) \in F /\ count > 0 /\ count # NoCount
        BY <1>2, <3>2 DEF NoCount
      <3>4. "world" \in Kinds
        BY KindsAre
      <3>5. Has("world", Current)'.count = count
        BY <3>1, <3>2, <3>4
      <3>6. Backup(Has("world", Current)'.count) = Backup(count)
        BY <3>5
      <3>7. QED  BY <3>1, <3>3, <3>4, <3>5, <3>6 DEF Sound
    <2>4. \A n \in F : Sound(n, F)'
      BY <1>2, <1>3, SoundKept, NothingType
    <2>5. QED  BY <2>1, <2>3, <2>4 DEF Linked, Opening
  <1> QED  BY <1>4, <1>5

\* Steps that leave the files alone, and crashes, which give them an end at most.
LEMMA CalmLinks ==
  ASSUME TypeOK, SourceInv, exposed' = {}, NEW F \in SUBSET Archives, Linked(F),
         Killed \/ StageDone \/ StageFails \/ SaveForced \/ SaveEofs \/ SaveStatics
         \/ StageOverflows \/ Shutdown \/ Start \/ Refusal \/ UNCHANGED vars
  PROVE  Linked(F)'
  <1>1. CASE Refusal \/ UNCHANGED vars
    BY <1>1 DEF Refusal, vars, process, Linked, Sound, Ended, Has, Moved, Opening
  <1>2. CASE ~(Refusal \/ UNCHANGED vars)
    <2>1. ~Opening /\ ~Opening' /\ (pc' = "loading" => source' = Current)
      <3>1. CASE Killed
        BY <3>1 DEF Killed, Crash, ShutdownUnsaved, ProcessEnds, Opening
      <3>2. CASE StageDone \/ StageFails \/ SaveForced \/ SaveEofs \/ SaveStatics
        BY <3>2 DEF StageDone, StageFails, SaveForced, SaveEofs, SaveStatics, Saves,
                    ProcessEnds, Opening, process
      <3>3. CASE StageOverflows \/ Shutdown \/ Start
        BY <3>3 DEF StageOverflows, Shutdown, Start, ProcessEnds, SourceInv, Opening
      <3>4. QED  BY <1>2, <3>1, <3>2, <3>3
    <2>2. ASSUME NEW n \in Names
          PROVE  Kept(n, n)
      <3>1. CASE Killed
        <4>1. \A k \in Kinds : /\ disk'[k][n].save = disk[k][n].save
                               /\ disk'[k][n].count = disk[k][n].count
                               /\ disk[k][n].end => disk'[k][n].end
          BY <3>1, CrashDisk
        <4>2. QED  BY <2>1, <4>1, SameKept DEF Opening
      <3>2. CASE ~Killed
        <4>1. disk' = disk
          BY <1>2, <3>2 DEF StageDone, StageFails, SaveForced, SaveEofs, SaveStatics,
                            StageOverflows, Shutdown, Start
        <4>2. QED  BY <2>1, <4>1, SameKept DEF Opening
      <3>3. QED  BY <3>1, <3>2
    <2>3. QED  BY <2>1, <2>2, LinkKept, NothingType
  <1> QED  BY <1>1, <1>2

\* Closing a file changes nothing but its end.
LEMMA CloseGrows ==
  ASSUME FilesInv, CloseFile, NEW k \in Kinds, NEW n \in Names
  PROVE  /\ disk'[k][n].save = disk[k][n].save
         /\ disk'[k][n].count = disk[k][n].count
         /\ disk[k][n].end => disk'[k][n].end
  <1>1. PICK c \in Kinds : c = ClosedNext
    BY ClosedNextIs DEF FilesInv, TypeOK, OpenInv, CloseFile
  <1>2. /\ disk'[c][Current] = [save |-> disk[c][Current].save,
                                count |-> disk[c][Current].count, end |-> TRUE]
        /\ \A j \in Kinds, m \in Names : j # c \/ m # Current => disk'[j][m] = disk[j][m]
    BY <1>1, CloseDisk DEF FilesInv
  <1> QED  BY <1>2

\* The last file that is closed completes a save that was not opened in part.
LEMMA CloseLast ==
  ASSUME FilesInv, CloseFile, open' = {}, exposed' = {}
  PROVE  \A k \in Kinds :
            disk'[k][Current] = [save |-> saves, count |-> count - 1, end |-> TRUE]
  <1>1. /\ open # {} /\ open \subseteq Kinds /\ Current \in Names
        /\ Closed \/ (Mixed /\ exposed # {})
    BY NothingType DEF FilesInv, TypeOK, OpenInv, CloseFile
  <1>2. PICK c \in open : c = ClosedNext
    BY <1>1, ClosedNextIs
  <1>3. /\ disk'[c][Current] = [save |-> disk[c][Current].save,
                                count |-> disk[c][Current].count, end |-> TRUE]
        /\ \A j \in Kinds, m \in Names : j # c \/ m # Current => disk'[j][m] = disk[j][m]
    BY <1>1, <1>2, CloseDisk DEF FilesInv
  <1>4. open = {c}
    BY <1>2 DEF CloseFile
  <1>5. Closed
    <2>1. CASE exposed = {}
      BY <1>1, <2>1
    <2>2. CASE exposed # {}
      <3>1. \A k \in Kinds : disk'[k][Current].save = saves
        BY <2>2 DEF CloseFile
      <3>2. ~Mixed
        BY <1>1, <3>1, CloseGrows DEF Mixed
      <3>3. QED  BY <1>1, <3>2
    <2>3. QED  BY <2>1, <2>2
  <1> TAKE k \in Kinds
  <1>6. disk[k][Current] = [save |-> saves, count |-> count - 1, end |-> k \notin {c}]
    BY <1>4, <1>5 DEF Closed
  <1>7. disk[k][Current].save = saves /\ disk[k][Current].count = count - 1
    BY <1>6
  <1>8. CASE k = c
    BY <1>3, <1>7, <1>8
  <1>9. CASE k # c
    BY <1>1, <1>3, <1>6, <1>9
  <1> QED  BY <1>8, <1>9

\* A save that is completed needs no archive: the current name has all its files.
LEMMA CloseLinks ==
  ASSUME FilesInv, CloseFile, LinkInv, exposed' = {}
  PROVE  \E F \in SUBSET Archives : Linked(F)'
  <1>1. /\ pc = "closing" /\ open # {} /\ open \subseteq Kinds /\ source = Current
        /\ saves' = saves /\ source' = source /\ count \in Nat /\ count >= 1
    BY DEF FilesInv, TypeOK, OpenInv, SourceInv, CloseFile
  <1>2. CASE open' # {}
    <2>1. pc' = pc /\ exposed = {}
      BY <1>2 DEF CloseFile
    <2>2. PICK F \in SUBSET Archives : Linked(F)
      BY <2>1 DEF LinkInv
    <2>3. \A n \in Names : Kept(n, n)
      BY <1>1, <2>1, CloseGrows, SameKept
    <2>4. Linked(F)'
      BY <1>1, <2>1, <2>2, <2>3, LinkKept, NothingType DEF Opening
    <2>5. QED  BY <2>4
  <1>3. CASE open' = {}
    <2>1. pc' = "run"
      BY <1>3 DEF CloseFile
    <2>2. PICK z \in Nat : z = count - 1
      BY <1>1
    <2>3. \A k \in Kinds : disk'[k][Current] = [save |-> saves, count |-> z, end |-> TRUE]
      BY <1>3, <2>2, CloseLast
    <2>4. \A k \in Kinds : /\ Has(k, Current)'.save = saves /\ Has(k, Current)'.count = z
                           /\ Has(k, Current)'.end
      BY <2>1, <2>3 DEF Has
    <2>5. Ended(Current)' /\ Sound(Current, {})'
      BY <2>4, KindsAre DEF Ended, Sound, NoCount
    <2>6. source' = Current /\ Linked({})'
      BY <1>1, <2>1, <2>5 DEF Linked, Opening
    <2>7. QED  BY <2>6
  <1> QED  BY <1>2, <1>3

\* A name that LoadWorld loads has the files of one save; where it has none that is
\* complete, the count that was read leads to an archive that is linked.
LEMMA LoadFinds ==
  ASSUME TypeOK, pc = "loading", NEW F \in SUBSET Archives, Linked(F)
  PROVE  /\ \A k \in Kinds : /\ disk[k][source].save = disk["world"][source].save
                             /\ disk[k][source].count = CountRead
         /\ ~Complete => CountRead > 0 /\ Backup(CountRead) \in F
  <1>1. \A k \in Kinds, n \in Names : Has(k, n) = disk[k][n]
    BY DEF Has
  <1>2. Sound(source, F) /\ source \in Names
    BY DEF Linked, Opening, TypeOK
  <1>3. \A k \in Kinds : /\ disk[k][source].save = disk["world"][source].save
                         /\ disk[k][source].count = disk["world"][source].count
    BY <1>1, <1>2, KindsAre DEF Sound
  <1>4. disk["world"][source].count \in Nat
    <2>1. disk["world"][source] \in File
      BY <1>2, KindsAre DEF TypeOK
    <2>2. disk["world"][source].count \in Nat \union {NoCount}
      BY <2>1 DEF File
    <2>3. QED  BY <1>1, <1>2, <2>2, KindsAre DEF Sound
  <1>5. CountRead = disk["world"][source].count
    BY <1>3, <1>4, CountReadIs
  <1>6. Complete <=> Ended(source)
    BY <1>1, <1>2, KindsAre DEF Complete, Ends, Ended
  <1>7. ~Ended(source) => CountRead > 0 /\ Backup(CountRead) \in F
    BY <1>1, <1>2, <1>5, KindsAre DEF Sound
  <1> QED  BY <1>3, <1>5, <1>6, <1>7

LEMMA LoadLinks ==
  ASSUME TypeOK, OpenInv, LoadWorld, exposed = {}, NEW F \in SUBSET Archives, Linked(F)
  PROVE  \E G \in SUBSET Archives : Linked(G)'
  <1>1. pc = "loading" /\ disk' = disk /\ at = 1 /\ step = "remove" /\ UNCHANGED <<at, step>>
    BY DEF LoadWorld, LoadDone, LoadNext, LoadGivesUp, LoadFails, ProcessEnds, OpenInv
  <1>2. CASE LoadDone \/ LoadNext \/ LoadFails
    <2>1. pc' \in {"run", "loading", "down"}
      BY <1>1, <1>2 DEF LoadDone, LoadNext, LoadFails, ProcessEnds
    <2>2. \A n \in Names : Kept(n, n)
      BY <1>1, <2>1, SameKept
    <2>3. pc' = "loading" => source' \in F
      <3>1. CASE LoadDone  BY <3>1 DEF LoadDone
      <3>2. CASE LoadNext
        <4>1. Backup(CountRead) \in F
          BY <1>1, <3>2, LoadFinds DEF LoadNext
        <4>2. source' = Backup(CountRead)
          BY <3>2 DEF LoadNext
        <4>3. QED  BY <4>1, <4>2
      <3>3. CASE LoadFails  BY <3>3 DEF LoadFails, ProcessEnds
      <3>4. QED  BY <1>2, <3>1, <3>2, <3>3
    <2>4. Linked(F)'
      BY <1>1, <2>1, <2>2, <2>3, LinkKept, NothingType DEF Opening
    <2>5. QED  BY <2>4
  <1>3. CASE LoadGivesUp
    <2>1. pc' = "opening" /\ count' = CountRead /\ ~Complete
      BY <1>3 DEF LoadGivesUp
    <2>2. count' \in Nat /\ count' > 0
      BY <1>1, <2>1, LoadFinds, CountReadIs
    <2>3. Sound(Current, F) /\ \A n \in F : Sound(n, F)
      BY <1>1 DEF Linked, Opening
    <2>4. QED  BY <1>1, <2>1, <2>2, <2>3, LinkBegins
  <1> QED  BY <1>2, <1>3 DEF LoadWorld

LEMMA LinkStep ==
  ASSUME FilesInv, LinkInv, [Next]_vars, OpenInv'
  PROVE  LinkInv'
  <1> SUFFICES ASSUME exposed' = {}  PROVE \E F \in SUBSET Archives : Linked(F)'
    BY DEF LinkInv
  <1>0. TypeOK /\ OpenInv /\ SourceInv
    BY DEF FilesInv
  <1>1. CASE CloseFile
    BY <1>1, CloseLinks
  <1>2. CASE ~CloseFile
    <2>1. exposed = {}
      BY <1>2 DEF Next, SaveTry, SaveStage, LoadWorld, SaveBegins, RemoveArchive, RenamePrevious,
                  OpenNew, OpenFails, WriteHeader, StageDone, StageFails, SaveEofs, SaveForced,
                  SaveAborted, SaveStatics, Crash, StageOverflows, Shutdown, ShutdownUnsaved,
                  Start, LoadDone, LoadNext, LoadGivesUp, LoadFails, Refusal, vars, ghosts
    <2>2. PICK F \in SUBSET Archives : Linked(F)
      BY <2>1 DEF LinkInv
    <2>3. CASE SaveBegins
      <3>1. /\ pc = "run" /\ pc' = "opening" /\ disk' = disk /\ count' = count /\ count # 0
            /\ UNCHANGED <<at, step>>
        BY <2>3 DEF SaveBegins
      <3>2. at = 1 /\ step = "remove" /\ count \in Nat
        BY <1>0, <3>1 DEF OpenInv, TypeOK
      <3>3. Sound(Current, F) /\ \A n \in F : Sound(n, F)
        BY <2>2, <3>1 DEF Linked, Opening
      <3>4. QED  BY <3>1, <3>2, <3>3, LinkBegins
    <2>4. CASE RemoveArchive \/ RenamePrevious \/ OpenNew
      <3>1. /\ pc = "opening" /\ pc' \in {"opening", "headers"} /\ count' = count
        BY <2>4 DEF RemoveArchive, RenamePrevious, OpenNew
      <3>2. count > 0
        BY <2>2, <3>1 DEF Linked, Opening
      <3>3. \A n \in F : Kept(n, n)
        BY <1>0, <2>4, <3>2, RemoveKept, RenameKept, NewKept
      <3>4. Linked(F)'
        BY <2>2, <3>1, <3>3, LinkKept DEF Opening
      <3>5. QED  BY <3>4
    <2>5. CASE OpenFails \/ SaveAborted
      BY <2>5 DEF OpenFails, SaveAborted
    <2>6. CASE WriteHeader
      <3>1. Linked(F)'
        BY <1>0, <2>1, <2>2, <2>6, HeaderLinks
      <3>2. QED  BY <3>1
    <2>7. CASE Killed \/ StageDone \/ StageFails \/ SaveForced \/ SaveEofs \/ SaveStatics
               \/ StageOverflows \/ Shutdown \/ Start \/ Refusal \/ UNCHANGED vars
      <3>1. Linked(F)'
        BY <1>0, <2>2, <2>7, CalmLinks
      <3>2. QED  BY <3>1
    <2>8. CASE LoadWorld
      BY <1>0, <2>1, <2>2, <2>8, LoadLinks
    <2>9. QED
      BY <1>2, <2>3, <2>4, <2>5, <2>6, <2>7, <2>8 DEF Next, SaveTry, SaveStage, Killed
  <1> QED  BY <1>1, <1>2

LEMMA LinkInit == Init => LinkInv /\ SourceInv
  <1> SUFFICES ASSUME Init  PROVE LinkInv /\ SourceInv
    OBVIOUS
  <1>1. PICK c \in FirstCounts :
           disk = [k \in Kinds |-> [n \in Names |->
                     IF n = Current THEN [save |-> 1, count |-> c, end |-> TRUE]
                     ELSE Nothing]]
    BY DEF Init
  <1>2. pc = "down" /\ source = Current /\ c # NoCount
    BY FilesAssumption DEF Init, NoCount
  <1>3. \A k \in Kinds : Has(k, Current) = [save |-> 1, count |-> c, end |-> TRUE]
    BY <1>1, <1>2, NothingType DEF Has
  <1>4. \A k \in Kinds : /\ Has(k, Current).save = 1 /\ Has(k, Current).count = c
                         /\ Has(k, Current).end
    BY <1>3
  <1>5. Ended(Current) /\ Sound(Current, {})
    BY <1>2, <1>4, KindsAre DEF Ended, Sound
  <1>6. Linked({})
    BY <1>2, <1>5 DEF Linked, Opening
  <1>7. {} \in SUBSET Archives
    OBVIOUS
  <1> QED  BY <1>2, <1>6, <1>7 DEF LinkInv, SourceInv

\* The archives that were written since the last completed save and the current
\* name have the files of one save each, and those that are not complete lead to
\* another one of them.
THEOREM LinksInvariant == Spec => [](FilesInv /\ LinkInv)
  <1>1. Init => FilesInv /\ LinkInv
    BY InitTypes, InitOpen, LinkInit DEF FilesInv
  <1>2. FilesInv /\ LinkInv /\ [Next]_vars => (FilesInv /\ LinkInv)'
    <2> SUFFICES ASSUME FilesInv, LinkInv, [Next]_vars  PROVE (FilesInv /\ LinkInv)'
      OBVIOUS
    <2>1. TypeOK' /\ OpenInv'
      BY OpenInvStep DEF FilesInv
    <2>2. SourceInv'
      BY SourceStep DEF FilesInv
    <2>3. LinkInv'
      BY <2>1, LinkStep
    <2>4. QED  BY <2>1, <2>2, <2>3 DEF FilesInv
  <1> QED  BY <1>1, <1>2, PTL DEF Spec

\* LoadWorld ends with files of one save, the data file being the one it read last:
\* with any number of backup levels, of archive names per level, of saves and of
\* crashes.  Excluded is what exposed stands for, since the last completed save: a
\* crash while files are opened or headers written, a failed open, an aborted save,
\* a save with SAVECOUNT 0.  (Of the data files it read before, see globals.)
THEOREM SavesAreNotMixed == Spec => Synced
  <1>1. FilesInv /\ LinkInv /\ [Next]_vars =>
          [LoadDone /\ exposed = {} => \A k \in Kinds : loaded'[k] = loaded'["world"]]_vars
    <2> SUFFICES ASSUME FilesInv, LinkInv, LoadDone, exposed = {}, NEW k \in Kinds
                 PROVE  loaded'[k] = loaded'["world"]
      OBVIOUS
    <2>1. PICK F \in SUBSET Archives : Linked(F)
      BY DEF LinkInv
    <2>2. disk[k][source].save = disk["world"][source].save
      BY <2>1, LoadFinds DEF FilesInv, LoadDone
    <2>3. QED  BY <2>2, KindsAre DEF LoadDone
  <1> QED  BY <1>1, LinksInvariant, PTL DEF Spec, Synced

-----------------------------------------------------------------------------
(***************************************************************************)
(* What one crash costs.  While a save is opened the archive with its      *)
(* count is complete; while it is written its headers point to that        *)
(* archive; so the process that crashed is followed by one that loads the  *)
(* current name or the one that it points to.                              *)
(***************************************************************************)
\* the last completed save, or a later one
Safe(n) == Ended(n) /\ Has("world", n).save >= done

Pointed == Backup(Has("world", Current).count)
Found == Safe(Current) \/ (~Ended(Current) /\ Safe(Pointed))

SafeInv ==
    exposed = {} =>
        /\ boot => crashes > 1
        /\ crashes = 0 /\ Opening => Safe(Backup(count))
        /\ crashes = 0 /\ ~Opening /\ open = {} => Safe(Current)
        /\ ~Opening /\ (crashes = 0 \/ (crashes = 1 /\ open = {})) => Found
        /\ crashes <= 1 /\ pc = "loading" =>
              source = Current \/ (source = Pointed /\ Safe(source))

LEMMA SafeKept ==
  ASSUME NEW n, NEW m, Safe(n), Kept(n, m), done' = done
  PROVE  Safe(m)'
  <1>1. {"world", "chars", "multis"} \subseteq Kinds
    BY KindsAre
  <1>2. Ended(m)'
    BY <1>1 DEF Safe, Ended, Kept
  <1>3. Has("world", m)'.save >= done
    BY <1>1 DEF Safe, Kept
  <1> QED  BY <1>2, <1>3 DEF Safe

\* The header of the current world says a count, unless it is just written.
LEMMA CurrentCount ==
  ASSUME FilesInv, LinkInv, exposed = {}, ~Opening
  PROVE  Has("world", Current).count \in Nat
  <1>1. Sound(Current, {}) \/ \E F \in SUBSET Archives : Sound(Current, F)
    BY DEF LinkInv, Linked
  <1>2. Has("world", Current).count # NoCount
    BY <1>1 DEF Sound
  <1>3. Has("world", Current) = disk["world"][Current]
    BY DEF Has, Opening
  <1>4. disk["world"][Current] \in File
    BY KindsAre, NothingType DEF FilesInv, TypeOK
  <1>5. disk["world"][Current].count \in Nat \union {NoCount}
    BY <1>4 DEF File
  <1> QED  BY <1>2, <1>3, <1>5

LEMMA FoundKept ==
  ASSUME Found, Has("world", Current).count \in Nat, done' = done,
         \A n \in Names : Kept(n, n),
         Ended(Current)' => Ended(Current) \/ Safe(Current)'
  PROVE  Found'
  <1>1. CASE Safe(Current)
    BY <1>1, SafeKept, NothingType DEF Found
  <1>2. CASE ~Safe(Current)
    <2>1. PICK p \in Names : p = Pointed
      BY BackupType DEF Pointed
    <2>2. ~Ended(Current) /\ Safe(p)
      BY <1>2, <2>1 DEF Found
    <2>3. Safe(p)'
      BY <2>2, SafeKept
    <2>4. Has("world", Current)'.count = Has("world", Current).count
      BY KindsAre, NothingType DEF Kept
    <2>5. Pointed' = p
      BY <2>1, <2>4 DEF Pointed
    <2>6. QED  BY <2>2, <2>3, <2>5 DEF Found
  <1> QED  BY <1>1, <1>2

\* Files that are given an end are those of the save that is closed, which is later
\* than every one that was completed.
LEMMA EndIsSafe ==
  ASSUME FilesInv, pc = "closing", exposed = {}, pc' # "opening", done' = done,
         \A k \in Kinds : disk'[k][Current].save = disk[k][Current].save,
         Ended(Current)'
  PROVE  Safe(Current)'
  <1>1. Closed /\ done <= saves
    BY DEF FilesInv, OpenInv, TypeOK
  <1>2. disk["world"][Current] = [save |-> saves, count |-> count - 1, end |-> "world" \notin open]
    BY <1>1, KindsAre DEF Closed
  <1>3. disk'["world"][Current].save = saves
    BY <1>2, KindsAre
  <1>4. Has("world", Current)'.save = saves
    BY <1>3 DEF Has
  <1> QED  BY <1>1, <1>4 DEF Safe

LEMMA OpeningSafe ==
  ASSUME FilesInv, LinkInv, SafeInv, exposed = {}, exposed' = {},
         SaveBegins \/ RemoveArchive \/ RenamePrevious \/ OpenNew \/ WriteHeader, OpenInv'
  PROVE  SafeInv'
  <1>0. TypeOK /\ OpenInv /\ SourceInv
    BY DEF FilesInv
  <1>1. PICK F \in SUBSET Archives : Linked(F)
    BY DEF LinkInv
  <1>2. /\ boot' = boot /\ crashes' = crashes /\ done' = done /\ count' = count
        /\ count \in Nat /\ pc' # "loading"
    BY <1>0 DEF SaveBegins, RemoveArchive, RenamePrevious, OpenNew, WriteHeader, ghosts, TypeOK
  <1>3. boot => crashes > 1
    BY DEF SafeInv
  <1>4. PICK b \in Archives : b = Backup(count)
    BY <1>2, BackupType
  <1>5. CASE SaveBegins
    <2>1. /\ pc = "run" /\ pc' = "opening" /\ "world" \notin open /\ disk' = disk
          /\ UNCHANGED <<at, step>>
      BY <1>5 DEF SaveBegins, IsSaving
    <2>2. open = {} /\ at = 1 /\ step = "remove"
      BY <1>0, <2>1, KindsAre DEF OpenInv, Whole
    <2>3. crashes = 0 => Safe(Current)
      BY <2>1, <2>2 DEF SafeInv, Opening
    <2>4. Kept(Current, b)
      BY <1>2, <1>4, <2>1, <2>2, BeginKept
    <2>5. crashes = 0 => Safe(b)'
      BY <1>2, <2>3, <2>4, SafeKept
    <2>6. Backup(count') = b /\ Opening'
      BY <1>2, <1>4, <2>1 DEF Opening
    <2>7. QED  BY <1>2, <1>3, <2>5, <2>6 DEF SafeInv
  <1>6. CASE ~SaveBegins
    <2>1. Opening
      BY <1>6 DEF RemoveArchive, RenamePrevious, OpenNew, WriteHeader, Opening
    <2>2. count > 0
      BY <1>1, <2>1 DEF Linked
    <2>3. Kept(b, b)
      BY <1>0, <1>6, <2>2, RemoveKept, RenameKept, NewKept, HeaderKept
    <2>4. crashes = 0 => Safe(b)'
      <3>1. crashes = 0 => Safe(b)
        BY <1>4, <2>1 DEF SafeInv
      <3>2. QED  BY <1>2, <2>3, <3>1, SafeKept
    <2>5. Backup(count') = b
      BY <1>2, <1>4
    <2>6. CASE Opening'
      BY <1>2, <1>3, <2>4, <2>5, <2>6 DEF SafeInv
    <2>7. CASE ~Opening'
      <3>1. WriteHeader
        BY <1>6, <2>7 DEF RemoveArchive, RenamePrevious, OpenNew, Opening
      <3>2. pc' \in {"run", "forcing"} /\ open' = Kinds
        BY <1>0, <2>7, <3>1 DEF WriteHeader, OpenInv, Opening
      <3>3. Whole' /\ open' # {}
        BY <3>2, KindsAre DEF OpenInv
      <3>4. Has("world", Current)' = Written(count)'
        BY <3>2, <3>3, KindsAre DEF Has, Whole
      <3>5. Written(count)'.count = count /\ Written(count)'.end = FALSE
        BY <1>2 DEF Written
      <3>6. ~Ended(Current)'
        BY <3>4, <3>5 DEF Ended
      <3>7. Has("world", Current)'.count = count
        BY <3>4, <3>5
      <3>8. Pointed' = b
        BY <1>4, <3>7 DEF Pointed
      <3>9. crashes = 0 => Found'
        BY <2>4, <3>6, <3>8 DEF Found
      <3>10. QED  BY <1>2, <1>3, <2>7, <3>3, <3>9 DEF SafeInv
    <2>8. QED  BY <2>6, <2>7
  <1> QED  BY <1>5, <1>6

LEMMA CalmSafe ==
  ASSUME FilesInv, LinkInv, SafeInv, exposed = {}, exposed' = {},
         StageDone \/ StageFails \/ SaveForced \/ SaveEofs \/ SaveStatics
         \/ StageOverflows \/ Shutdown \/ Start
  PROVE  SafeInv'
  <1>1. ~StageOverflows
    BY DEF StageOverflows, IsSaving, FilesInv, OpenInv, Whole
  <1>2. ~Opening /\ ~Opening' /\ pc # "opening" /\ pc' # "opening"
    BY <1>1 DEF StageDone, StageFails, SaveForced, SaveEofs, SaveStatics, Saves,
                Shutdown, Start, ProcessEnds, Opening, process
  <1>3. disk' = disk /\ crashes' = crashes /\ done' = done
    BY <1>1 DEF StageDone, StageFails, SaveForced, SaveEofs, SaveStatics, Shutdown, Start,
                ghosts
  <1>4. \A n \in Names : Kept(n, n)
    BY <1>2, <1>3, SameKept
  <1>5. Ended(Current)' => Ended(Current)
    BY <1>2, <1>3, KindsAre DEF Ended, Has
  <1>6. Safe(Current) => Safe(Current)'
    BY <1>3, <1>4, SafeKept, NothingType
  <1>7. Found => Found'
    BY <1>2, <1>3, <1>4, <1>5, CurrentCount, FoundKept
  <1>8. boot => crashes > 1
    BY DEF SafeInv
  <1>9. boot' => boot
    BY <1>1 DEF StageDone, StageFails, SaveForced, SaveEofs, SaveStatics, Shutdown, Start,
                ProcessEnds, process
  <1>10. crashes > 1 \/ open' = open \/ open = {}
    <2>1. CASE StageFails /\ boot
      BY <1>8, <2>1
    <2>2. CASE StageFails /\ ~boot
      BY <2>2 DEF StageFails
    <2>3. CASE Shutdown
      <3>1. pc = "run" /\ "world" \notin open
        BY <2>3 DEF Shutdown, IsSaving
      <3>2. open = {}
        BY <3>1, KindsAre DEF FilesInv, OpenInv, Whole
      <3>3. QED  BY <3>2
    <2>4. CASE StageDone \/ SaveForced \/ SaveEofs \/ SaveStatics \/ Start
      BY <2>4 DEF StageDone, SaveForced, SaveEofs, SaveStatics, Start, process
    <2>5. QED  BY <1>1, <2>1, <2>2, <2>3, <2>4
  <1>11. crashes \in Nat
    BY DEF FilesInv, TypeOK
  <1>12. pc' = "loading" => source' = Current
    BY <1>1 DEF StageDone, StageFails, SaveForced, SaveEofs, SaveStatics, Saves, Shutdown,
                Start, ProcessEnds, FilesInv, SourceInv, process
  <1>13. crashes = 0 /\ open' = {} => Safe(Current)'
    <2>1. SUFFICES ASSUME crashes = 0, open' = {}  PROVE Safe(Current)'
      OBVIOUS
    <2>2. open = {}
      BY <1>10, <2>1
    <2>3. QED  BY <1>2, <1>6, <2>1, <2>2 DEF SafeInv
  <1>14. crashes = 0 \/ (crashes = 1 /\ open' = {}) => Found'
    <2>1. SUFFICES ASSUME crashes = 0 \/ (crashes = 1 /\ open' = {})  PROVE Found'
      OBVIOUS
    <2>2. crashes = 0 \/ (crashes = 1 /\ open = {})
      BY <1>10, <2>1
    <2>3. QED  BY <1>2, <1>7, <2>2 DEF SafeInv
  <1> QED
    BY <1>2, <1>3, <1>8, <1>9, <1>12, <1>13, <1>14 DEF SafeInv

LEMMA CrashSafe ==
  ASSUME FilesInv, LinkInv, SafeInv, exposed = {}, exposed' = {}, Killed
  PROVE  SafeInv'
  <1>1. /\ ~Opening /\ ~Opening' /\ pc # "opening" /\ pc' # "opening" /\ pc' # "loading"
        /\ boot' = FALSE /\ crashes' = crashes + 1 /\ done' = done /\ crashes \in Nat
    BY DEF Killed, Crash, ShutdownUnsaved, ProcessEnds, Opening, FilesInv, TypeOK
  <1>2. \A n \in Names, k \in Kinds :
           /\ disk'[k][n].save = disk[k][n].save
           /\ disk'[k][n].count = disk[k][n].count
           /\ disk[k][n].end => disk'[k][n].end
    BY CrashDisk DEF FilesInv
  <1>3. \A n \in Names : Kept(n, n)
    BY <1>1, <1>2, SameKept
  <1>4. Ended(Current)' => Ended(Current) \/ Safe(Current)'
    <2>1. CASE pc = "closing"
      BY <1>1, <1>2, <2>1, EndIsSafe, NothingType
    <2>2. CASE pc # "closing"
      <3>1. disk \in [Kinds -> [Names -> File]]
        BY DEF FilesInv, TypeOK
      <3>2. \A k \in Kinds : disk'[k] = disk[k]
        BY <2>2 DEF Killed, Crash, ShutdownUnsaved
      <3>3. QED  BY <1>1, <3>2, KindsAre DEF Ended, Has
    <2>3. QED  BY <2>1, <2>2
  <1>5. crashes = 0 => Found'
    <2>1. crashes = 0 => Found
      BY <1>1 DEF SafeInv
    <2>2. QED  BY <1>1, <1>3, <1>4, <2>1, CurrentCount, FoundKept
  <1> QED  BY <1>1, <1>5 DEF SafeInv

LEMMA CloseSafe ==
  ASSUME FilesInv, LinkInv, SafeInv, exposed' = {}, CloseFile
  PROVE  SafeInv'
  <1>1. /\ pc = "closing" /\ open # {} /\ saves' = saves
        /\ done \in 0..saves /\ saves \in Nat /\ crashes \in Nat
    BY DEF CloseFile, FilesInv, OpenInv, TypeOK
  <1>2. CASE open' # {}
    <2>1. /\ exposed = {} /\ pc' = pc /\ boot' = boot /\ crashes' = crashes /\ done' = done
      BY <1>2 DEF CloseFile
    <2>2. ~Opening /\ ~Opening'
      BY <1>1, <2>1 DEF Opening
    <2>3. \A n \in Names : Kept(n, n)
      BY <1>1, <2>1, CloseGrows, SameKept
    <2>4. Ended(Current)' => Safe(Current)'
      BY <1>1, <2>1, CloseGrows, EndIsSafe, NothingType
    <2>5. crashes = 0 => Found'
      <3>1. crashes = 0 => Found
        BY <2>1, <2>2 DEF SafeInv
      <3>2. QED  BY <2>1, <2>2, <2>3, <2>4, <3>1, CurrentCount, FoundKept
    <2>6. boot => crashes > 1
      BY <2>1 DEF SafeInv
    <2>7. QED  BY <1>1, <1>2, <2>1, <2>2, <2>5, <2>6 DEF SafeInv
  <1>3. CASE open' = {}
    <2>1. \A k \in Kinds :
             disk'[k][Current] = [save |-> saves, count |-> count - 1, end |-> TRUE]
      BY <1>3, CloseLast
    <2>2. \A k \in Kinds : disk'[k][Current].save = saves /\ disk'[k][Current].end
      BY <2>1
    <2>3. pc' = "run" /\ boot' = FALSE /\ done' = saves /\ crashes' = 0
      BY <1>3, <2>2 DEF CloseFile
    <2>4. \A k \in Kinds : Has(k, Current)'.save = saves /\ Has(k, Current)'.end
      BY <2>2, <2>3 DEF Has
    <2>5. Ended(Current)' /\ Has("world", Current)'.save = saves
      BY <2>4, KindsAre DEF Ended
    <2>6. Safe(Current)'
      BY <1>1, <2>3, <2>5 DEF Safe
    <2>7. QED  BY <2>3, <2>6 DEF SafeInv, Found, Opening
  <1> QED  BY <1>2, <1>3

\* After at most one crash LoadWorld loads the last completed save, or a later one,
\* at its second try at the latest.
LEMMA LoadIsSafe ==
  ASSUME FilesInv, LinkInv, SafeInv, exposed = {}, LoadWorld, crashes <= 1
  PROVE  /\ ~LoadGivesUp /\ ~LoadFails
         /\ LoadDone => Safe(source)
         /\ LoadNext => source = Current /\ source' = Pointed /\ Safe(Pointed)
  <1>1. pc = "loading" /\ open = {} /\ ~Opening /\ crashes \in Nat
    BY DEF LoadWorld, LoadDone, LoadNext, LoadGivesUp, LoadFails, FilesInv, OpenInv, TypeOK,
           Opening
  <1>2. PICK F \in SUBSET Archives : Linked(F)
    BY DEF LinkInv
  <1>3. /\ \A k \in Kinds : disk[k][source].count = CountRead
        /\ ~Complete => CountRead > 0 /\ Backup(CountRead) \in F
    BY <1>1, <1>2, LoadFinds DEF FilesInv
  <1>4. Found /\ (source = Current \/ (source = Pointed /\ Safe(source)))
    BY <1>1 DEF SafeInv
  <1>5. Complete <=> Ended(source)
    BY <1>1 DEF Complete, Ends, Ended, Has
  <1>6. CountRead \in Nat
    BY CountReadIs DEF FilesInv
  <1>7. CASE source = Current
    <2>1. Backup(CountRead) # source
      BY <1>6, <1>7, BackupType
    <2>2. Has("world", Current).count = CountRead
      BY <1>1, <1>3, <1>7, KindsAre DEF Has
    <2>3. Pointed = Backup(CountRead)
      BY <2>2 DEF Pointed
    <2>4. ~Complete => ~GivesUp(CountRead) /\ Safe(Pointed)
      BY <1>3, <1>4, <1>5, <1>7, <2>1 DEF GivesUp, Found, Safe
    <2>5. Complete => Safe(source)
      BY <1>4, <1>5, <1>7 DEF Found
    <2>6. LoadNext => source' = Backup(CountRead)
      BY DEF LoadNext
    <2>7. QED  BY <1>7, <2>3, <2>4, <2>5, <2>6 DEF LoadGivesUp, LoadFails, LoadDone, LoadNext
  <1>8. CASE source # Current
    <2>1. Safe(source) /\ Complete
      BY <1>4, <1>5, <1>8 DEF Safe
    <2>2. QED  BY <2>1 DEF LoadGivesUp, LoadFails, LoadNext
  <1> QED  BY <1>7, <1>8

LEMMA LoadSafe ==
  ASSUME FilesInv, LinkInv, SafeInv, exposed = {}, exposed' = {}, LoadWorld
  PROVE  SafeInv'
  <1>1. /\ pc = "loading" /\ ~Opening /\ disk' = disk /\ UNCHANGED <<open, crashes, done>>
        /\ open = {} /\ crashes \in Nat
    BY DEF LoadWorld, LoadDone, LoadNext, LoadGivesUp, LoadFails, ProcessEnds, Opening,
           ghosts, FilesInv, OpenInv, TypeOK
  <1>2. CASE LoadGivesUp
    <2>1. crashes > 1 /\ pc' = "opening"
      BY <1>1, <1>2, LoadIsSafe DEF LoadGivesUp
    <2>2. QED  BY <1>1, <2>1 DEF SafeInv, Opening
  <1>3. CASE LoadFails
    <2>1. crashes > 1
      <3>1. ~(crashes <= 1)
        BY <1>3, LoadIsSafe
      <3>2. QED  BY <1>1, <3>1
    <2>2. pc' = "down" /\ boot' = FALSE
      BY <1>3 DEF LoadFails, ProcessEnds
    <2>3. QED  BY <1>1, <2>1, <2>2 DEF SafeInv, Opening
  <1>4. CASE ~LoadGivesUp /\ ~LoadFails
    <2>1. /\ pc' \in {"run", "loading"} /\ boot' = boot /\ ~Opening' /\ pc' # "opening"
      BY <1>1, <1>4 DEF LoadWorld, LoadDone, LoadNext, Opening
    <2>2. \A n \in Names : Kept(n, n)
      BY <1>1, <2>1, SameKept
    <2>3. Ended(Current)' => Ended(Current)
      BY <1>1, <2>1 DEF Ended, Has
    <2>4. Found => Found'
      BY <1>1, <2>2, <2>3, CurrentCount, FoundKept
    <2>5. Safe(Current) => Safe(Current)'
      BY <1>1, <2>2, SafeKept, NothingType
    <2>6. crashes <= 1 /\ pc' = "loading" => source' = Pointed' /\ Safe(source)'
      <3>1. SUFFICES ASSUME crashes <= 1, pc' = "loading"
                     PROVE  source' = Pointed' /\ Safe(source)'
        OBVIOUS
      <3>2. LoadNext
        BY <1>4, <3>1 DEF LoadWorld, LoadDone
      <3>3. PICK p \in Names : p = Pointed
        BY <1>1, CurrentCount, BackupType DEF Pointed
      <3>4. source' = p /\ Safe(p)
        BY <3>1, <3>2, <3>3, LoadIsSafe
      <3>5. Safe(p)'
        BY <1>1, <2>2, <3>4, SafeKept
      <3>6. Has("world", Current)'.count = Has("world", Current).count
        BY <2>2, KindsAre, NothingType DEF Kept
      <3>7. Pointed' = p
        BY <3>3, <3>6 DEF Pointed
      <3>8. Safe(source)'
        BY <3>4, <3>5 DEF Safe, Ended, Has, Moved
      <3>9. QED  BY <3>4, <3>7, <3>8
    <2>7. /\ boot => crashes > 1
          /\ crashes = 0 => Safe(Current)
          /\ crashes = 0 \/ crashes = 1 => Found
      BY <1>1 DEF SafeInv
    <2>8. QED  BY <1>1, <2>1, <2>4, <2>5, <2>6, <2>7 DEF SafeInv
  <1> QED  BY <1>2, <1>3, <1>4

LEMMA SafeStep ==
  ASSUME FilesInv, LinkInv, SafeInv, [Next]_vars, OpenInv'
  PROVE  SafeInv'
  <1>1. CASE exposed' # {}
    BY <1>1 DEF SafeInv
  <1>2. CASE exposed' = {}
    <2>1. CASE CloseFile
      BY <1>2, <2>1, CloseSafe
    <2>2. CASE Refusal \/ UNCHANGED vars
      BY <2>2 DEF Refusal, vars, process, ghosts, SafeInv, Found, Pointed, Safe, Ended, Has, Moved,
                  Opening
    <2>3. CASE ~CloseFile /\ ~(Refusal \/ UNCHANGED vars)
      <3>1. exposed = {}
        BY <1>2, <2>3 DEF Next, SaveTry, SaveStage, LoadWorld, SaveBegins, RemoveArchive,
             RenamePrevious, OpenNew, OpenFails, WriteHeader, StageDone, StageFails, SaveEofs,
             SaveForced, SaveAborted, SaveStatics, Crash, StageOverflows, Shutdown,
             ShutdownUnsaved, Start, LoadDone, LoadNext, LoadGivesUp, LoadFails, ghosts
      <3>2. ~OpenFails /\ ~SaveAborted
        BY <1>2 DEF OpenFails, SaveAborted
      <3>3. CASE SaveBegins \/ RemoveArchive \/ RenamePrevious \/ OpenNew \/ WriteHeader
        BY <1>2, <3>1, <3>3, OpeningSafe
      <3>4. CASE StageDone \/ StageFails \/ SaveForced \/ SaveEofs \/ SaveStatics
                 \/ StageOverflows \/ Shutdown \/ Start
        BY <1>2, <3>1, <3>4, CalmSafe
      <3>5. CASE Killed
        BY <1>2, <3>1, <3>5, CrashSafe
      <3>6. CASE LoadWorld
        BY <1>2, <3>1, <3>6, LoadSafe
      <3>7. QED
        BY <2>3, <3>2, <3>3, <3>4, <3>5, <3>6 DEF Next, SaveTry, SaveStage, Killed
    <2>4. QED  BY <2>1, <2>2, <2>3
  <1> QED  BY <1>1, <1>2

LEMMA SafeInit == Init => SafeInv
  <1> SUFFICES ASSUME Init  PROVE SafeInv
    OBVIOUS
  <1>1. PICK c \in FirstCounts :
           disk = [k \in Kinds |-> [n \in Names |->
                     IF n = Current THEN [save |-> 1, count |-> c, end |-> TRUE]
                     ELSE Nothing]]
    BY DEF Init
  <1>2. pc = "down" /\ done = 1 /\ boot = FALSE
    BY DEF Init
  <1>3. \A k \in Kinds : Has(k, Current) = [save |-> 1, count |-> c, end |-> TRUE]
    BY <1>1, <1>2, NothingType DEF Has
  <1>4. \A k \in Kinds : Has(k, Current).save = 1 /\ Has(k, Current).end
    BY <1>3
  <1>5. Safe(Current)
    BY <1>2, <1>4, KindsAre DEF Safe, Ended
  <1> QED  BY <1>2, <1>5 DEF SafeInv, Found, Opening

\* With at most one crash since it, the last completed save (or a later one) has the
\* current name, or the one that the headers under the current name point to.
THEOREM SafeInvariant == Spec => []SafeInv
  <1>1. Init => SafeInv
    BY SafeInit
  <1>2. FilesInv /\ LinkInv /\ (FilesInv /\ LinkInv)' /\ SafeInv /\ [Next]_vars => SafeInv'
    BY SafeStep DEF FilesInv
  <1> QED  BY <1>1, <1>2, LinksInvariant, PTL DEF Spec

\* After one crash since the last completed save LoadWorld comes back with that
\* save or a later one and does not give up: with any number of backup levels, of
\* archive names per level, of saves and of failures.  The crash may be at any step
\* but those that exposed stands for (above): while the files are opened, that is
\* while archives are removed and renamed, or while headers are written.
THEOREM LastSaveIsLoaded == Spec => LastSaveLoaded
  <1>1. FilesInv /\ LinkInv /\ SafeInv /\ [Next]_vars =>
          [(LoadDone \/ LoadGivesUp \/ LoadFails) /\ exposed = {} /\ crashes <= 1 =>
              loaded'["world"] >= done]_vars
    <2> SUFFICES ASSUME FilesInv, LinkInv, SafeInv,
                        LoadDone \/ LoadGivesUp \/ LoadFails, exposed = {},
                        crashes <= 1
                 PROVE  loaded'["world"] >= done
      OBVIOUS
    <2>1. LoadWorld
      BY DEF LoadWorld
    <2>2. LoadDone /\ Safe(source)
      BY <2>1, LoadIsSafe
    <2>3. Has("world", source) = disk["world"][source]
      BY <2>2 DEF LoadDone, Has
    <2>4. loaded'["world"] = disk["world"][source].save
      BY <2>2, KindsAre DEF LoadDone
    <2>5. QED  BY <2>2, <2>3, <2>4 DEF Safe
  <1> QED  BY <1>1, LinksInvariant, SafeInvariant, PTL DEF Spec, LastSaveLoaded
=============================================================================
