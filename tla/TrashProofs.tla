---------------------------- MODULE TrashProofs ----------------------------
(***************************************************************************)
(* Proofs about the trash of the CourseWork, for every set of paths, files, *)
(* links, programs and tools: whoever moves, restores and purges at the     *)
(* same time, and whoever is killed in between, every file that was created *)
(* is at one place or has gone one way (OnePlace), and the metadata of an   *)
(* ID that was given to one file only leads back.  The same is proved with  *)
(* the browser as one of the programs and of the tools, and, for every      *)
(* length of its lists and of its window, that it acts on what the user     *)
(* saw.                                                                     *)
(***************************************************************************)
EXTENDS Browser, DataTheorems, TLAPS

-----------------------------------------------------------------------------
(***************************************************************************)
(* The inductive invariant.                                                 *)
(***************************************************************************)

\* A process has the local variables that its next system call needs.
LocalInv ==
  /\ \A d \in Programs : pc[d] # "run" =>
       path[d] \in Paths /\ origReal[d] \in Paths /\ newname[d] \in Ids
  /\ \A t \in Tools :
       /\ tpc[t] \in {"restore", "infounlink", "purgeinfo"} => id[t] \in Ids
       /\ tpc[t] = "restore" => original[t] \in Paths

\* Only IDs that files were moved to are in use.
EntriesInv ==
  /\ \A i \in Ids : files[i] # None \/ info[i] # None => i \in entries
  /\ \A d \in Programs :
       pc[d] \in {"infoopen", "infowrite"} => newname[d] \in entries
  /\ \A t \in Tools :
       /\ todo[t] \subseteq entries
       /\ tpc[t] \in {"restore", "infounlink", "purgeinfo"} => id[t] \in entries

\* No two directory entries are the same file.
Apart ==
  /\ \A p, q \in Paths : fs[p] = fs[q] /\ fs[p] # None => p = q
  /\ \A i, j \in Ids : files[i] = files[j] /\ files[i] # None => i = j
  /\ \A p \in Paths, i \in Ids : fs[p] = files[i] => fs[p] = None

\* The files that are nowhere any more.
Departed == purged \cup unlinked \cup lost

\* A file went one way only.
OneWay ==
  /\ purged \cap unlinked = {}
  /\ purged \cap lost = {}
  /\ unlinked \cap lost = {}

\* What is somewhere was created and has not gone, what has gone was created,
\* and what was created is somewhere or has gone.
Accounted ==
  /\ \A p \in Paths : fs[p] # None => fs[p] \in made /\ fs[p] \notin Departed
  /\ \A i \in Ids : files[i] # None => files[i] \in made /\ files[i] \notin Departed
  /\ Departed \subseteq made
  /\ \A c \in made \ Departed : \/ \E p \in Paths : fs[p] = c
                            \/ \E i \in Ids : files[i] = c

FilesInv == Apart /\ OneWay /\ Accounted

IndInv == TypeOK /\ LocalInv /\ EntriesInv /\ FilesInv

-----------------------------------------------------------------------------
(***************************************************************************)
(* Types.                                                                   *)
(***************************************************************************)

\* generate_unique_name makes an ID.
LEMMA UniqueNameType ==
  ASSUME TypeOK, NEW d \in Programs
  PROVE  GenerateUniqueName(d) \in Ids
<1> DEFINE x == Rand[calls[d]]
<1>1. x \in Nat /\ Modulus \in Nat /\ Modulus # 0
  BY TrashAssumption DEF TypeOK
<1> HIDE DEF x
<1>2. x % Modulus \in 0..(Modulus - 1)
  BY <1>1
<1>3. now \in 0..MaxTime
  BY DEF TypeOK
<1> QED BY <1>2, <1>3 DEF GenerateUniqueName, Ids, x

\* realpath of a path is a path.
LEMMA ResolveType ==
  ASSUME NEW p \in Paths
  PROVE  Resolve(p) \in Paths
<1> QED BY TrashAssumption DEF Resolve

\* Neither the trash nor the paths hold anything at first.
LEMMA InitInv == Init => IndInv
<1> SUFFICES ASSUME Init PROVE IndInv
  OBVIOUS
<1>1. TypeOK
  BY TrashAssumption DEF Init, TypeOK
<1>2. LocalInv
  BY DEF Init, LocalInv
<1>3. EntriesInv
  BY DEF Init, EntriesInv
<1>4. FilesInv
  BY DEF Init, FilesInv, Apart, OneWay, Accounted, Departed
<1> QED BY <1>1, <1>2, <1>3, <1>4 DEF IndInv

\* The steps of a process on its own variables keep those of the others, and
\* its own, in their ranges.
LEMMA StepTypes ==
  ASSUME IndInv, Next
  PROVE  TypeOK'
<1> USE DEF IndInv
<1>1. CASE Tick
  <2>1. now' \in 0..MaxTime
    BY <1>1, TrashAssumption DEF TypeOK, Tick
  <2> QED BY <1>1, <2>1 DEF TypeOK, Tick, fsVars, progVars, toolVars, history,
                           names
<1>2. CASE Create
  BY <1>2 DEF TypeOK, Create, progVars, toolVars, names
<1>3. ASSUME NEW d \in Programs, NEW p \in Paths, Unlink(d, p)
      PROVE  TypeOK'
  <2>1. CASE StatOk(fs[p])
    <3>1. Resolve(p) \in Paths /\ GenerateUniqueName(d) \in Ids
      BY ResolveType, UniqueNameType
    <3>2. calls[d] + 1 \in 0..MaxCalls
      BY <1>3, TrashAssumption DEF TypeOK, Unlink
    <3> QED BY <1>3, <2>1, <3>1, <3>2 DEF TypeOK, Unlink, ProgGoTo, toolVars,
                                              names
  <2>2. CASE ~StatOk(fs[p])
    BY <1>3, <2>2 DEF TypeOK, Unlink, progVars, toolVars, names
  <2> QED BY <2>1, <2>2
<1>4. ASSUME NEW d \in Programs, UnlinkStep(d) \/ Exec(d)
      PROVE  TypeOK'
  <2>1. CASE MoveToTrash(d)
    BY <2>1 DEF TypeOK, LocalInv, MoveToTrash, ProgGoTo, toolVars
  <2>2. CASE RenameFails(d)
    BY <2>2 DEF TypeOK, LocalInv, RenameFails, ProgReturn, ProgGoTo,
                toolVars, names
  <2>3. CASE InfoOpen(d)
    BY <2>3 DEF TypeOK, LocalInv, InfoOpen, ProgGoTo, toolVars, history, names
  <2>4. CASE InfoWrite(d)
    <3>1. origReal[d] \in Paths
      BY <2>4 DEF LocalInv, InfoWrite
    <3> QED BY <2>4, <3>1 DEF TypeOK, InfoWrite, ProgReturn, ProgGoTo,
                              toolVars, history, names
  <2>5. CASE InfoFails(d)
    BY <2>5 DEF TypeOK, LocalInv, InfoFails, Unwritten, ProgReturn, ProgGoTo,
                fsVars, toolVars, names
  <2>6. CASE Exec(d)
    <3>1. calls' \in [Programs -> 0..MaxCalls]
      BY <2>6, TrashAssumption DEF TypeOK, Exec
    <3>2. unrecorded' \subseteq Content
      BY <2>6 DEF TypeOK, LocalInv, Exec, Unwritten
    <3> QED BY <2>6, <3>1, <3>2 DEF TypeOK, Exec, ProgReturn, ProgGoTo, fsVars,
                                    toolVars, names
  <2> QED BY <1>4, <2>1, <2>2, <2>3, <2>4, <2>5, <2>6 DEF UnlinkStep
<1>5. ASSUME NEW t \in Tools, ToolStep(t)
      PROVE  TypeOK'
  <2>1. CASE \E i \in entries : RestoreRead(t, i)
    BY <2>1 DEF TypeOK, RestoreRead, ToolGoTo, fsVars, progVars, history, names
  <2>2. CASE \E S \in SUBSET Ids : PurgeStart(t, S)
    BY <2>2 DEF TypeOK, PurgeStart, ToolGoTo, fsVars, progVars, history, names
  <2>3. CASE RestoreRename(t)
    BY <2>3 DEF TypeOK, LocalInv, RestoreRename, ToolReturn, ToolGoTo,
                progVars, names
  <2>4. CASE RestoreInfo(t)
    BY <2>4 DEF TypeOK, LocalInv, RestoreInfo, RemoveInfo, ToolReturn, ToolGoTo,
                progVars, history, names
  <2>5. CASE PurgeFile(t)
    BY <2>5 DEF TypeOK, PurgeFile, StatOk, ToolGoTo, progVars, names
  <2>6. CASE PurgeInfo(t)
    BY <2>6 DEF TypeOK, LocalInv, PurgeInfo, RemoveInfo, ToolGoTo, progVars,
                history, names
  <2>7. CASE ToolEnd(t)
    BY <2>7 DEF TypeOK, ToolEnd, ToolReturn, ToolGoTo, fsVars, progVars,
                history, names
  <2>8. /\ \A i \in entries : {i} \in SUBSET Ids
        /\ {i \in Ids : info[i] # None} \in SUBSET Ids
    BY DEF TypeOK
  <2> QED BY <1>5, <2>1, <2>2, <2>3, <2>4, <2>5, <2>6, <2>7, <2>8
          DEF ToolStep, Command
<1> QED BY <1>1, <1>2, <1>3, <1>4, <1>5 DEF Next, ProgramStep

\* They leave a process with what its next system call needs.
LEMMA StepLocals ==
  ASSUME IndInv, Next
  PROVE  LocalInv'
<1> USE DEF IndInv
<1>1. CASE Tick \/ Create
  BY <1>1 DEF LocalInv, Tick, Create, progVars, toolVars
<1>2. ASSUME NEW d \in Programs, NEW p \in Paths, Unlink(d, p)
      PROVE  LocalInv'
  <2>1. CASE StatOk(fs[p])
    <3>1. Resolve(p) \in Paths /\ GenerateUniqueName(d) \in Ids
      BY ResolveType, UniqueNameType
    <3> QED BY <1>2, <2>1, <3>1 DEF TypeOK, LocalInv, Unlink, ProgGoTo,
                                    toolVars
  <2>2. CASE ~StatOk(fs[p])
    BY <1>2, <2>2 DEF LocalInv, Unlink, progVars, toolVars
  <2> QED BY <2>1, <2>2
<1>3. ASSUME NEW d \in Programs, UnlinkStep(d) \/ Exec(d)
      PROVE  LocalInv'
  <2>1. CASE MoveToTrash(d)
    BY <2>1 DEF TypeOK, LocalInv, MoveToTrash, ProgGoTo, toolVars
  <2>2. CASE InfoOpen(d)
    BY <2>2 DEF TypeOK, LocalInv, InfoOpen, ProgGoTo, toolVars
  <2>3. CASE RenameFails(d) \/ InfoWrite(d) \/ InfoFails(d) \/ Exec(d)
    BY <2>3 DEF TypeOK, LocalInv, RenameFails, InfoWrite, InfoFails, Exec,
                ProgReturn, ProgGoTo, toolVars
  <2> QED BY <1>3, <2>1, <2>2, <2>3 DEF UnlinkStep
<1>4. ASSUME NEW t \in Tools, ToolStep(t)
      PROVE  LocalInv'
  <2>1. CASE \E i \in entries : RestoreRead(t, i)
    BY <2>1 DEF TypeOK, LocalInv, RestoreRead, ToolGoTo, progVars
  <2>2. CASE \E S : PurgeStart(t, S)
    BY <2>2 DEF TypeOK, LocalInv, PurgeStart, ToolGoTo, progVars
  <2>3. CASE RestoreRename(t)
    BY <2>3 DEF TypeOK, LocalInv, RestoreRename, ToolReturn, ToolGoTo,
                progVars
  <2>4. CASE RestoreInfo(t) \/ ToolEnd(t)
    BY <2>4 DEF TypeOK, LocalInv, RestoreInfo, ToolEnd, ToolReturn, ToolGoTo,
                progVars
  <2>5. CASE PurgeFile(t)
    BY <2>5 DEF TypeOK, LocalInv, PurgeFile, ToolGoTo, progVars
  <2>6. CASE PurgeInfo(t)
    BY <2>6 DEF TypeOK, LocalInv, PurgeInfo, ToolGoTo, progVars
  <2> QED BY <1>4, <2>1, <2>2, <2>3, <2>4, <2>5, <2>6 DEF ToolStep, Command
<1> QED BY <1>1, <1>2, <1>3, <1>4 DEF Next, ProgramStep

\* They use the IDs that files were moved to.
LEMMA StepEntries ==
  ASSUME IndInv, Next
  PROVE  EntriesInv'
<1> USE DEF IndInv
<1>1. CASE Tick \/ Create
  BY <1>1 DEF EntriesInv, Tick, Create, fsVars, progVars, toolVars, history,
              names
<1>2. ASSUME NEW d \in Programs, NEW p \in Paths, Unlink(d, p)
      PROVE  EntriesInv'
  BY <1>2 DEF TypeOK, EntriesInv, Unlink, ProgGoTo, progVars, toolVars, names
<1>3. ASSUME NEW d \in Programs, UnlinkStep(d) \/ Exec(d)
      PROVE  EntriesInv'
  <2>1. CASE MoveToTrash(d)
    <3>1. newname[d] \in Ids
      BY <2>1 DEF LocalInv, MoveToTrash
    <3> QED BY <2>1, <3>1 DEF TypeOK, EntriesInv, MoveToTrash, ProgGoTo,
                              toolVars
  <2>2. CASE InfoOpen(d)
    BY <2>2 DEF TypeOK, LocalInv, EntriesInv, InfoOpen, ProgGoTo, toolVars,
                history, names
  <2>3. CASE InfoWrite(d)
    BY <2>3 DEF TypeOK, LocalInv, EntriesInv, InfoWrite, ProgReturn, ProgGoTo,
                toolVars, history, names
  <2>4. CASE RenameFails(d) \/ InfoFails(d) \/ Exec(d)
    BY <2>4 DEF TypeOK, EntriesInv, RenameFails, InfoFails, Exec, ProgReturn,
                ProgGoTo, fsVars, toolVars, names
  <2> QED BY <1>3, <2>1, <2>2, <2>3, <2>4 DEF UnlinkStep
<1>4. ASSUME NEW t \in Tools, ToolStep(t)
      PROVE  EntriesInv'
  <2>1. CASE \E i \in entries : RestoreRead(t, i)
    BY <2>1 DEF TypeOK, EntriesInv, RestoreRead, ToolGoTo, fsVars, progVars,
                history, names
  <2>2. CASE \E S \in SUBSET entries : PurgeStart(t, S)
    BY <2>2 DEF TypeOK, EntriesInv, PurgeStart, ToolGoTo, fsVars, progVars,
                history, names
  <2>3. CASE RestoreRename(t)
    BY <2>3 DEF TypeOK, LocalInv, EntriesInv, RestoreRename, ToolReturn,
                ToolGoTo, progVars, names
  <2>4. CASE RestoreInfo(t) \/ ToolEnd(t)
    BY <2>4 DEF TypeOK, LocalInv, EntriesInv, RestoreInfo, RemoveInfo, ToolEnd,
                ToolReturn, ToolGoTo, fsVars, progVars, history, names
  <2>5. CASE PurgeFile(t)
    BY <2>5 DEF TypeOK, EntriesInv, PurgeFile, ToolGoTo, progVars, names
  <2>6. CASE PurgeInfo(t)
    BY <2>6 DEF TypeOK, LocalInv, EntriesInv, PurgeInfo, RemoveInfo, ToolGoTo,
                progVars, history, names
  <2>7. /\ \A i \in entries : {i} \in SUBSET entries
        /\ {i \in Ids : info[i] # None} \in SUBSET entries
    BY DEF EntriesInv
  <2> QED BY <1>4, <2>1, <2>2, <2>3, <2>4, <2>5, <2>6, <2>7
          DEF ToolStep, Command
<1> QED BY <1>1, <1>2, <1>3, <1>4 DEF Next, ProgramStep

-----------------------------------------------------------------------------
(***************************************************************************)
(* The files, system call by system call.                                   *)
(***************************************************************************)

\* A step that touches no file keeps them.
LEMMA SameFiles ==
  ASSUME FilesInv, UNCHANGED <<fs, files, made, purged, unlinked, lost>>
  PROVE  FilesInv'
<1> QED BY DEF FilesInv, Apart, OneWay, Accounted, Departed

\* A new file is at the path where it was created.
LEMMA CreateFiles ==
  ASSUME IndInv, Create
  PROVE  FilesInv'
<1>1. PICK p \in Paths, c \in Content \ made :
        /\ fs[p] = None
        /\ fs' = [fs EXCEPT ![p] = c]
        /\ made' = made \cup {c}
  BY DEF Create
<1>2. UNCHANGED <<files, purged, unlinked, lost>>
  BY DEF Create
<1>3. c # None
  BY TrashAssumption
<1>4. Apart'
  BY <1>1, <1>2, <1>3 DEF IndInv, TypeOK, FilesInv, Apart, Accounted
<1>5. OneWay'
  BY <1>2 DEF IndInv, FilesInv, OneWay
<1>6. Accounted'
  <2>1. Departed' = Departed /\ Departed \subseteq made /\ c \notin Departed
    BY <1>1, <1>2 DEF IndInv, FilesInv, Accounted, Departed
  <2>2. \A q \in Paths : fs'[q] # None => fs'[q] \in made' \ Departed
    BY <1>1, <2>1 DEF IndInv, TypeOK, FilesInv, Accounted
  <2>3. \A i \in Ids : files[i] # None => files[i] \in made' \ Departed
    BY <1>1, <2>1 DEF IndInv, FilesInv, Accounted
  <2>4. fs'[p] = c
    BY <1>1 DEF IndInv, TypeOK
  <2>5. \A x \in made \ Departed : \/ \E q \in Paths : fs'[q] = x
                               \/ \E i \in Ids : files[i] = x
    <3>1. SUFFICES ASSUME NEW x \in made \ Departed, NEW q \in Paths, fs[q] = x
                   PROVE  fs'[q] = x
      BY DEF IndInv, FilesInv, Accounted
    <3>2. x # None
      BY TrashAssumption DEF IndInv, TypeOK
    <3> QED BY <1>1, <3>1, <3>2 DEF IndInv, TypeOK
  <2> QED BY <1>1, <1>2, <2>1, <2>2, <2>3, <2>4, <2>5 DEF Accounted
<1> QED BY <1>4, <1>5, <1>6 DEF FilesInv

\* unlink of the system: the file at the path, if there is one, is gone.
LEMMA UnlinkedFiles ==
  ASSUME IndInv, NEW p \in Paths, fs' = [fs EXCEPT ![p] = None],
         unlinked' = unlinked \cup ({fs[p]} \ {None}),
         UNCHANGED <<files, made, purged, lost>>
  PROVE  FilesInv'
<1>1. Apart'
  BY DEF IndInv, TypeOK, FilesInv, Apart
<1>2. OneWay'
  BY DEF IndInv, FilesInv, OneWay, Accounted, Departed
<1>3. Accounted'
  BY DEF IndInv, TypeOK, FilesInv, Apart, Accounted, Departed
<1> QED BY <1>1, <1>2, <1>3 DEF FilesInv

\* rename into the trash, over what has that name there.
LEMMA TrashedFiles ==
  ASSUME IndInv, NEW d \in Programs, MoveToTrash(d)
  PROVE  FilesInv'
<1> DEFINE p == path[d]
           i == newname[d]
<1>1. /\ p \in Paths /\ i \in Ids /\ fs[p] # None
      /\ fs' = [fs EXCEPT ![p] = None]
      /\ files' = [files EXCEPT ![i] = fs[p]]
      /\ lost' = lost \cup ({files[i]} \ {None})
      /\ UNCHANGED <<made, purged, unlinked>>
  BY DEF IndInv, LocalInv, MoveToTrash
<1> HIDE DEF p, i
<1>2. Apart'
  BY <1>1 DEF IndInv, TypeOK, FilesInv, Apart
<1>3. OneWay'
  BY <1>1 DEF IndInv, FilesInv, OneWay, Accounted, Departed
<1>4. Accounted'
  BY <1>1 DEF IndInv, TypeOK, FilesInv, Apart, Accounted, Departed
<1> QED BY <1>2, <1>3, <1>4 DEF FilesInv

\* rename out of the trash, over what is at the original path.
LEMMA RestoredFiles ==
  ASSUME IndInv, NEW t \in Tools, RestoreRename(t)
  PROVE  FilesInv'
<1> DEFINE p == original[t]
           i == id[t]
<1>1. CASE UNCHANGED <<fs, files, lost>>
  <2>1. UNCHANGED <<made, purged, unlinked>>
    BY DEF RestoreRename
  <2> QED BY <1>1, <2>1, SameFiles DEF IndInv
<1>2. CASE ~(UNCHANGED <<fs, files, lost>>)
  <2>1. /\ p \in Paths /\ i \in Ids /\ files[i] # None
        /\ fs' = [fs EXCEPT ![p] = files[i]]
        /\ files' = [files EXCEPT ![i] = None]
        /\ lost' = lost \cup ({fs[p]} \ {None})
        /\ UNCHANGED <<made, purged, unlinked>>
    BY <1>2 DEF IndInv, LocalInv, RestoreRename
  <2> HIDE DEF p, i
  <2>2. Apart'
    BY <2>1 DEF IndInv, TypeOK, FilesInv, Apart
  <2>3. OneWay'
    BY <2>1 DEF IndInv, FilesInv, OneWay, Accounted, Departed
  <2>4. Accounted'
    BY <2>1 DEF IndInv, TypeOK, FilesInv, Apart, Accounted, Departed
  <2> QED BY <2>2, <2>3, <2>4 DEF FilesInv
<1> QED BY <1>1, <1>2

\* Purging an entry removes its file, or leaves it.
LEMMA PurgedFiles ==
  ASSUME IndInv, NEW t \in Tools, PurgeFile(t)
  PROVE  FilesInv'
<1>1. PICK i \in todo[t] :
        \/ /\ StatOk(files[i])
           /\ files' = [files EXCEPT ![i] = None]
           /\ purged' = purged \cup {files[i]}
        \/ UNCHANGED <<files, purged>>
  BY DEF PurgeFile
<1>2. i \in Ids
  BY DEF IndInv, TypeOK
<1>3. UNCHANGED <<fs, made, unlinked, lost>>
  BY DEF PurgeFile
<1>4. CASE ~(UNCHANGED <<files, purged>>)
  <2>1. /\ files[i] # None
        /\ files' = [files EXCEPT ![i] = None]
        /\ purged' = purged \cup {files[i]}
    BY <1>1, <1>4 DEF StatOk
  <2>2. Apart'
    BY <1>2, <1>3, <2>1 DEF IndInv, TypeOK, FilesInv, Apart
  <2>3. OneWay'
    BY <1>2, <1>3, <2>1 DEF IndInv, FilesInv, OneWay, Accounted, Departed
  <2>4. Accounted'
    BY <1>2, <1>3, <2>1 DEF IndInv, TypeOK, FilesInv, Apart, Accounted, Departed
  <2> QED BY <2>2, <2>3, <2>4 DEF FilesInv
<1>5. CASE UNCHANGED <<files, purged>>
  BY <1>3, <1>5, SameFiles DEF IndInv
<1> QED BY <1>4, <1>5

\* Every step accounts for every file.
LEMMA StepFiles ==
  ASSUME IndInv, Next
  PROVE  FilesInv'
<1>1. CASE Tick
  BY <1>1, SameFiles DEF IndInv, Tick, fsVars, history
<1>2. CASE Create
  BY <1>2, CreateFiles
<1>3. ASSUME NEW d \in Programs, NEW p \in Paths, Unlink(d, p)
      PROVE  FilesInv'
  <2>1. CASE StatOk(fs[p])
    BY <1>3, <2>1, SameFiles DEF IndInv, Unlink
  <2>2. CASE ~StatOk(fs[p])
    BY <1>3, <2>2, UnlinkedFiles DEF Unlink
  <2> QED BY <2>1, <2>2
<1>4. ASSUME NEW d \in Programs, UnlinkStep(d) \/ Exec(d)
      PROVE  FilesInv'
  <2>1. CASE MoveToTrash(d)
    BY <2>1, TrashedFiles
  <2>2. CASE RenameFails(d)
    <3>1. path[d] \in Paths
      BY <2>2 DEF IndInv, LocalInv, RenameFails
    <3> QED BY <2>2, <3>1, UnlinkedFiles DEF RenameFails
  <2>3. CASE InfoOpen(d) \/ InfoWrite(d) \/ InfoFails(d) \/ Exec(d)
    BY <2>3, SameFiles DEF IndInv, InfoOpen, InfoWrite, InfoFails, Exec,
                           fsVars, history
  <2> QED BY <1>4, <2>1, <2>2, <2>3 DEF UnlinkStep
<1>5. ASSUME NEW t \in Tools, ToolStep(t)
      PROVE  FilesInv'
  <2>1. CASE Command(t) \/ RestoreInfo(t) \/ PurgeInfo(t) \/ ToolEnd(t)
    BY <2>1, SameFiles DEF IndInv, Command, RestoreRead, PurgeStart,
                           RestoreInfo, PurgeInfo, ToolEnd, fsVars, history
  <2>2. CASE RestoreRename(t)
    BY <2>2, RestoredFiles
  <2>3. CASE PurgeFile(t)
    BY <2>3, PurgedFiles
  <2> QED BY <1>5, <2>1, <2>2, <2>3 DEF ToolStep
<1> QED BY <1>1, <1>2, <1>3, <1>4, <1>5 DEF Next, ProgramStep

\* No step breaks the inductive invariant.
LEMMA NextInv == IndInv /\ [Next]_vars => IndInv'
<1> SUFFICES ASSUME IndInv, [Next]_vars
             PROVE  IndInv'
  OBVIOUS
<1>1. CASE Next
  BY <1>1, StepTypes, StepLocals, StepEntries, StepFiles DEF IndInv
<1>2. CASE UNCHANGED vars
  BY <1>2 DEF IndInv, TypeOK, LocalInv, EntriesInv, FilesInv, Apart, OneWay,
              Accounted, Departed, vars, fsVars, progVars, toolVars, history,
              names
<1> QED BY <1>1, <1>2

-----------------------------------------------------------------------------
(***************************************************************************)
(* One place.                                                               *)
(***************************************************************************)

\* A file that has gone is nowhere, and went one way; one that has not is at
\* one place.
LEMMA InvOnePlace == IndInv => OnePlace
<1> SUFFICES ASSUME IndInv, NEW c \in made
             PROVE  LET at(f, S) == {x \in S : f[x] = c}
                        places   == ({"fs"} \X at(fs, Paths))
                                    \cup ({"trash"} \X at(files, Ids))
                        ways     == {w \in {<<"purged", purged>>,
                                            <<"unlinked", unlinked>>,
                                            <<"lost", lost>>} : c \in w[2]}
                    IN  \/ ways = {} /\ \E x \in places : places = {x}
                        \/ places = {} /\ \E w \in ways : ways = {w}
  BY DEF OnePlace
<1> DEFINE at(f, S) == {x \in S : f[x] = c}
           places   == ({"fs"} \X at(fs, Paths)) \cup ({"trash"} \X at(files, Ids))
           ways     == {w \in {<<"purged", purged>>, <<"unlinked", unlinked>>,
                               <<"lost", lost>>} : c \in w[2]}
<1>1. c # None
  BY TrashAssumption DEF IndInv, TypeOK
<1>2. CASE c \in Departed
  <2>1. places = {}
    BY <1>1, <1>2 DEF IndInv, FilesInv, Accounted
  <2>2. \E w \in ways : ways = {w}
    <3>1. CASE c \in purged
      <4>1. c \notin unlinked /\ c \notin lost
        BY <3>1 DEF IndInv, FilesInv, OneWay
      <4>2. ways = {<<"purged", purged>>}
        BY <3>1, <4>1
      <4> QED BY <4>2
    <3>2. CASE c \in unlinked
      <4>1. c \notin purged /\ c \notin lost
        BY <3>2 DEF IndInv, FilesInv, OneWay
      <4>2. ways = {<<"unlinked", unlinked>>}
        BY <3>2, <4>1
      <4> QED BY <4>2
    <3>3. CASE c \in lost
      <4>1. c \notin purged /\ c \notin unlinked
        BY <3>3 DEF IndInv, FilesInv, OneWay
      <4>2. ways = {<<"lost", lost>>}
        BY <3>3, <4>1
      <4> QED BY <4>2
    <3> QED BY <1>2, <3>1, <3>2, <3>3 DEF Departed
  <2> QED BY <2>1, <2>2
<1>3. CASE c \notin Departed
  <2>1. ways = {}
    BY <1>3 DEF Departed
  <2>2. \E x \in places : places = {x}
    <3>1. CASE \E p \in Paths : fs[p] = c
      <4>1. PICK p \in Paths : fs[p] = c
        BY <3>1
      <4>2. at(fs, Paths) = {p} /\ at(files, Ids) = {}
        BY <1>1, <4>1 DEF IndInv, FilesInv, Apart
      <4>3. places = {<<"fs", p>>}
        BY <4>2
      <4> QED BY <4>3
    <3>2. CASE \E i \in Ids : files[i] = c
      <4>1. PICK i \in Ids : files[i] = c
        BY <3>2
      <4>2. at(files, Ids) = {i} /\ at(fs, Paths) = {}
        BY <1>1, <4>1 DEF IndInv, FilesInv, Apart
      <4>3. places = {<<"trash", i>>}
        BY <4>2
      <4> QED BY <4>3
    <3> QED BY <1>3, <3>1, <3>2 DEF IndInv, FilesInv, Accounted
  <2> QED BY <2>1, <2>2
<1> QED BY <1>2, <1>3

\* The inductive invariant holds, however often programs are killed and
\* followed by others.
LEMMA SpecInv == Spec => []IndInv
<1> QED BY InitInv, NextInv, PTL DEF Spec

\* No file is lost or doubled by unlink, restore and purge (trash_unlink.c,
\* restore.c, purge.c), whatever their system calls are interleaved with and
\* wherever a program is killed.
THEOREM OnePlaceCorrect == Spec => []OnePlace
<1> QED BY SpecInv, InvOnePlace, PTL

-----------------------------------------------------------------------------
(***************************************************************************)
(* Metadata.  An ID that two files were moved to (those of repeated) leads  *)
(* anywhere: the tool that removed the first one's file goes on to remove   *)
(* the second one's metadata.  What follows is about the other IDs, however *)
(* many programs and tools there are and whoever is killed.                 *)
(***************************************************************************)

\* The programs that have yet to write the metadata of i
Writing(d, i) == pc[d] \in {"infoopen", "infowrite"} /\ newname[d] = i

\* What is written, and will be, about the file of i is where it was deleted
\* from, and who will write it is one program.
WriteInv ==
  \A i \in Ids \ repeated : \A d \in Programs : Writing(d, i) =>
    /\ \A e \in Programs : Writing(e, i) => e = d
    /\ files[i] # None =>
         /\ origin[files[i]] \in {None, origReal[d]}
         /\ pc[d] = "infowrite" => info[i] # None \/ files[i] \in unrecorded

\* What was read of it is where it was deleted from, and metadata is removed
\* only where there is no file any more, or one that could not be removed.
ReadInv ==
  \A i \in Ids \ repeated :
    /\ files[i] # None /\ info[i] \in Paths =>
         origin[files[i]] \in {None, info[i]}
    /\ \A t \in Tools : id[t] = i /\ files[i] # None =>
         /\ tpc[t] # "infounlink"
         /\ tpc[t] = "purgeinfo" => files[i] \in unrecorded
         /\ tpc[t] = "restore" => origin[files[i]] \in {None, original[t]}

\* The file of i has metadata, or need not have any (yet).
Recorded(i) == \/ info[i] \in Paths
               \/ files[i] \in unrecorded
               \/ \E d \in Programs : Writing(d, i)

InfoInv == WriteInv /\ ReadInv /\ FileHasInfo

\* There is nothing in the trash at first.
LEMMA InitInfo == Init => InfoInv
<1> QED BY DEF Init, InfoInv, WriteInv, ReadInv, FileHasInfo, Writing

\* A step on the outside of the trash
LEMMA SameInfo ==
  ASSUME InfoInv,
         UNCHANGED <<files, info, toolVars, origin, unrecorded, repeated>>,
         \A d \in Programs, i \in Ids : Writing(d, i)' <=> Writing(d, i),
         \A d \in Programs : pc'[d] \in {"infoopen", "infowrite"} =>
           pc'[d] = pc[d] /\ origReal'[d] = origReal[d]
  PROVE  InfoInv'
<1>1. \A d \in Programs, i \in Ids : Writing(d, i)' =>
        /\ Writing(d, i) /\ pc'[d] = pc[d] /\ origReal'[d] = origReal[d]
  BY DEF Writing
<1>2. WriteInv'
  BY <1>1 DEF InfoInv, WriteInv
<1>3. ReadInv'
  BY DEF InfoInv, ReadInv, toolVars
<1>4. FileHasInfo'
  <2>1. \A i \in Ids \ repeated : files[i] # None => Recorded(i)
    BY DEF InfoInv, FileHasInfo, Recorded, Writing
  <2>2. \A i \in Ids \ repeated' : files'[i] # None => Recorded(i)'
    BY <2>1 DEF Recorded
  <2> QED BY <2>2 DEF FileHasInfo, Recorded, Writing
<1> QED BY <1>2, <1>3, <1>4 DEF InfoInv

\* Time passes, somebody creates a file.
LEMMA WorldInfo ==
  ASSUME InfoInv, Tick \/ Create
  PROVE  InfoInv'
<1>1. UNCHANGED <<files, info, progVars, toolVars, origin, unrecorded,
                  repeated>>
  BY DEF Tick, Create, fsVars, history, names
<1>2. \A d \in Programs, i \in Ids : Writing(d, i)' <=> Writing(d, i)
  BY <1>1 DEF progVars, Writing
<1> QED BY <1>1, <1>2, SameInfo DEF progVars

-----------------------------------------------------------------------------
(***************************************************************************)
(* Metadata: the steps of unlink.                                           *)
(***************************************************************************)

\* unlink begins: there is nothing in the trash yet.
LEMMA UnlinkInfo ==
  ASSUME IndInv, InfoInv, NEW d \in Programs, NEW p \in Paths, Unlink(d, p)
  PROVE  InfoInv'
<1>1. UNCHANGED <<files, info, toolVars, origin, unrecorded, repeated>>
  BY DEF Unlink, names
<1>2. \A e \in Programs : \/ pc[e] = "run" /\ pc'[e] \in {"run", "rename"}
                          \/ /\ pc'[e] = pc[e] /\ newname'[e] = newname[e]
                             /\ origReal'[e] = origReal[e]
  BY DEF IndInv, TypeOK, Unlink, ProgGoTo, progVars
<1>3. \A e \in Programs, i \in Ids : Writing(e, i)' <=> Writing(e, i)
  BY <1>2 DEF Writing
<1> QED BY <1>1, <1>2, <1>3, SameInfo

\* A program is no longer in unlink; if it still had to write metadata, the file
\* is remembered in unrecorded.  (The tool of the same process may end as well.)
LEMMA ReturnInfo ==
  ASSUME IndInv, InfoInv, NEW d \in Programs, ProgReturn(d),
         UNCHANGED <<files, info, origin, repeated>>,
         unrecorded' = unrecorded \cup Unwritten(d),
         \A t \in Tools : \/ tpc'[t] = "idle"
                          \/ /\ tpc'[t] = tpc[t] /\ id'[t] = id[t]
                             /\ original'[t] = original[t]
  PROVE  InfoInv'
<1>1. /\ pc'[d] = "run"
      /\ \A e \in Programs \ {d} : /\ pc'[e] = pc[e] /\ newname'[e] = newname[e]
                                    /\ origReal'[e] = origReal[e]
  BY DEF IndInv, TypeOK, ProgReturn, ProgGoTo
<1>2. \A e \in Programs, i \in Ids :
        Writing(e, i)' <=> e # d /\ Writing(e, i)
  BY <1>1 DEF Writing
<1>3. \A i \in Ids :
        Writing(d, i) /\ files[i] # None => files[i] \in unrecorded'
  BY DEF Writing, Unwritten
<1>4. WriteInv'
  BY <1>1, <1>2 DEF InfoInv, WriteInv
<1>5. ReadInv'
  BY DEF InfoInv, ReadInv
<1>6. FileHasInfo'
  <2>1. \A i \in Ids \ repeated : files[i] # None => Recorded(i)
    BY DEF InfoInv, FileHasInfo, Recorded, Writing
  <2>2. \A i \in Ids \ repeated' : files'[i] # None => Recorded(i)'
    BY <1>2, <1>3, <2>1 DEF Recorded
  <2> QED BY <2>2 DEF FileHasInfo, Recorded, Writing
<1> QED BY <1>4, <1>5, <1>6 DEF InfoInv

\* rename into the trash: an ID that is used for the first time is nobody
\* else's.
LEMMA MoveToTrashInfo ==
  ASSUME IndInv, InfoInv, NEW d \in Programs, MoveToTrash(d)
  PROVE  InfoInv'
<1> DEFINE p == path[d]
           i0 == newname[d]
           c == fs[p]
           o == IF origReal[d] = p THEN p ELSE None
<1>1. /\ pc[d] = "rename" /\ c # None
      /\ files' = [files EXCEPT ![i0] = c]
      /\ origin' = [origin EXCEPT ![c] = o]
      /\ unrecorded' = unrecorded \ {c}
      /\ repeated' = repeated \cup (entries \cap {i0})
      /\ pc' = [pc EXCEPT ![d] = "infoopen"]
      /\ UNCHANGED <<info, origReal, newname, toolVars>>
  BY DEF MoveToTrash, ProgGoTo
<1>2. p \in Paths /\ i0 \in Ids /\ c \in Content
  BY <1>1 DEF IndInv, TypeOK, LocalInv
<1>3. \A i \in Ids : files[i] # c
  BY <1>1, <1>2 DEF IndInv, FilesInv, Apart
<1>4. o \in {None, origReal[d]} /\ newname[d] = i0
  OBVIOUS
<1> HIDE DEF p, i0, c, o
<1>5. /\ files'[i0] = c /\ origin'[c] = o
      /\ \A i \in Ids : i # i0 => files'[i] = files[i]
      /\ \A i \in Ids : files[i] # None =>
           /\ origin'[files[i]] = origin[files[i]]
           /\ files[i] \in unrecorded' <=> files[i] \in unrecorded
      /\ pc'[d] = "infoopen" /\ \A e \in Programs : e # d => pc'[e] = pc[e]
  BY <1>1, <1>2, <1>3 DEF IndInv, TypeOK
<1>6. \A i \in Ids, e \in Programs :
        Writing(e, i)' <=> Writing(e, i) \/ (e = d /\ i = i0)
  BY <1>1, <1>4, <1>5 DEF Writing
<1>7. i0 \notin repeated' =>
        /\ info[i0] = None /\ \A e \in Programs : ~Writing(e, i0)
        /\ \A t \in Tools : tpc[t] \in {"restore", "infounlink", "purgeinfo"} =>
             id[t] # i0
  BY <1>1, <1>2 DEF IndInv, EntriesInv, Writing
<1>8. repeated \subseteq repeated'
  BY <1>1
<1>9. WriteInv'
  <2> SUFFICES ASSUME NEW i \in Ids \ repeated', NEW e \in Programs,
                      Writing(e, i)'
               PROVE  /\ \A f \in Programs : Writing(f, i)' => f = e
                      /\ files'[i] # None =>
                           /\ origin'[files'[i]] \in {None, origReal'[e]}
                           /\ pc'[e] = "infowrite" =>
                                info'[i] # None \/ files'[i] \in unrecorded'
    BY DEF WriteInv
  <2>1. CASE i = i0
    BY <1>1, <1>4, <1>5, <1>6, <1>7, <2>1
  <2>2. CASE i # i0
    <3>1. Writing(e, i) /\ \A f \in Programs : Writing(f, i)' => Writing(f, i)
      BY <1>6, <2>2
    <3>2. e = d => FALSE
      BY <1>1, <3>1 DEF Writing
    <3>3. pc'[e] = pc[e] /\ files'[i] = files[i]
      BY <1>5, <2>2, <3>2
    <3> QED BY <1>1, <1>5, <1>8, <3>1, <3>3 DEF InfoInv, WriteInv
  <2> QED BY <2>1, <2>2
<1>10. ReadInv'
  <2> SUFFICES ASSUME NEW i \in Ids \ repeated'
               PROVE  /\ files'[i] # None /\ info'[i] \in Paths =>
                           origin'[files'[i]] \in {None, info'[i]}
                      /\ \A t \in Tools : id'[t] = i /\ files'[i] # None =>
                           /\ tpc'[t] # "infounlink"
                           /\ tpc'[t] = "purgeinfo" => files'[i] \in unrecorded'
                           /\ tpc'[t] = "restore" =>
                                origin'[files'[i]] \in {None, original'[t]}
    BY DEF ReadInv
  <2>1. CASE i = i0
    BY <1>1, <1>7, <2>1, TrashAssumption DEF toolVars
  <2>2. CASE i # i0
    <3>1. files'[i] = files[i] /\ i \in Ids \ repeated
      BY <1>5, <1>8, <2>2
    <3> QED BY <1>1, <1>5, <3>1 DEF InfoInv, ReadInv, toolVars
  <2> QED BY <2>1, <2>2
<1>11. FileHasInfo'
  <2>1. \A i \in Ids \ repeated : files[i] # None => Recorded(i)
    BY DEF InfoInv, FileHasInfo, Recorded, Writing
  <2>2. ASSUME NEW i \in Ids \ repeated', files'[i] # None
        PROVE  Recorded(i)'
    <3>1. CASE i = i0
      BY <1>6, <3>1 DEF Recorded
    <3>2. CASE i # i0
      <4>1. files'[i] = files[i] /\ i \in Ids \ repeated
        BY <1>5, <1>8, <3>2
      <4> QED BY <1>1, <1>5, <1>6, <2>1, <2>2, <4>1 DEF Recorded
    <3> QED BY <3>1, <3>2
  <2> QED BY <2>2 DEF FileHasInfo, Recorded, Writing
<1> QED BY <1>9, <1>10, <1>11 DEF InfoInv

\* The metadata file is created, empty.
LEMMA InfoOpenInfo ==
  ASSUME IndInv, InfoInv, NEW d \in Programs, InfoOpen(d)
  PROVE  InfoInv'
<1>1. /\ pc[d] = "infoopen"
      /\ info' = [info EXCEPT ![newname[d]] = Empty]
      /\ pc' = [pc EXCEPT ![d] = "infowrite"]
      /\ UNCHANGED <<files, origReal, newname, toolVars, origin, unrecorded,
                     repeated>>
  BY DEF InfoOpen, ProgGoTo, history, names
<1>2. PICK i0 \in Ids : newname[d] = i0
  BY <1>1 DEF IndInv, LocalInv
<1>3. /\ info'[i0] = Empty /\ Empty \notin Paths \cup {None}
      /\ \A i \in Ids : i # i0 => info'[i] = info[i]
      /\ pc'[d] = "infowrite" /\ \A e \in Programs : e # d => pc'[e] = pc[e]
  BY <1>1, <1>2, TrashAssumption DEF IndInv, TypeOK
<1>4. \A e \in Programs, i \in Ids : Writing(e, i)' <=> Writing(e, i)
  BY <1>1, <1>3 DEF Writing
<1>5. Writing(d, i0)
  BY <1>1, <1>2 DEF Writing
<1>6. ASSUME NEW e \in Programs, NEW i \in Ids, Writing(e, i),
             pc'[e] = "infowrite"
      PROVE  info'[i] # None \/ (pc[e] = "infowrite" /\ info'[i] = info[i])
  <2>1. CASE i = i0
    BY <1>3, <2>1
  <2>2. CASE i # i0
    BY <1>2, <1>3, <1>6, <2>2 DEF Writing
  <2> QED BY <2>1, <2>2
<1>7. WriteInv'
  BY <1>1, <1>4, <1>6 DEF InfoInv, WriteInv
<1>8. ReadInv'
  BY <1>1, <1>3 DEF InfoInv, ReadInv, toolVars
<1>9. FileHasInfo'
  <2>1. \A i \in Ids \ repeated : files[i] # None => Recorded(i)
    BY DEF InfoInv, FileHasInfo, Recorded, Writing
  <2>2. \A i \in Ids \ repeated' : files'[i] # None => Recorded(i)'
    BY <1>1, <1>3, <1>4, <1>5, <2>1 DEF Recorded
  <2> QED BY <2>2 DEF FileHasInfo, Recorded, Writing
<1> QED BY <1>7, <1>8, <1>9 DEF InfoInv

\* The metadata is written: it is the path of the entry's file, if that has not
\* left the trash.
LEMMA InfoWriteInfo ==
  ASSUME IndInv, InfoInv, NEW d \in Programs, InfoWrite(d)
  PROVE  InfoInv'
<1>1. /\ pc[d] = "infowrite"
      /\ info' = [info EXCEPT ![newname[d]] = IF @ = None THEN None
                                              ELSE origReal[d]]
      /\ UNCHANGED <<files, toolVars, origin, unrecorded, repeated>>
  BY DEF InfoWrite, history, names
<1>2. PICK i0 \in Ids : newname[d] = i0
  BY <1>1 DEF IndInv, LocalInv
<1>3. /\ info'[i0] = IF info[i0] = None THEN None ELSE origReal[d]
      /\ \A i \in Ids : i # i0 => info'[i] = info[i]
      /\ origReal[d] \in Paths
      /\ pc'[d] = "run"
      /\ \A e \in Programs \ {d} : /\ pc'[e] = pc[e] /\ newname'[e] = newname[e]
                                    /\ origReal'[e] = origReal[e]
  BY <1>1, <1>2 DEF IndInv, TypeOK, LocalInv, InfoWrite, ProgReturn, ProgGoTo
<1>4. \A e \in Programs, i \in Ids : Writing(e, i)' <=> e # d /\ Writing(e, i)
  BY <1>3 DEF Writing
<1>5. Writing(d, i0)
  BY <1>1, <1>2 DEF Writing
<1>6. i0 \notin repeated =>
        /\ \A e \in Programs : ~Writing(e, i0)'
        /\ files[i0] # None => /\ info[i0] # None \/ files[i0] \in unrecorded
                               /\ origin[files[i0]] \in {None, origReal[d]}
  BY <1>1, <1>4, <1>5 DEF InfoInv, WriteInv
<1>7. WriteInv'
  <2> SUFFICES ASSUME NEW i \in Ids \ repeated', NEW e \in Programs,
                      Writing(e, i)'
               PROVE  /\ \A f \in Programs : Writing(f, i)' => f = e
                      /\ files'[i] # None =>
                           /\ origin'[files'[i]] \in {None, origReal'[e]}
                           /\ pc'[e] = "infowrite" =>
                                info'[i] # None \/ files'[i] \in unrecorded'
    BY DEF WriteInv
  <2>1. i # i0 /\ e # d /\ Writing(e, i) /\ i \in Ids \ repeated
    BY <1>1, <1>4, <1>6
  <2> QED BY <1>1, <1>3, <1>4, <2>1 DEF InfoInv, WriteInv
<1>8. ReadInv'
  <2>1. \A i \in Ids \ repeated :
          files[i] # None /\ info'[i] \in Paths =>
            origin[files[i]] \in {None, info'[i]}
    BY <1>3, <1>6, TrashAssumption DEF InfoInv, ReadInv
  <2> QED BY <1>1, <2>1 DEF InfoInv, ReadInv, toolVars
<1>9. FileHasInfo'
  <2>1. \A i \in Ids \ repeated : files[i] # None => Recorded(i)
    BY DEF InfoInv, FileHasInfo, Recorded, Writing
  <2>2. ASSUME NEW i \in Ids \ repeated', files'[i] # None
        PROVE  Recorded(i)'
    <3>1. CASE i = i0
      BY <1>1, <1>3, <1>6, <2>2, <3>1 DEF Recorded
    <3>2. CASE i # i0
      <4>1. ~Writing(d, i)
        BY <1>2, <3>2 DEF Writing
      <4> QED BY <1>1, <1>3, <1>4, <2>1, <2>2, <3>2, <4>1 DEF Recorded
    <3> QED BY <3>1, <3>2
  <2> QED BY <2>2 DEF FileHasInfo, Recorded, Writing
<1> QED BY <1>7, <1>8, <1>9 DEF InfoInv

\* The steps of a program, the end of it included
LEMMA ProgramInfo ==
  ASSUME IndInv, InfoInv, NEW d \in Programs, ProgramStep(d)
  PROVE  InfoInv'
<1>1. CASE RenameFails(d)
  <2>1. /\ ProgReturn(d)
        /\ UNCHANGED <<files, info, toolVars, origin, unrecorded, repeated>>
        /\ Unwritten(d) = {}
    BY <1>1 DEF RenameFails, Unwritten, names
  <2> QED BY <2>1, ReturnInfo DEF toolVars
<1>2. CASE InfoFails(d) \/ Exec(d)
  <2>1. /\ ProgReturn(d)
        /\ UNCHANGED <<files, info, toolVars, origin, repeated>>
        /\ unrecorded' = unrecorded \cup Unwritten(d)
    BY <1>2 DEF InfoFails, Exec, fsVars, names
  <2> QED BY <2>1, ReturnInfo DEF toolVars
<1> QED BY <1>1, <1>2, UnlinkInfo, MoveToTrashInfo, InfoOpenInfo,
           InfoWriteInfo DEF ProgramStep, UnlinkStep

-----------------------------------------------------------------------------
(***************************************************************************)
(* Metadata: the commands of trashctl.                                      *)
(***************************************************************************)

\* A step of a tool: files leave the trash, metadata where there is no file or
\* one that could not be removed; what the tool has read is right.
LEMMA ToolInfo ==
  ASSUME IndInv, InfoInv, NEW t \in Tools,
         UNCHANGED <<progVars, origin, repeated>>,
         unrecorded \subseteq unrecorded',
         \A i \in Ids : files'[i] \in {files[i], None},
         \A i \in Ids : \/ info'[i] = info[i]
                        \/ info'[i] = None /\ (\/ files'[i] = None
                                               \/ files'[i] \in unrecorded'
                                               \/ i \in repeated),
         \A u \in Tools \ {t} : /\ tpc'[u] = tpc[u] /\ id'[u] = id[u]
                                /\ original'[u] = original[u],
         \A i \in Ids \ repeated : id'[t] = i /\ files'[i] # None =>
           /\ tpc'[t] # "infounlink"
           /\ tpc'[t] = "purgeinfo" => files'[i] \in unrecorded'
           /\ tpc'[t] = "restore" => origin[files'[i]] \in {None, original'[t]}
  PROVE  InfoInv'
<1>1. \A d \in Programs, i \in Ids : Writing(d, i)' <=> Writing(d, i)
  BY DEF Writing, progVars
<1>2. WriteInv'
  <2> SUFFICES ASSUME NEW i \in Ids \ repeated', NEW e \in Programs,
                      Writing(e, i)'
               PROVE  /\ \A f \in Programs : Writing(f, i)' => f = e
                      /\ files'[i] # None =>
                           /\ origin'[files'[i]] \in {None, origReal'[e]}
                           /\ pc'[e] = "infowrite" =>
                                info'[i] # None \/ files'[i] \in unrecorded'
    BY DEF WriteInv
  <2>1. Writing(e, i) /\ i \in Ids \ repeated
    BY <1>1
  <2>2. files'[i] # None => files'[i] = files[i]
    OBVIOUS
  <2> QED BY <1>1, <2>1, <2>2 DEF InfoInv, WriteInv, progVars
<1>3. ReadInv'
  <2>1. \A i \in Ids \ repeated : files'[i] # None /\ info'[i] \in Paths =>
          origin[files'[i]] \in {None, info'[i]}
    BY TrashAssumption DEF InfoInv, ReadInv
  <2>2. \A i \in Ids \ repeated : \A u \in Tools :
          id'[u] = i /\ files'[i] # None =>
            /\ tpc'[u] # "infounlink"
            /\ tpc'[u] = "purgeinfo" => files'[i] \in unrecorded'
            /\ tpc'[u] = "restore" => origin[files'[i]] \in {None, original'[u]}
    <3> SUFFICES ASSUME NEW i \in Ids \ repeated, NEW u \in Tools, id'[u] = i,
                        files'[i] # None
                 PROVE  /\ tpc'[u] # "infounlink"
                        /\ tpc'[u] = "purgeinfo" => files'[i] \in unrecorded'
                        /\ tpc'[u] = "restore" =>
                             origin[files'[i]] \in {None, original'[u]}
      OBVIOUS
    <3>1. CASE u = t
      BY <3>1
    <3>2. CASE u # t
      <4>1. files'[i] = files[i] /\ id[u] = i
        BY <3>2
      <4> QED BY <3>2, <4>1 DEF InfoInv, ReadInv
    <3> QED BY <3>1, <3>2
  <2> QED BY <2>1, <2>2 DEF ReadInv
<1>4. FileHasInfo'
  <2>1. \A i \in Ids \ repeated : files[i] # None => Recorded(i)
    BY DEF InfoInv, FileHasInfo, Recorded, Writing
  <2>2. \A i \in Ids \ repeated' : files'[i] # None => Recorded(i)'
    BY <1>1, <2>1 DEF Recorded
  <2> QED BY <2>2 DEF FileHasInfo, Recorded, Writing
<1> QED BY <1>2, <1>3, <1>4 DEF InfoInv

\* restore reads where the file was deleted from.
LEMMA RestoreReadInfo ==
  ASSUME IndInv, InfoInv, NEW t \in Tools, NEW i \in Ids, RestoreRead(t, i)
  PROVE  InfoInv'
<1>1. /\ info[i] \in Paths
      /\ UNCHANGED <<files, info, progVars, origin, unrecorded, repeated>>
  BY DEF RestoreRead, fsVars, history, names
<1>2. /\ tpc'[t] = "restore" /\ id'[t] = i /\ original'[t] = info[i]
      /\ \A u \in Tools \ {t} : /\ tpc'[u] = tpc[u] /\ id'[u] = id[u]
                                 /\ original'[u] = original[u]
  BY DEF RestoreRead, ToolGoTo, IndInv, TypeOK
<1>3. i \notin repeated /\ files[i] # None =>
        origin[files[i]] \in {None, info[i]}
  BY <1>1 DEF InfoInv, ReadInv
<1> QED BY <1>1, <1>2, <1>3, ToolInfo

\* A command that begins, is over or goes on to another entry, or a tool that is
\* killed, holds no entry.
LEMMA NoEntryInfo ==
  ASSUME IndInv, InfoInv, NEW t \in Tools, tpc'[t] \in {"idle", "purge"},
         \A u \in Tools \ {t} : /\ tpc'[u] = tpc[u] /\ id'[u] = id[u]
                                /\ original'[u] = original[u],
         UNCHANGED <<files, info, progVars, origin, unrecorded, repeated>>
  PROVE  InfoInv'
<1> QED BY ToolInfo

\* The file of an entry that a tool is about to remove the metadata of
LEMMA RemoveInfoInfo ==
  ASSUME IndInv, InfoInv, NEW t \in Tools,
         tpc[t] \in {"infounlink", "purgeinfo"},
         RemoveInfo(id[t]), tpc'[t] \in {"idle", "purge"},
         \A u \in Tools \ {t} : /\ tpc'[u] = tpc[u] /\ id'[u] = id[u]
                                /\ original'[u] = original[u],
         UNCHANGED <<files, progVars, origin, unrecorded, repeated>>
  PROVE  InfoInv'
<1>1. PICK i0 \in Ids : id[t] = i0
  BY DEF IndInv, LocalInv
<1>2. i0 \in repeated \/ files[i0] = None \/ files[i0] \in unrecorded
  BY <1>1 DEF InfoInv, ReadInv
<1>3. \A i \in Ids : info'[i] = info[i] \/ (i = i0 /\ info'[i] = None)
  BY <1>1 DEF RemoveInfo, IndInv, TypeOK
<1> QED BY <1>2, <1>3, ToolInfo

\* purge collects entries of the trash.
LEMMA PurgeStartInfo ==
  ASSUME IndInv, InfoInv, NEW t \in Tools, NEW S, PurgeStart(t, S)
  PROVE  InfoInv'
<1>1. /\ UNCHANGED <<files, info, progVars, id, original, origin, unrecorded,
                     repeated>>
      /\ tpc'[t] = "purge" /\ \A u \in Tools \ {t} : tpc'[u] = tpc[u]
  BY DEF PurgeStart, ToolGoTo, fsVars, history, names, IndInv, TypeOK
<1> QED BY <1>1, NoEntryInfo

\* The end of a command
LEMMA ToolEndInfo ==
  ASSUME IndInv, InfoInv, NEW t \in Tools, ToolReturn(t),
         UNCHANGED <<files, info, progVars, origin, unrecorded, repeated>>
  PROVE  InfoInv'
<1>1. /\ tpc'[t] = "idle"
      /\ \A u \in Tools \ {t} : /\ tpc'[u] = tpc[u] /\ id'[u] = id[u]
                                 /\ original'[u] = original[u]
  BY DEF ToolReturn, ToolGoTo, IndInv, TypeOK
<1> QED BY <1>1, NoEntryInfo

\* restore moves the file away and goes on to the metadata, or gives up.
LEMMA RestoreRenameInfo ==
  ASSUME IndInv, InfoInv, NEW t \in Tools, RestoreRename(t)
  PROVE  InfoInv'
<1>1. UNCHANGED <<info, progVars, origin, unrecorded, repeated>>
  BY DEF RestoreRename, names
<1>2. CASE ToolReturn(t) /\ UNCHANGED files
  BY <1>1, <1>2, ToolEndInfo
<1>3. CASE ~(ToolReturn(t) /\ UNCHANGED files)
  <2>1. /\ tpc[t] = "restore"
        /\ files' = [files EXCEPT ![id[t]] = None]
        /\ tpc' = [tpc EXCEPT ![t] = "infounlink"]
        /\ UNCHANGED <<id, original>>
    BY <1>3 DEF RestoreRename, ToolGoTo
  <2>2. id[t] \in Ids
    BY <2>1 DEF IndInv, LocalInv
  <2>3. /\ files'[id[t]] = None
        /\ \A i \in Ids : files'[i] \in {files[i], None}
        /\ \A u \in Tools \ {t} : tpc'[u] = tpc[u]
    BY <2>1, <2>2 DEF IndInv, TypeOK
  <2> QED BY <1>1, <2>1, <2>3, ToolInfo
<1> QED BY <1>2, <1>3

\* restore tries to remove the metadata of the file that it has moved away.
LEMMA RestoreInfoInfo ==
  ASSUME IndInv, InfoInv, NEW t \in Tools, RestoreInfo(t)
  PROVE  InfoInv'
<1>1. /\ tpc[t] = "infounlink" /\ RemoveInfo(id[t]) /\ tpc'[t] = "idle"
      /\ \A u \in Tools \ {t} : /\ tpc'[u] = tpc[u] /\ id'[u] = id[u]
                                 /\ original'[u] = original[u]
      /\ UNCHANGED <<files, progVars, origin, unrecorded, repeated>>
  BY DEF RestoreInfo, ToolReturn, ToolGoTo, history, names, IndInv, TypeOK
<1> QED BY <1>1, RemoveInfoInfo

\* purge removes the file of an entry, or remembers it in unrecorded.
LEMMA PurgeFileInfo ==
  ASSUME IndInv, InfoInv, NEW t \in Tools, PurgeFile(t)
  PROVE  InfoInv'
<1>1. PICK i \in todo[t] :
        /\ id' = [id EXCEPT ![t] = i]
        /\ \/ /\ files' = [files EXCEPT ![i] = None]
              /\ UNCHANGED unrecorded
           \/ /\ unrecorded' = unrecorded \cup ({files[i]} \ {None})
              /\ UNCHANGED files
  BY DEF PurgeFile
<1>2. /\ tpc' = [tpc EXCEPT ![t] = "purgeinfo"]
      /\ UNCHANGED <<info, progVars, original, origin, repeated>>
  BY DEF PurgeFile, ToolGoTo, names
<1>3. i \in Ids
  BY DEF IndInv, TypeOK
<1>4. /\ files'[i] = None \/ files'[i] \in unrecorded'
      /\ \A j \in Ids : files'[j] \in {files[j], None}
      /\ unrecorded \subseteq unrecorded'
  BY <1>1, <1>3 DEF IndInv, TypeOK
<1>5. /\ tpc'[t] = "purgeinfo" /\ id'[t] = i
      /\ \A u \in Tools \ {t} : tpc'[u] = tpc[u] /\ id'[u] = id[u]
  BY <1>1, <1>2 DEF IndInv, TypeOK
<1> QED BY <1>2, <1>4, <1>5, ToolInfo

\* purge tries to remove the metadata.
LEMMA PurgeInfoInfo ==
  ASSUME IndInv, InfoInv, NEW t \in Tools, PurgeInfo(t)
  PROVE  InfoInv'
<1>1. /\ tpc[t] = "purgeinfo" /\ RemoveInfo(id[t]) /\ tpc'[t] = "purge"
      /\ \A u \in Tools \ {t} : /\ tpc'[u] = tpc[u] /\ id'[u] = id[u]
                                 /\ original'[u] = original[u]
      /\ UNCHANGED <<files, progVars, origin, unrecorded, repeated>>
  BY DEF PurgeInfo, ToolGoTo, history, names, IndInv, TypeOK
<1> QED BY <1>1, RemoveInfoInfo

-----------------------------------------------------------------------------
(***************************************************************************)
(* Metadata: the theorems.                                                  *)
(***************************************************************************)

\* No step makes metadata wrong or leaves a file without.
LEMMA NextInfo == IndInv /\ InfoInv /\ [Next]_vars => InfoInv'
<1> SUFFICES ASSUME IndInv, InfoInv, [Next]_vars PROVE InfoInv'
  OBVIOUS
<1>1. CASE UNCHANGED vars
  BY <1>1 DEF InfoInv, WriteInv, ReadInv, FileHasInfo, Writing, vars, fsVars,
              progVars, toolVars, history, names
<1>2. ASSUME NEW d \in Programs, ProgramStep(d)
      PROVE  InfoInv'
  BY <1>2, ProgramInfo
<1>3. ASSUME NEW t \in Tools, ToolStep(t)
      PROVE  InfoInv'
  <2>1. CASE Command(t)
    BY <2>1, RestoreReadInfo, PurgeStartInfo DEF Command, IndInv, TypeOK
  <2>2. CASE ToolEnd(t)
    BY <2>2, ToolEndInfo DEF ToolEnd, fsVars, history, names
  <2> QED BY <1>3, <2>1, <2>2, RestoreRenameInfo, RestoreInfoInfo,
             PurgeFileInfo, PurgeInfoInfo DEF ToolStep
<1> QED BY <1>1, <1>2, <1>3, WorldInfo DEF Next

\* Both invariants hold.
LEMMA SpecInfo == Spec => [](IndInv /\ InfoInv)
<1>1. IndInv /\ InfoInv /\ [Next]_vars => (IndInv /\ InfoInv)'
  BY NextInv, NextInfo
<1> QED BY <1>1, InitInv, InitInfo, PTL DEF Spec

\* A file in the trash whose ID was given to no other has metadata, or is one
\* whose metadata could not be written or was removed although the file could
\* not be, whatever any number of programs and of trashctl processes delete,
\* restore and purge meanwhile and wherever they are killed (trash_unlink.c
\* 53-94, 122-133, purge.c 47-67).
THEOREM InfoCorrect == Spec => []FileHasInfo
<1>1. IndInv /\ InfoInv => FileHasInfo
  BY DEF InfoInv
<1> QED BY <1>1, SpecInfo, PTL

\* The path that restore has read is the one that the file it moves was
\* deleted from.
LEMMA RestoreGoesBack ==
  ASSUME IndInv, InfoInv, Next, NEW t \in Tools, tpc[t] = "restore",
         tpc'[t] = "infounlink"
  PROVE  id[t] \in repeated \/ origin[files[id[t]]] \in {None, original[t]}
<1>1. files[id[t]] # None
  <2>1. PICK u \in Tools : ToolStep(u)
    BY DEF Next, Tick, Create, ProgramStep, Unlink, UnlinkStep, MoveToTrash,
           RenameFails, InfoOpen, InfoWrite, InfoFails, Exec, toolVars
  <2> QED BY <2>1
          DEF ToolStep, Command, RestoreRead, PurgeStart, RestoreRename,
              RestoreInfo, PurgeFile, PurgeInfo, ToolEnd, ToolReturn,
              ToolGoTo, IndInv, TypeOK
<1>2. id[t] \in Ids
  BY DEF IndInv, LocalInv
<1> QED BY <1>1, <1>2 DEF InfoInv, ReadInv

\* restore moves a file back to the path where it was deleted, unless its ID was
\* given to another one as well or realpath met a link there, although the entry
\* and the metadata are read and moved in separate steps (restore.c 15-43).
THEOREM RestoreCorrect == Spec => RestoresToOrigin
<1>1. IndInv /\ InfoInv /\ [Next]_vars
        => [\A t \in Tools :
              tpc[t] = "restore" /\ tpc'[t] = "infounlink" =>
                \/ id[t] \in repeated
                \/ origin[files[id[t]]] \in {None, original[t]}]_vars
  BY RestoreGoesBack
<1> QED BY <1>1, SpecInfo, PTL DEF Spec, RestoresToOrigin

-----------------------------------------------------------------------------
(***************************************************************************)
(* The browser: its lists.                                                  *)
(***************************************************************************)

\* The files of the directory
Here == {p \in Paths : fs[p] # None}

\* There are as many IDs as seconds and numbers in them.
LEMMA FiniteIds == IsFiniteSet(Ids)
<1>1. MaxTime \in Int /\ Modulus - 1 \in Int
  BY TrashAssumption
<1>2. IsFiniteSet(0..MaxTime) /\ IsFiniteSet(0..(Modulus - 1))
  BY <1>1, FS_Interval
<1> QED BY <1>2, FS_Product DEF Ids

\* What is in the trash, and in the directory, can be counted.
LEMMA FiniteLists == IsFiniteSet(Trashed) /\ IsFiniteSet(Here)
<1>1. Trashed \subseteq Ids /\ Here \subseteq Paths
  BY DEF Trashed, Here
<1> QED BY <1>1, FiniteIds, BrowserAssumption, FS_Subset

\* The comparison of qsort orders the entries of the trash: by their names,
\* and those that have the same by their IDs.
LEMMA TrashOrder ==
  Orders({e \in Trashed \X Trashed : CmpEntry(e[1], e[2])}, Trashed)
<1> DEFINE R == {e \in Trashed \X Trashed : CmpEntry(e[1], e[2])}
           second(i, j) == i[1] < j[1] \/ (i[1] = j[1] /\ i[2] < j[2])
<1>1. \A i, j \in Trashed : <<i, j>> \in R <=> CmpEntry(i, j)
  OBVIOUS
<1>2. \A i \in Trashed : i[1] \in Nat /\ i[2] \in Nat /\ i = <<i[1], i[2]>>
  BY DEF Trashed, Ids
<1>3. \A i, j \in Trashed :
        /\ CmpName(i, j) => ~CmpName(j, i)
        /\ CmpName(i, j) => \A k \in Trashed : CmpName(i, k) \/ CmpName(k, j)
  <2>1. \A m, n \in Paths :
          /\ <<m, m>> \notin NameOrder
          /\ m # n => <<m, n>> \in NameOrder \/ <<n, m>> \in NameOrder
          /\ \A l \in Paths : <<m, n>> \in NameOrder /\ <<n, l>> \in NameOrder
                                 => <<m, l>> \in NameOrder
    BY BrowserAssumption DEF Orders
  <2> QED BY <2>1 DEF CmpName
<1>4. \A i, j \in Trashed :
        /\ ~second(i, i)
        /\ i # j => second(i, j) \/ second(j, i)
        /\ \A k \in Trashed : second(i, j) /\ second(j, k) => second(i, k)
  BY <1>2
<1>5. \A i, j \in Trashed :
        CmpEntry(i, j) <=> CmpName(i, j) \/ (~CmpName(j, i) /\ second(i, j))
  BY DEF CmpEntry
<1> HIDE DEF R, second
<1>6. \A i, j, k \in Trashed :
        CmpEntry(i, j) /\ CmpEntry(j, k) => CmpEntry(i, k)
  BY <1>3, <1>4, <1>5
<1>7. Orders(R, Trashed)
  BY <1>1, <1>3, <1>4, <1>5, <1>6 DEF Orders
<1> QED BY <1>7 DEF R

\* The names of a directory are ordered, whichever of them are there.
LEMMA HereOrder == Orders(NameOrder, Here)
<1> QED BY BrowserAssumption DEF Orders, Here

\* How long a list is, and what its lines are.
ListInv ==
  /\ mode = "trash" =>
       /\ Items \in Seq(Trashed) /\ Len(Items) = Cardinality(Trashed)
       /\ Trashed \subseteq ToSet(Items)
  /\ mode = "fs" =>
       /\ Items \in Seq({<<n>> : n \in Paths \cup {".", "..", ".trash", "dir"}})
       /\ Len(Items) = IF cwd = "up" THEN 3 ELSE 3 + Cardinality(Here)

\* The list of the trash has a line for each entry.
LEMMA TrashList ==
  /\ BuildTrashEntries \in Seq(Trashed)
  /\ Len(BuildTrashEntries) = Cardinality(Trashed)
  /\ Trashed \subseteq ToSet(BuildTrashEntries)
<1> DEFINE R == {e \in Trashed \X Trashed : CmpEntry(e[1], e[2])}
<1>1. IsFiniteSet(Trashed) /\ Orders(R, Trashed)
  BY FiniteLists, TrashOrder
<1>2. BuildTrashEntries = Arranged(R, Trashed)
  BY DEF BuildTrashEntries
<1> HIDE DEF R
<1>3. /\ Arranged(R, Trashed) \in Seq(Trashed)
      /\ Len(Arranged(R, Trashed)) = Cardinality(Trashed)
  BY <1>1, ArrangedSeq
<1>4. \A i \in Trashed : i \in ToSet(Arranged(R, Trashed))
  BY <1>1, ArrangedOnto DEF ToSet
<1> QED BY <1>2, <1>3, <1>4

\* That of a directory has one for each name, and three more.
LEMMA NameList ==
  /\ ReadCwd \in Seq({<<n>> : n \in Paths \cup {".", "..", ".trash", "dir"}})
  /\ Len(ReadCwd) = IF cwd = "up" THEN 3 ELSE 3 + Cardinality(Here)
<1> DEFINE N == Paths \cup {".", "..", ".trash", "dir"}
           sorted == Arranged(NameOrder, Here)
           up == <<".", "..", "dir">>
           dirents == IF cwd = "up" THEN up ELSE <<".", "..", ".trash">> \o sorted
<1>1. sorted \in Seq(Here) /\ Len(sorted) = Cardinality(Here)
  BY FiniteLists, HereOrder, ArrangedSeq
<1>2. Cardinality(Here) \in Nat
  BY FiniteLists, FS_CardinalityType
<1>3. ReadCwd = [k \in DOMAIN dirents |-> <<dirents[k]>>]
  BY DEF ReadCwd, Here
<1> HIDE DEF sorted
<1>4. sorted \in Seq(N)
  BY <1>1 DEF Here
<1>5. "." \in N /\ ".." \in N /\ ".trash" \in N /\ "dir" \in N
  OBVIOUS
<1> HIDE DEF N
<1>6. /\ <<".", "..", ".trash">> \in Seq(N) /\ Len(<<".", "..", ".trash">>) = 3
      /\ up \in Seq(N) /\ Len(up) = 3
  BY <1>5
<1>7. /\ dirents \in Seq(N)
      /\ Len(dirents) = IF cwd = "up" THEN 3 ELSE 3 + Cardinality(Here)
  <2>1. /\ <<".", "..", ".trash">> \o sorted \in Seq(N)
        /\ Len(<<".", "..", ".trash">> \o sorted) = 3 + Cardinality(Here)
    BY <1>1, <1>2, <1>4, <1>6, ConcatProperties
  <2> QED BY <1>6, <2>1
<1> HIDE DEF dirents, up
<1>8. DOMAIN dirents = 1..Len(dirents) /\ Len(dirents) \in Nat
  <2>1. dirents \in Seq(N)
    BY <1>7
  <2> QED BY <2>1, LenProperties
<1>9. \A k \in DOMAIN dirents : <<dirents[k]>> \in {<<n>> : n \in N}
  <2>1. dirents \in Seq(N)
    BY <1>7
  <2> QED BY <2>1, <1>8, ElementOfSeq
<1>10. ReadCwd \in [1..Len(dirents) -> {<<n>> : n \in N}]
  BY <1>3, <1>8, <1>9
<1>11. ReadCwd \in Seq({<<n>> : n \in N}) /\ Len(ReadCwd) = Len(dirents)
  BY <1>8, <1>10, SeqDef, LenProperties
<1> QED BY <1>7, <1>11 DEF N

\* So is the list that is shown.
LEMMA Lists == ListInv
<1> QED BY TrashList, NameList DEF ListInv, Items

\* A list has a length, and its lines are entries.
LEMMA ItemsType ==
  mode \in {"fs", "trash"} => Items \in Seq(Entries) /\ Len(Items) \in Nat
<1>1. Trashed \subseteq Entries
      /\ {<<n>> : n \in Paths \cup {".", "..", ".trash", "dir"}} \subseteq Entries
  BY DEF Entries, Trashed
<1>2. mode \in {"fs", "trash"} => Items \in Seq(Entries)
  BY <1>1, Lists DEF ListInv
<1> QED BY <1>2

\* The list is made of what the directories hold.
LEMMA SameItems ==
  ASSUME UNCHANGED <<fsVars, mode, cwd>>
  PROVE  Items' = Items
<1> QED BY DEF Items, ReadCwd, BuildTrashEntries, Trashed, CmpEntry, CmpName,
               fsVars

\* A set without one element has at most one element less.
LEMMA OneLess ==
  ASSUME NEW S, IsFiniteSet(S), NEW T \in SUBSET S, NEW x, S \ {x} \subseteq T
  PROVE  /\ Cardinality(S) \in Nat /\ Cardinality(T) \in Nat
         /\ Cardinality(T) >= Cardinality(S) - 1
<1>1. IsFiniteSet(T) /\ IsFiniteSet(S \ {x})
  BY FS_Subset
<1>2. /\ Cardinality(S) \in Nat /\ Cardinality(T) \in Nat
      /\ Cardinality(S \ {x}) \in Nat
  BY <1>1, FS_CardinalityType
<1>3. Cardinality(S \ {x}) <= Cardinality(T)
  BY <1>1, FS_Subset
<1>4. Cardinality(S \ {x}) >= Cardinality(S) - 1
  <2>1. CASE x \in S
    BY <1>2, <2>1, FS_RemoveElement
  <2>2. CASE x \notin S
    <3>1. S \ {x} = S
      BY <2>2
    <3> QED BY <1>2, <3>1
  <2> QED BY <2>1, <2>2
<1> QED BY <1>2, <1>3, <1>4

\* A file that is deleted takes one line with it.
LEMMA NamesShrink ==
  ASSUME mode = "fs", UNCHANGED <<mode, cwd>>,
         NEW p, fs' = fs \/ fs' = [fs EXCEPT ![p] = None], fs \in [Paths -> Content \cup {None}]
  PROVE  Len(Items') >= Len(Items) - 1
<1>1. Len(Items) = IF cwd = "up" THEN 3 ELSE 3 + Cardinality(Here)
  BY Lists DEF ListInv
<1>2. ListInv'
  BY Lists, PTL
<1>3. Len(Items') = IF cwd' = "up" THEN 3 ELSE 3 + Cardinality(Here')
  BY <1>2 DEF ListInv
<1>4. Here \ {p} \subseteq Here' /\ Here' \subseteq Here
  BY DEF Here
<1>5. /\ Cardinality(Here) \in Nat /\ Cardinality(Here') \in Nat
      /\ Cardinality(Here') >= Cardinality(Here) - 1
  <2> DEFINE S == Here
             T == Here'
  <2>1. IsFiniteSet(S) /\ T \subseteq S /\ S \ {p} \subseteq T
    BY <1>4, FiniteLists
  <2> HIDE DEF S, T
  <2> QED BY <2>1, OneLess DEF S, T
<1> QED BY <1>1, <1>3, <1>5

\* So does an entry that is taken out of the trash.
LEMMA TrashShrinks ==
  ASSUME mode = "trash", UNCHANGED mode,
         NEW i, files' = files \/ files' = [files EXCEPT ![i] = None],
         files \in [Ids -> Content \cup {None}]
  PROVE  Len(Items') >= Len(Items) - 1
<1>1. Len(Items) = Cardinality(Trashed)
  BY Lists DEF ListInv
<1>2. ListInv'
  BY Lists, PTL
<1>3. Len(Items') = Cardinality(Trashed')
  BY <1>2 DEF ListInv
<1>4. Trashed \ {i} \subseteq Trashed' /\ Trashed' \subseteq Trashed
  BY DEF Trashed
<1>5. /\ Cardinality(Trashed) \in Nat /\ Cardinality(Trashed') \in Nat
      /\ Cardinality(Trashed') >= Cardinality(Trashed) - 1
  <2> DEFINE S == Trashed
             T == Trashed'
  <2>1. IsFiniteSet(S) /\ T \subseteq S /\ S \ {i} \subseteq T
    BY <1>4, FiniteLists
  <2> HIDE DEF S, T
  <2> QED BY <2>1, OneLess DEF S, T
<1> QED BY <1>1, <1>3, <1>5

\* The metadata only says in which order the entries are listed.
LEMMA TrashLength ==
  ASSUME mode = "trash", UNCHANGED <<mode, files>>
  PROVE  Len(Items') = Len(Items)
<1>1. Len(Items) = Cardinality(Trashed)
  BY Lists DEF ListInv
<1>2. ListInv'
  BY Lists, PTL
<1>3. Len(Items') = Cardinality(Trashed')
  BY <1>2 DEF ListInv
<1>4. Trashed' = Trashed
  BY DEF Trashed
<1> QED BY <1>1, <1>3, <1>4

-----------------------------------------------------------------------------
(***************************************************************************)
(* The browser: its invariant.                                              *)
(***************************************************************************)

\* Where the browser is in a command, and what the command works on: the tool
\* and the program that it is as well are in the same place.
CommandInv ==
  /\ bpc # "deleting" => pc[ViewerCalls] = "run"
  /\ bpc \in {"del", "deleting"} =>
       mode = "fs" /\ target = <<target[1]>>
  /\ bpc = "del" => calls[ViewerCalls] < MaxCalls
  /\ bpc = "deleting" /\ pc[ViewerCalls] = "rename" =>
       path[ViewerCalls] = target[1]
  /\ bpc \in {"restore", "restoring", "purge", "purging"} =>
       mode = "trash" /\ target \in Ids
  /\ bpc = "restoring" /\ tpc[Viewer] \in {"restore", "infounlink"} =>
       id[Viewer] = target
  /\ bpc = "purge" => ok = 0 /\ target \in entries
  /\ bpc = "purging" =>
       \/ tpc[Viewer] = "purge" /\ todo[Viewer] = {target} /\ ok = 0
       \/ tpc[Viewer] = "purgeinfo" /\ todo[Viewer] = {} /\ ok \in 0..1
       \/ tpc[Viewer] = "purge" /\ todo[Viewer] = {}
  /\ bpc = "purgingall" => mode = "trash" /\ highlight = 0

\* The cursor's line is in the window, in the list of the trash.
InWindow ==
  mode = "trash" => offset <= highlight /\ highlight < offset + VisibleItems

\* As long as nobody interfered, the list is the one on the screen, and a
\* command works on the line that the cursor was on.
ShownInv ==
  ~foreign =>
    /\ bpc = "keys" => shown = Items /\ (shown # <<>> => InWindow)
    /\ bpc \in {"del", "deleting", "restore", "restoring", "purge", "purging"} =>
         /\ highlight < Len(shown) /\ target = shown[highlight + 1]
         /\ InWindow
    /\ bpc = "purgingall" => Trashed \subseteq ToSet(shown)

\* The entry that the command takes away is still in the list.
Present ==
  \/ bpc \in {"del", "restore", "purge"}
  \/ bpc = "deleting" /\ pc[ViewerCalls] = "rename"
  \/ bpc = "restoring" /\ tpc[Viewer] = "restore"
  \/ bpc = "purging" /\ todo[Viewer] # {}

\* Nor is the cursor beyond the list then: it is on a line of it until the
\* command has taken an entry away, and after that at most one below.
CursorInv ==
  /\ CursorAtList
  /\ ~foreign /\ ~outrun /\ bpc # "gone" =>
       /\ highlight <= Len(Items)
       /\ Present => highlight < Len(Items)

BrowseInv == BrowserTypeOK /\ CommandInv /\ ShownInv /\ CursorInv

-----------------------------------------------------------------------------
(***************************************************************************)
(* The browser: what its steps do to the trash.                             *)
(***************************************************************************)

\* Del that fails uses up a random number at most.
LEMMA DelFailsInv ==
  ASSUME IndInv, CommandInv, DelFails
  PROVE  IndInv'
<1>1. UNCHANGED <<fsVars, now, pc, path, origReal, newname, toolVars, history>>
  BY DEF DelFails
<1>2. calls' \in [Programs -> 0..MaxCalls]
  <2>1. calls[ViewerCalls] + 1 \in 0..MaxCalls
    BY BrowserAssumption, TrashAssumption
       DEF DelFails, CommandInv, IndInv, TypeOK
  <2> QED BY <2>1 DEF DelFails, IndInv, TypeOK
<1>3. TypeOK' /\ LocalInv'
  BY <1>1, <1>2 DEF IndInv, TypeOK, LocalInv, fsVars, toolVars, history, names
<1>4. EntriesInv'
  BY <1>1 DEF IndInv, EntriesInv, fsVars, toolVars, history, names
<1>5. FilesInv'
  BY <1>1, SameFiles DEF IndInv, fsVars, history
<1> QED BY <1>3, <1>4, <1>5 DEF IndInv

\* Ctrl-C ends what the process was doing, the tool and the program.
LEMMA OnSigintInv ==
  ASSUME IndInv, OnSigint
  PROVE  IndInv'
<1>1. /\ ProgReturn(ViewerCalls) /\ ToolReturn(Viewer)
      /\ UNCHANGED <<fsVars, now, calls, origin, made, purged, unlinked, lost,
                     names>>
  BY DEF OnSigint
<1>2. unrecorded' \subseteq Content
  BY BrowserAssumption DEF OnSigint, Unwritten, IndInv, TypeOK, LocalInv
<1>3. TypeOK'
  BY <1>1, <1>2 DEF IndInv, TypeOK, ProgReturn, ProgGoTo, ToolReturn, ToolGoTo,
                    fsVars, names
<1>4. LocalInv' /\ EntriesInv'
  BY <1>1 DEF IndInv, TypeOK, LocalInv, EntriesInv, ProgReturn, ProgGoTo,
              ToolReturn, ToolGoTo, fsVars, names
<1>5. FilesInv'
  BY <1>1, SameFiles DEF IndInv, fsVars
<1> QED BY <1>3, <1>4, <1>5 DEF IndInv

\* What the browser, and the processes beside it, do to the trash are steps of
\* Trash, but for a Del that fails and Ctrl-C.
LEMMA BrowserSteps ==
  ASSUME IndInv, BrowseInv, BrowserNext, ~DelFails, ~OnSigint
  PROVE  [Next]_vars
<1>1. Viewer \in Tools /\ ViewerCalls \in Programs
  BY BrowserAssumption
<1>2. CASE DrawList \/ OnWinch
  BY <1>2 DEF DrawList, OnWinch
<1>3. CASE Keys
  <2>1. CASE KeyPurgeAll
    BY <1>1, <2>1 DEF KeyPurgeAll, Next, ToolStep, Command
  <2>2. CASE ~KeyPurgeAll
    BY <1>3, <2>2 DEF Keys, KeyT, KeyUp, KeyDown, KeyEnter, KeyBackspace,
                      KeyDel, KeyR, KeyD, KeyOther, KeyDropped, KeyQ, Show, Take
  <2> QED BY <2>1, <2>2
<1>4. CASE Commands
  <2>1. CASE Del \/ Deleting
    BY <1>1, <2>1 DEF Del, Deleting, Next, ProgramStep
  <2>2. CASE Restore \/ Restoring
    <3>1. Restore => target \in Ids
      BY DEF Restore, BrowseInv, CommandInv
    <3>2. RestoreRead(Viewer, target) /\ target \in Ids => target \in entries
      BY TrashAssumption DEF RestoreRead, IndInv, EntriesInv
    <3> QED BY <1>1, <2>2, <3>1, <3>2
            DEF Restore, Restoring, Next, ToolStep, Command
  <2>3. CASE Purging \/ CommandDone
    BY <1>1, <2>3 DEF Purging, CommandDone, Next, ToolStep
  <2>4. CASE Purge
    <3>1. target \in entries
      BY <2>4 DEF Purge, BrowseInv, CommandInv
    <3> QED BY <1>1, <2>4, <3>1 DEF Purge, Next, ToolStep, Command
  <2> QED BY <1>4, <2>1, <2>2, <2>3, <2>4 DEF Commands
<1>5. CASE Others
  BY <1>5 DEF Others, Next
<1> QED BY <1>2, <1>3, <1>4, <1>5 DEF BrowserNext

\* So no file is lost or doubled by the browser.
LEMMA BrowserFiles ==
  ASSUME IndInv, BrowseInv, BrowserNext
  PROVE  IndInv'
<1>1. CASE DelFails
  BY <1>1, DelFailsInv DEF BrowseInv
<1>2. CASE OnSigint
  BY <1>2, OnSigintInv
<1>3. CASE [Next]_vars
  BY <1>3, NextInv
<1> QED BY <1>1, <1>2, <1>3, BrowserSteps

-----------------------------------------------------------------------------
(***************************************************************************)
(* The browser: the loop.                                                   *)
(***************************************************************************)

\* The picture is drawn: the screen shows the list, and the cursor's line is in
\* the window.
LEMMA DrawListInv ==
  ASSUME IndInv, BrowseInv, TypeOK', DrawList
  PROVE  BrowseInv'
<1>1. /\ bpc = "draw" /\ bpc' = "keys" /\ shown' = Items
      /\ outrun' = ((foreign \/ outrun) /\ highlight > Len(Items))
      /\ foreign' = FALSE
      /\ UNCHANGED <<vars, mode, cwd, highlight, winch, target, ok>>
  BY DEF DrawList
<1>2. /\ Items \in Seq(Entries) /\ Len(Items) \in Nat
      /\ Items' = Items
  BY <1>1, ItemsType, SameItems DEF BrowseInv, BrowserTypeOK, vars
<1>3. /\ highlight \in Nat /\ offset \in Nat /\ VisibleItems \in Nat
      /\ VisibleItems >= 1
  BY BrowserAssumption DEF BrowseInv, BrowserTypeOK
<1>4. offset' \in Nat
  BY <1>3 DEF DrawList
<1>5. ToSet(shown') \subseteq Entries
  BY <1>1, <1>2 DEF ToSet
<1>6. BrowserTypeOK'
  <2>1. outrun' \in BOOLEAN /\ foreign' \in BOOLEAN
    BY <1>1
  <2> QED BY <1>1, <1>3, <1>4, <1>5, <2>1 DEF BrowseInv, BrowserTypeOK
<1>7. CommandInv'
  BY <1>1 DEF BrowseInv, CommandInv, vars, progVars
<1>8. ShownInv'
  <2>1. shown' # <<>> => InWindow'
    <3> SUFFICES ASSUME Items # <<>>, mode = "trash"
                 PROVE  offset' <= highlight /\ highlight < offset' + VisibleItems
      BY <1>1 DEF InWindow
    <3>1. mode # "fs"
      OBVIOUS
    <3>2. offset' = IF highlight < offset THEN highlight
                    ELSE IF highlight >= offset + VisibleItems
                         THEN highlight - VisibleItems + 1
                    ELSE offset
      BY <3>1 DEF DrawList
    <3> QED BY <1>3, <3>2
  <2> QED BY <1>1, <1>2, <2>1 DEF ShownInv
<1>9. CursorInv'
  <2>1. ~outrun' => highlight <= Len(Items)
    <3>1. CASE ~foreign /\ ~outrun
      <4>1. highlight <= Len(Items)
        BY <1>1, <3>1 DEF BrowseInv, CursorInv
      <4> QED BY <4>1
    <3>2. CASE foreign \/ outrun
      <4>1. ~outrun' => ~(highlight > Len(Items))
        BY <1>1, <3>2
      <4> QED BY <1>2, <1>3, <4>1
    <3> QED BY <3>1, <3>2
  <2>2. ~Present'
    BY <1>1 DEF Present
  <2> QED BY <1>1, <1>2, <2>1, <2>2 DEF CursorInv, CursorAtList
<1> QED BY <1>6, <1>7, <1>8, <1>9 DEF BrowseInv

\* A key that moves the cursor or opens a list leaves it on a line or one below
\* the last.
LEMMA ShowInv ==
  ASSUME IndInv, BrowseInv, TypeOK', Key,
         NEW m \in {"fs", "trash"}, NEW c \in {"dir", "up"},
         NEW h \in Nat, NEW o \in Nat, Show(m, c, h, o),
         h = 0 \/ (m = mode /\ c = cwd /\ (h <= highlight \/ h < Len(Items)))
  PROVE  BrowseInv'
<1>1. /\ bpc = "keys" /\ bpc' = "draw"
      /\ mode' = m /\ cwd' = c /\ highlight' = h /\ offset' = o
      /\ UNCHANGED <<vars, winch, target, ok, shown, foreign, outrun>>
  BY DEF Key, Show, picture
<1>2. BrowserTypeOK'
  BY <1>1 DEF BrowseInv, BrowserTypeOK
<1>3. CommandInv'
  BY <1>1 DEF BrowseInv, CommandInv, vars, progVars
<1>4. ShownInv'
  BY <1>1 DEF ShownInv
<1>5. CursorInv'
  <2>1. ~Present'
    BY <1>1 DEF Present
  <2>2. ~foreign /\ ~outrun => h <= Len(Items')
    <3>1. CASE h = 0
      <4>1. ListInv'
        BY Lists, PTL
      <4>2. Len(Items') \in Nat
        BY <1>1, <4>1 DEF ListInv
      <4> QED BY <3>1, <4>2
    <3>2. CASE m = mode /\ c = cwd
      <4>1. Items' = Items
        BY <1>1, <3>2, SameItems DEF vars
      <4>2. Len(Items) \in Nat /\ highlight \in Nat
        BY ItemsType DEF BrowseInv, BrowserTypeOK
      <4>3. ~foreign /\ ~outrun => highlight <= Len(Items)
        BY <1>1 DEF BrowseInv, CursorInv
      <4>4. h = 0 \/ h <= highlight \/ h < Len(Items)
        OBVIOUS
      <4> QED BY <4>1, <4>2, <4>3, <4>4
    <3> QED BY <3>1, <3>2
  <2> QED BY <1>1, <2>1, <2>2 DEF CursorInv, CursorAtList
<1> QED BY <1>2, <1>3, <1>4, <1>5 DEF BrowseInv

\* All the keys that only move it
LEMMA KeyMovesInv ==
  ASSUME IndInv, BrowseInv, TypeOK',
         KeyT \/ KeyUp \/ KeyDown \/ KeyEnter \/ KeyBackspace \/ KeyOther
  PROVE  BrowseInv'
<1>1. /\ mode \in {"fs", "trash"} /\ cwd \in {"dir", "up"}
      /\ highlight \in Nat /\ offset \in Nat /\ Len(Items) \in Nat
  BY ItemsType DEF BrowseInv, BrowserTypeOK
<1>2. CASE KeyT
  BY <1>1, <1>2, ShowInv DEF KeyT
<1>3. CASE KeyUp
  <2>1. highlight - 1 \in Nat /\ highlight - 1 <= highlight
    BY <1>1, <1>3 DEF KeyUp
  <2> QED BY <1>1, <1>3, <2>1, ShowInv DEF KeyUp
<1>4. CASE KeyDown
  <2>1. highlight + 1 \in Nat /\ highlight + 1 < Len(Items)
    BY <1>1, <1>4 DEF KeyDown
  <2> QED BY <1>1, <1>4, <2>1, ShowInv DEF KeyDown
<1>5. CASE KeyEnter
  BY <1>1, <1>5, ShowInv DEF KeyEnter
<1>6. CASE KeyBackspace
  BY <1>1, <1>6, ShowInv DEF KeyBackspace
<1>7. CASE KeyOther
  BY <1>1, <1>7, ShowInv DEF KeyOther
<1> QED BY <1>2, <1>3, <1>4, <1>5, <1>6, <1>7

\* SIGWINCH and the key that it drops change nothing that is looked at.
LEMMA WinchInv ==
  ASSUME IndInv, BrowseInv, TypeOK', OnWinch \/ KeyDropped
  PROVE  BrowseInv'
<1>1. /\ bpc = "keys" /\ bpc' \in {"keys", "draw"} /\ winch' \in BOOLEAN
      /\ UNCHANGED <<vars, mode, cwd, highlight, offset, target, ok, shown,
                     foreign, outrun>>
  BY DEF OnWinch, KeyDropped, cursor, picture
<1>2. Items' = Items
  BY <1>1, SameItems DEF vars
<1>3. BrowserTypeOK'
  BY <1>1 DEF BrowseInv, BrowserTypeOK
<1>4. CommandInv'
  BY <1>1 DEF BrowseInv, CommandInv, vars, progVars
<1>5. ShownInv'
  BY <1>1, <1>2 DEF BrowseInv, ShownInv, InWindow
<1>6. CursorInv'
  BY <1>1, <1>2 DEF BrowseInv, CursorInv, CursorAtList, Present
<1> QED BY <1>3, <1>4, <1>5, <1>6 DEF BrowseInv

\* q and Ctrl-C end the process.
LEMMA GoneInv ==
  ASSUME IndInv, BrowseInv, TypeOK', KeyQ \/ OnSigint
  PROVE  BrowseInv'
<1>1. /\ bpc' = "gone" /\ mode' = "fs" /\ cwd' = "dir"
      /\ highlight' = 0 /\ offset' = 0 /\ winch' = FALSE
      /\ target' = None /\ ok' = 0
      /\ shown' = <<>> /\ foreign' = FALSE /\ outrun' = FALSE
  BY DEF KeyQ, OnSigint, Gone
<1>2. pc'[ViewerCalls] = "run"
  <2>1. CASE KeyQ
    BY <2>1 DEF KeyQ, BrowseInv, CommandInv, vars, progVars
  <2>2. CASE OnSigint
    BY <2>2, BrowserAssumption DEF OnSigint, ProgReturn, ProgGoTo, IndInv, TypeOK
  <2> QED BY <2>1, <2>2
<1>3. BrowserTypeOK'
  <2>1. ToSet(shown') \subseteq Entries
    BY <1>1 DEF ToSet
  <2>2. winch' \in BOOLEAN /\ foreign' \in BOOLEAN /\ outrun' \in BOOLEAN
    BY <1>1
  <2> QED BY <1>1, <2>1, <2>2 DEF BrowserTypeOK
<1>4. CommandInv'
  BY <1>1, <1>2 DEF CommandInv
<1>5. ShownInv' /\ CursorInv'
  BY <1>1 DEF ShownInv, CursorInv, CursorAtList, Present
<1> QED BY <1>3, <1>4, <1>5 DEF BrowseInv

-----------------------------------------------------------------------------
(***************************************************************************)
(* The browser: the commands.                                               *)
(***************************************************************************)

\* A command that changes nothing but the directories and where the browser is
\* keeps the ranges of the browser's variables.
LEMMA CommandTypes ==
  ASSUME BrowserTypeOK, TypeOK', target' \in Entries \cup {None}, ok' \in 0..2,
         highlight' \in Nat, offset' \in Nat,
         bpc' \in {"draw", "del", "deleting", "restore", "restoring", "purge",
                   "purging", "purgingall", "done"},
         UNCHANGED <<mode, cwd, winch, picture>>
  PROVE  BrowserTypeOK'
<1> QED BY DEF BrowserTypeOK, picture

\* Del, r and d take the line that the cursor is on.
LEMMA TakeInv ==
  ASSUME IndInv, BrowseInv, TypeOK', KeyDel \/ KeyR \/ KeyD
  PROVE  BrowseInv'
<1>1. /\ bpc = "keys" /\ target' \in ToSet(Items) /\ UnderCursor(target')
      /\ ok' = 0
      /\ UNCHANGED <<vars, mode, cwd, highlight, offset, winch, shown, foreign,
                     outrun>>
      /\ \/ bpc' = "del" /\ mode = "fs" /\ calls[ViewerCalls] < MaxCalls
         \/ bpc' \in {"restore", "purge"} /\ mode = "trash"
  BY DEF KeyDel, KeyR, KeyD, Take, Key, cursor, picture
<1>2. /\ highlight < Len(Items) /\ target' = Items[highlight + 1]
      /\ highlight \in Nat /\ Len(Items) \in Nat /\ Items \in Seq(Entries)
  BY <1>1, ItemsType DEF UnderCursor, BrowseInv, BrowserTypeOK
<1>3. Items' = Items
  BY <1>1, SameItems DEF vars
<1>4. highlight + 1 \in 1..Len(Items)
  BY <1>2
<1>5. BrowserTypeOK'
  <2>1. target' \in Entries
    BY <1>2, <1>4
  <2> QED BY <1>1, <2>1, CommandTypes DEF BrowseInv, BrowserTypeOK, picture
<1>6. CommandInv'
  <2>1. CASE mode = "fs"
    <3> DEFINE N == Paths \cup {".", "..", ".trash", "dir"}
    <3>1. Items \in Seq({<<n>> : n \in N})
      BY <2>1, Lists DEF ListInv
    <3> HIDE DEF N
    <3>2. target' = <<target'[1]>>
      BY <1>2, <1>4, <3>1
    <3> QED BY <1>1, <2>1, <3>2
            DEF BrowseInv, CommandInv, vars, progVars, toolVars
  <2>2. CASE mode = "trash"
    <3>1. target' \in Trashed
      BY <1>2, <1>4, <2>2, Lists DEF ListInv
    <3>2. target' \in Ids /\ target' \in entries
      BY <3>1 DEF Trashed, IndInv, EntriesInv
    <3>3. UNCHANGED entries
      BY <1>1 DEF vars, history, names
    <3> QED BY <1>1, <2>2, <3>2, <3>3
            DEF BrowseInv, CommandInv, vars, progVars, toolVars
  <2> QED BY <1>1, <2>1, <2>2
<1>7. ShownInv'
  <2>1. ~foreign => shown = Items /\ (shown # <<>> => InWindow)
    BY <1>1 DEF BrowseInv, ShownInv
  <2>2. Items # <<>>
    BY <1>2
  <2>3. InWindow' <=> InWindow
    BY <1>1 DEF InWindow
  <2> QED BY <1>1, <1>2, <2>1, <2>2, <2>3 DEF ShownInv
<1>8. CursorInv'
  BY <1>1, <1>2, <1>3 DEF CursorInv, CursorAtList
<1> QED BY <1>5, <1>6, <1>7, <1>8 DEF BrowseInv

\* D starts at the top: whatever has metadata is in the list, if it has a file.
LEMMA KeyPurgeAllInv ==
  ASSUME IndInv, BrowseInv, TypeOK', KeyPurgeAll
  PROVE  BrowseInv'
<1>1. /\ bpc = "keys" /\ bpc' = "purgingall" /\ mode = "trash"
      /\ highlight' = 0 /\ offset' = 0
      /\ UNCHANGED <<fsVars, pc, mode, cwd, winch, target, ok, shown, foreign,
                     outrun>>
  BY DEF KeyPurgeAll, Key, PurgeStart, progVars, picture
<1>2. Items' = Items
  BY <1>1, SameItems
<1>3. BrowserTypeOK'
  BY <1>1 DEF BrowseInv, BrowserTypeOK
<1>4. CommandInv'
  BY <1>1 DEF BrowseInv, CommandInv
<1>5. ShownInv'
  <2>1. Trashed' = Trashed
    BY <1>1 DEF Trashed, fsVars
  <2>2. ~foreign => Trashed \subseteq ToSet(shown)
    <3>1. ~foreign => shown = Items
      BY <1>1 DEF BrowseInv, ShownInv
    <3>2. Trashed \subseteq ToSet(Items)
      BY <1>1, Lists DEF ListInv
    <3> QED BY <3>1, <3>2
  <2>3. ToSet(shown') = ToSet(shown)
    BY <1>1
  <2> QED BY <1>1, <2>1, <2>2, <2>3 DEF ShownInv
<1>6. CursorInv'
  <2>1. Len(Items) \in Nat
    BY ItemsType DEF BrowseInv, BrowserTypeOK
  <2> QED BY <1>1, <1>2, <2>1 DEF CursorInv, CursorAtList, Present
<1> QED BY <1>3, <1>4, <1>5, <1>6 DEF BrowseInv

\* What a step of a command has to do: it leaves the screen and the cursor
\* alone, and takes a line away only where the entry was still in the list.
LEMMA CommandStep ==
  ASSUME BrowseInv, BrowserTypeOK', CommandInv',
         bpc \in {"del", "deleting", "restore", "restoring", "purge", "purging"},
         bpc' \in {"draw", "deleting", "restoring", "purging", "done"},
         bpc' # "draw" => target' = target,
         UNCHANGED <<cursor, picture>>,
         \/ Len(Items') = Len(Items)
         \/ Present /\ ~Present' /\ Len(Items') >= Len(Items) - 1,
         Present' => Present
  PROVE  BrowseInv'
<1>1. UNCHANGED <<mode, cwd, highlight, offset, shown, foreign, outrun>>
  BY DEF cursor, picture
<1>2. ShownInv'
  <2>1. InWindow' <=> InWindow
    BY <1>1 DEF InWindow
  <2>2. ~foreign => /\ highlight < Len(shown) /\ target = shown[highlight + 1]
                    /\ InWindow
    BY DEF BrowseInv, ShownInv
  <2> QED BY <1>1, <2>1, <2>2 DEF ShownInv
<1>3. CursorInv'
  <2>1. ~foreign /\ ~outrun => /\ highlight <= Len(Items)
                               /\ Present => highlight < Len(Items)
    BY DEF BrowseInv, CursorInv
  <2>2. highlight \in Nat /\ Len(Items) \in Nat
    BY ItemsType DEF BrowseInv, BrowserTypeOK
  <2>3. Len(Items') \in Nat
    <3>1. ListInv'
      BY Lists, PTL
    <3> QED BY <1>1, <3>1 DEF ListInv, BrowseInv, BrowserTypeOK
  <2>4. ~foreign /\ ~outrun => /\ highlight <= Len(Items')
                               /\ Present' => highlight < Len(Items')
    <3>1. CASE Len(Items') = Len(Items)
      BY <2>1, <3>1
    <3>2. CASE Present /\ ~Present' /\ Len(Items') >= Len(Items) - 1
      BY <2>1, <2>2, <2>3, <3>2
    <3> QED BY <3>1, <3>2
  <2> QED BY <1>1, <2>4 DEF CursorInv, CursorAtList
<1> QED BY <1>2, <1>3 DEF BrowseInv

\* Del of something that is no file, or no file any more
LEMMA DelFailsStep ==
  ASSUME IndInv, BrowseInv, TypeOK', DelFails
  PROVE  BrowseInv'
<1>1. /\ bpc = "del" /\ bpc' = "draw" /\ target' = None
      /\ UNCHANGED <<fsVars, pc, ok, winch, cursor, picture>>
  BY DEF DelFails
<1>2. Items' = Items
  BY <1>1, SameItems DEF cursor
<1>3. BrowserTypeOK'
  BY <1>1, CommandTypes DEF BrowseInv, BrowserTypeOK, cursor
<1>4. CommandInv'
  BY <1>1 DEF BrowseInv, CommandInv
<1>5. ~Present'
  BY <1>1 DEF Present
<1> QED BY <1>1, <1>2, <1>3, <1>4, <1>5, CommandStep

\* Del of a file: its line goes with the rename, or with the fallback.
LEMMA DelStep ==
  ASSUME IndInv, BrowseInv, TypeOK', Del \/ Deleting
  PROVE  BrowseInv'
<1>1. /\ bpc \in {"del", "deleting"} /\ bpc' = "deleting" /\ mode = "fs"
      /\ target = <<target[1]>>
      /\ UNCHANGED <<winch, target, ok, cursor, picture>>
  BY DEF Del, Deleting, browserVars, BrowseInv, CommandInv
<1>2. /\ ViewerCalls \in Programs
      /\ pc \in [Programs -> {"run", "rename", "infoopen", "infowrite"}]
      /\ path \in [Programs -> Paths \cup {None}]
      /\ fs \in [Paths -> Content \cup {None}]
  BY BrowserAssumption DEF IndInv, TypeOK
<1>3. BrowserTypeOK'
  BY <1>1, CommandTypes DEF BrowseInv, BrowserTypeOK, cursor
<1>4. CASE Del
  <2>1. /\ pc[ViewerCalls] = "run"
        /\ \/ /\ pc' = [pc EXCEPT ![ViewerCalls] = "rename"]
              /\ path' = [path EXCEPT ![ViewerCalls] = target[1]]
              /\ UNCHANGED fs
           \/ /\ fs' = [fs EXCEPT ![target[1]] = None]
              /\ UNCHANGED <<pc, path>>
        /\ UNCHANGED <<files, info>>
    <3>1. Unlink(ViewerCalls, target[1])
      BY <1>4 DEF Del
    <3>2. CASE StatOk(fs[target[1]])
      BY <3>1, <3>2 DEF Unlink, ProgGoTo
    <3>3. CASE ~StatOk(fs[target[1]])
      BY <3>1, <3>3 DEF Unlink, progVars
    <3> QED BY <3>2, <3>3
  <2>2. CommandInv'
    BY <1>1, <1>2, <2>1 DEF BrowseInv, CommandInv, cursor
  <2>3. Present
    BY <1>4 DEF Del, Present
  <2>4. CASE UNCHANGED fs
    <3>1. Items' = Items
      BY <1>1, <2>1, <2>4, SameItems DEF cursor, fsVars
    <3> QED BY <1>1, <1>3, <2>2, <2>3, <3>1, CommandStep
  <2>5. CASE fs' = [fs EXCEPT ![target[1]] = None] /\ UNCHANGED pc
    <3>1. Len(Items') >= Len(Items) - 1
      BY <1>1, <1>2, <2>5, NamesShrink DEF cursor
    <3>2. ~Present'
      BY <1>1, <2>1, <2>5 DEF Present
    <3> QED BY <1>1, <1>3, <2>2, <2>3, <3>1, <3>2, CommandStep
  <2> QED BY <2>1, <2>4, <2>5
<1>5. CASE Deleting
  <2>1. bpc = "deleting" /\ UnlinkStep(ViewerCalls)
    BY <1>5 DEF Deleting
  <2>2. /\ pc'[ViewerCalls] # "rename"
        /\ \/ UNCHANGED fs
           \/ /\ pc[ViewerCalls] = "rename"
              /\ fs' = [fs EXCEPT ![path[ViewerCalls]] = None]
    <3>1. CASE MoveToTrash(ViewerCalls)
      BY <1>2, <3>1 DEF MoveToTrash, ProgGoTo
    <3>2. CASE RenameFails(ViewerCalls)
      BY <1>2, <3>2 DEF RenameFails, ProgReturn, ProgGoTo
    <3>3. CASE InfoOpen(ViewerCalls)
      BY <1>2, <3>3 DEF InfoOpen, ProgGoTo
    <3>4. CASE InfoWrite(ViewerCalls)
      BY <1>2, <3>4 DEF InfoWrite, ProgReturn, ProgGoTo
    <3>5. CASE InfoFails(ViewerCalls)
      BY <1>2, <3>5 DEF InfoFails, ProgReturn, ProgGoTo, fsVars
    <3> QED BY <2>1, <3>1, <3>2, <3>3, <3>4, <3>5 DEF UnlinkStep
  <2>3. CommandInv'
    BY <1>1, <2>2 DEF CommandInv, cursor
  <2>4. ~Present'
    BY <1>1, <2>2 DEF Present
  <2>5. CASE UNCHANGED fs
    <3>1. Items' = Items
      BY <1>1, <2>5 DEF Items, ReadCwd, cursor
    <3> QED BY <1>1, <1>3, <2>3, <2>4, <3>1, CommandStep
  <2>6. CASE /\ pc[ViewerCalls] = "rename"
             /\ fs' = [fs EXCEPT ![path[ViewerCalls]] = None]
    <3>1. Len(Items') >= Len(Items) - 1
      BY <1>1, <1>2, <2>6, NamesShrink DEF cursor
    <3>2. Present
      BY <2>1, <2>6 DEF Present
    <3> QED BY <1>1, <1>3, <2>3, <2>4, <3>1, <3>2, CommandStep
  <2> QED BY <2>2, <2>5, <2>6
<1> QED BY <1>4, <1>5

\* r: the line of the entry goes with the rename.
LEMMA RestoreStep ==
  ASSUME IndInv, BrowseInv, TypeOK', Restore \/ Restoring
  PROVE  BrowseInv'
<1>1. /\ bpc \in {"restore", "restoring"} /\ bpc' \in {"restoring", "done"}
      /\ mode = "trash" /\ target \in Ids
      /\ UNCHANGED <<winch, target, ok, cursor, picture>>
  BY DEF Restore, Restoring, browserVars, BrowseInv, CommandInv
<1>2. /\ Viewer \in Tools /\ ViewerCalls \in Programs
      /\ tpc \in [Tools -> {"idle", "restore", "infounlink", "purge",
                            "purgeinfo"}]
      /\ id \in [Tools -> Ids \cup {None}]
      /\ files \in [Ids -> Content \cup {None}]
  BY BrowserAssumption DEF IndInv, TypeOK
<1>3. BrowserTypeOK'
  BY <1>1, CommandTypes DEF BrowseInv, BrowserTypeOK, cursor
<1>4. pc[ViewerCalls] = "run"
  BY <1>1 DEF BrowseInv, CommandInv
<1>5. CASE Restore
  <2>1. /\ bpc = "restore"
        /\ \/ /\ RestoreRead(Viewer, target) /\ bpc' = "restoring"
           \/ bpc' = "done" /\ UNCHANGED vars
    BY <1>5 DEF Restore
  <2>2. /\ UNCHANGED <<fsVars, pc>>
        /\ bpc' = "restoring" => id'[Viewer] = target
    BY <1>2, <2>1 DEF RestoreRead, vars, progVars
  <2>3. CommandInv'
    BY <1>1, <1>4, <2>2 DEF CommandInv, cursor
  <2>4. Items' = Items
    BY <1>1, <2>2, SameItems DEF cursor
  <2>5. Present
    BY <2>1 DEF Present
  <2> QED BY <1>1, <1>3, <2>3, <2>4, <2>5, CommandStep
<1>6. CASE Restoring
  <2>1. /\ bpc = "restoring" /\ bpc' = "restoring"
        /\ RestoreRename(Viewer) \/ RestoreInfo(Viewer)
    BY <1>6 DEF Restoring, browserVars
  <2>2. tpc[Viewer] \in {"restore", "infounlink"} => id[Viewer] = target
    BY <2>1 DEF BrowseInv, CommandInv
  <2>3. CASE RestoreRename(Viewer)
    <3>1. /\ tpc[Viewer] = "restore" /\ id[Viewer] = target /\ UNCHANGED pc
          /\ tpc'[Viewer] = "infounlink" => id'[Viewer] = target
          /\ tpc'[Viewer] # "restore"
          /\ files' = files \/ files' = [files EXCEPT ![target] = None]
      BY <1>2, <2>2, <2>3 DEF RestoreRename, ToolReturn, ToolGoTo, progVars
    <3>2. CommandInv'
      BY <1>1, <1>4, <2>1, <3>1 DEF CommandInv, cursor
    <3>3. Present /\ ~Present'
      BY <2>1, <3>1 DEF Present
    <3>4. Len(Items') >= Len(Items) - 1
      BY <1>1, <1>2, <3>1, TrashShrinks DEF cursor
    <3> QED BY <1>1, <1>3, <3>2, <3>3, <3>4, CommandStep
  <2>4. CASE RestoreInfo(Viewer)
    <3>1. /\ tpc[Viewer] = "infounlink" /\ tpc'[Viewer] = "idle"
          /\ UNCHANGED <<fs, files, pc>>
      BY <1>2, <2>4 DEF RestoreInfo, ToolReturn, ToolGoTo, progVars
    <3>2. CommandInv'
      BY <1>1, <1>4, <2>1, <3>1 DEF CommandInv, cursor
    <3>3. ~Present'
      BY <2>1, <3>1 DEF Present
    <3>4. Len(Items') = Len(Items)
      BY <1>1, <3>1, TrashLength DEF cursor
    <3> QED BY <1>1, <1>3, <3>2, <3>3, <3>4, CommandStep
  <2> QED BY <2>1, <2>3, <2>4
<1> QED BY <1>5, <1>6

\* d: the line goes with the file, and ok counts what has gone.
LEMMA PurgeStep ==
  ASSUME IndInv, BrowseInv, TypeOK', Purge \/ (Purging /\ bpc = "purging")
  PROVE  BrowseInv'
<1>1. /\ bpc \in {"purge", "purging"} /\ bpc' = "purging"
      /\ mode = "trash" /\ target \in Ids
      /\ UNCHANGED <<winch, target, cursor, picture>>
  BY DEF Purge, Purging, BrowseInv, CommandInv
<1>2. /\ Viewer \in Tools /\ ViewerCalls \in Programs
      /\ tpc \in [Tools -> {"idle", "restore", "infounlink", "purge",
                            "purgeinfo"}]
      /\ todo \in [Tools -> SUBSET Ids]
      /\ files \in [Ids -> Content \cup {None}]
  BY BrowserAssumption DEF IndInv, TypeOK
<1>3. ok' \in 0..2 => BrowserTypeOK'
  BY <1>1, CommandTypes DEF BrowseInv, BrowserTypeOK, cursor
<1>4. pc[ViewerCalls] = "run"
  BY <1>1 DEF BrowseInv, CommandInv
<1>5. CASE Purge
  <2>1. /\ bpc = "purge" /\ UNCHANGED <<fsVars, pc, ok>>
        /\ tpc'[Viewer] = "purge" /\ todo'[Viewer] = {target}
    BY <1>2, <1>5 DEF Purge, PurgeStart, ToolGoTo, progVars
  <2>2. ok = 0
    BY <2>1 DEF BrowseInv, CommandInv
  <2>3. CommandInv'
    BY <1>1, <1>4, <2>1, <2>2 DEF CommandInv, cursor
  <2>4. Items' = Items
    BY <1>1, <2>1, SameItems DEF cursor
  <2>5. Present
    BY <2>1 DEF Present
  <2> QED BY <1>1, <1>3, <2>1, <2>2, <2>3, <2>4, <2>5, CommandStep
<1>6. CASE Purging
  <2>1. /\ bpc = "purging"
        /\ PurgeFile(Viewer) \/ PurgeInfo(Viewer)
        /\ ok' \in {ok, ok + 1}
        /\ \/ tpc[Viewer] = "purge" /\ todo[Viewer] = {target} /\ ok = 0
           \/ tpc[Viewer] = "purgeinfo" /\ todo[Viewer] = {} /\ ok \in 0..1
           \/ tpc[Viewer] = "purge" /\ todo[Viewer] = {}
    BY <1>1, <1>6 DEF Purge, Purging, BrowseInv, CommandInv
  <2>2. CASE PurgeFile(Viewer)
    <3>1. PICK i \in todo[Viewer] :
            /\ todo' = [todo EXCEPT ![Viewer] = @ \ {i}]
            /\ files' = files \/ files' = [files EXCEPT ![i] = None]
      BY <2>2 DEF PurgeFile
    <3>2. /\ tpc[Viewer] = "purge" /\ tpc'[Viewer] = "purgeinfo"
          /\ UNCHANGED pc
      BY <1>2, <2>2 DEF PurgeFile, ToolGoTo, progVars
    <3>3. /\ todo[Viewer] = {target} /\ i = target /\ ok = 0
          /\ todo'[Viewer] = {}
      BY <1>2, <2>1, <3>1, <3>2
    <3>4. ok' \in 0..1
      BY <2>1, <3>3
    <3>5. CommandInv'
      BY <1>1, <1>4, <3>2, <3>3, <3>4 DEF CommandInv, cursor
    <3>6. Present /\ ~Present'
      BY <1>1, <2>1, <3>3 DEF Present
    <3>7. Len(Items') >= Len(Items) - 1
      BY <1>1, <1>2, <3>1, TrashShrinks DEF cursor
    <3>8. ok' \in 0..2
      BY <3>4
    <3> QED BY <1>1, <1>3, <3>5, <3>6, <3>7, <3>8, CommandStep
  <2>3. CASE PurgeInfo(Viewer)
    <3>1. /\ tpc[Viewer] = "purgeinfo" /\ tpc'[Viewer] = "purge"
          /\ UNCHANGED <<files, pc, todo>>
      BY <1>2, <2>3 DEF PurgeInfo, ToolGoTo, progVars
    <3>2. todo[Viewer] = {} /\ ok' \in 0..2
      BY <2>1, <3>1
    <3>3. CommandInv'
      BY <1>1, <1>4, <3>1, <3>2 DEF CommandInv, cursor
    <3>4. ~Present'
      BY <1>1, <3>1, <3>2 DEF Present
    <3>5. Len(Items') = Len(Items)
      BY <1>1, <3>1, TrashLength DEF cursor
    <3> QED BY <1>1, <1>3, <3>2, <3>3, <3>4, <3>5, CommandStep
  <2> QED BY <2>1, <2>2, <2>3
<1> QED BY <1>5, <1>6

\* D: the cursor is at the top, whatever goes.
LEMMA PurgeAllStep ==
  ASSUME IndInv, BrowseInv, TypeOK', Purging, bpc = "purgingall"
  PROVE  BrowseInv'
<1>1. /\ bpc' = "purgingall" /\ mode = "trash" /\ highlight = 0
      /\ PurgeFile(Viewer) \/ PurgeInfo(Viewer)
      /\ UNCHANGED <<winch, target, ok, mode, cwd, highlight, offset, shown,
                     foreign, outrun>>
  BY DEF Purging, BrowseInv, CommandInv, cursor, picture
<1>2. UNCHANGED pc
  BY <1>1 DEF PurgeFile, PurgeInfo, progVars
<1>3. BrowserTypeOK'
  BY <1>1 DEF BrowseInv, BrowserTypeOK
<1>4. CommandInv'
  BY <1>1, <1>2 DEF BrowseInv, CommandInv
<1>5. ShownInv'
  <2>1. Trashed' \subseteq Trashed
    <3>1. \A i \in Ids : files'[i] # None => files[i] # None
      <4>1. files \in [Ids -> Content \cup {None}]
        BY DEF IndInv, TypeOK
      <4> QED BY <1>1, <4>1 DEF PurgeFile, PurgeInfo
    <3> QED BY <3>1 DEF Trashed
  <2>2. ~foreign => Trashed \subseteq ToSet(shown)
    BY DEF BrowseInv, ShownInv
  <2>3. ToSet(shown') = ToSet(shown)
    BY <1>1
  <2> QED BY <1>1, <2>1, <2>2, <2>3 DEF ShownInv
<1>6. CursorInv'
  <2>1. ListInv'
    BY Lists, PTL
  <2>2. Len(Items') \in Nat
    BY <1>1, <2>1 DEF ListInv
  <2> QED BY <1>1, <2>2 DEF CursorInv, CursorAtList, Present
<1> QED BY <1>3, <1>4, <1>5, <1>6 DEF BrowseInv

\* The command is over: nothing is left to take, and a purge that removed both
\* files has moved the cursor up.
LEMMA CommandDoneStep ==
  ASSUME IndInv, BrowseInv, TypeOK', CommandDone
  PROVE  BrowseInv'
<1>1. /\ bpc \in {"deleting", "restoring", "done", "purging", "purgingall"}
      /\ bpc' = "draw" /\ target' = None /\ ok' = 0
      /\ highlight' = IF bpc = "purging" /\ ok = 2 /\ highlight > 0
                      THEN highlight - 1 ELSE highlight
      /\ UNCHANGED <<fsVars, pc, mode, cwd, offset, winch, shown, foreign,
                     outrun>>
      /\ bpc = "deleting" => pc[ViewerCalls] = "run"
  BY DEF CommandDone, ToolEnd, vars, progVars, picture
<1>2. highlight \in Nat /\ Len(Items) \in Nat
  BY ItemsType DEF BrowseInv, BrowserTypeOK
<1>3. highlight' \in Nat /\ highlight' <= highlight
  BY <1>1, <1>2
<1>4. Items' = Items
  BY <1>1, SameItems
<1>5. BrowserTypeOK'
  BY <1>1, <1>3 DEF BrowseInv, BrowserTypeOK
<1>6. CommandInv'
  BY <1>1 DEF BrowseInv, CommandInv
<1>7. ShownInv'
  BY <1>1 DEF ShownInv
<1>8. CursorInv'
  <2>1. ~foreign /\ ~outrun => highlight <= Len(Items)
    BY <1>1 DEF BrowseInv, CursorInv
  <2>2. ~foreign /\ ~outrun => highlight' <= Len(Items)
    BY <1>2, <1>3, <2>1
  <2>3. ~Present'
    BY <1>1 DEF Present
  <2> QED BY <1>1, <1>4, <2>2, <2>3 DEF CursorInv, CursorAtList
<1> QED BY <1>5, <1>6, <1>7, <1>8 DEF BrowseInv

\* Others do not touch the browser's variables; if they change a directory,
\* that is remembered.
LEMMA OthersStep ==
  ASSUME IndInv, BrowseInv, TypeOK', Others
  PROVE  BrowseInv'
<1>1. /\ UNCHANGED <<bpc, mode, cwd, highlight, offset, winch, target, ok,
                     shown, outrun>>
      /\ foreign' = (bpc # "gone" /\ (foreign \/ fsVars' # fsVars))
  BY DEF Others, cursor
<1>2. UNCHANGED <<pc, path, calls, entries>>
  BY DEF Others, Tick, Create, ToolStep, Command, RestoreRead, PurgeStart,
         RestoreRename, RestoreInfo, PurgeFile, PurgeInfo, ToolEnd, progVars,
         history, names
<1>3. /\ tpc'[Viewer] = tpc[Viewer] /\ todo'[Viewer] = todo[Viewer]
      /\ id'[Viewer] = id[Viewer]
  <2>1. CASE Tick \/ Create
    BY <2>1 DEF Tick, Create, toolVars
  <2>2. ASSUME NEW t \in Tools \ {Viewer}, ToolStep(t)
        PROVE  /\ tpc'[Viewer] = tpc[Viewer] /\ todo'[Viewer] = todo[Viewer]
               /\ id'[Viewer] = id[Viewer]
    <3>1. /\ Viewer \in Tools /\ Viewer # t
          /\ DOMAIN tpc = Tools /\ DOMAIN todo = Tools /\ DOMAIN id = Tools
      BY BrowserAssumption DEF IndInv, TypeOK
    <3>2. CASE Command(t)
      BY <3>1, <3>2 DEF Command, RestoreRead, PurgeStart, ToolGoTo
    <3>3. CASE RestoreRename(t) \/ RestoreInfo(t) \/ ToolEnd(t)
      BY <3>1, <3>3 DEF RestoreRename, RestoreInfo, ToolEnd, ToolReturn,
                        ToolGoTo
    <3>4. CASE PurgeFile(t) \/ PurgeInfo(t)
      BY <3>1, <3>4 DEF PurgeFile, PurgeInfo, ToolGoTo
    <3> QED BY <2>2, <3>2, <3>3, <3>4 DEF ToolStep
  <2> QED BY <2>1, <2>2 DEF Others
<1>4. foreign' \in BOOLEAN
  BY <1>1
<1>5. BrowserTypeOK'
  BY <1>1, <1>4 DEF BrowseInv, BrowserTypeOK
<1>6. CommandInv'
  BY <1>1, <1>2, <1>3 DEF BrowseInv, CommandInv
<1>7. bpc # "gone" /\ ~foreign' => ~foreign /\ UNCHANGED fsVars
  BY <1>1
<1>8. UNCHANGED fsVars => Items' = Items /\ Trashed' = Trashed
  BY <1>1, SameItems DEF Trashed, fsVars
<1>9. ShownInv'
  <2> SUFFICES ASSUME ~foreign', bpc # "gone"
               PROVE  ShownInv'
    BY <1>1 DEF ShownInv
  <2>1. Items' = Items /\ Trashed' = Trashed /\ ShownInv /\ ~foreign
    BY <1>7, <1>8 DEF BrowseInv
  <2>2. (InWindow' <=> InWindow) /\ ToSet(shown') = ToSet(shown)
    BY <1>1 DEF InWindow
  <2> QED BY <1>1, <2>1, <2>2 DEF ShownInv
<1>10. CursorInv'
  <2>1. CursorAtList'
    BY <1>1 DEF BrowseInv, CursorInv, CursorAtList
  <2>2. Present' <=> Present
    BY <1>1, <1>2, <1>3 DEF Present
  <2> QED BY <1>1, <1>7, <1>8, <2>1, <2>2 DEF BrowseInv, CursorInv
<1> QED BY <1>5, <1>6, <1>9, <1>10 DEF BrowseInv

-----------------------------------------------------------------------------
(***************************************************************************)
(* The browser: the theorems.                                               *)
(***************************************************************************)

\* The browser starts with the directory, of which nothing is drawn yet.
LEMMA BrowserInitInv == BrowserInit => IndInv /\ BrowseInv
<1> SUFFICES ASSUME BrowserInit PROVE IndInv /\ BrowseInv
  OBVIOUS
<1>1. IndInv
  BY InitInv DEF BrowserInit
<1>2. /\ bpc = "draw" /\ mode = "fs" /\ cwd = "dir"
      /\ highlight = 0 /\ offset = 0 /\ winch = FALSE
      /\ target = None /\ ok = 0
      /\ shown = <<>> /\ foreign = FALSE /\ outrun = FALSE
      /\ pc = [d \in Programs |-> "run"]
  BY DEF BrowserInit, Init
<1>3. BrowserTypeOK
  <2>1. ToSet(shown) \subseteq Entries
    BY <1>2 DEF ToSet
  <2>2. winch \in BOOLEAN /\ foreign \in BOOLEAN /\ outrun \in BOOLEAN
    BY <1>2
  <2> QED BY <1>1, <1>2, <2>1, <2>2 DEF IndInv, BrowserTypeOK
<1>4. CommandInv
  BY <1>2, BrowserAssumption DEF CommandInv
<1>5. ShownInv
  BY <1>2 DEF ShownInv
<1>6. CursorInv
  <2>1. Len(Items) \in Nat
    BY <1>2, ItemsType
  <2> QED BY <1>2, <2>1 DEF CursorInv, CursorAtList, Present
<1> QED BY <1>1, <1>3, <1>4, <1>5, <1>6 DEF BrowseInv

\* No step of the browser or of others breaks it.
LEMMA BrowserNextInv ==
  IndInv /\ BrowseInv /\ [BrowserNext]_allVars => (IndInv /\ BrowseInv)'
<1> SUFFICES ASSUME IndInv, BrowseInv, [BrowserNext]_allVars
             PROVE  IndInv' /\ BrowseInv'
  OBVIOUS
<1>1. CASE BrowserNext
  <2>1. IndInv'
    BY <1>1, BrowserFiles
  <2>2. TypeOK'
    BY <2>1 DEF IndInv
  <2>3. CASE DrawList
    BY <2>1, <2>2, <2>3, DrawListInv
  <2>4. CASE Keys
    BY <2>1, <2>2, <2>4, KeyMovesInv, TakeInv, KeyPurgeAllInv, WinchInv, GoneInv
       DEF Keys
  <2>5. CASE Commands
    <3>1. Purging => bpc \in {"purging", "purgingall"}
      BY DEF Purging
    <3> QED BY <2>1, <2>2, <2>5, <3>1, DelStep, DelFailsStep, RestoreStep,
               PurgeStep, PurgeAllStep, CommandDoneStep DEF Commands
  <2>6. CASE OnWinch
    BY <2>1, <2>2, <2>6, WinchInv
  <2>7. CASE OnSigint
    BY <2>1, <2>2, <2>7, GoneInv
  <2>8. CASE Others
    BY <2>1, <2>2, <2>8, OthersStep
  <2> QED BY <1>1, <2>1, <2>3, <2>4, <2>5, <2>6, <2>7, <2>8 DEF BrowserNext
<1>2. CASE UNCHANGED allVars
  <2>1. UNCHANGED <<vars, bpc, mode, cwd, highlight, offset, winch, target, ok,
                    shown, foreign, outrun>>
    BY <1>2 DEF allVars, browserVars, cursor, picture
  <2>2. IndInv'
    BY <2>1, NextInv
  <2>3. Items' = Items /\ Trashed' = Trashed
    BY <2>1, SameItems DEF vars, fsVars, Trashed
  <2>4. UNCHANGED <<tpc, todo, id, pc, path, calls, entries>>
    BY <2>1 DEF vars, toolVars, progVars, history, names
  <2>5. BrowserTypeOK'
    BY <2>1, <2>2 DEF IndInv, BrowseInv, BrowserTypeOK
  <2>6. CommandInv'
    BY <2>1, <2>4 DEF BrowseInv, CommandInv
  <2>7. ShownInv'
    BY <2>1, <2>3 DEF BrowseInv, ShownInv, InWindow
  <2>8. CursorInv'
    BY <2>1, <2>3, <2>4 DEF BrowseInv, CursorInv, CursorAtList, Present
  <2> QED BY <2>2, <2>5, <2>6, <2>7, <2>8 DEF BrowseInv
<1> QED BY <1>1, <1>2

\* Both invariants hold, whatever is done at the keyboard and by others.
LEMMA BrowserInv == BrowserSpec => [](IndInv /\ BrowseInv)
<1> QED BY BrowserInitInv, BrowserNextInv, PTL DEF BrowserSpec

\* The browser's variables stay in their ranges, for every number of files and
\* of processes and every size of the window: in particular cmd_purge counts
\* no more than the two files that it removes (purge.c 36-74).
THEOREM BrowserTypeCorrect == BrowserSpec => []BrowserTypeOK
<1>1. IndInv /\ BrowseInv => BrowserTypeOK
  BY DEF BrowseInv
<1> QED BY <1>1, BrowserInv, PTL

\* The browser's own commands never leave the cursor farther than one line
\* below the list (browser.c 436-446, 505-586).
THEOREM CursorCorrect == BrowserSpec => []CursorAtList
<1>1. IndInv /\ BrowseInv => CursorAtList
  BY DEF BrowseInv, CursorInv
<1> QED BY <1>1, BrowserInv, PTL

\* Nor is a file lost or doubled by the browser, although it deletes, restores
\* and purges in one process and may be ended by Ctrl-C in the middle of each.
THEOREM BrowserOnePlace == BrowserSpec => []OnePlace
<1>1. IndInv /\ BrowseInv => OnePlace
  BY InvOnePlace
<1> QED BY <1>1, BrowserInv, PTL

\* A step that takes something is a step of a command, and what it takes is the
\* entry that the command is about.
LEMMA TakenByCommand ==
  ASSUME IndInv, BrowseInv, BrowserNext, bpc # "gone", ~foreign', Taken # {}
  PROVE  \/ /\ bpc \in {"del", "deleting", "restoring", "purging"}
            /\ Taken \subseteq {target} /\ UNCHANGED foreign
         \/ bpc = "purgingall" /\ UNCHANGED foreign /\ Taken \subseteq Trashed
<1>1. ~(UNCHANGED <<fs, files>>)
  BY DEF Taken
<1>2. /\ Viewer \in Tools /\ ViewerCalls \in Programs
      /\ fs \in [Paths -> Content \cup {None}]
      /\ files \in [Ids -> Content \cup {None}]
      /\ todo \in [Tools -> SUBSET Ids]
  BY BrowserAssumption DEF IndInv, TypeOK
<1>3. Del \/ Deleting \/ Restoring \/ Purging
  <2>1. ~DrawList /\ ~OnWinch /\ ~OnSigint /\ ~Others
    BY <1>1 DEF DrawList, OnWinch, OnSigint, Others, vars, fsVars
  <2>2. ~KeyPurgeAll
    BY <1>1 DEF KeyPurgeAll, PurgeStart, fsVars
  <2>3. ~Keys
    BY <1>1, <2>2 DEF Keys, KeyT, KeyUp, KeyDown, KeyEnter, KeyBackspace,
                      KeyDel, KeyR, KeyD, KeyOther, KeyDropped, KeyQ, Show,
                      Take, vars, fsVars
  <2>4. ~DelFails /\ ~Restore /\ ~Purge /\ ~CommandDone
    BY <1>1 DEF DelFails, Restore, RestoreRead, Purge, PurgeStart, CommandDone,
                ToolEnd, vars, fsVars
  <2> QED BY <2>1, <2>3, <2>4 DEF BrowserNext, Commands
<1>4. CASE Del
  <2>1. /\ bpc = "del" /\ UNCHANGED <<foreign, files>>
        /\ target = <<target[1]>>
    BY <1>4 DEF Del, Unlink, picture, BrowseInv, CommandInv
  <2>2. fs' = fs \/ fs' = [fs EXCEPT ![target[1]] = None]
    BY <1>4 DEF Del, Unlink
  <2>3. \A q \in Paths : fs[q] # None /\ fs'[q] = None => <<q>> = target
    BY <1>2, <2>1, <2>2
  <2>4. \A i \in Ids : ~(files[i] # None /\ files'[i] = None)
    BY <2>1
  <2> QED BY <2>1, <2>3, <2>4 DEF Taken
<1>5. CASE Deleting
  <2>1. /\ bpc = "deleting" /\ UNCHANGED foreign
        /\ target = <<target[1]>> /\ UnlinkStep(ViewerCalls)
        /\ pc[ViewerCalls] = "rename" => path[ViewerCalls] = target[1]
    BY <1>5 DEF Deleting, browserVars, picture, BrowseInv, CommandInv
  <2>2. \/ UNCHANGED <<fs, files>>
        \/ /\ pc[ViewerCalls] = "rename" /\ fs[path[ViewerCalls]] # None
           /\ fs' = [fs EXCEPT ![path[ViewerCalls]] = None]
           /\ files' = [files EXCEPT ![newname[ViewerCalls]]
                          = fs[path[ViewerCalls]]]
        \/ /\ pc[ViewerCalls] = "rename" /\ UNCHANGED files
           /\ fs' = [fs EXCEPT ![path[ViewerCalls]] = None]
    BY <2>1 DEF UnlinkStep, MoveToTrash, RenameFails, InfoOpen, InfoWrite,
                InfoFails, fsVars
  <2>3. \A q \in Paths : fs[q] # None /\ fs'[q] = None => <<q>> = target
    BY <1>2, <2>1, <2>2
  <2>4. \A i \in Ids : ~(files[i] # None /\ files'[i] = None)
    BY <1>2, <2>2
  <2> QED BY <2>1, <2>3, <2>4 DEF Taken
<1>6. CASE Restoring
  <2>1. /\ bpc = "restoring" /\ UNCHANGED foreign
        /\ RestoreRename(Viewer) \/ RestoreInfo(Viewer)
        /\ tpc[Viewer] = "restore" => id[Viewer] = target
    BY <1>6 DEF Restoring, browserVars, picture, BrowseInv, CommandInv
  <2>2. /\ id[Viewer] = target /\ files[target] # None
        /\ fs' = [fs EXCEPT ![original[Viewer]] = files[target]]
        /\ files' = [files EXCEPT ![target] = None]
    BY <1>1, <2>1 DEF RestoreRename, RestoreInfo
  <2>3. \A q \in Paths : ~(fs[q] # None /\ fs'[q] = None)
    BY <1>2, <2>2
  <2>4. \A i \in Ids : files[i] # None /\ files'[i] = None => i = target
    BY <1>2, <2>2
  <2> QED BY <2>1, <2>3, <2>4 DEF Taken
<1>7. CASE Purging
  <2>1. /\ bpc \in {"purging", "purgingall"} /\ UNCHANGED foreign
        /\ PurgeFile(Viewer) \/ PurgeInfo(Viewer)
        /\ bpc = "purging" => todo[Viewer] \subseteq {target}
    BY <1>7 DEF Purging, picture, BrowseInv, CommandInv
  <2>2. PICK i \in todo[Viewer] : files' = [files EXCEPT ![i] = None]
    BY <1>1, <2>1 DEF PurgeFile, PurgeInfo
  <2>3. UNCHANGED fs
    BY <2>1 DEF PurgeFile, PurgeInfo
  <2>4. \A j \in Ids : files[j] # None /\ files'[j] = None => j = i /\ j \in Trashed
    BY <1>2, <2>2 DEF Trashed
  <2>5. Taken \subseteq {i} \cap Trashed
    BY <2>3, <2>4 DEF Taken
  <2> QED BY <2>1, <2>2, <2>5
<1> QED BY <1>3, <1>4, <1>5, <1>6, <1>7

\* Whatever the browser takes away is what the user saw when he pressed the
\* key, unless another process interfered, for every size of the list and of
\* the window (browser.c 170-236, 486-586).
THEOREM TakesCorrect == BrowserSpec => TakesOnlyWhatWasShown
<1>1. IndInv /\ BrowseInv /\ [BrowserNext]_allVars
        => [bpc # "gone" /\ ~foreign' /\ Taken # {} =>
              IF bpc = "purgingall" THEN Taken \subseteq ToSet(shown)
              ELSE /\ highlight < Len(shown) /\ Taken = {shown[highlight + 1]}
                   /\ mode = "trash" => /\ offset <= highlight
                                        /\ highlight < offset + VisibleItems
           ]_allVars
  <2> SUFFICES ASSUME IndInv, BrowseInv, BrowserNext, bpc # "gone", ~foreign',
                      Taken # {}
               PROVE  IF bpc = "purgingall" THEN Taken \subseteq ToSet(shown)
                      ELSE /\ highlight < Len(shown)
                           /\ Taken = {shown[highlight + 1]}
                           /\ mode = "trash" =>
                                /\ offset <= highlight
                                /\ highlight < offset + VisibleItems
    OBVIOUS
  <2>1. CASE /\ bpc \in {"del", "deleting", "restoring", "purging"}
             /\ Taken \subseteq {target} /\ UNCHANGED foreign
    <3>1. highlight < Len(shown) /\ target = shown[highlight + 1] /\ InWindow
      BY <2>1 DEF BrowseInv, ShownInv
    <3>2. Taken = {target}
      BY <2>1
    <3> QED BY <2>1, <3>1, <3>2 DEF InWindow
  <2>2. CASE bpc = "purgingall" /\ UNCHANGED foreign /\ Taken \subseteq Trashed
    <3>1. Trashed \subseteq ToSet(shown)
      BY <2>2 DEF BrowseInv, ShownInv
    <3> QED BY <2>2, <3>1
  <2> QED BY <2>1, <2>2, TakenByCommand
<1> QED BY <1>1, BrowserInv, PTL DEF BrowserSpec, TakesOnlyWhatWasShown

-----------------------------------------------------------------------------
(***************************************************************************)
(* The browser and the metadata.                                            *)
(***************************************************************************)

\* A Del that fails leaves the trash alone.
LEMMA DelFailsInfo ==
  ASSUME InfoInv, DelFails
  PROVE  InfoInv'
<1>1. UNCHANGED <<files, info, pc, origReal, newname, toolVars, origin,
                  unrecorded, repeated>>
  BY DEF DelFails, fsVars, history, names
<1>2. \A d \in Programs, i \in Ids : Writing(d, i)' <=> Writing(d, i)
  BY <1>1 DEF Writing
<1> QED BY <1>1, <1>2, SameInfo

\* Ctrl-C leaves a file without metadata, if Del was about to write it: that is
\* remembered in unrecorded.
LEMMA OnSigintInfo ==
  ASSUME IndInv, InfoInv, OnSigint
  PROVE  InfoInv'
<1>1. /\ ProgReturn(ViewerCalls)
      /\ UNCHANGED <<files, info, origin, repeated>>
      /\ unrecorded' = unrecorded \cup Unwritten(ViewerCalls)
  BY DEF OnSigint, fsVars, names
<1>2. \A t \in Tools : \/ tpc'[t] = "idle"
                       \/ /\ tpc'[t] = tpc[t] /\ id'[t] = id[t]
                          /\ original'[t] = original[t]
  BY DEF OnSigint, ToolReturn, ToolGoTo, IndInv, TypeOK
<1> QED BY <1>1, <1>2, ReturnInfo, BrowserAssumption

\* The invariants of the trash and of the browser hold together.
LEMMA BrowserInfoNext ==
  IndInv /\ BrowseInv /\ InfoInv /\ [BrowserNext]_allVars => InfoInv'
<1> SUFFICES ASSUME IndInv, BrowseInv, InfoInv, [BrowserNext]_allVars
             PROVE  InfoInv'
  OBVIOUS
<1>1. CASE DelFails
  BY <1>1, DelFailsInfo
<1>2. CASE OnSigint
  BY <1>2, OnSigintInfo
<1>3. CASE [Next]_vars
  BY <1>3, NextInfo
<1>4. UNCHANGED allVars => UNCHANGED vars
  BY DEF allVars
<1> QED BY <1>1, <1>2, <1>3, <1>4, BrowserSteps

\* They hold from the start.
LEMMA BrowserInfoInv == BrowserSpec => [](IndInv /\ BrowseInv /\ InfoInv)
<1>1. BrowserInit => IndInv /\ BrowseInv /\ InfoInv
  BY BrowserInitInv, InitInfo DEF BrowserInit
<1>2. IndInv /\ BrowseInv /\ InfoInv /\ [BrowserNext]_allVars
        => (IndInv /\ BrowseInv /\ InfoInv)'
  BY BrowserNextInv, BrowserInfoNext
<1> QED BY <1>1, <1>2, PTL DEF BrowserSpec

\* Beside the browser, too, a file in the trash whose ID was given to no other
\* has metadata, or is one whose metadata could not be written, was cut off by
\* Ctrl-C, or was removed although the file could not be (browser.c 51-62,
\* 486-586; trash_unlink.c 74-94; purge.c 47-67).
THEOREM BrowserInfoCorrect == BrowserSpec => []FileHasInfo
<1>1. IndInv /\ BrowseInv /\ InfoInv => FileHasInfo
  BY DEF InfoInv
<1> QED BY <1>1, BrowserInfoInv, PTL

\* What the browser deleted, restore moves back to where it was, whether the
\* browser restores it or another process, unless its ID was given to another
\* file as well or realpath met a link (restore.c 15-43).
THEOREM BrowserRestoreCorrect == BrowserSpec => RestoresToOrigin
<1>1. IndInv /\ BrowseInv /\ InfoInv /\ [BrowserNext]_allVars
        => [\A t \in Tools :
              tpc[t] = "restore" /\ tpc'[t] = "infounlink" =>
                \/ id[t] \in repeated
                \/ origin[files[id[t]]] \in {None, original[t]}]_vars
  <2> SUFFICES ASSUME IndInv, BrowseInv, InfoInv, [BrowserNext]_allVars,
                      ~(UNCHANGED vars), NEW t \in Tools,
                      tpc[t] = "restore", tpc'[t] = "infounlink"
               PROVE  \/ id[t] \in repeated
                      \/ origin[files[id[t]]] \in {None, original[t]}
    OBVIOUS
  <2>1. ~DelFails
    BY DEF DelFails, toolVars
  <2>2. ~OnSigint
    BY DEF OnSigint, ToolReturn, ToolGoTo, IndInv, TypeOK
  <2>3. Next
    BY <2>1, <2>2, BrowserSteps DEF allVars
  <2> QED BY <2>3, RestoreGoesBack
<1> QED BY <1>1, BrowserInfoInv, PTL DEF BrowserSpec, RestoresToOrigin

=============================================================================
