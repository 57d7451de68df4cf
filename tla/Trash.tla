-------------------------------- MODULE Trash --------------------------------
(***************************************************************************)
(* CourseWork: a library, preloaded into any program, that replaces unlink  *)
(* and unlinkat by a move into a trash directory, and the tool trashctl     *)
(* that restores and purges what lies there.  The trash is two directories: *)
(* files/ID is the deleted file, info/ID.info says where it came from.      *)
(* Programs and tools run at the same time, without locks, and may be       *)
(* killed between any two system calls.                                     *)
(*                                                                          *)
(* A file is its contents, a member of Content; every file that is created  *)
(* has contents of its own.  Some contents are symbolic links.  An ID is    *)
(* made of the second and of a number below 100000 from rand(), which       *)
(* nobody seeds: every process runs through the same numbers, and meets one *)
(* of them again sooner or later.  (The extension, also part of the ID, is  *)
(* taken to be the same for all files.)                                     *)
(***************************************************************************)
EXTENDS Naturals

CONSTANTS Paths,      \* where files can be, outside the trash
          Content,    \* files
          Links,      \* those of them that are symbolic links
          LinkTarget, \* the path all of them point to
          None,       \* no file, no metadata
          Empty,      \* a metadata file without a line in it yet
          Programs,   \* processes that call unlink
          Tools,      \* trashctl processes
          Rand,       \* what rand() yields at a process's calls 0, 1, ...
          Modulus,    \* 100000
          MaxTime,    \* bound: seconds that pass
          MaxCalls    \* bound: unlink calls of one process

ASSUME TrashAssumption ==
  /\ Links \subseteq Content /\ LinkTarget \in Paths
  /\ None \notin Content \cup Paths /\ Empty \notin Paths \cup {None}
  /\ MaxTime \in Nat /\ MaxCalls \in Nat
  /\ Rand \in [0..MaxCalls -> Nat] /\ Modulus \in Nat \ {0}

Ids == (0..MaxTime) \X (0..(Modulus - 1))

VARIABLES
  fs,        \* fs[path]: the file there
  files,     \* files[id]: the file in .trash/files
  info,      \* info[id]: original_path in .trash/info
  now,       \* time(NULL)
  pc,        \* where a program is in unlink
  path,      \* its argument
  origReal,  \* its local variable orig_real
  newname,   \* its local variable newname
  calls,     \* how far its process is in the sequence of rand()
  tpc,       \* where a tool is in its command
  todo,      \* the entries it has yet to purge
  id,        \* the entry it works on
  original,  \* its local variable original
  origin,    \* history: origin[c]: the path c was last deleted from, None if
             \* realpath had made another one of it
  made, purged, unlinked, lost,  \* history: files created, purged on request,
             \* deleted for good by the fallback, replaced by another file
  unrecorded,\* history: files whose metadata was not written, or is removed
             \* although they could not be
  entries,   \* history: the IDs that files were moved to
  repeated   \* history: those that it happened to more than once

fsVars   == <<fs, files, info>>
progVars == <<pc, path, origReal, newname, calls>>
toolVars == <<tpc, todo, id, original>>
names    == <<entries, repeated>>
history  == <<origin, made, purged, unlinked, lost, unrecorded, names>>
vars     == <<fsVars, now, progVars, toolVars, history>>

Init ==
  /\ fs = [p \in Paths |-> None]
  /\ files = [i \in Ids |-> None] /\ info = [i \in Ids |-> None]
  /\ now = 0
  /\ pc = [d \in Programs |-> "run"]
  /\ path = [d \in Programs |-> None]
  /\ origReal = [d \in Programs |-> None]
  /\ newname = [d \in Programs |-> None]
  /\ calls = [d \in Programs |-> 0]
  /\ tpc = [t \in Tools |-> "idle"]
  /\ todo = [t \in Tools |-> {}]
  /\ id = [t \in Tools |-> None]
  /\ original = [t \in Tools |-> None]
  /\ origin = [c \in Content |-> None]
  /\ made = {} /\ purged = {} /\ unlinked = {} /\ lost = {}
  /\ unrecorded = {} /\ entries = {} /\ repeated = {}

\* What realpath makes of a path: a link leads to its target.
Resolve(p) == IF fs[p] \in Links THEN LinkTarget ELSE p

\* stat succeeds on an entry that holds c: there is a file, and if it is a link
\* then there is a file at its target, not another link (to itself).
StatOk(c) == /\ c # None
             /\ c \in Links => fs[LinkTarget] \notin {None} \cup Links

-----------------------------------------------------------------------------
(***************************************************************************)
(* The world: time passes, somebody creates files.                          *)
(***************************************************************************)
Tick ==
  /\ now < MaxTime
  /\ now' = now + 1
  /\ UNCHANGED <<fsVars, progVars, toolVars, history>>

Create ==
  /\ \E p \in Paths, c \in Content \ made :
       /\ fs[p] = None
       /\ fs' = [fs EXCEPT ![p] = c]
       /\ made' = made \cup {c}
  /\ UNCHANGED <<files, info, now, progVars, toolVars, origin, purged,
                 unlinked, lost, unrecorded, names>>

-----------------------------------------------------------------------------
(***************************************************************************)
(* unlink, with move_to_trash.                                              *)
(***************************************************************************)
ProgGoTo(d, l) == pc' = [pc EXCEPT ![d] = l]

\* unlink returns: its local variables are gone.
ProgReturn(d) ==
  /\ ProgGoTo(d, "run")
  /\ path' = [path EXCEPT ![d] = None]
  /\ origReal' = [origReal EXCEPT ![d] = None]
  /\ newname' = [newname EXCEPT ![d] = None]

\* The second, and the next of the process's random numbers.
GenerateUniqueName(d) == <<now, Rand[calls[d]] % Modulus>>

\* unlink(p): realpath, stat and generate_unique_name; if stat fails,
\* real_unlink.
Unlink(d, p) ==
  /\ pc[d] = "run"
  /\ calls[d] < MaxCalls
  /\ fs[p] # None
  /\ \/ /\ StatOk(fs[p])
        /\ path' = [path EXCEPT ![d] = p]
        /\ origReal' = [origReal EXCEPT ![d] = Resolve(p)]
        /\ newname' = [newname EXCEPT ![d] = GenerateUniqueName(d)]
        /\ calls' = [calls EXCEPT ![d] = @ + 1]
        /\ ProgGoTo(d, "rename")
        /\ UNCHANGED <<fs, unlinked>>
     \/ /\ ~StatOk(fs[p])
        /\ fs' = [fs EXCEPT ![p] = None]
        /\ unlinked' = unlinked \cup {fs[p]}
        /\ UNCHANGED progVars
  /\ UNCHANGED <<files, info, now, toolVars, origin, made, purged, lost,
                 unrecorded, names>>

\* Mutant of MoveToTrash: the file is copied and stays where it was.
CopyToTrash(d) ==
  /\ pc[d] = "rename"
  /\ fs[path[d]] # None
  /\ files' = [files EXCEPT ![newname[d]] = fs[path[d]]]
  /\ lost' = lost \cup ({files[newname[d]]} \ {None})
  /\ ProgGoTo(d, "infoopen")
  /\ UNCHANGED <<fs, info, now, path, origReal, newname, calls, toolVars,
                 origin, made, purged, unlinked, unrecorded, names>>

\* rename into the trash, replacing what has that name there.
MoveToTrash(d) ==
  /\ pc[d] = "rename"
  /\ LET p == path[d]
         c == fs[p]
         i == newname[d]
     IN  /\ c # None
         /\ fs' = [fs EXCEPT ![p] = None]
         /\ files' = [files EXCEPT ![i] = c]
         /\ lost' = lost \cup ({files[i]} \ {None})
         /\ origin' = [origin EXCEPT ![c] = IF origReal[d] = p THEN p ELSE None]
         /\ unrecorded' = unrecorded \ {c}
         /\ entries' = entries \cup {i}
         /\ repeated' = repeated \cup (entries \cap {i})
  /\ ProgGoTo(d, "infoopen")
  /\ UNCHANGED <<info, now, path, origReal, newname, calls, toolVars, made,
                 purged, unlinked>>

\* rename fails (no such file any more, another file system, no permission):
\* real_unlink.
RenameFails(d) ==
  /\ pc[d] = "rename"
  /\ fs' = [fs EXCEPT ![path[d]] = None]
  /\ unlinked' = unlinked \cup ({fs[path[d]]} \ {None})
  /\ ProgReturn(d)
  /\ UNCHANGED <<files, info, now, calls, toolVars, origin, made, purged,
                 lost, unrecorded, names>>

\* write_info_file: fopen creates or truncates the file
InfoOpen(d) ==
  /\ pc[d] = "infoopen"
  /\ info' = [info EXCEPT ![newname[d]] = Empty]
  /\ ProgGoTo(d, "infowrite")
  /\ UNCHANGED <<fs, files, now, path, origReal, newname, calls, toolVars,
                 history>>

\* Mutant of InfoWrite: the buffered lines are never written out.
InfoNotFlushed(d) ==
  /\ pc[d] = "infowrite"
  /\ ProgReturn(d)
  /\ UNCHANGED <<fsVars, now, calls, toolVars, history>>

\* write_info_file: fclose writes the lines out; somebody may have removed the
\* directory entry meanwhile
InfoWrite(d) ==
  /\ pc[d] = "infowrite"
  /\ info' = [info EXCEPT ![newname[d]] = IF @ = None THEN None
                                          ELSE origReal[d]]
  /\ ProgReturn(d)
  /\ UNCHANGED <<fs, files, now, calls, toolVars, history>>

\* The file whose metadata the program has not written yet
Unwritten(d) == IF pc[d] \in {"infoopen", "infowrite"}
                THEN {files[newname[d]]} \ {None} ELSE {}

\* write_info_file: fopen fails, or the lines do not get to the disk.  Nobody
\* looks at the result, and unlink reports success.
InfoFails(d) ==
  /\ pc[d] \in {"infoopen", "infowrite"}
  /\ unrecorded' = unrecorded \cup Unwritten(d)
  /\ ProgReturn(d)
  /\ UNCHANGED <<fsVars, now, calls, toolVars, origin, made, purged, unlinked,
                 lost, names>>

\* The program ends, or is killed, wherever it is; the next one starts with
\* the same sequence of random numbers.
Exec(d) ==
  /\ unrecorded' = unrecorded \cup Unwritten(d)
  /\ ProgReturn(d)
  /\ calls' = [calls EXCEPT ![d] = 0]
  /\ UNCHANGED <<fsVars, now, toolVars, origin, made, purged, unlinked, lost,
                 names>>

-----------------------------------------------------------------------------
(***************************************************************************)
(* trashctl.  The user names an ID that he has seen in a listing, now or    *)
(* earlier: a file was moved to it.                                         *)
(***************************************************************************)
ToolGoTo(t, l) == tpc' = [tpc EXCEPT ![t] = l]

\* The command is over.
ToolReturn(t) ==
  /\ ToolGoTo(t, "idle")
  /\ todo' = [todo EXCEPT ![t] = {}]
  /\ id' = [id EXCEPT ![t] = None]
  /\ original' = [original EXCEPT ![t] = None]

\* Mutant of RestoreRead: the second in the ID is not looked at, so the metadata
\* may be that of another entry with the same number.
RestoreReadNumber(t, i) ==
  /\ tpc[t] = "idle"
  /\ \E j \in Ids : /\ j[2] = i[2] /\ info[j] \in Paths
                     /\ original' = [original EXCEPT ![t] = info[j]]
  /\ id' = [id EXCEPT ![t] = i]
  /\ ToolGoTo(t, "restore")
  /\ UNCHANGED <<fsVars, now, progVars, todo, history>>

\* restore: read the metadata; an entry without any, or without a path in it,
\* is refused
RestoreRead(t, i) ==
  /\ tpc[t] = "idle"
  /\ info[i] \in Paths
  /\ id' = [id EXCEPT ![t] = i]
  /\ original' = [original EXCEPT ![t] = info[i]]
  /\ ToolGoTo(t, "restore")
  /\ UNCHANGED <<fsVars, now, progVars, todo, history>>

\* restore: rename, replacing what is at the original path; it fails if the
\* file has left the trash meanwhile, or for another reason
RestoreRename(t) ==
  /\ tpc[t] = "restore"
  /\ \/ /\ files[id[t]] # None
        /\ fs' = [fs EXCEPT ![original[t]] = files[id[t]]]
        /\ files' = [files EXCEPT ![id[t]] = None]
        /\ lost' = lost \cup ({fs[original[t]]} \ {None})
        /\ ToolGoTo(t, "infounlink")
        /\ UNCHANGED <<todo, id, original>>
     \/ /\ ToolReturn(t)
        /\ UNCHANGED <<fs, files, lost>>
  /\ UNCHANGED <<info, now, progVars, origin, made, purged, unlinked,
                 unrecorded, names>>

\* unlink of the metadata, which may fail
RemoveInfo(i) == info' \in {info, [info EXCEPT ![i] = None]}

\* restore: remove the metadata
RestoreInfo(t) ==
  /\ tpc[t] = "infounlink"
  /\ RemoveInfo(id[t])
  /\ ToolReturn(t)
  /\ UNCHANGED <<fs, files, now, progVars, history>>

\* purge ID: one entry; purge --all: all that have metadata
PurgeStart(t, S) ==
  /\ tpc[t] = "idle"
  /\ todo' = [todo EXCEPT ![t] = S]
  /\ ToolGoTo(t, "purge")
  /\ UNCHANGED <<fsVars, now, progVars, id, original, history>>

\* cmd_purge: remove the file.  If there is none, or stat does not find it, or
\* it cannot be removed, cmd_purge goes on to the metadata all the same.
PurgeFile(t) ==
  /\ tpc[t] = "purge"
  /\ \E i \in todo[t] :
       /\ id' = [id EXCEPT ![t] = i]
       /\ todo' = [todo EXCEPT ![t] = @ \ {i}]
       /\ \/ /\ StatOk(files[i])
             /\ files' = [files EXCEPT ![i] = None]
             /\ purged' = purged \cup {files[i]}
             /\ UNCHANGED unrecorded
          \/ /\ unrecorded' = unrecorded \cup ({files[i]} \ {None})
             /\ UNCHANGED <<files, purged>>
  /\ ToolGoTo(t, "purgeinfo")
  /\ UNCHANGED <<fs, info, now, progVars, original, origin, made, unlinked,
                 lost, names>>

\* cmd_purge: remove the metadata
PurgeInfo(t) ==
  /\ tpc[t] = "purgeinfo"
  /\ RemoveInfo(id[t])
  /\ ToolGoTo(t, "purge")
  /\ id' = [id EXCEPT ![t] = None]
  /\ UNCHANGED <<fs, files, now, progVars, todo, original, history>>

\* The command is done, or the tool is killed somewhere.
ToolEnd(t) ==
  /\ tpc[t] # "idle"
  /\ ToolReturn(t)
  /\ UNCHANGED <<fsVars, now, progVars, history>>

-----------------------------------------------------------------------------
\* The rest of a call of unlink
UnlinkStep(d) == \/ MoveToTrash(d) \/ RenameFails(d)
                 \/ InfoOpen(d) \/ InfoWrite(d) \/ InfoFails(d)

ProgramStep(d) == UnlinkStep(d) \/ Exec(d) \/ \E p \in Paths : Unlink(d, p)

\* The commands: restore ID, purge ID, purge --all
Command(t) ==
  \/ \E i \in entries : RestoreRead(t, i) \/ PurgeStart(t, {i})
  \/ PurgeStart(t, {i \in Ids : info[i] # None})

ToolStep(t) == \/ Command(t) \/ RestoreRename(t) \/ RestoreInfo(t)
               \/ PurgeFile(t) \/ PurgeInfo(t) \/ ToolEnd(t)

Next == \/ Tick \/ Create
        \/ \E d \in Programs : ProgramStep(d)
        \/ \E t \in Tools : ToolStep(t)

Spec == Init /\ [][Next]_vars

-----------------------------------------------------------------------------
(***************************************************************************)
(* Properties.                                                              *)
(***************************************************************************)

\* Every variable stays in its range.
TypeOK ==
  /\ fs \in [Paths -> Content \cup {None}]
  /\ files \in [Ids -> Content \cup {None}]
  /\ info \in [Ids -> Paths \cup {None, Empty}]
  /\ now \in 0..MaxTime
  /\ pc \in [Programs -> {"run", "rename", "infoopen", "infowrite"}]
  /\ path \in [Programs -> Paths \cup {None}]
  /\ origReal \in [Programs -> Paths \cup {None}]
  /\ newname \in [Programs -> Ids \cup {None}]
  /\ calls \in [Programs -> 0..MaxCalls]
  /\ tpc \in [Tools -> {"idle", "restore", "infounlink", "purge",
                        "purgeinfo"}]
  /\ todo \in [Tools -> SUBSET Ids]
  /\ id \in [Tools -> Ids \cup {None}]
  /\ original \in [Tools -> Paths \cup {None}]
  /\ origin \in [Content -> Paths \cup {None}]
  /\ made \subseteq Content /\ purged \subseteq Content
  /\ unlinked \subseteq Content /\ lost \subseteq Content
  /\ unrecorded \subseteq Content
  /\ entries \subseteq Ids /\ repeated \subseteq Ids

\* No file is lost or doubled between the directories, whoever moves, restores
\* and purges it at the same time, and whoever is killed in between: it is at
\* one place, or it was purged, deleted by the fallback, or replaced.
OnePlace ==
  \A c \in made :
    LET at(f, S) == {x \in S : f[x] = c}
        places   == ({"fs"} \X at(fs, Paths))
                    \cup ({"trash"} \X at(files, Ids))
        ways     == {w \in {<<"purged", purged>>, <<"unlinked", unlinked>>,
                            <<"lost", lost>>} : c \in w[2]}
    IN  \/ ways = {} /\ \E x \in places : places = {x}
        \/ places = {} /\ \E w \in ways : ways = {w}

\* A file in the trash can be restored: it has metadata, whatever others delete,
\* purge and restore meanwhile and whoever is killed, unless its program is
\* still about to write it, the file is in unrecorded, or its ID was given to
\* two files, one of which can take the other's metadata away
\* (trash_unlink.c 53-94, 122-133, purge.c 47-67).
FileHasInfo ==
  \A i \in Ids \ repeated : files[i] # None =>
    \/ info[i] \in Paths
    \/ files[i] \in unrecorded
    \/ \E d \in Programs : /\ newname[d] = i
                           /\ pc[d] \in {"infoopen", "infowrite"}

\* restore moves a file back to the path it was deleted from, although unlink
\* and restore take the name, the metadata and the file in separate steps and
\* nobody locks anything, unless its ID was given to two files or realpath met
\* a link at its path (restore.c 15-43, trash_unlink.c 96-133).
RestoresToOrigin ==
  [][\A t \in Tools :
       tpc[t] = "restore" /\ tpc'[t] = "infounlink" =>
         \/ id[t] \in repeated
         \/ origin[files[id[t]]] \in {None, original[t]}]_vars

=============================================================================
