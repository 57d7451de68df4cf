------------------------------- MODULE Browser -------------------------------
(***************************************************************************)
(* CourseWork: trashctl browse, the full-screen browser, composed with the  *)
(* interceptor and with other trashctl processes.  One process is two       *)
(* actors of Trash: Viewer, the tool that restores and purges, and          *)
(* ViewerCalls, the program whose unlink the preloaded library replaces     *)
(* (Del).  The browser keeps nothing but the position of its cursor: it     *)
(* reads the directory again for every key and for every picture, so what   *)
(* is under the cursor when a key is handled need not be what was there     *)
(* when the user looked.                                                    *)
(*                                                                          *)
(* The files of Paths are in one directory, "dir", together with .trash     *)
(* (TRASH_BASE is that directory, as an absolute path); "up" is a directory *)
(* above it.  The user does not open .trash as a directory.  The size of    *)
(* the window never changes: resizeterm(0, 0) refuses its arguments.        *)
(***************************************************************************)
EXTENDS Trash, Ordering, SequencesExt

CONSTANTS Viewer,       \* the browser, as a tool
          ViewerCalls,  \* the browser, as a program that calls unlink
          NameOrder,    \* <<p, q>>: the name p comes before the name q
          VisibleItems  \* visible_items(): lines in the window

ASSUME BrowserAssumption ==
  /\ Viewer \in Tools /\ ViewerCalls \in Programs
  /\ IsFiniteSet(Paths) /\ Orders(NameOrder, Paths)
  /\ VisibleItems \in Nat \ {0}
  /\ Paths \cap {".", "..", ".trash", "dir"} = {}

VARIABLES
  bpc,       \* where cmd_browse is
  mode,      \* "fs" or "trash"
  cwd,       \* the directory it shows
  highlight, \* the cursor: an index into the list
  offset,    \* scroll_offset: the index in the first line of the window
  winch,     \* winch_flag
  target,    \* the entry that the command is about
  ok,        \* cmd_purge's local variable ok
  shown,     \* history: the list as it was last drawn
  foreign,   \* history: somebody else changed a directory since then
  outrun     \* history: ... and so left the cursor beyond the list

cursor      == <<mode, cwd, highlight, offset>>
picture     == <<shown, foreign, outrun>>
browserVars == <<bpc, cursor, winch, target, ok, picture>>
allVars     == <<vars, browserVars>>

\* cmp_entry: by the name in the metadata, "" if there is none, and as readdir
\* gives them if that is the same
CmpName(i, j) ==
  \/ info[i] \notin Paths /\ info[j] \in Paths
  \/ info[i] \in Paths /\ info[j] \in Paths /\ <<info[i], info[j]>> \in NameOrder

CmpEntry(i, j) ==
  \/ CmpName(i, j)
  \/ ~CmpName(j, i) /\ (i[1] < j[1] \/ (i[1] = j[1] /\ i[2] < j[2]))

Trashed == {i \in Ids : files[i] # None}

BuildTrashEntries ==
  Arranged({e \in Trashed \X Trashed : CmpEntry(e[1], e[2])}, Trashed)

\* What readdir yields of cwd.  An entry of a directory is <<name>>, one of the
\* trash is an ID.
ReadCwd ==
  LET dirents == IF cwd = "up" THEN <<".", "..", "dir">>
                 ELSE <<".", "..", ".trash">>
                      \o Arranged(NameOrder, {p \in Paths : fs[p] # None})
  IN  [k \in DOMAIN dirents |-> <<dirents[k]>>]

Items == IF mode = "fs" THEN ReadCwd ELSE BuildTrashEntries

Entries == Ids \cup {<<n>> : n \in Paths \cup {".", "..", ".trash", "dir"}}

BrowserInit ==
  /\ Init
  /\ bpc = "draw"
  /\ mode = "fs" /\ cwd = "dir" /\ highlight = 0 /\ offset = 0
  /\ winch = FALSE
  /\ target = None /\ ok = 0
  /\ shown = <<>> /\ foreign = FALSE /\ outrun = FALSE

-----------------------------------------------------------------------------
(***************************************************************************)
(* The loop: draw, wait for a key.                                          *)
(***************************************************************************)

\* Mutant of DrawList: the list scrolls one line too late.
DrawListLate ==
  /\ bpc = "draw"
  /\ shown' = Items
  /\ offset' = IF mode = "fs" \/ Items = <<>> THEN offset
               ELSE IF highlight < offset THEN highlight
               ELSE IF highlight > offset + VisibleItems
                    THEN highlight - VisibleItems
               ELSE offset
  /\ outrun' = ((foreign \/ outrun) /\ highlight > Len(Items))
  /\ foreign' = FALSE
  /\ bpc' = "keys"
  /\ UNCHANGED <<vars, mode, cwd, highlight, winch, target, ok>>

\* draw_list: the list of the trash scrolls to the cursor, that of a directory
\* does not
DrawList ==
  /\ bpc = "draw"
  /\ shown' = Items
  /\ offset' = IF mode = "fs" \/ Items = <<>> THEN offset
               ELSE IF highlight < offset THEN highlight
               ELSE IF highlight >= offset + VisibleItems
                    THEN highlight - VisibleItems + 1
               ELSE offset
  /\ outrun' = ((foreign \/ outrun) /\ highlight > Len(Items))
  /\ foreign' = FALSE
  /\ bpc' = "keys"
  /\ UNCHANGED <<vars, mode, cwd, highlight, winch, target, ok>>

\* wgetch has returned a key to the switch.
Key == bpc = "keys" /\ ~winch

\* The key only moves the cursor to h, or to the top of a list; then it draws.
Show(m, c, h, o) ==
  /\ mode' = m /\ cwd' = c /\ highlight' = h /\ offset' = o
  /\ bpc' = "draw"
  /\ UNCHANGED <<vars, winch, target, ok, picture>>

KeyT == Key /\ Show(IF mode = "fs" THEN "trash" ELSE "fs", cwd, 0, 0)

\* Mutant of KeyUp: the cursor goes above the list.
KeyUpFree == Key /\ Show(mode, cwd, highlight - 1, offset)

KeyUp == Key /\ highlight > 0 /\ Show(mode, cwd, highlight - 1, offset)

KeyDown ==
  Key /\ highlight < Len(Items) - 1 /\ Show(mode, cwd, highlight + 1, offset)

\* The entry under the cursor of the list that is read now
UnderCursor(x) == highlight < Len(Items) /\ x = Items[highlight + 1]

\* Enter opens a directory.
KeyEnter ==
  /\ Key /\ mode = "fs"
  /\ \/ UnderCursor(<<".">>) /\ Show(mode, cwd, 0, 0)
     \/ UnderCursor(<<"..">>) /\ Show(mode, "up", 0, 0)
     \/ UnderCursor(<<"dir">>) /\ Show(mode, "dir", 0, 0)

\* Backspace cuts the last name off cwd: that leads up, or, if it was . or ..,
\* to a directory that was open before.
KeyBackspace ==
  Key /\ mode = "fs" /\ \E c \in {"dir", "up"} : Show(mode, c, 0, 0)

\* F1, its window and the key that closes it; a key that does nothing
KeyOther == Key /\ Show(mode, cwd, highlight, offset)

\* The flag is looked at when a key has come: before that it does not matter
\* when the signal arrived.
OnWinch ==
  /\ bpc = "keys"
  /\ winch' = TRUE
  /\ UNCHANGED <<vars, bpc, cursor, target, ok, picture>>

\* After SIGWINCH the next key, whatever it is (but q), draws and is dropped.
KeyDropped ==
  /\ bpc = "keys" /\ winch
  /\ winch' = FALSE
  /\ bpc' = "draw"
  /\ UNCHANGED <<vars, cursor, target, ok, picture>>

-----------------------------------------------------------------------------
(***************************************************************************)
(* Commands: the list is read again, the entry under the cursor taken, and  *)
(* the command of the interceptor, of restore or of purge carried out.      *)
(***************************************************************************)
Take(m, l) ==
  /\ Key /\ mode = m
  /\ \E x \in ToSet(Items) : UnderCursor(x) /\ target' = x
  /\ ok' = 0
  /\ bpc' = l
  /\ UNCHANGED <<vars, cursor, winch, picture>>

KeyDel == calls[ViewerCalls] < MaxCalls /\ Take("fs", "del")
KeyR   == Take("trash", "restore")
KeyD   == Take("trash", "purge")

\* unlink of a directory: rename and real_unlink both fail; a name was made up,
\* unless the path lies in the trash.  unlink of a file that is gone: the same,
\* without a name.
DelFails ==
  /\ bpc = "del"
  /\ target[1] \in Paths => fs[target[1]] = None
  /\ calls' = IF target[1] \in {".", "..", "dir"}
              THEN [calls EXCEPT ![ViewerCalls] = @ + 1] ELSE calls
  /\ bpc' = "draw"
  /\ target' = None
  /\ UNCHANGED <<fsVars, now, pc, path, origReal, newname, toolVars, history,
                 cursor, winch, ok, picture>>

Del ==
  /\ bpc = "del"
  /\ target[1] \in Paths /\ Unlink(ViewerCalls, target[1])
  /\ bpc' = "deleting"
  /\ UNCHANGED <<cursor, winch, target, ok, picture>>

\* The rest of unlink
Deleting ==
  /\ bpc = "deleting"
  /\ UnlinkStep(ViewerCalls)
  /\ UNCHANGED browserVars

\* cmd_restore: refused without metadata
Restore ==
  /\ bpc = "restore"
  /\ \/ /\ RestoreRead(Viewer, target)
        /\ bpc' = "restoring"
     \/ /\ info[target] \notin Paths
        /\ bpc' = "done"
        /\ UNCHANGED vars
  /\ UNCHANGED <<cursor, winch, target, ok, picture>>

Restoring ==
  /\ bpc = "restoring"
  /\ RestoreRename(Viewer) \/ RestoreInfo(Viewer)
  /\ UNCHANGED browserVars

Purge ==
  /\ bpc = "purge"
  /\ PurgeStart(Viewer, {target})
  /\ bpc' = "purging"
  /\ UNCHANGED <<cursor, winch, target, ok, picture>>

\* cmd_purge counts in ok what it has removed.
Purging ==
  /\ bpc \in {"purging", "purgingall"}
  /\ PurgeFile(Viewer) \/ PurgeInfo(Viewer)
  /\ ok' = IF bpc = "purging" /\ <<files, info>>' # <<files, info>>
           THEN ok + 1 ELSE ok
  /\ UNCHANGED <<bpc, cursor, winch, target, picture>>

\* Mutant of KeyPurgeAll: the cursor stays where it was.
KeyPurgeAllStays ==
  /\ Key /\ mode = "trash"
  /\ PurgeStart(Viewer, {i \in Ids : info[i] # None})
  /\ bpc' = "purgingall"
  /\ UNCHANGED <<cursor, winch, target, ok, picture>>

\* D.  The cursor goes to the top at the end, before the list is drawn; nobody
\* looks at it in between.
KeyPurgeAll ==
  /\ Key /\ mode = "trash"
  /\ PurgeStart(Viewer, {i \in Ids : info[i] # None})
  /\ highlight' = 0 /\ offset' = 0
  /\ bpc' = "purgingall"
  /\ UNCHANGED <<mode, cwd, winch, target, ok, picture>>

\* The command has returned: one successful purge moves the cursor up.
CommandDone ==
  /\ \/ bpc = "deleting" /\ pc[ViewerCalls] = "run" /\ UNCHANGED vars
     \/ bpc = "restoring" /\ tpc[Viewer] = "idle" /\ UNCHANGED vars
     \/ bpc = "done" /\ UNCHANGED vars
     \/ /\ bpc \in {"purging", "purgingall"}
        /\ todo[Viewer] = {} /\ tpc[Viewer] = "purge"
        /\ ToolEnd(Viewer)
  /\ highlight' = IF bpc = "purging" /\ ok = 2 /\ highlight > 0
                  THEN highlight - 1 ELSE highlight
  /\ bpc' = "draw"
  /\ target' = None /\ ok' = 0
  /\ UNCHANGED <<mode, cwd, offset, winch, picture>>

-----------------------------------------------------------------------------
(***************************************************************************)
(* The end: q, or _exit in the SIGINT handler, wherever the process is.     *)
(***************************************************************************)
Gone ==
  /\ bpc' = "gone"
  /\ mode' = "fs" /\ cwd' = "dir" /\ highlight' = 0 /\ offset' = 0
  /\ winch' = FALSE /\ target' = None /\ ok' = 0
  /\ shown' = <<>> /\ foreign' = FALSE /\ outrun' = FALSE

KeyQ == bpc = "keys" /\ Gone /\ UNCHANGED vars

OnSigint ==
  /\ bpc # "gone"
  /\ ProgReturn(ViewerCalls) /\ ToolReturn(Viewer)
  /\ unrecorded' = unrecorded \cup Unwritten(ViewerCalls)
  /\ Gone
  /\ UNCHANGED <<fsVars, now, calls, origin, made, purged, unlinked, lost,
                 names>>

-----------------------------------------------------------------------------
\* Time, other programs that create files, other trashctl processes
Others ==
  /\ Tick \/ Create \/ \E t \in Tools \ {Viewer} : ToolStep(t)
  /\ foreign' = (bpc # "gone" /\ (foreign \/ fsVars' # fsVars))
  /\ UNCHANGED <<bpc, cursor, winch, target, ok, shown, outrun>>

Keys == \/ KeyT \/ KeyUp \/ KeyDown \/ KeyEnter \/ KeyBackspace \/ KeyDel
        \/ KeyR \/ KeyD \/ KeyPurgeAll \/ KeyOther \/ KeyDropped \/ KeyQ

Commands == \/ Del \/ DelFails \/ Deleting \/ Restore \/ Restoring
            \/ Purge \/ Purging \/ CommandDone

BrowserNext == DrawList \/ Keys \/ Commands \/ OnWinch \/ OnSigint \/ Others

BrowserSpec == BrowserInit /\ [][BrowserNext]_allVars

-----------------------------------------------------------------------------
(***************************************************************************)
(* Properties.                                                              *)
(***************************************************************************)

\* Every variable stays in its range, those of Trash included.
BrowserTypeOK ==
  /\ TypeOK
  /\ bpc \in {"draw", "keys", "del", "deleting", "restore", "restoring",
              "purge", "purging", "purgingall", "done", "gone"}
  /\ mode \in {"fs", "trash"} /\ cwd \in {"dir", "up"}
  /\ highlight \in Nat /\ offset \in Nat
  /\ winch \in BOOLEAN
  /\ target \in Entries \cup {None}
  /\ ok \in 0..2
  /\ ToSet(shown) \subseteq Entries
  /\ foreign \in BOOLEAN /\ outrun \in BOOLEAN

\* What a step takes out of a directory.
Taken == {i \in Ids : files[i] # None /\ files'[i] = None}
         \cup {<<p>> : p \in {q \in Paths : fs[q] # None /\ fs'[q] = None}}

\* What a command of the browser takes away is what the user saw when he
\* pressed the key, however many times the list is read again in between,
\* unless another process interfered: r and d restore and purge only the entry
\* under the cursor of the last picture, and the cursor was in the window; Del
\* deletes only the entry under the cursor (in the list of a directory, which
\* does not scroll, the cursor itself may be out of sight); D purges only what
\* was in the list (browser.c 170-236, 486-586).
TakesOnlyWhatWasShown ==
  [][bpc # "gone" /\ ~foreign' /\ Taken # {} =>
       IF bpc = "purgingall" THEN Taken \subseteq ToSet(shown)
       ELSE /\ highlight < Len(shown) /\ Taken = {shown[highlight + 1]}
            /\ mode = "trash" => /\ offset <= highlight
                                 /\ highlight < offset + VisibleItems
    ]_allVars

\* The browser's own commands leave the cursor in the list or just below it
\* (restoring the last entry does that: browser.c 505-530 does not move the
\* cursor); only another process can leave it farther away.
CursorAtList == bpc = "keys" => highlight <= Len(shown) \/ outrun

=============================================================================
