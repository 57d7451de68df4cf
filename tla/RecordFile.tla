----------------------------- MODULE RecordFile -----------------------------
(***************************************************************************)
(* lab07: processes that show and edit the fixed-size records of one file.  *)
(* GET reads a record under a shared lock of its bytes.  PUT reads it       *)
(* without a lock, lets the user edit a copy, takes an exclusive lock and   *)
(* writes only if the record has not changed since; otherwise it gives the  *)
(* lock back and asks the user.  INIT rewrites the file without any lock.   *)
(*                                                                          *)
(* Locks are open-file-description locks: they go with the descriptor when  *)
(* the process ends.  A process runs one command at a time, so a client's   *)
(* descriptor, its lock and its local variables are functions of the        *)
(* client.  A write is two steps, because a reader without a lock may see   *)
(* the bytes of a record half replaced.  name and address are edited by the *)
(* same statements; the model has one of them, `text`.  LST and messages    *)
(* change nothing and are left out.                                         *)
(***************************************************************************)
EXTENDS Naturals

CONSTANTS Clients,      \* processes
          RecCount,     \* RECORD_COUNT
          Texts,        \* what a user may type for a text field
          Sems,         \* semesters
          NoRec,        \* no record in a local variable
          Absent        \* beyond the end of the file

Blank  == ""            \* the empty string
RecNos == 0..(RecCount - 1)
Rec    == [text : Texts \cup {Blank}, sem : Sems]

\* A record in a hole of the file: all its bytes are 0.
Zero == [text |-> Blank, sem |-> 0]

ASSUME RecordFileAssumption ==
  /\ RecCount \in Nat \ {0}
  /\ Sems \subseteq Nat /\ {0, 1} \subseteq Sems
  /\ Blank \notin Texts /\ Texts # {}
  /\ NoRec \notin Rec /\ Absent \notin Rec

VARIABLES
  file,   \* file[r]: the record at position r, or Absent
  pc,     \* pc[p]: where client p is in its command
  rec,    \* rec[p]: its argument rec_no; in INIT, the loop variable
  orig,   \* orig[p]: the record as the user saw it
  work,   \* work[p]: the edited copy
  shown,  \* shown[p]: the record GET prints
  lock,   \* lock[p]: the lock its descriptor holds on record rec[p]
  cut,    \* history: an INIT was interrupted or could not write
  inited  \* history: somebody typed INIT

vars == <<file, pc, rec, orig, work, shown, lock, cut, inited>>

\* The records INIT writes.
InitialRec(i) == [text |-> CHOOSE t \in Texts : TRUE, sem |-> i % 2]

Init ==
  /\ file = [r \in RecNos |-> InitialRec(r)]
  /\ pc = [p \in Clients |-> "idle"]
  /\ rec = [p \in Clients |-> 0]
  /\ orig = [p \in Clients |-> NoRec]
  /\ work = [p \in Clients |-> NoRec]
  /\ shown = [p \in Clients |-> NoRec]
  /\ lock = [p \in Clients |-> "none"]
  /\ cut = FALSE /\ inited = FALSE

-----------------------------------------------------------------------------
\* Client p goes to pc l; back at the prompt its local variables are gone.
GoTo(p, l) == pc' = [pc EXCEPT ![p] = l]

Return(p) ==
  /\ GoTo(p, "idle")
  /\ rec' = [rec EXCEPT ![p] = 0]
  /\ orig' = [orig EXCEPT ![p] = NoRec]
  /\ work' = [work EXCEPT ![p] = NoRec]
  /\ shown' = [shown EXCEPT ![p] = NoRec]
  /\ lock' = [lock EXCEPT ![p] = "none"]

\* Mutant of LockRecord: an exclusive lock is granted beside shared ones.
LockRecordBesideReaders(p, type) ==
  /\ \A q \in Clients \ {p} : rec[q] = rec[p] => lock[q] # "wr"
  /\ lock' = [lock EXCEPT ![p] = type]

\* fcntl(F_OFD_SETLKW): wait until no other descriptor has a lock on the
\* record, or, for a shared lock, until no other has an exclusive one.
LockRecord(p, type) ==
  /\ \A q \in Clients \ {p} :
        rec[q] = rec[p] => lock[q] = "none" \/ (type = "rd" /\ lock[q] = "rd")
  /\ lock' = [lock EXCEPT ![p] = type]

\* Mutant of UnlockRecord: the lock stays.
UnlockRecordFails(p) == lock' = lock

UnlockRecord(p) == lock' = [lock EXCEPT ![p] = "none"]

\* write_record: the file grows if need be, with zeros in between.
WriteRecord(f, r, v) ==
  [i \in RecNos |-> IF i = r THEN v
                    ELSE IF i < r /\ f[i] = Absent THEN Zero
                    ELSE f[i]]

\* A record in the middle of being overwritten; one that makes the file longer
\* is not there until it is complete.
HalfWritten(old, new) ==
  IF old = Absent THEN Absent ELSE [old EXCEPT !.text = new.text]

-----------------------------------------------------------------------------
(***************************************************************************)
(* cmd_get                                                                  *)
(***************************************************************************)
CmdGet(p) ==
  /\ pc[p] = "idle"
  /\ \E r \in RecNos : rec' = [rec EXCEPT ![p] = r]
  /\ GoTo(p, "getlock")
  /\ UNCHANGED <<file, orig, work, shown, lock, cut, inited>>

GetLock(p) ==
  /\ pc[p] = "getlock"
  /\ LockRecord(p, "rd")
  /\ GoTo(p, "getread")
  /\ UNCHANGED <<file, rec, orig, work, shown, cut, inited>>

\* Mutant of GetRead: the result of read_record is not looked at.
GetReadUnchecked(p) ==
  /\ pc[p] = "getread"
  /\ shown' = [shown EXCEPT ![p] = file[rec[p]]]
  /\ GoTo(p, "getdone")
  /\ UNCHANGED <<file, rec, orig, work, lock, cut, inited>>

GetRead(p) ==
  /\ pc[p] = "getread"
  /\ shown' = [shown EXCEPT ![p] =
                 IF file[rec[p]] = Absent THEN NoRec ELSE file[rec[p]]]
  /\ GoTo(p, "getdone")
  /\ UNCHANGED <<file, rec, orig, work, lock, cut, inited>>

\* unlock_record, close
GetDone(p) ==
  /\ pc[p] = "getdone"
  /\ Return(p)
  /\ UNCHANGED <<file, cut, inited>>

-----------------------------------------------------------------------------
(***************************************************************************)
(* cmd_put                                                                  *)
(***************************************************************************)
CmdPut(p) ==
  /\ pc[p] = "idle"
  /\ \E r \in RecNos : rec' = [rec EXCEPT ![p] = r]
  /\ GoTo(p, "putread")
  /\ UNCHANGED <<file, orig, work, shown, lock, cut, inited>>

\* Again: read the record without a lock
PutRead(p) ==
  /\ pc[p] = "putread"
  /\ \/ /\ file[rec[p]] # Absent
        /\ orig' = [orig EXCEPT ![p] = file[rec[p]]]
        /\ GoTo(p, "edit")
        /\ UNCHANGED <<rec, work, shown, lock>>
     \/ /\ file[rec[p]] = Absent
        /\ Return(p)
  /\ UNCHANGED <<file, cut, inited>>

\* The user's answers.  fgets puts a typed line into the field, the empty line
\* of a bare Enter too; at the end of the input it leaves the field alone.
\* The semester is kept on Enter; after the end of the input its buffer is
\* uninitialised and atoi may give anything.
PutEdit(p) ==
  /\ pc[p] = "edit"
  /\ \E t \in Texts \cup {Blank, orig[p].text}, s \in Sems :
       LET edited == [text |-> t, sem |-> s]
       IN  IF edited = orig[p]
             THEN Return(p)
             ELSE /\ work' = [work EXCEPT ![p] = edited]
                  /\ GoTo(p, "putlock")
                  /\ UNCHANGED <<rec, orig, shown, lock>>
  /\ UNCHANGED <<file, cut, inited>>

PutLock(p) ==
  /\ pc[p] = "putlock"
  /\ LockRecord(p, "wr")
  /\ GoTo(p, "check")
  /\ UNCHANGED <<file, rec, orig, work, shown, cut, inited>>

\* Read again and compare: write, or give the lock back and ask, or give up
\* if the record is gone.
PutCheck(p) ==
  /\ pc[p] = "check"
  /\ \/ /\ file[rec[p]] = orig[p]
        /\ GoTo(p, "write")
        /\ UNCHANGED <<rec, orig, work, shown, lock>>
     \/ /\ file[rec[p]] \notin {orig[p], Absent}
        /\ UnlockRecord(p)
        /\ orig' = [orig EXCEPT ![p] = file[rec[p]]]
        /\ work' = [work EXCEPT ![p] = file[rec[p]]]
        /\ GoTo(p, "conflict")
        /\ UNCHANGED <<rec, shown>>
     \/ /\ file[rec[p]] = Absent
        /\ Return(p)
  /\ UNCHANGED <<file, cut, inited>>

\* '-' gives up, any other answer starts over.
PutConflict(p) ==
  /\ pc[p] = "conflict"
  /\ \/ Return(p)
     \/ GoTo(p, "putread") /\ UNCHANGED <<rec, orig, work, shown, lock>>
  /\ UNCHANGED <<file, cut, inited>>

\* write_record, its first bytes; or it fails and changes nothing
PutWrite(p) ==
  /\ pc[p] = "write"
  /\ \/ /\ file' = [file EXCEPT ![rec[p]] = HalfWritten(@, work[p])]
        /\ GoTo(p, "half")
     \/ /\ GoTo(p, "putdone")
        /\ UNCHANGED file
  /\ UNCHANGED <<rec, orig, work, shown, lock, cut, inited>>

\* write_record, the rest
PutWritten(p) ==
  /\ pc[p] = "half"
  /\ file' = WriteRecord(file, rec[p], work[p])
  /\ GoTo(p, "putdone")
  /\ UNCHANGED <<rec, orig, work, shown, lock, cut, inited>>

\* unlock_record, close
PutDone(p) ==
  /\ pc[p] = "putdone"
  /\ Return(p)
  /\ UNCHANGED <<file, cut, inited>>

-----------------------------------------------------------------------------
(***************************************************************************)
(* init_file: open with O_TRUNC, then one write per record, stopping at the *)
(* first that fails.  No lock anywhere.                                     *)
(***************************************************************************)
CmdInit(p) ==
  /\ pc[p] = "idle"
  /\ file' = [r \in RecNos |-> Absent]
  /\ GoTo(p, "init")
  /\ inited' = TRUE
  /\ UNCHANGED <<rec, orig, work, shown, lock, cut>>

\* Mutant of InitWrite: the loop ends one record too early.
InitWriteShort(p) ==
  /\ pc[p] = "init"
  /\ \/ /\ file' = WriteRecord(file, rec[p], InitialRec(rec[p]))
        /\ IF rec[p] + 2 < RecCount
             THEN /\ rec' = [rec EXCEPT ![p] = rec[p] + 1]
                  /\ UNCHANGED <<pc, orig, work, shown, lock>>
             ELSE Return(p)
        /\ UNCHANGED cut
     \/ /\ Return(p)
        /\ cut' = TRUE
        /\ UNCHANGED file
  /\ UNCHANGED inited

InitWrite(p) ==
  /\ pc[p] = "init"
  /\ \/ /\ file' = WriteRecord(file, rec[p], InitialRec(rec[p]))
        /\ IF rec[p] + 1 < RecCount
             THEN /\ rec' = [rec EXCEPT ![p] = rec[p] + 1]
                  /\ UNCHANGED <<pc, orig, work, shown, lock>>
             ELSE Return(p)
        /\ UNCHANGED cut
     \/ /\ Return(p)
        /\ cut' = TRUE
        /\ UNCHANGED file
  /\ UNCHANGED inited

\* Ctrl-C: handle_sigint exits, which closes the descriptor.  A write that
\* has begun is completed first.  The user may start the program again.
Sigint(p) ==
  /\ pc[p] \notin {"idle", "half"}
  /\ Return(p)
  /\ cut' = (cut \/ pc[p] = "init")
  /\ UNCHANGED <<file, inited>>

-----------------------------------------------------------------------------
\* What the program does by itself, and what it does when its user acts.
ClientStep(p) == \/ GetLock(p) \/ GetRead(p) \/ GetDone(p)
                 \/ PutRead(p) \/ PutLock(p) \/ PutCheck(p) \/ PutWrite(p)
                 \/ PutWritten(p) \/ PutDone(p) \/ InitWrite(p)

UserStep(p) == \/ CmdGet(p) \/ CmdPut(p) \/ CmdInit(p)
               \/ PutEdit(p) \/ PutConflict(p) \/ Sigint(p)

Next == \E p \in Clients : ClientStep(p) \/ UserStep(p)

Spec == Init /\ [][Next]_vars

\* A process that can run keeps running; the users need not do anything, and
\* nothing is assumed of the order in which waiting locks are granted.
FairSpec == Spec /\ \A p \in Clients : WF_vars(ClientStep(p))

-----------------------------------------------------------------------------
(***************************************************************************)
(* Properties.                                                              *)
(***************************************************************************)

\* Every variable stays in its range.
TypeOK ==
  /\ file \in [RecNos -> Rec \cup {Absent}]
  /\ pc \in [Clients -> {"idle", "getlock", "getread", "getdone", "putread",
                         "edit", "putlock", "check", "conflict", "write",
                         "half", "putdone", "init"}]
  /\ rec \in [Clients -> RecNos]
  /\ orig \in [Clients -> Rec \cup {NoRec}]
  /\ work \in [Clients -> Rec \cup {NoRec}]
  /\ shown \in [Clients -> Rec \cup {NoRec}]
  /\ lock \in [Clients -> {"none", "rd", "wr"}]
  /\ cut \in BOOLEAN /\ inited \in BOOLEAN

\* The contents without the writes that are under way.
Committed ==
  [r \in RecNos |->
     IF \E p \in Clients : pc[p] = "half" /\ rec[p] = r
       THEN orig[CHOOSE p \in Clients : pc[p] = "half" /\ rec[p] = r]
       ELSE file[r]]

Store == INSTANCE CasStore WITH
           Client <- Clients, Register <- RecNos, Value <- Rec,
           Nothing <- NoRec, store <- Committed, base <- orig, shown <- shown

\* As long as nobody has typed INIT, the editors implement compare-and-set
\* registers: no PUT overwrites a change its user has not been shown, and GET
\* never shows half a write (main.c 129-223).
ImplementsCas == [][~inited' => Store!Next \/ UNCHANGED Store!vars]_vars

\* A lock that was granted is given back whatever the users do or do not do:
\* it is never kept across a question to the user (main.c 144, 201, 221).
LocksReleased ==
  \A p \in Clients : (lock[p] # "none") ~> (lock[p] = "none")

\* Whoever truncates the file fills it again: when no INIT is under way and
\* none was cut short, all records are there, although other INITs truncate
\* and PUTs write into the half-filled file meanwhile (main.c 98-113).
InitFillsFile ==
  (\A p \in Clients : pc[p] # "init") /\ ~cut =>
     \A r \in RecNos : file[r] # Absent

=============================================================================
