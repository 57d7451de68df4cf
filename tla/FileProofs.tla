----------------------------- MODULE FileProofs -----------------------------
(***************************************************************************)
(* Proofs about the two programs that work in place on a file of records.   *)
(* The record editor of lab07, for every set of processes, number of        *)
(* records and set of values: every variable stays in its range, whoever    *)
(* truncates the file fills it again, and until the first INIT the editors  *)
(* implement the compare-and-set registers of CasStore.  The parallel sort  *)
(* of lab06, for every number of threads, of blocks and of records, every   *)
(* input and every schedule: no block is sorted twice, and every round      *)
(* leaves sorted runs unless a memcpy met a reader of its pair.             *)
(***************************************************************************)
EXTENDS RecordFile, SortIndex, DataTheorems, SequenceTheorems,
        FiniteSetTheorems, TLAPS

-----------------------------------------------------------------------------
(***************************************************************************)
(* The record editor: its inductive invariant.                              *)
(***************************************************************************)

\* A client holds a lock exactly between lock_record and unlock_record; what
\* it has read and edited is there when it needs it, and gone otherwise.
LocalInv ==
  \A p \in Clients :
    /\ lock[p] = (IF pc[p] \in {"check", "write", "half", "putdone"} THEN "wr"
                  ELSE IF pc[p] \in {"getread", "getdone"} THEN "rd"
                  ELSE "none")
    /\ pc[p] \in {"edit", "putlock", "check", "conflict", "write", "half",
                  "putdone"} => orig[p] \in Rec
    /\ pc[p] \in {"idle", "getlock", "getread", "getdone"} => orig[p] = NoRec
    /\ pc[p] \in {"putlock", "check", "write", "half", "putdone"} =>
         work[p] \in Rec
    /\ pc[p] # "getdone" => shown[p] = NoRec

\* An exclusive lock excludes every other lock of the record.
LockInv ==
  \A p, q \in Clients :
    p # q /\ rec[p] = rec[q] /\ lock[p] = "wr" => lock[q] = "none"

\* As long as nobody has typed INIT every record is there, and between the
\* comparison and the write the record is what the comparison found.
WriteInv ==
  ~inited =>
    /\ \A r \in RecNos : file[r] \in Rec
    /\ \A p \in Clients : /\ pc[p] # "init"
                          /\ pc[p] = "write" => file[rec[p]] = orig[p]

IndInv == TypeOK /\ LocalInv /\ LockInv /\ WriteInv

-----------------------------------------------------------------------------
(***************************************************************************)
(* Types.                                                                   *)
(***************************************************************************)

\* What init_file writes is a record.
LEMMA InitialRecType ==
  ASSUME NEW i \in RecNos
  PROVE  InitialRec(i) \in Rec
<1>1. (CHOOSE t \in Texts : TRUE) \in Texts
  BY RecordFileAssumption
<1>2. i \in Nat /\ i % 2 \in {0, 1}
  BY RecordFileAssumption DEF RecNos
<1>3. i % 2 \in Sems
  BY <1>2, RecordFileAssumption
<1> QED BY <1>1, <1>3 DEF InitialRec, Rec

\* A hole of the file reads as a record.
LEMMA ZeroType == Zero \in Rec
<1> QED BY RecordFileAssumption DEF Zero, Rec

\* A record whose text alone is replaced is a record.
LEMMA HalfWrittenType ==
  ASSUME NEW old \in Rec \cup {Absent}, NEW new \in Rec
  PROVE  /\ HalfWritten(old, new) \in Rec \cup {Absent}
         /\ HalfWritten(old, new) = Absent <=> old = Absent
<1>1. CASE old = Absent
  BY <1>1 DEF HalfWritten
<1>2. CASE old # Absent
  <2>1. old \in Rec
    BY <1>2
  <2>2. [old EXCEPT !.text = new.text] \in Rec
    BY <2>1 DEF Rec
  <2> QED BY <1>2, <2>2, RecordFileAssumption DEF HalfWritten
<1> QED BY <1>1, <1>2

\* write_record leaves a file of records, fills every position below the one
\* it writes and takes no record away.
LEMMA WriteRecordFacts ==
  ASSUME NEW f \in [RecNos -> Rec \cup {Absent}], NEW r \in RecNos, NEW v \in Rec
  PROVE  /\ WriteRecord(f, r, v) \in [RecNos -> Rec \cup {Absent}]
         /\ WriteRecord(f, r, v)[r] = v
         /\ \A i \in RecNos : i <= r => WriteRecord(f, r, v)[i] # Absent
         /\ \A i \in RecNos : f[i] # Absent => WriteRecord(f, r, v)[i] # Absent
         /\ \A i \in RecNos :
              i # r /\ f[i] # Absent => WriteRecord(f, r, v)[i] = f[i]
<1>1. Zero \in Rec /\ Absent \notin Rec
  BY ZeroType, RecordFileAssumption
<1>2. RecNos \subseteq Nat
  BY RecordFileAssumption DEF RecNos
<1> QED BY <1>1, <1>2 DEF WriteRecord

\* Back at the prompt every local variable has its initial value.
LEMMA ReturnKeeps ==
  ASSUME TypeOK, LocalInv, LockInv, NEW p \in Clients, Return(p)
  PROVE  /\ pc' \in [Clients -> {"idle", "getlock", "getread", "getdone",
                         "putread", "edit", "putlock", "check", "conflict",
                         "write", "half", "putdone", "init"}]
         /\ rec' \in [Clients -> RecNos]
         /\ orig' \in [Clients -> Rec \cup {NoRec}]
         /\ work' \in [Clients -> Rec \cup {NoRec}]
         /\ shown' \in [Clients -> Rec \cup {NoRec}]
         /\ lock' \in [Clients -> {"none", "rd", "wr"}]
         /\ LocalInv' /\ LockInv'
<1>1. 0 \in RecNos
  BY RecordFileAssumption DEF RecNos
<1>2. /\ pc' \in [Clients -> {"idle", "getlock", "getread", "getdone",
                         "putread", "edit", "putlock", "check", "conflict",
                         "write", "half", "putdone", "init"}]
      /\ rec' \in [Clients -> RecNos]
      /\ orig' \in [Clients -> Rec \cup {NoRec}]
      /\ work' \in [Clients -> Rec \cup {NoRec}]
      /\ shown' \in [Clients -> Rec \cup {NoRec}]
      /\ lock' \in [Clients -> {"none", "rd", "wr"}]
  BY <1>1 DEF TypeOK, Return, GoTo
<1>3. LocalInv'
  BY DEF LocalInv, TypeOK, Return, GoTo
<1>4. LockInv'
  BY DEF LockInv, TypeOK, Return, GoTo
<1> QED BY <1>2, <1>3, <1>4

-----------------------------------------------------------------------------
(***************************************************************************)
(* Every action keeps the inductive invariant.                              *)
(***************************************************************************)

\* Going back to the prompt without touching the file.
LEMMA ReturnInv ==
  ASSUME IndInv, NEW p \in Clients, Return(p), UNCHANGED <<file, inited>>,
         cut' \in BOOLEAN
  PROVE  IndInv'
<1>1. LocalInv' /\ LockInv'
  BY ReturnKeeps DEF IndInv
<1>2. TypeOK'
  BY ReturnKeeps DEF IndInv, TypeOK
<1>3. WriteInv'
  BY DEF IndInv, TypeOK, WriteInv, Return, GoTo
<1> QED BY <1>1, <1>2, <1>3 DEF IndInv

\* The start of cmd_get.
LEMMA CmdGetKeeps ==
  ASSUME IndInv, NEW p \in Clients, CmdGet(p)
  PROVE  IndInv'
<1>1. TypeOK'
  BY DEF IndInv, TypeOK, CmdGet, GoTo
<1>2. LocalInv'
  BY DEF IndInv, TypeOK, LocalInv, CmdGet, GoTo
<1>3. LockInv'
  BY DEF IndInv, TypeOK, LocalInv, LockInv, CmdGet, GoTo
<1>4. WriteInv'
  BY DEF IndInv, TypeOK, WriteInv, CmdGet, GoTo
<1> QED BY <1>1, <1>2, <1>3, <1>4 DEF IndInv

\* cmd_get gets its shared lock: nobody has the exclusive one.
LEMMA GetLockKeeps ==
  ASSUME IndInv, NEW p \in Clients, GetLock(p)
  PROVE  IndInv'
<1>1. TypeOK'
  BY DEF IndInv, TypeOK, GetLock, GoTo, LockRecord
<1>2. LocalInv'
  BY DEF IndInv, TypeOK, LocalInv, GetLock, GoTo, LockRecord
<1>3. LockInv'
  BY DEF IndInv, TypeOK, LocalInv, LockInv, GetLock, GoTo, LockRecord
<1>4. WriteInv'
  BY DEF IndInv, TypeOK, WriteInv, GetLock, GoTo, LockRecord
<1> QED BY <1>1, <1>2, <1>3, <1>4 DEF IndInv

\* cmd_get reads the record.
LEMMA GetReadKeeps ==
  ASSUME IndInv, NEW p \in Clients, GetRead(p)
  PROVE  IndInv'
<1>1. TypeOK'
  BY DEF IndInv, TypeOK, GetRead, GoTo
<1>2. LocalInv'
  BY DEF IndInv, TypeOK, LocalInv, GetRead, GoTo
<1>3. LockInv'
  BY DEF IndInv, TypeOK, LocalInv, LockInv, GetRead, GoTo
<1>4. WriteInv'
  BY DEF IndInv, TypeOK, WriteInv, GetRead, GoTo
<1> QED BY <1>1, <1>2, <1>3, <1>4 DEF IndInv

\* cmd_get gives its lock back.
LEMMA GetDoneKeeps ==
  ASSUME IndInv, NEW p \in Clients, GetDone(p)
  PROVE  IndInv'
<1>1. Return(p) /\ UNCHANGED <<file, cut, inited>>
  BY DEF GetDone
<1>2. cut' \in BOOLEAN
  BY <1>1 DEF IndInv, TypeOK
<1> QED BY <1>1, <1>2, ReturnInv

\* The start of cmd_put.
LEMMA CmdPutKeeps ==
  ASSUME IndInv, NEW p \in Clients, CmdPut(p)
  PROVE  IndInv'
<1>1. TypeOK'
  BY DEF IndInv, TypeOK, CmdPut, GoTo
<1>2. LocalInv'
  BY DEF IndInv, TypeOK, LocalInv, CmdPut, GoTo
<1>3. LockInv'
  BY DEF IndInv, TypeOK, LocalInv, LockInv, CmdPut, GoTo
<1>4. WriteInv'
  BY DEF IndInv, TypeOK, WriteInv, CmdPut, GoTo
<1> QED BY <1>1, <1>2, <1>3, <1>4 DEF IndInv

\* cmd_put reads the record without a lock, or returns.
LEMMA PutReadKeeps ==
  ASSUME IndInv, NEW p \in Clients, PutRead(p)
  PROVE  IndInv'
<1>1. CASE Return(p)
  <2>1. UNCHANGED <<file, cut, inited>> /\ cut' \in BOOLEAN
    BY DEF PutRead, IndInv, TypeOK
  <2> QED BY <1>1, <2>1, ReturnInv
<1>2. CASE ~Return(p)
  <2>1. TypeOK'
    BY <1>2 DEF IndInv, TypeOK, PutRead, GoTo
  <2>2. LocalInv'
    BY <1>2 DEF IndInv, TypeOK, LocalInv, PutRead, GoTo
  <2>3. LockInv'
    BY <1>2 DEF IndInv, TypeOK, LocalInv, LockInv, PutRead, GoTo
  <2>4. WriteInv'
    BY <1>2 DEF IndInv, TypeOK, WriteInv, PutRead, GoTo
  <2> QED BY <2>1, <2>2, <2>3, <2>4 DEF IndInv
<1> QED BY <1>1, <1>2

\* The user edits the copy, or leaves it as it is.
LEMMA PutEditKeeps ==
  ASSUME IndInv, NEW p \in Clients, PutEdit(p)
  PROVE  IndInv'
<1>1. CASE Return(p)
  <2>1. UNCHANGED <<file, cut, inited>> /\ cut' \in BOOLEAN
    BY DEF PutEdit, IndInv, TypeOK
  <2> QED BY <1>1, <2>1, ReturnInv
<1>2. CASE ~Return(p)
  <2>1. orig[p] \in Rec
    BY DEF IndInv, LocalInv, PutEdit
  <2>2. PICK edited \in Rec : work' = [work EXCEPT ![p] = edited]
    BY <1>2, <2>1 DEF PutEdit, Rec
  <2>3. /\ pc[p] = "edit" /\ GoTo(p, "putlock")
        /\ UNCHANGED <<file, rec, orig, shown, lock, cut, inited>>
    BY <1>2 DEF PutEdit
  <2>4. TypeOK'
    BY <2>2, <2>3 DEF IndInv, TypeOK, GoTo
  <2>5. LocalInv'
    BY <2>2, <2>3 DEF IndInv, TypeOK, LocalInv, GoTo
  <2>6. LockInv'
    BY <2>3 DEF IndInv, LockInv
  <2>7. WriteInv'
    BY <2>3 DEF IndInv, TypeOK, WriteInv, GoTo
  <2> QED BY <2>4, <2>5, <2>6, <2>7 DEF IndInv
<1> QED BY <1>1, <1>2

\* cmd_put gets its exclusive lock: nobody has another.
LEMMA PutLockKeeps ==
  ASSUME IndInv, NEW p \in Clients, PutLock(p)
  PROVE  IndInv'
<1>1. TypeOK'
  BY DEF IndInv, TypeOK, PutLock, GoTo, LockRecord
<1>2. LocalInv'
  BY DEF IndInv, TypeOK, LocalInv, PutLock, GoTo, LockRecord
<1>3. LockInv'
  BY DEF IndInv, TypeOK, LocalInv, LockInv, PutLock, GoTo, LockRecord
<1>4. WriteInv'
  BY DEF IndInv, TypeOK, WriteInv, PutLock, GoTo, LockRecord
<1> QED BY <1>1, <1>2, <1>3, <1>4 DEF IndInv

\* cmd_put compares the record with what its user saw.
LEMMA PutCheckKeeps ==
  ASSUME IndInv, NEW p \in Clients, PutCheck(p)
  PROVE  IndInv'
<1>1. CASE Return(p)
  <2>1. UNCHANGED <<file, cut, inited>> /\ cut' \in BOOLEAN
    BY DEF PutCheck, IndInv, TypeOK
  <2> QED BY <1>1, <2>1, ReturnInv
<1>2. CASE ~Return(p)
  <2>1. TypeOK'
    BY <1>2 DEF IndInv, TypeOK, PutCheck, GoTo, UnlockRecord
  <2>2. LocalInv'
    BY <1>2 DEF IndInv, TypeOK, LocalInv, PutCheck, GoTo, UnlockRecord
  <2>3. LockInv'
    BY <1>2 DEF IndInv, TypeOK, LocalInv, LockInv, PutCheck, GoTo, UnlockRecord
  <2>4. WriteInv'
    BY <1>2 DEF IndInv, TypeOK, WriteInv, PutCheck, GoTo, UnlockRecord
  <2> QED BY <2>1, <2>2, <2>3, <2>4 DEF IndInv
<1> QED BY <1>1, <1>2

\* The user gives up or starts over.
LEMMA PutConflictKeeps ==
  ASSUME IndInv, NEW p \in Clients, PutConflict(p)
  PROVE  IndInv'
<1>1. CASE Return(p)
  <2>1. UNCHANGED <<file, cut, inited>> /\ cut' \in BOOLEAN
    BY DEF PutConflict, IndInv, TypeOK
  <2> QED BY <1>1, <2>1, ReturnInv
<1>2. CASE ~Return(p)
  <2>1. TypeOK'
    BY <1>2 DEF IndInv, TypeOK, PutConflict, GoTo
  <2>2. LocalInv'
    BY <1>2 DEF IndInv, TypeOK, LocalInv, PutConflict, GoTo
  <2>3. LockInv'
    BY <1>2 DEF IndInv, TypeOK, LocalInv, LockInv, PutConflict, GoTo
  <2>4. WriteInv'
    BY <1>2 DEF IndInv, TypeOK, WriteInv, PutConflict, GoTo
  <2> QED BY <2>1, <2>2, <2>3, <2>4 DEF IndInv
<1> QED BY <1>1, <1>2

\* The first bytes of the record are written: whoever compared the same record
\* would hold the exclusive lock too.
LEMMA PutWriteKeeps ==
  ASSUME IndInv, NEW p \in Clients, PutWrite(p)
  PROVE  IndInv'
<1>1. /\ rec[p] \in RecNos /\ work[p] \in Rec /\ lock[p] = "wr"
      /\ file[rec[p]] \in Rec \cup {Absent}
  BY DEF IndInv, TypeOK, LocalInv, PutWrite
<1>2. /\ HalfWritten(file[rec[p]], work[p]) \in Rec \cup {Absent}
      /\ HalfWritten(file[rec[p]], work[p]) = Absent <=> file[rec[p]] = Absent
  BY <1>1, HalfWrittenType
<1>3. \/ file' = [file EXCEPT ![rec[p]] = HalfWritten(file[rec[p]], work[p])]
      \/ file' = file
  BY DEF PutWrite
<1>4. TypeOK'
  BY <1>1, <1>2, <1>3 DEF IndInv, TypeOK, PutWrite, GoTo
<1>5. LocalInv'
  BY DEF IndInv, TypeOK, LocalInv, PutWrite, GoTo
<1>6. LockInv'
  BY DEF IndInv, TypeOK, LocalInv, LockInv, PutWrite, GoTo
<1>7. ASSUME ~inited PROVE \A r \in RecNos : file'[r] \in Rec
  BY <1>1, <1>2, <1>3, <1>7, RecordFileAssumption DEF IndInv, TypeOK, WriteInv
<1>8. ASSUME ~inited, NEW q \in Clients, pc'[q] = "write"
      PROVE  file'[rec[q]] = orig[q]
  <2>1. q # p /\ pc[q] = "write"
    BY <1>8 DEF PutWrite, GoTo, IndInv, TypeOK
  <2>2. lock[q] = "wr"
    BY <2>1 DEF IndInv, LocalInv
  <2>3. rec[q] # rec[p]
    BY <1>1, <2>1, <2>2 DEF IndInv, LockInv
  <2> QED BY <1>3, <1>8, <2>1, <2>3 DEF IndInv, TypeOK, WriteInv
<1>9. WriteInv'
  BY <1>7, <1>8 DEF IndInv, TypeOK, WriteInv, PutWrite, GoTo
<1> QED BY <1>4, <1>5, <1>6, <1>9 DEF IndInv

\* The rest of the record is written.
LEMMA PutWrittenKeeps ==
  ASSUME IndInv, NEW p \in Clients, PutWritten(p)
  PROVE  IndInv'
<1>1. /\ rec[p] \in RecNos /\ work[p] \in Rec /\ lock[p] = "wr"
      /\ file \in [RecNos -> Rec \cup {Absent}]
  BY DEF IndInv, TypeOK, LocalInv, PutWritten
<1>2. file' = WriteRecord(file, rec[p], work[p])
  BY DEF PutWritten
<1>3. /\ file' \in [RecNos -> Rec \cup {Absent}]
      /\ file'[rec[p]] = work[p]
      /\ \A i \in RecNos : file[i] # Absent => file'[i] # Absent
      /\ \A i \in RecNos : i # rec[p] /\ file[i] # Absent => file'[i] = file[i]
  BY <1>1, <1>2, WriteRecordFacts
<1>4. TypeOK'
  BY <1>3 DEF IndInv, TypeOK, PutWritten, GoTo
<1>5. LocalInv'
  BY DEF IndInv, TypeOK, LocalInv, PutWritten, GoTo
<1>6. LockInv'
  BY DEF IndInv, TypeOK, LocalInv, LockInv, PutWritten, GoTo
<1>7. ASSUME ~inited PROVE \A r \in RecNos : file'[r] \in Rec
  BY <1>3, <1>7, RecordFileAssumption DEF IndInv, WriteInv
<1>8. ASSUME ~inited, NEW q \in Clients, pc'[q] = "write"
      PROVE  file'[rec[q]] = orig[q]
  <2>1. q # p /\ pc[q] = "write"
    BY <1>8 DEF PutWritten, GoTo, IndInv, TypeOK
  <2>2. lock[q] = "wr" /\ rec[q] \in RecNos
    BY <2>1 DEF IndInv, TypeOK, LocalInv
  <2>3. rec[q] # rec[p]
    BY <1>1, <2>1, <2>2 DEF IndInv, LockInv
  <2> QED BY <1>3, <1>8, <2>1, <2>2, <2>3, RecordFileAssumption
          DEF IndInv, WriteInv
<1>9. WriteInv'
  BY <1>7, <1>8 DEF IndInv, TypeOK, WriteInv, PutWritten, GoTo
<1> QED BY <1>4, <1>5, <1>6, <1>9 DEF IndInv

\* cmd_put gives its lock back.
LEMMA PutDoneKeeps ==
  ASSUME IndInv, NEW p \in Clients, PutDone(p)
  PROVE  IndInv'
<1>1. Return(p) /\ UNCHANGED <<file, cut, inited>>
  BY DEF PutDone
<1>2. cut' \in BOOLEAN
  BY <1>1 DEF IndInv, TypeOK
<1> QED BY <1>1, <1>2, ReturnInv

\* init_file truncates the file.
LEMMA CmdInitKeeps ==
  ASSUME IndInv, NEW p \in Clients, CmdInit(p)
  PROVE  IndInv'
<1>1. TypeOK'
  BY DEF IndInv, TypeOK, CmdInit, GoTo
<1>2. LocalInv'
  BY DEF IndInv, TypeOK, LocalInv, CmdInit, GoTo
<1>3. LockInv'
  BY DEF IndInv, TypeOK, LocalInv, LockInv, CmdInit, GoTo
<1>4. WriteInv'
  BY DEF IndInv, TypeOK, WriteInv, CmdInit, GoTo
<1> QED BY <1>1, <1>2, <1>3, <1>4 DEF IndInv

\* init_file writes one record, or stops.
LEMMA InitWriteKeeps ==
  ASSUME IndInv, NEW p \in Clients, InitWrite(p)
  PROVE  IndInv'
<1>1. inited /\ inited' = inited
  BY DEF IndInv, WriteInv, InitWrite, TypeOK
<1>2. WriteInv'
  BY <1>1 DEF WriteInv
<1>3. /\ rec[p] \in RecNos /\ InitialRec(rec[p]) \in Rec
      /\ file \in [RecNos -> Rec \cup {Absent}]
  BY InitialRecType DEF IndInv, TypeOK
<1>4. WriteRecord(file, rec[p], InitialRec(rec[p]))
        \in [RecNos -> Rec \cup {Absent}]
  BY <1>3, WriteRecordFacts
<1>5. file' \in [RecNos -> Rec \cup {Absent}] /\ cut' \in BOOLEAN
  BY <1>4 DEF IndInv, TypeOK, InitWrite
<1>6. CASE Return(p)
  <2>1. LocalInv' /\ LockInv'
    BY <1>6, ReturnKeeps DEF IndInv
  <2>2. TypeOK'
    BY <1>1, <1>5, <1>6, ReturnKeeps DEF IndInv, TypeOK
  <2> QED BY <1>2, <2>1, <2>2 DEF IndInv
<1>7. CASE ~Return(p)
  <2>1. /\ rec' = [rec EXCEPT ![p] = rec[p] + 1] /\ rec[p] + 1 < RecCount
        /\ UNCHANGED <<pc, orig, work, shown, lock>>
    BY <1>7 DEF InitWrite
  <2>2. rec[p] + 1 \in RecNos
    BY <1>3, <2>1, RecordFileAssumption DEF RecNos
  <2>3. TypeOK'
    BY <1>1, <1>5, <2>1, <2>2 DEF IndInv, TypeOK
  <2>4. LocalInv'
    BY <2>1 DEF IndInv, LocalInv
  <2>5. lock[p] = "none"
    BY DEF IndInv, LocalInv, InitWrite
  <2>6. LockInv'
    BY <2>1, <2>5 DEF IndInv, TypeOK, LockInv
  <2> QED BY <1>2, <2>3, <2>4, <2>6 DEF IndInv
<1> QED BY <1>6, <1>7

\* handle_sigint ends the process, and its lock goes with it.
LEMMA SigintKeeps ==
  ASSUME IndInv, NEW p \in Clients, Sigint(p)
  PROVE  IndInv'
<1>1. Return(p) /\ UNCHANGED <<file, inited>> /\ cut' \in BOOLEAN
  BY DEF Sigint, IndInv, TypeOK
<1> QED BY <1>1, ReturnInv

\* The inductive invariant holds initially.
LEMMA InitIndInv == Init => IndInv
<1> SUFFICES ASSUME Init PROVE IndInv
  OBVIOUS
<1>1. \A r \in RecNos : InitialRec(r) \in Rec
  BY InitialRecType
<1>2. 0 \in RecNos
  BY RecordFileAssumption DEF RecNos
<1>3. TypeOK
  BY <1>1, <1>2 DEF Init, TypeOK
<1>4. LocalInv /\ LockInv
  BY DEF Init, LocalInv, LockInv
<1>5. WriteInv
  BY <1>1 DEF Init, WriteInv
<1> QED BY <1>3, <1>4, <1>5 DEF IndInv

\* No step breaks it.
LEMMA NextIndInv == IndInv /\ [Next]_vars => IndInv'
<1> SUFFICES ASSUME IndInv, [Next]_vars PROVE IndInv'
  OBVIOUS
<1>1. CASE UNCHANGED vars
  BY <1>1 DEF vars, IndInv, TypeOK, LocalInv, LockInv, WriteInv
<1>2. ASSUME NEW p \in Clients, ClientStep(p) PROVE IndInv'
  BY <1>2, GetLockKeeps, GetReadKeeps, GetDoneKeeps, PutReadKeeps, PutLockKeeps,
     PutCheckKeeps, PutWriteKeeps, PutWrittenKeeps, PutDoneKeeps,
     InitWriteKeeps DEF ClientStep
<1>3. ASSUME NEW p \in Clients, UserStep(p) PROVE IndInv'
  BY <1>3, CmdGetKeeps, CmdPutKeeps, CmdInitKeeps, PutEditKeeps,
     PutConflictKeeps, SigintKeeps DEF UserStep
<1> QED BY <1>1, <1>2, <1>3 DEF Next

\* It is an invariant.
LEMMA IndInvHolds == Spec => []IndInv
<1> QED BY InitIndInv, NextIndInv, PTL DEF Spec

\* Every variable of the record editor stays in its range, for every number of
\* clients and records (main.c 90-241).
THEOREM RecordTypeCorrect == Spec => []TypeOK
<1>1. IndInv => TypeOK
  BY DEF IndInv
<1> QED BY <1>1, IndInvHolds, PTL

-----------------------------------------------------------------------------
(***************************************************************************)
(* INIT.                                                                    *)
(***************************************************************************)

\* A step that leaves no INIT under way and none cut short: either it is the
\* last write of init_file, and the file is complete, or there was none under
\* way before it either, and it takes no record away.
LEMMA FillStep ==
  ASSUME IndInv, NEW p \in Clients, ClientStep(p) \/ UserStep(p),
         \A q \in Clients : pc'[q] # "init", ~cut'
  PROVE  \/ \A r \in RecNos : file'[r] # Absent
         \/ /\ \A q \in Clients : pc[q] # "init"
            /\ ~cut
            /\ \A r \in RecNos : file[r] # Absent => file'[r] # Absent
<1>1. CASE InitWrite(p)
  <2>1. /\ file' = WriteRecord(file, rec[p], InitialRec(rec[p]))
        /\ ~(rec[p] + 1 < RecCount)
    BY <1>1 DEF InitWrite
  <2>2. /\ rec[p] \in RecNos /\ InitialRec(rec[p]) \in Rec
        /\ file \in [RecNos -> Rec \cup {Absent}]
    BY InitialRecType DEF IndInv, TypeOK
  <2>3. \A r \in RecNos : r <= rec[p] => file'[r] # Absent
    BY <2>1, <2>2, WriteRecordFacts
  <2>4. \A r \in RecNos : r <= rec[p]
    BY <2>1, <2>2, RecordFileAssumption DEF RecNos
  <2> QED BY <2>3, <2>4
<1>2. CASE PutWritten(p)
  <2>1. /\ rec[p] \in RecNos /\ work[p] \in Rec
        /\ file \in [RecNos -> Rec \cup {Absent}]
        /\ file' = WriteRecord(file, rec[p], work[p])
    BY <1>2 DEF IndInv, TypeOK, LocalInv, PutWritten
  <2>2. \A r \in RecNos : file[r] # Absent => file'[r] # Absent
    BY <2>1, WriteRecordFacts
  <2> QED BY <1>2, <2>2 DEF PutWritten, GoTo, IndInv, TypeOK
<1>3. CASE PutWrite(p)
  <2>1. /\ rec[p] \in RecNos /\ work[p] \in Rec
        /\ file \in [RecNos -> Rec \cup {Absent}]
    BY <1>3 DEF IndInv, TypeOK, LocalInv, PutWrite
  <2>2. HalfWritten(file[rec[p]], work[p]) = Absent => file[rec[p]] = Absent
    BY <2>1, HalfWrittenType
  <2>3. \A r \in RecNos : file[r] # Absent => file'[r] # Absent
    BY <1>3, <2>1, <2>2 DEF PutWrite
  <2> QED BY <1>3, <2>3 DEF PutWrite, GoTo, IndInv, TypeOK
<1>4. CASE CmdInit(p)
  BY <1>4 DEF CmdInit, GoTo, IndInv, TypeOK
<1>5. CASE Sigint(p)
  BY <1>5 DEF Sigint, Return, GoTo, IndInv, TypeOK
<1>6. CASE GetDone(p) \/ PutDone(p) \/ PutConflict(p) \/ PutRead(p)
  BY <1>6 DEF GetDone, PutDone, PutConflict, PutRead, Return, GoTo, IndInv, TypeOK
<1>7. CASE GetLock(p) \/ GetRead(p) \/ PutLock(p) \/ CmdGet(p) \/ CmdPut(p)
  BY <1>7 DEF GetLock, GetRead, PutLock, CmdGet, CmdPut, GoTo, IndInv, TypeOK
<1>8. CASE PutEdit(p)
  BY <1>8 DEF PutEdit, Return, GoTo, IndInv, TypeOK
<1>9. CASE PutCheck(p)
  BY <1>9 DEF PutCheck, Return, GoTo, IndInv, TypeOK
<1> QED BY <1>1, <1>2, <1>3, <1>4, <1>5, <1>6, <1>7, <1>8, <1>9
        DEF ClientStep, UserStep

\* Whoever truncates the file fills it again: when no INIT is under way and
\* none was cut short, all records are there, whatever other INITs and PUTs do
\* to the half-filled file meanwhile (init_file, main.c 98-113).
THEOREM FileFilled == Spec => []InitFillsFile
<1>1. Init => InitFillsFile
  <2>1. \A r \in RecNos : InitialRec(r) # Absent
    BY InitialRecType, RecordFileAssumption
  <2> QED BY <2>1 DEF Init, InitFillsFile
<1>2. IndInv /\ InitFillsFile /\ [Next]_vars => InitFillsFile'
  <2> SUFFICES ASSUME IndInv, InitFillsFile, [Next]_vars,
                      \A q \in Clients : pc'[q] # "init", ~cut'
               PROVE  \A r \in RecNos : file'[r] # Absent
    BY DEF InitFillsFile
  <2>1. CASE UNCHANGED vars
    BY <2>1 DEF vars, InitFillsFile
  <2>2. ASSUME NEW p \in Clients, ClientStep(p) \/ UserStep(p)
        PROVE  \A r \in RecNos : file'[r] # Absent
    BY <2>2, FillStep DEF InitFillsFile
  <2> QED BY <2>1, <2>2 DEF Next
<1> QED BY <1>1, <1>2, IndInvHolds, PTL DEF Spec

-----------------------------------------------------------------------------
(***************************************************************************)
(* Compare-and-set registers.                                               *)
(***************************************************************************)

\* Two clients are never in the middle of writing the same record, so what the
\* abstract register holds meanwhile is what the writer compared with.
LEMMA CommittedOfWriter ==
  ASSUME IndInv, NEW p \in Clients, pc[p] = "half"
  PROVE  Committed[rec[p]] = orig[p]
<1> DEFINE w == CHOOSE q \in Clients : pc[q] = "half" /\ rec[q] = rec[p]
<1>1. w \in Clients /\ pc[w] = "half" /\ rec[w] = rec[p]
  OBVIOUS
<1>2. w = p
  BY <1>1 DEF IndInv, LocalInv, LockInv
<1>3. rec[p] \in RecNos
  BY DEF IndInv, TypeOK
<1> QED BY <1>2, <1>3 DEF Committed

\* A record nobody is writing is what the file holds.
LEMMA CommittedElsewhere ==
  ASSUME NEW r \in RecNos, \A q \in Clients : ~(pc[q] = "half" /\ rec[q] = r)
  PROVE  Committed[r] = file[r]
<1> QED BY DEF Committed

\* The same after a step.
LEMMA CommittedOfWriterNext ==
  ASSUME IndInv', NEW p \in Clients, pc'[p] = "half"
  PROVE  Committed'[rec'[p]] = orig'[p]
<1> DEFINE w == CHOOSE q \in Clients : pc'[q] = "half" /\ rec'[q] = rec'[p]
<1>1. w \in Clients /\ pc'[w] = "half" /\ rec'[w] = rec'[p]
  OBVIOUS
<1>2. w = p
  BY <1>1 DEF IndInv, LocalInv, LockInv
<1>3. rec'[p] \in RecNos
  BY DEF IndInv, TypeOK
<1> QED BY <1>2, <1>3 DEF Committed

\* A record nobody is writing after a step.
LEMMA CommittedElsewhereNext ==
  ASSUME NEW r \in RecNos, \A q \in Clients : ~(pc'[q] = "half" /\ rec'[q] = r)
  PROVE  Committed'[r] = file'[r]
<1> QED BY DEF Committed

\* A register keeps its value when the same client, or nobody, is writing the
\* record before and after the step.
LEMMA CommittedStays ==
  ASSUME IndInv, IndInv', NEW r \in RecNos, file'[r] = file[r],
         \A q \in Clients : pc'[q] = "half" <=> pc[q] = "half",
         \A q \in Clients : pc[q] = "half" => rec'[q] = rec[q] /\ orig'[q] = orig[q]
  PROVE  Committed'[r] = Committed[r]
<1>1. ASSUME NEW q \in Clients, pc[q] = "half", rec[q] = r
      PROVE  Committed'[r] = Committed[r]
  <2>1. Committed[r] = orig[q]
    BY <1>1, CommittedOfWriter
  <2>2. pc'[q] = "half" /\ rec'[q] = r /\ orig'[q] = orig[q]
    BY <1>1
  <2>3. Committed'[r] = orig'[q]
    BY <2>2, CommittedOfWriterNext
  <2> QED BY <2>1, <2>2, <2>3
<1>2. ASSUME \A q \in Clients : ~(pc[q] = "half" /\ rec[q] = r)
      PROVE  Committed'[r] = Committed[r]
  <2>1. Committed[r] = file[r]
    BY <1>2, CommittedElsewhere
  <2>2. \A q \in Clients : ~(pc'[q] = "half" /\ rec'[q] = r)
    BY <1>2
  <2>3. Committed'[r] = file'[r]
    BY <2>2, CommittedElsewhereNext
  <2> QED BY <2>1, <2>3
<1> QED BY <1>1, <1>2

\* The registers are a function on the record numbers.
LEMMA CommittedEqual ==
  ASSUME \A r \in RecNos : Committed'[r] = Committed[r]
  PROVE  Committed' = Committed
<1> DEFINE f == Committed
           g == Committed'
<1>1. f = [r \in RecNos |-> f[r]] /\ g = [r \in RecNos |-> g[r]]
  BY DEF Committed
<1>2. \A r \in RecNos : g[r] = f[r]
  OBVIOUS
<1> HIDE DEF f, g
<1>3. g = f
  BY <1>1, <1>2
<1> QED BY <1>3 DEF f, g

\* Two such functions that differ in one place.
LEMMA CommittedExcept ==
  ASSUME NEW n \in RecNos, NEW v, Committed'[n] = v,
         \A r \in RecNos \ {n} : Committed'[r] = Committed[r]
  PROVE  Committed' = [Committed EXCEPT ![n] = v]
<1> DEFINE f == Committed
           g == Committed'
<1>1. f = [r \in RecNos |-> f[r]] /\ g = [r \in RecNos |-> g[r]]
  BY DEF Committed
<1>2. g[n] = v /\ \A r \in RecNos \ {n} : g[r] = f[r]
  OBVIOUS
<1> HIDE DEF f, g
<1>3. g = [f EXCEPT ![n] = v]
  BY <1>1, <1>2
<1> QED BY <1>3 DEF f, g

\* A step that neither writes nor has to do with a write under way leaves the
\* registers alone.
LEMMA NoWrite ==
  ASSUME IndInv, IndInv', UNCHANGED file,
         \A q \in Clients : pc'[q] = "half" <=> pc[q] = "half",
         \A q \in Clients : pc[q] = "half" => rec'[q] = rec[q] /\ orig'[q] = orig[q]
  PROVE  Committed' = Committed
<1>1. \A r \in RecNos : Committed'[r] = Committed[r]
  BY CommittedStays
<1> QED BY <1>1, CommittedEqual

\* A step of p outside a write, that changes no local variable of another
\* client, leaves the registers alone.
LEMMA OutsideWrite ==
  ASSUME IndInv, IndInv', NEW p \in Clients, UNCHANGED file,
         pc[p] # "half", NEW lab, lab # "half", GoTo(p, lab),
         \A q \in Clients \ {p} : rec'[q] = rec[q] /\ orig'[q] = orig[q]
  PROVE  Committed' = Committed
<1>1. \A q \in Clients : pc'[q] = "half" <=> pc[q] = "half"
  BY DEF GoTo, IndInv, TypeOK
<1>2. \A q \in Clients : pc[q] = "half" => rec'[q] = rec[q] /\ orig'[q] = orig[q]
  OBVIOUS
<1> QED BY <1>1, <1>2, NoWrite

\* Going back to the prompt without a write: the client forgets what it was
\* shown (GET) or what it believed (PUT).
LEMMA ReturnIsForget ==
  ASSUME IndInv, IndInv', NEW p \in Clients, Return(p), UNCHANGED file,
         pc[p] # "half"
  PROVE  Store!Next \/ UNCHANGED Store!vars
<1>1. Committed' = Committed
  <2>1. GoTo(p, "idle")
    BY DEF Return
  <2>2. \A q \in Clients \ {p} : rec'[q] = rec[q] /\ orig'[q] = orig[q]
    BY DEF Return, IndInv, TypeOK
  <2> QED BY <2>1, <2>2, OutsideWrite
<1>2. orig' = [orig EXCEPT ![p] = NoRec] /\ shown' = [shown EXCEPT ![p] = NoRec]
  BY DEF Return
<1>3. CASE pc[p] = "getdone"
  <2>1. orig[p] = NoRec
    BY <1>3 DEF IndInv, LocalInv
  <2>2. orig' = orig
    BY <1>2, <2>1 DEF IndInv, TypeOK
  <2>3. Store!Forget(p)
    BY <1>1, <1>2, <2>2 DEF Store!Forget
  <2> QED BY <2>3 DEF Store!Next
<1>4. CASE pc[p] # "getdone"
  <2>1. shown[p] = NoRec
    BY <1>4 DEF IndInv, LocalInv
  <2>2. shown' = shown
    BY <1>2, <2>1 DEF IndInv, TypeOK
  <2>3. Store!Look(p)
    BY <1>1, <1>2, <2>2 DEF Store!Look
  <2> QED BY <2>3 DEF Store!Next
<1> QED BY <1>3, <1>4

\* A step outside a write that leaves orig and shown alone is a stutter.
LEMMA StutterStep ==
  ASSUME IndInv, IndInv', NEW p \in Clients, UNCHANGED <<file, orig, shown>>,
         pc[p] # "half", NEW lab, lab # "half", GoTo(p, lab),
         \A q \in Clients \ {p} : rec'[q] = rec[q]
  PROVE  UNCHANGED Store!vars
<1>1. Committed' = Committed
  BY OutsideWrite
<1> QED BY <1>1 DEF Store!vars

\* Reading the record without a lock is Look.
LEMMA PutReadIsLook ==
  ASSUME IndInv, IndInv', NEW p \in Clients, PutRead(p)
  PROVE  Store!Next \/ UNCHANGED Store!vars
<1>1. pc[p] = "putread" /\ UNCHANGED file
  BY DEF PutRead
<1>2. CASE file[rec[p]] = Absent
  <2>1. Return(p)
    BY <1>2 DEF PutRead
  <2> QED BY <1>1, <2>1, ReturnIsForget
<1>3. CASE file[rec[p]] # Absent
  <2>1. /\ orig' = [orig EXCEPT ![p] = file[rec[p]]]
        /\ GoTo(p, "edit") /\ rec' = rec /\ shown' = shown
    BY <1>3 DEF PutRead
  <2>2. file[rec[p]] \in Rec
    BY <1>3 DEF IndInv, TypeOK
  <2>3. \A q \in Clients \ {p} : rec'[q] = rec[q] /\ orig'[q] = orig[q]
    BY <2>1 DEF IndInv, TypeOK
  <2>4. Committed' = Committed
    BY <1>1, <2>1, <2>3, OutsideWrite
  <2>5. Store!Look(p)
    BY <2>1, <2>2, <2>4 DEF Store!Look
  <2> QED BY <2>5 DEF Store!Next
<1> QED BY <1>2, <1>3

\* The comparison is a stutter when it succeeds and Look when it fails.
LEMMA PutCheckIsLook ==
  ASSUME IndInv, IndInv', NEW p \in Clients, PutCheck(p)
  PROVE  Store!Next \/ UNCHANGED Store!vars
<1>1. pc[p] = "check" /\ UNCHANGED file
  BY DEF PutCheck
<1>2. CASE Return(p)
  BY <1>1, <1>2, ReturnIsForget
<1>3. CASE GoTo(p, "write") /\ UNCHANGED <<rec, orig, shown>>
  BY <1>1, <1>3, StutterStep
<1>4. CASE /\ file[rec[p]] \notin {orig[p], Absent}
           /\ orig' = [orig EXCEPT ![p] = file[rec[p]]]
           /\ GoTo(p, "conflict") /\ UNCHANGED <<rec, shown>>
  <2>1. file[rec[p]] \in Rec
    BY <1>4 DEF IndInv, TypeOK
  <2>2. \A q \in Clients \ {p} : rec'[q] = rec[q] /\ orig'[q] = orig[q]
    BY <1>4 DEF IndInv, TypeOK
  <2>3. Committed' = Committed
    BY <1>1, <1>4, <2>2, OutsideWrite
  <2>4. Store!Look(p)
    BY <1>4, <2>1, <2>3 DEF Store!Look
  <2> QED BY <2>4 DEF Store!Next
<1> QED BY <1>2, <1>3, <1>4 DEF PutCheck

\* GET shows the register: its shared lock keeps writers away.
LEMMA GetReadIsRead ==
  ASSUME IndInv, IndInv', NEW p \in Clients, GetRead(p), ~inited
  PROVE  Store!Next
<1>1. /\ pc[p] = "getread" /\ UNCHANGED <<file, rec, orig>>
      /\ GoTo(p, "getdone") /\ rec[p] \in RecNos
  BY DEF GetRead, IndInv, TypeOK
<1>2. lock[p] = "rd"
  BY <1>1 DEF IndInv, LocalInv
<1>3. \A q \in Clients : ~(pc[q] = "half" /\ rec[q] = rec[p])
  BY <1>1, <1>2 DEF IndInv, LocalInv, LockInv
<1>4. Committed[rec[p]] = file[rec[p]]
  BY <1>1, <1>3, CommittedElsewhere
<1>5. file[rec[p]] # Absent
  BY <1>1, RecordFileAssumption DEF IndInv, WriteInv
<1>6. shown' = [shown EXCEPT ![p] = Committed[rec[p]]]
  BY <1>4, <1>5 DEF GetRead
<1>7. Committed' = Committed
  BY <1>1, OutsideWrite
<1>8. Store!Read(p, rec[p])
  BY <1>1, <1>6, <1>7 DEF Store!Read
<1> QED BY <1>1, <1>8 DEF Store!Next

\* The beginning of a write is invisible.
LEMMA PutWriteIsStutter ==
  ASSUME IndInv, IndInv', NEW p \in Clients, PutWrite(p), ~inited
  PROVE  UNCHANGED Store!vars
<1>1. /\ pc[p] = "write" /\ UNCHANGED <<rec, orig, shown>>
      /\ rec[p] \in RecNos /\ lock[p] = "wr"
  BY DEF PutWrite, IndInv, TypeOK, LocalInv
<1>2. CASE UNCHANGED file /\ GoTo(p, "putdone")
  BY <1>1, <1>2, StutterStep
<1>3. CASE /\ file' = [file EXCEPT ![rec[p]] = HalfWritten(@, work[p])]
           /\ GoTo(p, "half")
  <2>1. pc'[p] = "half" /\ \A q \in Clients \ {p} : pc'[q] = pc[q]
    BY <1>3 DEF GoTo, IndInv, TypeOK
  <2>2. \A q \in Clients \ {p} : pc[q] = "half" => rec[q] # rec[p]
    BY <1>1 DEF IndInv, LocalInv, LockInv
  <2>3. Committed'[rec[p]] = Committed[rec[p]]
    <3>1. Committed'[rec[p]] = orig[p]
      BY <1>1, <2>1, CommittedOfWriterNext
    <3>2. Committed[rec[p]] = file[rec[p]]
      BY <1>1, <2>2, CommittedElsewhere
    <3> QED BY <1>1, <3>1, <3>2 DEF IndInv, WriteInv
  <2>4. ASSUME NEW r \in RecNos, r # rec[p]
        PROVE  Committed'[r] = Committed[r]
    <3>1. file'[r] = file[r]
      BY <1>3, <2>4 DEF IndInv, TypeOK
    <3>2. ASSUME NEW q \in Clients, pc[q] = "half", rec[q] = r
          PROVE  Committed'[r] = Committed[r]
      <4>1. q # p /\ pc'[q] = "half" /\ rec'[q] = r /\ orig'[q] = orig[q]
        BY <1>1, <2>1, <2>4, <3>2
      <4>2. Committed'[r] = orig'[q]
        BY <4>1, CommittedOfWriterNext
      <4>3. Committed[r] = orig[q]
        BY <3>2, CommittedOfWriter
      <4> QED BY <4>1, <4>2, <4>3
    <3>3. ASSUME \A q \in Clients : ~(pc[q] = "half" /\ rec[q] = r)
          PROVE  Committed'[r] = Committed[r]
      <4>1. \A q \in Clients : ~(pc'[q] = "half" /\ rec'[q] = r)
        BY <1>1, <2>1, <2>4, <3>3
      <4>2. Committed'[r] = file'[r]
        BY <4>1, CommittedElsewhereNext
      <4>3. Committed[r] = file[r]
        BY <3>3, CommittedElsewhere
      <4> QED BY <3>1, <4>2, <4>3
    <3> QED BY <3>2, <3>3
  <2>5. \A r \in RecNos : Committed'[r] = Committed[r]
    BY <2>3, <2>4
  <2>6. Committed' = Committed
    BY <2>5, CommittedEqual
  <2> QED BY <1>1, <2>6 DEF Store!vars
<1> QED BY <1>2, <1>3 DEF PutWrite

\* The end of a write is the compare-and-set: the register still holds what
\* the user was shown.
LEMMA PutWrittenIsCas ==
  ASSUME IndInv, IndInv', NEW p \in Clients, PutWritten(p), ~inited
  PROVE  Store!Next
<1>1. /\ pc[p] = "half" /\ UNCHANGED <<rec, orig, shown>>
      /\ rec[p] \in RecNos /\ work[p] \in Rec /\ lock[p] = "wr"
      /\ file \in [RecNos -> Rec \cup {Absent}]
  BY DEF PutWritten, IndInv, TypeOK, LocalInv
<1>2. pc'[p] # "half" /\ \A q \in Clients \ {p} : pc'[q] = pc[q]
  BY DEF PutWritten, GoTo, IndInv, TypeOK
<1>3. file' = WriteRecord(file, rec[p], work[p])
  BY DEF PutWritten
<1>4. \A r \in RecNos : file[r] # Absent
  BY RecordFileAssumption DEF IndInv, WriteInv
<1>5. /\ file'[rec[p]] = work[p]
      /\ \A r \in RecNos : r # rec[p] => file'[r] = file[r]
  BY <1>1, <1>3, <1>4, WriteRecordFacts
<1>6. \A q \in Clients \ {p} : pc[q] = "half" => rec[q] # rec[p]
  BY <1>1 DEF IndInv, LocalInv, LockInv
<1>7. Committed[rec[p]] = orig[p]
  BY <1>1, CommittedOfWriter
<1>8. Committed'[rec[p]] = work[p]
  <2>1. \A q \in Clients : ~(pc'[q] = "half" /\ rec'[q] = rec[p])
    BY <1>1, <1>2, <1>6
  <2> QED BY <1>1, <1>5, <2>1, CommittedElsewhereNext
<1>9. ASSUME NEW r \in RecNos \ {rec[p]}
      PROVE  Committed'[r] = Committed[r]
  <2>1. file'[r] = file[r]
    BY <1>5
  <2>2. ASSUME NEW q \in Clients, pc[q] = "half", rec[q] = r
        PROVE  Committed'[r] = Committed[r]
    <3>1. q # p /\ pc'[q] = "half" /\ rec'[q] = r /\ orig'[q] = orig[q]
      BY <1>1, <1>2, <2>2
    <3>2. Committed'[r] = orig'[q]
      BY <3>1, CommittedOfWriterNext
    <3>3. Committed[r] = orig[q]
      BY <2>2, CommittedOfWriter
    <3> QED BY <3>1, <3>2, <3>3
  <2>3. ASSUME \A q \in Clients : ~(pc[q] = "half" /\ rec[q] = r)
        PROVE  Committed'[r] = Committed[r]
    <3>1. \A q \in Clients : ~(pc'[q] = "half" /\ rec'[q] = r)
      BY <1>1, <1>2, <2>3
    <3>2. Committed'[r] = file'[r]
      BY <3>1, CommittedElsewhereNext
    <3>3. Committed[r] = file[r]
      BY <2>3, CommittedElsewhere
    <3> QED BY <2>1, <3>2, <3>3
  <2> QED BY <2>2, <2>3
<1>10. Committed' = [Committed EXCEPT ![rec[p]] = work[p]]
  BY <1>1, <1>8, <1>9, CommittedExcept
<1>11. Store!CompareAndSet(p, rec[p], work[p])
  BY <1>1, <1>7, <1>10 DEF Store!CompareAndSet
<1> QED BY <1>1, <1>11 DEF Store!Next

\* Every step before the first INIT is a step of the registers, or none.
LEMMA StepIsStoreStep ==
  ASSUME IndInv, IndInv', NEW p \in Clients, ClientStep(p) \/ UserStep(p),
         ~inited'
  PROVE  Store!Next \/ UNCHANGED Store!vars
<1>1. ~inited
  BY DEF ClientStep, UserStep, CmdGet, GetLock, GetRead, GetDone, CmdPut,
     PutRead, PutEdit, PutLock, PutCheck, PutConflict, PutWrite, PutWritten,
     PutDone, CmdInit, InitWrite, Sigint
<1>2. CASE CmdGet(p) \/ CmdPut(p)
  <2>1. PICK lab \in {"getlock", "putread"} : GoTo(p, lab)
    BY <1>2 DEF CmdGet, CmdPut
  <2>2. /\ pc[p] # "half" /\ UNCHANGED <<file, orig, shown>>
        /\ \A q \in Clients \ {p} : rec'[q] = rec[q]
    BY <1>2 DEF CmdGet, CmdPut, IndInv, TypeOK
  <2> QED BY <2>1, <2>2, StutterStep
<1>3. CASE GetLock(p) \/ PutLock(p)
  <2>1. PICK lab \in {"getread", "check"} : GoTo(p, lab)
    BY <1>3 DEF GetLock, PutLock
  <2>2. pc[p] # "half" /\ UNCHANGED <<file, orig, shown, rec>>
    BY <1>3 DEF GetLock, PutLock
  <2> QED BY <2>1, <2>2, StutterStep
<1>4. CASE GetRead(p)
  BY <1>1, <1>4, GetReadIsRead
<1>5. CASE GetDone(p) \/ PutDone(p) \/ Sigint(p)
  <2>1. Return(p) /\ UNCHANGED file /\ pc[p] # "half"
    BY <1>5 DEF GetDone, PutDone, Sigint
  <2> QED BY <2>1, ReturnIsForget
<1>6. CASE PutRead(p)
  BY <1>6, PutReadIsLook
<1>7. CASE PutEdit(p)
  <2>1. UNCHANGED file /\ pc[p] # "half"
    BY <1>7 DEF PutEdit
  <2>2. Return(p) \/ (GoTo(p, "putlock") /\ UNCHANGED <<rec, orig, shown>>)
    BY <1>7 DEF PutEdit
  <2> QED BY <2>1, <2>2, ReturnIsForget, StutterStep
<1>8. CASE PutCheck(p)
  BY <1>8, PutCheckIsLook
<1>9. CASE PutConflict(p)
  <2>1. UNCHANGED file /\ pc[p] # "half"
    BY <1>9 DEF PutConflict
  <2>2. Return(p) \/ (GoTo(p, "putread") /\ UNCHANGED <<rec, orig, shown>>)
    BY <1>9 DEF PutConflict
  <2> QED BY <2>1, <2>2, ReturnIsForget, StutterStep
<1>10. CASE PutWrite(p)
  BY <1>1, <1>10, PutWriteIsStutter
<1>11. CASE PutWritten(p)
  BY <1>1, <1>11, PutWrittenIsCas
<1>12. ~CmdInit(p)
  BY DEF CmdInit
<1>13. ~InitWrite(p)
  BY <1>1 DEF InitWrite, IndInv, WriteInv
<1> QED BY <1>2, <1>3, <1>4, <1>5, <1>6, <1>7, <1>8, <1>9, <1>10, <1>11, <1>12,
           <1>13 DEF ClientStep, UserStep

\* As long as nobody has typed INIT, the editors implement compare-and-set
\* registers: no PUT overwrites a change its user has not been shown, and GET
\* never shows half a write (cmd_get and cmd_put, main.c 129-223).
THEOREM EditorsAreRegisters == Spec => ImplementsCas
<1>1. IndInv /\ IndInv' /\ [Next]_vars =>
        [~inited' => Store!Next \/ UNCHANGED Store!vars]_vars
  <2> SUFFICES ASSUME IndInv, IndInv', Next, ~inited'
               PROVE  Store!Next \/ UNCHANGED Store!vars
    OBVIOUS
  <2>1. PICK p \in Clients : ClientStep(p) \/ UserStep(p)
    BY DEF Next
  <2> QED BY <2>1, StepIsStoreStep
<1> QED BY <1>1, IndInvHolds, PTL DEF Spec, ImplementsCas

-----------------------------------------------------------------------------
(***************************************************************************)
(* The sort.  First, what it means for a run to be in order: the k-th of    *)
(* its records has the rank k.                                              *)
(***************************************************************************)

\* The values of f at the n places from lo on, and that they go up.
Segment(f, lo, n) == {f[i] : i \in lo..(lo + n - 1)}
Increasing(f, lo, n) ==
  \A i, j \in lo..(lo + n - 1) : i < j => f[i] < f[j]
NatsAt(f, lo, n) == \A i \in lo..(lo + n - 1) : f[i] \in Nat /\ i \in DOMAIN f
Less == {w \in Nat \X Nat : w[1] < w[2]}

\* The order of the naturals, as a relation: what is below a number in a set.
LEMMA LessOrders ==
  ASSUME NEW S \in SUBSET Nat
  PROVE  /\ Orders(Less, S)
         /\ \A k \in S : {x \in S : x < k} = Below(Less, S, k)
<1>1. \A x, y \in Nat : <<x, y>> \in Less <=> x < y
  BY DEF Less
<1>2. Orders(Less, S)
  BY <1>1 DEF Orders
<1> QED BY <1>1, <1>2 DEF Below

\* What `Sorted` puts at a place has the rank of that place.
LEMMA SortedAt ==
  ASSUME NEW f, NEW lo \in Nat, NEW n \in Nat, NatsAt(f, lo, n),
         NEW i \in lo..(lo + n - 1)
  PROVE  Sorted(f, lo, n)[i] =
           CHOOSE k \in Segment(f, lo, n) :
             Cardinality(Below(Less, Segment(f, lo, n), k)) = i - lo
<1> DEFINE S == Segment(f, lo, n)
<1>1. S \in SUBSET Nat
  BY DEF Segment, NatsAt
<1>2. \A k \in S : {x \in S : x < k} = Below(Less, S, k)
  BY <1>1, LessOrders
<1>3. i \in DOMAIN f
  BY DEF NatsAt
<1>4. Sorted(f, lo, n)[i] = CHOOSE k \in S : Cardinality({x \in S : x < k}) = i - lo
  BY <1>3 DEF Sorted, Segment
<1> HIDE DEF S
<1>5. (CHOOSE k \in S : Cardinality({x \in S : x < k}) = i - lo)
        = CHOOSE k \in S : Cardinality(Below(Less, S, k)) = i - lo
  BY <1>2
<1> QED BY <1>4, <1>5 DEF S

\* The only way to arrange values in order.
LEMMA SortedIs ==
  ASSUME NEW f, NEW lo \in Nat, NEW n \in Nat, NatsAt(f, lo, n),
         NEW g, Increasing(g, lo, n), Segment(g, lo, n) = Segment(f, lo, n),
         NEW i \in lo..(lo + n - 1)
  PROVE  Sorted(f, lo, n)[i] = g[i]
<1> DEFINE S == Segment(f, lo, n)
<1>1. S \in SUBSET Nat /\ \A j \in lo..(lo + n - 1) : g[j] \in S
  BY DEF Segment, NatsAt
<1>2. IsFiniteSet(lo..(lo + n - 1)) /\ IsFiniteSet(lo..(i - 1))
      /\ Cardinality(lo..(i - 1)) = i - lo
  <2>1. lo \in Int /\ lo + n - 1 \in Int /\ i - 1 \in Int /\ ~(lo > (i - 1) + 1)
    OBVIOUS
  <2>2. IsFiniteSet(lo..(lo + n - 1)) /\ IsFiniteSet(lo..(i - 1))
    BY <2>1, FS_Interval, Zenon
  <2>3. Cardinality(lo..(i - 1)) = IF lo > i - 1 THEN 0 ELSE (i - 1) - lo + 1
    BY <2>1, FS_Interval, Zenon
  <2> QED BY <2>1, <2>2, <2>3
<1>3. Below(Less, S, g[i]) = {g[j] : j \in lo..(i - 1)}
  <2>1. ASSUME NEW x \in S, x < g[i]
        PROVE  x \in {g[j] : j \in lo..(i - 1)}
    <3>1. PICK j \in lo..(lo + n - 1) : x = g[j]
      BY DEF Segment
    <3>2. j \in lo..(i - 1)
      BY <1>1, <2>1, <3>1 DEF Increasing
    <3> QED BY <3>1, <3>2
  <2>2. ASSUME NEW j \in lo..(i - 1)
        PROVE  g[j] \in S /\ g[j] < g[i]
    BY <1>1 DEF Increasing
  <2>3. Below(Less, S, g[i]) = {x \in S : x < g[i]}
    BY <1>1, LessOrders
  <2> HIDE DEF S
  <2> QED BY <2>1, <2>2, <2>3
<1>4. Cardinality(Below(Less, S, g[i])) = i - lo
  <2> DEFINE h == [j \in lo..(i - 1) |-> g[j]]
             T == {g[j] : j \in lo..(i - 1)}
  <2>1. h \in [lo..(i - 1) -> T]
    OBVIOUS
  <2>2. \A j, k \in lo..(i - 1) : h[j] = h[k] => j = k
    BY <1>1 DEF Increasing
  <2>3. \A x \in T : \E j \in lo..(i - 1) : h[j] = x
    OBVIOUS
  <2>4. h \in Bijection(lo..(i - 1), T)
    BY <2>1, <2>2, <2>3 DEF Bijection, Injection, Surjection, IsInjective
  <2>5. ExistsBijection(lo..(i - 1), T)
    BY <2>4 DEF ExistsBijection
  <2>6. Cardinality(T) = Cardinality(lo..(i - 1))
    BY <1>2, <2>5, FS_Bijection
  <2> QED BY <1>2, <1>3, <2>6
<1>5. IsFiniteSet(S)
  <2> DEFINE h == [j \in lo..(lo + n - 1) |-> f[j]]
  <2>1. h \in Surjection(lo..(lo + n - 1), S)
    BY DEF Surjection, Segment
  <2> QED BY <1>2, <2>1, FS_Surjection
<1>6. \A k \in S : Cardinality(Below(Less, S, k)) = i - lo => k = g[i]
  BY <1>1, <1>4, <1>5, LessOrders, RankUnique
<1>7. Sorted(f, lo, n)[i] = CHOOSE k \in S : Cardinality(Below(Less, S, k)) = i - lo
  BY SortedAt
<1> HIDE DEF S
<1> QED BY <1>1, <1>4, <1>6, <1>7

\* qsort arranges different values in order.
LEMMA SortedFacts ==
  ASSUME NEW f, NEW lo \in Nat, NEW n \in Nat, NatsAt(f, lo, n),
         \A i, j \in lo..(lo + n - 1) : f[i] = f[j] => i = j
  PROVE  /\ Increasing(Sorted(f, lo, n), lo, n)
         /\ Segment(Sorted(f, lo, n), lo, n) = Segment(f, lo, n)
<1> DEFINE S == Segment(f, lo, n)
           s == Sorted(f, lo, n)
           I == lo..(lo + n - 1)
<1>1. S \in SUBSET Nat
  BY DEF Segment, NatsAt
<1>2. IsFiniteSet(I) /\ Cardinality(I) = n
  BY FS_Interval
<1>3. IsFiniteSet(S) /\ Cardinality(S) = n
  <2> DEFINE h == [j \in I |-> f[j]]
  <2>1. h \in [I -> S] /\ \A x \in S : \E j \in I : h[j] = x
    BY DEF Segment
  <2>2. \A j, k \in I : h[j] = h[k] => j = k
    OBVIOUS
  <2>3. h \in Bijection(I, S)
    BY <2>1, <2>2 DEF Bijection, Injection, Surjection, IsInjective
  <2>4. ExistsBijection(I, S)
    BY <2>3 DEF ExistsBijection
  <2> QED BY <1>2, <2>4, FS_Bijection
<1> Orders(Less, S)
  BY <1>1, LessOrders
<1>4. \A i \in I : s[i] \in S /\ Cardinality(Below(Less, S, s[i])) = i - lo
  <2> TAKE i \in I
  <2>1. s[i] = CHOOSE k \in S : Cardinality(Below(Less, S, k)) = i - lo
    BY SortedAt
  <2>2. i - lo \in 0..(Cardinality(S) - 1)
    BY <1>3
  <2>3. \E k \in S : Cardinality(Below(Less, S, k)) = i - lo
    <3> HIDE DEF S
    <3> QED BY <1>3, <2>2, RankTaken
  <2> HIDE DEF S, s
  <2> QED BY <2>1, <2>3
<1> HIDE DEF s
<1>5. Increasing(s, lo, n)
  <2> SUFFICES ASSUME NEW i \in I, NEW j \in I, i < j
               PROVE  s[i] < s[j]
    BY DEF Increasing
  <2>1. s[i] \in Nat /\ s[j] \in Nat
    BY <1>1, <1>4
  <2>2. CASE s[j] < s[i]
    <3>1. <<s[j], s[i]>> \in Less
      BY <2>1, <2>2 DEF Less
    <3>2. Cardinality(Below(Less, S, s[j])) < Cardinality(Below(Less, S, s[i]))
      BY <1>1, <1>3, <1>4, <3>1, LessOrders, RankGrows
    <3> QED BY <1>4, <3>2
  <2>3. CASE s[j] = s[i]
    BY <1>4, <2>3
  <2> QED BY <2>1, <2>2, <2>3
<1>6. Segment(s, lo, n) \subseteq S
  BY <1>4 DEF Segment
<1>7. ASSUME NEW x \in S
      PROVE  x \in Segment(s, lo, n)
  <2>1. Cardinality(Below(Less, S, x)) \in 0..(n - 1)
    BY <1>1, <1>3, LessOrders, RankInRange
  <2>2. PICK i \in I : i - lo = Cardinality(Below(Less, S, x))
    <3>1. lo + Cardinality(Below(Less, S, x)) \in I
      BY <2>1
    <3> QED BY <2>1, <3>1
  <2>3. s[i] = x
    BY <1>1, <1>3, <1>4, <2>2, LessOrders, RankUnique
  <2> HIDE DEF S
  <2> QED BY <2>3 DEF Segment
<1> QED BY <1>5, <1>6, <1>7 DEF s

-----------------------------------------------------------------------------
(***************************************************************************)
(* The inductive invariant of the sort.                                     *)
(***************************************************************************)
Sorting == {"qsort", "take", "sort", "sync2"}
Between == {"round", "sync3", "next", "end"}
Merging == {"own", "pick", "merge", "write", "sync4"}
AtPair  == {"merge", "write"}
Labels  == {"off", "sync1"} \cup Sorting \cup Between \cup Merging
AllBlocks == 0..(Blocks - 1)
Places    == 0..(Size - 1)

\* Only the barriers lead from one phase into the next.
Together ==
  \E phase \in {{"off"}, {"sync1"}, Sorting, Between, Merging} :
    \A t \in Threads : at[t] \in phase

\* The block a thread sorts.
Job(t)  == IF at[t] = "qsort" THEN t ELSE part[t]
Working == {t \in Threads : at[t] \in {"qsort", "sort"}}

\* A block that is marked has been sorted, or is being sorted by one thread.
BlockInv ==
  /\ at \in [Threads -> Labels]
  /\ sorts \in [AllBlocks -> 0..1] /\ blockMap \subseteq AllBlocks
  /\ Together
  /\ \A t \in Working : Job(t) \in blockMap
  /\ \A t, u \in Working : Job(t) = Job(u) => t = u
  /\ \A t \in Threads :
       /\ at[t] = "sync1" => /\ blockMap = Threads
                             /\ \A b \in AllBlocks : sorts[b] = 0
       /\ at[t] \in Sorting =>
            \A b \in AllBlocks :
              sorts[b] = IF b \in blockMap /\ \A u \in Working : Job(u) # b
                         THEN 1 ELSE 0
       /\ at[t] = "sync2" => blockMap = AllBlocks
       /\ at[t] \in Between \cup Merging => \A b \in AllBlocks : sorts[b] = 1

\* The blocks of a run when the thread's round is over.
RunWidth(t) == IF at[t] = "next" THEN 2 * width[t] ELSE width[t]

\* The local variables of a thread, in every phase.
Locals(t) ==
  LET n == Span(width[t])
      r == Len(tmp[t]) - l[t]
  IN  /\ \E m \in 1..Blocks : Blocks = RunWidth(t) * m
      /\ at[t] \in {"off", "sync1"} \cup Sorting => width[t] = 1
      /\ at[t] \in Merging \cup {"sync3", "next"} => width[t] < Blocks
      /\ at[t] = "end" => width[t] = Blocks
      /\ at[t] \notin AtPair => tmp[t] = <<>> /\ l[t] = 0
      /\ at[t] # "write" => written[t] = 0
      /\ at[t] \in AtPair => /\ part[t] \in 0..(NumPairs(width[t]) - 1)
                             /\ l[t] <= n /\ r \in 0..n
      /\ at[t] = "merge" => l[t] + r < 2 * n
      /\ at[t] = "write" => l[t] + r = 2 * n /\ written[t] < 2 * n
      /\ at[t] = "sync4" => 0..(NumPairs(width[t]) - 1) \subseteq mergeMap

ThreadInv ==
  /\ base \in [Places -> Nat] /\ input \in [Places -> Nat]
  /\ \A i, j \in Places : input[i] = input[j] => i = j
  /\ raced \in BOOLEAN
  /\ width \in [Threads -> Nat \ {0}] /\ part \in [Threads -> Nat]
  /\ tmp \in [Threads -> Seq(Nat)]
  /\ l \in [Threads -> Nat] /\ written \in [Threads -> Nat]
  /\ \A t, u \in Threads : RunWidth(t) = RunWidth(u)
  /\ \A t \in Threads : Locals(t)
  /\ \A t \in Threads : at[t] \in {"sync1"} \cup Sorting => ~raced
  /\ at[0] = "sync3" => mergeMap = {}

\* Two runs of n records, from a and from b on, are being merged into s: s has
\* the first i of the one and the first j of the other, in order, and they come
\* before all the rest.
Merged(f, a, b, n, s, i, j) ==
  /\ Len(s) = i + j
  /\ \A p, q \in 1..Len(s) : p < q => s[p] < s[q]
  /\ {s[p] : p \in 1..Len(s)} = Segment(f, a, i) \cup Segment(f, b, j)
  /\ \A p \in 1..Len(s) :
       /\ \A k \in (a + i)..(a + n - 1) : s[p] < f[k]
       /\ \A k \in (b + j)..(b + n - 1) : s[p] < f[k]

\* f has the n records of g from lo on, in order.
InOrder(f, g, lo, n) ==
  \A i \in lo..(lo + n - 1) : f[i] = Sorted(g, lo, n)[i]

\* The sequence s has them.
HasSorted(s, g, lo, n) ==
  \A i \in 0..(n - 1) : s[i + 1] = Sorted(g, lo, n)[lo + i]

\* The places of pair p are p * 2 * n and the 2 * n - 1 after it.
PairReady(p, n) == /\ InOrder(base, input, p * 2 * n, n)
                   /\ InOrder(base, input, p * 2 * n + n, n)
PairDone(p, n)  == InOrder(base, input, p * 2 * n, 2 * n)

Writers(p) == {t \in Threads : at[t] = "write" /\ part[t] = p}

\* What do_merge has put into tmp.
MergeLoop(t) ==
  LET n == Span(width[t])
  IN  Merged(base, Left(t), Left(t) + n, n, tmp[t], l[t], Len(tmp[t]) - l[t])

\* tmp is full, and its first records are where they belong.
MergeWrite(t) ==
  /\ HasSorted(tmp[t], input, Left(t), Total(t))
  /\ \A i \in 0..(written[t] - 1) :
       base[Left(t) + i] = Sorted(input, Left(t), Total(t))[Left(t) + i]

PairInv(p, n) ==
  /\ Writers(p) = {} => PairReady(p, n) \/ PairDone(p, n)
  /\ p \in mergeMap =>
       PairDone(p, n) \/ \E u \in Threads : at[u] \in AtPair /\ part[u] = p

\* What has become of the records, as long as nobody's memcpy met a reader.
Records(t) ==
  /\ at[t] = "sync1" => base = input
  /\ at[t] \in Sorting =>
       \A b \in AllBlocks :
         /\ sorts[b] = 1 => InOrder(base, input, b * Per, Per)
         /\ sorts[b] = 0 =>
              \A i \in (b * Per)..(b * Per + Per - 1) : base[i] = input[i]
  /\ at[t] \in Between =>
       LET n == Span(RunWidth(t))
       IN  \A k \in 0..(Size \div n - 1) : InOrder(base, input, k * n, n)
  /\ at[t] \in Merging =>
       \A p \in 0..(NumPairs(width[t]) - 1) : PairInv(p, Span(width[t]))
  /\ at[t] = "merge" /\ Writers(part[t]) = {} => MergeLoop(t)
  /\ at[t] = "write" => MergeWrite(t)

RecordInv == ~raced => \A t \in Threads : Records(t)

SortInv == BlockInv /\ ThreadInv /\ RecordInv

\* What the checks of main's arguments say of the constants.
LEMMA ConstantFacts ==
  /\ NumThreads \in Nat \ {0} /\ Blocks \in Nat \ {0} /\ Per \in Nat \ {0}
  /\ NumThreads <= Blocks
  /\ 0 \in Threads /\ Threads \subseteq AllBlocks /\ Threads \subseteq Nat
  BY SortIndexAssumption DEF Threads, AllBlocks

\* The scan of a map under the mutex finds the lowest unmarked number.
LEMMA NextFreeIs ==
  ASSUME NEW map, NEW n \in Nat
  PROVE  /\ NextFree(map, n) \in 0..n
         /\ NextFree(map, n) = n \/ NextFree(map, n) \notin map
         /\ \A j \in 0..(NextFree(map, n) - 1) : j \in map
<1> DEFINE S == {i \in 0..n : i = n \/ i \notin map}
<1>1. S \in SUBSET Nat /\ n \in S
  OBVIOUS
<1>2. PICK i \in S : \A j \in S : i <= j
  BY <1>1, LeastNatural
<1>3. \A j \in 0..(i - 1) : j \in map
  BY <1>2
<1>4. \E k \in 0..n : (k = n \/ k \notin map) /\ \A j \in 0..(k - 1) : j \in map
  BY <1>2, <1>3
<1> QED BY <1>4 DEF NextFree

\* Nothing that BlockInv speaks of changes, but for threads that merge.
LEMMA BlockMerging ==
  ASSUME BlockInv, NEW t \in Threads, NEW lab \in Between \cup Merging,
         at[t] \in Between => lab \in Between,
         at[t] \in Merging => lab \in Merging,
         at[t] \in Between \cup Merging,
         at' = [at EXCEPT ![t] = lab], UNCHANGED <<sorts, blockMap>>
  PROVE  BlockInv'
<1>1. \A u \in Threads : at[u] \in Between \/ at[u] \in Merging
  BY DEF BlockInv, Together, Sorting, Between, Merging
<1>2. Working = {} /\ Working' = {}
  <2>1. \A u \in Threads : at'[u] \in Between \/ at'[u] \in Merging
    BY <1>1 DEF BlockInv
  <2> QED BY <1>1, <2>1 DEF Working, Between, Merging
<1>3. at' \in [Threads -> Labels]
  BY DEF BlockInv, Labels
<1>4. Together'
  <2>1. CASE \A u \in Threads : at[u] \in Between
    <3>1. \A u \in Threads : at'[u] \in Between
      BY <2>1 DEF BlockInv
    <3> QED BY <3>1 DEF Together
  <2>2. CASE \A u \in Threads : at[u] \in Merging
    <3>1. \A u \in Threads : at'[u] \in Merging
      BY <2>2 DEF BlockInv
    <3> QED BY <3>1 DEF Together
  <2> QED
    BY <2>1, <2>2 DEF BlockInv, Together, Sorting, Between, Merging
<1>5. \A b \in AllBlocks : sorts[b] = 1
  BY DEF BlockInv
<1>6. \A u \in Threads : at'[u] \in Between \cup Merging
  BY <1>1 DEF BlockInv
<1> QED
  BY <1>2, <1>3, <1>4, <1>5, <1>6
  DEF BlockInv, Sorting, Between, Merging

\* A thread in the sorting phase goes on with a block that nobody sorts.
LEMMA BlockBarrier ==
  ASSUME BlockInv, Barrier
  PROVE  BlockInv'
<1>1. /\ \A t \in Threads : at[t] \in {"sync1", "sync2", "sync3", "sync4"}
      /\ at' = [t \in Threads |-> Behind[at[t]]]
      /\ UNCHANGED <<sorts, blockMap>>
  BY DEF Barrier, Behind, shared, history
<1>2. /\ \A t \in Threads : at[t] = "sync1" => at'[t] = "qsort"
      /\ \A t \in Threads : at[t] = "sync2" => at'[t] = "round"
      /\ \A t \in Threads : at[t] = "sync3" => at'[t] = "own"
      /\ \A t \in Threads : at[t] = "sync4" => at'[t] = "next"
  BY <1>1 DEF Behind
<1>3. PICK lab \in {"sync1", "sync2", "sync3", "sync4"} : \A t \in Threads : at[t] = lab
  BY <1>1 DEF BlockInv, Together, Sorting, Between, Merging
<1>4. at' \in [Threads -> Labels]
  BY <1>1, <1>2, <1>3 DEF Labels, Sorting, Between, Merging
<1>5. CASE lab = "sync1"
  <2>1. \A t \in Threads : at'[t] = "qsort"
    BY <1>2, <1>3, <1>5
  <2>2. Together'
    BY <2>1 DEF Together, Sorting
  <2>3. Working' = Threads /\ \A t \in Threads : Job(t)' = t
    BY <2>1 DEF Working, Job
  <2>4. blockMap = Threads /\ \A b \in AllBlocks : sorts[b] = 0
    BY <1>3, <1>5, ConstantFacts DEF BlockInv
  <2> QED
    BY <1>1, <1>4, <2>1, <2>2, <2>3, <2>4, ConstantFacts
    DEF BlockInv, Sorting, Between, Merging
<1>6. CASE lab = "sync2"
  <2>1. \A t \in Threads : at'[t] = "round"
    BY <1>2, <1>3, <1>6
  <2>2. Together'
    BY <2>1 DEF Together, Between
  <2>3. Working' = {} /\ Working = {}
    BY <1>3, <1>6, <2>1 DEF Working
  <2>4. \A b \in AllBlocks : sorts[b] = 1
    BY <1>3, <1>6, <2>3, ConstantFacts DEF BlockInv, Sorting
  <2> QED
    BY <1>1, <1>4, <2>1, <2>2, <2>3, <2>4
    DEF BlockInv, Sorting, Between, Merging
<1>7. CASE lab \in {"sync3", "sync4"}
  <2>1. \A t \in Threads : at'[t] = IF lab = "sync3" THEN "own" ELSE "next"
    BY <1>2, <1>3, <1>7
  <2>2. Together'
    BY <2>1 DEF Together, Between, Merging
  <2>3. Working' = {}
    BY <2>1 DEF Working
  <2>4. \A b \in AllBlocks : sorts[b] = 1
    BY <1>3, <1>7, ConstantFacts DEF BlockInv, Between, Merging
  <2> QED
    BY <1>1, <1>4, <2>1, <2>2, <2>3, <2>4
    DEF BlockInv, Sorting, Between, Merging
<1> QED BY <1>5, <1>6, <1>7

\* qsort of a block has returned.
LEMMA BlockSorted ==
  ASSUME BlockInv, NEW t \in Working, QsortBlock(t, Job(t)),
         UNCHANGED <<blockMap, part>>
  PROVE  BlockInv'
<1> DEFINE b == Job(t)
<1>1. /\ t \in Threads /\ at[t] \in {"qsort", "sort"}
      /\ b \in blockMap /\ b \in AllBlocks /\ sorts[b] = 0
  BY DEF Working, BlockInv, Sorting
<1>2. at' = [at EXCEPT ![t] = "take"] /\ sorts' = [sorts EXCEPT ![b] = @ + 1]
  BY DEF QsortBlock, JumpTo
<1>3. /\ at' \in [Threads -> Labels]
      /\ sorts' \in [AllBlocks -> 0..1]
      /\ sorts'[b] = 1 /\ \A c \in AllBlocks : c # b => sorts'[c] = sorts[c]
  BY <1>1, <1>2 DEF BlockInv, Labels, Sorting
<1>4. \A u \in Threads : at[u] \in Sorting
  BY <1>1 DEF BlockInv, Together, Sorting, Between, Merging
<1>5. \A u \in Threads : at'[u] \in Sorting
  BY <1>2, <1>4 DEF BlockInv, Sorting
<1>6. Together'
  BY <1>5 DEF Together
<1>7. Working' = Working \ {t} /\ \A u \in Working' : Job(u)' = Job(u)
  <2>1. \A u \in Threads : u # t => at'[u] = at[u]
    BY <1>2 DEF BlockInv
  <2>2. at'[t] = "take"
    BY <1>1, <1>2 DEF BlockInv
  <2> QED BY <2>1, <2>2 DEF Working, Job
<1> HIDE DEF b
<1>8. \A c \in AllBlocks :
        sorts'[c] = IF c \in blockMap /\ \A u \in Working' : Job(u)' # c
                    THEN 1 ELSE 0
  <2> TAKE c \in AllBlocks
  <2>1. CASE c = b
    BY <1>1, <1>3, <1>7, <2>1 DEF BlockInv, b
  <2>2. CASE c # b
    <3>1. (\A u \in Working' : Job(u)' # c) <=> (\A u \in Working : Job(u) # c)
      BY <1>7, <2>2 DEF b
    <3>2. sorts[c] = IF c \in blockMap /\ \A u \in Working : Job(u) # c THEN 1 ELSE 0
      BY <1>1, <1>4 DEF BlockInv
    <3> QED BY <1>3, <2>2, <3>1, <3>2
  <2> QED BY <2>1, <2>2
<1>9. \A u \in Threads : at'[u] = "sync2" => blockMap = AllBlocks
  BY <1>1, <1>2 DEF BlockInv
<1>10. /\ \A u \in Working' : Job(u)' \in blockMap
       /\ \A u, v \in Working' : Job(u)' = Job(v)' => u = v
  BY <1>7 DEF BlockInv
<1> QED
  BY <1>3, <1>5, <1>6, <1>8, <1>9, <1>10
  DEF BlockInv, Sorting, Between, Merging

\* The next block that is not marked is nobody's.
LEMMA BlockTaken ==
  ASSUME BlockInv, part \in [Threads -> Nat], NEW t \in Threads, TakeBlock(t)
  PROVE  BlockInv'
<1> DEFINE n == NextFree(blockMap, Blocks)
<1>1. /\ n \in 0..Blocks /\ (n = Blocks \/ n \notin blockMap)
      /\ \A j \in 0..(n - 1) : j \in blockMap
  BY NextFreeIs, ConstantFacts
<1>2. \A u \in Threads : at[u] \in Sorting
  BY DEF TakeBlock, BlockInv, Together, Sorting, Between, Merging
<1>3. \A b \in AllBlocks :
        sorts[b] = IF b \in blockMap /\ \A u \in Working : Job(u) # b THEN 1 ELSE 0
  BY <1>2 DEF BlockInv
<1> HIDE DEF n
<1>4. CASE /\ n < Blocks /\ blockMap' = blockMap \cup {n}
           /\ part' = [part EXCEPT ![t] = n] /\ JumpTo(t, "sort")
           /\ UNCHANGED sorts
  <2>1. /\ \A u \in Threads : u # t => at'[u] = at[u] /\ part'[u] = part[u]
        /\ at'[t] = "sort" /\ part'[t] = n /\ at' \in [Threads -> Labels]
    BY <1>4 DEF BlockInv, JumpTo, Labels, Sorting
  <2>2. t \notin Working
    BY DEF TakeBlock, Working
  <2>3. /\ Working' = Working \cup {t} /\ Job(t)' = n
        /\ \A u \in Working : u # t /\ Job(u)' = Job(u)
    BY <2>1, <2>2 DEF Working, Job
  <2>4. n \in AllBlocks /\ n \notin blockMap
    BY <1>1, <1>4, ConstantFacts DEF AllBlocks
  <2>5. \A u \in Threads : at'[u] \in Sorting
    BY <1>2, <2>1 DEF Sorting
  <2>6. \A u \in Working' : Job(u)' \in blockMap'
    BY <1>4, <2>3 DEF BlockInv
  <2>7. \A u, v \in Working' : Job(u)' = Job(v)' => u = v
    BY <2>3, <2>4 DEF BlockInv
  <2>8. \A b \in AllBlocks :
          sorts'[b] = IF b \in blockMap' /\ \A u \in Working' : Job(u)' # b
                      THEN 1 ELSE 0
    BY <1>3, <1>4, <2>3, <2>4
  <2>9. \A u \in Threads : at'[u] # "sync2"
    <3>1. \A u \in Threads : at[u] # "sync2"
      BY <2>4 DEF BlockInv
    <3> QED BY <2>1, <3>1
  <2>10. Together'
    BY <2>5 DEF Together
  <2> QED
    BY <1>4, <2>1, <2>4, <2>5, <2>6, <2>7, <2>8, <2>9, <2>10
    DEF BlockInv, Sorting, Between, Merging
<1>5. CASE n = Blocks /\ JumpTo(t, "sync2") /\ UNCHANGED <<blockMap, part, sorts>>
  <2>1. /\ \A u \in Threads : u # t => at'[u] = at[u]
        /\ at'[t] = "sync2" /\ at' \in [Threads -> Labels]
    BY <1>5 DEF BlockInv, JumpTo, Labels, Sorting
  <2>2. blockMap = AllBlocks
    BY <1>1, <1>5, ConstantFacts DEF BlockInv, AllBlocks
  <2>3. Working' = Working /\ \A u \in Working : Job(u)' = Job(u)
    BY <1>5, <2>1 DEF Working, Job, TakeBlock
  <2>4. \A u \in Threads : at'[u] \in Sorting
    BY <1>2, <2>1 DEF Sorting
  <2>5. Together'
    BY <2>4 DEF Together
  <2> QED
    BY <1>3, <1>5, <2>1, <2>2, <2>3, <2>4, <2>5
    DEF BlockInv, Sorting, Between, Merging
<1> QED
  BY <1>4, <1>5 DEF TakeBlock, history, n

\* main marks the first blocks before it starts the threads, and nothing else.
LEMMA BlockChunk ==
  ASSUME BlockInv, MapChunk \/ UnmapChunk
  PROVE  BlockInv'
<1>1. CASE MapChunk
  <2>1. /\ blockMap' = Threads /\ \A t \in Threads : at'[t] = "sync1"
        /\ at' \in [Threads -> Labels]
        /\ sorts' \in [AllBlocks -> 0..1] /\ \A b \in AllBlocks : sorts'[b] = 0
    BY <1>1 DEF MapChunk, Labels, AllBlocks
  <2>2. Working' = {} /\ Together'
    BY <2>1 DEF Working, Together
  <2> QED
    BY <2>1, <2>2, ConstantFacts DEF BlockInv, Sorting, Between, Merging
<1>2. CASE UnmapChunk
  <2>1. /\ UNCHANGED <<blockMap, sorts>> /\ \A t \in Threads : at'[t] = "off"
        /\ at' \in [Threads -> Labels]
    BY <1>2 DEF UnmapChunk, Labels, history
  <2>2. Working' = {} /\ Together'
    BY <2>1 DEF Working, Together
  <2> QED
    BY <2>1, <2>2 DEF BlockInv, Sorting, Between, Merging
<1> QED BY <1>1, <1>2

\* A step of a thread that merges changes nothing that BlockInv speaks of.
LEMMA BlockWorker ==
  ASSUME BlockInv, part \in [Threads -> Nat], NEW t \in Threads, Worker(t)
  PROVE  BlockInv'
<1>1. CASE SortOwn(t)
  <2>1. t \in Working /\ Job(t) = t /\ QsortBlock(t, t)
    BY <1>1 DEF SortOwn, Working, Job
  <2> QED BY <1>1, <2>1, BlockSorted DEF SortOwn
<1>2. CASE TakeBlock(t)
  BY <1>2, BlockTaken
<1>3. CASE SortTaken(t)
  <2>1. t \in Working /\ Job(t) = part[t] /\ QsortBlock(t, part[t])
    BY <1>3 DEF SortTaken, Working, Job
  <2> QED BY <1>3, <2>1, BlockSorted DEF SortTaken
<1>4. CASE \/ Round(t) \/ MergeOwn(t) \/ TakePair(t) \/ MergeStep(t)
           \/ WriteBack(t) \/ NextRound(t)
  <2>1. /\ UNCHANGED <<sorts, blockMap>>
        /\ \/ at[t] = "round" /\ at' = [at EXCEPT ![t] = "end"]
           \/ at[t] = "round" /\ at' = [at EXCEPT ![t] = "sync3"]
           \/ at[t] = "own" /\ at' = [at EXCEPT ![t] = "merge"]
           \/ at[t] = "own" /\ at' = [at EXCEPT ![t] = "pick"]
           \/ at[t] = "pick" /\ at' = [at EXCEPT ![t] = "merge"]
           \/ at[t] = "pick" /\ at' = [at EXCEPT ![t] = "sync4"]
           \/ at[t] = "merge" /\ at' = [at EXCEPT ![t] = "write"]
           \/ at[t] = "merge" /\ at' = [at EXCEPT ![t] = "merge"]
           \/ at[t] = "write" /\ at' = [at EXCEPT ![t] = "write"]
           \/ at[t] = "write" /\ at' = [at EXCEPT ![t] = "pick"]
           \/ at[t] = "next" /\ at' = [at EXCEPT ![t] = "round"]
    <3>1. at = [at EXCEPT ![t] = at[t]]
      BY DEF BlockInv
    <3>2. CASE Round(t)
      BY <3>2 DEF Round, JumpTo, history
    <3>3. CASE MergeOwn(t)
      BY <3>3 DEF MergeOwn, StartMerge, JumpTo, history, shared
    <3>4. CASE TakePair(t)
      BY <3>4 DEF TakePair, StartMerge, JumpTo, history
    <3>5. CASE MergeStep(t)
      BY <3>1, <3>5 DEF MergeStep, JumpTo, shared
    <3>6. CASE WriteBack(t)
      BY <3>1, <3>6 DEF WriteBack, JumpTo
    <3>7. CASE NextRound(t)
      BY <3>7 DEF NextRound, JumpTo, shared, history
    <3> QED BY <1>4, <3>2, <3>3, <3>4, <3>5, <3>6, <3>7
  <2> QED
    BY <2>1, BlockMerging DEF Between, Merging
<1> QED BY <1>1, <1>2, <1>3, <1>4 DEF Worker

\* Together: no step of the program breaks BlockInv.
LEMMA BlockStep ==
  ASSUME BlockInv, part \in [Threads -> Nat], [SortNext]_sortVars
  PROVE  BlockInv'
<1>1. CASE \E t \in Threads : Worker(t)
  BY <1>1, BlockWorker
<1>2. CASE UNCHANGED sortVars
  <2>1. UNCHANGED <<at, sorts, blockMap, part>>
    BY <1>2 DEF sortVars, shared, locals, history
  <2>2. Working' = Working /\ Together' = Together /\ \A t : Job(t)' = Job(t)
    BY <2>1 DEF Working, Together, Job
  <2> QED BY <2>1, <2>2 DEF BlockInv
<1> QED
  BY <1>1, <1>2, BlockChunk, BlockBarrier DEF SortNext, Terminated

\* BlockInv before the first chunk.
LEMMA BlockStart ==
  ASSUME SortInit
  PROVE  BlockInv
<1>1. /\ blockMap = {} /\ \A t \in Threads : at[t] = "off"
      /\ at \in [Threads -> Labels]
      /\ sorts \in [AllBlocks -> 0..1]
  BY DEF SortInit, Labels, AllBlocks
<1>2. Working = {} /\ Together
  BY <1>1 DEF Working, Together
<1> QED
  BY <1>1, <1>2 DEF BlockInv, Sorting, Between, Merging

-----------------------------------------------------------------------------
(***************************************************************************)
(* Widths, pairs and places.                                                *)
(***************************************************************************)

\* While a run has not all the blocks the runs pair off: Blocks is a power of
\* two.
LEMMA WidthHalves ==
  ASSUME NEW w \in Nat \ {0}, NEW m \in 1..Blocks, Blocks = w * m, w < Blocks
  PROVE  NumPairs(w) \in 1..Blocks /\ Blocks = (2 * w) * NumPairs(w)
<1>1. m # 1
  OBVIOUS
<1>2. Blocks % m = 0
  <2>1. /\ m \in Nat /\ m >= 1 /\ Blocks \in Int /\ w \in Int /\ 0 \in Nat
        /\ 0 < m /\ Blocks = m * w + 0
    BY ConstantFacts
  <2> QED BY <2>1, ModUnique, Zenon
<1>3. m % 2 = 0
  <2>1. ~(m % 2 = 1)
    BY <1>1, <1>2, SortIndexAssumption, Zenon
  <2>2. m % 2 \in 0..1
    OBVIOUS
  <2> QED BY <2>1, <2>2
<1>4. PICK k \in 1..Blocks : m = 2 * k
  <2>1. m \div 2 \in 1..Blocks /\ m = 2 * (m \div 2)
    BY <1>1, <1>3
  <2> QED BY <2>1
<1>5. Blocks = k * (2 * w)
  BY <1>4
<1>6. NumPairs(w) = k
  BY <1>5 DEF NumPairs
<1> QED BY <1>4, <1>5, <1>6

\* Multiples of n lie at least n apart.
LEMMA Product ==
  ASSUME NEW a \in Nat, NEW b \in Nat, NEW n \in Nat, a < b
  PROVE  a * n \in Nat /\ a * n + n <= b * n
<1>1. PICK d \in Nat : b = a + 1 + d
  <2>1. b - a - 1 \in Nat /\ b = a + 1 + (b - a - 1)
    OBVIOUS
  <2> QED BY <2>1
<1>2. b * n = a * n + n + d * n
  BY <1>1
<1>3. a * n \in Nat /\ d * n \in Nat
  BY <1>1
<1> QED BY <1>2, <1>3

\* The pairs of a round lie one behind the other and fill the chunk.
LEMMA PairPlaces ==
  ASSUME NEW w \in Nat \ {0}, NumPairs(w) \in 1..Blocks,
         Blocks = (2 * w) * NumPairs(w)
  PROVE  /\ Span(w) \in Nat \ {0}
         /\ Size = NumPairs(w) * (2 * Span(w))
         /\ \A p \in 0..(NumPairs(w) - 1) :
              /\ p * 2 * Span(w) \in Nat
              /\ p * 2 * Span(w) + 2 * Span(w) <= Size
              /\ \A q \in 0..(NumPairs(w) - 1) :
                   p < q => p * 2 * Span(w) + 2 * Span(w) <= q * 2 * Span(w)
<1> DEFINE n == 2 * Span(w)
<1>1. Span(w) \in Nat \ {0}
  BY ConstantFacts DEF Span
<1>2. Size = NumPairs(w) * n
  <2>1. Size = ((2 * w) * NumPairs(w)) * Per
    BY DEF Size
  <2>2. n = 2 * (w * Per)
    BY DEF Span
  <2>3. ((2 * w) * NumPairs(w)) * Per = NumPairs(w) * (2 * (w * Per))
    BY ConstantFacts
  <2> QED BY <2>1, <2>2, <2>3
<1>3. \A p \in Nat : p * 2 * Span(w) = p * n
  BY <1>1
<1>4. n \in Nat
  BY <1>1
<1> HIDE DEF n
<1>5. \A p \in 0..(NumPairs(w) - 1) : p * n \in Nat /\ p * n + n <= Size
  BY <1>2, <1>4, Product
<1>6. \A p, q \in 0..(NumPairs(w) - 1) : p < q => p * n + n <= q * n
  BY <1>4, Product
<1>7. \A p \in 0..(NumPairs(w) - 1) :
        /\ p * 2 * Span(w) \in Nat
        /\ p * 2 * Span(w) + n <= Size
        /\ \A q \in 0..(NumPairs(w) - 1) :
             p < q => p * 2 * Span(w) + n <= q * 2 * Span(w)
  BY <1>3, <1>5, <1>6
<1> QED BY <1>1, <1>2, <1>7 DEF n

-----------------------------------------------------------------------------
(***************************************************************************)
(* ThreadInv.                                                                *)
(***************************************************************************)

\* The numbers of a thread that is in a round.
LEMMA RoundFacts ==
  ASSUME ThreadInv, NEW t \in Threads, at[t] \in Merging \cup {"sync3"}
  PROVE  /\ width[t] \in Nat \ {0} /\ Span(width[t]) \in Nat \ {0}
         /\ Total(t) = 2 * Span(width[t])
         /\ NumPairs(width[t]) \in 1..Blocks
         /\ Blocks = (2 * width[t]) * NumPairs(width[t])
         /\ Size = NumPairs(width[t]) * (2 * Span(width[t]))
<1>1. width[t] \in Nat \ {0}
  BY DEF ThreadInv
<1>2. width[t] < Blocks /\ RunWidth(t) = width[t]
  BY DEF ThreadInv, Locals, RunWidth, Merging
<1>3. PICK m \in 1..Blocks : Blocks = width[t] * m
  BY <1>2 DEF ThreadInv, Locals
<1>4. NumPairs(width[t]) \in 1..Blocks /\ Blocks = (2 * width[t]) * NumPairs(width[t])
  BY <1>1, <1>2, <1>3, WidthHalves
<1>5. Span(width[t]) \in Nat \ {0} /\ Size = NumPairs(width[t]) * (2 * Span(width[t]))
  BY <1>1, <1>4, PairPlaces
<1> QED BY <1>1, <1>4, <1>5 DEF Total

\* All threads of a round have the same width, those in it the same as those
\* that are about to enter it.
LEMMA SameWidth ==
  ASSUME ThreadInv, NEW t \in Threads, NEW u \in Threads,
         at[t] # "next", at[u] # "next"
  PROVE  width[t] = width[u]
  BY DEF ThreadInv, RunWidth

\* Where the records of a pair are.
LEMMA PairAt ==
  ASSUME ThreadInv, NEW t \in Threads, at[t] \in AtPair
  PROVE  /\ Left(t) \in Nat /\ Left(t) + Total(t) <= Size
         /\ Left(t) = part[t] * 2 * Span(width[t])
         /\ \A i \in 0..(Total(t) - 1) : Left(t) + i \in Places
<1>1. at[t] \in Merging \cup {"sync3"} /\ part[t] \in 0..(NumPairs(width[t]) - 1)
  BY DEF AtPair, Merging, ThreadInv, Locals
<1>2. /\ width[t] \in Nat \ {0} /\ Span(width[t]) \in Nat \ {0}
      /\ Total(t) = 2 * Span(width[t])
      /\ NumPairs(width[t]) \in 1..Blocks
      /\ Blocks = (2 * width[t]) * NumPairs(width[t])
  BY <1>1, RoundFacts
<1>3. /\ part[t] * 2 * Span(width[t]) \in Nat
      /\ part[t] * 2 * Span(width[t]) + 2 * Span(width[t]) <= Size
  BY <1>1, <1>2, PairPlaces
<1>4. Left(t) = part[t] * 2 * Span(width[t])
  BY DEF Left
<1>5. Size \in Nat
  BY ConstantFacts DEF Size
<1> QED BY <1>2, <1>3, <1>4, <1>5 DEF Places

\* A step of one thread leaves the others' variables alone.
LEMMA LocalKeep ==
  ASSUME ThreadInv, NEW t \in Threads,
         at \in [Threads -> Labels], at' \in [Threads -> Labels],
         \A u \in Threads \ {t} :
           /\ at'[u] = at[u] /\ width'[u] = width[u] /\ part'[u] = part[u]
           /\ tmp'[u] = tmp[u] /\ l'[u] = l[u] /\ written'[u] = written[u]
           /\ at[u] = "sync4" => mergeMap \subseteq mergeMap',
         Locals(t)', RunWidth(t)' = RunWidth(t),
         width' \in [Threads -> Nat \ {0}], part' \in [Threads -> Nat],
         tmp' \in [Threads -> Seq(Nat)], l' \in [Threads -> Nat],
         written' \in [Threads -> Nat],
         base' \in [Places -> Nat], input' = input, raced' \in BOOLEAN,
         at'[0] = "sync3" => mergeMap' = {},
         \A u \in Threads : at'[u] \in {"sync1"} \cup Sorting => ~raced'
  PROVE  ThreadInv'
<1>1. ASSUME NEW u \in Threads
      PROVE  Locals(u)' /\ RunWidth(u)' = RunWidth(u)
  <2>1. CASE u = t
    BY <2>1
  <2>2. CASE u # t
    <3>1. /\ at'[u] = at[u] /\ width'[u] = width[u] /\ part'[u] = part[u]
          /\ tmp'[u] = tmp[u] /\ l'[u] = l[u] /\ written'[u] = written[u]
          /\ at[u] = "sync4" => mergeMap \subseteq mergeMap'
      BY <2>2
    <3>2. Locals(u)
      BY DEF ThreadInv
    <3> QED BY <3>1, <3>2 DEF Locals, RunWidth
  <2> QED BY <2>1, <2>2
<1> QED BY <1>1 DEF ThreadInv

\* The steps that move the thread and at most mark a map.
LEMMA LocalMove ==
  ASSUME ThreadInv, BlockInv, NEW t \in Threads,
         NEW lab \in Labels, at' = [at EXCEPT ![t] = lab],
         UNCHANGED <<width, tmp, l, written, base, input, raced>>,
         part' \in [Threads -> Nat], \A u \in Threads \ {t} : part'[u] = part[u],
         \A u \in Threads \ {t} : at[u] = "sync4" => mergeMap \subseteq mergeMap',
         Locals(t)', RunWidth(t)' = RunWidth(t),
         at'[0] = "sync3" => mergeMap' = {},
         lab \in {"sync1"} \cup Sorting => ~raced
  PROVE  ThreadInv'
<1>1. /\ at \in [Threads -> Labels] /\ at' \in [Threads -> Labels]
      /\ \A u \in Threads \ {t} : at'[u] = at[u]
  BY DEF BlockInv
<1>2. /\ width \in [Threads -> Nat \ {0}] /\ tmp \in [Threads -> Seq(Nat)]
      /\ l \in [Threads -> Nat] /\ written \in [Threads -> Nat]
      /\ base \in [Places -> Nat] /\ raced \in BOOLEAN
  BY DEF ThreadInv
<1>3. at'[t] = lab
  BY <1>1 DEF BlockInv
<1>4. \A u \in Threads : at'[u] \in {"sync1"} \cup Sorting => ~raced'
  BY <1>1, <1>3 DEF ThreadInv
<1> QED BY <1>1, <1>2, <1>4, LocalKeep

\* The sorting phase changes nothing that ThreadInv speaks of but at and part.
LEMMA LocalSorting ==
  ASSUME ThreadInv, BlockInv, base' \in [Places -> Nat], NEW t \in Threads,
         SortOwn(t) \/ TakeBlock(t) \/ SortTaken(t)
  PROVE  ThreadInv'
<1>1. /\ at[t] \in {"qsort", "take", "sort"}
      /\ at' \in [Threads -> Labels] /\ at'[t] \in {"take", "sort", "sync2"}
      /\ \A u \in Threads \ {t} : at'[u] = at[u] /\ part'[u] = part[u]
      /\ UNCHANGED <<width, tmp, l, written, input, raced, mergeMap>>
      /\ part' \in [Threads -> Nat]
  <2>1. at \in [Threads -> Labels] /\ part \in [Threads -> Nat]
    BY DEF BlockInv, ThreadInv
  <2>2. CASE SortOwn(t)
    BY <2>1, <2>2 DEF SortOwn, QsortBlock, JumpTo, Labels, Sorting
  <2>3. CASE TakeBlock(t)
    <3>1. NextFree(blockMap, Blocks) \in Nat
      BY NextFreeIs, ConstantFacts
    <3> QED BY <2>1, <2>3, <3>1 DEF TakeBlock, JumpTo, Labels, Sorting, history
  <2>4. CASE SortTaken(t)
    BY <2>1, <2>4 DEF SortTaken, QsortBlock, JumpTo, Labels, Sorting
  <2> QED BY <2>2, <2>3, <2>4
<1>2. at[0] # "sync3"
  BY <1>1, ConstantFacts DEF BlockInv, Together, Sorting, Between, Merging
<1>3. at'[0] # "sync3"
  BY <1>1, <1>2, ConstantFacts
<1>4. Locals(t)
  BY DEF ThreadInv
<1>5. Locals(t)' /\ RunWidth(t)' = RunWidth(t)
  BY <1>1, <1>4 DEF Locals, RunWidth, Sorting, Between, Merging, AtPair
<1>6. at \in [Threads -> Labels]
  BY DEF BlockInv
<1>7. /\ width \in [Threads -> Nat \ {0}] /\ tmp \in [Threads -> Seq(Nat)]
      /\ l \in [Threads -> Nat] /\ written \in [Threads -> Nat] /\ raced \in BOOLEAN
  BY DEF ThreadInv
<1>8. ~raced
  BY <1>1 DEF ThreadInv, Sorting
<1> QED BY <1>1, <1>3, <1>5, <1>6, <1>7, <1>8, LocalKeep

\* A thread enters a round only while runs are left to merge.
LEMMA LocalRound ==
  ASSUME ThreadInv, BlockInv, NEW t \in Threads, Round(t)
  PROVE  ThreadInv'
<1>1. \A u \in Threads : at[u] \in Between
  BY DEF Round, BlockInv, Together, Sorting, Between, Merging
<1>2. \A u \in Threads \ {t} : at[u] # "sync4"
  BY <1>1 DEF Between
<1>3. Locals(t) /\ at \in [Threads -> Labels] /\ part \in [Threads -> Nat]
  BY DEF ThreadInv, BlockInv
<1>4. PICK lab \in {"end", "sync3"} :
        /\ at' = [at EXCEPT ![t] = lab]
        /\ lab = "end" => width[t] = Blocks /\ mergeMap' = mergeMap
        /\ lab = "sync3" => /\ width[t] < Blocks
                            /\ mergeMap' = IF t = 0 THEN {} ELSE mergeMap
  BY DEF Round, JumpTo
<1>5. /\ at[t] = "round"
      /\ UNCHANGED <<width, tmp, l, written, base, input, raced, part>>
  BY DEF Round, history
<1>6. at'[t] = lab /\ \A u \in Threads \ {t} : at'[u] = at[u]
  BY <1>3, <1>4
<1>7. Locals(t)' /\ RunWidth(t)' = RunWidth(t)
  BY <1>3, <1>4, <1>5, <1>6
  DEF Locals, RunWidth, Sorting, Between, Merging, AtPair
<1>8. at'[0] = "sync3" => mergeMap' = {}
  BY <1>4, <1>5, <1>6, ConstantFacts DEF ThreadInv
<1>9. lab \in Labels /\ lab \notin {"sync1"} \cup Sorting
  BY DEF Labels, Between, Sorting
<1> QED BY <1>2, <1>3, <1>4, <1>5, <1>7, <1>8, <1>9, LocalMove

\* StartMerge begins with an empty tmp; the other ways out of these two
\* statements leave part alone.
LEMMA LocalTaken ==
  ASSUME ThreadInv, BlockInv, NEW t \in Threads, MergeOwn(t) \/ TakePair(t)
  PROVE  ThreadInv'
<1> DEFINE P == NumPairs(width[t])
           j == NextFree(mergeMap, P)
<1>1. /\ at[t] \in {"own", "pick"}
      /\ UNCHANGED <<width, tmp, l, written, base, input, raced>>
  BY DEF MergeOwn, TakePair, shared, history
<1>2. /\ P \in 1..Blocks /\ Span(width[t]) \in Nat \ {0}
  BY <1>1, RoundFacts DEF Merging
<1>3. j \in 0..P /\ \A k \in 0..(j - 1) : k \in mergeMap
  BY <1>2, NextFreeIs
<1>4. Locals(t) /\ at \in [Threads -> Labels] /\ part \in [Threads -> Nat]
  BY DEF ThreadInv, BlockInv
<1> HIDE DEF P, j
<1>5. PICK lab \in {"merge", "pick", "sync4"} :
        /\ at' = [at EXCEPT ![t] = lab]
        /\ mergeMap \subseteq mergeMap'
        /\ lab = "merge" => \E p \in 0..(P - 1) : part' = [part EXCEPT ![t] = p]
        /\ lab # "merge" => part' = part
        /\ lab = "sync4" => 0..(P - 1) \subseteq mergeMap'
  <2>1. CASE MergeOwn(t)
    <3>1. t \in Nat /\ mergeMap' = mergeMap
      BY <2>1, ConstantFacts DEF MergeOwn, shared
    <3>2. CASE t < P /\ StartMerge(t, t)
      <4>1. t \in 0..(P - 1)
        BY <1>2, <3>1, <3>2
      <4>2. /\ at' = [at EXCEPT ![t] = "merge"] /\ mergeMap \subseteq mergeMap'
            /\ \E p \in 0..(P - 1) : part' = [part EXCEPT ![t] = p]
        BY <3>1, <3>2, <4>1 DEF StartMerge, JumpTo
      <4> QED BY <4>2
    <3>3. CASE JumpTo(t, "pick") /\ UNCHANGED part
      BY <3>1, <3>3 DEF JumpTo
    <3> QED BY <2>1, <3>2, <3>3 DEF MergeOwn, P
  <2>2. CASE TakePair(t)
    <3>1. CASE j < P /\ mergeMap' = mergeMap \cup {j} /\ StartMerge(t, j)
      <4>1. j \in 0..(P - 1)
        BY <1>2, <1>3, <3>1
      <4>2. /\ at' = [at EXCEPT ![t] = "merge"] /\ mergeMap \subseteq mergeMap'
            /\ \E p \in 0..(P - 1) : part' = [part EXCEPT ![t] = p]
        BY <3>1, <4>1 DEF StartMerge, JumpTo
      <4> QED BY <4>2
    <3>2. CASE j = P /\ JumpTo(t, "sync4") /\ UNCHANGED <<mergeMap, part>>
      BY <1>2, <1>3, <3>2 DEF JumpTo
    <3> QED BY <2>2, <3>1, <3>2 DEF TakePair, P, j
  <2> QED BY <2>1, <2>2
<1>6. \A u \in Threads : at[u] \in Merging
  BY <1>1 DEF BlockInv, Together, Sorting, Between, Merging
<1>7. /\ at'[t] = lab /\ \A u \in Threads \ {t} : at'[u] = at[u] /\ part'[u] = part[u]
      /\ part' \in [Threads -> Nat]
      /\ lab = "merge" => part'[t] \in 0..(P - 1)
  BY <1>2, <1>4, <1>5
<1>8. Locals(t)' /\ RunWidth(t)' = RunWidth(t)
  <2>1. /\ tmp'[t] = <<>> /\ l'[t] = 0 /\ written'[t] = 0 /\ width'[t] = width[t]
        /\ RunWidth(t)' = RunWidth(t) /\ width[t] < Blocks
        /\ \E m \in 1..Blocks : Blocks = RunWidth(t) * m
    BY <1>1, <1>4, <1>7 DEF Locals, RunWidth, AtPair, Merging
  <2>2. Len(tmp'[t]) = 0
    BY <2>1
  <2> QED
    BY <1>2, <1>5, <1>7, <2>1, <2>2
    DEF Locals, Sorting, Between, Merging, AtPair, P
<1>9. at'[0] # "sync3"
  BY <1>6, <1>7, ConstantFacts DEF Merging
<1>10. lab \in Labels /\ lab \notin {"sync1"} \cup Sorting
  BY DEF Labels, Merging, Sorting
<1> QED BY <1>1, <1>5, <1>7, <1>8, <1>9, <1>10, LocalMove

\* The next round's runs are twice as long, and RunWidth has counted on it.
LEMMA LocalNext ==
  ASSUME ThreadInv, BlockInv, NEW t \in Threads, NextRound(t)
  PROVE  ThreadInv'
<1>1. /\ at[t] = "next" /\ at' = [at EXCEPT ![t] = "round"]
      /\ width' = [width EXCEPT ![t] = 2 * @]
      /\ UNCHANGED <<base, mergeMap, part, tmp, l, written, input, raced>>
  BY DEF NextRound, JumpTo, shared, history
<1>2. /\ Locals(t) /\ at \in [Threads -> Labels]
      /\ width \in [Threads -> Nat \ {0}] /\ part \in [Threads -> Nat]
      /\ tmp \in [Threads -> Seq(Nat)] /\ l \in [Threads -> Nat]
      /\ written \in [Threads -> Nat] /\ base \in [Places -> Nat] /\ raced \in BOOLEAN
  BY DEF ThreadInv, BlockInv
<1>3. /\ at'[t] = "round" /\ width'[t] = 2 * width[t]
      /\ \A u \in Threads \ {t} : at'[u] = at[u] /\ width'[u] = width[u]
      /\ at' \in [Threads -> Labels] /\ width' \in [Threads -> Nat \ {0}]
  BY <1>1, <1>2 DEF Labels, Between
<1>4. RunWidth(t)' = RunWidth(t)
  BY <1>1, <1>3 DEF RunWidth
<1>5. Locals(t)'
  BY <1>1, <1>2, <1>3, <1>4
  DEF Locals, Sorting, Between, Merging, AtPair
<1>6. at'[0] = "sync3" => mergeMap' = {}
  BY <1>1, <1>3, ConstantFacts DEF ThreadInv
<1>7. \A u \in Threads : at'[u] \in {"sync1"} \cup Sorting => ~raced'
  BY <1>1, <1>3 DEF ThreadInv, Sorting
<1> QED BY <1>1, <1>2, <1>3, <1>4, <1>5, <1>6, <1>7, LocalKeep

\* Where the next record of a merge comes from.
LEMMA MergeSource ==
  ASSUME ThreadInv, NEW t \in Threads, at[t] = "merge",
         NEW r, r = Len(tmp[t]) - l[t], NEW n, n = Span(width[t]),
         NEW a, a = Left(t)
  PROVE  /\ l[t] \in 0..n /\ r \in 0..n /\ l[t] + r < 2 * n
         /\ n \in Nat \ {0} /\ Total(t) = 2 * n /\ a \in Nat
         /\ Len(tmp[t]) = l[t] + r
         /\ \A i \in a..(a + 2 * n - 1) : i \in Places
<1>1. Locals(t) /\ l[t] \in Nat /\ tmp[t] \in Seq(Nat)
  BY DEF ThreadInv
<1>2. l[t] <= n /\ r \in 0..n /\ l[t] + r < 2 * n
  BY <1>1 DEF Locals, AtPair
<1>3. n \in Nat \ {0} /\ Total(t) = 2 * n
  BY RoundFacts DEF Merging
<1>4. a \in Nat /\ \A i \in 0..(Total(t) - 1) : a + i \in Places
  BY PairAt DEF AtPair
<1>5. ASSUME NEW i \in a..(a + 2 * n - 1)
      PROVE  i \in Places
  <2>1. i - a \in 0..(Total(t) - 1) /\ a + (i - a) = i
    BY <1>3, <1>4
  <2> QED BY <1>4, <2>1
<1>6. Len(tmp[t]) \in Nat
  BY <1>1
<1> QED BY <1>1, <1>2, <1>3, <1>4, <1>5, <1>6

\* One record more in tmp, from the left run or from the right one.
LEMMA MergeStepFacts ==
  ASSUME ThreadInv, BlockInv, NEW t \in Threads, MergeStep(t)
  PROVE  LET n == Span(width[t])
             r == Len(tmp[t]) - l[t]
             a == Left(t)
         IN  /\ \/ /\ l[t] < n /\ (r = n \/ base[a + l[t]] <= base[a + n + r])
                   /\ tmp'[t] = Append(tmp[t], base[a + l[t]])
                   /\ l'[t] = l[t] + 1
                \/ /\ r < n /\ (l[t] = n \/ base[a + n + r] < base[a + l[t]])
                   /\ tmp'[t] = Append(tmp[t], base[a + n + r])
                   /\ l'[t] = l[t]
             /\ \/ at'[t] = "merge" /\ l[t] + r + 1 < 2 * n
                \/ at'[t] = "write" /\ l[t] + r + 1 = 2 * n
<1> DEFINE n == Span(width[t])
           r == Len(tmp[t]) - l[t]
           a == Left(t)
           left == r = n \/ (l[t] < n /\ base[a + l[t]] <= base[a + n + r])
<1>1. /\ at[t] = "merge" /\ at \in [Threads -> Labels]
      /\ tmp \in [Threads -> Seq(Nat)] /\ l \in [Threads -> Nat]
      /\ base \in [Places -> Nat]
  BY DEF MergeStep, ThreadInv, BlockInv
<1>2. /\ l[t] \in 0..n /\ r \in 0..n /\ l[t] + r < 2 * n
      /\ n \in Nat \ {0} /\ Total(t) = 2 * n /\ a \in Nat
      /\ Len(tmp[t]) = l[t] + r
      /\ \A i \in a..(a + 2 * n - 1) : i \in Places
  BY <1>1, MergeSource
<1>3. /\ tmp' = [tmp EXCEPT ![t] =
                   Append(@, base[IF left THEN a + l[t] ELSE a + n + r])]
      /\ l' = [l EXCEPT ![t] = IF left THEN @ + 1 ELSE @]
      /\ IF Len(tmp[t]) + 1 = Total(t)
           THEN at' = [at EXCEPT ![t] = "write"] ELSE UNCHANGED at
  BY DEF MergeStep, JumpTo
<1> HIDE DEF n, r, a
<1>4. /\ left => tmp'[t] = Append(tmp[t], base[a + l[t]]) /\ l'[t] = l[t] + 1
      /\ ~left => tmp'[t] = Append(tmp[t], base[a + n + r]) /\ l'[t] = l[t]
  <2> HIDE DEF left
  <2>1. CASE left
    <3>1. base[IF left THEN a + l[t] ELSE a + n + r] = base[a + l[t]]
      BY <2>1
    <3> QED BY <1>1, <1>3, <2>1, <3>1
  <2>2. CASE ~left
    <3>1. base[IF left THEN a + l[t] ELSE a + n + r] = base[a + n + r]
      BY <2>2
    <3> QED BY <1>1, <1>3, <2>2, <3>1
  <2> QED BY <2>1, <2>2
<1>5. \/ at'[t] = "merge" /\ l[t] + r + 1 < 2 * n
      \/ at'[t] = "write" /\ l[t] + r + 1 = 2 * n
  <2>1. /\ l[t] + r < 2 * n /\ Len(tmp[t]) = l[t] + r /\ Total(t) = 2 * n
        /\ l[t] + r \in Int /\ 2 * n \in Int
    BY <1>2
  <2>2. IF l[t] + r + 1 = 2 * n
          THEN at' = [at EXCEPT ![t] = "write"] ELSE at' = at
    BY <1>3, <2>1
  <2>3. CASE l[t] + r + 1 = 2 * n
    BY <1>1, <2>2, <2>3
  <2>4. CASE l[t] + r + 1 # 2 * n
    <3>1. l[t] + r + 1 < 2 * n
      BY <2>1, <2>4
    <3> QED BY <1>1, <2>2, <2>4, <3>1
  <2> QED BY <2>3, <2>4
<1>6. left => l[t] < n /\ (r = n \/ base[a + l[t]] <= base[a + n + r])
  BY <1>2
<1>7. ~left => r < n /\ (l[t] = n \/ base[a + n + r] < base[a + l[t]])
  <2>1. SUFFICES ASSUME ~left, l[t] # n
                 PROVE  base[a + n + r] < base[a + l[t]] /\ r < n
    BY <1>2
  <2>2. l[t] < n /\ r < n
    BY <1>2, <2>1
  <2>3. base[a + l[t]] \in Nat /\ base[a + n + r] \in Nat
    BY <1>1, <1>2, <2>2
  <2> QED BY <2>1, <2>2, <2>3
<1> HIDE DEF left
<1> QED BY <1>4, <1>5, <1>6, <1>7 DEF n, r, a

\* A step of do_merge's loop keeps its counters within the two runs.
LEMMA LocalMerge ==
  ASSUME ThreadInv, BlockInv, NEW t \in Threads, MergeStep(t)
  PROVE  ThreadInv'
<1> DEFINE n == Span(width[t])
           r == Len(tmp[t]) - l[t]
           a == Left(t)
<1>1. /\ at[t] = "merge" /\ at \in [Threads -> Labels]
      /\ tmp \in [Threads -> Seq(Nat)] /\ l \in [Threads -> Nat]
      /\ written \in [Threads -> Nat] /\ part \in [Threads -> Nat]
      /\ width \in [Threads -> Nat \ {0}]
      /\ base \in [Places -> Nat] /\ Locals(t)
  BY DEF MergeStep, ThreadInv, BlockInv
<1>2. /\ l[t] \in 0..n /\ r \in 0..n /\ l[t] + r < 2 * n
      /\ n \in Nat \ {0} /\ Total(t) = 2 * n /\ a \in Nat
      /\ Len(tmp[t]) = l[t] + r
      /\ \A i \in a..(a + 2 * n - 1) : i \in Places
  BY <1>1, MergeSource
<1>3. /\ \/ /\ l[t] < n /\ tmp'[t] = Append(tmp[t], base[a + l[t]])
            /\ l'[t] = l[t] + 1
         \/ /\ r < n /\ tmp'[t] = Append(tmp[t], base[a + n + r])
            /\ l'[t] = l[t]
      /\ \/ at'[t] = "merge" /\ l[t] + r + 1 < 2 * n
         \/ at'[t] = "write" /\ l[t] + r + 1 = 2 * n
  BY MergeStepFacts
<1>4. UNCHANGED <<mergeMap, base, width, part, written, input>>
  BY DEF MergeStep, shared
<1> HIDE DEF n, r, a
<1>5. /\ tmp'[t] \in Seq(Nat) /\ Len(tmp'[t]) = l[t] + r + 1
      /\ l'[t] \in 0..n /\ Len(tmp'[t]) - l'[t] \in 0..n
  <2>1. PICK x \in Nat : tmp'[t] = Append(tmp[t], x)
    <3>1. l[t] < n => base[a + l[t]] \in Nat
      BY <1>1, <1>2
    <3>2. r < n => base[a + n + r] \in Nat
      BY <1>1, <1>2
    <3> QED BY <1>3, <3>1, <3>2
  <2>2. tmp'[t] \in Seq(Nat) /\ Len(tmp'[t]) = Len(tmp[t]) + 1
    BY <1>1, <2>1
  <2>3. /\ l[t] \in 0..n /\ r \in 0..n /\ n \in Nat
        /\ Len(tmp'[t]) = (l[t] + r) + 1
    BY <1>2, <2>2
  <2>4. CASE l[t] < n /\ l'[t] = l[t] + 1
    <3>1. l'[t] \in 0..n
      BY <2>3, <2>4
    <3>2. Len(tmp'[t]) - l'[t] = r
      BY <2>3, <2>4
    <3> QED BY <2>2, <2>3, <3>1, <3>2
  <2>5. CASE r < n /\ l'[t] = l[t]
    <3>1. Len(tmp'[t]) - l'[t] = r + 1 /\ r + 1 \in 0..n
      BY <2>3, <2>5
    <3> QED BY <2>2, <2>3, <2>5, <3>1
  <2> QED BY <1>3, <2>4, <2>5
<1>6. /\ \A u \in Threads \ {t} :
           at'[u] = at[u] /\ tmp'[u] = tmp[u] /\ l'[u] = l[u]
      /\ DOMAIN tmp' = Threads /\ DOMAIN l' = Threads /\ DOMAIN at' = Threads
      /\ l' = [u \in Threads |-> l'[u]] /\ tmp' = [u \in Threads |-> tmp'[u]]
      /\ at' = [u \in Threads |-> at'[u]]
  BY <1>1 DEF MergeStep, JumpTo
<1>7. /\ tmp' \in [Threads -> Seq(Nat)] /\ l' \in [Threads -> Nat]
      /\ at' \in [Threads -> Labels]
  <2>1. \A u \in Threads :
          tmp'[u] \in Seq(Nat) /\ l'[u] \in Nat /\ at'[u] \in Labels
    <3> TAKE u \in Threads
    <3>1. CASE u = t
      BY <1>3, <1>5, <3>1 DEF Labels, Merging
    <3>2. CASE u # t
      BY <1>1, <1>6, <3>2
    <3> QED BY <3>1, <3>2
  <2> QED BY <1>6, <2>1
<1>8. RunWidth(t)' = RunWidth(t)
  BY <1>1, <1>3, <1>4 DEF RunWidth
<1>9. Locals(t)'
  <2>1. Span(width[t])' = n
    BY <1>4 DEF Span, n
  <2>2. NumPairs(width[t])' = NumPairs(width[t]) /\ width'[t] = width[t] /\ part'[t] = part[t]
    BY <1>4 DEF NumPairs
  <2>3. /\ part[t] \in 0..(NumPairs(width[t]) - 1) /\ width[t] < Blocks
        /\ \E m \in 1..Blocks : Blocks = RunWidth(t) * m
        /\ written[t] = 0
    BY <1>1 DEF Locals, AtPair, Merging
  <2>4. at'[t] \in {"merge", "write"}
        /\ (at'[t] = "merge" => l[t] + r + 1 < 2 * n)
        /\ (at'[t] = "write" => l[t] + r + 1 = 2 * n)
    BY <1>3
  <2>5. l'[t] + (Len(tmp'[t]) - l'[t]) = l[t] + r + 1
    BY <1>2, <1>5
  <2>6. written'[t] = 0
    BY <1>4, <2>3
  <2>7. at'[t] \in AtPair /\ at'[t] \in Merging
        /\ at'[t] \notin {"off", "sync1"} \cup Sorting /\ at'[t] # "end"
        /\ at'[t] # "sync4"
    BY <2>4 DEF AtPair, Merging, Sorting
  <2>8. \E m \in 1..Blocks : Blocks = RunWidth(t)' * m
    BY <1>8, <2>3
  <2>9. l'[t] <= n /\ l'[t] + (Len(tmp'[t]) - l'[t]) = l[t] + r + 1
        /\ 0 < 2 * n
    BY <1>2, <1>5, <2>5
  <2>10. at'[t] \in AtPair => /\ part'[t] \in 0..(NumPairs(width[t])' - 1)
                             /\ l'[t] <= n /\ Len(tmp'[t]) - l'[t] \in 0..n
    BY <1>5, <2>2, <2>3, <2>9
  <2>11. /\ at'[t] = "merge" => l'[t] + (Len(tmp'[t]) - l'[t]) < 2 * n
         /\ at'[t] = "write" => /\ l'[t] + (Len(tmp'[t]) - l'[t]) = 2 * n
                                /\ written'[t] < 2 * n
    BY <2>4, <2>6, <2>9
  <2> HIDE DEF n
  <2> QED
    BY <2>1, <2>2, <2>3, <2>6, <2>7, <2>8, <2>10, <2>11 DEF Locals
<1>10. raced' \in BOOLEAN
  BY DEF MergeStep, ThreadInv, Meets
<1>11. \A u \in Threads : at[u] \in Merging
  BY <1>1 DEF BlockInv, Together, Sorting, Between, Merging
<1>12. \A u \in Threads : at'[u] \in Merging
  BY <1>3, <1>6, <1>11 DEF Merging
<1>13. /\ at'[0] # "sync3"
       /\ \A u \in Threads : at'[u] \notin {"sync1"} \cup Sorting
  BY <1>12, ConstantFacts DEF Merging, Sorting
<1> QED
  BY <1>1, <1>4, <1>6, <1>7, <1>8, <1>9, <1>10, <1>13, LocalKeep

\* What a step of memcpy finds and what it does.
LEMMA WriteFacts ==
  ASSUME ThreadInv, BlockInv, NEW t \in Threads, WriteBack(t)
  PROVE  LET n == Total(t)
             k == written[t]
         IN  /\ at[t] = "write" /\ n \in Nat \ {0} /\ k \in 0..(n - 1)
             /\ Len(tmp[t]) = n /\ Left(t) \in Nat /\ Left(t) + n <= Size
             /\ tmp[t][k + 1] \in Nat /\ Left(t) + k \in Places
             /\ base' = [base EXCEPT ![Left(t) + k] = tmp[t][k + 1]]
             /\ \/ /\ k + 1 < n /\ written' = [written EXCEPT ![t] = k + 1]
                   /\ UNCHANGED <<at, tmp, l>>
                \/ /\ k + 1 = n /\ written' = [written EXCEPT ![t] = 0]
                   /\ tmp' = [tmp EXCEPT ![t] = <<>>] /\ l' = [l EXCEPT ![t] = 0]
                   /\ at' = [at EXCEPT ![t] = "pick"]
             /\ UNCHANGED <<mergeMap, width, part, input>>
<1> DEFINE n == Total(t)
           k == written[t]
<1>1. at[t] = "write" /\ UNCHANGED <<mergeMap, width, part, input>>
  BY DEF WriteBack
<1>2. /\ n = 2 * Span(width[t]) /\ Span(width[t]) \in Nat \ {0}
  BY <1>1, RoundFacts DEF Merging
<1>3. Left(t) \in Nat /\ Left(t) + n <= Size /\ \A i \in 0..(n - 1) : Left(t) + i \in Places
  BY <1>1, PairAt DEF AtPair
<1>4. k \in Nat /\ tmp[t] \in Seq(Nat) /\ l[t] \in Nat /\ Locals(t)
  BY DEF ThreadInv
<1>5. l[t] + (Len(tmp[t]) - l[t]) = 2 * Span(width[t]) /\ k < 2 * Span(width[t])
  BY <1>1, <1>4 DEF Locals
<1> HIDE DEF n
<1>6. n \in Nat \ {0} /\ k \in 0..(n - 1) /\ Len(tmp[t]) = n
  <2>1. n \in Nat \ {0} /\ k \in Nat /\ k < n
    BY <1>2, <1>4, <1>5
  <2>2. l[t] \in Nat /\ Len(tmp[t]) \in Nat /\ l[t] + (Len(tmp[t]) - l[t]) = n
    BY <1>2, <1>4, <1>5
  <2> QED BY <2>1, <2>2
<1>7. tmp[t][k + 1] \in Nat
  <2>1. k + 1 \in 1..Len(tmp[t])
    BY <1>6
  <2> QED BY <1>4, <2>1
<1>8. \/ /\ k + 1 < n /\ written' = [written EXCEPT ![t] = k + 1]
         /\ UNCHANGED <<at, tmp, l>>
      \/ /\ k + 1 = n /\ written' = [written EXCEPT ![t] = 0]
         /\ tmp' = [tmp EXCEPT ![t] = <<>>] /\ l' = [l EXCEPT ![t] = 0]
         /\ at' = [at EXCEPT ![t] = "pick"]
  <2>1. CASE k + 1 < n
    BY <2>1 DEF WriteBack, n
  <2>2. CASE ~(k + 1 < n)
    <3>1. k + 1 = n
      BY <1>6, <2>2
    <3> QED BY <2>2, <3>1 DEF WriteBack, JumpTo, n
  <2> QED BY <2>1, <2>2
<1>9. base' = [base EXCEPT ![Left(t) + k] = tmp[t][k + 1]]
  BY DEF WriteBack
<1> QED BY <1>1, <1>3, <1>6, <1>7, <1>8, <1>9 DEF n

\* A step of memcpy stays within the pair, and its last one resets the thread.
LEMMA LocalWrite ==
  ASSUME ThreadInv, BlockInv, NEW t \in Threads, WriteBack(t)
  PROVE  ThreadInv'
<1> DEFINE n == Total(t)
           k == written[t]
<1>1. /\ at[t] = "write" /\ n \in Nat \ {0} /\ k \in 0..(n - 1)
      /\ tmp[t][k + 1] \in Nat
      /\ base' = [base EXCEPT ![Left(t) + k] = tmp[t][k + 1]]
      /\ \/ /\ k + 1 < n /\ written' = [written EXCEPT ![t] = k + 1]
            /\ UNCHANGED <<at, tmp, l>>
         \/ /\ k + 1 = n /\ written' = [written EXCEPT ![t] = 0]
            /\ tmp' = [tmp EXCEPT ![t] = <<>>] /\ l' = [l EXCEPT ![t] = 0]
            /\ at' = [at EXCEPT ![t] = "pick"]
      /\ UNCHANGED <<mergeMap, width, part, input>>
  BY WriteFacts
<1>2. /\ at \in [Threads -> Labels] /\ tmp \in [Threads -> Seq(Nat)]
      /\ l \in [Threads -> Nat] /\ written \in [Threads -> Nat]
      /\ part \in [Threads -> Nat] /\ width \in [Threads -> Nat \ {0}]
      /\ base \in [Places -> Nat] /\ Locals(t)
  BY DEF ThreadInv, BlockInv
<1>3. n = 2 * Span(width[t])
  BY <1>1, RoundFacts DEF Merging
<1> HIDE DEF n, k
<1>4. base' \in [Places -> Nat]
  BY <1>1, <1>2
<1>5. /\ at' \in [Threads -> Labels] /\ tmp' \in [Threads -> Seq(Nat)]
      /\ l' \in [Threads -> Nat] /\ written' \in [Threads -> Nat]
      /\ \A u \in Threads \ {t} : /\ at'[u] = at[u] /\ tmp'[u] = tmp[u]
                                  /\ l'[u] = l[u] /\ written'[u] = written[u]
      /\ \/ /\ k + 1 < n /\ written'[t] = k + 1
            /\ UNCHANGED <<at, tmp, l>>
         \/ /\ written'[t] = 0 /\ tmp'[t] = <<>> /\ l'[t] = 0 /\ at'[t] = "pick"
  <2>1. CASE k + 1 < n /\ written' = [written EXCEPT ![t] = k + 1] /\ UNCHANGED <<at, tmp, l>>
    BY <1>1, <1>2, <2>1
  <2>2. CASE /\ written' = [written EXCEPT ![t] = 0]
             /\ tmp' = [tmp EXCEPT ![t] = <<>>] /\ l' = [l EXCEPT ![t] = 0]
             /\ at' = [at EXCEPT ![t] = "pick"]
    <3>1. <<>> \in Seq(Nat) /\ "pick" \in Labels
      BY DEF Labels, Merging
    <3> QED BY <1>2, <2>2, <3>1
  <2> QED BY <1>1, <2>1, <2>2
<1>6. RunWidth(t)' = RunWidth(t)
  BY <1>1, <1>5 DEF RunWidth
<1>7. /\ Span(width[t])' = Span(width[t]) /\ NumPairs(width[t])' = NumPairs(width[t])
      /\ width'[t] = width[t] /\ part'[t] = part[t]
  BY <1>1 DEF Span, NumPairs
<1>8. Locals(t)'
  <2>1. CASE k + 1 < n /\ written'[t] = k + 1 /\ UNCHANGED <<at, tmp, l>>
    BY <1>1, <1>2, <1>3, <1>6, <1>7, <2>1
    DEF Locals, Sorting, Between, Merging, AtPair
  <2>2. CASE written'[t] = 0 /\ tmp'[t] = <<>> /\ l'[t] = 0 /\ at'[t] = "pick"
    BY <1>1, <1>2, <1>6, <1>7, <2>2
    DEF Locals, Sorting, Between, Merging, AtPair
  <2> QED BY <1>5, <2>1, <2>2
<1>9. raced' \in BOOLEAN
  BY DEF WriteBack, ThreadInv, Meets
<1>10. \A u \in Threads : at[u] \in Merging
  BY <1>1 DEF BlockInv, Together, Sorting, Between, Merging
<1>11. \A u \in Threads : at'[u] \in Merging
  <2>1. at'[t] \in Merging
    BY <1>5, <1>10 DEF Merging
  <2> QED BY <1>5, <1>10, <2>1
<1>12. /\ at'[0] # "sync3"
       /\ \A u \in Threads : at'[u] \notin {"sync1"} \cup Sorting
  BY <1>11, ConstantFacts DEF Merging, Sorting
<1> QED
  BY <1>1, <1>2, <1>4, <1>5, <1>6, <1>8, <1>9, <1>12, LocalKeep

\* Every barrier is passed by all the threads at the same call of it.
LEMMA BarrierFacts ==
  ASSUME BlockInv, Barrier
  PROVE  /\ \A t \in Threads : at'[t] = Behind[at[t]]
         /\ \E lab \in {"sync1", "sync2", "sync3", "sync4"} :
              \A t \in Threads : at[t] = lab
<1>1. \A t \in Threads : at[t] \in {"sync1", "sync2", "sync3", "sync4"}
  BY DEF Barrier, Behind
<1>2. PICK phase \in {{"off"}, {"sync1"}, Sorting, Between, Merging} :
        \A t \in Threads : at[t] \in phase
  BY DEF BlockInv, Together
<1>3. CASE phase = {"sync1"}
  BY <1>2, <1>3 DEF Barrier
<1>4. CASE phase = Sorting
  BY <1>1, <1>2, <1>4 DEF Barrier, Sorting
<1>5. CASE phase = Between
  BY <1>1, <1>2, <1>5 DEF Barrier, Between
<1>6. CASE phase = Merging
  BY <1>1, <1>2, <1>6 DEF Barrier, Merging
<1>7. CASE phase = {"off"}
  BY <1>1, <1>2, <1>7, ConstantFacts
<1> QED BY <1>2, <1>3, <1>4, <1>5, <1>6, <1>7

\* The barriers let the threads into the next phase with the same widths.
LEMMA LocalBarrier ==
  ASSUME ThreadInv, BlockInv, Barrier
  PROVE  ThreadInv'
<1>1. PICK lab \in {"sync1", "sync2", "sync3", "sync4"} :
        \A t \in Threads : at[t] = lab /\ at'[t] = Behind[lab]
  BY BarrierFacts
<1>2. UNCHANGED <<base, mergeMap, width, part, tmp, l, written, input, raced>>
  BY DEF Barrier, shared, history
<1>3. ASSUME NEW t \in Threads
      PROVE  /\ Locals(t)' /\ RunWidth(t)' = (IF lab = "sync4" THEN 2 ELSE 1) * width[t]
             /\ RunWidth(t) = width[t]
             /\ at'[t] # "sync3"
             /\ at'[t] \in {"sync1"} \cup Sorting => ~raced
  <2>1. /\ Locals(t) /\ width[t] \in Nat \ {0}
        /\ at[t] \in {"sync1"} \cup Sorting => ~raced
    BY DEF ThreadInv
  <2>2. CASE lab \in {"sync1", "sync2", "sync3"}
    <3>1. /\ at[t] \in {"sync1", "sync2", "sync3"}
          /\ at'[t] \in {"qsort", "round", "own"}
          /\ at'[t] = "qsort" => at[t] = "sync1"
          /\ at'[t] = "own" => at[t] = "sync3"
          /\ at'[t] # "sync3"
      BY <1>1, <2>2 DEF Behind
    <3>2. RunWidth(t) = width[t] /\ RunWidth(t)' = width[t]
      BY <1>2, <3>1 DEF RunWidth
    <3>3. Locals(t)'
      BY <1>2, <2>1, <3>1, <3>2
      DEF Locals, Sorting, Between, Merging, AtPair
    <3>4. at'[t] \in {"sync1"} \cup Sorting => ~raced
      BY <2>1, <3>1 DEF Sorting
    <3>5. (IF lab = "sync4" THEN 2 ELSE 1) * width[t] = width[t]
      BY <2>1, <2>2
    <3> QED BY <3>1, <3>2, <3>3, <3>4, <3>5
  <2>3. CASE lab = "sync4"
    <3>1. at[t] = "sync4" /\ at'[t] = "next"
      BY <1>1, <2>3 DEF Behind
    <3>2. RunWidth(t) = width[t] /\ RunWidth(t)' = 2 * width[t]
      BY <1>2, <3>1 DEF RunWidth
    <3>3. \E m \in 1..Blocks : Blocks = RunWidth(t)' * m
      BY <3>1, <3>2, RoundFacts DEF Merging
    <3>4. width[t] < Blocks /\ tmp[t] = <<>> /\ l[t] = 0 /\ written[t] = 0
      BY <2>1, <3>1 DEF Locals, Merging, AtPair
    <3>5. Locals(t)'
      BY <1>2, <3>1, <3>3, <3>4
      DEF Locals, Sorting, Between, Merging, AtPair
    <3> QED BY <1>1, <2>3, <3>1, <3>2, <3>5 DEF Sorting
  <2> QED BY <2>2, <2>3
<1>4. \A t, u \in Threads : RunWidth(t)' = RunWidth(u)'
  BY <1>3 DEF ThreadInv
<1> QED BY <1>2, <1>3, <1>4, ConstantFacts DEF ThreadInv

\* What a chunk holds.
LEMMA InputFacts ==
  ASSUME NEW f \in Inputs
  PROVE  f \in [Places -> Nat] /\ \A i, j \in Places : f[i] = f[j] => i = j
BY SortIndexAssumption DEF Places

\* main starts and ends the threads with their local variables as at first.
LEMMA LocalMain ==
  ASSUME ThreadInv, BlockInv, MapChunk \/ UnmapChunk
  PROVE  ThreadInv'
<1>1. Blocks \in 1..Blocks /\ Blocks = 1 * Blocks
  BY ConstantFacts
<1>2. CASE MapChunk
  <2>1. \A t \in Threads : at[t] = "off" /\ at'[t] = "sync1"
    BY <1>2 DEF MapChunk
  <2>2. UNCHANGED <<width, part, tmp, l, written>> /\ raced' = FALSE
    BY <1>2 DEF MapChunk
  <2>3. ASSUME NEW t \in Threads
        PROVE  Locals(t)' /\ RunWidth(t)' = RunWidth(t)
    <3>1. Locals(t)
      BY DEF ThreadInv
    <3> QED BY <2>1, <2>2, <3>1
            DEF Locals, RunWidth, Sorting, Between, Merging, AtPair
  <2>4. /\ base' \in [Places -> Nat] /\ input' \in [Places -> Nat]
        /\ \A i, j \in Places : input'[i] = input'[j] => i = j
    BY <1>2, InputFacts DEF MapChunk
  <2>5. at'[0] # "sync3"
    BY <2>1, ConstantFacts
  <2> QED BY <2>2, <2>3, <2>4, <2>5 DEF ThreadInv
<1>3. CASE UnmapChunk
  <2>1. \A t \in Threads : at[t] = "end" /\ at'[t] = "off" /\ width'[t] = 1 /\ part'[t] = 0
    BY <1>3 DEF UnmapChunk
  <2>2. UNCHANGED <<base, tmp, l, written, input, raced, mergeMap>>
    BY <1>3 DEF UnmapChunk, history
  <2>3. ASSUME NEW t \in Threads
        PROVE  Locals(t)' /\ RunWidth(t)' = 1
    <3>1. Locals(t)
      BY DEF ThreadInv
    <3> QED BY <1>1, <2>1, <2>2, <3>1
            DEF Locals, RunWidth, Sorting, Between, Merging, AtPair
  <2>4. /\ width' \in [Threads -> Nat \ {0}] /\ part' \in [Threads -> Nat]
    BY <1>3 DEF UnmapChunk
  <2>5. \A t \in Threads : at'[t] \notin {"sync1"} \cup Sorting
    BY <2>1 DEF Sorting
  <2>6. at'[0] # "sync3"
    BY <2>1, ConstantFacts
  <2> QED BY <2>2, <2>3, <2>4, <2>5, <2>6 DEF ThreadInv
<1> QED BY <1>2, <1>3

-----------------------------------------------------------------------------
(***************************************************************************)
(* Runs in order.                                                           *)
(***************************************************************************)

\* A chunk of records: all of them different.
IsChunk(f) == /\ f \in [Places -> Nat]
              /\ \A i, j \in Places : f[i] = f[j] => i = j

\* A stretch of the chunk that ends within it.
LEMMA PlacesIn ==
  ASSUME NEW f \in [Places -> Nat], NEW lo \in Nat, NEW n \in Nat, lo + n <= Size
  PROVE  NatsAt(f, lo, n) /\ \A i \in lo..(lo + n - 1) : i \in Places
<1>1. Size \in Nat
  BY ConstantFacts DEF Size
<1>2. \A i \in lo..(lo + n - 1) : i \in Places
  BY <1>1 DEF Places
<1> QED BY <1>2 DEF NatsAt

\* A run is in order if, and only if, it goes up and has the input's records.
LEMMA InOrderThen ==
  ASSUME NEW f, NEW g, IsChunk(g), NEW lo \in Nat, NEW n \in Nat, lo + n <= Size,
         InOrder(f, g, lo, n)
  PROVE  Increasing(f, lo, n) /\ Segment(f, lo, n) = Segment(g, lo, n)
<1> DEFINE s == Sorted(g, lo, n)
<1>1. NatsAt(g, lo, n) /\ \A i, j \in lo..(lo + n - 1) : g[i] = g[j] => i = j
  BY PlacesIn DEF IsChunk
<1>2. Increasing(s, lo, n) /\ Segment(s, lo, n) = Segment(g, lo, n)
  BY <1>1, SortedFacts
<1>3. \A i \in lo..(lo + n - 1) : f[i] = s[i]
  BY DEF InOrder
<1> HIDE DEF s
<1>4. Segment(f, lo, n) = Segment(s, lo, n)
  BY <1>3 DEF Segment
<1> QED BY <1>2, <1>3, <1>4 DEF Increasing

\* The other direction: only one arrangement goes up.
LEMMA InOrderIf ==
  ASSUME NEW f, NEW g, IsChunk(g), NEW lo \in Nat, NEW n \in Nat, lo + n <= Size,
         Increasing(f, lo, n), Segment(f, lo, n) = Segment(g, lo, n)
  PROVE  InOrder(f, g, lo, n)
<1>1. NatsAt(g, lo, n)
  BY PlacesIn DEF IsChunk
<1> QED BY <1>1, SortedIs DEF InOrder

\* qsort looks at nothing but the block.
LEMMA SortedSame ==
  ASSUME NEW f \in [Places -> Nat], NEW g \in [Places -> Nat],
         NEW lo \in Nat, NEW n \in Nat, lo + n <= Size,
         \A i \in lo..(lo + n - 1) : f[i] = g[i]
  PROVE  InOrder(Sorted(f, lo, n), g, lo, n)
<1>1. NatsAt(f, lo, n) /\ NatsAt(g, lo, n)
  BY PlacesIn
<1>2. Segment(f, lo, n) = Segment(g, lo, n)
  BY DEF Segment
<1>3. ASSUME NEW i \in lo..(lo + n - 1)
      PROVE  Sorted(f, lo, n)[i] = Sorted(g, lo, n)[i]
  <2>1. Sorted(f, lo, n)[i] = CHOOSE k \in Segment(f, lo, n) :
          Cardinality(Below(Less, Segment(f, lo, n), k)) = i - lo
    BY <1>1, SortedAt
  <2>2. Sorted(g, lo, n)[i] = CHOOSE k \in Segment(g, lo, n) :
          Cardinality(Below(Less, Segment(g, lo, n), k)) = i - lo
    BY <1>1, SortedAt
  <2> QED BY <1>2, <2>1, <2>2
<1> QED BY <1>3 DEF InOrder

\* The values of a stretch are those of its two parts.
LEMMA SegmentSplit ==
  ASSUME NEW f, NEW a \in Nat, NEW n \in Nat, NEW k \in Nat
  PROVE  Segment(f, a, n + k) = Segment(f, a, n) \cup Segment(f, a + n, k)
<1>1. ASSUME NEW x \in Segment(f, a, n + k)
      PROVE  x \in Segment(f, a, n) \cup Segment(f, a + n, k)
  <2>1. PICK i \in a..(a + (n + k) - 1) : x = f[i]
    BY DEF Segment
  <2>2. i \in a..(a + n - 1) \/ i \in (a + n)..(a + n + k - 1)
    BY <2>1
  <2> QED BY <2>1, <2>2 DEF Segment
<1>2. ASSUME NEW x \in Segment(f, a, n)
      PROVE  x \in Segment(f, a, n + k)
  <2>1. PICK i \in a..(a + n - 1) : x = f[i]
    BY DEF Segment
  <2>2. i \in a..(a + (n + k) - 1)
    BY <2>1
  <2> QED BY <2>1, <2>2 DEF Segment
<1>3. ASSUME NEW x \in Segment(f, a + n, k)
      PROVE  x \in Segment(f, a, n + k)
  <2>1. PICK i \in (a + n)..(a + n + k - 1) : x = f[i]
    BY DEF Segment
  <2>2. i \in a..(a + (n + k) - 1)
    BY <2>1
  <2> QED BY <2>1, <2>2 DEF Segment
<1> QED BY <1>1, <1>2, <1>3

\* Before a pair is merged, and after it, its runs go up, no record is in it
\* twice, and it has the input's.
MergeReady(f, g, a, n) ==
  /\ Increasing(f, a, n) /\ Increasing(f, a + n, n)
  /\ \A i, j \in a..(a + 2 * n - 1) : f[i] = f[j] => i = j
  /\ Segment(f, a, n) \cup Segment(f, a + n, n) = Segment(g, a, 2 * n)

\* Both ways a pair can be found by a thread give MergeReady.
LEMMA ReadyPair ==
  ASSUME NEW f \in [Places -> Nat], NEW g, IsChunk(g),
         NEW a \in Nat, NEW n \in Nat, a + 2 * n <= Size,
         \/ InOrder(f, g, a, n) /\ InOrder(f, g, a + n, n)
         \/ InOrder(f, g, a, 2 * n)
  PROVE  MergeReady(f, g, a, n)
<1> USE DEF MergeReady
<1>1. \A i \in a..(a + 2 * n - 1) : i \in Places
  BY PlacesIn
<1>2. \A h : Segment(h, a, 2 * n) = Segment(h, a, n) \cup Segment(h, a + n, n)
  <2>1. 2 * n = n + n
    OBVIOUS
  <2> QED BY <2>1, SegmentSplit
<1>3. CASE InOrder(f, g, a, n) /\ InOrder(f, g, a + n, n)
  <2>1. Increasing(f, a, n) /\ Segment(f, a, n) = Segment(g, a, n)
    <3>1. a + n <= Size
      BY ConstantFacts DEF Size
    <3> QED BY <1>3, <3>1, InOrderThen
  <2>2. Increasing(f, a + n, n) /\ Segment(f, a + n, n) = Segment(g, a + n, n)
    <3> DEFINE b == a + n
    <3>1. b \in Nat /\ b + n <= Size /\ InOrder(f, g, b, n)
      BY <1>3, ConstantFacts DEF Size
    <3> HIDE DEF b
    <3>2. Increasing(f, b, n) /\ Segment(f, b, n) = Segment(g, b, n)
      BY <3>1, InOrderThen
    <3> QED BY <3>2 DEF b
  <2>3. ASSUME NEW i \in a..(a + n - 1), NEW j \in (a + n)..(a + n + n - 1)
        PROVE  f[i] # f[j]
    <3>1. PICK x \in a..(a + n - 1) : f[i] = g[x]
      BY <2>1 DEF Segment
    <3>2. PICK y \in (a + n)..(a + n + n - 1) : f[j] = g[y]
      BY <2>2 DEF Segment
    <3>3. x # y /\ x \in Places /\ y \in Places
      BY <1>1
    <3> QED BY <3>1, <3>2, <3>3 DEF IsChunk
  <2>4. ASSUME NEW i \in a..(a + 2 * n - 1), NEW j \in a..(a + 2 * n - 1), i < j
        PROVE  f[i] # f[j]
    <3>1. f[i] \in Nat /\ f[j] \in Nat
      BY <1>1
    <3>2. CASE i \in a..(a + n - 1) /\ j \in a..(a + n - 1)
      BY <2>1, <2>4, <3>1, <3>2 DEF Increasing
    <3>3. CASE i \in (a + n)..(a + n + n - 1) /\ j \in (a + n)..(a + n + n - 1)
      BY <2>2, <2>4, <3>1, <3>3 DEF Increasing
    <3>4. CASE i \in a..(a + n - 1) /\ j \in (a + n)..(a + n + n - 1)
      BY <2>3, <3>4
    <3> QED BY <2>4, <3>2, <3>3, <3>4
  <2>5. \A i, j \in a..(a + 2 * n - 1) : f[i] = f[j] => i = j
    BY <2>4
  <2> QED BY <1>2, <2>1, <2>2, <2>5
<1>4. CASE InOrder(f, g, a, 2 * n)
  <2>1. Increasing(f, a, 2 * n) /\ Segment(f, a, 2 * n) = Segment(g, a, 2 * n)
    BY <1>4, InOrderThen
  <2>2. Increasing(f, a, n) /\ Increasing(f, a + n, n)
    BY <2>1 DEF Increasing
  <2>3. ASSUME NEW i \in a..(a + 2 * n - 1), NEW j \in a..(a + 2 * n - 1), i < j
        PROVE  f[i] # f[j]
    <3>1. f[i] \in Nat /\ f[j] \in Nat /\ f[i] < f[j]
      BY <1>1, <2>1, <2>3 DEF Increasing
    <3> QED BY <3>1
  <2>4. \A i, j \in a..(a + 2 * n - 1) : f[i] = f[j] => i = j
    BY <2>3
  <2> QED BY <1>2, <2>1, <2>2, <2>4
<1> QED BY <1>3, <1>4

\* A record more in tmp: the next one of the run from a on, which is not after
\* the next one of the other.
LEMMA MergeTakes ==
  ASSUME NEW f \in [Places -> Nat], NEW a \in Nat, NEW b \in Nat, NEW n \in Nat,
         a + n <= Size, b + n <= Size, NEW i \in 0..n, NEW j \in 0..n,
         Increasing(f, a, n), Increasing(f, b, n),
         \A x \in a..(a + n - 1), y \in b..(b + n - 1) : f[x] # f[y],
         NEW s \in Seq(Nat), Merged(f, a, b, n, s, i, j),
         i < n, j = n \/ f[a + i] <= f[b + j]
  PROVE  Merged(f, a, b, n, Append(s, f[a + i]), i + 1, j)
<1> DEFINE x == f[a + i]
           e == Append(s, x)
<1>1. /\ \A k \in a..(a + n - 1) : f[k] \in Nat
      /\ \A k \in b..(b + n - 1) : f[k] \in Nat
  BY PlacesIn
<1>2. x \in Nat /\ a + i \in a..(a + n - 1)
  BY <1>1
<1>3. Len(s) \in Nat /\ Len(s) = i + j
  BY DEF Merged
<1> HIDE DEF x
<1>4. /\ Len(e) = i + 1 + j /\ e[Len(s) + 1] = x
      /\ \A p \in 1..Len(s) : e[p] = s[p]
  <2>1. Len(e) = Len(s) + 1 /\ e[Len(s) + 1] = x
    BY <1>2
  <2>2. \A p \in 1..Len(s) : e[p] = s[p]
    BY <1>2
  <2> HIDE DEF e
  <2> QED BY <1>3, <2>1, <2>2
<1> HIDE DEF e
<1>5. \A p \in 1..Len(s) : s[p] < x
  BY <1>2 DEF Merged, x
<1>6. \A k \in (a + i + 1)..(a + n - 1) : x < f[k]
  BY <1>2 DEF Increasing, x
<1>7. ASSUME NEW k \in (b + j)..(b + n - 1)
      PROVE  x < f[k]
  <2>1. j < n /\ b + j \in b..(b + n - 1) /\ k \in b..(b + n - 1)
    BY <1>7
  <2>2. x <= f[b + j] /\ f[b + j] \in Nat /\ f[k] \in Nat
    BY <1>1, <2>1 DEF x
  <2>3. f[b + j] = f[k] \/ f[b + j] < f[k]
    <3>1. CASE k = b + j
      BY <3>1
    <3>2. CASE b + j < k
      BY <2>1, <3>2 DEF Increasing
    <3> QED BY <1>7, <3>1, <3>2
  <2>4. x # f[k]
    BY <1>2, <2>1 DEF x
  <2>5. x \in Nat
    BY <1>2
  <2> DEFINE y == f[b + j]
             z == f[k]
  <2>6. x <= y /\ y \in Nat /\ z \in Nat /\ (y = z \/ y < z) /\ x # z
    BY <2>2, <2>3, <2>4
  <2> HIDE DEF y, z
  <2>7. x < z
    BY <2>5, <2>6
  <2> QED BY <2>7 DEF z
<1>8. \A p \in 1..Len(e) : p \in 1..Len(s) \/ p = Len(s) + 1
  <2>1. Len(e) = Len(s) + 1
    BY <1>3, <1>4
  <2> QED BY <1>3, <2>1
<1>9. ASSUME NEW p \in 1..Len(e), NEW q \in 1..Len(e), p < q
      PROVE  e[p] < e[q]
  <2>1. p \in 1..Len(s)
    BY <1>3, <1>8, <1>9
  <2>2. CASE q \in 1..Len(s)
    BY <1>4, <1>9, <2>1, <2>2 DEF Merged
  <2>3. CASE q = Len(s) + 1
    BY <1>4, <1>5, <2>1, <2>3
  <2> QED BY <1>8, <2>2, <2>3
<1>10. {e[p] : p \in 1..Len(e)} = Segment(f, a, i + 1) \cup Segment(f, b, j)
  <2>1. {e[p] : p \in 1..Len(e)} = {s[p] : p \in 1..Len(s)} \cup {x}
    <3>1. Len(s) + 1 \in 1..Len(e) /\ \A p \in 1..Len(s) : p \in 1..Len(e)
      <4>1. Len(e) = Len(s) + 1
        BY <1>3, <1>4
      <4> QED BY <1>3, <4>1
    <3> QED BY <1>4, <1>8, <3>1
  <2>2. Segment(f, a, i + 1) = Segment(f, a, i) \cup {x}
    <3>1. Segment(f, a + i, 1) = {x}
      <4>1. (a + i)..(a + i + 1 - 1) = {a + i}
        OBVIOUS
      <4> QED BY <4>1 DEF Segment, x
    <3> QED BY <3>1, SegmentSplit
  <2> QED BY <2>1, <2>2 DEF Merged
<1>11. ASSUME NEW p \in 1..Len(e)
       PROVE  /\ \A k \in (a + (i + 1))..(a + n - 1) : e[p] < f[k]
              /\ \A k \in (b + j)..(b + n - 1) : e[p] < f[k]
  <2>1. CASE p \in 1..Len(s)
    <3>1. \A k \in (a + (i + 1))..(a + n - 1) : k \in (a + i)..(a + n - 1)
      OBVIOUS
    <3> QED BY <1>4, <2>1, <3>1 DEF Merged
  <2>2. CASE p = Len(s) + 1
    <3>1. e[p] = x
      BY <1>4, <2>2
    <3>2. \A k \in (a + (i + 1))..(a + n - 1) : x < f[k]
      <4>1. a + (i + 1) = a + i + 1
        OBVIOUS
      <4> QED BY <1>6, <4>1
    <3> QED BY <1>7, <3>1, <3>2
  <2> QED BY <1>8, <2>1, <2>2
<1>12. Len(e) = (i + 1) + j
  BY <1>4
<1> QED BY <1>9, <1>10, <1>11, <1>12 DEF Merged, e, x

\* Left and right run are alike.
LEMMA MergedSwap ==
  ASSUME NEW f, NEW a, NEW b, NEW n, NEW s, NEW i \in Nat, NEW j \in Nat,
         Merged(f, a, b, n, s, i, j)
  PROVE  Merged(f, b, a, n, s, j, i)
<1>1. i + j = j + i /\ Segment(f, a, i) \cup Segment(f, b, j) = Segment(f, b, j) \cup Segment(f, a, i)
  OBVIOUS
<1> QED BY <1>1 DEF Merged

\* A full tmp has the pair's records in order.
LEMMA MergeFull ==
  ASSUME NEW f \in [Places -> Nat], NEW g, IsChunk(g),
         NEW a \in Nat, NEW n \in Nat, a + 2 * n <= Size, MergeReady(f, g, a, n),
         NEW s \in Seq(Nat), Merged(f, a, a + n, n, s, n, n)
  PROVE  HasSorted(s, g, a, 2 * n)
<1> DEFINE h == [x \in a..(a + 2 * n - 1) |-> s[x - a + 1]]
<1>1. Len(s) = 2 * n
  BY DEF Merged
<1>2. Increasing(h, a, 2 * n)
  <2>1. ASSUME NEW x \in a..(a + 2 * n - 1), NEW y \in a..(a + 2 * n - 1), x < y
        PROVE  h[x] < h[y]
    <3>1. x - a + 1 \in 1..Len(s) /\ y - a + 1 \in 1..Len(s) /\ x - a + 1 < y - a + 1
      BY <1>1, <2>1
    <3> QED BY <3>1 DEF Merged
  <2> HIDE DEF h
  <2> QED BY <2>1 DEF Increasing
<1>3. Segment(h, a, 2 * n) = {s[p] : p \in 1..Len(s)}
  <2>1. ASSUME NEW p \in 1..Len(s)
        PROVE  s[p] \in Segment(h, a, 2 * n)
    <3>1. a + p - 1 \in a..(a + 2 * n - 1) /\ (a + p - 1) - a + 1 = p
      BY <1>1
    <3>2. h[a + p - 1] = s[p]
      BY <3>1
    <3> HIDE DEF h
    <3> QED BY <3>1, <3>2 DEF Segment
  <2>2. ASSUME NEW x \in a..(a + 2 * n - 1)
        PROVE  h[x] \in {s[p] : p \in 1..Len(s)}
    <3>1. x - a + 1 \in 1..Len(s)
      BY <1>1
    <3> QED BY <3>1
  <2> HIDE DEF h
  <2> QED BY <2>1, <2>2 DEF Segment
<1>4. Segment(h, a, 2 * n) = Segment(g, a, 2 * n)
  BY <1>3 DEF Merged, MergeReady
<1>5. \A x \in a..(a + 2 * n - 1) : Sorted(g, a, 2 * n)[x] = h[x]
  <2> DEFINE m == 2 * n
  <2>1. m \in Nat /\ a + m <= Size /\ Increasing(h, a, m)
        /\ Segment(h, a, m) = Segment(g, a, m)
    BY <1>2, <1>4
  <2> HIDE DEF h, m
  <2>2. InOrder(h, g, a, m)
    BY <2>1, InOrderIf
  <2> QED BY <2>2 DEF InOrder, m
<1>6. ASSUME NEW k \in 0..(2 * n - 1)
      PROVE  s[k + 1] = Sorted(g, a, 2 * n)[a + k]
  <2>1. a + k \in a..(a + 2 * n - 1) /\ (a + k) - a + 1 = k + 1
    OBVIOUS
  <2>2. h[a + k] = s[k + 1]
    BY <2>1
  <2> HIDE DEF h
  <2> QED BY <1>5, <2>1, <2>2
<1> QED BY <1>6 DEF HasSorted

-----------------------------------------------------------------------------
(***************************************************************************)
(* RecordInv.                                                               *)
(***************************************************************************)

\* The chunk and what it was, as functions.
LEMMA ChunkFacts ==
  ASSUME ThreadInv
  PROVE  IsChunk(input) /\ base \in [Places -> Nat] /\ Size \in Nat
BY ConstantFacts DEF ThreadInv, IsChunk, Size

\* Which pair a thread in do_merge has, and where it lies.
LEMMA PairOf ==
  ASSUME ThreadInv, NEW t \in Threads, at[t] \in AtPair
  PROVE  /\ part[t] \in 0..(NumPairs(width[t]) - 1)
         /\ Span(width[t]) \in Nat \ {0}
         /\ Left(t) = part[t] * 2 * Span(width[t])
         /\ Total(t) = 2 * Span(width[t])
         /\ Left(t) \in Nat /\ Left(t) + 2 * Span(width[t]) <= Size
<1>1. at[t] \in Merging /\ part[t] \in 0..(NumPairs(width[t]) - 1)
  BY DEF AtPair, Merging, ThreadInv, Locals
<1> QED BY <1>1, RoundFacts, PairAt

\* Two threads in do_merge work on the same places or on none in common.
LEMMA PairsApart ==
  ASSUME ThreadInv, NEW t \in Threads, NEW u \in Threads,
         at[t] \in AtPair, at[u] \in AtPair
  PROVE  /\ part[t] = part[u] => Left(u) = Left(t) /\ Total(u) = Total(t)
         /\ part[t] # part[u] => \/ Left(u) + Total(u) <= Left(t)
                                 \/ Left(t) + Total(t) <= Left(u)
<1>1. width[u] = width[t]
  BY SameWidth DEF AtPair
<1>2. /\ part[t] \in 0..(NumPairs(width[t]) - 1)
      /\ part[u] \in 0..(NumPairs(width[t]) - 1)
      /\ Left(t) = part[t] * 2 * Span(width[t]) /\ Total(t) = 2 * Span(width[t])
      /\ Left(u) = part[u] * 2 * Span(width[t]) /\ Total(u) = 2 * Span(width[t])
  BY <1>1, PairOf
<1>3. /\ width[t] \in Nat \ {0} /\ NumPairs(width[t]) \in 1..Blocks
      /\ Blocks = (2 * width[t]) * NumPairs(width[t])
  BY RoundFacts DEF AtPair, Merging
<1>4. \A p, q \in 0..(NumPairs(width[t]) - 1) :
        p < q => p * 2 * Span(width[t]) + 2 * Span(width[t]) <= q * 2 * Span(width[t])
  BY <1>3, PairPlaces
<1>5. part[t] < part[u] \/ part[u] < part[t] \/ part[t] = part[u]
  BY <1>2
<1> QED BY <1>2, <1>4, <1>5

\* As long as nothing has met, a step of do_merge is alone at its pair with
\* threads that do what it does.
LEMMA NobodyMet ==
  ASSUME ThreadInv, NEW t \in Threads, at[t] \in AtPair, NEW lab \in AtPair,
         ~Meets(t, lab), NEW u \in Threads, u # t, at[u] = lab
  PROVE  part[u] # part[t]
<1>1. SUFFICES ASSUME part[u] = part[t] PROVE FALSE
  OBVIOUS
<1>2. Left(u) = Left(t) /\ Total(u) = Total(t)
  BY <1>1, PairsApart
<1>3. Left(t) \in Nat /\ Total(t) \in Nat \ {0}
  BY PairOf
<1> QED BY <1>2, <1>3 DEF Meets

\* What a step elsewhere leaves of a pair.
LEMMA PairKeep ==
  ASSUME NEW p \in Nat, NEW n \in Nat, PairInv(p, n), input' = input,
         \A i \in (p * 2 * n)..(p * 2 * n + 2 * n - 1) : base'[i] = base[i],
         Writers(p)' = {} => Writers(p) = {},
         \A u \in Threads :
           at[u] \in AtPair /\ part[u] = p => at'[u] \in AtPair /\ part'[u] = p,
         p \in mergeMap' => \/ p \in mergeMap
                            \/ \E u \in Threads : at'[u] \in AtPair /\ part'[u] = p
  PROVE  PairInv(p, n)'
<1> DEFINE a == p * 2 * n
<1>1. a \in Nat
  OBVIOUS
<1>2. \A i \in a..(a + 2 * n - 1) : base'[i] = base[i]
  OBVIOUS
<1> HIDE DEF a
<1>3. PairReady(p, n) => PairReady(p, n)'
  <2>1. InOrder(base, input, a, n) => InOrder(base', input', a, n)
    BY <1>1, <1>2 DEF InOrder
  <2>2. InOrder(base, input, a + n, n) => InOrder(base', input', a + n, n)
    BY <1>1, <1>2 DEF InOrder
  <2> QED BY <2>1, <2>2 DEF PairReady, a
<1>4. PairDone(p, n) => PairDone(p, n)'
  <2>1. InOrder(base, input, a, 2 * n) => InOrder(base', input', a, 2 * n)
    BY <1>2 DEF InOrder
  <2> QED BY <2>1 DEF PairDone, a
<1>5. Writers(p)' = {} => (PairReady(p, n) \/ PairDone(p, n))'
  BY <1>3, <1>4 DEF PairInv
<1>6. p \in mergeMap' =>
        (PairDone(p, n) \/ \E u \in Threads : at[u] \in AtPair /\ part[u] = p)'
  BY <1>4 DEF PairInv
<1> QED BY <1>5, <1>6 DEF PairInv

\* The records in a round: the pairs, and what is in the tmps.
LEMMA RoundRecords ==
  ASSUME NEW u \in Threads, UNCHANGED width, at'[u] \in Merging,
         NEW n, n = Span(width[u]),
         \A p \in 0..(NumPairs(width[u]) - 1) : PairInv(p, n)',
         at'[u] = "merge" /\ Writers(part[u])' = {} => MergeLoop(u)',
         at'[u] = "write" => MergeWrite(u)'
  PROVE  Records(u)'
<1>1. Span(width[u])' = n /\ NumPairs(width[u])' = NumPairs(width[u])
  BY DEF Span, NumPairs
<1>2. at'[u] \notin {"sync1"} \cup Sorting \cup Between
  BY DEF Sorting, Between, Merging
<1>3. \A p \in 0..(NumPairs(width[u])' - 1) : PairInv(p, Span(width[u]))'
  <2>1. SUFFICES ASSUME NEW p \in 0..(NumPairs(width[u]) - 1)
                 PROVE  PairInv(p, Span(width[u]))'
    BY <1>1
  <2>2. PairInv(p, n)'
    OBVIOUS
  <2> QED BY <1>1, <2>2 DEF PairInv, PairReady, PairDone
<1> QED BY <1>2, <1>3 DEF Records

\* The pair a thread reads in peace is there to be merged, or merged already.
LEMMA PairToMerge ==
  ASSUME SortInv, ~raced, NEW t \in Threads, at[t] = "merge",
         Writers(part[t]) = {}, NEW n, n = Span(width[t])
  PROVE  MergeReady(base, input, Left(t), n)
<1>1. Records(t) /\ at[t] \in Merging
  BY DEF SortInv, RecordInv, Merging
<1>2. /\ part[t] \in 0..(NumPairs(width[t]) - 1) /\ n \in Nat \ {0}
      /\ Left(t) = part[t] * 2 * n /\ Left(t) \in Nat /\ Left(t) + 2 * n <= Size
  BY PairOf DEF SortInv, AtPair
<1>3. PairReady(part[t], n) \/ PairDone(part[t], n)
  BY <1>1, <1>2 DEF Records, PairInv
<1>4. \/ InOrder(base, input, Left(t), n) /\ InOrder(base, input, Left(t) + n, n)
      \/ InOrder(base, input, Left(t), 2 * n)
  BY <1>2, <1>3 DEF PairReady, PairDone
<1>5. IsChunk(input) /\ base \in [Places -> Nat]
  BY ChunkFacts DEF SortInv
<1> HIDE DEF MergeReady
<1> QED BY <1>2, <1>4, <1>5, ReadyPair

\* What one step of the loop does to tmp.
LEMMA LoopStep ==
  ASSUME SortInv, NEW t \in Threads, MergeStep(t), ~raced'
  PROVE  /\ Writers(part[t]) = {}
         /\ Merged(base, Left(t), Left(t) + Span(width[t]), Span(width[t]),
                   tmp'[t], l'[t], Len(tmp'[t]) - l'[t])
<1> DEFINE n == Span(width[t])
           r == Len(tmp[t]) - l[t]
           a == Left(t)
<1>1. /\ at[t] = "merge" /\ ~raced /\ ~Meets(t, "write")
  BY DEF MergeStep
<1>2. Writers(part[t]) = {}
  BY <1>1, NobodyMet DEF SortInv, AtPair, Writers
<1>3. MergeReady(base, input, a, n)
  BY <1>1, <1>2, PairToMerge
<1>4. Merged(base, a, a + n, n, tmp[t], l[t], r)
  BY <1>1, <1>2 DEF SortInv, RecordInv, Records, MergeLoop
<1>5. /\ l[t] \in 0..n /\ r \in 0..n /\ n \in Nat \ {0} /\ a \in Nat
      /\ Len(tmp[t]) = l[t] + r
  BY <1>1, MergeSource DEF SortInv
<1>6. a + 2 * n <= Size
  BY <1>1, PairOf DEF SortInv, AtPair
<1>7. tmp[t] \in Seq(Nat) /\ base \in [Places -> Nat] /\ Size \in Nat
  BY ChunkFacts DEF SortInv, ThreadInv
<1>8. \/ /\ l[t] < n /\ (r = n \/ base[a + l[t]] <= base[a + n + r])
         /\ tmp'[t] = Append(tmp[t], base[a + l[t]])
         /\ l'[t] = l[t] + 1
      \/ /\ r < n /\ (l[t] = n \/ base[a + n + r] < base[a + l[t]])
         /\ tmp'[t] = Append(tmp[t], base[a + n + r])
         /\ l'[t] = l[t]
  BY MergeStepFacts DEF SortInv
<1> HIDE DEF n, r, a
<1> DEFINE b == a + n
<1>9. /\ b \in Nat /\ b + n <= Size /\ a + n <= Size
      /\ Increasing(base, a, n) /\ Increasing(base, b, n)
      /\ \A x \in a..(a + n - 1), y \in b..(b + n - 1) : base[x] # base[y]
  <2>1. b \in Nat /\ b + n <= Size /\ a + n <= Size
    BY <1>5, <1>6, <1>7
  <2>2. ASSUME NEW x \in a..(a + n - 1), NEW y \in b..(b + n - 1)
        PROVE  base[x] # base[y]
    <3>1. x \in a..(a + 2 * n - 1) /\ y \in a..(a + 2 * n - 1) /\ x # y
      BY <1>5
    <3> QED BY <1>3, <3>1 DEF MergeReady
  <2> QED BY <1>3, <2>1, <2>2 DEF MergeReady
<1>10. \A x \in a..(a + n - 1), y \in b..(b + n - 1) : base[x] \in Nat /\ base[y] \in Nat
  BY <1>5, <1>7, <1>9, PlacesIn
<1>11. Merged(base, a, b, n, tmp[t], l[t], r)
  BY <1>4
<1> HIDE DEF b
<1>12. CASE /\ l[t] < n /\ (r = n \/ base[a + l[t]] <= base[a + n + r])
            /\ tmp'[t] = Append(tmp[t], base[a + l[t]])
            /\ l'[t] = l[t] + 1
  <2>1. l[t] < n /\ (r = n \/ base[a + l[t]] <= base[b + r])
    BY <1>12 DEF b
  <2>2. Merged(base, a, b, n, Append(tmp[t], base[a + l[t]]), l[t] + 1, r)
    BY <1>5, <1>7, <1>9, <1>11, <2>1, MergeTakes
  <2>3. Len(tmp'[t]) - l'[t] = r
    <3>1. Len(tmp'[t]) = (l[t] + 1) + r
      BY <1>12, <2>2 DEF Merged
    <3> QED BY <1>5, <1>12, <3>1
  <2> QED BY <1>2, <1>12, <2>2, <2>3 DEF n, a, b
<1>13. CASE /\ r < n /\ (l[t] = n \/ base[a + n + r] < base[a + l[t]])
            /\ tmp'[t] = Append(tmp[t], base[a + n + r])
            /\ l'[t] = l[t]
  <2>1. r < n /\ (l[t] = n \/ base[b + r] <= base[a + l[t]])
    <3>1. CASE l[t] = n
      BY <1>13, <3>1
    <3>2. CASE l[t] # n
      <4>1. a + l[t] \in a..(a + n - 1) /\ b + r \in b..(b + n - 1)
        <5>1. l[t] \in 0..n /\ l[t] # n /\ r \in 0..n /\ r < n /\ n \in Nat
              /\ a \in Nat /\ b \in Nat
          BY <1>5, <1>9, <1>13, <3>2
        <5> QED BY <5>1
      <4> QED BY <1>10, <1>13, <4>1 DEF b
    <3> QED BY <3>1, <3>2
  <2>2. Merged(base, b, a, n, tmp[t], r, l[t])
    BY <1>5, <1>11, MergedSwap
  <2>3. Merged(base, b, a, n, Append(tmp[t], base[b + r]), r + 1, l[t])
    BY <1>5, <1>7, <1>9, <2>1, <2>2, MergeTakes
  <2>4. Merged(base, a, b, n, Append(tmp[t], base[b + r]), l[t], r + 1)
    BY <1>5, <2>3, MergedSwap
  <2>5. Len(tmp'[t]) - l'[t] = r + 1
    <3>1. Len(tmp'[t]) = l[t] + (r + 1)
      BY <1>13, <2>4 DEF Merged, b
    <3> QED BY <1>5, <1>13, <3>1
  <2> QED BY <1>2, <1>13, <2>4, <2>5 DEF n, a, b
<1> QED BY <1>8, <1>12, <1>13

\* The threads' phases in do_merge.
LEMMA AllMerging ==
  ASSUME BlockInv, NEW t \in Threads, at[t] \in Merging
  PROVE  \A u \in Threads : at[u] \in Merging
BY DEF BlockInv, Together, Sorting, Between, Merging

\* What RecordInv says of one pair.
LEMMA PairsHold ==
  ASSUME SortInv, ~raced, NEW u \in Threads, at[u] \in Merging,
         NEW n, n = Span(width[u]), NEW p \in 0..(NumPairs(width[u]) - 1)
  PROVE  PairInv(p, n) /\ n \in Nat \ {0} /\ p \in Nat
<1>1. Records(u)
  BY DEF SortInv, RecordInv
<1>2. n \in Nat \ {0} /\ NumPairs(width[u]) \in 1..Blocks
  BY RoundFacts DEF SortInv
<1> QED BY <1>1, <1>2 DEF Records

\* A step of do_merge's loop keeps RecordInv.
LEMMA RecordMerge ==
  ASSUME SortInv, NEW t \in Threads, MergeStep(t), ~raced', ThreadInv'
  PROVE  \A u \in Threads : Records(u)'
<1>1. /\ at[t] = "merge" /\ ~raced
      /\ UNCHANGED <<base, input, width, part, mergeMap, written>>
      /\ \A u \in Threads \ {t} : at'[u] = at[u] /\ tmp'[u] = tmp[u] /\ l'[u] = l[u]
  <2>1. /\ at \in [Threads -> Labels] /\ tmp \in [Threads -> Seq(Nat)]
        /\ l \in [Threads -> Nat]
    BY DEF SortInv, ThreadInv, BlockInv
  <2>2. /\ at[t] = "merge" /\ ~raced
        /\ UNCHANGED <<base, input, width, part, mergeMap, written>>
    BY DEF MergeStep, shared
  <2>3. \A u \in Threads \ {t} : at'[u] = at[u] /\ tmp'[u] = tmp[u] /\ l'[u] = l[u]
    BY <2>1 DEF MergeStep, JumpTo
  <2> QED BY <2>2, <2>3
<1>2. \A u \in Threads : at[u] \in Merging
  BY <1>1, AllMerging DEF SortInv, Merging
<1>3. at'[t] \in AtPair
  BY MergeStepFacts DEF SortInv, AtPair
<1>4. \A u \in Threads : at'[u] \in Merging /\ (at[u] \in AtPair => at'[u] \in AtPair)
  BY <1>1, <1>2, <1>3 DEF AtPair, Merging
<1>5. \A p : Writers(p)' = {} => Writers(p) = {}
  <2> SUFFICES ASSUME NEW p, NEW u \in Writers(p)
               PROVE  u \in Writers(p)'
    OBVIOUS
  <2>1. u # t
    BY <1>1 DEF Writers
  <2> QED BY <1>1, <2>1 DEF Writers
<1>6. MergeLoop(t)'
  <2>1. Left(t)' = Left(t) /\ Span(width[t])' = Span(width[t])
    BY <1>1 DEF Left, Span
  <2>2. Merged(base, Left(t), Left(t) + Span(width[t]), Span(width[t]),
               tmp'[t], l'[t], Len(tmp'[t]) - l'[t])
    BY LoopStep
  <2> QED BY <1>1, <2>1, <2>2 DEF MergeLoop
<1>7. ASSUME at'[t] = "write"
      PROVE  MergeWrite(t)'
  <2> DEFINE n == Span(width[t])
             a == Left(t)
  <2>1. Merged(base, a, a + n, n, tmp'[t], l'[t], Len(tmp'[t]) - l'[t])
    BY LoopStep
  <2>2. Left(t)' = a /\ Total(t)' = Total(t) /\ Span(width[t])' = n /\ Total(t) = 2 * n
        /\ n \in Nat \ {0} /\ a \in Nat /\ a + 2 * n <= Size
    BY <1>1, PairOf DEF Left, Span, Total, SortInv, AtPair
  <2>3. tmp'[t] \in Seq(Nat) /\ l'[t] \in Nat /\ Locals(t)'
    BY DEF ThreadInv
  <2>4. l'[t] <= n /\ Len(tmp'[t]) - l'[t] \in 0..n
        /\ l'[t] + (Len(tmp'[t]) - l'[t]) = 2 * n /\ written'[t] \in Nat
        /\ written[t] = 0
    BY <1>1, <1>7, <2>2, <2>3 DEF Locals, AtPair, SortInv, ThreadInv
  <2>5. l'[t] = n /\ Len(tmp'[t]) - l'[t] = n
    <3> DEFINE x == l'[t]
               y == Len(tmp'[t]) - l'[t]
    <3>1. n \in Nat /\ x \in Nat /\ y \in 0..n /\ x <= n /\ x + y = 2 * n
      BY <2>2, <2>3, <2>4
    <3> HIDE DEF x, y, n
    <3>2. x = n /\ y = n
      BY <3>1
    <3> QED BY <3>2 DEF x, y
  <2>6. MergeReady(base, input, a, n)
    BY <1>1, LoopStep, PairToMerge
  <2>7. IsChunk(input) /\ base \in [Places -> Nat]
    BY ChunkFacts DEF SortInv
  <2> HIDE DEF n, a
  <2>8. Merged(base, a, a + n, n, tmp'[t], n, n)
    BY <2>1, <2>5
  <2>9. HasSorted(tmp'[t], input, a, 2 * n)
    BY <2>2, <2>3, <2>6, <2>7, <2>8, MergeFull
  <2>10. 0..(written'[t] - 1) = {}
    BY <1>1, <2>4
  <2> QED BY <1>1, <2>2, <2>9, <2>10 DEF MergeWrite
<1>8. ASSUME NEW u \in Threads
      PROVE  Records(u)'
  <2>1. PICK n : n = Span(width[u])
    OBVIOUS
  <2>2. ASSUME NEW p \in 0..(NumPairs(width[u]) - 1)
        PROVE  PairInv(p, n)'
    <3>1. PairInv(p, n) /\ n \in Nat \ {0} /\ p \in Nat
      BY <1>1, <1>2, <2>1, PairsHold
    <3> QED BY <1>1, <1>4, <1>5, <3>1, PairKeep
  <2>3. ASSUME u # t, at'[u] = "merge" /\ Writers(part[u])' = {}
        PROVE  MergeLoop(u)'
    <3>1. at[u] = "merge" /\ Writers(part[u]) = {}
      BY <1>1, <1>5, <2>3
    <3>2. MergeLoop(u)
      BY <1>1, <3>1 DEF SortInv, RecordInv, Records
    <3> QED BY <1>1, <2>3, <3>2 DEF MergeLoop, Left, Span
  <2>4. ASSUME u # t, at'[u] = "write"
        PROVE  MergeWrite(u)'
    <3>1. MergeWrite(u)
      BY <1>1, <2>4 DEF SortInv, RecordInv, Records
    <3> QED BY <1>1, <2>4, <3>1 DEF MergeWrite, Left, Span, Total
  <2> QED BY <1>1, <1>4, <1>6, <1>7, <2>1, <2>2, <2>3, <2>4, RoundRecords
<1> QED BY <1>8

\* Merged looks at the two runs only.
LEMMA MergedKeep ==
  ASSUME NEW f, NEW g, NEW a \in Nat, NEW n \in Nat, NEW s,
         NEW i \in 0..n, NEW j \in 0..n,
         \A x \in a..(a + 2 * n - 1) : f[x] = g[x], Merged(f, a, a + n, n, s, i, j)
  PROVE  Merged(g, a, a + n, n, s, i, j)
<1>1. Segment(f, a, i) = Segment(g, a, i) /\ Segment(f, a + n, j) = Segment(g, a + n, j)
  <2>1. \A x \in a..(a + i - 1) : f[x] = g[x]
    OBVIOUS
  <2>2. \A x \in (a + n)..(a + n + j - 1) : f[x] = g[x]
    OBVIOUS
  <2> QED BY <2>1, <2>2 DEF Segment
<1>2. /\ \A x \in (a + i)..(a + n - 1) : f[x] = g[x]
      /\ \A x \in (a + n + j)..(a + n + n - 1) : f[x] = g[x]
  OBVIOUS
<1> QED BY <1>1, <1>2 DEF Merged

\* memcpy changes one place, that of its pair, and writes there what the other
\* threads at the pair will write.
LEMMA RecordWrite ==
  ASSUME SortInv, NEW t \in Threads, WriteBack(t), ~raced', ThreadInv'
  PROVE  \A u \in Threads : Records(u)'
<1> DEFINE n == Total(t)
           k == written[t]
           a == Left(t)
           P == part[t]
           s == Sorted(input, a, n)
<1>1. /\ at[t] = "write" /\ n \in Nat \ {0} /\ k \in 0..(n - 1)
      /\ Len(tmp[t]) = n /\ a \in Nat /\ a + n <= Size
      /\ a + k \in Places
      /\ base' = [base EXCEPT ![a + k] = tmp[t][k + 1]]
      /\ \/ /\ k + 1 < n /\ written' = [written EXCEPT ![t] = k + 1]
            /\ UNCHANGED <<at, tmp, l>>
         \/ /\ k + 1 = n /\ written' = [written EXCEPT ![t] = 0]
            /\ tmp' = [tmp EXCEPT ![t] = <<>>] /\ l' = [l EXCEPT ![t] = 0]
            /\ at' = [at EXCEPT ![t] = "pick"]
      /\ UNCHANGED <<mergeMap, width, part, input>>
  BY WriteFacts DEF SortInv
<1>2. /\ ~raced /\ ~Meets(t, "merge")
  BY DEF WriteBack
<1>3. \A u \in Threads : at[u] \in Merging
  BY <1>1, AllMerging DEF SortInv, Merging
<1>4. /\ base \in [Places -> Nat] /\ at \in [Threads -> Labels]
      /\ tmp \in [Threads -> Seq(Nat)] /\ l \in [Threads -> Nat]
      /\ written \in [Threads -> Nat]
  BY DEF SortInv, ThreadInv, BlockInv
<1>5. /\ HasSorted(tmp[t], input, a, n)
      /\ \A i \in 0..(k - 1) : base[a + i] = s[a + i]
  BY <1>1, <1>2 DEF SortInv, RecordInv, Records, MergeWrite
<1> HIDE DEF n, k, a, P, s
<1>6. /\ base'[a + k] = s[a + k]
      /\ \A i \in Places : i # a + k => base'[i] = base[i]
  <2>1. tmp[t][k + 1] = s[a + k]
    BY <1>1, <1>5 DEF HasSorted, s
  <2> QED BY <1>1, <1>4, <2>1
<1>7. \A u \in Threads \ {t} : at'[u] = at[u] /\ tmp'[u] = tmp[u] /\ l'[u] = l[u]
                               /\ written'[u] = written[u]
  BY <1>1, <1>4
<1>8. \/ k + 1 < n /\ at'[t] = "write" /\ written'[t] = k + 1 /\ tmp'[t] = tmp[t]
      \/ k + 1 = n /\ at'[t] = "pick"
  BY <1>1, <1>4
<1>9. \A u \in Threads : at'[u] \in Merging
  BY <1>3, <1>7, <1>8 DEF Merging
<1>10. \A u \in Threads : at[u] = "merge" => part[u] # P
  BY <1>1, <1>2, NobodyMet DEF SortInv, AtPair, P
<1>11. PICK w \in Nat \ {0} :
         /\ \A u \in Threads : width[u] \in Nat \ {0} /\ Span(width[u]) = w
                               /\ (at[u] \in AtPair => part[u] \in Nat /\ Left(u) = part[u] * 2 * w
                                                       /\ Total(u) = 2 * w)
         /\ P \in 0..(NumPairs(width[t]) - 1)
         /\ n = 2 * w /\ a = P * 2 * w
         /\ \A p \in 0..(NumPairs(width[t]) - 1) :
              p * 2 * w \in Nat /\ p * 2 * w + 2 * w <= Size
         /\ \A p, q \in 0..(NumPairs(width[t]) - 1) :
              p < q => p * 2 * w + 2 * w <= q * 2 * w
  <2> DEFINE w == Span(width[t])
  <2>1. \A u \in Threads : width[u] = width[t]
    BY <1>1, <1>3, SameWidth DEF SortInv, Merging
  <2>2. \A u \in Threads : at[u] \in AtPair =>
          part[u] \in Nat /\ Left(u) = part[u] * 2 * w /\ Total(u) = 2 * w
    BY <2>1, PairOf DEF SortInv
  <2>3. /\ P \in 0..(NumPairs(width[t]) - 1) /\ w \in Nat \ {0}
        /\ n = 2 * w /\ a = P * 2 * w
    BY <1>1, PairOf DEF SortInv, AtPair, P, n, a
  <2>4. /\ width[t] \in Nat \ {0} /\ NumPairs(width[t]) \in 1..Blocks
        /\ Blocks = (2 * width[t]) * NumPairs(width[t])
    BY <1>1, RoundFacts DEF SortInv, Merging
  <2>5. /\ \A p \in 0..(NumPairs(width[t]) - 1) :
             p * 2 * w \in Nat /\ p * 2 * w + 2 * w <= Size
        /\ \A p, q \in 0..(NumPairs(width[t]) - 1) :
             p < q => p * 2 * w + 2 * w <= q * 2 * w
    BY <2>4, PairPlaces
  <2> HIDE DEF w
  <2> QED BY <2>1, <2>2, <2>3, <2>4, <2>5 DEF w
<1>12. ASSUME NEW p \in 0..(NumPairs(width[t]) - 1), p # P,
              NEW i \in (p * 2 * w)..(p * 2 * w + 2 * w - 1)
       PROVE  i # a + k /\ base'[i] = base[i]
  <2> DEFINE lo == p * 2 * w
  <2>1. p < P \/ P < p
    BY <1>11, <1>12
  <2>2. lo \in Nat /\ lo + 2 * w <= Size /\ i \in lo..(lo + 2 * w - 1)
    BY <1>11
  <2>3. lo + 2 * w <= a \/ a + 2 * w <= lo
    BY <1>11, <2>1
  <2> HIDE DEF lo
  <2>4. i # a + k
    <3>1. /\ a \in Nat /\ w \in Nat /\ n = 2 * w /\ k \in 0..(n - 1) /\ lo \in Nat
          /\ i \in lo..(lo + 2 * w - 1)
      BY <1>1, <1>11, <2>2
    <3> QED BY <2>3, <3>1
  <2>5. i \in Places
    BY <2>2, ChunkFacts DEF SortInv, Places
  <2> QED BY <1>6, <2>4, <2>5
<1>13. \A p : Writers(p)' = {} => Writers(p) = {} \/ p = P
  <2> SUFFICES ASSUME NEW p, p # P, NEW u \in Writers(p)
               PROVE  u \in Writers(p)'
    OBVIOUS
  <2>1. u # t
    BY DEF Writers, P
  <2> QED BY <1>1, <1>7, <2>1 DEF Writers
<1>14. ASSUME NEW p \in 0..(NumPairs(width[t]) - 1)
       PROVE  PairInv(p, w)'
  <2>1. PairInv(p, w) /\ p \in Nat
    BY <1>1, <1>2, <1>3, <1>11, PairsHold
  <2>2. CASE p # P
    <3>1. \A u \in Threads :
            at[u] \in AtPair /\ part[u] = p => at'[u] \in AtPair /\ part'[u] = p
      BY <1>1, <1>7, <2>2 DEF P
    <3>2. \A i \in (p * 2 * w)..(p * 2 * w + 2 * w - 1) : base'[i] = base[i]
      BY <1>12, <2>2
    <3> QED BY <1>1, <1>13, <2>1, <2>2, <3>1, <3>2, PairKeep
  <2>3. CASE p = P /\ at'[t] = "write"
    <3>1. t \in Writers(p)' /\ at'[t] \in AtPair /\ part'[t] = p
      BY <1>1, <2>3 DEF Writers, AtPair, P
    <3> QED BY <3>1 DEF PairInv
  <2>4. CASE p = P /\ k + 1 = n
    <3>1. ASSUME NEW i \in a..(a + n - 1)
          PROVE  base'[i] = s[i]
      <4>1. CASE i = a + k
        BY <1>6, <4>1
      <4>2. CASE i # a + k
        <5>1. i - a \in 0..(k - 1) /\ a + (i - a) = i
          BY <1>1, <2>4, <4>2
        <5>2. i \in Places
          BY <1>1, ChunkFacts DEF SortInv, Places
        <5> QED BY <1>5, <1>6, <4>2, <5>1, <5>2
      <4> QED BY <4>1, <4>2
    <3>2. InOrder(base', input', a, n)
      BY <1>1, <3>1 DEF InOrder, s
    <3>3. PairDone(p, w)'
      BY <1>11, <2>4, <3>2 DEF PairDone
    <3> QED BY <3>3 DEF PairInv
  <2> QED BY <1>8, <2>2, <2>3, <2>4
<1>15. ASSUME NEW u \in Threads
       PROVE  Records(u)'
  <2>1. width[u] = width[t] /\ Span(width[u]) = w
    BY <1>1, <1>3, <1>11, SameWidth DEF SortInv, Merging
  <2>2. \A p \in 0..(NumPairs(width[u]) - 1) : PairInv(p, w)'
    BY <1>14, <2>1
  <2>3. ASSUME at'[u] = "merge" /\ Writers(part[u])' = {}
        PROVE  MergeLoop(u)'
    <3>1. u # t /\ at[u] = "merge"
      BY <1>7, <1>8, <2>3
    <3>2. part[u] # P /\ Writers(part[u]) = {}
      BY <1>1, <1>10, <1>13, <2>3, <3>1
    <3>3. MergeLoop(u)
      BY <1>2, <3>1, <3>2 DEF SortInv, RecordInv, Records
    <3>4. l[u] \in 0..w /\ Len(tmp[u]) - l[u] \in 0..w /\ Left(u) \in Nat
      BY <2>1, <3>1, MergeSource DEF SortInv
    <3>5. \A x \in Left(u)..(Left(u) + 2 * w - 1) : base[x] = base'[x]
      <4>1. Left(u) = part[u] * 2 * w /\ part[u] \in 0..(NumPairs(width[t]) - 1)
        BY <2>1, <3>1, PairOf DEF SortInv, AtPair
      <4> QED BY <1>12, <3>2, <4>1
    <3>6. Merged(base, Left(u), Left(u) + w, w, tmp[u], l[u], Len(tmp[u]) - l[u])
      BY <2>1, <3>3 DEF MergeLoop
    <3>7. Merged(base', Left(u), Left(u) + w, w, tmp[u], l[u], Len(tmp[u]) - l[u])
      <4> DEFINE i == l[u]
                 j == Len(tmp[u]) - l[u]
                 b == Left(u)
                 q == tmp[u]
      <4>1. /\ w \in Nat /\ b \in Nat /\ i \in 0..w /\ j \in 0..w
            /\ \A x \in b..(b + 2 * w - 1) : base[x] = base'[x]
            /\ Merged(base, b, b + w, w, q, i, j)
        BY <1>11, <3>4, <3>5, <3>6
      <4> HIDE DEF i, j, b, q
      <4>2. Merged(base', b, b + w, w, q, i, j)
        BY <4>1, MergedKeep
      <4> QED BY <4>2 DEF i, j, b, q
    <3>8. Left(u)' = Left(u) /\ Span(width[u])' = w
      BY <1>1, <2>1 DEF Left, Span
    <3> QED BY <1>7, <3>1, <3>7, <3>8 DEF MergeLoop
  <2>4. ASSUME at'[u] = "write"
        PROVE  MergeWrite(u)'
    <3> DEFINE b == Left(u)
               v == Sorted(input, b, n)
    <3>1. at[u] = "write"
      BY <1>1, <1>7, <2>4
    <3>2. Total(u) = n /\ b = part[u] * 2 * w /\ part[u] \in 0..(NumPairs(width[t]) - 1)
          /\ b \in Nat /\ b + n <= Size
      BY <1>11, <2>1, <3>1, PairOf DEF SortInv, AtPair
    <3>3. MergeWrite(u)
      BY <1>2, <3>1 DEF SortInv, RecordInv, Records
    <3>4. tmp'[u] = tmp[u] /\ Left(u)' = b /\ Total(u)' = n
      BY <1>1, <1>7, <1>8, <2>4, <3>2 DEF Left, Total, Span
    <3>5. written[u] \in 0..(n - 1)
      <4>1. Locals(u) /\ written[u] \in Nat
        BY DEF SortInv, ThreadInv
      <4> QED BY <1>11, <2>1, <3>1, <4>1 DEF Locals
    <3>6. written'[u] = IF u = t THEN k + 1 ELSE written[u]
      BY <1>7, <1>8, <2>4
    <3> HIDE DEF b, v
    <3>9. written'[u] \in 0..n
      <4>1. k + 1 \in 0..n /\ \A x \in 0..(n - 1) : x \in 0..n
        BY <1>1
      <4> QED BY <3>5, <3>6, <4>1
    <3>10. \A i \in 0..(n - 1) : b + i \in Places /\ b + i \in b..(b + 2 * w - 1)
      <4>1. n \in Nat /\ n = 2 * w /\ Size \in Nat /\ b \in Nat /\ b + n <= Size
        BY <1>1, <1>11, <3>2, ChunkFacts DEF SortInv
      <4>2. \A i \in 0..(n - 1) : b + i \in 0..(Size - 1) /\ b + i \in b..(b + n - 1)
        BY <4>1
      <4> QED BY <4>1, <4>2 DEF Places
    <3>7. HasSorted(tmp[u], input, b, n)
          /\ \A i \in 0..(written[u] - 1) : base[b + i] = v[b + i]
      BY <3>2, <3>3 DEF MergeWrite, b, v
    <3>8. ASSUME NEW i \in 0..(written'[u] - 1)
          PROVE  base'[b + i] = v[b + i]
      <4>1. CASE b + i = a + k
        <5>1. part[u] = P
          <6>1. SUFFICES ASSUME part[u] # P PROVE FALSE
            OBVIOUS
          <6>2. b + i \in b..(b + 2 * w - 1)
            BY <1>1, <3>8, <3>9, <3>10
          <6> QED BY <1>12, <3>2, <4>1, <6>1, <6>2
        <5>2. b = a
          BY <1>11, <3>2, <5>1
        <5> QED BY <1>6, <4>1, <5>2 DEF s, v
      <4>2. CASE b + i # a + k
        <5>1. i \in 0..(written[u] - 1)
          <6>1. CASE u = t
            <7>1. b = a /\ written[u] = k
              BY <6>1 DEF b, a, k
            <7> QED BY <1>1, <3>6, <3>8, <4>2, <6>1, <7>1
          <6>2. CASE u # t
            BY <3>6, <3>8, <6>2
          <6> QED BY <6>1, <6>2
        <5>2. b + i \in Places
          BY <1>1, <3>8, <3>9, <3>10
        <5> QED BY <1>6, <3>7, <4>2, <5>1, <5>2
      <4> QED BY <4>1, <4>2
    <3> QED BY <1>1, <3>4, <3>7, <3>8 DEF MergeWrite, v
  <2> QED BY <1>1, <1>9, <2>1, <2>2, <2>3, <2>4, RoundRecords
<1> QED BY <1>15

\* A pair that gets marked is merged by the thread that marks it, and at first
\* there is nothing in its tmp.
LEMMA RecordTaken ==
  ASSUME SortInv, NEW t \in Threads, MergeOwn(t) \/ TakePair(t), ~raced',
         ThreadInv'
  PROVE  \A u \in Threads : Records(u)'
<1>1. /\ at[t] \in {"own", "pick"} /\ ~raced
      /\ UNCHANGED <<width, tmp, l, written, base, input>>
  BY DEF MergeOwn, TakePair, shared, history
<1>2. \A u \in Threads : at[u] \in Merging
  BY <1>1, AllMerging DEF SortInv, Merging
<1>3. at \in [Threads -> Labels] /\ part \in [Threads -> Nat]
  BY DEF SortInv, BlockInv, ThreadInv
<1>4. \A u \in Threads \ {t} : at'[u] = at[u] /\ part'[u] = part[u]
  BY <1>3 DEF MergeOwn, TakePair, StartMerge, JumpTo
<1>5. /\ at'[t] \in {"merge", "pick", "sync4"}
      /\ \A p \in mergeMap' : p \in mergeMap \/ (at'[t] = "merge" /\ part'[t] = p)
  <2>1. CASE MergeOwn(t)
    <3>1. mergeMap' = mergeMap
      BY <2>1 DEF MergeOwn, shared
    <3>2. \/ at' = [at EXCEPT ![t] = "merge"]
          \/ at' = [at EXCEPT ![t] = "pick"]
      BY <2>1 DEF MergeOwn, StartMerge, JumpTo
    <3> QED BY <1>3, <3>1, <3>2
  <2>2. CASE TakePair(t)
    <3> DEFINE j == NextFree(mergeMap, NumPairs(width[t]))
    <3>1. CASE mergeMap' = mergeMap \cup {j} /\ StartMerge(t, j)
      <4> HIDE DEF j
      <4> QED BY <1>3, <3>1 DEF StartMerge, JumpTo
    <3>2. CASE JumpTo(t, "sync4") /\ UNCHANGED <<mergeMap, part>>
      BY <1>3, <3>2 DEF JumpTo
    <3> QED BY <2>2, <3>1, <3>2 DEF TakePair
  <2> QED BY <2>1, <2>2
<1>6. \A u \in Threads : at'[u] \in Merging
  BY <1>2, <1>4, <1>5 DEF Merging
<1>7. \A p : Writers(p)' = Writers(p)
  <2>1. at[t] # "write" /\ at'[t] # "write"
    BY <1>1, <1>5
  <2>2. \A p : \A u \in Threads :
          at'[u] = "write" /\ part'[u] = p <=> at[u] = "write" /\ part[u] = p
    BY <1>4, <2>1
  <2> QED BY <2>2 DEF Writers
<1>8. ASSUME at'[t] = "merge"
      PROVE  MergeLoop(t)'
  <2>1. Locals(t) /\ at[t] \notin AtPair
    BY <1>1 DEF SortInv, ThreadInv, AtPair
  <2>2. tmp'[t] = <<>> /\ l'[t] = 0
    BY <1>1, <2>1 DEF Locals
  <2>3. Left(t)' \in Nat /\ Span(width[t])' \in Nat
    <3>1. /\ Span(width[t]) \in Nat \ {0} /\ width'[t] = width[t]
          /\ part'[t] \in Nat
      BY <1>1, RoundFacts DEF SortInv, ThreadInv, Merging
    <3>2. Left(t)' = part'[t] * 2 * Span(width[t]) /\ Span(width[t])' = Span(width[t])
      BY <3>1 DEF Left, Span
    <3> HIDE DEF Span
    <3> QED BY <3>1, <3>2
  <2> DEFINE n == Span(width[t])'
             a == Left(t)'
  <2> HIDE DEF n, a
  <2>4. Merged(base', a, a + n, n, <<>>, 0, 0)
    <3>1. Len(<<>>) = 0 + 0 /\ 1..0 = {} /\ a + n \in Nat /\ a \in Nat
      BY <2>3 DEF a, n
    <3>2. Segment(base', a, 0) = {} /\ Segment(base', a + n, 0) = {}
      <4>1. a..(a + 0 - 1) = {} /\ (a + n)..(a + n + 0 - 1) = {}
        BY <3>1
      <4> QED BY <4>1 DEF Segment
    <3>3. Len(<<>>) = 0
      BY <3>1
    <3>4. {<<>>[p] : p \in 1..0} = {}
      BY <3>1
    <3> QED BY <3>1, <3>2, <3>3, <3>4 DEF Merged
  <2>5. Len(tmp'[t]) - l'[t] = 0
    BY <2>2
  <2> QED BY <2>2, <2>4, <2>5 DEF MergeLoop, a, n
<1>9. ASSUME NEW u \in Threads
      PROVE  Records(u)'
  <2>1. PICK n : n = Span(width[u])
    OBVIOUS
  <2>2. ASSUME NEW p \in 0..(NumPairs(width[u]) - 1)
        PROVE  PairInv(p, n)'
    <3>1. PairInv(p, n) /\ n \in Nat \ {0} /\ p \in Nat
      BY <1>1, <1>2, <2>1, PairsHold
    <3>2. \A v \in Threads :
            at[v] \in AtPair /\ part[v] = p => at'[v] \in AtPair /\ part'[v] = p
      BY <1>1, <1>4 DEF AtPair
    <3>3. p \in mergeMap' => \/ p \in mergeMap
                             \/ \E v \in Threads : at'[v] \in AtPair /\ part'[v] = p
      BY <1>5 DEF AtPair
    <3> QED BY <1>1, <1>7, <3>1, <3>2, <3>3, PairKeep
  <2>3. ASSUME u # t, at'[u] = "merge" /\ Writers(part[u])' = {}
        PROVE  MergeLoop(u)'
    <3>1. at[u] = "merge" /\ Writers(part[u]) = {}
      BY <1>4, <1>7, <2>3
    <3>2. MergeLoop(u)
      BY <1>1, <3>1 DEF SortInv, RecordInv, Records
    <3> QED BY <1>1, <1>4, <2>3, <3>2 DEF MergeLoop, Left, Span
  <2>4. ASSUME at'[u] = "write"
        PROVE  MergeWrite(u)'
    <3>1. u # t /\ at[u] = "write"
      BY <1>4, <1>5, <2>4
    <3>2. MergeWrite(u)
      BY <1>1, <3>1 DEF SortInv, RecordInv, Records
    <3> QED BY <1>1, <1>4, <3>1, <3>2 DEF MergeWrite, Left, Span, Total
  <2> QED BY <1>1, <1>6, <1>8, <2>1, <2>2, <2>3, <2>4, RoundRecords
<1> QED BY <1>9

\* Between two rounds no record moves.
LEMMA RecordRound ==
  ASSUME SortInv, NEW t \in Threads, Round(t) \/ NextRound(t), ~raced', ThreadInv'
  PROVE  \A u \in Threads : Records(u)'
<1>1. /\ at[t] \in {"round", "next"} /\ at'[t] \in {"round", "sync3", "end"}
      /\ \A u \in Threads \ {t} : at'[u] = at[u] /\ width'[u] = width[u]
      /\ UNCHANGED <<base, input>> /\ ~raced
  <2>1. /\ at \in [Threads -> Labels] /\ width \in [Threads -> Nat \ {0}]
    BY DEF SortInv, BlockInv, ThreadInv
  <2>2. CASE Round(t)
    BY <2>1, <2>2 DEF Round, JumpTo, history
  <2>3. CASE NextRound(t)
    BY <2>1, <2>3 DEF NextRound, JumpTo, shared, history
  <2> QED BY <2>2, <2>3
<1>2. RunWidth(t)' = RunWidth(t)
  <2>1. width \in [Threads -> Nat \ {0}] /\ at \in [Threads -> Labels]
    BY DEF SortInv, ThreadInv, BlockInv
  <2>2. CASE Round(t)
    BY <1>1, <2>1, <2>2 DEF Round, RunWidth, JumpTo
  <2>3. CASE NextRound(t)
    BY <1>1, <2>1, <2>3 DEF NextRound, RunWidth, JumpTo
  <2> QED BY <2>2, <2>3
<1>3. \A u \in Threads : at[u] \in Between
  BY <1>1 DEF SortInv, BlockInv, Together, Sorting, Between, Merging
<1>4. ASSUME NEW u \in Threads
      PROVE  Records(u)'
  <2>1. at'[u] \in Between /\ RunWidth(u)' = RunWidth(u)
    BY <1>1, <1>2, <1>3 DEF Between, RunWidth
  <2>2. Records(u)
    BY <1>1 DEF SortInv, RecordInv
  <2>3. LET n == Span(RunWidth(u))
        IN  \A k \in 0..(Size \div n - 1) : InOrder(base, input, k * n, n)
    BY <1>3, <2>2 DEF Records
  <2>4. Span(RunWidth(u))' = Span(RunWidth(u))
    BY <2>1 DEF Span
  <2>5. at'[u] \notin {"sync1"} \cup Sorting \cup Merging
    BY <2>1 DEF Sorting, Between, Merging
  <2>6. (LET n == Span(RunWidth(u))
         IN  \A k \in 0..(Size \div n - 1) : InOrder(base, input, k * n, n))'
    BY <1>1, <2>3, <2>4
  <2> QED BY <2>5, <2>6 DEF Records, Merging
<1> QED BY <1>4

\* A barrier opens: what every thread has done in its phase is what all of them
\* find in the next.
LEMMA RecordBarrier ==
  ASSUME SortInv, Barrier, ~raced', BlockInv'
  PROVE  \A u \in Threads : Records(u)'
<1>1. PICK lab \in {"sync1", "sync2", "sync3", "sync4"} :
        \A u \in Threads : at[u] = lab /\ at'[u] = Behind[lab]
  BY BarrierFacts DEF SortInv
<1>2. UNCHANGED <<base, mergeMap, width, part, tmp, l, written, input, sorts>> /\ ~raced
  BY DEF Barrier, shared, history
<1>3. ASSUME NEW u \in Threads
      PROVE  Records(u) /\ width[u] \in Nat \ {0} /\ Locals(u)
  BY <1>2 DEF SortInv, RecordInv, ThreadInv
<1>4. Per \in Nat \ {0} /\ Blocks \in Nat \ {0} /\ 0 \in Threads
  BY ConstantFacts
<1>5. ASSUME NEW u \in Threads, lab = "sync1"
      PROVE  Records(u)'
  <2>1. at'[u] = "qsort" /\ at[u] = "sync1"
    BY <1>1, <1>5 DEF Behind
  <2>2. base = input /\ \A b \in AllBlocks : sorts[b] = 0
    BY <1>3, <2>1 DEF Records, SortInv, BlockInv
  <2> QED BY <1>2, <2>1, <2>2 DEF Records, Sorting, Between, Merging
<1>6. ASSUME NEW u \in Threads, lab = "sync2"
      PROVE  Records(u)'
  <2>1. at'[u] = "round" /\ at[u] = "sync2"
    BY <1>1, <1>6 DEF Behind
  <2>2. width[u] = 1 /\ RunWidth(u)' = 1
    BY <1>2, <1>3, <2>1 DEF Locals, Sorting, RunWidth
  <2>3. Span(RunWidth(u))' = Per
    BY <1>4, <2>2 DEF Span
  <2>4. \A b \in AllBlocks : sorts[b] = 1
    BY <1>2, <2>1 DEF BlockInv, Between
  <2>5. \A b \in AllBlocks : InOrder(base, input, b * Per, Per)
    BY <1>3, <2>1, <2>4 DEF Records, Sorting
  <2>6. Size \div Per = Blocks
    BY <1>4 DEF Size
  <2>7. \A k \in 0..(Size \div Per - 1) : InOrder(base', input', k * Per, Per)
    BY <1>2, <2>5, <2>6 DEF AllBlocks
  <2> QED BY <1>4, <2>1, <2>3, <2>7 DEF Records, Sorting, Between, Merging
<1>7. ASSUME NEW u \in Threads, lab = "sync3"
      PROVE  Records(u)'
  <2>1. at'[u] = "own" /\ at[u] = "sync3" /\ at[0] = "sync3"
    BY <1>1, <1>4, <1>7 DEF Behind
  <2>2. mergeMap = {}
    BY <2>1 DEF SortInv, ThreadInv
  <2>3. PICK n : n = Span(width[u])
    OBVIOUS
  <2> DEFINE P == NumPairs(width[u])
  <2>4. n \in Nat \ {0} /\ P \in 1..Blocks /\ Size = P * (2 * n)
    BY <2>1, <2>3, RoundFacts DEF SortInv
  <2>5. \A k \in 0..(Size \div n - 1) : InOrder(base, input, k * n, n)
    BY <1>3, <2>1, <2>3 DEF Records, Between, RunWidth
  <2>6. Size \div n = 2 * P
    <3> HIDE DEF P
    <3>1. Size = (2 * P) * n
      BY <2>4
    <3> QED BY <2>4, <3>1
  <2>7. ASSUME NEW p \in 0..(P - 1)
        PROVE  PairInv(p, n)'
    <3>1. p \in Nat /\ 2 * p \in 0..(2 * P - 1) /\ 2 * p + 1 \in 0..(2 * P - 1)
          /\ (2 * p) * n = p * 2 * n /\ (2 * p + 1) * n = p * 2 * n + n
      BY <2>4
    <3>2. InOrder(base, input, p * 2 * n, n) /\ InOrder(base, input, p * 2 * n + n, n)
      BY <2>5, <2>6, <3>1
    <3>3. PairReady(p, n)'
      BY <1>2, <3>2 DEF PairReady
    <3> QED BY <1>2, <2>2, <3>3 DEF PairInv
  <2> QED BY <1>2, <2>1, <2>3, <2>7, RoundRecords DEF Merging
<1>8. ASSUME NEW u \in Threads, lab = "sync4"
      PROVE  Records(u)'
  <2>1. at'[u] = "next" /\ \A v \in Threads : at[v] = "sync4"
    BY <1>1, <1>8 DEF Behind
  <2>2. PICK n : n = Span(width[u])
    OBVIOUS
  <2> DEFINE P == NumPairs(width[u])
  <2>3. n \in Nat \ {0} /\ P \in 1..Blocks /\ Size = P * (2 * n)
    BY <2>1, <2>2, RoundFacts DEF SortInv, Merging
  <2>4. ASSUME NEW p \in 0..(P - 1)
        PROVE  InOrder(base, input, p * (2 * n), 2 * n)
    <3>1. PairInv(p, n) /\ p \in Nat
      BY <1>2, <2>1, <2>2, PairsHold DEF Merging
    <3>2. p \in mergeMap
      BY <1>3, <2>1 DEF Locals
    <3>3. PairDone(p, n)
      BY <2>1, <3>1, <3>2 DEF PairInv, AtPair
    <3>4. p * 2 * n = p * (2 * n)
      BY <2>3, <3>1
    <3> QED BY <3>3, <3>4 DEF PairDone
  <2>5. Span(RunWidth(u))' = 2 * n
    <3>1. RunWidth(u)' = 2 * width[u]
      BY <1>2, <2>1 DEF RunWidth
    <3>2. n = width[u] * Per
      BY <2>2 DEF Span
    <3>3. Span(RunWidth(u))' = (2 * width[u]) * Per
      BY <3>1 DEF Span
    <3> QED BY <1>3, <1>4, <3>2, <3>3
  <2>6. Size \div (2 * n) = P
    <3> HIDE DEF P
    <3> QED BY <2>3
  <2> HIDE DEF P
  <2>7. \A k \in 0..(Size \div (2 * n) - 1) : InOrder(base', input', k * (2 * n), 2 * n)
    BY <1>2, <2>4, <2>6
  <2> QED BY <2>1, <2>5, <2>7 DEF Records, Sorting, Between, Merging
<1> QED BY <1>5, <1>6, <1>7, <1>8

\* qsort orders the records of its block, which are still those of the input,
\* and leaves all others alone.
LEMMA QsortFacts ==
  ASSUME SortInv, NEW t \in Working, QsortBlock(t, Job(t))
  PROVE  LET b == Job(t)
         IN  /\ b \in AllBlocks /\ sorts[b] = 0 /\ b * Per \in Nat
             /\ b * Per + Per <= Size
             /\ base' \in [Places -> Nat]
             /\ InOrder(base', input, b * Per, Per)
             /\ \A i \in Places : \/ i \in (b * Per)..(b * Per + Per - 1)
                                  \/ base'[i] = base[i]
             /\ sorts' = [sorts EXCEPT ![b] = 1]
<1> DEFINE b == Job(t)
           lo == b * Per
<1>1. /\ t \in Threads /\ at[t] \in Sorting
      /\ b \in blockMap /\ b \in AllBlocks /\ sorts[b] = 0
  BY DEF SortInv, BlockInv, Working, Sorting
<1>2. lo \in Nat /\ lo + Per <= Size
  <2>1. b \in Nat /\ b < Blocks /\ Per \in Nat /\ Blocks \in Nat
    BY <1>1, ConstantFacts DEF AllBlocks
  <2> HIDE DEF b
  <2> QED BY <2>1, Product DEF Size
<1>3. Records(t) /\ ~raced
  BY <1>1 DEF SortInv, ThreadInv, RecordInv
<1>4. \A i \in lo..(lo + Per - 1) : base[i] = input[i]
  BY <1>1, <1>3 DEF Records
<1>5. /\ base \in [Places -> Nat] /\ input \in [Places -> Nat]
      /\ \A i, j \in Places : input[i] = input[j] => i = j
  BY DEF SortInv, ThreadInv
<1>6. /\ base' = Sorted(base, lo, Per)
      /\ sorts' = [sorts EXCEPT ![b] = 1]
  <2>1. Per * b = lo /\ sorts[b] + 1 = 1
    BY <1>1, ConstantFacts DEF AllBlocks
  <2> HIDE DEF lo, b
  <2>2. base' = Sorted(base, lo, Per) /\ sorts' = [sorts EXCEPT ![b] = @ + 1]
    BY <2>1 DEF QsortBlock, b
  <2> QED BY <2>1, <2>2
<1> HIDE DEF lo, b
<1>7. InOrder(base', input, lo, Per)
  BY <1>2, <1>4, <1>5, <1>6, ConstantFacts, SortedSame
<1>8. DOMAIN base' = Places /\ \A i \in Places \ (lo..(lo + Per - 1)) : base'[i] = base[i]
  BY <1>5, <1>6 DEF Sorted
<1>9. ASSUME NEW i \in lo..(lo + Per - 1)
      PROVE  base'[i] \in Nat
  <2>1. NatsAt(base, lo, Per) /\ \A x \in lo..(lo + Per - 1) : x \in Places
    BY <1>2, <1>5, ConstantFacts, PlacesIn
  <2>2. \A x, y \in lo..(lo + Per - 1) : base[x] = base[y] => x = y
    BY <1>4, <1>5, <2>1
  <2>3. Segment(base', lo, Per) = Segment(base, lo, Per)
    BY <1>2, <1>6, <2>1, <2>2, ConstantFacts, SortedFacts
  <2>4. base'[i] \in Segment(base, lo, Per)
    BY <2>3 DEF Segment
  <2> QED BY <2>1, <2>4 DEF Segment, NatsAt
<1>10. base' \in [Places -> Nat]
  <2>1. \A i \in Places : base'[i] \in Nat
    BY <1>5, <1>8, <1>9
  <2>2. base' = [i \in Places |-> base'[i]]
    BY <1>6, <1>8 DEF Sorted
  <2> QED BY <2>1, <2>2
<1> QED BY <1>1, <1>2, <1>6, <1>7, <1>8, <1>10 DEF lo, b

\* A block is sorted, and the others stay as they are.
LEMMA RecordQsort ==
  ASSUME SortInv, NEW t \in Working, QsortBlock(t, Job(t)), input' = input
  PROVE  \A u \in Threads : Records(u)'
<1> DEFINE b == Job(t)
<1>1. /\ b \in AllBlocks /\ sorts[b] = 0 /\ b * Per \in Nat
      /\ b * Per + Per <= Size
      /\ base' \in [Places -> Nat]
      /\ InOrder(base', input, b * Per, Per)
      /\ \A i \in Places : \/ i \in (b * Per)..(b * Per + Per - 1)
                           \/ base'[i] = base[i]
      /\ sorts' = [sorts EXCEPT ![b] = 1]
  BY QsortFacts
<1>2. t \in Threads /\ at[t] \in {"qsort", "sort"} /\ at' = [at EXCEPT ![t] = "take"]
      /\ at \in [Threads -> Labels] /\ sorts \in [AllBlocks -> 0..1]
  BY DEF Working, QsortBlock, JumpTo, SortInv, BlockInv
<1>3. \A u \in Threads : at[u] \in Sorting /\ at'[u] \in Sorting
  <2>1. \A u \in Threads : at[u] \in Sorting
    BY <1>2 DEF SortInv, BlockInv, Together, Sorting, Between, Merging
  <2> QED BY <1>2, <2>1 DEF Sorting
<1>4. ~raced
  BY <1>2 DEF SortInv, ThreadInv, Sorting
<1> HIDE DEF b
<1>5. ASSUME NEW c \in AllBlocks
      PROVE  /\ sorts'[c] = 1 => InOrder(base', input', c * Per, Per)
             /\ sorts'[c] = 0 =>
                  \A i \in (c * Per)..(c * Per + Per - 1) : base'[i] = input'[i]
  <2>1. CASE c = b
    BY <1>1, <1>2, <2>1
  <2>2. CASE c # b
    <3>1. sorts'[c] = sorts[c]
      BY <1>1, <1>2, <2>2
    <3>2. \A i \in (c * Per)..(c * Per + Per - 1) : base'[i] = base[i]
      <4> DEFINE lo == c * Per
                 bo == b * Per
      <4>1. c \in Nat /\ b \in Nat /\ (c < b \/ b < c) /\ c < Blocks
            /\ Per \in Nat /\ Blocks \in Nat
        BY <1>1, <2>2, ConstantFacts DEF AllBlocks
      <4>2. lo \in Nat /\ lo + Per <= Blocks * Per /\ (lo + Per <= bo \/ bo + Per <= lo)
        BY <4>1, Product
      <4>3. bo \in Nat /\ \A i \in Places : i \in bo..(bo + Per - 1) \/ base'[i] = base[i]
        BY <1>1
      <4>4. Size \in Nat /\ Size = Blocks * Per
        BY ChunkFacts DEF SortInv, Size
      <4> HIDE DEF lo, bo
      <4>5. ASSUME NEW i \in lo..(lo + Per - 1)
            PROVE  base'[i] = base[i]
        <5>1. i \in Places
          BY <4>1, <4>2, <4>4 DEF Places
        <5>2. i \notin bo..(bo + Per - 1)
          BY <4>1, <4>2, <4>3
        <5> QED BY <4>3, <5>1, <5>2
      <4> QED BY <4>5 DEF lo
    <3>3. /\ sorts[c] = 1 => InOrder(base, input, c * Per, Per)
          /\ sorts[c] = 0 =>
               \A i \in (c * Per)..(c * Per + Per - 1) : base[i] = input[i]
      BY <1>2, <1>3, <1>4 DEF SortInv, RecordInv, Records
    <3>4. InOrder(base, input, c * Per, Per) => InOrder(base', input', c * Per, Per)
      BY <3>2 DEF InOrder
    <3> QED BY <3>1, <3>2, <3>3, <3>4
  <2> QED BY <2>1, <2>2
<1>6. \A u \in Threads : at'[u] \notin {"sync1"} \cup Between \cup Merging
  BY <1>3 DEF Sorting, Between, Merging
<1> QED BY <1>5, <1>6 DEF Records, Merging

\* The sorting phase keeps RecordInv.
LEMMA RecordSort ==
  ASSUME SortInv, NEW t \in Threads, SortOwn(t) \/ TakeBlock(t) \/ SortTaken(t)
  PROVE  base' \in [Places -> Nat] /\ \A u \in Threads : Records(u)'
<1>1. CASE SortOwn(t) \/ SortTaken(t)
  <2>1. /\ t \in Working /\ QsortBlock(t, Job(t)) /\ input' = input
    BY <1>1 DEF SortOwn, SortTaken, Working, Job
  <2> QED BY <2>1, QsortFacts, RecordQsort
<1>2. CASE TakeBlock(t)
  <2>1. /\ at[t] = "take" /\ UNCHANGED <<base, input, sorts>>
        /\ at \in [Threads -> Labels]
    BY <1>2 DEF TakeBlock, history, SortInv, BlockInv
  <2>2. \/ at' = [at EXCEPT ![t] = "sort"]
        \/ at' = [at EXCEPT ![t] = "sync2"]
    BY <1>2 DEF TakeBlock, JumpTo
  <2>3. \A u \in Threads : at[u] \in Sorting /\ at'[u] \in Sorting
    <3>1. \A u \in Threads : at[u] \in Sorting
      BY <2>1 DEF SortInv, BlockInv, Together, Sorting, Between, Merging
    <3> QED BY <2>1, <2>2, <3>1 DEF Sorting
  <2>4. ~raced /\ base \in [Places -> Nat]
    BY <2>1 DEF SortInv, ThreadInv, Sorting
  <2>5. ASSUME NEW u \in Threads
        PROVE  Records(u)'
    <3>1. Records(u)
      BY <2>4 DEF SortInv, RecordInv
    <3>2. \A b \in AllBlocks :
            /\ sorts[b] = 1 => InOrder(base, input, b * Per, Per)
            /\ sorts[b] = 0 =>
                 \A i \in (b * Per)..(b * Per + Per - 1) : base[i] = input[i]
      BY <2>3, <3>1 DEF Records
    <3>3. at'[u] \notin {"sync1"} \cup Between \cup Merging
      BY <2>3 DEF Sorting, Between, Merging
    <3> QED BY <2>1, <3>2, <3>3 DEF Records, Merging
  <2> QED BY <2>1, <2>4, <2>5
<1> QED BY <1>1, <1>2

-----------------------------------------------------------------------------
(***************************************************************************)
(* The invariant.                                                           *)
(***************************************************************************)

\* The invariant holds before the first chunk.
LEMMA SortStart ==
  ASSUME SortInit
  PROVE  SortInv
<1>1. BlockInv
  BY BlockStart
<1>2. \A t \in Threads : at[t] = "off" /\ width[t] = 1 /\ part[t] = 0
                         /\ tmp[t] = <<>> /\ l[t] = 0 /\ written[t] = 0
  BY DEF SortInit
<1>3. ThreadInv
  <2>1. \A t \in Threads : Locals(t) /\ RunWidth(t) = 1
    <3>1. Blocks \in 1..Blocks /\ Blocks = 1 * Blocks
      BY ConstantFacts
    <3> QED BY <1>2, <3>1 DEF Locals, RunWidth, Sorting, Between, Merging, AtPair
  <2>2. /\ base \in [Places -> Nat] /\ input \in [Places -> Nat]
        /\ \A i, j \in Places : input[i] = input[j] => i = j
    BY InputFacts DEF SortInit
  <2>3. /\ width \in [Threads -> Nat \ {0}] /\ part \in [Threads -> Nat]
        /\ l \in [Threads -> Nat] /\ written \in [Threads -> Nat]
    BY DEF SortInit
  <2>4. tmp \in [Threads -> Seq(Nat)]
    <3>1. <<>> \in Seq(Nat)
      OBVIOUS
    <3> QED BY <3>1 DEF SortInit
  <2>5. raced = FALSE /\ \A t \in Threads : at[t] \notin {"sync1"} \cup Sorting
    BY <1>2 DEF SortInit, Sorting
  <2>6. at[0] # "sync3"
    BY <1>2, ConstantFacts
  <2> QED BY <2>1, <2>2, <2>3, <2>4, <2>5, <2>6 DEF ThreadInv
<1>4. RecordInv
  BY <1>2 DEF RecordInv, Records, Sorting, Between, Merging
<1> QED BY <1>1, <1>3, <1>4 DEF SortInv

\* A step of a thread keeps the invariant.
LEMMA SortWorker ==
  ASSUME SortInv, NEW t \in Threads, Worker(t)
  PROVE  SortInv'
<1>1. BlockInv /\ ThreadInv /\ part \in [Threads -> Nat]
  BY DEF SortInv, ThreadInv
<1>2. BlockInv'
  BY <1>1, BlockWorker
<1>3. CASE SortOwn(t) \/ TakeBlock(t) \/ SortTaken(t)
  <2>1. base' \in [Places -> Nat] /\ \A u \in Threads : Records(u)'
    BY <1>3, RecordSort
  <2>2. ThreadInv'
    BY <1>1, <1>3, <2>1, LocalSorting
  <2> QED BY <1>2, <2>1, <2>2 DEF SortInv, RecordInv
<1>4. CASE Round(t)
  <2>1. ThreadInv'
    BY <1>1, <1>4, LocalRound
  <2>2. ~raced' => \A u \in Threads : Records(u)'
    BY <1>4, <2>1, RecordRound
  <2> QED BY <1>2, <2>1, <2>2 DEF SortInv, RecordInv
<1>5. CASE MergeOwn(t) \/ TakePair(t)
  <2>1. ThreadInv'
    BY <1>1, <1>5, LocalTaken
  <2>2. ~raced' => \A u \in Threads : Records(u)'
    BY <1>5, <2>1, RecordTaken
  <2> QED BY <1>2, <2>1, <2>2 DEF SortInv, RecordInv
<1>6. CASE MergeStep(t)
  <2>1. ThreadInv'
    BY <1>1, <1>6, LocalMerge
  <2>2. ~raced' => \A u \in Threads : Records(u)'
    BY <1>6, <2>1, RecordMerge
  <2> QED BY <1>2, <2>1, <2>2 DEF SortInv, RecordInv
<1>7. CASE WriteBack(t)
  <2>1. ThreadInv'
    BY <1>1, <1>7, LocalWrite
  <2>2. ~raced' => \A u \in Threads : Records(u)'
    BY <1>7, <2>1, RecordWrite
  <2> QED BY <1>2, <2>1, <2>2 DEF SortInv, RecordInv
<1>8. CASE NextRound(t)
  <2>1. ThreadInv'
    BY <1>1, <1>8, LocalNext
  <2>2. ~raced' => \A u \in Threads : Records(u)'
    BY <1>8, <2>1, RecordRound
  <2> QED BY <1>2, <2>1, <2>2 DEF SortInv, RecordInv
<1> QED BY <1>3, <1>4, <1>5, <1>6, <1>7, <1>8 DEF Worker

\* A step of main keeps it.
LEMMA SortMain ==
  ASSUME SortInv, MapChunk \/ UnmapChunk
  PROVE  SortInv'
<1>1. BlockInv' /\ ThreadInv'
  BY BlockChunk, LocalMain DEF SortInv
<1>2. CASE MapChunk
  <2>1. \A t \in Threads : at'[t] = "sync1" /\ base' = input'
    BY <1>2 DEF MapChunk
  <2> QED BY <1>1, <2>1
          DEF SortInv, RecordInv, Records, Sorting, Between, Merging
<1>3. CASE UnmapChunk
  <2>1. \A t \in Threads : at'[t] = "off"
    BY <1>3 DEF UnmapChunk
  <2> QED BY <1>1, <2>1
          DEF SortInv, RecordInv, Records, Sorting, Between, Merging
<1> QED BY <1>2, <1>3

\* Steps that change nothing keep it.
LEMMA SortStutter ==
  ASSUME SortInv, UNCHANGED sortVars
  PROVE  SortInv'
<1>1. UNCHANGED <<base, mergeMap, at, width, part, tmp, l, written, input, sorts, raced>>
  BY DEF sortVars, shared, locals, history
<1>2. BlockInv'
  BY BlockStep DEF SortInv, ThreadInv
<1>3. ThreadInv'
  BY <1>1 DEF SortInv, ThreadInv, Locals, RunWidth, Span, NumPairs
<1>4. RecordInv'
  BY <1>1 DEF SortInv, RecordInv, Records, RunWidth, Span, NumPairs, PairInv,
              PairReady, PairDone, Writers, MergeLoop, MergeWrite, Left, Total
<1> QED BY <1>2, <1>3, <1>4 DEF SortInv

\* The inductive invariant of sort_index: what the maps, the barriers and the
\* loops of do_merge keep up between them (sort_index.c 175-270).
THEOREM SortInductive == SortSpec => []SortInv
<1>1. SortInit => SortInv
  BY SortStart
<1>2. SortInv /\ [SortNext]_sortVars => SortInv'
  <2> SUFFICES ASSUME SortInv, [SortNext]_sortVars
               PROVE  SortInv'
    OBVIOUS
  <2>1. CASE MapChunk \/ UnmapChunk
    BY <2>1, SortMain
  <2>2. CASE Barrier
    <3>1. BlockInv' /\ ThreadInv'
      BY <2>2, BlockBarrier, LocalBarrier DEF SortInv
    <3>2. ~raced' => \A u \in Threads : Records(u)'
      BY <2>2, <3>1, RecordBarrier
    <3> QED BY <3>1, <3>2 DEF SortInv, RecordInv
  <2>3. CASE Terminated \/ UNCHANGED sortVars
    BY <2>3, SortStutter DEF Terminated
  <2>4. CASE \E t \in Threads : Worker(t)
    BY <2>4, SortWorker
  <2> QED BY <2>1, <2>2, <2>3, <2>4 DEF SortNext
<1> QED BY <1>1, <1>2, PTL DEF SortSpec

\* No block is sorted twice, and none is left out (sort_index.c 188-205).
THEOREM BlocksSortedOnceHolds == SortSpec => []BlocksSortedOnce
<1>1. SortInv => BlocksSortedOnce
  BY DEF SortInv, BlockInv, BlocksSortedOnce, AllBlocks, Between
<1> QED BY <1>1, SortInductive, PTL

\* Every round leaves sorted runs, and the last one a sorted chunk, whichever
\* threads merged a pair, as long as no memcpy met a reader of the pair
\* (sort_index.c 209-237, 252-270).
THEOREM SortedUnlessRacedHolds == SortSpec => []SortedUnlessRaced
<1>1. SortInv => SortedUnlessRaced
  <2> SUFFICES ASSUME SortInv, ~raced, NEW t \in Threads,
                      at[t] \in {"round", "sync3", "end"}
               PROVE  LET n == Span(width[t])
                      IN  \A k \in 0..(Size \div n - 1) : InOrder(base, input, k * n, n)
    BY DEF SortedUnlessRaced, InOrder
  <2>1. Records(t) /\ at[t] \in Between /\ RunWidth(t) = width[t]
    BY DEF SortInv, RecordInv, Between, RunWidth
  <2> QED BY <2>1 DEF Records
<1> QED BY <1>1, SortInductive, PTL

=============================================================================
