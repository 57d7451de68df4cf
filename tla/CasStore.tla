------------------------------ MODULE CasStore ------------------------------
(***************************************************************************)
(* What the editors of the record file promise each other: a set of         *)
(* registers with compare-and-set and read.  A client may believe anything  *)
(* about a register (it looks without a lock), but it changes a register    *)
(* only while the register still holds what the client believes, and what   *)
(* a client is shown is what the register holds.                            *)
(***************************************************************************)
CONSTANTS Client, Register, Value, Nothing

VARIABLES store,   \* the registers
          base,    \* base[p]: what p believes the register to hold
          shown    \* shown[p]: what p's read returned, Nothing outside a read

vars == <<store, base, shown>>

Init == /\ store \in [Register -> Value]
        /\ base \in [Client -> Value \cup {Nothing}]
        /\ shown = [p \in Client |-> Nothing]

Look(p) == /\ \E v \in Value \cup {Nothing} : base' = [base EXCEPT ![p] = v]
           /\ UNCHANGED <<store, shown>>

CompareAndSet(p, r, v) ==
  /\ store[r] = base[p]
  /\ store' = [store EXCEPT ![r] = v]
  /\ UNCHANGED <<base, shown>>

Read(p, r) == /\ shown' = [shown EXCEPT ![p] = store[r]]
              /\ UNCHANGED <<store, base>>

Forget(p) == /\ shown' = [shown EXCEPT ![p] = Nothing]
             /\ UNCHANGED <<store, base>>

Next == \E p \in Client :
          \/ Look(p)
          \/ Forget(p)
          \/ \E r \in Register : Read(p, r)
          \/ \E r \in Register, v \in Value : CompareAndSet(p, r, v)

Spec == Init /\ [][Next]_vars

=============================================================================
