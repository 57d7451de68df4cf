-------------------------- MODULE SupervisorProofs --------------------------
(***************************************************************************)
(* Proofs about the process supervisor of lab03, for every finite set of    *)
(* process numbers: the table fits in its array, and the parent keeps track *)
(* of its children until a SIGCHLD comes in the middle of CreateChild or    *)
(* DeleteLastChild.                                                         *)
(***************************************************************************)
EXTENDS Supervisor, FiniteSetTheorems, TLAPS

-----------------------------------------------------------------------------
(***************************************************************************)
(* The inductive invariants.                                                *)
(***************************************************************************)

\* The process numbers that fork has returned.
Created == {c \in Pid : life[c] # "none"}

\* CreateChild has called fork and not yet counted the child.
Creating == mpc \in {"forked", "entered", "inc"}

\* The table has no more entries than fork has returned children, one less
\* while CreateChild has yet to count its child; so has what was loaded of it.
CountInv ==
  /\ Creating => /\ child \in Created
                 /\ size + 1 <= Cardinality(Created)
  /\ mpc # "wild" => size <= Cardinality(Created)
  /\ mpc = "inc" => tmp + 1 <= Cardinality(Created)
  /\ mpc = "dec" => tmp <= Cardinality(Created)

\* A child that the parent has not collected.
Uncollected(c) == c \in Pid /\ life[c] \in {"start", "loop", "ask", "zombie"}

\* A child that runs and has not been told to end.
Wanted(c) == c \in Alive /\ "term" \notin sig[c]

InTable(c) == \E i \in 0..(size - 1) : arr[i] = c

\* The table lists children that have not been collected, each once, and all
\* that are wanted, but for the one that CreateChild has yet to count.  Behind
\* the last entry lies the child that will be counted; the last entry is a
\* child that was told to end when DeleteLastChild is about to drop it.
TableInv ==
  /\ mpc # "wild"
  /\ \A i, j \in 0..(size - 1) : arr[i] = arr[j] => i = j
  /\ \A i \in 0..(size - 1) : Uncollected(arr[i])
  /\ \A c \in Pid : Wanted(c) => InTable(c) \/ (Creating /\ c = child)
  /\ Creating => Uncollected(child) /\ ~InTable(child)
  /\ mpc \in {"entered", "inc"} => arr[size] = child
  /\ mpc \in {"inc", "dec"} => tmp = size
  /\ mpc \in {"killed", "dec"} => size # 0 /\ ~Wanted(arr[size - 1])

TrackInv == ~raced => TableInv

IndInv == TypeOK /\ CountInv /\ TrackInv

-----------------------------------------------------------------------------
(***************************************************************************)
(* The number of children.                                                  *)
(***************************************************************************)

\* There are no more children than process numbers.
LEMMA CreatedFacts ==
  /\ IsFiniteSet(Created) /\ Created \subseteq Pid
  /\ Cardinality(Created) \in Nat /\ Cardinality(Pid) \in Nat
  /\ Cardinality(Created) <= Cardinality(Pid)
<1>1. Created \subseteq Pid
  BY DEF Created
<1>2. IsFiniteSet(Created) /\ Cardinality(Created) <= Cardinality(Pid)
  BY <1>1, FS_Subset, SupervisorAssumption
<1>3. Cardinality(Created) \in Nat /\ Cardinality(Pid) \in Nat
  BY <1>2, FS_CardinalityType, SupervisorAssumption
<1> QED BY <1>1, <1>2, <1>3

\* fork returns a number it has not returned before.
LEMMA ForkCounts ==
  ASSUME TypeOK, NEW c \in Pid, life[c] = "none",
         life' = [life EXCEPT ![c] = "start"]
  PROVE  /\ Created' = Created \cup {c}
         /\ Cardinality(Created') = Cardinality(Created) + 1
<1>1. Created' = Created \cup {c} /\ c \notin Created
  BY DEF TypeOK, Created
<1>2. Cardinality(Created \cup {c}) = Cardinality(Created) + 1
  BY <1>1, CreatedFacts, FS_AddElement
<1> QED BY <1>1, <1>2

\* Nothing else makes or unmakes a child.
LEMMA SameCreated ==
  ASSUME \A c \in Pid : life[c] = "none" <=> life'[c] = "none"
  PROVE  Created' = Created
<1> QED BY DEF Created

\* Before the first command there is no child.
LEMMA InitInv == Init => IndInv
<1> SUFFICES ASSUME Init PROVE IndInv
  OBVIOUS
<1>1. Cardinality(Pid) \in Nat /\ Cardinality(Created) \in Nat
  BY CreatedFacts
<1>2. TypeOK
  <2>1. 0 \in 0..Cardinality(Pid)
    BY <1>1
  <2>2. size \in IF mpc = "wild" THEN {-1} ELSE 0..Cardinality(Pid)
    BY <2>1 DEF Init
  <2>3. sig \in [Pid -> SUBSET {"term", "usr1", "usr2"}]
    BY DEF Init
  <2> QED BY <2>1, <2>2, <2>3 DEF Init, TypeOK
<1>3. CountInv
  BY <1>1 DEF Init, CountInv, Creating
<1>4. 0..(size - 1) = {}
  BY DEF Init
<1>5. TrackInv
  BY <1>4 DEF Init, TrackInv, TableInv, Creating, Wanted, Alive
<1> QED BY <1>2, <1>3, <1>5 DEF IndInv

-----------------------------------------------------------------------------
(***************************************************************************)
(* Children.                                                                *)
(***************************************************************************)

\* A step that leaves the parent's variables alone, collects and creates
\* nobody, and cancels no request to end.
LEMMA ChildrenKeep ==
  ASSUME IndInv, TypeOK', UNCHANGED <<arr, size, mpc, tmp, child, raced>>,
         \A c \in Pid : /\ life[c] = "none" <=> life'[c] = "none"
                        /\ Uncollected(c) => Uncollected(c)'
                        /\ Wanted(c)' => Wanted(c)
  PROVE  IndInv'
<1>1. Created' = Created
  BY SameCreated
<1>2. CountInv'
  BY <1>1 DEF IndInv, CountInv, Creating
<1>3. TrackInv'
  <2>1. SUFFICES ASSUME ~raced PROVE TableInv'
    BY DEF TrackInv
  <2>2. TableInv
    BY <2>1 DEF IndInv, TrackInv
  <2>3. \A c : InTable(c)' <=> InTable(c)
    BY DEF InTable
  <2>4. Creating' <=> Creating
    BY DEF Creating
  <2>5. \A c : Wanted(c)' => Wanted(c)
    BY DEF Wanted, Alive
  <2>6. \A c : Uncollected(c) => Uncollected(c)'
    BY DEF Uncollected
  <2> QED BY <2>2, <2>3, <2>4, <2>5, <2>6 DEF TableInv
<1> QED BY <1>2, <1>3 DEF IndInv

\* A child's steps, its end among them.
LEMMA ChildKeeps ==
  ASSUME IndInv, NEW c \in Pid,
         ChildStep(c) \/ ChildAsk(c) \/ UsrSignHandler(c) \/ ChildEnd(c)
  PROVE  IndInv'
<1> USE DEF IndInv
<1>1. CASE ChildInit(c)
  BY <1>1, ChildrenKeep
     DEF TypeOK, ChildInit, childVars, Uncollected, Wanted, Alive
<1>2. CASE ChildLoop(c)
  BY <1>2, ChildrenKeep
     DEF TypeOK, ChildLoop, Uncollected, Wanted, Alive
<1>3. CASE ChildAnswered(c)
  BY <1>3, ChildrenKeep
     DEF TypeOK, ChildAnswered, Uncollected, Wanted, Alive
<1>4. CASE ChildAsk(c)
  BY <1>4, ChildrenKeep
     DEF TypeOK, ChildAsk, childVars, Uncollected, Wanted, Alive
<1>5. CASE UsrSignHandler(c)
  <2>1. PICK s \in sig[c] \ {"term"} :
          /\ canPrint' = [canPrint EXCEPT ![c] = (s = "usr2")]
          /\ received' = [received EXCEPT ![c] = TRUE]
          /\ sig' = [sig EXCEPT ![c] = @ \ {s}]
    BY <1>5 DEF UsrSignHandler
  <2>2. UNCHANGED <<arr, size, mpc, tmp, child, life, asking, raced>>
    BY <1>5 DEF UsrSignHandler
  <2>3. TypeOK'
    BY <2>1, <2>2 DEF TypeOK
  <2>4. \A k \in Pid : Wanted(k)' => Wanted(k)
    BY <2>1, <2>2 DEF TypeOK, Wanted, Alive
  <2> QED BY <2>2, <2>3, <2>4, ChildrenKeep DEF Uncollected
<1>6. CASE ChildEnd(c)
  BY <1>6, ChildrenKeep
     DEF TypeOK, ChildEnd, Uncollected, Wanted, Alive
<1> QED BY <1>1, <1>2, <1>3, <1>4, <1>5, <1>6 DEF ChildStep

\* Sending a signal never takes one away.
LEMMA SendType ==
  ASSUME TypeOK, NEW c, NEW s \in {"term", "usr1", "usr2"}
  PROVE  /\ Send(c, s) \in [Pid -> SUBSET {"term", "usr1", "usr2"}]
         /\ \A k \in Pid : sig[k] \subseteq Send(c, s)[k]
         /\ c \in Alive => s \in Send(c, s)[c]
<1> QED BY DEF TypeOK, Send, Alive

\* The parent's answer and the user's 'g' and 's' are such steps.
LEMMA SignalKeeps ==
  ASSUME IndInv, HandleSignal \/ CmdSignal("usr1") \/ CmdSignal("usr2")
  PROVE  IndInv'
<1>1. PICK c : \E s \in {"usr1", "usr2"} : sig' = Send(c, s)
  BY DEF HandleSignal, CmdSignal
<1>2. /\ UNCHANGED <<arr, size, mpc, tmp, child, life, childVars, raced>>
      /\ asking' \in {asking, NoPid}
  BY DEF HandleSignal, CmdSignal
<1>3. /\ sig' \in [Pid -> SUBSET {"term", "usr1", "usr2"}]
      /\ \A k \in Pid : sig[k] \subseteq sig'[k]
  BY <1>1, SendType DEF IndInv
<1>4. TypeOK'
  BY <1>2, <1>3 DEF IndInv, TypeOK, childVars
<1>5. \A k \in Pid : Wanted(k)' => Wanted(k)
  BY <1>2, <1>3 DEF Wanted, Alive
<1> QED BY <1>2, <1>4, <1>5, ChildrenKeep DEF Uncollected

-----------------------------------------------------------------------------
(***************************************************************************)
(* The parent.                                                              *)
(***************************************************************************)

\* '+': fork
LEMMA CmdCreateKeeps ==
  ASSUME IndInv, CmdCreate
  PROVE  IndInv'
<1>1. PICK c \in Pid : /\ life[c] = "none"
                       /\ life' = [life EXCEPT ![c] = "start"]
                       /\ child' = c
  BY DEF CmdCreate
<1>2. /\ mpc = "cmd" /\ mpc' = "forked"
      /\ UNCHANGED <<arr, size, tmp, sig, canPrint, received, asking, raced>>
  BY DEF CmdCreate, childVars
<1>3. TypeOK'
  BY <1>1, <1>2 DEF IndInv, TypeOK
<1>4. CountInv'
  <2>1. Created' = Created \cup {c}
        /\ Cardinality(Created') = Cardinality(Created) + 1
    BY <1>1, ForkCounts DEF IndInv
  <2>2. size \in Nat /\ Cardinality(Created) \in Nat
        /\ size <= Cardinality(Created)
    BY <1>2, CreatedFacts DEF IndInv, TypeOK, CountInv
  <2> HIDE DEF IndInv
  <2>3. size' + 1 <= Cardinality(Created')
    BY <1>2, <2>1, <2>2
  <2>4. size' <= Cardinality(Created')
    BY <1>2, <2>1, <2>2
  <2> QED BY <1>1, <1>2, <2>1, <2>3, <2>4 DEF CountInv
<1>5. TrackInv'
  <2>1. SUFFICES ASSUME ~raced PROVE TableInv'
    BY <1>2 DEF TrackInv
  <2>2. TableInv
    BY <2>1 DEF IndInv, TrackInv
  <2>3. \A k : InTable(k)' <=> InTable(k)
    BY <1>2 DEF InTable
  <2>4. /\ \A k : Uncollected(k) => Uncollected(k)'
        /\ Uncollected(c)' /\ ~Uncollected(c)
    BY <1>1 DEF IndInv, TypeOK, Uncollected
  <2>5. \A k : Wanted(k)' => Wanted(k) \/ k = c
    BY <1>1, <1>2 DEF IndInv, TypeOK, Wanted, Alive
  <2>6. ~InTable(c)
    BY <2>2, <2>4 DEF TableInv, InTable
  <2>7. ~Creating /\ Creating'
    BY <1>2 DEF Creating
  <2> QED BY <1>1, <1>2, <2>2, <2>3, <2>4, <2>5, <2>6, <2>7 DEF TableInv
<1> QED BY <1>3, <1>4, <1>5 DEF IndInv

\* CreateChild: the entry
LEMMA CreateEntryKeeps ==
  ASSUME IndInv, CreateEntry
  PROVE  IndInv'
<1>1. /\ mpc = "forked" /\ mpc' = "entered"
      /\ arr' = [arr EXCEPT ![size] = child]
      /\ UNCHANGED <<size, tmp, child, life, sig, canPrint, received, asking,
                     raced>>
  BY DEF CreateEntry, childVars
<1>2. TypeOK'
  BY <1>1 DEF IndInv, TypeOK
<1>3. Created' = Created
  BY <1>1 DEF Created
<1>4. CountInv'
  BY <1>1, <1>3 DEF IndInv, CountInv, Creating
<1>5. size \in Nat /\ size \in Indices
  <2>1. size \in Nat /\ size + 1 <= Cardinality(Created)
    BY <1>1 DEF IndInv, TypeOK, CountInv, Creating
  <2> QED BY <2>1, CreatedFacts DEF Indices
<1>6. /\ arr'[size] = child
      /\ \A i \in 0..(size - 1) : arr'[i] = arr[i]
  BY <1>1, <1>5 DEF IndInv, TypeOK
<1>7. TrackInv'
  <2>1. SUFFICES ASSUME ~raced PROVE TableInv'
    BY <1>1 DEF TrackInv
  <2>2. TableInv
    BY <2>1 DEF IndInv, TrackInv
  <2>3. \A k : InTable(k)' <=> InTable(k)
    BY <1>1, <1>6 DEF InTable
  <2>4. \A k : /\ Uncollected(k)' <=> Uncollected(k)
               /\ Wanted(k)' <=> Wanted(k)
    BY <1>1 DEF Uncollected, Wanted, Alive
  <2>5. Creating /\ Creating'
    BY <1>1 DEF Creating
  <2> QED BY <1>1, <1>6, <2>2, <2>3, <2>4, <2>5 DEF TableInv
<1> QED BY <1>2, <1>4, <1>7 DEF IndInv

\* '-': kill
LEMMA CmdDeleteKeeps ==
  ASSUME IndInv, CmdDelete
  PROVE  IndInv'
<1>1. /\ mpc = "cmd" /\ mpc' = "killed" /\ size # 0
      /\ sig' = Send(arr[size - 1], "term")
      /\ UNCHANGED <<arr, size, tmp, child, life, canPrint, received, asking,
                     raced>>
  BY DEF CmdDelete, childVars
<1>2. /\ sig' \in [Pid -> SUBSET {"term", "usr1", "usr2"}]
      /\ \A k \in Pid : sig[k] \subseteq sig'[k]
      /\ arr[size - 1] \in Alive => "term" \in sig'[arr[size - 1]]
  BY <1>1, SendType DEF IndInv
<1>3. TypeOK'
  BY <1>1, <1>2 DEF IndInv, TypeOK
<1>4. Created' = Created
  BY <1>1 DEF Created
<1>5. CountInv'
  BY <1>1, <1>4 DEF IndInv, CountInv, Creating
<1>6. TrackInv'
  <2>1. SUFFICES ASSUME ~raced PROVE TableInv'
    BY <1>1 DEF TrackInv
  <2>2. TableInv
    BY <2>1 DEF IndInv, TrackInv
  <2>3. \A k : InTable(k)' <=> InTable(k)
    BY <1>1 DEF InTable
  <2>4. /\ \A k : Uncollected(k)' <=> Uncollected(k)
        /\ \A k : Wanted(k)' => Wanted(k)
    BY <1>1, <1>2 DEF Uncollected, Wanted, Alive
  <2>5. ~Wanted(arr[size - 1])'
    BY <1>1, <1>2 DEF Wanted, Alive
  <2>6. ~Creating /\ ~Creating'
    BY <1>1 DEF Creating
  <2> QED BY <1>1, <2>2, <2>3, <2>4, <2>5, <2>6 DEF TableInv
<1> QED BY <1>3, <1>5, <1>6 DEF IndInv

\* The load of size
LEMMA SizeLoadKeeps ==
  ASSUME IndInv, SizeLoad
  PROVE  IndInv'
<1>1. /\ mpc \in {"entered", "killed"} /\ tmp' = size
      /\ mpc' = IF mpc = "entered" THEN "inc" ELSE "dec"
      /\ UNCHANGED <<arr, size, child, life, sig, canPrint, received, asking,
                     raced>>
  BY DEF SizeLoad, childVars
<1>2. TypeOK'
  BY <1>1 DEF IndInv, TypeOK
<1>3. Created' = Created
  BY <1>1 DEF Created
<1>4. CountInv'
  BY <1>1, <1>3 DEF IndInv, CountInv, Creating
<1>5. TrackInv'
  <2>1. SUFFICES ASSUME ~raced PROVE TableInv'
    BY <1>1 DEF TrackInv
  <2>2. TableInv
    BY <2>1 DEF IndInv, TrackInv
  <2>3. \A k : /\ InTable(k)' <=> InTable(k)
               /\ Uncollected(k)' <=> Uncollected(k)
               /\ Wanted(k)' <=> Wanted(k)
    BY <1>1 DEF InTable, Uncollected, Wanted, Alive
  <2>4. Creating' <=> Creating
    BY <1>1 DEF Creating
  <2> QED BY <1>1, <2>2, <2>3, <2>4 DEF TableInv, Creating
<1> QED BY <1>2, <1>4, <1>5 DEF IndInv

\* The store of size
LEMMA SizeStoreKeeps ==
  ASSUME IndInv, SizeStore
  PROVE  IndInv'
<1>1. /\ mpc \in {"inc", "dec"}
      /\ size' = IF mpc = "inc" THEN tmp + 1 ELSE tmp - 1
      /\ mpc' = IF size' < 0 THEN "wild" ELSE "cmd"
      /\ tmp' = 0 /\ child' = NoPid
      /\ UNCHANGED <<arr, life, sig, canPrint, received, asking, raced>>
  BY DEF SizeStore, childVars
<1>2. Created' = Created
  BY <1>1 DEF Created
<1>3. tmp \in Nat /\ size' <= Cardinality(Created)
  BY <1>1, CreatedFacts DEF IndInv, TypeOK, CountInv
<1>4. IF size' < 0 THEN size' = -1 ELSE size' \in 0..Cardinality(Pid)
  BY <1>1, <1>3, CreatedFacts
<1>5. TypeOK'
  BY <1>1, <1>4, CreatedFacts DEF IndInv, TypeOK
<1>6. CountInv'
  BY <1>1, <1>2, <1>3 DEF CountInv, Creating
<1>7. TrackInv'
  <2>1. SUFFICES ASSUME ~raced PROVE TableInv'
    BY <1>1 DEF TrackInv
  <2>2. TableInv /\ tmp = size /\ size \in Nat
    BY <1>1, <1>3, <2>1 DEF IndInv, TrackInv, TableInv
  <2>3. \A k : /\ Uncollected(k)' <=> Uncollected(k)
               /\ Wanted(k)' <=> Wanted(k)
    BY <1>1 DEF Uncollected, Wanted, Alive
  <2>4. ~Creating'
    BY <1>1 DEF Creating
  <2>5. CASE mpc = "inc"
    <3>1. size' = size + 1 /\ mpc' = "cmd"
      BY <1>1, <2>2, <2>5
    <3>2. /\ Uncollected(child) /\ ~InTable(child) /\ arr[size] = child
          /\ \A c \in Pid : Wanted(c) => InTable(c) \/ c = child
      BY <2>2, <2>5 DEF TableInv, Creating
    <3>3. \A i \in 0..(size' - 1) : i \in 0..(size - 1) \/ i = size
      BY <2>2, <3>1
    <3>4. \A i, j \in 0..(size' - 1) : arr[i] = arr[j] => i = j
      BY <2>2, <3>2, <3>3 DEF TableInv, InTable
    <3>5. \A i \in 0..(size' - 1) : Uncollected(arr[i])
      BY <2>2, <3>2, <3>3 DEF TableInv
    <3>6. \A c : InTable(c) \/ c = child => InTable(c)'
      BY <1>1, <2>2, <3>1, <3>2 DEF InTable
    <3> QED BY <1>1, <2>3, <2>4, <3>1, <3>2, <3>4, <3>5, <3>6 DEF TableInv
  <2>6. CASE mpc = "dec"
    <3>1. size # 0 /\ ~Wanted(arr[size - 1])
      BY <2>2, <2>6 DEF TableInv
    <3>2. size' = size - 1 /\ size' \in Nat /\ mpc' = "cmd"
      BY <1>1, <2>2, <2>6, <3>1
    <3>3. \A i \in 0..(size' - 1) : i \in 0..(size - 1)
      BY <2>2, <3>2
    <3>4. \A i \in 0..(size - 1) : i \in 0..(size' - 1) \/ i = size - 1
      BY <2>2, <3>2
    <3>5. \A c \in Pid : Wanted(c) => InTable(c)'
      <4>1. SUFFICES ASSUME NEW c \in Pid, Wanted(c) PROVE InTable(c)'
        OBVIOUS
      <4>2. PICK i \in 0..(size - 1) : arr[i] = c
        BY <2>2, <2>6, <4>1 DEF TableInv, Creating, InTable
      <4>3. i \in 0..(size' - 1)
        BY <3>1, <3>4, <4>1, <4>2
      <4> QED BY <1>1, <4>2, <4>3 DEF InTable
    <3> QED BY <1>1, <2>2, <2>3, <2>4, <3>2, <3>3, <3>5 DEF TableInv
  <2> QED BY <1>1, <2>5, <2>6
<1> QED BY <1>5, <1>6, <1>7 DEF IndInv

\* 'k' and 'q'
LEMMA CmdDeleteAllKeeps ==
  ASSUME IndInv, CmdDeleteAll
  PROVE  IndInv'
<1>1. /\ mpc = "cmd" /\ mpc' \in {"cmd", "done"} /\ size' = 0
      /\ sig' = [c \in Pid |->
                   IF c \in Alive /\ \E i \in 0..(size - 1) : arr[i] = c
                     THEN sig[c] \cup {"term"} ELSE sig[c]]
      /\ UNCHANGED <<arr, tmp, child, life, canPrint, received, asking, raced>>
  BY DEF CmdDeleteAll, childVars
<1>2. sig' \in [Pid -> SUBSET {"term", "usr1", "usr2"}]
  BY <1>1 DEF IndInv, TypeOK
<1>3. TypeOK'
  BY <1>1, <1>2, CreatedFacts DEF IndInv, TypeOK
<1>4. Created' = Created
  BY <1>1 DEF Created
<1>5. CountInv'
  BY <1>1, <1>4, CreatedFacts DEF CountInv, Creating
<1>6. TrackInv'
  <2>1. SUFFICES ASSUME ~raced PROVE TableInv'
    BY <1>1 DEF TrackInv
  <2>2. \A c \in Pid : Wanted(c) => InTable(c)
    BY <1>1, <2>1 DEF IndInv, TrackInv, TableInv, Creating
  <2>3. \A c \in Pid : ~Wanted(c)'
    BY <1>1, <2>2 DEF Wanted, Alive, InTable
  <2>4. 0..(size' - 1) = {}
    BY <1>1
  <2> QED BY <1>1, <2>3, <2>4 DEF TableInv, Creating
<1> QED BY <1>3, <1>5, <1>6 DEF IndInv

-----------------------------------------------------------------------------
(***************************************************************************)
(* The SIGCHLD handler.                                                     *)
(***************************************************************************)

\* Closing a gap keeps the entries of the table what they are.
LEMMA CloseGapType ==
  ASSUME TypeOK, mpc # "wild", 0..(size - 1) # {}, NEW first
  PROVE  /\ size \in Nat /\ size - 1 \in Nat
         /\ CloseGap(first) \in [Indices -> Pid \cup {NoPid}]
         /\ \A i \in 0..(size - 2) :
              /\ i \in 0..(size - 1) /\ i + 1 \in 0..(size - 1)
              /\ CloseGap(first)[i] = IF first <= i THEN arr[i + 1] ELSE arr[i]
<1>1. /\ size \in 0..Cardinality(Pid) /\ Cardinality(Pid) \in Nat
      /\ arr \in [Indices -> Pid \cup {NoPid}]
  BY CreatedFacts DEF TypeOK
<1>2. size \in Nat /\ size - 1 \in Nat
  BY <1>1
<1>3. \A i \in 0..(size - 1) : i \in Indices
  BY <1>1 DEF Indices
<1>4. \A i \in Indices : i \in Nat
  BY DEF Indices
<1>5. \A i \in Nat : i < size - 1 => i + 1 \in 0..(size - 1)
  BY <1>2
<1>6. CloseGap(first) \in [Indices -> Pid \cup {NoPid}]
  BY <1>1, <1>3, <1>4, <1>5 DEF CloseGap
<1>7. \A i \in 0..(size - 2) :
        i \in Nat /\ i < size - 1 /\ i \in 0..(size - 1)
  BY <1>2
<1> QED BY <1>2, <1>3, <1>5, <1>6, <1>7 DEF CloseGap

\* The first entry of a child that is in the table.
LEMMA FirstEntry ==
  ASSUME TypeOK, mpc # "wild", TableInv, NEW c \in Pid, InTable(c)
  PROVE  LET found == {i \in 0..(size - 1) : arr[i] = c}
             first == CHOOSE i \in found : \A j \in found : i <= j
         IN  first \in 0..(size - 1) /\ arr[first] = c
<1> DEFINE found == {i \in 0..(size - 1) : arr[i] = c}
<1>1. PICK k \in 0..(size - 1) : arr[k] = c
  BY DEF InTable
<1>2. \A j \in found : k <= j
  BY <1>1 DEF TableInv
<1>3. \E i \in found : \A j \in found : i <= j
  BY <1>1, <1>2
<1> QED BY <1>3

\* The handler collects a child, and in the middle of a command it leaves its
\* mark.
LEMMA HandleExitKeeps ==
  ASSUME IndInv, HandleExitChild
  PROVE  IndInv'
<1>1. PICK c \in Pid :
        /\ life[c] = "zombie"
        /\ life' = [life EXCEPT ![c] = "gone"]
        /\ LET found == {i \in 0..(size - 1) : arr[i] = c}
               first == CHOOSE i \in found : \A j \in found : i <= j
           IN  IF found = {}
                 THEN UNCHANGED <<arr, size>>
                 ELSE /\ arr' = CloseGap(first)
                      /\ size' = size - 1
  BY DEF HandleExitChild
<1>2. /\ mpc # "wild" /\ raced' = (raced \/ mpc # "cmd")
      /\ UNCHANGED <<mpc, tmp, child, sig, canPrint, received, asking>>
  BY DEF HandleExitChild, Running, childVars
<1>3. Created' = Created
  BY <1>1 DEF IndInv, TypeOK, Created
<1>4. TypeOK' /\ CountInv'
  <2>1. life' \in [Pid -> {"none", "start", "loop", "ask", "zombie", "gone"}]
    BY <1>1 DEF IndInv, TypeOK
  <2>2. CASE ~InTable(c)
    <3>1. UNCHANGED <<arr, size>>
      BY <1>1, <2>2 DEF InTable
    <3> QED BY <1>2, <1>3, <2>1, <3>1
            DEF IndInv, TypeOK, CountInv, Creating
  <2>3. CASE InTable(c)
    <3> DEFINE found == {i \in 0..(size - 1) : arr[i] = c}
               first == CHOOSE i \in found : \A j \in found : i <= j
    <3>1. found # {} /\ 0..(size - 1) # {}
      BY <2>3 DEF InTable
    <3>2. arr' = CloseGap(first) /\ size' = size - 1
      BY <1>1, <3>1
    <3> HIDE DEF first, found
    <3>3. /\ size \in Nat /\ size - 1 \in Nat
          /\ arr' \in [Indices -> Pid \cup {NoPid}]
      BY <1>2, <3>1, <3>2, CloseGapType DEF IndInv
    <3>4. size' \in 0..Cardinality(Pid)
      BY <1>2, <3>2, <3>3, CreatedFacts DEF IndInv, TypeOK
    <3>5. TypeOK'
      BY <1>2, <2>1, <3>3, <3>4 DEF IndInv, TypeOK
    <3>6. CountInv'
      BY <1>2, <1>3, <3>2, <3>3, CreatedFacts DEF IndInv, CountInv, Creating
    <3> QED BY <3>5, <3>6
  <2> QED BY <2>2, <2>3
<1>5. TrackInv'
  <2>1. SUFFICES ASSUME ~raced, mpc = "cmd" PROVE TableInv'
    BY <1>2 DEF TrackInv
  <2>2. TableInv
    BY <2>1 DEF IndInv, TrackInv
  <2>3. \A k : Uncollected(k) /\ k # c => Uncollected(k)'
    BY <1>1 DEF IndInv, TypeOK, Uncollected
  <2>4. \A k : Wanted(k)' => Wanted(k) /\ k # c
    BY <1>1, <1>2 DEF IndInv, TypeOK, Wanted, Alive
  <2>5. ~Creating'
    BY <1>2, <2>1 DEF Creating
  <2>6. CASE ~InTable(c)
    <3>1. UNCHANGED <<arr, size>>
      BY <1>1, <2>6 DEF InTable
    <3>2. \A i \in 0..(size - 1) : arr[i] # c
      BY <2>6 DEF InTable
    <3>3. \A k : InTable(k) => InTable(k)'
      BY <3>1 DEF InTable
    <3> QED BY <1>2, <2>1, <2>2, <2>3, <2>4, <2>5, <3>1, <3>2, <3>3
            DEF TableInv, Creating
  <2>7. CASE InTable(c)
    <3> DEFINE found == {i \in 0..(size - 1) : arr[i] = c}
               first == CHOOSE i \in found : \A j \in found : i <= j
    <3>1. found # {} /\ 0..(size - 1) # {}
      BY <2>7 DEF InTable
    <3>2. arr' = CloseGap(first) /\ size' = size - 1
      BY <1>1, <3>1
    <3>3. first \in 0..(size - 1) /\ arr[first] = c
      BY <1>2, <2>2, <2>7, FirstEntry DEF IndInv
    <3> HIDE DEF first, found
    <3>4. /\ size \in Nat /\ size' \in Nat
          /\ \A i \in 0..(size - 2) :
               /\ i \in 0..(size - 1) /\ i + 1 \in 0..(size - 1)
               /\ arr'[i] = IF first <= i THEN arr[i + 1] ELSE arr[i]
      BY <1>2, <3>1, <3>2, CloseGapType DEF IndInv
    <3>5. 0..(size' - 1) = 0..(size - 2)
      BY <3>2, <3>4
    <3> DEFINE from(i) == IF first <= i THEN i + 1 ELSE i
    <3>6. \A i \in 0..(size - 2) : /\ from(i) \in 0..(size - 1)
                                  /\ from(i) # first
                                  /\ arr'[i] = arr[from(i)]
      BY <3>3, <3>4
    <3>7. \A i, j \in 0..(size - 2) : from(i) = from(j) => i = j
      BY <3>3, <3>4
    <3>8. \A k \in 0..(size - 1) :
            k # first => \E i \in 0..(size - 2) : from(i) = k
      <4>1. SUFFICES ASSUME NEW k \in 0..(size - 1), k # first
                     PROVE  \E i \in 0..(size - 2) : from(i) = k
        OBVIOUS
      <4>2. CASE k < first
        <5>1. k \in 0..(size - 2) /\ from(k) = k
          BY <3>3, <3>4, <4>2
        <5> QED BY <5>1
      <4>3. CASE first < k
        <5>1. k - 1 \in 0..(size - 2) /\ from(k - 1) = k
          BY <3>3, <3>4, <4>3
        <5> QED BY <5>1
      <4> QED BY <3>3, <3>4, <4>1, <4>2, <4>3
    <3> HIDE DEF from
    <3>9. \A i, j \in 0..(size' - 1) : arr'[i] = arr'[j] => i = j
      <4>1. SUFFICES ASSUME NEW i \in 0..(size - 2), NEW j \in 0..(size - 2),
                            arr'[i] = arr'[j]
                     PROVE  i = j
        BY <3>5
      <4>2. /\ from(i) \in 0..(size - 1) /\ from(j) \in 0..(size - 1)
            /\ arr[from(i)] = arr[from(j)]
        BY <3>6, <4>1
      <4>3. from(i) = from(j)
        BY <2>2, <4>2 DEF TableInv
      <4> QED BY <3>7, <4>3
    <3>10. \A i \in 0..(size' - 1) : Uncollected(arr[i])'
      <4>1. SUFFICES ASSUME NEW i \in 0..(size - 2)
                     PROVE  Uncollected(arr[i])'
        BY <3>5
      <4>2. Uncollected(arr[from(i)]) /\ arr[from(i)] # c
        BY <2>2, <3>3, <3>6 DEF TableInv
      <4>3. life'[arr[from(i)]] = life[arr[from(i)]]
        BY <1>1, <4>2 DEF IndInv, TypeOK, Uncollected
      <4> QED BY <3>6, <4>2, <4>3 DEF Uncollected
    <3>11. \A k : InTable(k) /\ k # c => InTable(k)'
      <4>1. SUFFICES ASSUME NEW k, InTable(k), k # c PROVE InTable(k)'
        OBVIOUS
      <4>2. PICK m \in 0..(size - 1) : arr[m] = k
        BY <4>1 DEF InTable
      <4>3. PICK i \in 0..(size - 2) : from(i) = m
        BY <3>3, <3>8, <4>1, <4>2
      <4> QED BY <3>5, <3>6, <4>2, <4>3 DEF InTable
    <3>12. \A k \in Pid : Wanted(k)' => InTable(k)'
      BY <2>1, <2>2, <2>4, <3>11 DEF TableInv, Creating
    <3> QED BY <1>2, <2>1, <2>5, <3>9, <3>10, <3>12 DEF TableInv, Creating
  <2> QED BY <2>6, <2>7
<1> QED BY <1>4, <1>5 DEF IndInv

-----------------------------------------------------------------------------
(***************************************************************************)
(* The theorems.                                                            *)
(***************************************************************************)

\* No step breaks the inductive invariant.
LEMMA NextInv == IndInv /\ [Next]_vars => IndInv'
<1> SUFFICES ASSUME IndInv, [Next]_vars PROVE IndInv'
  OBVIOUS
<1>1. CASE UNCHANGED vars
  BY <1>1, ChildrenKeep
     DEF IndInv, TypeOK, vars, childVars, Uncollected, Wanted, Alive
<1>2. CASE Next
  BY <1>1, <1>2, ChildKeeps, SignalKeeps, CmdCreateKeeps, CreateEntryKeeps,
     CmdDeleteKeeps, SizeLoadKeeps, SizeStoreKeeps, CmdDeleteAllKeeps,
     HandleExitKeeps
     DEF Next, ParentStep, UserStep, Stopped
<1> QED BY <1>1, <1>2

\* The inductive invariant holds in every reachable state.
LEMMA SpecInv == Spec => []IndInv
<1> QED BY InitInv, NextInv, PTL DEF Spec

\* The table fits in its array, the handler and the commands never write
\* beyond it, and the size wraps only where the store of `size--` finds 0
\* (parent.c: CreateChild, DeleteLastChild, HandleExitChild).
THEOREM TypeCorrect == Spec => []TypeOK
<1>1. IndInv => TypeOK
  BY DEF IndInv
<1> QED BY <1>1, SpecInv, PTL

\* At the prompt an accurate table lists each child that is wanted once, and
\* nobody else.
LEMMA InvTracks == IndInv => TracksUnlessRaced
<1> SUFFICES ASSUME IndInv, ~raced, mpc = "cmd" PROVE Tracks
  BY DEF TracksUnlessRaced, Tracks
<1>1. TableInv
  BY DEF IndInv, TrackInv
<1>2. Listed \subseteq Alive \cup {c \in Pid : life[c] = "zombie"}
  BY <1>1 DEF TableInv, Listed, Uncollected, Alive
<1>3. \A c \in Alive : "term" \notin sig[c] => c \in Listed
  BY <1>1 DEF TableInv, Creating, Wanted, InTable, Listed, Alive
<1> QED BY <1>1, <1>2, <1>3 DEF TableInv, Tracks

\* As long as no SIGCHLD has come in the middle of CreateChild or
\* DeleteLastChild, the parent's table at the prompt has one entry for every
\* child that it has not collected and not told to end, in whatever order the
\* children end (parent.c 165-222).
THEOREM TracksCorrect == Spec => []TracksUnlessRaced
<1> QED BY SpecInv, InvTracks, PTL

=============================================================================
