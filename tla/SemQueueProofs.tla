--------------------------- MODULE SemQueueProofs ---------------------------
(***************************************************************************)
(* Proofs about the queue of lab05/5.1, for every number of threads,        *)
(* capacity and set of messages: the two semaphores account for every       *)
(* message and every free slot, queue_pop never returns NULL, and the queue *)
(* implements BoundedFifo through all resizes.                              *)
(***************************************************************************)
EXTENDS SemQueue, DataTheorems, FiniteSetTheorems

-----------------------------------------------------------------------------
(***************************************************************************)
(* The inductive invariant.                                                 *)
(***************************************************************************)

\* The range of every variable.
TypeInv ==
  /\ running \in BOOLEAN /\ slipped \in BOOLEAN
  /\ capacity \in Nat \ {0}
  /\ buffer \in [0..(capacity - 1) -> Msg \cup {Junk}]
  /\ head \in 0..(capacity - 1) /\ tail \in 0..(capacity - 1)
  /\ count \in 0..capacity
  /\ empty \in Nat /\ full \in Nat
  /\ pc \in [Threads -> {"off", "wait", "lock", "post", "giveback", "print"}]
  /\ held \in [Consumers -> Msg \cup {NoMsg}]
  /\ mpc \in {"loop", "cmd", "join", "removeall", "incpost", "decwait",
              "decintr", "destroy", "done"}
  /\ prodCount \in 0..MaxProds /\ consCount \in 0..MaxCons
  /\ victim \in Threads \cup {-1} /\ all \in {"no", "kill", "end"}

\* Only the slots below the counts, and the thread that main joins, run.
LiveInv ==
  /\ \A t \in Producers : t >= prodCount /\ t # victim => pc[t] = "off"
  /\ \A t \in Consumers : t >= MaxProds + consCount /\ t # victim => pc[t] = "off"
  /\ mpc # "join" => victim = -1
  /\ mpc = "join" => victim \in Threads
  /\ mpc \in {"destroy", "done"} => prodCount = 0 /\ consCount = 0

\* A consumer has a message exactly from taking it to the end of its turn, and
\* never has to give a semaphore back.
HandInv ==
  \A t \in Consumers :
    /\ pc[t] # "giveback"
    /\ held[t] \in Msg <=> pc[t] \in {"post", "print"}

\* The messages lie between head and tail; main keeps the room for one of them
\* free while it waits in queue_resize_decrease.
RingInv ==
  /\ tail = Slot(head, count, capacity)
  /\ \A i \in 1..count : Contents(buffer, head, count, capacity)[i] \in Msg
  /\ mpc \in {"decwait", "decintr"} => count < capacity - 1

\* A slot is kept by mistake only after the end of the program was announced,
\* and main then takes no further command.
SlipInv ==
  /\ slipped => ~running /\ mpc \in {"loop", "join", "removeall", "destroy", "done"}
  /\ mpc = "decintr" => ~running

\* The numbers of threads at the labels that count.
Stored   == Number(Producers, {"post"})
Claimed  == Number(Producers, {"lock", "giveback"})
Freed    == Number(Consumers, {"post"})
Promised == Number(Consumers, {"lock", "giveback"})
Added    == IF mpc = "incpost" THEN 1 ELSE 0
Owed     == IF slipped THEN capacity + 1 ELSE capacity

\* SlotsAccounted in these names.
Sums == /\ count = full + Stored + Promised
        /\ Owed = count + empty + Freed + Claimed + Added

\* The first half of SlotsAccounted is SlipInv, this is the other.
Accounted == mpc # "done" => Sums

CoreInv == TypeInv /\ LiveInv /\ HandInv /\ RingInv /\ Accounted

IndInv == CoreInv /\ SlipInv

-----------------------------------------------------------------------------
(***************************************************************************)
(* How the numbers of threads at the labels change.                          *)
(***************************************************************************)

\* The array slots of the two kinds are different, and finitely many.
LEMMA ThreadFacts ==
  /\ Producers \subseteq Threads /\ Consumers \subseteq Threads
  /\ Threads \subseteq Nat
  /\ \A t \in Producers : t \notin Consumers
  /\ \A t \in Threads : t \in Producers \/ t \in Consumers
<1> QED BY SemQueueAssumption DEF Threads, Producers, Consumers

\* Both kinds are finite.
LEMMA KindsFinite == IsFiniteSet(Producers) /\ IsFiniteSet(Consumers)
<1> QED BY FS_Interval, SemQueueAssumption DEF Producers, Consumers

\* Those of S that f puts at one of the labels.
At(f, S, labs) == {u \in S : f[u] \in labs}

\* How the number of threads at some labels changes when one of them moves.
LEMMA CountStep ==
  ASSUME NEW S, IsFiniteSet(S), NEW f, NEW g, NEW labs, NEW t \in S,
         \A u \in S : u # t => g[u] = f[u]
  PROVE  /\ Cardinality(At(f, S, labs)) \in Nat
         /\ Cardinality(At(g, S, labs)) \in Nat
         /\ f[t] \in labs => Cardinality(At(f, S, labs)) # 0
         /\ f[t] \in labs /\ g[t] \notin labs =>
              Cardinality(At(g, S, labs)) + 1
                = Cardinality(At(f, S, labs))
         /\ f[t] \notin labs /\ g[t] \in labs =>
              Cardinality(At(g, S, labs))
                = Cardinality(At(f, S, labs)) + 1
         /\ (f[t] \in labs <=> g[t] \in labs) =>
              Cardinality(At(g, S, labs))
                = Cardinality(At(f, S, labs))
<1> DEFINE A == At(f, S, labs)
           B == At(g, S, labs)
<1>1. A \subseteq S /\ B \subseteq S
  BY DEF At
<1>2. IsFiniteSet(A) /\ IsFiniteSet(B)
  BY <1>1, FS_Subset
<1>3. Cardinality(A) \in Nat /\ Cardinality(B) \in Nat
  BY <1>2, FS_CardinalityType
<1>4. ASSUME f[t] \in labs PROVE Cardinality(A) # 0
  <2>1. t \in A
    BY <1>4 DEF At
  <2> HIDE DEF A
  <2> QED BY <1>2, <2>1, FS_EmptySet
<1>5. ASSUME f[t] \in labs, g[t] \notin labs
      PROVE  Cardinality(B) + 1 = Cardinality(A)
  <2>1. B = A \ {t} /\ t \in A
    BY <1>5 DEF At
  <2> HIDE DEF A, B
  <2>2. Cardinality(A \ {t}) = Cardinality(A) - 1
    BY <1>2, <2>1, FS_RemoveElement
  <2> QED BY <1>3, <2>1, <2>2
<1>6. ASSUME f[t] \notin labs, g[t] \in labs
      PROVE  Cardinality(B) = Cardinality(A) + 1
  <2>1. B = A \cup {t} /\ t \notin A
    BY <1>6 DEF At
  <2> HIDE DEF A, B
  <2> QED BY <1>2, <2>1, FS_AddElement
<1>7. ASSUME f[t] \in labs <=> g[t] \in labs
      PROVE  Cardinality(B) = Cardinality(A)
  <2>1. B = A
    BY <1>7 DEF At
  <2> QED BY <2>1
<1> QED BY <1>3, <1>4, <1>5, <1>6, <1>7

\* The four numbers, in these terms.
LEMMA NumbersAre ==
  /\ Stored = Cardinality(At(pc, Producers, {"post"}))
  /\ Stored' = Cardinality(At(pc', Producers, {"post"}))
  /\ Claimed = Cardinality(At(pc, Producers, {"lock", "giveback"}))
  /\ Claimed' = Cardinality(At(pc', Producers, {"lock", "giveback"}))
  /\ Freed = Cardinality(At(pc, Consumers, {"post"}))
  /\ Freed' = Cardinality(At(pc', Consumers, {"post"}))
  /\ Promised = Cardinality(At(pc, Consumers, {"lock", "giveback"}))
  /\ Promised' = Cardinality(At(pc', Consumers, {"lock", "giveback"}))
<1> QED BY DEF Stored, Claimed, Freed, Promised, Number, At

\* The four numbers are numbers.
LEMMA NumbersNat ==
  /\ Stored \in Nat /\ Claimed \in Nat /\ Freed \in Nat /\ Promised \in Nat
  /\ Stored' \in Nat /\ Claimed' \in Nat /\ Freed' \in Nat /\ Promised' \in Nat
<1>1. ASSUME NEW S, IsFiniteSet(S), NEW f, NEW labs
      PROVE  Cardinality(At(f, S, labs)) \in Nat
  <2>1. At(f, S, labs) \subseteq S
    BY DEF At
  <2>2. IsFiniteSet(At(f, S, labs))
    BY <1>1, <2>1, FS_Subset
  <2> QED BY <2>2, FS_CardinalityType
<1> QED BY <1>1, KindsFinite, NumbersAre

\* The numbers do not change when the labels of the threads do not.
LEMMA NumbersSame ==
  ASSUME UNCHANGED pc
  PROVE  UNCHANGED <<Stored, Claimed, Freed, Promised>>
<1> QED BY DEF Stored, Claimed, Freed, Promised, Number

\* A producer moves.
LEMMA ProducerMoves ==
  ASSUME TypeInv, NEW t \in Producers, NEW l, GoTo(t, l)
  PROVE  /\ UNCHANGED <<Freed, Promised>>
         /\ pc[t] = "post" => Stored # 0
         /\ pc[t] \in {"lock", "giveback"} => Claimed # 0
         /\ pc[t] = "post" /\ l # "post" => Stored = Stored' + 1
         /\ pc[t] # "post" /\ l = "post" => Stored' = Stored + 1
         /\ (pc[t] = "post" <=> l = "post") => Stored' = Stored
         /\ pc[t] \in {"lock", "giveback"} /\ l \notin {"lock", "giveback"} =>
              Claimed = Claimed' + 1
         /\ pc[t] \notin {"lock", "giveback"} /\ l \in {"lock", "giveback"} =>
              Claimed' = Claimed + 1
         /\ (pc[t] \in {"lock", "giveback"} <=> l \in {"lock", "giveback"}) =>
              Claimed' = Claimed
<1>1. /\ \A u \in Producers : u # t => pc'[u] = pc[u]
      /\ \A u \in Consumers : pc'[u] = pc[u]
      /\ pc'[t] = l
  BY ThreadFacts DEF GoTo, TypeInv
<1>2. UNCHANGED <<Freed, Promised>>
  <2>1. /\ {u \in Consumers : pc'[u] \in {"post"}}
             = {u \in Consumers : pc[u] \in {"post"}}
        /\ {u \in Consumers : pc'[u] \in {"lock", "giveback"}}
             = {u \in Consumers : pc[u] \in {"lock", "giveback"}}
    BY <1>1
  <2> QED BY <2>1 DEF Freed, Promised, Number
<1>3. /\ pc[t] = "post" => Stored # 0
      /\ pc[t] = "post" /\ l # "post" => Stored = Stored' + 1
      /\ pc[t] # "post" /\ l = "post" => Stored' = Stored + 1
      /\ (pc[t] = "post" <=> l = "post") => Stored' = Stored
  <2> DEFINE L == {"post"}
  <2>1. /\ (pc[t] \in L <=> pc[t] = "post") /\ (pc'[t] \in L <=> l = "post")
        /\ Stored = Cardinality(At(pc, Producers, L))
        /\ Stored' = Cardinality(At(pc', Producers, L))
    BY <1>1, NumbersAre
  <2> HIDE DEF L
  <2> QED BY <1>1, <2>1, KindsFinite, CountStep
<1>4. /\ pc[t] \in {"lock", "giveback"} => Claimed # 0
      /\ pc[t] \in {"lock", "giveback"} /\ l \notin {"lock", "giveback"} =>
           Claimed = Claimed' + 1
      /\ pc[t] \notin {"lock", "giveback"} /\ l \in {"lock", "giveback"} =>
           Claimed' = Claimed + 1
      /\ (pc[t] \in {"lock", "giveback"} <=> l \in {"lock", "giveback"}) =>
           Claimed' = Claimed
  <2> DEFINE L == {"lock", "giveback"}
  <2>1. /\ pc'[t] = l
        /\ Claimed = Cardinality(At(pc, Producers, L))
        /\ Claimed' = Cardinality(At(pc', Producers, L))
    BY <1>1, NumbersAre
  <2> HIDE DEF L
  <2>2. /\ pc[t] \in L => Claimed # 0
        /\ pc[t] \in L /\ l \notin L => Claimed = Claimed' + 1
        /\ pc[t] \notin L /\ l \in L => Claimed' = Claimed + 1
        /\ (pc[t] \in L <=> l \in L) => Claimed' = Claimed
    BY <1>1, <2>1, KindsFinite, CountStep
  <2> QED BY <2>2 DEF L
<1> QED BY <1>2, <1>3, <1>4

\* A consumer moves.
LEMMA ConsumerMoves ==
  ASSUME TypeInv, NEW t \in Consumers, NEW l, GoTo(t, l)
  PROVE  /\ UNCHANGED <<Stored, Claimed>>
         /\ pc[t] = "post" => Freed # 0
         /\ pc[t] \in {"lock", "giveback"} => Promised # 0
         /\ pc[t] = "post" /\ l # "post" => Freed = Freed' + 1
         /\ pc[t] # "post" /\ l = "post" => Freed' = Freed + 1
         /\ (pc[t] = "post" <=> l = "post") => Freed' = Freed
         /\ pc[t] \in {"lock", "giveback"} /\ l \notin {"lock", "giveback"} =>
              Promised = Promised' + 1
         /\ pc[t] \notin {"lock", "giveback"} /\ l \in {"lock", "giveback"} =>
              Promised' = Promised + 1
         /\ (pc[t] \in {"lock", "giveback"} <=> l \in {"lock", "giveback"}) =>
              Promised' = Promised
<1>1. /\ \A u \in Consumers : u # t => pc'[u] = pc[u]
      /\ \A u \in Producers : pc'[u] = pc[u]
      /\ pc'[t] = l
  BY ThreadFacts DEF GoTo, TypeInv
<1>2. UNCHANGED <<Stored, Claimed>>
  <2>1. /\ {u \in Producers : pc'[u] \in {"post"}}
             = {u \in Producers : pc[u] \in {"post"}}
        /\ {u \in Producers : pc'[u] \in {"lock", "giveback"}}
             = {u \in Producers : pc[u] \in {"lock", "giveback"}}
    BY <1>1
  <2> QED BY <2>1 DEF Stored, Claimed, Number
<1>3. /\ pc[t] = "post" => Freed # 0
      /\ pc[t] = "post" /\ l # "post" => Freed = Freed' + 1
      /\ pc[t] # "post" /\ l = "post" => Freed' = Freed + 1
      /\ (pc[t] = "post" <=> l = "post") => Freed' = Freed
  <2> DEFINE L == {"post"}
  <2>1. /\ (pc[t] \in L <=> pc[t] = "post") /\ (pc'[t] \in L <=> l = "post")
        /\ Freed = Cardinality(At(pc, Consumers, L))
        /\ Freed' = Cardinality(At(pc', Consumers, L))
    BY <1>1, NumbersAre
  <2> HIDE DEF L
  <2> QED BY <1>1, <2>1, KindsFinite, CountStep
<1>4. /\ pc[t] \in {"lock", "giveback"} => Promised # 0
      /\ pc[t] \in {"lock", "giveback"} /\ l \notin {"lock", "giveback"} =>
           Promised = Promised' + 1
      /\ pc[t] \notin {"lock", "giveback"} /\ l \in {"lock", "giveback"} =>
           Promised' = Promised + 1
      /\ (pc[t] \in {"lock", "giveback"} <=> l \in {"lock", "giveback"}) =>
           Promised' = Promised
  <2> DEFINE L == {"lock", "giveback"}
  <2>1. /\ pc'[t] = l
        /\ Promised = Cardinality(At(pc, Consumers, L))
        /\ Promised' = Cardinality(At(pc', Consumers, L))
    BY <1>1, NumbersAre
  <2> HIDE DEF L
  <2>2. /\ pc[t] \in L => Promised # 0
        /\ pc[t] \in L /\ l \notin L => Promised = Promised' + 1
        /\ pc[t] \notin L /\ l \in L => Promised' = Promised + 1
        /\ (pc[t] \in L <=> l \in L) => Promised' = Promised
    BY <1>1, <2>1, KindsFinite, CountStep
  <2> QED BY <2>2 DEF L
<1> QED BY <1>2, <1>3, <1>4

\* A thread that is not off: main has not come to the end, so the sums hold.
LEMMA RunningFacts ==
  ASSUME IndInv, NEW t \in Threads, pc[t] # "off"
  PROVE  mpc \notin {"destroy", "done"} /\ Sums
<1>1. mpc \notin {"destroy", "done"}
  <2> SUFFICES ASSUME mpc \in {"destroy", "done"} PROVE FALSE
    OBVIOUS
  <2>1. prodCount = 0 /\ consCount = 0 /\ victim = -1
    BY DEF IndInv, CoreInv, LiveInv
  <2>2. /\ t # -1
        /\ (t \in Producers /\ t >= 0) \/ (t \in Consumers /\ t >= MaxProds + 0)
    BY ThreadFacts, SemQueueAssumption DEF Producers, Consumers
  <2> QED BY <2>1, <2>2 DEF IndInv, CoreInv, LiveInv
<1>2. Sums
  BY <1>1 DEF IndInv, CoreInv, Accounted
<1> QED BY <1>1, <1>2

\* The sums after a step are Accounted after it.
LEMMA SumsNext ==
  ASSUME Sums'
  PROVE  Accounted'
<1> QED BY DEF Accounted

\* A thread that runs may go on running.
LEMMA LiveStep ==
  ASSUME IndInv, NEW t \in Threads, pc[t] # "off", NEW l, GoTo(t, l),
         UNCHANGED mainVars
  PROVE  LiveInv'
<1>1. \A u \in Threads : u # t => pc'[u] = pc[u]
  BY DEF GoTo, IndInv, CoreInv, TypeInv
<1>2. UNCHANGED <<mpc, prodCount, consCount, victim>>
  BY DEF mainVars
<1> QED BY <1>1, <1>2, ThreadFacts DEF IndInv, CoreInv, LiveInv

-----------------------------------------------------------------------------
(***************************************************************************)
(* The steps of the workers keep the invariant.                             *)
(***************************************************************************)

\* The numbers that the sums are about.
LEMMA SumTypes ==
  ASSUME IndInv
  PROVE  /\ capacity \in Nat \ {0} /\ count \in Nat /\ empty \in Nat /\ full \in Nat
         /\ Added \in Nat /\ Added' \in Nat /\ Owed \in Nat
         /\ Stored \in Nat /\ Claimed \in Nat /\ Freed \in Nat /\ Promised \in Nat
         /\ Stored' \in Nat /\ Claimed' \in Nat /\ Freed' \in Nat
         /\ Promised' \in Nat
<1>1. capacity \in Nat \ {0} /\ count \in Nat /\ empty \in Nat /\ full \in Nat
  BY DEF IndInv, CoreInv, TypeInv
<1>2. Added \in Nat /\ Added' \in Nat /\ Owed \in Nat
  BY <1>1 DEF Added, Owed
<1> QED BY <1>1, <1>2, NumbersNat

\* A step of a worker that leaves the ring alone.
LEMMA RingSame ==
  ASSUME IndInv, UNCHANGED ring, UNCHANGED mpc
  PROVE  RingInv'
<1> QED BY DEF IndInv, CoreInv, RingInv, ring

\* A worker gets its semaphore.
LEMMA SemWaitKeeps ==
  ASSUME IndInv, NEW t \in Threads, SemWait(t)
  PROVE  CoreInv'
<1>1. /\ pc[t] = "wait" /\ GoTo(t, "lock")
      /\ UNCHANGED <<running, slipped, buffer, head, tail, count, capacity,
                     held, mpc, prodCount, consCount, victim, all>>
  BY DEF SemWait, ring, mainVars
<1>2. /\ capacity \in Nat \ {0} /\ count \in Nat /\ empty \in Nat /\ full \in Nat
      /\ Added \in Nat /\ Owed \in Nat /\ Stored \in Nat
      /\ Claimed \in Nat /\ Freed \in Nat
      /\ Promised \in Nat
  BY SumTypes
<1>3. Sums /\ Added' = Added /\ Owed' = Owed
  BY <1>1, RunningFacts DEF Added, Owed
<1>4. /\ empty' \in Nat /\ full' \in Nat /\ Sums'
  <2>1. CASE t \in Producers
    <3>1. /\ empty # 0 /\ empty' = empty - 1 /\ full' = full
      BY <1>2, <2>1, ThreadFacts DEF SemWait
    <3>2. /\ Freed' = Freed /\ Promised' = Promised /\ Stored' = Stored
          /\ Claimed' = Claimed + 1
      BY <1>1, <2>1, ProducerMoves DEF IndInv, CoreInv
    <3>3. empty' \in Nat /\ full' \in Nat
      BY <1>2, <3>1
    <3> QED BY <1>1, <1>2, <1>3, <3>1, <3>2, <3>3 DEF Sums
  <2>2. CASE t \in Consumers
    <3>1. /\ full # 0 /\ full' = full - 1 /\ empty' = empty
      BY <1>2, <2>2, ThreadFacts DEF SemWait
    <3>2. /\ Freed' = Freed /\ Promised' = Promised + 1 /\ Stored' = Stored
          /\ Claimed' = Claimed
      BY <1>1, <2>2, ConsumerMoves DEF IndInv, CoreInv
    <3>3. empty' \in Nat /\ full' \in Nat
      BY <1>2, <3>1
    <3> QED BY <1>1, <1>2, <1>3, <3>1, <3>2, <3>3 DEF Sums
  <2> QED BY <2>1, <2>2, ThreadFacts
<1>5. TypeInv'
  BY <1>1, <1>4 DEF IndInv, CoreInv, TypeInv, GoTo
<1>6. LiveInv'
  BY <1>1, LiveStep DEF mainVars
<1>7. HandInv'
  BY <1>1, ThreadFacts DEF IndInv, CoreInv, TypeInv, HandInv, GoTo
<1>8. RingInv'
  BY <1>1, RingSame DEF ring
<1> QED BY <1>4, <1>5, <1>6, <1>7, <1>8, SumsNext DEF IndInv, CoreInv

\* A worker posts the other semaphore.
LEMMA SemPostKeeps ==
  ASSUME IndInv, NEW t \in Threads, SemPost(t)
  PROVE  CoreInv'
<1>1. /\ pc[t] = "post" /\ GoTo(t, "print")
      /\ UNCHANGED <<running, slipped, buffer, head, tail, count, capacity,
                     held, mpc, prodCount, consCount, victim, all>>
  BY DEF SemPost, ring, mainVars
<1>2. /\ capacity \in Nat \ {0} /\ count \in Nat /\ empty \in Nat /\ full \in Nat
      /\ Added \in Nat /\ Owed \in Nat /\ Stored \in Nat
      /\ Claimed \in Nat /\ Freed \in Nat
      /\ Promised \in Nat /\ Stored' \in Nat /\ Freed' \in Nat
  BY SumTypes
<1>3. Sums /\ Added' = Added /\ Owed' = Owed
  BY <1>1, RunningFacts DEF Added, Owed
<1>4. /\ empty' \in Nat /\ full' \in Nat /\ Sums'
  <2>1. CASE t \in Producers
    <3>1. full' = full + 1 /\ empty' = empty
      BY <2>1, ThreadFacts DEF SemPost
    <3>2. /\ Freed' = Freed /\ Promised' = Promised /\ Stored = Stored' + 1
          /\ Claimed' = Claimed
      BY <1>1, <2>1, ProducerMoves DEF IndInv, CoreInv
    <3>3. empty' \in Nat /\ full' \in Nat
      BY <1>2, <3>1
    <3> QED BY <1>1, <1>2, <1>3, <3>1, <3>2, <3>3 DEF Sums
  <2>2. CASE t \in Consumers
    <3>1. empty' = empty + 1 /\ full' = full
      BY <2>2, ThreadFacts DEF SemPost
    <3>2. /\ Freed = Freed' + 1 /\ Promised' = Promised /\ Stored' = Stored
          /\ Claimed' = Claimed
      BY <1>1, <2>2, ConsumerMoves DEF IndInv, CoreInv
    <3>3. empty' \in Nat /\ full' \in Nat
      BY <1>2, <3>1
    <3> QED BY <1>1, <1>2, <1>3, <3>1, <3>2, <3>3 DEF Sums
  <2> QED BY <2>1, <2>2, ThreadFacts
<1>5. TypeInv'
  BY <1>1, <1>4 DEF IndInv, CoreInv, TypeInv, GoTo
<1>6. LiveInv'
  BY <1>1, LiveStep DEF mainVars
<1>7. HandInv'
  BY <1>1, ThreadFacts DEF IndInv, CoreInv, TypeInv, HandInv, GoTo
<1>8. RingInv'
  BY <1>1, RingSame DEF ring
<1> QED BY <1>4, <1>5, <1>6, <1>7, <1>8, SumsNext DEF IndInv, CoreInv

\* A refused producer posts the semaphore it took; no consumer is refused.
LEMMA GiveBackKeeps ==
  ASSUME IndInv, NEW t \in Threads, GiveBack(t)
  PROVE  CoreInv'
<1>1. /\ pc[t] = "giveback" /\ GoTo(t, "print")
      /\ UNCHANGED <<running, slipped, buffer, head, tail, count, capacity,
                     held, mpc, prodCount, consCount, victim, all>>
  BY DEF GiveBack, ring, mainVars
<1>2. /\ capacity \in Nat \ {0} /\ count \in Nat /\ empty \in Nat /\ full \in Nat
      /\ Added \in Nat /\ Owed \in Nat /\ Stored \in Nat
      /\ Claimed \in Nat /\ Freed \in Nat
      /\ Promised \in Nat /\ Claimed' \in Nat
  BY SumTypes
<1>3. Sums /\ Added' = Added /\ Owed' = Owed
  BY <1>1, RunningFacts DEF Added, Owed
<1>4. t \in Producers
  BY <1>1, ThreadFacts DEF IndInv, CoreInv, HandInv
<1>5. /\ empty' \in Nat /\ full' \in Nat /\ Sums'
  <2>1. empty' = empty + 1 /\ full' = full
    BY <1>4 DEF GiveBack
  <2>2. /\ Freed' = Freed /\ Promised' = Promised /\ Stored' = Stored
        /\ Claimed = Claimed' + 1
    BY <1>1, <1>4, ProducerMoves DEF IndInv, CoreInv
  <2>3. empty' \in Nat /\ full' \in Nat
    BY <1>2, <2>1
  <2> QED BY <1>1, <1>2, <1>3, <2>1, <2>2, <2>3 DEF Sums
<1>6. TypeInv'
  BY <1>1, <1>5 DEF IndInv, CoreInv, TypeInv, GoTo
<1>7. LiveInv'
  BY <1>1, LiveStep DEF mainVars
<1>8. HandInv'
  BY <1>1, <1>4, ThreadFacts DEF IndInv, CoreInv, TypeInv, HandInv, GoTo
<1>9. RingInv'
  BY <1>1, RingSame DEF ring
<1> QED BY <1>5, <1>6, <1>7, <1>8, <1>9, SumsNext DEF IndInv, CoreInv

\* The end of a turn.
LEMMA PrintAndSleepKeeps ==
  ASSUME IndInv, NEW t \in Threads, PrintAndSleep(t)
  PROVE  CoreInv'
<1> DEFINE l == IF t = victim THEN "off" ELSE "wait"
<1>1. /\ pc[t] = "print" /\ GoTo(t, l) /\ l \in {"off", "wait"}
      /\ held' = [c \in Consumers |-> IF c = t THEN NoMsg ELSE held[c]]
      /\ UNCHANGED <<running, slipped, buffer, head, tail, count, capacity,
                     empty, full, mpc, prodCount, consCount, victim, all>>
  BY DEF PrintAndSleep, ring, sems, mainVars
<1> HIDE DEF l
<1>2. UNCHANGED <<Stored, Claimed, Freed, Promised>>
  <2>1. CASE t \in Producers
    BY <1>1, <2>1, ProducerMoves DEF IndInv, CoreInv
  <2>2. CASE t \in Consumers
    BY <1>1, <2>2, ConsumerMoves DEF IndInv, CoreInv
  <2> QED BY <2>1, <2>2, ThreadFacts
<1>3. Sums'
  BY <1>1, <1>2, RunningFacts DEF Sums, Added, Owed
<1>4. TypeInv'
  BY <1>1 DEF IndInv, CoreInv, TypeInv, GoTo
<1>5. LiveInv'
  BY <1>1, LiveStep DEF mainVars
<1>6. HandInv'
  BY <1>1, ThreadFacts, SemQueueAssumption DEF IndInv, CoreInv, TypeInv, HandInv, GoTo
<1>7. RingInv'
  BY <1>1, RingSame DEF ring
<1> QED BY <1>3, <1>4, <1>5, <1>6, <1>7, SumsNext DEF IndInv, CoreInv

\* A producer with the mutex has a free slot: the ring after its message.
LEMMA PushFacts ==
  ASSUME IndInv, NEW t \in Producers, Push(t), running
  PROVE  /\ count \in 0..(capacity - 1)
         /\ TypeInv' /\ RingInv' /\ Sums'
         /\ \E m \in Msg : IsAppend(Contents(buffer, head, count, capacity)',
                                    Contents(buffer, head, count, capacity), m)
<1>1. /\ pc[t] = "lock" /\ GoTo(t, "post") /\ MutexFree
      /\ tail' = Succ(tail, capacity) /\ count' = count + 1
      /\ UNCHANGED <<running, slipped, head, capacity, empty, full, held, mpc,
                     prodCount, consCount, victim, all>>
  BY DEF Push, sems, mainVars
<1>2. PICK m \in Msg : buffer' = [buffer EXCEPT ![tail] = m]
  BY DEF Push
<1>3. t \in Threads
  BY ThreadFacts
<1>4. /\ capacity \in Nat \ {0} /\ count \in Nat /\ empty \in Nat /\ full \in Nat
      /\ Added \in Nat /\ Owed \in Nat /\ Stored \in Nat
      /\ Claimed \in Nat /\ Freed \in Nat
      /\ Promised \in Nat /\ Claimed' \in Nat
  BY SumTypes
<1>5. Sums /\ Added' = Added /\ Owed' = Owed
  BY <1>1, <1>3, RunningFacts DEF Added, Owed
<1>6. /\ Freed' = Freed /\ Promised' = Promised /\ Stored' = Stored + 1
      /\ Claimed = Claimed' + 1
  BY <1>1, ProducerMoves DEF IndInv, CoreInv
<1>7. count \in 0..(capacity - 1)
  <2>1. Owed = count + empty + Freed + Claimed + Added
    BY <1>5 DEF Sums
  <2>2. Claimed # 0
    BY <1>1, ProducerMoves DEF IndInv, CoreInv
  <2>3. Owed = capacity
    BY DEF IndInv, SlipInv, Owed
  <2> QED BY <1>4, <2>1, <2>2, <2>3
<1>8. Sums'
  BY <1>1, <1>4, <1>5, <1>6 DEF Sums
<1>9. /\ head \in 0..(capacity - 1) /\ tail \in 0..(capacity - 1)
      /\ buffer \in [0..(capacity - 1) -> Msg \cup {Junk}]
      /\ tail = Slot(head, count, capacity)
      /\ \A i \in 1..count : Contents(buffer, head, count, capacity)[i] \in Msg
  BY DEF IndInv, CoreInv, TypeInv, RingInv
<1>10. tail' \in 0..(capacity - 1) /\ tail' = Slot(head, count + 1, capacity)
  BY <1>1, <1>4, <1>7, <1>9, SuccInRange, SuccOfSlot
<1>11. TypeInv'
  BY <1>1, <1>2, <1>3, <1>7, <1>9, <1>10 DEF IndInv, CoreInv, TypeInv, GoTo
<1> DEFINE new == Contents(buffer', head, count + 1, capacity)
           old == Contents(buffer, head, count, capacity)
<1>12. IsAppend(new, old, m)
  <2> DEFINE V == Msg \cup {Junk}
             b == buffer
             d == buffer'
  <2>1. /\ m \in V /\ b \in [0..(capacity - 1) -> V]
        /\ d \in [0..(capacity - 1) -> V]
        /\ d[Slot(head, count, capacity)] = m
        /\ \A j \in 0..(capacity - 1) :
             j # Slot(head, count, capacity) => d[j] = b[j]
    BY <1>2, <1>9
  <2> HIDE DEF V, b, d
  <2>2. IsAppend(Contents(d, head, count + 1, capacity),
                 Contents(b, head, count, capacity), m)
    BY <1>4, <1>7, <1>9, <2>1, ContentsAppend
  <2> QED BY <2>2 DEF b, d
<1>13. Contents(buffer, head, count, capacity)' = new
  BY <1>1
<1>14. old \in Seq(Msg \cup {Junk}) /\ Len(old) = count
  <2>1. IsRing(Msg \cup {Junk}, buffer, head, count, capacity)
    BY <1>4, <1>7, <1>9 DEF IsRing
  <2>2. head \in Nat /\ capacity \in Nat
    BY <1>4, <1>9
  <2> QED BY <1>4, <2>1, <2>2, ContentsType
<1> HIDE DEF new, old
<1>15. \A i \in 1..(count + 1) : new[i] \in Msg
  <2>1. \A i \in 1..count : old[i] \in Msg
    BY <1>9 DEF old
  <2>2. m \in Msg \cup {Junk}
    BY <1>2
  <2>3. /\ \A i \in 1..count : Append(old, m)[i] = old[i]
        /\ Append(old, m)[count + 1] = m
    BY <1>14, <2>2, AppendProperties
  <2>4. new = Append(old, m)
    BY <1>12 DEF IsAppend
  <2>5. \A i \in 1..(count + 1) : i \in 1..count \/ i = count + 1
    BY <1>4
  <2> QED BY <2>1, <2>3, <2>4, <2>5
<1>16. RingInv'
  BY <1>1, <1>10, <1>13, <1>15 DEF RingInv, MutexFree
<1>17. IsAppend(Contents(buffer, head, count, capacity)', old, m)
  BY <1>12, <1>13
<1> QED BY <1>7, <1>8, <1>11, <1>16, <1>17 DEF old

\* queue_push under the mutex.
LEMMA PushKeeps ==
  ASSUME IndInv, NEW t \in Producers, Push(t)
  PROVE  CoreInv'
<1>1. t \in Threads /\ pc[t] = "lock" /\ held' = held /\ UNCHANGED mainVars
  BY ThreadFacts DEF Push
<1>2. PICK l \in {"post", "giveback"} : GoTo(t, l)
  BY DEF Push
<1>3. LiveInv'
  BY <1>1, <1>2, LiveStep
<1>4. HandInv'
  BY <1>1, <1>2, ThreadFacts DEF IndInv, CoreInv, TypeInv, HandInv, GoTo
<1>5. CASE running
  BY <1>3, <1>4, <1>5, PushFacts, SumsNext DEF IndInv, CoreInv
<1>6. CASE ~running
  <2>1. /\ GoTo(t, "giveback")
        /\ UNCHANGED <<running, slipped, buffer, head, tail, count, capacity,
                       empty, full, held, mpc, prodCount, consCount, victim,
                       all>>
    BY <1>6 DEF Push, sems, mainVars
  <2>2. UNCHANGED <<Stored, Claimed, Freed, Promised>>
    BY <1>1, <2>1, ProducerMoves DEF IndInv, CoreInv
  <2>3. Sums'
    BY <1>1, <2>1, <2>2, RunningFacts DEF Sums, Added, Owed
  <2>4. TypeInv'
    BY <2>1 DEF IndInv, CoreInv, TypeInv, GoTo
  <2>5. RingInv'
    BY <2>1, RingSame DEF ring
  <2> QED BY <1>3, <1>4, <2>3, <2>4, <2>5, SumsNext DEF IndInv, CoreInv
<1> QED BY <1>5, <1>6

\* A consumer with the mutex has a message, also when the program ends.
LEMMA PopFacts ==
  ASSUME IndInv, NEW t \in Consumers, Pop(t)
  PROVE  /\ count \in 1..capacity /\ GoTo(t, "post") /\ held[t] = NoMsg
         /\ held' = [held EXCEPT ![t] = buffer[head]] /\ buffer[head] \in Msg
         /\ TypeInv' /\ RingInv' /\ Sums'
         /\ Contents(buffer, head, count, capacity) # <<>>
         /\ Head(Contents(buffer, head, count, capacity)) = buffer[head]
         /\ Contents(buffer, head, count, capacity)'
              = Tail(Contents(buffer, head, count, capacity))
<1>1. /\ pc[t] = "lock" /\ MutexFree
      /\ UNCHANGED <<running, slipped, buffer, tail, capacity, empty, full,
                     mpc, prodCount, consCount, victim, all>>
  BY DEF Pop, sems, mainVars
<1>2. t \in Threads
  BY ThreadFacts
<1>3. /\ capacity \in Nat \ {0} /\ count \in Nat /\ empty \in Nat /\ full \in Nat
      /\ Added \in Nat /\ Owed \in Nat /\ Stored \in Nat
      /\ Claimed \in Nat /\ Freed \in Nat
      /\ Promised \in Nat /\ Promised' \in Nat
  BY SumTypes
<1>4. Sums /\ Added' = Added /\ Owed' = Owed
  BY <1>1, <1>2, RunningFacts DEF Added, Owed
<1>5. Promised # 0
  <2>1. {u \in Consumers : pc[u] \in {"lock", "giveback"}} # {}
    BY <1>1
  <2>2. At(pc, Consumers, {"lock", "giveback"}) # {}
    BY <2>1 DEF At
  <2>3. IsFiniteSet(At(pc, Consumers, {"lock", "giveback"}))
    <3>1. At(pc, Consumers, {"lock", "giveback"}) \subseteq Consumers
      BY DEF At
    <3> QED BY <3>1, KindsFinite, FS_Subset
  <2>4. Cardinality(At(pc, Consumers, {"lock", "giveback"})) # 0
    BY <2>2, <2>3, FS_EmptySet
  <2> QED BY <2>4, NumbersAre
<1>6. count # 0 /\ count \in 1..capacity
  <2>1. count # 0
    BY <1>3, <1>4, <1>5 DEF Sums
  <2> QED BY <1>3, <2>1 DEF IndInv, CoreInv, TypeInv
<1>7. /\ held' = [held EXCEPT ![t] = buffer[head]]
      /\ head' = Succ(head, capacity) /\ count' = count - 1 /\ GoTo(t, "post")
  BY <1>6 DEF Pop
<1>8. /\ Stored' = Stored /\ Claimed' = Claimed /\ Promised = Promised' + 1
      /\ Freed' = Freed + 1
  BY <1>1, <1>7, ConsumerMoves DEF IndInv, CoreInv
<1>9. Sums'
  BY <1>1, <1>3, <1>4, <1>7, <1>8 DEF Sums
<1>10. /\ head \in 0..(capacity - 1)
       /\ buffer \in [0..(capacity - 1) -> Msg \cup {Junk}]
       /\ tail = Slot(head, count, capacity)
       /\ \A i \in 1..count : Contents(buffer, head, count, capacity)[i] \in Msg
  BY DEF IndInv, CoreInv, TypeInv, RingInv
<1> DEFINE old == Contents(buffer, head, count, capacity)
           new == Contents(buffer, Succ(head, capacity), count - 1, capacity)
<1>11. /\ \A i \in 1..(count - 1) : new[i] = old[i + 1]
       /\ old[1] = buffer[head]
  BY <1>3, <1>6, <1>10, ContentsPop
<1>12. old # <<>> /\ Head(old) = buffer[head] /\ new = Tail(old)
  BY <1>3, <1>6, <1>10, ContentsTail
<1>13. Contents(buffer, head, count, capacity)' = new
  BY <1>1, <1>7
<1>14. \A i \in 1..count : old[i] \in Msg
  BY <1>10
<1> HIDE DEF old, new
<1>15. /\ buffer[head] \in Msg
       /\ \A i \in 1..(count - 1) : new[i] \in Msg
  BY <1>3, <1>6, <1>11, <1>14
<1>16. /\ head' \in 0..(capacity - 1)
       /\ tail = Slot(head', count - 1, capacity)
  <2>1. count - 1 \in 0..(capacity - 1) /\ (count - 1) + 1 = count
    BY <1>3, <1>6
  <2>2. Slot(Succ(head, capacity), count - 1, capacity)
          = Slot(head, (count - 1) + 1, capacity)
    BY <1>3, <1>10, <2>1, SlotOfSucc
  <2> QED BY <1>3, <1>7, <1>10, <2>1, <2>2, SuccInRange
<1>17. TypeInv'
  <2>1. count' \in 0..capacity
    BY <1>3, <1>6, <1>7
  <2> QED BY <1>1, <1>2, <1>7, <1>15, <1>16, <2>1 DEF IndInv, CoreInv, TypeInv, GoTo
<1>18. RingInv'
  BY <1>1, <1>7, <1>13, <1>15, <1>16 DEF RingInv, MutexFree
<1>19. held[t] = NoMsg
  BY <1>1 DEF IndInv, CoreInv, HandInv, TypeInv
<1> QED BY <1>6, <1>7, <1>9, <1>12, <1>13, <1>15, <1>17, <1>18, <1>19 DEF old

\* queue_pop under the mutex.
LEMMA PopKeeps ==
  ASSUME IndInv, NEW t \in Consumers, Pop(t)
  PROVE  CoreInv'
<1>1. /\ t \in Threads /\ pc[t] = "lock" /\ UNCHANGED mainVars
  BY ThreadFacts DEF Pop
<1>2. /\ GoTo(t, "post") /\ held' = [held EXCEPT ![t] = buffer[head]]
      /\ buffer[head] \in Msg /\ TypeInv' /\ RingInv' /\ Sums'
  BY PopFacts
<1>3. LiveInv'
  BY <1>1, <1>2, LiveStep
<1>4. HandInv'
  BY <1>1, <1>2, ThreadFacts DEF IndInv, CoreInv, TypeInv, HandInv, GoTo
<1> QED BY <1>2, <1>3, <1>4, SumsNext DEF IndInv, CoreInv

-----------------------------------------------------------------------------
(***************************************************************************)
(* The steps of main keep the invariant.                                    *)
(***************************************************************************)

\* Outside the end of the program the sums hold.
LEMMA SumsNow ==
  ASSUME IndInv, mpc # "done"
  PROVE  Sums
<1> QED BY DEF IndInv, CoreInv, Accounted

\* A step of main that touches neither the queue nor the threads, and is not
\* one half of a resize.
LEMMA QuietStep ==
  ASSUME IndInv, UNCHANGED <<slipped, ring, sems, workers>>,
         mpc \notin {"done", "incpost"}, mpc' # "incpost",
         mpc' \in {"decwait", "decintr"} => count < capacity - 1
  PROVE  HandInv' /\ RingInv' /\ Accounted'
<1>1. UNCHANGED <<buffer, head, tail, count, capacity, empty, full, pc, held>>
  BY DEF ring, sems, workers
<1>2. HandInv'
  BY <1>1 DEF IndInv, CoreInv, HandInv
<1>3. RingInv'
  BY <1>1 DEF IndInv, CoreInv, RingInv
<1>4. Sums'
  <2>1. Sums /\ Added' = Added /\ Owed' = Owed
    BY <1>1, SumsNow DEF Added, Owed
  <2>2. UNCHANGED <<Stored, Claimed, Freed, Promised>>
    BY <1>1, NumbersSame
  <2> QED BY <1>1, <2>1, <2>2 DEF Sums
<1> QED BY <1>2, <1>3, <1>4, SumsNext

\* Commands, and passes of the loop, that start or finish nothing.
LEMMA LoopKeeps ==
  ASSUME IndInv,
         MainLoop \/ CmdRemoveAll \/ CmdOther \/ CmdDecrease
  PROVE  CoreInv'
<1>1. /\ UNCHANGED <<slipped, ring, sems, workers>>
      /\ UNCHANGED <<prodCount, consCount, victim>>
      /\ mpc \in {"loop", "cmd"}
      /\ mpc' \in {"loop", "cmd", "removeall", "decwait"}
      /\ running' \in BOOLEAN /\ all' \in {"no", "kill", "end"}
      /\ mpc' = "decwait" => count < capacity - 1
  BY DEF MainLoop, CmdRemoveAll, CmdOther, CmdDecrease, IndInv, CoreInv, TypeInv
<1>2. HandInv' /\ RingInv' /\ Accounted'
  BY <1>1, QuietStep
<1>3. TypeInv'
  BY <1>1 DEF IndInv, CoreInv, TypeInv, ring, sems, workers
<1>4. LiveInv'
  BY <1>1 DEF IndInv, CoreInv, LiveInv, workers
<1> QED BY <1>2, <1>3, <1>4 DEF IndInv, CoreInv

\* The cancellation of the last thread of a kind.
LEMMA CancelKeeps ==
  ASSUME IndInv, NEW kind \in {"producer", "consumer"}, Cancel(kind),
         mpc \in {"cmd", "removeall"},
         UNCHANGED <<running, slipped, ring, sems, workers, all>>
  PROVE  CoreInv'
<1>1. mpc' = "join"
  BY DEF Cancel
<1>2. HandInv' /\ RingInv' /\ Accounted'
  BY <1>1, QuietStep
<1>3. prodCount \in 0..MaxProds /\ consCount \in 0..MaxCons /\ victim = -1
  BY DEF IndInv, CoreInv, TypeInv, LiveInv
<1>4. /\ prodCount' \in 0..MaxProds /\ consCount' \in 0..MaxCons
      /\ victim' \in Threads
      /\ \A t \in Producers : t >= prodCount' /\ t # victim' => t >= prodCount
      /\ \A t \in Consumers : t >= MaxProds + consCount' /\ t # victim'
                                => t >= MaxProds + consCount
  <2>1. CASE prodCount # 0 /\ prodCount' = prodCount - 1
               /\ victim' = prodCount - 1 /\ consCount' = consCount
    BY <1>3, <2>1, SemQueueAssumption DEF Threads, Producers, Consumers
  <2>2. CASE consCount # 0 /\ consCount' = consCount - 1
               /\ victim' = MaxProds + consCount - 1 /\ prodCount' = prodCount
    BY <1>3, <2>2, SemQueueAssumption DEF Threads, Producers, Consumers
  <2> QED BY <1>3, <2>1, <2>2 DEF Cancel
<1>5. TypeInv'
  BY <1>1, <1>4 DEF IndInv, CoreInv, TypeInv, ring, sems, workers
<1>6. \A t \in Threads : t # -1
  BY ThreadFacts
<1>7. LiveInv'
  BY <1>1, <1>3, <1>4, <1>6, ThreadFacts DEF IndInv, CoreInv, LiveInv, workers
<1> QED BY <1>2, <1>5, <1>7 DEF IndInv, CoreInv

\* Removal of one thread, and the loops of remove_all.
LEMMA RemoveKeeps ==
  ASSUME IndInv, CmdRemove \/ RemoveNext
  PROVE  CoreInv'
<1>1. CASE CmdRemove
  BY <1>1, CancelKeeps DEF CmdRemove
<1>2. CASE RemoveNext /\ \E kind \in {"producer", "consumer"} :
                            Cancel(kind) /\ UNCHANGED all
  BY <1>2, CancelKeeps DEF RemoveNext
<1>3. CASE RemoveNext /\ prodCount = 0 /\ consCount = 0
  <2>1. /\ mpc = "removeall" /\ mpc' \in {"loop", "destroy"} /\ all' = "no"
        /\ UNCHANGED <<running, slipped, ring, sems, workers, prodCount,
                       consCount, victim>>
    BY <1>3 DEF RemoveNext, IndInv, CoreInv, TypeInv
  <2>2. HandInv' /\ RingInv' /\ Accounted'
    BY <2>1, QuietStep
  <2>3. TypeInv'
    BY <2>1 DEF IndInv, CoreInv, TypeInv, ring, sems, workers
  <2>4. LiveInv'
    BY <1>3, <2>1 DEF IndInv, CoreInv, LiveInv, workers
  <2> QED BY <2>2, <2>3, <2>4 DEF IndInv, CoreInv
<1>4. ASSUME RemoveNext
      PROVE  \/ \E kind \in {"producer", "consumer"} : Cancel(kind) /\ UNCHANGED all
             \/ prodCount = 0 /\ consCount = 0
  BY <1>4 DEF RemoveNext
<1> QED BY <1>1, <1>2, <1>3, <1>4

\* pthread_join returns.
LEMMA JoinKeeps ==
  ASSUME IndInv, Join
  PROVE  CoreInv'
<1>1. /\ mpc = "join" /\ mpc' \in {"loop", "removeall"} /\ victim' = -1
      /\ pc[victim] = "off"
      /\ UNCHANGED <<running, slipped, ring, sems, workers, prodCount,
                     consCount, all>>
  BY DEF Join
<1>2. HandInv' /\ RingInv' /\ Accounted'
  BY <1>1, QuietStep
<1>3. TypeInv'
  BY <1>1 DEF IndInv, CoreInv, TypeInv, ring, sems, workers
<1>4. LiveInv'
  BY <1>1, ThreadFacts DEF IndInv, CoreInv, LiveInv, workers
<1> QED BY <1>2, <1>3, <1>4 DEF IndInv, CoreInv

\* A new thread.
LEMMA CreateKeeps ==
  ASSUME IndInv, CmdCreate
  PROVE  CoreInv'
<1>1. /\ mpc = "cmd" /\ mpc' = "loop" /\ victim = -1
      /\ UNCHANGED <<running, slipped, buffer, head, tail, count, capacity,
                     empty, full, held, victim, all>>
  BY DEF CmdCreate, ring, sems, IndInv, CoreInv, LiveInv
<1>2. PICK t \in Threads :
         /\ GoTo(t, "wait") /\ pc[t] = "off"
         /\ prodCount' \in 0..MaxProds /\ consCount' \in 0..MaxCons
         /\ \A u \in Producers : u >= prodCount' => u >= prodCount /\ u # t
         /\ \A u \in Consumers : u >= MaxProds + consCount'
                                   => u >= MaxProds + consCount /\ u # t
  <2>1. prodCount \in 0..MaxProds /\ consCount \in 0..MaxCons
    BY DEF IndInv, CoreInv, TypeInv
  <2>2. CASE prodCount < MaxProds /\ GoTo(prodCount, "wait")
               /\ prodCount' = prodCount + 1 /\ consCount' = consCount
    <3>1. prodCount \in Producers
      BY <2>1, <2>2, SemQueueAssumption DEF Producers
    <3>2. pc[prodCount] = "off"
      BY <1>1, <2>1, <3>1, ThreadFacts DEF IndInv, CoreInv, LiveInv
    <3>3. /\ prodCount' \in 0..MaxProds
          /\ \A u \in Producers : u >= prodCount' => u >= prodCount /\ u # prodCount
          /\ \A u \in Consumers : u # prodCount
      BY <2>1, <2>2, SemQueueAssumption DEF Producers, Consumers
    <3> QED BY <2>1, <2>2, <3>1, <3>2, <3>3, ThreadFacts
  <2>3. CASE consCount < MaxCons /\ GoTo(MaxProds + consCount, "wait")
               /\ consCount' = consCount + 1 /\ prodCount' = prodCount
    <3> DEFINE c == MaxProds + consCount
    <3>1. c \in Consumers /\ c \in Nat /\ c >= MaxProds + consCount
      BY <2>1, <2>3, SemQueueAssumption DEF Consumers
    <3>2. pc[c] = "off"
      BY <1>1, <3>1, ThreadFacts DEF IndInv, CoreInv, LiveInv
    <3>3. /\ consCount' \in 0..MaxCons
          /\ \A u \in Consumers : u >= MaxProds + consCount'
                                    => u >= MaxProds + consCount /\ u # c
          /\ \A u \in Producers : u # c
      BY <2>1, <2>3, SemQueueAssumption DEF Producers, Consumers
    <3>4. c \in Threads /\ GoTo(c, "wait")
      BY <2>3, <3>1, ThreadFacts
    <3> HIDE DEF c
    <3> QED BY <2>1, <2>3, <3>2, <3>3, <3>4
  <2> QED BY <2>2, <2>3 DEF CmdCreate
<1>3. UNCHANGED <<Stored, Claimed, Freed, Promised>>
  <2>1. CASE t \in Producers
    BY <1>2, <2>1, ProducerMoves DEF IndInv, CoreInv
  <2>2. CASE t \in Consumers
    BY <1>2, <2>2, ConsumerMoves DEF IndInv, CoreInv
  <2> QED BY <2>1, <2>2, ThreadFacts
<1>4. Sums'
  BY <1>1, <1>3, SumsNow DEF Sums, Added, Owed
<1>5. TypeInv'
  BY <1>1, <1>2 DEF IndInv, CoreInv, TypeInv, GoTo
<1>6. /\ \A u \in Threads : u # t => pc'[u] = pc[u]
      /\ pc'[t] = "wait"
  BY <1>2 DEF IndInv, CoreInv, TypeInv, GoTo
<1>7. LiveInv'
  <2>1. \A u \in Threads : u # -1
    BY ThreadFacts
  <2> QED BY <1>1, <1>2, <1>6, <2>1, ThreadFacts DEF IndInv, CoreInv, LiveInv
<1>8. HandInv'
  BY <1>1, <1>2, <1>6, ThreadFacts DEF IndInv, CoreInv, HandInv
<1>9. RingInv'
  BY <1>1 DEF IndInv, CoreInv, RingInv
<1> QED BY <1>4, <1>5, <1>7, <1>8, <1>9, SumsNext DEF IndInv, CoreInv

\* A new array with room for the messages keeps them, in order.
LEMMA ResizeKeeps ==
  ASSUME IndInv, NEW n \in Nat \ {0}, count < n, Resize(n),
         mpc' \notin {"decwait", "decintr"}
  PROVE  /\ RingInv'
         /\ capacity' \in Nat \ {0} /\ count' \in 0..capacity'
         /\ head' \in 0..(capacity' - 1) /\ tail' \in 0..(capacity' - 1)
         /\ buffer' \in [0..(capacity' - 1) -> Msg \cup {Junk}]
         /\ capacity' = n /\ count' = count
         /\ Contents(buffer, head, count, capacity)'
              = Contents(buffer, head, count, capacity)
<1>1. /\ capacity \in Nat \ {0} /\ head \in 0..(capacity - 1)
      /\ count \in 0..capacity /\ count \in Nat
      /\ buffer \in [0..(capacity - 1) -> Msg \cup {Junk}]
  BY DEF IndInv, CoreInv, TypeInv
<1>2. /\ buffer' = Relocate(buffer, head, count, capacity, n)
      /\ capacity' = n /\ head' = 0 /\ tail' = count /\ count' = count
  BY DEF Resize
<1>3. /\ count' \in 0..n /\ head' \in 0..(n - 1) /\ tail' \in 0..(n - 1)
  BY <1>1, <1>2
<1>4. buffer' \in [0..(n - 1) -> Msg \cup {Junk}]
  <2>1. \A i \in 0..(n - 1) : i < count => Slot(head, i, capacity) \in 0..(capacity - 1)
    <3> TAKE i \in 0..(n - 1)
    <3> HAVE i < count
    <3>1. i \in 0..capacity
      BY <1>1
    <3> QED BY <1>1, <3>1, SlotInRange
  <2> QED BY <1>1, <1>2, <2>1 DEF Relocate
<1>5. Contents(buffer, head, count, capacity)'
        = Contents(buffer, head, count, capacity)
  <2>1. count <= n
    BY <1>1
  <2>2. Contents(Relocate(buffer, head, count, capacity, n), 0, count, n)
          = Contents(buffer, head, count, capacity)
    BY <1>1, <2>1, ContentsRelocate
  <2> QED BY <1>2, <2>2
<1>6. tail' = Slot(head', count', capacity')
  <2>1. 0 \in 0..(n - 1) /\ count \in 0..n /\ 0 + count = count
    BY <1>1
  <2>2. Slot(0, count, n) = IF 0 + count < n THEN 0 + count ELSE 0 + count - n
    BY <2>1, SlotInRange
  <2> QED BY <1>2, <2>1, <2>2
<1>7. RingInv'
  BY <1>2, <1>5, <1>6 DEF IndInv, CoreInv, RingInv
<1> QED BY <1>2, <1>3, <1>4, <1>5, <1>7

\* queue_resize_increase up to the unlock: the new slot is not yet announced.
LEMMA IncreaseKeeps ==
  ASSUME IndInv, CmdIncrease
  PROVE  CoreInv'
<1>1. /\ mpc = "cmd" /\ mpc' = "incpost" /\ Resize(capacity + 1)
      /\ UNCHANGED <<running, slipped, empty, full, pc, held, prodCount,
                     consCount, victim, all>>
  BY DEF CmdIncrease, sems, workers
<1>2. capacity + 1 \in Nat \ {0} /\ count < capacity + 1
  BY DEF IndInv, CoreInv, TypeInv
<1>3. /\ RingInv'
      /\ capacity' \in Nat \ {0} /\ count' \in 0..capacity'
      /\ head' \in 0..(capacity' - 1) /\ tail' \in 0..(capacity' - 1)
      /\ buffer' \in [0..(capacity' - 1) -> Msg \cup {Junk}]
      /\ capacity' = capacity + 1 /\ count' = count
  BY <1>1, <1>2, ResizeKeeps
<1>4. Sums'
  <2>1. Sums /\ Added = 0 /\ Added' = 1 /\ Owed' = Owed + 1
    BY <1>1, <1>2, <1>3, SumsNow DEF Added, Owed
  <2>2. UNCHANGED <<Stored, Claimed, Freed, Promised>>
    BY <1>1, NumbersSame
  <2>3. /\ capacity \in Nat /\ count \in Nat /\ empty \in Nat
        /\ Freed \in Nat /\ Claimed \in Nat
    BY SumTypes
  <2> QED BY <1>1, <1>3, <2>1, <2>2, <2>3, SMTT(30) DEF Sums
<1>5. TypeInv'
  BY <1>1, <1>3 DEF IndInv, CoreInv, TypeInv
<1>6. LiveInv' /\ HandInv'
  BY <1>1 DEF IndInv, CoreInv, LiveInv, HandInv
<1> QED BY <1>3, <1>4, <1>5, <1>6, SumsNext DEF IndInv, CoreInv

\* queue_resize_increase announces the slot.
LEMMA IncreasePostKeeps ==
  ASSUME IndInv, IncreasePost
  PROVE  CoreInv'
<1>1. /\ mpc = "incpost" /\ mpc' = "loop" /\ empty' = empty + 1
      /\ UNCHANGED <<running, slipped, buffer, head, tail, count, capacity,
                     full, pc, held, prodCount, consCount, victim, all>>
  BY DEF IncreasePost, ring, workers
<1>2. Sums'
  <2>1. Sums /\ Added = 1 /\ Added' = 0 /\ Owed' = Owed
    BY <1>1, SumsNow DEF Added, Owed
  <2>2. UNCHANGED <<Stored, Claimed, Freed, Promised>>
    BY <1>1, NumbersSame
  <2>3. /\ capacity \in Nat /\ count \in Nat /\ empty \in Nat
        /\ Freed \in Nat /\ Claimed \in Nat
    BY SumTypes
  <2> QED BY <1>1, <2>1, <2>2, <2>3 DEF Sums
<1>3. TypeInv'
  BY <1>1 DEF IndInv, CoreInv, TypeInv
<1>4. LiveInv' /\ HandInv' /\ RingInv'
  BY <1>1 DEF IndInv, CoreInv, LiveInv, HandInv, RingInv
<1> QED BY <1>2, <1>3, <1>4, SumsNext DEF IndInv, CoreInv

\* queue_resize_decrease takes away a slot, which it has been given or, after
\* the signal, has not.
LEMMA DecreaseTakeKeeps ==
  ASSUME IndInv, DecreaseTake
  PROVE  CoreInv'
<1>1. /\ mpc \in {"decwait", "decintr"} /\ mpc' = "loop"
      /\ Resize(capacity - 1)
      /\ UNCHANGED <<running, full, pc, held, prodCount, consCount, victim,
                     all>>
  BY DEF DecreaseTake, workers
<1>2. capacity - 1 \in Nat \ {0} /\ count < capacity - 1
  BY <1>1 DEF IndInv, CoreInv, TypeInv, RingInv
<1>3. /\ RingInv'
      /\ capacity' \in Nat \ {0} /\ count' \in 0..capacity'
      /\ head' \in 0..(capacity' - 1) /\ tail' \in 0..(capacity' - 1)
      /\ buffer' \in [0..(capacity' - 1) -> Msg \cup {Junk}]
      /\ capacity' = capacity - 1 /\ count' = count
  BY <1>1, <1>2, ResizeKeeps
<1>4. capacity \in Nat /\ slipped \in BOOLEAN
  BY DEF IndInv, CoreInv, TypeInv
<1>5. CASE mpc = "decwait"
  <2>1. empty # 0 /\ empty' = empty - 1 /\ slipped' = slipped /\ slipped = FALSE
    BY <1>4, <1>5 DEF DecreaseTake, IndInv, CoreInv, TypeInv, SlipInv
  <2>2. Owed = capacity /\ Owed' = capacity'
    BY <2>1 DEF Owed
  <2>3. Owed' = Owed - 1
    BY <1>3, <2>2
  <2>4. /\ Sums /\ Added = 0 /\ Added' = 0
        /\ UNCHANGED <<Stored, Claimed, Freed, Promised>>
    BY <1>1, SumsNow, NumbersSame DEF Added
  <2>5. /\ count \in Nat /\ empty \in Nat /\ Freed \in Nat /\ Claimed \in Nat
        /\ Owed \in Nat
    BY SumTypes
  <2>6. /\ count = full + Stored + Promised
        /\ Owed = count + empty + Freed + Claimed + 0
    BY <2>4 DEF Sums
  <2>7. Owed' = count + empty' + Freed + Claimed + 0 /\ empty' \in Nat
    BY <2>1, <2>3, <2>5, <2>6
  <2>8. Sums'
    BY <1>1, <1>3, <2>4, <2>6, <2>7 DEF Sums
  <2>9. TypeInv'
    <3>1. slipped' \in BOOLEAN
      BY <2>1
    <3> QED BY <1>1, <1>3, <2>7, <3>1 DEF IndInv, CoreInv, TypeInv
  <2>10. LiveInv' /\ HandInv'
    BY <1>1 DEF IndInv, CoreInv, LiveInv, HandInv
  <2> QED BY <1>3, <2>8, <2>9, <2>10, SumsNext DEF CoreInv
<1>6. CASE mpc = "decintr"
  <2>1. empty' = empty /\ slipped' = TRUE /\ slipped = FALSE
    BY <1>4, <1>6 DEF DecreaseTake, IndInv, SlipInv
  <2>2. Owed = capacity /\ Owed' = capacity' + 1
    BY <2>1 DEF Owed
  <2>3. Owed' = Owed
    BY <1>3, <1>4, <2>2
  <2>4. /\ Sums /\ Added = 0 /\ Added' = 0
        /\ UNCHANGED <<Stored, Claimed, Freed, Promised>>
    BY <1>1, SumsNow, NumbersSame DEF Added
  <2>5. /\ count \in Nat /\ empty \in Nat /\ Freed \in Nat /\ Claimed \in Nat
        /\ Owed \in Nat
    BY SumTypes
  <2>6. /\ count = full + Stored + Promised
        /\ Owed = count + empty + Freed + Claimed + 0
    BY <2>4 DEF Sums
  <2>7. Owed' = count + empty' + Freed + Claimed + 0 /\ empty' \in Nat
    BY <2>1, <2>3, <2>5, <2>6
  <2>8. Sums'
    BY <1>1, <1>3, <2>4, <2>6, <2>7 DEF Sums
  <2>9. TypeInv'
    <3>1. slipped' \in BOOLEAN
      BY <2>1
    <3> QED BY <1>1, <1>3, <2>7, <3>1 DEF IndInv, CoreInv, TypeInv
  <2>10. LiveInv' /\ HandInv'
    BY <1>1 DEF IndInv, CoreInv, LiveInv, HandInv
  <2> QED BY <1>3, <2>8, <2>9, <2>10, SumsNext DEF CoreInv
<1> QED BY <1>1, <1>5, <1>6

\* queue_destroy empties the ring.
LEMMA DestroyKeeps ==
  ASSUME IndInv, Destroy
  PROVE  CoreInv'
<1>1. /\ mpc = "destroy" /\ mpc' = "done" /\ count' = 0
      /\ head' = Slot(head, count, capacity)
      /\ UNCHANGED <<running, slipped, buffer, tail, capacity, empty, full, pc,
                     held, prodCount, consCount, victim, all>>
  BY DEF Destroy, sems, workers, Slot
<1>2. /\ capacity \in Nat \ {0} /\ head \in 0..(capacity - 1)
      /\ tail \in 0..(capacity - 1) /\ tail = Slot(head, count, capacity)
  BY DEF IndInv, CoreInv, TypeInv, RingInv
<1>3. tail = Slot(tail, 0, capacity)
  <2>1. 0 \in 0..capacity /\ tail + 0 = tail /\ tail < capacity
    BY <1>2
  <2>2. Slot(tail, 0, capacity)
          = IF tail + 0 < capacity THEN tail + 0 ELSE tail + 0 - capacity
    BY <1>2, <2>1, SlotInRange
  <2> QED BY <2>1, <2>2
<1>4. RingInv'
  BY <1>1, <1>2, <1>3 DEF IndInv, CoreInv, RingInv
<1>5. TypeInv'
  <2>1. 0 \in 0..capacity
    BY <1>2
  <2> QED BY <1>1, <1>2, <2>1 DEF IndInv, CoreInv, TypeInv
<1>6. LiveInv' /\ HandInv' /\ Accounted'
  BY <1>1 DEF IndInv, CoreInv, LiveInv, HandInv, Accounted
<1> QED BY <1>4, <1>5, <1>6 DEF IndInv, CoreInv

\* The signal handler clears the flag, and may end main's sem_wait.
LEMMA SigintKeeps ==
  ASSUME IndInv, Sigint
  PROVE  CoreInv'
<1>1. /\ running' = FALSE
      /\ UNCHANGED <<slipped, buffer, head, tail, count, capacity, empty, full,
                     pc, held, prodCount, consCount, victim, all>>
      /\ mpc' = mpc \/ (mpc = "decwait" /\ mpc' = "decintr")
  BY DEF Sigint, ring, sems, workers
<1>2. TypeInv'
  BY <1>1 DEF IndInv, CoreInv, TypeInv
<1>3. LiveInv' /\ HandInv' /\ RingInv'
  BY <1>1 DEF IndInv, CoreInv, LiveInv, HandInv, RingInv
<1>4. Accounted'
  <2>1. Added' = Added /\ Owed' = Owed /\ (mpc' # "done" => mpc # "done")
    BY <1>1 DEF Added, Owed
  <2>2. UNCHANGED <<Stored, Claimed, Freed, Promised>>
    BY <1>1, NumbersSame
  <2> QED BY <1>1, <2>1, <2>2 DEF IndInv, CoreInv, Accounted, Sums
<1> QED BY <1>2, <1>3, <1>4 DEF IndInv, CoreInv

\* Nothing happens.
LEMMA StutterKeeps ==
  ASSUME IndInv, UNCHANGED vars
  PROVE  CoreInv'
<1>1. UNCHANGED <<running, slipped, buffer, head, tail, count, capacity, empty,
                  full, pc, held, mpc, prodCount, consCount, victim, all>>
  BY DEF vars, ring, sems, workers, mainVars
<1>2. TypeInv'
  BY <1>1 DEF IndInv, CoreInv, TypeInv
<1>3. LiveInv' /\ HandInv' /\ RingInv'
  BY <1>1 DEF IndInv, CoreInv, LiveInv, HandInv, RingInv
<1>4. Accounted'
  <2>1. Added' = Added /\ Owed' = Owed
    BY <1>1 DEF Added, Owed
  <2>2. UNCHANGED <<Stored, Claimed, Freed, Promised>>
    BY <1>1, NumbersSame
  <2> QED BY <1>1, <2>1, <2>2 DEF IndInv, CoreInv, Accounted, Sums
<1> QED BY <1>2, <1>3, <1>4 DEF IndInv, CoreInv

-----------------------------------------------------------------------------
\* The initial states satisfy the invariant.
LEMMA InitIndInv == Init => IndInv
<1> SUFFICES ASSUME Init PROVE IndInv
  OBVIOUS
<1>1. TypeInv
  <2>1. /\ 0 \in 0..(InitialCap - 1) /\ 0 \in 0..InitialCap
        /\ 0 \in 0..MaxProds /\ 0 \in 0..MaxCons
    BY SemQueueAssumption
  <2> QED BY <2>1, SemQueueAssumption DEF Init, TypeInv
<1>2. LiveInv
  BY ThreadFacts DEF Init, LiveInv
<1>3. HandInv
  BY ThreadFacts, SemQueueAssumption DEF Init, HandInv
<1>4. RingInv
  <2>1. InitialCap \in Nat \ {0} /\ 0 \in 0..(InitialCap - 1) /\ 0 \in 0..InitialCap
        /\ 0 + 0 < InitialCap
    BY SemQueueAssumption
  <2>2. Slot(0, 0, InitialCap) = IF 0 + 0 < InitialCap THEN 0 + 0 ELSE 0 + 0 - InitialCap
    BY <2>1, SlotInRange
  <2>3. Slot(0, 0, InitialCap) = 0
    BY <2>1, <2>2
  <2> QED BY <2>3 DEF Init, RingInv
<1>5. Accounted
  <2>1. \A t \in Threads : pc[t] = "off"
    BY DEF Init
  <2>2. /\ {t \in Producers : pc[t] \in {"post"}} = {}
        /\ {t \in Producers : pc[t] \in {"lock", "giveback"}} = {}
        /\ {t \in Consumers : pc[t] \in {"post"}} = {}
        /\ {t \in Consumers : pc[t] \in {"lock", "giveback"}} = {}
    BY <2>1, ThreadFacts
  <2>3. /\ Number(Producers, {"post"}) = 0
        /\ Number(Producers, {"lock", "giveback"}) = 0
        /\ Number(Consumers, {"post"}) = 0
        /\ Number(Consumers, {"lock", "giveback"}) = 0
    BY <2>2, FS_EmptySet DEF Number
  <2>4. Owed = 0 + empty + 0 + 0 + 0 /\ count = 0 + 0 + 0 /\ full = 0
    BY SemQueueAssumption DEF Init, Owed
  <2>5. Added = 0
    BY DEF Init, Added
  <2> QED BY <2>3, <2>4, <2>5
      DEF Init, Accounted, Sums, Stored, Claimed, Freed, Promised
<1>6. SlipInv
  BY DEF Init, SlipInv
<1> QED BY <1>1, <1>2, <1>3, <1>4, <1>5, <1>6 DEF IndInv, CoreInv

\* Every step keeps the main part of the invariant.
LEMMA NextCoreInv == IndInv /\ [Next]_vars => CoreInv'
<1> SUFFICES ASSUME IndInv, [Next]_vars PROVE CoreInv'
  OBVIOUS
<1>1. ASSUME NEW t \in Threads, Worker(t) PROVE CoreInv'
  <2>1. CASE SemWait(t)
    BY <2>1, SemWaitKeeps
  <2>2. CASE Push(t)
    BY <2>2, PushKeeps DEF Push
  <2>3. CASE Pop(t)
    BY <2>3, PopKeeps DEF Pop
  <2>4. CASE SemPost(t)
    BY <2>4, SemPostKeeps
  <2>5. CASE GiveBack(t)
    BY <2>5, GiveBackKeeps
  <2>6. CASE PrintAndSleep(t)
    BY <2>6, PrintAndSleepKeeps
  <2> QED BY <1>1, <2>1, <2>2, <2>3, <2>4, <2>5, <2>6 DEF Worker
<1>2. CASE MainStep
  BY <1>2, LoopKeeps, JoinKeeps, RemoveKeeps, IncreasePostKeeps,
     DecreaseTakeKeeps, DestroyKeeps DEF MainStep
<1>3. CASE Command
  BY <1>3, LoopKeeps, CreateKeeps, RemoveKeeps, IncreaseKeeps DEF Command
<1>4. CASE Sigint
  BY <1>4, SigintKeeps
<1>5. CASE Terminated \/ UNCHANGED vars
  BY <1>5, StutterKeeps DEF Terminated
<1> QED BY <1>1, <1>2, <1>3, <1>4, <1>5 DEF Next

\* Every step keeps the other part.
LEMMA NextSlipInv == IndInv /\ [Next]_vars => SlipInv'
<1> SUFFICES ASSUME IndInv, [Next]_vars PROVE SlipInv'
  OBVIOUS
<1>1. running \in BOOLEAN /\ SlipInv
  BY DEF IndInv, CoreInv, TypeInv
<1>2. ASSUME NEW t \in Threads, Worker(t) PROVE SlipInv'
  <2>1. UNCHANGED <<running, slipped, mpc>>
    BY <1>2 DEF Worker, SemWait, Push, Pop, SemPost, GiveBack, PrintAndSleep,
       mainVars
  <2> QED BY <1>1, <2>1 DEF SlipInv
<1>3. CASE MainStep
  <2>1. CASE MainLoop
    BY <1>1, <2>1 DEF SlipInv, MainLoop
  <2>2. CASE Join
    BY <1>1, <2>2 DEF SlipInv, Join
  <2>3. CASE RemoveNext
    BY <1>1, <2>3 DEF SlipInv, RemoveNext, Cancel
  <2>4. CASE IncreasePost \/ Destroy
    BY <1>1, <2>4 DEF SlipInv, IncreasePost, Destroy
  <2>5. CASE DecreaseTake
    BY <1>1, <2>5 DEF SlipInv, DecreaseTake
  <2> QED BY <1>3, <2>1, <2>2, <2>3, <2>4, <2>5 DEF MainStep
<1>4. CASE Command
  <2>1. mpc = "cmd" /\ mpc' # "decintr" /\ slipped' = slipped
    BY <1>4 DEF Command, CmdCreate, CmdRemove, Cancel, CmdRemoveAll, CmdOther,
       CmdIncrease, CmdDecrease
  <2> QED BY <1>1, <2>1 DEF SlipInv
<1>5. CASE Sigint
  BY <1>1, <1>5 DEF SlipInv, Sigint
<1>6. CASE Terminated \/ UNCHANGED vars
  BY <1>1, <1>6 DEF SlipInv, Terminated, vars, mainVars
<1> QED BY <1>2, <1>3, <1>4, <1>5, <1>6 DEF Next

\* The invariant holds in every reachable state.
LEMMA IndInvHolds == Spec => []IndInv
<1>1. IndInv /\ [Next]_vars => IndInv'
  BY NextCoreInv, NextSlipInv DEF IndInv
<1> QED BY <1>1, InitIndInv, PTL DEF Spec

\* Every message and every free slot is announced on its semaphore, or is in
\* the hands of a thread that will announce it, through all resizes and
\* refusals; a signal in the sem_wait of a resize leaves one slot too many, and
\* only when nothing can be put into it any more (queue.c 28-140).
THEOREM SemSlotsCorrect == Spec => []SlotsAccounted
<1>1. IndInv => SlotsAccounted
  <2> SUFFICES ASSUME IndInv PROVE SlotsAccounted
    OBVIOUS
  <2>1. SlipInv /\ capacity \in Nat /\ (mpc # "done" => Sums)
    BY DEF IndInv, CoreInv, TypeInv, Accounted
  <2>2. Owed = capacity + (IF slipped THEN 1 ELSE 0)
    BY <2>1 DEF Owed
  <2> QED BY <2>1, <2>2 DEF SlipInv, SlotsAccounted, Sums, Stored, Claimed,
          Freed, Promised, Added
<1> QED BY <1>1, IndInvHolds, PTL

\* queue_pop never returns NULL: a consumer that has passed sem_full finds a
\* message also when the program is to end (queue.c 61-66).
THEOREM PopNeverNull == Spec => []NoNullPop
<1>1. IndInv => NoNullPop
  BY SemQueueAssumption DEF IndInv, CoreInv, HandInv, NoNullPop
<1> QED BY <1>1, IndInvHolds, PTL

-----------------------------------------------------------------------------
(***************************************************************************)
(* The queue implements BoundedFifo: push is Put, pop is Take, the end of a *)
(* consumer's turn is Release, a resize that is not refused is Resize, and  *)
(* queue_destroy is Close.                                                  *)
(***************************************************************************)

\* The messages in the queue, oldest first, and its capacity.
Queued == Contents(buffer, head, count, capacity)
Room   == IF mpc = "done" THEN 0 ELSE capacity

\* A step that leaves the ring, the hands and the end of the program alone.
LEMMA FifoStutter ==
  ASSUME UNCHANGED <<buffer, head, count, capacity, held>>,
         mpc' = "done" <=> mpc = "done"
  PROVE  UNCHANGED Fifo!vars
<1>1. Queued' = Queued /\ Room' = Room
  BY DEF Queued, Room
<1> QED BY <1>1 DEF Fifo!vars, Queued, Room

\* The length of the queue is count.
LEMMA QueuedLength ==
  ASSUME IndInv
  PROVE  Len(Queued) = count
<1>1. /\ capacity \in Nat \ {0} /\ head \in 0..(capacity - 1)
      /\ count \in 0..capacity
      /\ buffer \in [0..(capacity - 1) -> Msg \cup {Junk}]
  BY DEF IndInv, CoreInv, TypeInv
<1>2. IsRing(Msg \cup {Junk}, buffer, head, count, capacity)
  BY <1>1 DEF IsRing
<1>3. head \in Nat /\ count \in Nat /\ capacity \in Nat
  BY <1>1
<1> QED BY <1>2, <1>3, ContentsType DEF Queued

\* queue_push is Put, or nothing when it is too late.
LEMMA PushRefines ==
  ASSUME IndInv, NEW t \in Producers, Push(t)
  PROVE  [Fifo!Next]_(Fifo!vars)
<1>1. CASE ~running
  BY <1>1, FifoStutter DEF Push, mainVars
<1>2. CASE running
  <2>1. PICK m \in Msg : IsAppend(Queued', Queued, m)
    BY <1>2, PushFacts DEF Queued
  <2>2. count \in 0..(capacity - 1) /\ capacity \in Nat \ {0}
    BY <1>2, PushFacts DEF IndInv, CoreInv, TypeInv
  <2>3. pc[t] # "off" /\ mpc' = mpc /\ capacity' = capacity /\ held' = held
    BY DEF Push, mainVars
  <2>4. mpc # "done"
    BY <2>3, RunningFacts, ThreadFacts
  <2>5. Len(Queued) < Room
    BY <2>2, <2>4, QueuedLength DEF Room
  <2>6. Queued' = Append(Queued, m)
    BY <2>1 DEF IsAppend
  <2>7. Fifo!Put(m)
    BY <2>3, <2>5, <2>6 DEF Fifo!Put, Queued, Room
  <2> QED BY <2>7 DEF Fifo!Next
<1> QED BY <1>1, <1>2

\* queue_pop is Take.
LEMMA PopRefines ==
  ASSUME IndInv, NEW t \in Consumers, Pop(t)
  PROVE  Fifo!Take(t)
<1>1. /\ held[t] = NoMsg /\ held' = [held EXCEPT ![t] = Head(Queued)]
      /\ Queued # <<>> /\ Queued' = Tail(Queued)
  BY PopFacts DEF Queued
<1>2. mpc' = mpc /\ capacity' = capacity
  BY DEF Pop, mainVars
<1> QED BY <1>1, <1>2 DEF Fifo!Take, Queued

\* The end of a consumer's turn is Release, that of a producer's nothing.
LEMMA PrintRefines ==
  ASSUME IndInv, NEW t \in Threads, PrintAndSleep(t)
  PROVE  [Fifo!Next]_(Fifo!vars)
<1>1. /\ held' = [c \in Consumers |-> IF c = t THEN NoMsg ELSE held[c]]
      /\ pc[t] = "print"
      /\ UNCHANGED <<buffer, head, count, capacity, mpc>>
  BY DEF PrintAndSleep, ring, mainVars
<1>2. held \in [Consumers -> Msg \cup {NoMsg}]
  BY DEF IndInv, CoreInv, TypeInv
<1>3. CASE t \in Producers
  <2>1. held' = held
    BY <1>1, <1>2, <1>3, ThreadFacts
  <2> QED BY <1>1, <2>1, FifoStutter
<1>4. CASE t \in Consumers
  <2>1. held[t] # NoMsg
    BY <1>1, <1>4, SemQueueAssumption DEF IndInv, CoreInv, HandInv
  <2>2. held' = [held EXCEPT ![t] = NoMsg]
    BY <1>1, <1>2, <1>4
  <2>3. Queued' = Queued /\ Room' = Room
    BY <1>1 DEF Queued, Room
  <2>4. Fifo!Release(t)
    BY <2>1, <2>2, <2>3 DEF Fifo!Release, Queued, Room
  <2> QED BY <1>4, <2>4 DEF Fifo!Next
<1> QED BY <1>3, <1>4, ThreadFacts

\* Both resizes are Resize.
LEMMA ResizeRefines ==
  ASSUME IndInv, NEW n \in Nat \ {0}, count < n, Resize(n), UNCHANGED held,
         mpc # "done", mpc' \notin {"decwait", "decintr", "done"}
  PROVE  Fifo!Resize
<1>1. Queued' = Queued /\ capacity' = n
  BY ResizeKeeps DEF Queued
<1>2. Len(Queued) <= n /\ capacity # 0
  BY QueuedLength DEF IndInv, CoreInv, TypeInv
<1> QED BY <1>1, <1>2 DEF Fifo!Resize, Queued

\* queue_destroy is Close: no consumer has a message left.
LEMMA DestroyRefines ==
  ASSUME IndInv, Destroy
  PROVE  Fifo!Close
<1>1. \A c \in Consumers : held[c] = NoMsg
  <2> TAKE c \in Consumers
  <2>1. pc[c] = "off"
    BY RunningFacts, ThreadFacts DEF Destroy
  <2> QED BY <2>1 DEF IndInv, CoreInv, HandInv, TypeInv
<1>2. Queued' = <<>>
  BY DEF Destroy, Queued, Contents
<1>3. mpc' = "done" /\ held' = held
  BY DEF Destroy, workers
<1> QED BY <1>1, <1>2, <1>3 DEF Fifo!Close, Queued

\* An empty queue at the start.
LEMMA InitRefines == Init => Fifo!Init
<1> SUFFICES ASSUME Init PROVE Fifo!Init
  OBVIOUS
<1>1. Queued = <<>>
  BY DEF Init, Queued, Contents
<1>2. Room \in Nat \ {0}
  BY SemQueueAssumption DEF Init, Room
<1> QED BY <1>1, <1>2 DEF Init, Fifo!Init, Queued, Room

\* Every step of the program is a step of the abstract queue or none of it.
LEMMA StepRefines ==
  ASSUME IndInv, [Next]_vars
  PROVE  [Fifo!Next]_(Fifo!vars)
<1>1. ASSUME NEW t \in Threads, Worker(t) PROVE [Fifo!Next]_(Fifo!vars)
  <2>1. CASE SemWait(t) \/ SemPost(t) \/ GiveBack(t)
    BY <2>1, FifoStutter DEF SemWait, SemPost, GiveBack, ring, mainVars
  <2>2. CASE Push(t)
    BY <2>2, PushRefines DEF Push
  <2>3. CASE Pop(t)
    BY <2>3, PopRefines DEF Pop, Fifo!Next
  <2>4. CASE PrintAndSleep(t)
    BY <2>4, PrintRefines
  <2> QED BY <1>1, <2>1, <2>2, <2>3, <2>4 DEF Worker
<1>2. ASSUME UNCHANGED <<ring, held>>, mpc # "done", mpc' # "done"
      PROVE  UNCHANGED Fifo!vars
  BY <1>2, FifoStutter DEF ring
<1>3. CASE MainLoop \/ Join \/ RemoveNext \/ IncreasePost \/ CmdCreate
             \/ CmdRemove \/ CmdRemoveAll \/ CmdOther \/ CmdDecrease
  BY <1>2, <1>3 DEF MainLoop, Join, RemoveNext, IncreasePost, CmdCreate, CmdRemove,
     CmdRemoveAll, CmdOther, CmdDecrease, Cancel, workers
<1>4. CASE CmdIncrease
  <2>1. capacity + 1 \in Nat \ {0} /\ count < capacity + 1
    BY DEF IndInv, CoreInv, TypeInv
  <2>2. Fifo!Resize
    BY <1>4, <2>1, ResizeRefines DEF CmdIncrease, workers
  <2> QED BY <2>2 DEF Fifo!Next
<1>5. CASE DecreaseTake
  <2>1. capacity - 1 \in Nat \ {0} /\ count < capacity - 1
    BY <1>5 DEF IndInv, CoreInv, TypeInv, RingInv, DecreaseTake
  <2>2. Fifo!Resize
    BY <1>5, <2>1, ResizeRefines DEF DecreaseTake, workers
  <2> QED BY <2>2 DEF Fifo!Next
<1>6. CASE Destroy
  BY <1>6, DestroyRefines DEF Fifo!Next
<1>7. CASE Sigint
  BY <1>7, FifoStutter DEF Sigint, ring, workers, mainVars
<1>8. CASE Terminated \/ UNCHANGED vars
  BY <1>8, FifoStutter DEF Terminated, vars, ring, workers, mainVars
<1> QED BY <1>1, <1>3, <1>4, <1>5, <1>6, <1>7, <1>8
        DEF Next, MainStep, Command

\* The queue built on semaphores is a bounded first-in-first-out queue, for any
\* number of threads, capacity and set of messages: order is kept across every
\* resize, each message goes to one consumer, none is lost.
THEOREM SemFifoCorrect == Spec => ImplementsFifo
<1>1. Init => Fifo!Init
  BY InitRefines
<1>2. IndInv /\ [Next]_vars => [Fifo!Next]_(Fifo!vars)
  BY StepRefines
<1> QED BY <1>1, <1>2, IndInvHolds, PTL DEF Spec, ImplementsFifo, Fifo!Spec

=============================================================================
