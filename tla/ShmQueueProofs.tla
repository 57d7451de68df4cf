--------------------------- MODULE ShmQueueProofs ---------------------------
(***************************************************************************)
(* Proofs about the shared-memory queue of lab04, for every size of the     *)
(* ring, number of processes, set of messages and number of starts: every   *)
(* variable stays in its range, the mutex and the slots are accounted for   *)
(* although processes are killed at any point and later starts take the     *)
(* semaphores over, and in a start that created its semaphores the segment  *)
(* is a bounded FIFO queue.                                                 *)
(***************************************************************************)
EXTENDS ShmQueue, DataTheorems, FiniteSetTheorems

-----------------------------------------------------------------------------
(***************************************************************************)
(* The inductive invariant.                                                 *)
(***************************************************************************)

\* A worker runs only in a slot below the count of its kind, and only while
\* the parent is between queue_init and queue_destroy; all that time the
\* semaphores exist.
LiveInv ==
  /\ \A t \in Producers : t >= prodCount => pc[t] = "off"
  /\ \A t \in Consumers : t >= MaxProcs + consCount => pc[t] = "off"
  /\ ppc \in {"init", "setall", "done", "dead"} =>
       \A t \in Workers : pc[t] = "off"
  /\ ppc \in {"init", "setall", "destroy", "done"} =>
       prodCount = 0 /\ consCount = 0
  /\ ppc \notin {"init", "done", "dead"} => semLive
  /\ ppc \in {"init", "setall"} => ~fresh
  /\ ppc = "setall" => blank
  /\ fresh => ~blank

\* A producer that waits for a slot or stores has a message in its hand, a
\* consumer has one only after it took it.
HandInv ==
  ppc # "dead" =>
    /\ \A t \in Producers : pc[t] \in {"lock", "body"} => held[t] \in Msg
    /\ \A t \in Consumers : pc[t] \notin {"post", "print"} => held[t] = NoMsg

\* The first half of SlotsAccounted.
SlotSum ==
  semLive => sem[0] + sem[1] + Cardinality(Inside) + stuck
               = IF blank THEN 0 ELSE QueueSize

\* With semaphores of this start the segment is consistent at every step, and
\* its free slots are those of the semaphore, give or take the one of the
\* process that is inside.
RingInv ==
  fresh /\ semLive =>
    /\ freeSlots \in 0..QueueSize
    /\ tail = Slot(head, QueueSize - freeSlots, QueueSize)
    /\ sem[2] = 1 => freeSlots = sem[0]
    /\ \A t \in Inside :
         freeSlots = IF t \in Producers <=> pc[t] = "body"
                       THEN sem[0] + 1 ELSE sem[0]

IndInv == /\ TypeOK /\ LiveInv /\ HandInv
          /\ MutexAccounted /\ SlotSum /\ RingInv

-----------------------------------------------------------------------------
(***************************************************************************)
(* Workers, the set of those inside, and the semaphores.                    *)
(***************************************************************************)

\* The array slots of the two kinds are different, and finitely many.
LEMMA WorkerFacts ==
  /\ Producers \subseteq Workers /\ Consumers \subseteq Workers
  /\ Workers \subseteq Nat
  /\ \A t \in Producers : t \notin Consumers
  /\ \A t \in Workers : t \in Producers \/ t \in Consumers
  /\ IsFiniteSet(Workers)
<1>1. /\ Producers \subseteq Workers /\ Consumers \subseteq Workers
      /\ Workers \subseteq Nat
      /\ \A t \in Producers : t \notin Consumers
      /\ \A t \in Workers : t \in Producers \/ t \in Consumers
  BY ShmQueueAssumption DEF Workers, Producers, Consumers
<1>2. Workers \subseteq 0..(2 * MaxProcs - 1)
  BY ShmQueueAssumption DEF Workers, Producers, Consumers
<1>3. IsFiniteSet(0..(2 * MaxProcs - 1))
  BY FS_Interval, ShmQueueAssumption
<1>4. IsFiniteSet(Workers)
  BY <1>2, <1>3, FS_Subset
<1> QED BY <1>1, <1>4

\* The number of processes inside is a number, 0 if there is none.
LEMMA InsideFinite ==
  /\ IsFiniteSet(Inside) /\ Cardinality(Inside) \in Nat
  /\ Cardinality(Inside) = 0 <=> Inside = {}
<1>1. IsFiniteSet(Inside)
  <2>1. Inside \subseteq Workers
    BY DEF Inside
  <2> QED BY <2>1, WorkerFacts, FS_Subset
<1>2. Cardinality(Inside) \in Nat
  BY <1>1, FS_CardinalityType
<1>3. Cardinality(Inside) = 0 <=> Inside = {}
  BY <1>1, FS_EmptySet
<1> QED BY <1>1, <1>2, <1>3

\* If at most one process is inside, one that is inside is alone.
LEMMA InsideAlone ==
  ASSUME NEW t \in Inside, Cardinality(Inside) <= 1
  PROVE  Inside = {t} /\ Cardinality(Inside) = 1
<1>1. IsFiniteSet(Inside) /\ Cardinality(Inside) \in Nat
  BY InsideFinite
<1>2. /\ IsFiniteSet(Inside \ {t})
      /\ Cardinality(Inside \ {t}) = Cardinality(Inside) - 1
  BY <1>1, FS_RemoveElement
<1>3. Cardinality(Inside \ {t}) \in Nat
  BY <1>2, FS_CardinalityType
<1>4. Cardinality(Inside) = 1 /\ Cardinality(Inside \ {t}) = 0
  BY <1>1, <1>2, <1>3
<1>5. Inside \ {t} = {}
  BY <1>2, <1>4, FS_EmptySet
<1> QED BY <1>4, <1>5

\* A process that enters: one more is inside.
LEMMA InsideEnters ==
  ASSUME TypeOK, NEW t \in Workers, NEW l, l \in {"body", "post"}, t \notin Inside,
         pc' = [pc EXCEPT ![t] = l]
  PROVE  /\ Inside' = Inside \cup {t}
         /\ Cardinality(Inside') = Cardinality(Inside) + 1
<1>1. Inside' = Inside \cup {t}
  BY DEF Inside, TypeOK
<1>2. IsFiniteSet(Inside)
  BY InsideFinite
<1>3. Cardinality(Inside \cup {t}) = Cardinality(Inside) + 1
  BY <1>2, FS_AddElement
<1> QED BY <1>1, <1>3

\* A process that leaves, or is killed inside: one less is inside.
LEMMA InsideLeaves ==
  ASSUME TypeOK, NEW t \in Inside, NEW l, l \notin {"body", "post"},
         pc' = [pc EXCEPT ![t] = l]
  PROVE  /\ Inside' = Inside \ {t}
         /\ Cardinality(Inside') = Cardinality(Inside) - 1
<1>1. Inside' = Inside \ {t}
  BY DEF Inside, TypeOK
<1>2. IsFiniteSet(Inside)
  BY InsideFinite
<1>3. Cardinality(Inside \ {t}) = Cardinality(Inside) - 1
  BY <1>2, FS_RemoveElement
<1> QED BY <1>1, <1>3

\* A step that takes nobody in or out.
LEMMA InsideStays ==
  ASSUME TypeOK, NEW t \in Workers, NEW l,
         t \in Inside <=> l \in {"body", "post"}, pc' = [pc EXCEPT ![t] = l]
  PROVE  Inside' = Inside
<1> QED BY DEF Inside, TypeOK

\* The values after a semop.
LEMMA SemOpValues ==
  ASSUME TypeOK, NEW take \in SUBSET (0..2), NEW give \in SUBSET (0..2),
         SemOp(take, give)
  PROVE  /\ \A i \in take : sem[i] # 0
         /\ sem' = [i \in 0..2 |-> sem'[i]]
         /\ \A i \in 0..2 :
              sem'[i] = IF i \in take THEN sem[i] - 1
                        ELSE IF i \in give THEN sem[i] + 1 ELSE sem[i]
<1>1. \A i \in 0..2 : sem[i] \in Nat
  BY DEF TypeOK
<1>2. \A i \in take : sem[i] # 0
  BY <1>1 DEF SemOp
<1> QED BY <1>2 DEF SemOp

\* A worker that is not off has a parent that works, so the semaphores are
\* there; one that is inside is alone, and nobody died inside.
LEMMA RunningFacts ==
  ASSUME IndInv, NEW t \in Workers, pc[t] # "off"
  PROVE  /\ ppc \notin {"init", "setall", "done", "dead", "destroy"} /\ semLive
         /\ t \in Inside => /\ ~blank /\ Inside = {t} /\ Cardinality(Inside) = 1
                            /\ sem[2] = 0 /\ stuck = 0
                            /\ sem[0] + sem[1] = QueueSize - 1
<1>1. ppc \notin {"init", "setall", "done", "dead"} /\ semLive
  BY DEF IndInv, LiveInv
<1>2. ppc # "destroy"
  <2> SUFFICES ASSUME ppc = "destroy" PROVE FALSE
    OBVIOUS
  <2>1. prodCount = 0 /\ consCount = 0
    BY DEF IndInv, LiveInv
  <2>2. (t \in Producers /\ t >= 0) \/ (t \in Consumers /\ t >= MaxProcs + 0)
    BY WorkerFacts, ShmQueueAssumption DEF Producers, Consumers
  <2> QED BY <2>1, <2>2 DEF IndInv, LiveInv
<1>3. ASSUME t \in Inside
      PROVE  /\ ~blank /\ Inside = {t} /\ Cardinality(Inside) = 1
             /\ sem[2] = 0 /\ stuck = 0 /\ sem[0] + sem[1] = QueueSize - 1
  <2>1. /\ sem[0] \in Nat /\ sem[1] \in Nat /\ sem[2] \in Nat /\ stuck \in Nat
        /\ QueueSize \in Nat /\ Cardinality(Inside) \in Nat
    BY InsideFinite, ShmQueueAssumption DEF IndInv, TypeOK
  <2>2. /\ sem[2] + Cardinality(Inside) + stuck = 1
        /\ ~blank
    <3>1. Cardinality(Inside) # 0
      BY <1>3, InsideFinite
    <3>2. sem[2] + Cardinality(Inside) + stuck = IF blank THEN 0 ELSE 1
      BY <1>1 DEF IndInv, MutexAccounted
    <3> QED BY <2>1, <3>1, <3>2
  <2>3. Cardinality(Inside) <= 1
    BY <2>1, <2>2
  <2>4. Inside = {t} /\ Cardinality(Inside) = 1
    BY <1>3, <2>3, InsideAlone
  <2>5. sem[0] + sem[1] + Cardinality(Inside) + stuck = QueueSize
    BY <1>1, <2>2 DEF IndInv, SlotSum
  <2> QED BY <2>1, <2>2, <2>4, <2>5
<1> QED BY <1>1, <1>2, <1>3

\* When the mutex is free nobody is inside and nobody died there.
LEMMA MutexFree ==
  ASSUME IndInv, semLive, sem[2] # 0
  PROVE  /\ Inside = {} /\ Cardinality(Inside) = 0 /\ stuck = 0 /\ sem[2] = 1
         /\ sem[0] + sem[1] = QueueSize /\ ~blank
<1>1. /\ sem[0] \in Nat /\ sem[1] \in Nat /\ sem[2] \in Nat /\ stuck \in Nat
      /\ QueueSize \in Nat /\ Cardinality(Inside) \in Nat
  BY InsideFinite, ShmQueueAssumption DEF IndInv, TypeOK
<1>2. /\ sem[2] + Cardinality(Inside) + stuck = IF blank THEN 0 ELSE 1
      /\ sem[0] + sem[1] + Cardinality(Inside) + stuck
           = IF blank THEN 0 ELSE QueueSize
  BY DEF IndInv, MutexAccounted, SlotSum
<1>3. sem[2] # 0 /\ ~blank
  BY <1>1, <1>2
<1>4. /\ Cardinality(Inside) = 0 /\ stuck = 0 /\ sem[2] = 1
      /\ sem[0] + sem[1] = QueueSize
  BY <1>1, <1>2, <1>3
<1> QED BY <1>3, <1>4, InsideFinite

-----------------------------------------------------------------------------
(***************************************************************************)
(* The steps of the workers keep the invariant.                             *)
(***************************************************************************)

\* A step of a worker outside the critical section.
LEMMA OutsideKeeps ==
  ASSUME IndInv, NEW t \in Workers, pc[t] # "off", t \notin Inside,
         NEW l, l \in {"loop", "lock", "exited"}, pc' = [pc EXCEPT ![t] = l],
         UNCHANGED <<sem, semLive, ringVars, prodCount, consCount, fresh, blank, stuck>>,
         TypeOK', HandInv', ppc' \notin {"init", "setall", "destroy", "done", "dead"}
  PROVE  IndInv'
<1>1. Inside' = Inside
  BY InsideStays DEF IndInv
<1>2. semLive
  BY RunningFacts
<1>3. \A u \in Workers : pc'[u] # pc[u] => u = t
  BY DEF IndInv, TypeOK
<1>4. LiveInv'
  BY <1>2, <1>3, WorkerFacts DEF IndInv, LiveInv
<1>5. MutexAccounted' /\ SlotSum'
  BY <1>1 DEF IndInv, MutexAccounted, SlotSum
<1>6. \A u \in Inside : pc'[u] = pc[u]
  BY <1>3
<1>7. RingInv'
  BY <1>1, <1>6 DEF IndInv, RingInv, ringVars
<1> QED BY <1>4, <1>5, <1>7 DEF IndInv

\* The producer makes up a message.
LEMMA ProducerLoopKeeps ==
  ASSUME IndInv, NEW t \in Producers, ProducerLoop(t)
  PROVE  IndInv'
<1>1. PICK m \in Msg : held' = [held EXCEPT ![t] = m]
  BY DEF ProducerLoop
<1>2. /\ t \in Workers /\ t \notin Consumers /\ t \notin Inside /\ pc[t] = "loop"
      /\ pc' = [pc EXCEPT ![t] = "lock"]
  BY WorkerFacts DEF ProducerLoop, Inside
<1>3. UNCHANGED <<sem, semLive, buffer, head, tail, freeSlots, ppc, running,
                  interrupted, chldArmed, prodCount, consCount, starts, fresh, blank,
                  stuck>>
  BY DEF ProducerLoop, ringVars, parentVars
<1>4. TypeOK'
  BY <1>1, <1>2, <1>3 DEF IndInv, TypeOK
<1>5. HandInv'
  BY <1>1, <1>2, <1>3, WorkerFacts DEF IndInv, TypeOK, HandInv
<1>6. ppc' \notin {"init", "setall", "destroy", "done", "dead"}
  BY <1>2, <1>3, RunningFacts
<1> QED BY <1>2, <1>3, <1>4, <1>5, <1>6, OutsideKeeps DEF ringVars

\* The consumer begins a turn.
LEMMA ConsumerLoopKeeps ==
  ASSUME IndInv, NEW t \in Consumers, ConsumerLoop(t)
  PROVE  IndInv'
<1>2. /\ t \in Workers /\ t \notin Producers /\ t \notin Inside /\ pc[t] = "loop"
      /\ pc' = [pc EXCEPT ![t] = "lock"]
  BY WorkerFacts DEF ConsumerLoop, Inside
<1>3. UNCHANGED <<sem, semLive, buffer, head, tail, freeSlots, held, ppc,
                  running, interrupted, chldArmed, prodCount, consCount, starts,
                  fresh, blank, stuck>>
  BY DEF ConsumerLoop, ringVars, parentVars
<1>4. TypeOK'
  BY <1>2, <1>3 DEF IndInv, TypeOK
<1>5. HandInv'
  BY <1>2, <1>3, WorkerFacts DEF IndInv, TypeOK, HandInv
<1>6. ppc' \notin {"init", "setall", "destroy", "done", "dead"}
  BY <1>2, <1>3, RunningFacts
<1> QED BY <1>2, <1>3, <1>4, <1>5, <1>6, OutsideKeeps DEF ringVars

\* A worker prints its message and begins again.
LEMMA WorkerPrintKeeps ==
  ASSUME IndInv, NEW t \in Workers, WorkerPrint(t)
  PROVE  IndInv'
<1>2. /\ t \notin Inside /\ pc[t] = "print" /\ pc' = [pc EXCEPT ![t] = "loop"]
      /\ held' = [held EXCEPT ![t] = NoMsg]
  BY WorkerFacts DEF WorkerPrint, Inside
<1>3. UNCHANGED <<sem, semLive, buffer, head, tail, freeSlots, ppc, running,
                  interrupted, chldArmed, prodCount, consCount, starts, fresh, blank,
                  stuck>>
  BY DEF WorkerPrint, ringVars, parentVars
<1>4. TypeOK'
  BY <1>2, <1>3 DEF IndInv, TypeOK
<1>5. HandInv'
  BY <1>2, <1>3, WorkerFacts DEF IndInv, TypeOK, HandInv
<1>6. ppc' \notin {"init", "setall", "destroy", "done", "dead"}
  BY <1>2, <1>3, RunningFacts
<1> QED BY <1>2, <1>3, <1>4, <1>5, <1>6, OutsideKeeps DEF ringVars

\* A worker leaves its loop and exits.
LEMMA WorkerExitKeeps ==
  ASSUME IndInv, NEW t \in Workers, WorkerExit(t)
  PROVE  IndInv'
<1>2. /\ t \notin Inside /\ pc[t] = "loop" /\ pc' = [pc EXCEPT ![t] = "exited"]
  BY DEF WorkerExit, Inside
<1>3. UNCHANGED <<sem, semLive, buffer, head, tail, freeSlots, held, running,
                  interrupted, prodCount, consCount, starts, fresh, blank, stuck>>
  BY DEF WorkerExit, ringVars
<1>4. /\ ppc \notin {"init", "setall", "destroy", "done", "dead"}
      /\ ppc' = ppc \/ ppc' \in {"cmd", "end"}
  BY <1>2, RunningFacts DEF WorkerExit, Interrupt
<1>5. TypeOK'
  BY <1>2, <1>3, <1>4 DEF IndInv, TypeOK, WorkerExit
<1>6. HandInv'
  BY <1>2, <1>3, <1>4, WorkerFacts DEF IndInv, TypeOK, HandInv
<1> QED BY <1>2, <1>3, <1>4, <1>5, <1>6, OutsideKeeps DEF ringVars

\* The semop that enters: a slot of semaphore s and the mutex, or nothing.
LEMMA EnterKeeps ==
  ASSUME IndInv, NEW t \in Workers, NEW s, s \in {0, 1}, pc[t] = "lock",
         s = 0 <=> t \in Producers, SemOp({s, 2}, {}),
         pc' = [pc EXCEPT ![t] = "body"],
         UNCHANGED <<semLive, ringVars, held, parentVars, stuck>>
  PROVE  IndInv'
<1>1. /\ sem[s] # 0 /\ sem[2] # 0
      /\ sem' = [i \in 0..2 |-> sem'[i]]
      /\ sem'[s] = sem[s] - 1 /\ sem'[2] = sem[2] - 1
      /\ \A i \in {0, 1} : i # s => sem'[i] = sem[i]
  BY SemOpValues DEF IndInv
<1>2. UNCHANGED <<semLive, buffer, head, tail, freeSlots, held, ppc, running,
                  interrupted, chldArmed, prodCount, consCount, starts, fresh, blank,
                  stuck>>
  BY DEF ringVars, parentVars
<1>3. semLive /\ ppc \notin {"init", "setall", "destroy", "done", "dead"}
  BY RunningFacts
<1>4. /\ Inside = {} /\ Cardinality(Inside) = 0 /\ stuck = 0 /\ sem[2] = 1
      /\ sem[0] + sem[1] = QueueSize /\ ~blank
  BY <1>1, <1>3, MutexFree
<1>5. Inside' = {t} /\ Cardinality(Inside') = 1
  <2>1. t \notin Inside
    BY <1>4
  <2>2. /\ Inside' = Inside \cup {t}
        /\ Cardinality(Inside') = Cardinality(Inside) + 1
    BY <2>1, InsideEnters DEF IndInv
  <2> QED BY <1>4, <2>2
<1>6. sem[0] \in 0..QueueSize /\ sem[1] \in 0..QueueSize /\ QueueSize \in Nat
  BY ShmQueueAssumption DEF IndInv, TypeOK
<1>7. /\ sem'[0] \in 0..QueueSize /\ sem'[1] \in 0..QueueSize /\ sem'[2] = 0
      /\ sem'[0] + sem'[1] = QueueSize - 1
  BY <1>1, <1>4, <1>6
<1>8. TypeOK'
  <2>1. sem' \in [0..2 -> 0..QueueSize]
    <3>1. \A i \in 0..2 : i = 0 \/ i = 1 \/ i = 2
      OBVIOUS
    <3> QED BY <1>1, <1>6, <1>7, <3>1
  <2> QED BY <1>2, <2>1 DEF IndInv, TypeOK
<1>9. LiveInv'
  BY <1>2, <1>3, WorkerFacts DEF IndInv, TypeOK, LiveInv
<1>10. HandInv'
  BY <1>2, WorkerFacts DEF IndInv, TypeOK, HandInv
<1>11. MutexAccounted' /\ SlotSum'
  BY <1>2, <1>4, <1>5, <1>6, <1>7 DEF MutexAccounted, SlotSum
<1>12. RingInv'
  <2> SUFFICES ASSUME fresh PROVE RingInv'
    BY <1>2 DEF RingInv
  <2>1. /\ freeSlots \in 0..QueueSize
        /\ tail = Slot(head, QueueSize - freeSlots, QueueSize)
        /\ freeSlots = sem[0]
    BY <1>3, <1>4 DEF IndInv, RingInv
  <2>2. pc'[t] = "body"
    BY DEF IndInv, TypeOK
  <2>3. freeSlots = IF t \in Producers THEN sem'[0] + 1 ELSE sem'[0]
    BY <1>1, <1>6, <2>1
  <2> QED BY <1>2, <1>5, <1>7, <2>1, <2>2, <2>3 DEF RingInv
<1> QED BY <1>8, <1>9, <1>10, <1>11, <1>12 DEF IndInv

\* The semop that leaves: announces on semaphore s and gives the mutex back.
LEMMA LeaveKeeps ==
  ASSUME IndInv, NEW t \in Workers, NEW s, s \in {0, 1}, pc[t] = "post",
         s = 1 <=> t \in Producers, SemOp({}, {s, 2}),
         pc' = [pc EXCEPT ![t] = "print"],
         UNCHANGED <<semLive, ringVars, held, parentVars, stuck>>
  PROVE  IndInv'
<1>1. /\ sem' = [i \in 0..2 |-> sem'[i]]
      /\ sem'[s] = sem[s] + 1 /\ sem'[2] = sem[2] + 1
      /\ \A i \in {0, 1} : i # s => sem'[i] = sem[i]
  BY SemOpValues DEF IndInv
<1>2. UNCHANGED <<semLive, buffer, head, tail, freeSlots, held, ppc, running,
                  interrupted, chldArmed, prodCount, consCount, starts, fresh, blank,
                  stuck>>
  BY DEF ringVars, parentVars
<1>3. t \in Inside
  BY DEF Inside
<1>4. /\ semLive /\ ppc \notin {"init", "setall", "destroy", "done", "dead"}
      /\ ~blank /\ Inside = {t} /\ Cardinality(Inside) = 1
      /\ sem[2] = 0 /\ stuck = 0 /\ sem[0] + sem[1] = QueueSize - 1
  BY <1>3, RunningFacts
<1>5. Inside' = {} /\ Cardinality(Inside') = 0
  <2>1. /\ Inside' = Inside \ {t}
        /\ Cardinality(Inside') = Cardinality(Inside) - 1
    BY <1>3, InsideLeaves DEF IndInv
  <2> QED BY <1>4, <2>1
<1>6. sem[0] \in 0..QueueSize /\ sem[1] \in 0..QueueSize /\ QueueSize \in Nat \ {0}
  BY ShmQueueAssumption DEF IndInv, TypeOK
<1>7. /\ sem'[0] \in 0..QueueSize /\ sem'[1] \in 0..QueueSize /\ sem'[2] = 1
      /\ sem'[0] + sem'[1] = QueueSize
  BY <1>1, <1>4, <1>6
<1>8. TypeOK'
  <2>1. sem' \in [0..2 -> 0..QueueSize]
    <3>1. \A i \in 0..2 : i = 0 \/ i = 1 \/ i = 2
      OBVIOUS
    <3> QED BY <1>1, <1>6, <1>7, <3>1
  <2> QED BY <1>2, <2>1 DEF IndInv, TypeOK
<1>9. LiveInv'
  BY <1>2, <1>4, WorkerFacts DEF IndInv, TypeOK, LiveInv
<1>10. HandInv'
  BY <1>2, WorkerFacts DEF IndInv, TypeOK, HandInv
<1>11. MutexAccounted' /\ SlotSum'
  BY <1>2, <1>4, <1>5, <1>6, <1>7 DEF MutexAccounted, SlotSum
<1>12. RingInv'
  <2> SUFFICES ASSUME fresh PROVE RingInv'
    BY <1>2 DEF RingInv
  <2>1. /\ freeSlots \in 0..QueueSize
        /\ tail = Slot(head, QueueSize - freeSlots, QueueSize)
        /\ freeSlots = IF t \in Producers THEN sem[0] ELSE sem[0] + 1
    BY <1>3, <1>4 DEF IndInv, RingInv
  <2>2. freeSlots = sem'[0]
    BY <1>1, <1>6, <2>1
  <2> QED BY <1>2, <1>5, <2>1, <2>2 DEF RingInv
<1> QED BY <1>8, <1>9, <1>10, <1>11, <1>12 DEF IndInv

\* The four semops of queue_push and queue_pop.
LEMMA SemOpsKeep ==
  ASSUME IndInv, NEW t \in Workers,
         \/ t \in Producers /\ (PushEnter(t) \/ PushLeave(t))
         \/ t \in Consumers /\ (PopEnter(t) \/ PopLeave(t))
  PROVE  IndInv'
<1>1. CASE t \in Producers /\ PushEnter(t)
  BY <1>1, EnterKeeps DEF PushEnter
<1>2. CASE t \in Producers /\ PushLeave(t)
  BY <1>2, LeaveKeeps DEF PushLeave
<1>3. CASE t \in Consumers /\ PopEnter(t)
  <2>1. t \notin Producers
    BY <1>3, WorkerFacts
  <2> DEFINE s == 1
  <2>2. /\ s \in {0, 1} /\ (s = 0 <=> t \in Producers)
        /\ SemOp({s, 2}, {}) /\ pc[t] = "lock" /\ pc' = [pc EXCEPT ![t] = "body"]
        /\ UNCHANGED <<semLive, ringVars, held, parentVars, stuck>>
    BY <1>3, <2>1 DEF PopEnter
  <2> HIDE DEF s
  <2> QED BY <2>2, EnterKeeps
<1>4. CASE t \in Consumers /\ PopLeave(t)
  <2>1. t \notin Producers
    BY <1>4, WorkerFacts
  <2> DEFINE s == 0
  <2>2. /\ s \in {0, 1} /\ (s = 1 <=> t \in Producers)
        /\ SemOp({}, {s, 2}) /\ pc[t] = "post" /\ pc' = [pc EXCEPT ![t] = "print"]
        /\ UNCHANGED <<semLive, ringVars, held, parentVars, stuck>>
    BY <1>4, <2>1 DEF PopLeave
  <2> HIDE DEF s
  <2> QED BY <2>2, LeaveKeeps
<1> QED BY <1>1, <1>2, <1>3, <1>4

\* A step inside that changes the ring and nothing of the semaphores.
LEMMA BodyKeeps ==
  ASSUME IndInv, NEW t \in Workers, pc[t] = "body",
         pc' = [pc EXCEPT ![t] = "post"],
         UNCHANGED <<sem, semLive, parentVars, stuck>>, TypeOK', HandInv', RingInv'
  PROVE  IndInv'
<1>1. t \in Inside
  BY DEF Inside
<1>2. Inside' = Inside
  BY <1>1, InsideStays DEF IndInv
<1>3. UNCHANGED <<ppc, prodCount, consCount, fresh, blank>> /\ semLive
      /\ ppc \notin {"init", "setall", "destroy", "done", "dead"}
  BY RunningFacts DEF parentVars
<1>4. LiveInv'
  BY <1>3, WorkerFacts DEF IndInv, TypeOK, LiveInv
<1>5. MutexAccounted' /\ SlotSum'
  BY <1>2, <1>3 DEF IndInv, MutexAccounted, SlotSum
<1> QED BY <1>4, <1>5 DEF IndInv

\* Storing finds a free slot: with the semaphores of this start there is room.
LEMMA PushRoom ==
  ASSUME IndInv, NEW t \in Producers, pc[t] = "body"
  PROVE  /\ t \in Workers /\ t \in Inside /\ semLive
         /\ held[t] \in Msg
         /\ fresh => /\ freeSlots \in 1..QueueSize /\ freeSlots = sem[0] + 1
                     /\ tail = Slot(head, QueueSize - freeSlots, QueueSize)
<1>1. t \in Workers /\ t \in Inside
  BY WorkerFacts DEF Inside
<1>2. semLive /\ ppc # "dead"
  BY <1>1, RunningFacts
<1>3. held[t] \in Msg
  BY <1>2 DEF IndInv, HandInv
<1>4. ASSUME fresh
      PROVE  /\ freeSlots \in 1..QueueSize /\ freeSlots = sem[0] + 1
             /\ tail = Slot(head, QueueSize - freeSlots, QueueSize)
  <2>1. /\ freeSlots = sem[0] + 1 /\ freeSlots \in 0..QueueSize
        /\ tail = Slot(head, QueueSize - freeSlots, QueueSize)
    BY <1>1, <1>2, <1>4 DEF IndInv, RingInv
  <2>2. sem[0] \in Nat /\ QueueSize \in Nat
    BY ShmQueueAssumption DEF IndInv, TypeOK
  <2> QED BY <2>1, <2>2
<1> QED BY <1>1, <1>2, <1>3, <1>4

\* Taking finds a message: with the semaphores of this start there is one.
LEMMA PopStock ==
  ASSUME IndInv, NEW t \in Consumers, pc[t] = "body"
  PROVE  /\ t \in Workers /\ t \in Inside /\ semLive /\ t \notin Producers
         /\ held[t] = NoMsg
         /\ fresh => /\ freeSlots \in 0..(QueueSize - 1) /\ freeSlots = sem[0]
                     /\ tail = Slot(head, QueueSize - freeSlots, QueueSize)
<1>1. t \in Workers /\ t \in Inside /\ t \notin Producers
  BY WorkerFacts DEF Inside
<1>2. semLive /\ ppc # "dead" /\ sem[0] + sem[1] = QueueSize - 1
  BY <1>1, RunningFacts
<1>3. held[t] = NoMsg
  BY <1>2 DEF IndInv, HandInv
<1>4. ASSUME fresh
      PROVE  /\ freeSlots \in 0..(QueueSize - 1) /\ freeSlots = sem[0]
             /\ tail = Slot(head, QueueSize - freeSlots, QueueSize)
  <2>1. /\ freeSlots = sem[0] /\ freeSlots \in 0..QueueSize
        /\ tail = Slot(head, QueueSize - freeSlots, QueueSize)
    BY <1>1, <1>2, <1>4 DEF IndInv, RingInv
  <2>2. sem[0] \in Nat /\ sem[1] \in Nat /\ QueueSize \in Nat
    BY ShmQueueAssumption DEF IndInv, TypeOK
  <2> QED BY <1>2, <2>1, <2>2
<1> QED BY <1>1, <1>2, <1>3, <1>4

\* queue_push stores its message.
LEMMA PushStoreKeeps ==
  ASSUME IndInv, NEW t \in Producers, PushStore(t)
  PROVE  IndInv'
<1>1. /\ pc[t] = "body" /\ pc' = [pc EXCEPT ![t] = "post"]
      /\ buffer' = [buffer EXCEPT ![tail] = held[t]]
      /\ tail' = Succ(tail, QueueSize) /\ freeSlots' = freeSlots - 1
      /\ UNCHANGED <<sem, semLive, head, held, ppc, running, interrupted,
                     chldArmed, prodCount, consCount, starts, fresh, blank, stuck>>
  BY DEF PushStore, parentVars
<1>2. /\ t \in Workers /\ t \in Inside /\ semLive /\ held[t] \in Msg
      /\ fresh => /\ freeSlots \in 1..QueueSize /\ freeSlots = sem[0] + 1
                  /\ tail = Slot(head, QueueSize - freeSlots, QueueSize)
  BY <1>1, PushRoom
<1>3. TypeOK'
  <2>1. tail' \in 0..(QueueSize - 1)
    BY <1>1, SuccInRange, ShmQueueAssumption DEF IndInv, TypeOK
  <2> QED BY <1>1, <1>2, <2>1 DEF IndInv, TypeOK
<1>4. HandInv'
  BY <1>1, <1>2, WorkerFacts DEF IndInv, TypeOK, HandInv
<1>5. RingInv'
  <2> SUFFICES ASSUME fresh PROVE RingInv'
    BY <1>1 DEF RingInv
  <2>1. Inside = {t} /\ sem[2] = 0
    BY <1>1, <1>2, RunningFacts
  <2>2. Inside' = {t}
    BY <1>1, <1>2, <2>1, InsideStays DEF IndInv
  <2>3. pc'[t] = "post"
    BY <1>1, <1>2 DEF IndInv, TypeOK
  <2>4. freeSlots' \in 0..QueueSize /\ freeSlots' = sem'[0]
    <3>1. freeSlots' = freeSlots - 1 /\ sem'[0] = sem[0] /\ sem[0] \in Nat
      BY <1>1 DEF IndInv, TypeOK
    <3>2. freeSlots \in 1..QueueSize /\ freeSlots = sem[0] + 1
      BY <1>2
    <3> QED BY <3>1, <3>2, ShmQueueAssumption
  <2>5. tail' = Slot(head, QueueSize - freeSlots', QueueSize)
    <3> DEFINE n == QueueSize - freeSlots
    <3>1. n \in 0..(QueueSize - 1) /\ QueueSize - freeSlots' = n + 1
      BY <1>1, <1>2, ShmQueueAssumption
    <3>2. tail = Slot(head, n, QueueSize)
      BY <1>2
    <3>3. head \in 0..(QueueSize - 1) /\ QueueSize \in Nat \ {0}
      BY ShmQueueAssumption DEF IndInv, TypeOK
    <3> HIDE DEF n
    <3>4. Succ(Slot(head, n, QueueSize), QueueSize) = Slot(head, n + 1, QueueSize)
      BY <3>1, <3>3, SuccOfSlot
    <3> QED BY <1>1, <3>1, <3>2, <3>4
  <2> QED BY <1>1, <2>1, <2>2, <2>3, <2>4, <2>5 DEF RingInv
<1> QED BY <1>1, <1>2, <1>3, <1>4, <1>5, BodyKeeps DEF parentVars

\* queue_pop takes the oldest message.
LEMMA PopTakeKeeps ==
  ASSUME IndInv, NEW t \in Consumers, PopTake(t)
  PROVE  IndInv'
<1>1. /\ pc[t] = "body" /\ pc' = [pc EXCEPT ![t] = "post"]
      /\ held' = [held EXCEPT ![t] = buffer[head]]
      /\ head' = Succ(head, QueueSize) /\ freeSlots' = freeSlots + 1
      /\ UNCHANGED <<sem, semLive, buffer, tail, ppc, running, interrupted,
                     chldArmed, prodCount, consCount, starts, fresh, blank, stuck>>
  BY DEF PopTake, parentVars
<1>2. /\ t \in Workers /\ t \in Inside /\ semLive /\ t \notin Producers
      /\ fresh => /\ freeSlots \in 0..(QueueSize - 1) /\ freeSlots = sem[0]
                  /\ tail = Slot(head, QueueSize - freeSlots, QueueSize)
  BY <1>1, PopStock
<1>3. TypeOK'
  <2>1. head' \in 0..(QueueSize - 1)
    BY <1>1, SuccInRange, ShmQueueAssumption DEF IndInv, TypeOK
  <2> QED BY <1>1, <1>2, <2>1 DEF IndInv, TypeOK
<1>4. HandInv'
  BY <1>1, <1>2, WorkerFacts DEF IndInv, TypeOK, HandInv
<1>5. RingInv'
  <2> SUFFICES ASSUME fresh PROVE RingInv'
    BY <1>1 DEF RingInv
  <2>1. Inside = {t} /\ sem[2] = 0
    BY <1>1, <1>2, RunningFacts
  <2>2. Inside' = {t}
    BY <1>1, <1>2, <2>1, InsideStays DEF IndInv
  <2>3. pc'[t] = "post"
    BY <1>1, <1>2 DEF IndInv, TypeOK
  <2>4. freeSlots' \in 0..QueueSize /\ freeSlots' = sem'[0] + 1
    BY <1>1, <1>2, ShmQueueAssumption DEF IndInv, TypeOK
  <2>5. tail' = Slot(head', QueueSize - freeSlots', QueueSize)
    <3> DEFINE n == QueueSize - freeSlots'
    <3>1. n \in 0..(QueueSize - 1) /\ QueueSize - freeSlots = n + 1
      BY <1>1, <1>2, ShmQueueAssumption
    <3>2. tail = Slot(head, n + 1, QueueSize)
      BY <1>2, <3>1
    <3>3. head \in 0..(QueueSize - 1) /\ QueueSize \in Nat \ {0}
      BY ShmQueueAssumption DEF IndInv, TypeOK
    <3> HIDE DEF n
    <3>4. Slot(Succ(head, QueueSize), n, QueueSize) = Slot(head, n + 1, QueueSize)
      BY <3>1, <3>3, SlotOfSucc
    <3>5. tail' = Slot(head', n, QueueSize)
      BY <1>1, <3>2, <3>4
    <3> QED BY <3>5 DEF n
  <2> QED BY <1>1, <1>2, <2>1, <2>2, <2>3, <2>4, <2>5 DEF RingInv
<1> QED BY <1>1, <1>2, <1>3, <1>4, <1>5, BodyKeeps DEF parentVars

-----------------------------------------------------------------------------
(***************************************************************************)
(* The steps of the parent and of the user keep the invariant.              *)
(***************************************************************************)

\* A step that changes nothing but where the parent is and its flags.
LEMMA ParentKeeps ==
  ASSUME IndInv, UNCHANGED <<sem, semLive, ringVars, pc, held, prodCount,
                             consCount, starts, fresh, blank, stuck>>,
         ppc \notin {"init", "setall", "done", "dead"},
         ppc' \in {"loop", "cmd", "killall", "end", "destroy"},
         ppc' = "destroy" => prodCount = 0 /\ consCount = 0,
         running' \in BOOLEAN, interrupted' \in BOOLEAN, chldArmed' \in BOOLEAN
  PROVE  IndInv'
<1>1. TypeOK'
  BY DEF IndInv, TypeOK, ringVars
<1>2. LiveInv'
  BY DEF IndInv, LiveInv
<1>3. HandInv'
  BY DEF IndInv, HandInv
<1>4. Inside' = Inside
  BY DEF Inside
<1>5. MutexAccounted' /\ SlotSum'
  BY <1>4 DEF IndInv, MutexAccounted, SlotSum
<1>6. RingInv'
  BY <1>4 DEF IndInv, RingInv, ringVars
<1> QED BY <1>1, <1>2, <1>3, <1>5, <1>6 DEF IndInv

\* main's loop, the keys that change no worker, and the first Ctrl-C.
LEMMA MainStepsKeep ==
  ASSUME IndInv, MainLoop \/ CmdNothing \/ CmdLeave \/ RemoveAllDone \/ Sigint
  PROVE  IndInv'
<1>1. running \in BOOLEAN /\ interrupted \in BOOLEAN /\ chldArmed \in BOOLEAN
  BY DEF IndInv, TypeOK
<1>2. CASE MainLoop
  BY <1>1, <1>2, ParentKeeps DEF MainLoop
<1>3. CASE CmdNothing
  BY <1>1, <1>3, ParentKeeps DEF CmdNothing
<1>4. CASE CmdLeave
  BY <1>1, <1>4, ParentKeeps DEF CmdLeave
<1>5. CASE RemoveAllDone
  BY <1>1, <1>5, ParentKeeps DEF RemoveAllDone
<1>6. CASE Sigint
  <2>1. CASE ppc \notin {"init", "setall"}
    <3>1. ppc \in {"loop", "cmd", "killall", "end", "destroy"}
      BY <1>6, <2>1 DEF Sigint, IndInv, TypeOK
    <3>2. /\ ppc' \in {"loop", "cmd", "killall", "end", "destroy"}
          /\ ppc' = "destroy" => ppc = "destroy"
      BY <1>6, <3>1 DEF Sigint, Interrupt
    <3>3. ppc' = "destroy" => prodCount = 0 /\ consCount = 0
      BY <3>2 DEF IndInv, LiveInv
    <3>4. /\ UNCHANGED <<sem, semLive, ringVars, pc, held, prodCount, consCount,
                         starts, fresh, blank, stuck>>
          /\ running' \in BOOLEAN /\ interrupted' \in BOOLEAN
          /\ chldArmed' \in BOOLEAN
      BY <1>1, <1>6 DEF Sigint
    <3> QED BY <2>1, <3>1, <3>2, <3>3, <3>4, ParentKeeps
  <2>2. CASE ppc \in {"init", "setall"}
    <3>1. /\ ppc' = ppc /\ running' \in BOOLEAN /\ interrupted' \in BOOLEAN
          /\ UNCHANGED <<sem, semLive, ringVars, pc, held, chldArmed, prodCount,
                         consCount, starts, fresh, blank, stuck>>
      BY <1>6, <2>2 DEF Sigint, Interrupt
    <3>2. TypeOK'
      BY <3>1 DEF IndInv, TypeOK, ringVars
    <3>3. LiveInv' /\ HandInv'
      BY <3>1 DEF IndInv, LiveInv, HandInv
    <3>4. Inside' = Inside
      BY <3>1 DEF Inside
    <3>5. MutexAccounted' /\ SlotSum'
      BY <3>1, <3>4 DEF IndInv, MutexAccounted, SlotSum
    <3>6. RingInv'
      BY <3>1, <3>4 DEF IndInv, RingInv, ringVars
    <3> QED BY <3>2, <3>3, <3>5, <3>6 DEF IndInv
  <2> QED BY <2>1, <2>2
<1> QED BY <1>2, <1>3, <1>4, <1>5, <1>6

\* fork: a worker starts in the first slot that is not in use.
LEMMA CreateKeeps ==
  ASSUME IndInv, NEW t \in Workers, pc[t] = "off",
         pc' = [pc EXCEPT ![t] = "loop"],
         ppc = "cmd", ppc' = "loop", TypeOK', LiveInv',
         UNCHANGED <<sem, semLive, ringVars, held, fresh, blank, stuck>>
  PROVE  IndInv'
<1>1. t \notin Inside
  BY DEF Inside
<1>2. Inside' = Inside
  BY <1>1, InsideStays DEF IndInv
<1>3. HandInv'
  BY WorkerFacts DEF IndInv, TypeOK, HandInv
<1>4. MutexAccounted' /\ SlotSum'
  BY <1>2 DEF IndInv, MutexAccounted, SlotSum
<1>5. \A u \in Inside : pc'[u] = pc[u]
  BY <1>1 DEF IndInv, TypeOK, Inside
<1>6. RingInv'
  BY <1>2, <1>5 DEF IndInv, RingInv, ringVars
<1> QED BY <1>3, <1>4, <1>6 DEF IndInv

\* 'p'
LEMMA CreateProducerKeeps ==
  ASSUME IndInv, CmdCreateProducer
  PROVE  IndInv'
<1>1. /\ ppc = "cmd" /\ ppc' = "loop"
      /\ UNCHANGED <<sem, semLive, ringVars, held, running, interrupted,
                     chldArmed, consCount, starts, fresh, blank, stuck>>
  BY DEF CmdCreateProducer
<1>2. CASE UNCHANGED <<pc, prodCount>>
  <2>1. running \in BOOLEAN /\ interrupted \in BOOLEAN /\ chldArmed \in BOOLEAN
    BY DEF IndInv, TypeOK
  <2> QED BY <1>1, <1>2, <2>1, ParentKeeps
<1>3. CASE /\ prodCount < MaxProcs
           /\ pc' = [pc EXCEPT ![prodCount] = "loop"]
           /\ prodCount' = prodCount + 1
  <2>1. prodCount \in 0..MaxProcs /\ MaxProcs \in Nat
    BY ShmQueueAssumption DEF IndInv, TypeOK
  <2>2. prodCount \in Producers /\ prodCount \in Workers
    BY <1>3, <2>1 DEF Producers, Workers
  <2>3. pc[prodCount] = "off"
    BY <2>1, <2>2 DEF IndInv, LiveInv
  <2>4. TypeOK'
    BY <1>1, <1>3, <2>1, <2>2 DEF IndInv, TypeOK, ringVars
  <2>5. LiveInv'
    <3>1. \A u \in Producers : u >= prodCount' => u >= prodCount /\ u # prodCount
      BY <1>3, <2>1, WorkerFacts
    <3> QED BY <1>1, <1>3, <2>2, <3>1, WorkerFacts DEF IndInv, TypeOK, LiveInv
  <2> QED BY <1>1, <1>3, <2>2, <2>3, <2>4, <2>5, CreateKeeps
<1> QED BY <1>2, <1>3 DEF CmdCreateProducer

\* 'c'
LEMMA CreateConsumerKeeps ==
  ASSUME IndInv, CmdCreateConsumer
  PROVE  IndInv'
<1>1. /\ ppc = "cmd" /\ ppc' = "loop"
      /\ UNCHANGED <<sem, semLive, ringVars, held, running, interrupted,
                     chldArmed, prodCount, starts, fresh, blank, stuck>>
  BY DEF CmdCreateConsumer
<1>2. CASE UNCHANGED <<pc, consCount>>
  <2>1. running \in BOOLEAN /\ interrupted \in BOOLEAN /\ chldArmed \in BOOLEAN
    BY DEF IndInv, TypeOK
  <2> QED BY <1>1, <1>2, <2>1, ParentKeeps
<1>3. CASE /\ consCount < MaxProcs
           /\ pc' = [pc EXCEPT ![MaxProcs + consCount] = "loop"]
           /\ consCount' = consCount + 1
  <2> DEFINE t == MaxProcs + consCount
  <2>1. consCount \in 0..MaxProcs /\ MaxProcs \in Nat
    BY ShmQueueAssumption DEF IndInv, TypeOK
  <2>2. t \in Consumers /\ t \in Workers /\ t >= MaxProcs + consCount
    BY <1>3, <2>1 DEF Consumers, Workers
  <2>3. pc[t] = "off"
    BY <2>2 DEF IndInv, LiveInv
  <2>4. TypeOK'
    BY <1>1, <1>3, <2>1, <2>2 DEF IndInv, TypeOK, ringVars
  <2>5. LiveInv'
    <3>1. \A u \in Consumers :
            u >= MaxProcs + consCount' => u >= MaxProcs + consCount /\ u # t
      BY <1>3, <2>1, WorkerFacts
    <3> QED BY <1>1, <1>3, <2>2, <3>1, WorkerFacts DEF IndInv, TypeOK, LiveInv
  <2> HIDE DEF t
  <2>6. pc' = [pc EXCEPT ![t] = "loop"]
    BY <1>3 DEF t
  <2> QED BY <1>1, <2>2, <2>3, <2>4, <2>5, <2>6, CreateKeeps
<1> QED BY <1>2, <1>3 DEF CmdCreateConsumer

\* SIGKILL: what a process inside had taken from the semaphores is lost, and
\* counted as such.
LEMMA KillKeeps ==
  ASSUME IndInv, NEW t \in Workers, Kill(t), TypeOK', LiveInv',
         UNCHANGED <<sem, semLive, ringVars, fresh, blank>>,
         ppc # "dead"
  PROVE  IndInv'
<1>1. /\ pc' = [pc EXCEPT ![t] = "off"] /\ held' = [held EXCEPT ![t] = NoMsg]
      /\ stuck' = IF t \in Inside THEN stuck + 1 ELSE stuck
  BY DEF Kill
<1>2. HandInv'
  BY <1>1, WorkerFacts DEF IndInv, TypeOK, HandInv
<1>3. /\ Inside' \subseteq Inside /\ t \notin Inside'
      /\ Cardinality(Inside') + stuck' = Cardinality(Inside) + stuck
  <2>0. Cardinality(Inside) \in Nat /\ stuck \in Nat
    BY InsideFinite DEF IndInv, TypeOK
  <2>1. CASE t \in Inside
    <3>1. /\ Inside' = Inside \ {t}
          /\ Cardinality(Inside') = Cardinality(Inside) - 1
      BY <1>1, <2>1, InsideLeaves DEF IndInv
    <3> QED BY <1>1, <2>0, <2>1, <3>1
  <2>2. CASE t \notin Inside
    <3>1. Inside' = Inside
      BY <1>1, <2>2, InsideStays DEF IndInv
    <3> QED BY <1>1, <2>2, <3>1
  <2> QED BY <2>1, <2>2
<1>4. \A n \in Nat : /\ n + Cardinality(Inside') + stuck'
                          = n + (Cardinality(Inside') + stuck')
                     /\ n + Cardinality(Inside) + stuck
                          = n + (Cardinality(Inside) + stuck)
  <2>1. Cardinality(Inside) \in Nat /\ stuck \in Nat /\ stuck' \in Nat
    BY InsideFinite DEF IndInv, TypeOK
  <2>2. Cardinality(Inside') \in Nat
    <3>1. IsFiniteSet(Inside')
      BY <1>3, InsideFinite, FS_Subset
    <3> QED BY <3>1, FS_CardinalityType
  <2> QED BY <2>1, <2>2
<1>5. sem[2] \in Nat /\ sem[0] + sem[1] \in Nat
  BY ShmQueueAssumption, SMTT(30) DEF IndInv, TypeOK
<1>6. MutexAccounted'
  BY <1>3, <1>4, <1>5 DEF IndInv, MutexAccounted
<1>7. SlotSum'
  BY <1>3, <1>4, <1>5 DEF IndInv, SlotSum
<1>8. \A u \in Inside' : u \in Inside /\ pc'[u] = pc[u]
  BY <1>1, <1>3 DEF IndInv, TypeOK, Inside
<1>9. RingInv'
  BY <1>8 DEF IndInv, RingInv, ringVars
<1> QED BY <1>2, <1>6, <1>7, <1>9 DEF IndInv

\* remove_last_producer
LEMMA RemoveProducerKeeps ==
  ASSUME IndInv, RemoveLastProducer, ppc \in {"cmd", "killall", "end"},
         ppc' \in {"loop", "killall", "end"}
  PROVE  IndInv'
<1> DEFINE t == prodCount - 1
<1>1. /\ prodCount \in 0..MaxProcs /\ MaxProcs \in Nat /\ prodCount > 0
      /\ prodCount' = prodCount - 1 /\ Kill(t)
      /\ UNCHANGED <<sem, semLive, ringVars, running, interrupted, consCount,
                     starts, fresh, blank>>
  BY ShmQueueAssumption DEF IndInv, TypeOK, RemoveLastProducer
<1>2. t \in Producers /\ t \in Workers
  BY <1>1 DEF Producers, Workers
<1>3. \A u \in Producers : u >= prodCount' => u = t \/ u >= prodCount
  BY <1>1, WorkerFacts
<1> HIDE DEF t
<1>4. TypeOK'
  <2>1. prodCount' \in 0..MaxProcs /\ stuck' \in Nat
    BY <1>1 DEF IndInv, TypeOK, Kill
  <2> QED BY <1>1, <1>2, <2>1 DEF IndInv, TypeOK, Kill, ringVars
<1>5. LiveInv'
  <2>1. \A u \in Workers : pc'[u] = (IF u = t THEN "off" ELSE pc[u])
    BY <1>1 DEF Kill, IndInv, TypeOK
  <2> QED BY <1>1, <1>3, <2>1, WorkerFacts DEF IndInv, LiveInv
<1> QED BY <1>1, <1>2, <1>4, <1>5, KillKeeps

\* remove_last_consumer
LEMMA RemoveConsumerKeeps ==
  ASSUME IndInv, RemoveLastConsumer, ppc \in {"cmd", "killall", "end"},
         ppc' \in {"loop", "killall", "end"}
  PROVE  IndInv'
<1> DEFINE t == MaxProcs + consCount - 1
<1>1. /\ consCount \in 0..MaxProcs /\ MaxProcs \in Nat /\ consCount > 0
      /\ consCount' = consCount - 1 /\ Kill(t)
      /\ UNCHANGED <<sem, semLive, ringVars, running, interrupted, prodCount,
                     starts, fresh, blank>>
  BY ShmQueueAssumption DEF IndInv, TypeOK, RemoveLastConsumer
<1>2. t \in Consumers /\ t \in Workers
  BY <1>1 DEF Consumers, Workers
<1>3. \A u \in Consumers :
        u >= MaxProcs + consCount' => u = t \/ u >= MaxProcs + consCount
  BY <1>1, WorkerFacts
<1> HIDE DEF t
<1>4. TypeOK'
  <2>1. consCount' \in 0..MaxProcs /\ stuck' \in Nat
    BY <1>1 DEF IndInv, TypeOK, Kill
  <2> QED BY <1>1, <1>2, <2>1 DEF IndInv, TypeOK, Kill, ringVars
<1>5. LiveInv'
  <2>1. \A u \in Workers : pc'[u] = (IF u = t THEN "off" ELSE pc[u])
    BY <1>1 DEF Kill, IndInv, TypeOK
  <2> QED BY <1>1, <1>3, <2>1, WorkerFacts DEF IndInv, LiveInv
<1> QED BY <1>1, <1>2, <1>4, <1>5, KillKeeps

\* 'P', 'C' and remove_all_procs
LEMMA RemovalsKeep ==
  ASSUME IndInv, CmdRemoveProducer \/ CmdRemoveConsumer \/ RemoveAll
  PROVE  IndInv'
<1>1. CASE CmdRemoveProducer
  BY <1>1, RemoveProducerKeeps DEF CmdRemoveProducer
<1>2. CASE CmdRemoveConsumer
  BY <1>2, RemoveConsumerKeeps DEF CmdRemoveConsumer
<1>3. CASE RemoveAll
  BY <1>3, RemoveProducerKeeps, RemoveConsumerKeeps DEF RemoveAll
<1> QED BY <1>1, <1>2, <1>3

\* queue_init: old semaphores are taken over, new ones are blank.
LEMMA QueueInitKeeps ==
  ASSUME IndInv, QueueInit
  PROVE  IndInv'
<1>1. /\ ppc = "init" /\ ppc' \in {"loop", "setall"} /\ buffer' = ZeroFilled
      /\ head' = 0 /\ tail' = 0 /\ freeSlots' \in Int /\ ~fresh'
      /\ UNCHANGED <<pc, held, running, interrupted, chldArmed, prodCount,
                     consCount, starts, fresh>>
  BY ShmQueueAssumption DEF QueueInit, IndInv, LiveInv
<1>2. QueueSize \in Nat \ {0}
  BY ShmQueueAssumption
<1>3. Inside = {} /\ Inside' = {} /\ Cardinality(Inside') = 0
  <2>1. Inside = {}
    BY <1>1 DEF IndInv, LiveInv, Inside
  <2>2. Inside' = Inside
    BY <1>1 DEF Inside
  <2> QED BY <2>1, <2>2, FS_EmptySet
<1>4. /\ ZeroFilled \in [0..(QueueSize - 1) -> Msg \cup {Junk}]
      /\ 0 \in 0..(QueueSize - 1) /\ 0 \in 0..QueueSize /\ QueueSize \in Int
  BY <1>2 DEF ZeroFilled
<1>5. HandInv' /\ RingInv'
  BY <1>1 DEF IndInv, HandInv, RingInv
<1>6. CASE semLive /\ ppc' = "loop" /\ UNCHANGED <<sem, semLive, blank, stuck>>
  <2>1. TypeOK'
    BY <1>1, <1>4, <1>6 DEF IndInv, TypeOK
  <2>2. LiveInv'
    BY <1>1, <1>6 DEF IndInv, LiveInv
  <2>3. MutexAccounted' /\ SlotSum'
    BY <1>3, <1>6 DEF IndInv, MutexAccounted, SlotSum
  <2> QED BY <1>5, <2>1, <2>2, <2>3 DEF IndInv
<1>7. CASE /\ ppc' = "setall" /\ sem' = [i \in 0..2 |-> 0]
           /\ semLive' = TRUE /\ blank' = TRUE /\ stuck' = 0
  <2>1. TypeOK'
    BY <1>1, <1>4, <1>7 DEF IndInv, TypeOK
  <2>2. LiveInv'
    BY <1>1, <1>7 DEF IndInv, LiveInv
  <2>3. MutexAccounted' /\ SlotSum'
    BY <1>3, <1>7 DEF MutexAccounted, SlotSum
  <2> QED BY <1>5, <2>1, <2>2, <2>3 DEF IndInv
<1> QED BY <1>6, <1>7 DEF QueueInit

\* queue_init: the new semaphores get their values.
LEMMA SetAllKeeps ==
  ASSUME IndInv, SetAll
  PROVE  IndInv'
<1>1. /\ ppc = "setall" /\ ppc' = "loop" /\ semLive
      /\ sem' = [i \in 0..2 |-> <<QueueSize, 0, 1>>[i + 1]]
      /\ fresh' = TRUE /\ blank' = FALSE
      /\ head' = 0 /\ tail' = 0 /\ freeSlots' = QueueSize
      /\ UNCHANGED <<semLive, buffer, pc, held, running, interrupted, chldArmed,
                     prodCount, consCount, starts, stuck>>
  BY DEF SetAll, IndInv, LiveInv
<1>2. QueueSize \in Nat \ {0}
  BY ShmQueueAssumption
<1>3. Inside' = {} /\ Cardinality(Inside') = 0
  <2>1. Inside = {}
    BY <1>1 DEF IndInv, LiveInv, Inside
  <2>2. Inside' = Inside
    BY <1>1 DEF Inside
  <2> QED BY <2>1, <2>2, FS_EmptySet
<1>4. sem'[0] = QueueSize /\ sem'[1] = 0 /\ sem'[2] = 1
  BY <1>1
<1>5. sem' \in [0..2 -> 0..QueueSize]
  <2>1. \A i \in 0..2 : i = 0 \/ i = 1 \/ i = 2
    OBVIOUS
  <2>2. sem' = [i \in 0..2 |-> sem'[i]]
    BY <1>1
  <2>3. QueueSize \in 0..QueueSize /\ 0 \in 0..QueueSize /\ 1 \in 0..QueueSize
    BY <1>2
  <2> QED BY <1>4, <2>1, <2>2, <2>3
<1>6. TypeOK'
  <2>1. 0 \in 0..(QueueSize - 1) /\ QueueSize \in Int
    BY <1>2
  <2> QED BY <1>1, <1>5, <2>1 DEF IndInv, TypeOK
<1>7. LiveInv' /\ HandInv'
  BY <1>1 DEF IndInv, LiveInv, HandInv
<1>8. stuck' = 0
  <2>1. sem[2] + Cardinality(Inside) + stuck = 0
    BY <1>1 DEF IndInv, LiveInv, MutexAccounted
  <2> QED BY <1>1, <2>1, InsideFinite, ShmQueueAssumption DEF IndInv, TypeOK
<1>9. MutexAccounted' /\ SlotSum'
  BY <1>1, <1>2, <1>3, <1>4, <1>8 DEF MutexAccounted, SlotSum
<1>10. RingInv'
  <2>1. Slot(0, 0, QueueSize) = 0
    BY <1>2, SlotInRange
  <2>2. freeSlots' \in 0..QueueSize /\ QueueSize - freeSlots' = 0
    BY <1>1, <1>2
  <2> QED BY <1>1, <1>3, <1>4, <2>1, <2>2 DEF RingInv
<1> QED BY <1>6, <1>7, <1>9, <1>10 DEF IndInv

\* The start fails; what it has left stays.
LEMMA QueueInitFailsKeeps ==
  ASSUME IndInv, QueueInitFails
  PROVE  IndInv'
<1>1. /\ ppc \in {"init", "setall"} /\ ppc' = "dead"
      /\ UNCHANGED <<sem, semLive, buffer, head, tail, freeSlots, pc, held,
                     running, interrupted, chldArmed, prodCount, consCount,
                     starts, fresh, blank, stuck>>
  BY DEF QueueInitFails, ringVars
<1>2. Inside' = Inside
  BY <1>1 DEF Inside
<1>3. TypeOK'
  BY <1>1 DEF IndInv, TypeOK
<1>4. LiveInv' /\ HandInv'
  BY <1>1 DEF IndInv, LiveInv, HandInv
<1>5. MutexAccounted' /\ SlotSum' /\ RingInv'
  BY <1>1, <1>2 DEF IndInv, MutexAccounted, SlotSum, RingInv
<1> QED BY <1>3, <1>4, <1>5 DEF IndInv

\* queue_destroy removes the semaphores when nobody uses them.
LEMMA QueueDestroyKeeps ==
  ASSUME IndInv, QueueDestroy
  PROVE  IndInv'
<1>1. /\ ppc = "destroy" /\ ppc' = "done" /\ semLive' = FALSE
      /\ UNCHANGED <<sem, buffer, head, tail, freeSlots, pc, held, running,
                     interrupted, chldArmed, prodCount, consCount, starts, fresh, blank,
                     stuck>>
  BY DEF QueueDestroy, ringVars
<1>2. \A t \in Workers : pc[t] = "off"
  BY <1>1, RunningFacts
<1>3. TypeOK'
  BY <1>1 DEF IndInv, TypeOK
<1>4. LiveInv'
  BY <1>1, <1>2 DEF IndInv, LiveInv
<1>5. HandInv'
  BY <1>1 DEF IndInv, HandInv
<1>6. MutexAccounted' /\ SlotSum' /\ RingInv'
  BY <1>1 DEF MutexAccounted, SlotSum, RingInv
<1> QED BY <1>3, <1>4, <1>5, <1>6 DEF IndInv

\* The second Ctrl-C ends everybody where he is; the semaphores stay.
LEMMA SigintAgainKeeps ==
  ASSUME IndInv, SigintAgain
  PROVE  IndInv'
<1>1. /\ ppc' = "dead" /\ pc' = [t \in Workers |-> "off"]
      /\ stuck' = stuck + Cardinality(Inside)
      /\ UNCHANGED <<sem, semLive, buffer, head, tail, freeSlots, held, running,
                     interrupted, chldArmed, prodCount, consCount, starts, fresh, blank>>
  BY DEF SigintAgain, ringVars
<1>2. Inside' = {} /\ Cardinality(Inside') = 0
  <2>1. Inside' = {}
    BY <1>1 DEF Inside
  <2> QED BY <2>1, FS_EmptySet
<1>3. /\ Cardinality(Inside) \in Nat /\ stuck \in Nat /\ stuck' \in Nat
      /\ sem[0] \in Nat /\ sem[1] \in Nat /\ sem[2] \in Nat
  BY <1>1, InsideFinite, ShmQueueAssumption DEF IndInv, TypeOK
<1>4. TypeOK'
  BY <1>1, <1>3 DEF IndInv, TypeOK
<1>5. LiveInv'
  BY <1>1, WorkerFacts DEF IndInv, LiveInv
<1>6. HandInv'
  BY <1>1 DEF HandInv
<1>7. MutexAccounted' /\ SlotSum'
  BY <1>1, <1>2, <1>3 DEF IndInv, MutexAccounted, SlotSum
<1>8. RingInv'
  BY <1>1, <1>2 DEF IndInv, RingInv
<1> QED BY <1>4, <1>5, <1>6, <1>7, <1>8 DEF IndInv

\* The next start finds what the last one left.
LEMMA RestartKeeps ==
  ASSUME IndInv, Restart
  PROVE  IndInv'
<1>1. /\ ppc \in {"done", "dead"} /\ ppc' = "init" /\ starts' = starts + 1
      /\ running' = TRUE /\ interrupted' = FALSE /\ chldArmed' = TRUE
      /\ prodCount' = 0 /\ consCount' = 0
      /\ held' = [t \in Workers |-> NoMsg] /\ fresh' = FALSE
      /\ UNCHANGED <<sem, semLive, buffer, head, tail, freeSlots, pc, blank,
                     stuck>>
  BY DEF Restart, ringVars
<1>2. \A t \in Workers : pc[t] = "off"
  BY <1>1 DEF IndInv, LiveInv
<1>3. TypeOK'
  <2>1. 0 \in 0..MaxProcs /\ starts' \in Nat
    BY <1>1, ShmQueueAssumption DEF IndInv, TypeOK
  <2> QED BY <1>1, <2>1 DEF IndInv, TypeOK
<1>4. LiveInv'
  BY <1>1, <1>2, WorkerFacts DEF LiveInv
<1>5. HandInv'
  BY <1>1, <1>2, WorkerFacts DEF HandInv
<1>6. Inside' = Inside
  BY <1>1 DEF Inside
<1>7. MutexAccounted' /\ SlotSum'
  BY <1>1, <1>6 DEF IndInv, MutexAccounted, SlotSum
<1>8. RingInv'
  BY <1>1 DEF RingInv
<1> QED BY <1>3, <1>4, <1>5, <1>7, <1>8 DEF IndInv

\* The inductive invariant holds initially.
LEMMA InitIndInv == Init => IndInv
<1> SUFFICES ASSUME Init PROVE IndInv
  OBVIOUS
<1>1. ~semLive /\ ~fresh /\ ppc = "init" /\ \A t \in Workers : pc[t] = "off"
  BY DEF Init
<1>2. TypeOK
  <2>1. /\ QueueSize \in Nat \ {0} /\ MaxProcs \in Nat
        /\ ZeroFilled \in [0..(QueueSize - 1) -> Msg \cup {Junk}]
    BY ShmQueueAssumption DEF ZeroFilled
  <2>2. /\ 0 \in 0..QueueSize /\ 0 \in 0..(QueueSize - 1) /\ 0 \in 0..MaxProcs
        /\ QueueSize \in Int
    BY <2>1
  <2> QED BY <2>1, <2>2 DEF Init, TypeOK
<1>3. LiveInv
  BY <1>1, WorkerFacts DEF Init, LiveInv
<1>4. HandInv
  BY WorkerFacts DEF Init, HandInv
<1>5. MutexAccounted /\ SlotSum /\ RingInv
  BY <1>1 DEF MutexAccounted, SlotSum, RingInv
<1> QED BY <1>2, <1>3, <1>4, <1>5 DEF IndInv

\* A step that changes nothing.
LEMMA StutterKeeps ==
  ASSUME IndInv, UNCHANGED vars
  PROVE  IndInv'
<1>1. UNCHANGED <<sem, semLive, buffer, head, tail, freeSlots, pc, held, ppc,
                  running, interrupted, chldArmed, prodCount, consCount, starts,
                  fresh, blank, stuck>>
  BY DEF vars, ringVars, parentVars
<1>2. Inside' = Inside
  BY <1>1 DEF Inside
<1>3. TypeOK'
  BY <1>1 DEF IndInv, TypeOK
<1>4. LiveInv' /\ HandInv'
  BY <1>1 DEF IndInv, LiveInv, HandInv
<1>5. MutexAccounted' /\ SlotSum' /\ RingInv'
  BY <1>1, <1>2 DEF IndInv, MutexAccounted, SlotSum, RingInv
<1> QED BY <1>3, <1>4, <1>5 DEF IndInv

\* No step breaks it.
LEMMA NextIndInv == IndInv /\ [Next]_vars => IndInv'
<1> SUFFICES ASSUME IndInv, [Next]_vars PROVE IndInv'
  OBVIOUS
<1>1. ASSUME NEW t \in Producers, ProducerStep(t) PROVE IndInv'
  <2>1. t \in Workers
    BY WorkerFacts
  <2> QED BY <1>1, <2>1, ProducerLoopKeeps, SemOpsKeep, PushStoreKeeps,
             WorkerPrintKeeps, WorkerExitKeeps DEF ProducerStep
<1>2. ASSUME NEW t \in Consumers, ConsumerStep(t) PROVE IndInv'
  <2>1. t \in Workers
    BY WorkerFacts
  <2> QED BY <1>2, <2>1, ConsumerLoopKeeps, SemOpsKeep, PopTakeKeeps,
             WorkerPrintKeeps, WorkerExitKeeps DEF ConsumerStep
<1>3. CASE ParentStep
  BY <1>3, QueueInitKeeps, SetAllKeeps, QueueInitFailsKeeps, MainStepsKeep, RemovalsKeep, QueueDestroyKeeps
     DEF ParentStep
<1>4. CASE UserStep
  BY <1>4, CreateProducerKeeps, CreateConsumerKeeps, RemovalsKeep,
     MainStepsKeep, SigintAgainKeeps, RestartKeeps DEF UserStep
<1>5. CASE Ended \/ UNCHANGED vars
  BY <1>5, StutterKeeps DEF Ended
<1> QED BY <1>1, <1>2, <1>3, <1>4, <1>5 DEF Next

\* It is an invariant.
LEMMA IndInvHolds == Spec => []IndInv
<1> QED BY InitIndInv, NextIndInv, PTL DEF Spec

\* The second half of SlotsAccounted is what the ring invariant says when the
\* mutex is free.
LEMMA SlotsFromInv == IndInv => SlotsAccounted
<1> SUFFICES ASSUME IndInv, semLive
             PROVE  /\ sem[0] + sem[1] + Cardinality(Inside) + stuck
                         = IF blank THEN 0 ELSE QueueSize
                    /\ fresh /\ sem[2] = 1 =>
                         /\ freeSlots = sem[0]
                         /\ QueueSize - freeSlots = sem[1]
                         /\ tail = Slot(head, sem[1], QueueSize)
  BY DEF SlotsAccounted
<1>1. sem[0] + sem[1] + Cardinality(Inside) + stuck
        = IF blank THEN 0 ELSE QueueSize
  BY DEF IndInv, SlotSum
<1>2. ASSUME fresh, sem[2] = 1
      PROVE  /\ freeSlots = sem[0] /\ QueueSize - freeSlots = sem[1]
             /\ tail = Slot(head, sem[1], QueueSize)
  <2>1. sem[2] # 0
    BY <1>2
  <2>2. sem[0] + sem[1] = QueueSize
    BY <2>1, MutexFree
  <2>3. /\ sem[0] \in Nat /\ sem[1] \in Nat /\ QueueSize \in Nat
    BY ShmQueueAssumption DEF IndInv, TypeOK
  <2>4. freeSlots = sem[0] /\ tail = Slot(head, QueueSize - freeSlots, QueueSize)
    BY <1>2 DEF IndInv, RingInv
  <2>5. QueueSize - freeSlots = sem[1]
    BY <2>2, <2>3, <2>4
  <2> QED BY <2>4, <2>5
<1> QED BY <1>1, <1>2

\* Every variable of the shared-memory queue stays in its range: no semaphore
\* is ever counted beyond the size of the ring (queue.c 64-102).
THEOREM ShmTypeCorrect == Spec => []TypeOK
<1>1. IndInv => TypeOK
  BY DEF IndInv
<1> QED BY <1>1, IndInvHolds, PTL

\* The mutex is free, or owned by one living process, or lost with one that
\* was killed inside, in all starts that share the semaphores: at most one
\* process is ever between the two semops of queue_push and queue_pop
\* (queue.c 64-102, main.c 178-194).
THEOREM MutexCorrect == Spec => []MutexAccounted
<1>1. IndInv => MutexAccounted
  BY DEF IndInv
<1> QED BY <1>1, IndInvHolds, PTL

\* Every slot is free, filled, in the work of the process inside, or lost with
\* the one killed there, and a segment with semaphores of its own tells the
\* same (queue.c 64-102, main.c 178-194).
THEOREM SlotsCorrect == Spec => []SlotsAccounted
<1> QED BY SlotsFromInv, IndInvHolds, PTL

-----------------------------------------------------------------------------
(***************************************************************************)
(* The segment is a bounded FIFO queue.                                     *)
(***************************************************************************)

\* A step that changes neither the ring nor what consumers hold, and is not
\* queue_destroy, is a stuttering step of the abstract queue.
LEMMA FifoStutter ==
  ASSUME UNCHANGED ringVars, \A t \in Consumers : held'[t] = held[t],
         ppc' = "done" <=> ppc = "done"
  PROVE  UNCHANGED Fifo!vars
<1>1. Queued' = Queued
  BY DEF Queued, ringVars
<1>2. [t \in Consumers |-> held[t]]' = [t \in Consumers |-> held[t]]
  OBVIOUS
<1>3. /\ (IF ppc = "done" THEN 0 ELSE QueueSize)'
           = IF ppc = "done" THEN 0 ELSE QueueSize
      /\ (IF ppc = "done" THEN <<>> ELSE Queued)'
           = IF ppc = "done" THEN <<>> ELSE Queued
  BY <1>1
<1> QED BY <1>2, <1>3 DEF Fifo!vars

\* The contents of a consistent ring are a sequence.
LEMMA QueuedSeq ==
  ASSUME NEW b \in [0..(QueueSize - 1) -> Msg \cup {Junk}],
         NEW h \in 0..(QueueSize - 1), NEW n \in 0..QueueSize
  PROVE  /\ Contents(b, h, n, QueueSize) \in Seq(Msg \cup {Junk})
         /\ Len(Contents(b, h, n, QueueSize)) = n
<1>1. QueueSize \in Nat \ {0} /\ QueueSize \in Nat
  BY ShmQueueAssumption
<1>2. h \in Nat /\ n \in Nat
  BY <1>1
<1>3. IsRing(Msg \cup {Junk}, b, h, n, QueueSize)
  BY <1>1 DEF IsRing
<1> QED BY <1>1, <1>2, <1>3, ContentsType

\* queue_push appends its message.
LEMMA PushIsPut ==
  ASSUME IndInv, fresh, NEW t \in Producers, PushStore(t)
  PROVE  Fifo!Next
<1> DEFINE n == QueueSize - freeSlots
           m == held[t]
<1>1. /\ pc[t] = "body" /\ ppc' = ppc /\ head' = head /\ held' = held
      /\ buffer' = [buffer EXCEPT ![tail] = m]
      /\ freeSlots' = freeSlots - 1
  BY DEF PushStore, parentVars
<1>2. /\ t \in Workers /\ m \in Msg /\ freeSlots \in 1..QueueSize
      /\ tail = Slot(head, n, QueueSize)
  BY <1>1, PushRoom
<1>3. /\ QueueSize \in Nat \ {0} /\ head \in 0..(QueueSize - 1)
      /\ buffer \in [0..(QueueSize - 1) -> Msg \cup {Junk}]
  BY ShmQueueAssumption DEF IndInv, TypeOK
<1>4. /\ n \in 0..(QueueSize - 1) /\ n \in 0..QueueSize
      /\ QueueSize - freeSlots' = n + 1
  BY <1>1, <1>2, <1>3
<1>5. ppc # "done"
  BY <1>1, <1>2, RunningFacts
<1> HIDE DEF n, m
<1>6. Queued = Contents(buffer, head, n, QueueSize)
  BY DEF Queued, n
<1>7. Queued' = Contents(buffer', head, n + 1, QueueSize)
  BY <1>1, <1>4 DEF Queued
<1>8. Queued' = Append(Queued, m)
  <2> DEFINE V == Msg \cup {Junk}
             b == buffer
             d == buffer'
  <2>1. /\ m \in V /\ b \in [0..(QueueSize - 1) -> V]
        /\ d \in [0..(QueueSize - 1) -> V]
        /\ d[Slot(head, n, QueueSize)] = m
        /\ \A j \in 0..(QueueSize - 1) :
             j # Slot(head, n, QueueSize) => d[j] = b[j]
    BY <1>1, <1>2, <1>3 DEF IndInv, TypeOK
  <2> HIDE DEF V, b, d
  <2>2. IsAppend(Contents(d, head, n + 1, QueueSize),
                 Contents(b, head, n, QueueSize), m)
    BY <1>3, <1>4, <2>1, ContentsAppend
  <2>3. IsAppend(Queued', Queued, m)
    BY <1>6, <1>7, <2>2 DEF b, d
  <2> QED BY <2>3 DEF IsAppend
<1>9. Len(Queued) < QueueSize
  <2>1. Len(Queued) = n
    BY <1>3, <1>4, <1>6, QueuedSeq
  <2> QED BY <1>3, <1>4, <2>1
<1>10. Fifo!Put(m)
  BY <1>1, <1>5, <1>8, <1>9 DEF Fifo!Put
<1> QED BY <1>2, <1>10 DEF Fifo!Next

\* queue_pop hands out the oldest message.
LEMMA PopIsTake ==
  ASSUME IndInv, fresh, NEW t \in Consumers, PopTake(t)
  PROVE  Fifo!Next
<1> DEFINE n == QueueSize - freeSlots
<1>1. /\ pc[t] = "body" /\ ppc' = ppc /\ buffer' = buffer
      /\ head' = Succ(head, QueueSize) /\ freeSlots' = freeSlots + 1
      /\ held' = [held EXCEPT ![t] = buffer[head]]
  BY DEF PopTake, parentVars
<1>2. /\ t \in Workers /\ held[t] = NoMsg /\ freeSlots \in 0..(QueueSize - 1)
  BY <1>1, PopStock
<1>3. /\ QueueSize \in Nat \ {0} /\ head \in 0..(QueueSize - 1)
      /\ buffer \in [0..(QueueSize - 1) -> Msg \cup {Junk}]
  BY ShmQueueAssumption DEF IndInv, TypeOK
<1>4. n \in 1..QueueSize /\ QueueSize - freeSlots' = n - 1
  BY <1>1, <1>2, <1>3
<1>5. ppc # "done"
  BY <1>1, <1>2, RunningFacts
<1> HIDE DEF n
<1>6. Queued = Contents(buffer, head, n, QueueSize)
  BY DEF Queued, n
<1>7. Queued' = Contents(buffer, Succ(head, QueueSize), n - 1, QueueSize)
  BY <1>1, <1>4 DEF Queued
<1>8. /\ Queued # <<>> /\ Head(Queued) = buffer[head]
      /\ Queued' = Tail(Queued)
  BY <1>3, <1>4, <1>6, <1>7, ContentsTail, ZenonT(40)
<1>9. [c \in Consumers |-> held[c]]'
         = [[c \in Consumers |-> held[c]] EXCEPT ![t] = Head(Queued)]
  BY <1>1, <1>8, WorkerFacts DEF IndInv, TypeOK
<1>10. Fifo!Take(t)
  BY <1>1, <1>2, <1>5, <1>8, <1>9 DEF Fifo!Take
<1> QED BY <1>10 DEF Fifo!Next

\* A worker that is done with its message, or is killed: a consumer releases
\* what it holds, if it holds anything; for a producer nothing happens.
LEMMA DropIsRelease ==
  ASSUME IndInv, NEW t \in Workers, held' = [held EXCEPT ![t] = NoMsg],
         UNCHANGED ringVars, ppc # "done", ppc' # "done"
  PROVE  Fifo!Next \/ UNCHANGED Fifo!vars
<1>1. CASE t \in Consumers /\ held[t] # NoMsg
  <2>1. Queued' = Queued
    BY DEF Queued, ringVars
  <2>2. [c \in Consumers |-> held[c]]'
          = [[c \in Consumers |-> held[c]] EXCEPT ![t] = NoMsg]
    BY <1>1, WorkerFacts DEF IndInv, TypeOK
  <2>3. Fifo!Release(t)
    BY <1>1, <2>1, <2>2 DEF Fifo!Release
  <2> QED BY <1>1, <2>3 DEF Fifo!Next
<1>2. CASE ~(t \in Consumers /\ held[t] # NoMsg)
  <2>1. \A c \in Consumers : held'[c] = held[c]
    BY <1>2, WorkerFacts DEF IndInv, TypeOK
  <2> QED BY <2>1, FifoStutter
<1> QED BY <1>1, <1>2

\* queue_destroy ends the queue when no consumer works any more.
LEMMA DestroyIsClose ==
  ASSUME IndInv, QueueDestroy
  PROVE  Fifo!Close
<1>1. /\ ppc = "destroy" /\ ppc' = "done" /\ held' = held
  BY DEF QueueDestroy
<1>2. \A c \in Consumers : pc[c] = "off"
  BY <1>1, RunningFacts, WorkerFacts
<1>3. \A c \in Consumers : held[c] = NoMsg
  BY <1>1, <1>2 DEF IndInv, HandInv
<1> QED BY <1>1, <1>3 DEF Fifo!Close

\* The steps of a producer.
LEMMA ProducerFifo ==
  ASSUME IndInv, fresh, NEW t \in Producers, ProducerStep(t)
  PROVE  Fifo!Next \/ UNCHANGED Fifo!vars
<1>1. t \in Workers /\ \A c \in Consumers : c # t
  BY WorkerFacts
<1>2. CASE PushStore(t)
  BY <1>2, PushIsPut
<1>3. CASE ProducerLoop(t)
  <2>1. UNCHANGED ringVars /\ ppc' = ppc
    BY <1>3 DEF ProducerLoop, parentVars
  <2>2. \A c \in Consumers : held'[c] = held[c]
    BY <1>1, <1>3, WorkerFacts DEF ProducerLoop, IndInv, TypeOK
  <2> QED BY <2>1, <2>2, FifoStutter
<1>4. CASE PushEnter(t) \/ PushLeave(t)
  <2>1. UNCHANGED <<ringVars, ppc, held>>
    BY <1>4 DEF PushEnter, PushLeave, parentVars
  <2> QED BY <2>1, FifoStutter
<1>5. CASE WorkerPrint(t)
  <2>1. ppc # "done"
    BY <1>1, <1>5, RunningFacts DEF WorkerPrint
  <2>2. /\ UNCHANGED <<ringVars, ppc>> /\ held' = [held EXCEPT ![t] = NoMsg]
    BY <1>5 DEF WorkerPrint, parentVars
  <2> QED BY <1>1, <2>1, <2>2, DropIsRelease
<1>6. CASE WorkerExit(t)
  <2>1. ppc # "done"
    BY <1>1, <1>6, RunningFacts DEF WorkerExit
  <2>2. UNCHANGED <<ringVars, held>> /\ ppc' # "done"
    BY <1>6, <2>1 DEF WorkerExit, Interrupt
  <2> QED BY <2>1, <2>2, FifoStutter
<1> QED BY <1>2, <1>3, <1>4, <1>5, <1>6 DEF ProducerStep

\* The steps of a consumer.
LEMMA ConsumerFifo ==
  ASSUME IndInv, fresh, NEW t \in Consumers, ConsumerStep(t)
  PROVE  Fifo!Next \/ UNCHANGED Fifo!vars
<1>1. t \in Workers
  BY WorkerFacts
<1>2. CASE PopTake(t)
  BY <1>2, PopIsTake
<1>3. CASE ConsumerLoop(t) \/ PopEnter(t) \/ PopLeave(t)
  <2>1. UNCHANGED <<ringVars, ppc, held>>
    BY <1>3 DEF ConsumerLoop, PopEnter, PopLeave, parentVars
  <2> QED BY <2>1, FifoStutter
<1>4. CASE WorkerPrint(t)
  <2>1. ppc # "done"
    BY <1>1, <1>4, RunningFacts DEF WorkerPrint
  <2>2. /\ UNCHANGED <<ringVars, ppc>> /\ held' = [held EXCEPT ![t] = NoMsg]
    BY <1>4 DEF WorkerPrint, parentVars
  <2> QED BY <1>1, <2>1, <2>2, DropIsRelease
<1>5. CASE WorkerExit(t)
  <2>1. ppc # "done"
    BY <1>1, <1>5, RunningFacts DEF WorkerExit
  <2>2. UNCHANGED <<ringVars, held>> /\ ppc' # "done"
    BY <1>5, <2>1 DEF WorkerExit, Interrupt
  <2> QED BY <2>1, <2>2, FifoStutter
<1> QED BY <1>2, <1>3, <1>4, <1>5 DEF ConsumerStep

\* A removal kills one worker.
LEMMA RemovalFifo ==
  ASSUME IndInv, CmdRemoveProducer \/ CmdRemoveConsumer \/ RemoveAll
  PROVE  Fifo!Next \/ UNCHANGED Fifo!vars
<1>1. ppc # "done" /\ ppc' # "done"
  BY DEF CmdRemoveProducer, CmdRemoveConsumer, RemoveAll
<1>2. RemoveLastProducer \/ RemoveLastConsumer
  BY DEF CmdRemoveProducer, CmdRemoveConsumer, RemoveAll
<1>3. prodCount \in 0..MaxProcs /\ consCount \in 0..MaxProcs /\ MaxProcs \in Nat
  BY ShmQueueAssumption DEF IndInv, TypeOK
<1>4. PICK t \in Workers : Kill(t)
  <2>1. CASE RemoveLastProducer
    <3>1. prodCount - 1 \in Workers
      BY <1>3, <2>1 DEF RemoveLastProducer, Workers, Producers
    <3> QED BY <2>1, <3>1 DEF RemoveLastProducer
  <2>2. CASE RemoveLastConsumer
    <3>1. MaxProcs + consCount - 1 \in Workers
      BY <1>3, <2>2 DEF RemoveLastConsumer, Workers, Consumers
    <3> QED BY <2>2, <3>1 DEF RemoveLastConsumer
  <2> QED BY <1>2, <2>1, <2>2
<1>5. held' = [held EXCEPT ![t] = NoMsg] /\ UNCHANGED ringVars
  BY <1>2, <1>4 DEF Kill, RemoveLastProducer, RemoveLastConsumer
<1> QED BY <1>1, <1>5, DropIsRelease

\* Every step of a start that created its semaphores.
LEMMA StepIsFifoStep ==
  ASSUME IndInv, Next, fresh, fresh'
  PROVE  Fifo!Next \/ UNCHANGED Fifo!vars
<1>1. ASSUME NEW t \in Producers, ProducerStep(t)
      PROVE  Fifo!Next \/ UNCHANGED Fifo!vars
  BY <1>1, ProducerFifo
<1>2. ASSUME NEW t \in Consumers, ConsumerStep(t)
      PROVE  Fifo!Next \/ UNCHANGED Fifo!vars
  BY <1>2, ConsumerFifo
<1>3. CASE QueueInit \/ SetAll \/ QueueInitFails \/ Restart
  BY <1>3 DEF QueueInit, SetAll, QueueInitFails, Restart, IndInv, LiveInv
<1>4. CASE MainLoop \/ RemoveAllDone \/ CmdNothing \/ CmdLeave
             \/ CmdCreateProducer \/ CmdCreateConsumer
  <2>1. UNCHANGED <<ringVars, held>> /\ ppc # "done" /\ ppc' # "done"
    BY <1>4 DEF MainLoop, RemoveAllDone, CmdNothing, CmdLeave,
       CmdCreateProducer, CmdCreateConsumer
  <2> QED BY <2>1, FifoStutter
<1>5. CASE Sigint \/ SigintAgain
  <2>1. UNCHANGED <<ringVars, held>> /\ ppc # "done" /\ ppc' # "done"
    BY <1>5 DEF Sigint, SigintAgain, Interrupt
  <2> QED BY <2>1, FifoStutter
<1>6. CASE CmdRemoveProducer \/ CmdRemoveConsumer \/ RemoveAll
  BY <1>6, RemovalFifo
<1>7. CASE QueueDestroy
  BY <1>7, DestroyIsClose DEF Fifo!Next
<1>8. CASE Ended
  <2>1. UNCHANGED <<ringVars, held, ppc>>
    BY <1>8 DEF Ended, vars, parentVars
  <2> QED BY <2>1, FifoStutter
<1> QED BY <1>1, <1>2, <1>3, <1>4, <1>5, <1>6, <1>7, <1>8
        DEF Next, ParentStep, UserStep

\* In a start that created its semaphores the segment is a bounded FIFO queue
\* for any size and number of processes, although workers are killed at any
\* point of queue_push and queue_pop (queue.c 64-102, main.c 178-194).
THEOREM ShmFifoCorrect == Spec => ImplementsFifo
<1>1. IndInv /\ [Next]_vars =>
        [fresh /\ fresh' => Fifo!Next \/ UNCHANGED Fifo!vars]_vars
  BY StepIsFifoStep
<1> QED BY <1>1, IndInvHolds, PTL DEF Spec, ImplementsFifo

=============================================================================
