--------------------------- MODULE CondQueueProofs ---------------------------
(***************************************************************************)
(* Proofs about lab05/5.2 for every number of thread slots, every initial   *)
(* capacity and every set of message addresses: IndInv is an invariant, no  *)
(* wakeup is lost, the counters agree with the ring, and the queue          *)
(* implements BoundedFifo.                                                  *)
(***************************************************************************)
EXTENDS CondQueue, DataTheorems, SequenceTheorems, FiniteSetTheorems

USE DEF Free

\* A step that leaves struct Queue alone leaves its contents alone.
LEMMA QueueSame ==
  ASSUME UNCHANGED queueVars
  PROVE  /\ Queued' = Queued /\ count' = count /\ capacity' = capacity
         /\ buffer' = buffer /\ head' = head /\ tail' = tail
         /\ added' = added /\ removed' = removed
         /\ RingConsistent <=> RingConsistent'
BY DEF queueVars, Queued, RingConsistent

\* Every thread handle is a natural number below MaxProds + MaxCons, and the
\* two kinds of thread are disjoint.
LEMMA ThreadFacts ==
  /\ Threads \subseteq Nat
  /\ \A t \in Threads : t \in Producers <=> t < MaxProds
  /\ \A t \in Threads : t \in Consumers <=> t >= MaxProds
  /\ Producers \subseteq Threads /\ Consumers \subseteq Threads
  /\ \A t \in Consumers : t \notin Producers
  /\ Free \notin Threads
  /\ \A n \in Nat : n < MaxProds => n \in Producers
  /\ \A n \in Nat : n < MaxCons => MaxProds + n \in Consumers
BY CondQueueAssumption DEF Threads, Producers, Consumers

\* OneOwner is about the messages and about which threads own one.
LEMMA OwnersSame ==
  ASSUME OneOwner, UNCHANGED <<queueVars, held, heap, leaked>>, Owning' = Owning
  PROVE  OneOwner'
BY QueueSame DEF OneOwner, queueVars

(***************************************************************************)
(* Worker steps that only move the worker's pc and the mutex.               *)
(***************************************************************************)
LEMMA PcFrame ==
  ASSUME IndInv, NEW t \in Threads, NEW v \in WorkerPc,
         UNCHANGED <<running, queueVars, held, cancelled, heap, leaked,
                     mainVars, armed>>,
         pc[t] # "off", pc' = [pc EXCEPT ![t] = v],
         mutex' \in Threads \cup {Free},
         t \in Owning' <=> t \in Owning
  PROVE  TypeOK' /\ RingConsistent' /\ OneOwner' /\ LiveInv' /\ RemoveInv'
<1>1. TypeOK'
  BY DEF IndInv, TypeOK, queueVars, mainVars
<1>2. RingConsistent'
  BY QueueSame DEF IndInv
<1>3. OneOwner'
  <2>1. \A u \in Threads : u # t => pc'[u] = pc[u]
    BY DEF IndInv, TypeOK
  <2>2. \A u \in Threads : u # t => (u \in Owning' <=> u \in Owning)
    BY <2>1 DEF Owning
  <2>3. Owning' = Owning
    BY <2>2, ThreadFacts DEF Owning
  <2> QED BY <2>3, OwnersSame DEF IndInv
<1>4. LiveInv'
  BY ThreadFacts DEF IndInv, LiveInv, TypeOK, mainVars
<1>5. RemoveInv'
  BY DEF IndInv, RemoveInv, mainVars, queueVars
<1> QED BY <1>1, <1>2, <1>3, <1>4, <1>5

\* pthread_cond_wait gives up the mutex and nothing else.
LEMMA CondWaitInv ==
  ASSUME IndInv, NEW t \in Threads, CondWait(t)
  PROVE  IndInv'
<1> USE DEF CondWait
<1>1. TypeOK' /\ RingConsistent' /\ OneOwner' /\ LiveInv' /\ RemoveInv'
  <2>1. t \in Owning' <=> t \in Owning
    BY ThreadFacts DEF Owning, IndInv, TypeOK
  <2> QED BY <2>1, PcFrame, ThreadFacts DEF IndInv, TypeOK, WorkerPc
<1>2. MutexInv'
  BY ThreadFacts DEF MutexInv, IndInv, TypeOK
<1>3. BodyInv'
  BY ThreadFacts DEF MutexInv, BodyInv, IndInv, TypeOK, queueVars
<1>4. HandInv'
  BY ThreadFacts DEF HandInv, IndInv, TypeOK
<1> QED BY <1>1, <1>2, <1>3, <1>4 DEF IndInv

\* A wakeup nobody sent changes only where the thread is.
LEMMA SpuriousWakeupInv ==
  ASSUME IndInv, NEW t \in Threads, SpuriousWakeup(t)
  PROVE  IndInv'
<1> USE DEF SpuriousWakeup
<1>1. TypeOK' /\ RingConsistent' /\ OneOwner' /\ LiveInv' /\ RemoveInv'
  <2>1. t \in Owning' <=> t \in Owning
    BY ThreadFacts DEF Owning, IndInv, TypeOK
  <2> QED BY <2>1, PcFrame, ThreadFacts DEF IndInv, TypeOK, WorkerPc
<1>2. MutexInv'
  BY ThreadFacts DEF MutexInv, IndInv, TypeOK
<1>3. BodyInv'
  BY ThreadFacts DEF MutexInv, BodyInv, IndInv, TypeOK, queueVars
<1>4. HandInv'
  BY ThreadFacts DEF HandInv, IndInv, TypeOK
<1> QED BY <1>1, <1>2, <1>3, <1>4 DEF IndInv

\* A worker that sleeps, or is cancelled there, has no message.
LEMMA SleepInv ==
  ASSUME IndInv, NEW t \in Threads, Sleep(t)
  PROVE  IndInv'
<1> USE DEF Sleep
<1>1. TypeOK' /\ RingConsistent' /\ OneOwner' /\ LiveInv' /\ RemoveInv'
  <2>1. t \in Owning' <=> t \in Owning
    BY ThreadFacts DEF Owning, IndInv, TypeOK
  <2> QED BY <2>1, PcFrame, ThreadFacts DEF IndInv, TypeOK, WorkerPc
<1>2. MutexInv'
  BY ThreadFacts DEF MutexInv, IndInv, TypeOK
<1>3. BodyInv'
  BY ThreadFacts DEF MutexInv, BodyInv, IndInv, TypeOK, queueVars
<1>4. HandInv'
  BY ThreadFacts DEF HandInv, IndInv, TypeOK
<1> QED BY <1>1, <1>2, <1>3, <1>4 DEF IndInv

\* A producer gets to the store only with room in the queue, or at the end.
LEMMA PushEnterInv ==
  ASSUME IndInv, NEW t \in Producers, PushEnter(t)
  PROVE  IndInv'
<1> USE DEF PushEnter
<1>1. TypeOK' /\ RingConsistent' /\ OneOwner' /\ LiveInv' /\ RemoveInv'
  <2>1. t \in Owning' <=> t \in Owning
    BY ThreadFacts DEF Owning, IndInv, TypeOK
  <2> QED BY <2>1, PcFrame, ThreadFacts DEF IndInv, TypeOK, WorkerPc
<1>2. MutexInv'
  BY ThreadFacts DEF MutexInv, IndInv, TypeOK
<1>3. BodyInv'
  BY ThreadFacts DEF MutexInv, BodyInv, IndInv, TypeOK, queueVars
<1>4. HandInv'
  BY ThreadFacts DEF HandInv, IndInv, TypeOK
<1> QED BY <1>1, <1>2, <1>3, <1>4 DEF IndInv

\* The consumer's test of running.
LEMMA ConsumerLoopInv ==
  ASSUME IndInv, NEW t \in Consumers, ConsumerLoop(t)
  PROVE  IndInv'
<1> USE DEF ConsumerLoop
<1>1. TypeOK' /\ RingConsistent' /\ OneOwner' /\ LiveInv' /\ RemoveInv'
  <2>1. t \in Owning' <=> t \in Owning
    BY ThreadFacts DEF Owning, IndInv, TypeOK
  <2> QED BY <2>1, PcFrame, ThreadFacts DEF IndInv, TypeOK, WorkerPc
<1>2. MutexInv'
  BY ThreadFacts DEF MutexInv, IndInv, TypeOK
<1>3. BodyInv'
  BY ThreadFacts DEF MutexInv, BodyInv, IndInv, TypeOK, queueVars
<1>4. HandInv'
  BY ThreadFacts DEF HandInv, IndInv, TypeOK
<1> QED BY <1>1, <1>2, <1>3, <1>4 DEF IndInv

\* A consumer gets to the take only with a message there, or at the end.
LEMMA PopEnterInv ==
  ASSUME IndInv, NEW t \in Consumers, PopEnter(t)
  PROVE  IndInv'
<1> USE DEF PopEnter
<1>1. TypeOK' /\ RingConsistent' /\ OneOwner' /\ LiveInv' /\ RemoveInv'
  <2>1. t \in Owning' <=> t \in Owning
    BY ThreadFacts DEF Owning, IndInv, TypeOK
  <2> QED BY <2>1, PcFrame, ThreadFacts DEF IndInv, TypeOK, WorkerPc
<1>2. MutexInv'
  BY ThreadFacts DEF MutexInv, IndInv, TypeOK
<1>3. BodyInv'
  <2> SUFFICES ASSUME NEW u \in Threads, pc'[u] = "body", running'
               PROVE  IF u \in Producers THEN count' < capacity' ELSE count' > 0
    BY DEF BodyInv
  <2>1. u = t
    BY ThreadFacts DEF MutexInv, IndInv, TypeOK
  <2>2. count # 0 /\ count \in Nat /\ count' = count
    BY <2>1, ThreadFacts DEF IndInv, TypeOK, queueVars
  <2> QED BY <2>1, <2>2, ThreadFacts
<1>4. HandInv'
  BY ThreadFacts DEF HandInv, IndInv, TypeOK
<1> QED BY <1>1, <1>2, <1>3, <1>4 DEF IndInv

\* queue_pop returns NULL and the consumer ends.
LEMMA PopRefusedInv ==
  ASSUME IndInv, NEW t \in Consumers, PopRefused(t)
  PROVE  IndInv'
<1> USE DEF PopRefused
<1>1. TypeOK' /\ RingConsistent' /\ OneOwner' /\ LiveInv' /\ RemoveInv'
  <2>1. t \in Owning' <=> t \in Owning
    BY ThreadFacts DEF Owning, IndInv, TypeOK
  <2> QED BY <2>1, PcFrame, ThreadFacts DEF IndInv, TypeOK, WorkerPc
<1>2. MutexInv'
  BY ThreadFacts DEF MutexInv, IndInv, TypeOK
<1>3. BodyInv'
  BY ThreadFacts DEF MutexInv, BodyInv, IndInv, TypeOK, queueVars
<1>4. HandInv'
  BY ThreadFacts DEF HandInv, IndInv, TypeOK
<1> QED BY <1>1, <1>2, <1>3, <1>4 DEF IndInv

(***************************************************************************)
(* Steps of main and of the user that do not touch the workers.             *)
(***************************************************************************)
LEMMA MainFrame ==
  ASSUME IndInv, UNCHANGED <<workerData, mutex, pc>>, running' => running
  PROVE  RingConsistent' /\ OneOwner' /\ MutexInv' /\ BodyInv' /\ HandInv'
<1>1. RingConsistent'
  BY QueueSame DEF IndInv, workerData
<1>2. OneOwner'
  <2>1. Owning' = Owning
    BY DEF Owning
  <2> QED BY <2>1, OwnersSame DEF IndInv, workerData
<1>3. MutexInv' /\ HandInv'
  BY DEF IndInv, MutexInv, HandInv, workerData
<1>4. BodyInv'
  BY DEF IndInv, BodyInv, workerData, queueVars
<1> QED BY <1>1, <1>2, <1>3, <1>4

\* The test of running in main's loop.
LEMMA MainLoopInv ==
  ASSUME IndInv, MainLoop
  PROVE  IndInv'
<1> USE DEF MainLoop
<1>1. RingConsistent' /\ OneOwner' /\ MutexInv' /\ BodyInv' /\ HandInv'
  BY MainFrame
<1>2. TypeOK'
  BY ThreadFacts DEF IndInv, TypeOK, MainPc, workerData, queueVars, RemoveInv
<1>3. LiveInv'
  BY ThreadFacts DEF IndInv, LiveInv, RemoveInv, TypeOK
<1>4. RemoveInv'
  BY DEF IndInv, RemoveInv, TypeOK, workerData, queueVars
<1> QED BY <1>1, <1>2, <1>3, <1>4 DEF IndInv

\* Main enters scanf.
LEMMA MainScanInv ==
  ASSUME IndInv, MainScan
  PROVE  IndInv'
<1> USE DEF MainScan
<1>1. RingConsistent' /\ OneOwner' /\ MutexInv' /\ BodyInv' /\ HandInv'
  BY MainFrame
<1>2. TypeOK'
  BY ThreadFacts DEF IndInv, TypeOK, MainPc, workerData, queueVars, RemoveInv
<1>3. LiveInv'
  BY ThreadFacts DEF IndInv, LiveInv, RemoveInv, TypeOK
<1>4. RemoveInv'
  BY DEF IndInv, RemoveInv, TypeOK, workerData, queueVars
<1> QED BY <1>1, <1>2, <1>3, <1>4 DEF IndInv

\* The two loops of remove_all, which end when both counts are 0.
LEMMA RemoveAllNextInv ==
  ASSUME IndInv, RemoveAllNext
  PROVE  IndInv'
<1> USE DEF RemoveAllNext
<1>1. RingConsistent' /\ OneOwner' /\ MutexInv' /\ BodyInv' /\ HandInv'
  BY MainFrame
<1>2. TypeOK'
  BY ThreadFacts DEF IndInv, TypeOK, MainPc, workerData, queueVars, RemoveInv
<1>3. LiveInv'
  BY ThreadFacts DEF IndInv, LiveInv, RemoveInv, TypeOK
<1>4. RemoveInv'
  BY DEF IndInv, RemoveInv, TypeOK, workerData, queueVars
<1> QED BY <1>1, <1>2, <1>3, <1>4 DEF IndInv

\* The key 'k'.
LEMMA CmdKillAllInv ==
  ASSUME IndInv, CmdKillAll
  PROVE  IndInv'
<1> USE DEF CmdKillAll
<1>1. RingConsistent' /\ OneOwner' /\ MutexInv' /\ BodyInv' /\ HandInv'
  BY MainFrame
<1>2. TypeOK'
  BY ThreadFacts DEF IndInv, TypeOK, MainPc, workerData, queueVars, RemoveInv
<1>3. LiveInv'
  BY ThreadFacts DEF IndInv, LiveInv, RemoveInv, TypeOK
<1>4. RemoveInv'
  BY DEF IndInv, RemoveInv, TypeOK, workerData, queueVars
<1> QED BY <1>1, <1>2, <1>3, <1>4 DEF IndInv

\* The key 's'.
LEMMA CmdStatusInv ==
  ASSUME IndInv, CmdStatus
  PROVE  IndInv'
<1> USE DEF CmdStatus
<1>1. RingConsistent' /\ OneOwner' /\ MutexInv' /\ BodyInv' /\ HandInv'
  BY MainFrame
<1>2. TypeOK'
  BY ThreadFacts DEF IndInv, TypeOK, MainPc, workerData, queueVars, RemoveInv
<1>3. LiveInv'
  BY ThreadFacts DEF IndInv, LiveInv, RemoveInv, TypeOK
<1>4. RemoveInv'
  BY DEF IndInv, RemoveInv, TypeOK, workerData, queueVars
<1> QED BY <1>1, <1>2, <1>3, <1>4 DEF IndInv

\* A key without a meaning.
LEMMA CmdUnknownInv ==
  ASSUME IndInv, CmdUnknown
  PROVE  IndInv'
<1> USE DEF CmdUnknown
<1>1. RingConsistent' /\ OneOwner' /\ MutexInv' /\ BodyInv' /\ HandInv'
  BY MainFrame
<1>2. TypeOK'
  BY ThreadFacts DEF IndInv, TypeOK, MainPc, workerData, queueVars, RemoveInv
<1>3. LiveInv'
  BY ThreadFacts DEF IndInv, LiveInv, RemoveInv, TypeOK
<1>4. RemoveInv'
  BY DEF IndInv, RemoveInv, TypeOK, workerData, queueVars
<1> QED BY <1>1, <1>2, <1>3, <1>4 DEF IndInv

\* The key 'q', which clears running without the mutex.
LEMMA CmdQuitInv ==
  ASSUME IndInv, CmdQuit
  PROVE  IndInv'
<1> USE DEF CmdQuit
<1>1. RingConsistent' /\ OneOwner' /\ MutexInv' /\ BodyInv' /\ HandInv'
  BY MainFrame
<1>2. TypeOK'
  BY ThreadFacts DEF IndInv, TypeOK, MainPc, workerData, queueVars, RemoveInv
<1>3. LiveInv'
  BY ThreadFacts DEF IndInv, LiveInv, RemoveInv, TypeOK
<1>4. RemoveInv'
  BY DEF IndInv, RemoveInv, TypeOK, workerData, queueVars
<1> QED BY <1>1, <1>2, <1>3, <1>4 DEF IndInv

\* The end of the input.
LEMMA CmdEofInv ==
  ASSUME IndInv, CmdEof
  PROVE  IndInv'
<1> USE DEF CmdEof
<1>1. RingConsistent' /\ OneOwner' /\ MutexInv' /\ BodyInv' /\ HandInv'
  BY MainFrame
<1>2. TypeOK'
  BY ThreadFacts DEF IndInv, TypeOK, MainPc, workerData, queueVars, RemoveInv
<1>3. LiveInv'
  BY ThreadFacts DEF IndInv, LiveInv, RemoveInv, TypeOK
<1>4. RemoveInv'
  BY DEF IndInv, RemoveInv, TypeOK, workerData, queueVars
<1> QED BY <1>1, <1>2, <1>3, <1>4 DEF IndInv

\* The SIGINT handler, which clears running without the mutex.
LEMMA SigintInv ==
  ASSUME IndInv, Sigint
  PROVE  IndInv'
<1> USE DEF Sigint
<1>1. RingConsistent' /\ OneOwner' /\ MutexInv' /\ BodyInv' /\ HandInv'
  BY MainFrame
<1>2. TypeOK'
  BY ThreadFacts DEF IndInv, TypeOK, MainPc, workerData, queueVars, RemoveInv
<1>3. LiveInv'
  BY ThreadFacts DEF IndInv, LiveInv, RemoveInv, TypeOK
<1>4. RemoveInv'
  BY DEF IndInv, RemoveInv, TypeOK, workerData, queueVars
<1> QED BY <1>1, <1>2, <1>3, <1>4 DEF IndInv

\* pthread_cancel: the slot given up is the one about to be joined.
LEMMA RemoveCancelInv ==
  ASSUME IndInv, RemoveCancel
  PROVE  IndInv'
<1> USE DEF RemoveCancel
<1>1. RingConsistent' /\ OneOwner' /\ MutexInv' /\ BodyInv' /\ HandInv'
  BY MainFrame
<1>2. /\ MaxProds \in Nat /\ MaxCons \in Nat
      /\ prodCount \in 0..MaxProds /\ consCount \in 0..MaxCons
  BY CondQueueAssumption DEF IndInv, TypeOK
<1>3. CASE victim = "producer"
  <2>1. /\ prodCount > 0 /\ prodCount' = prodCount - 1 /\ consCount' = consCount
        /\ prodCount - 1 \in Threads /\ mpc' = "join" /\ victim' = victim
        /\ cancelled' = cancelled \cup {prodCount - 1}
    BY <1>2, <1>3, ThreadFacts DEF IndInv, RemoveInv
  <2>2. TypeOK'
    BY <1>2, <2>1 DEF IndInv, TypeOK, MainPc, workerData, queueVars
  <2>3. LiveInv'
    BY <1>2, <1>3, <2>1, ThreadFacts DEF IndInv, LiveInv
  <2>4. RemoveInv'
    BY <1>2, <1>3, <2>1 DEF RemoveInv
  <2> QED BY <1>1, <2>2, <2>3, <2>4 DEF IndInv
<1>4. CASE victim = "consumer"
  <2>1. /\ consCount > 0 /\ consCount' = consCount - 1 /\ prodCount' = prodCount
        /\ MaxProds + consCount - 1 \in Threads
        /\ mpc' = "join" /\ victim' = victim
        /\ cancelled' = cancelled \cup {MaxProds + consCount - 1}
    <3>1. consCount - 1 \in Nat /\ consCount - 1 < MaxCons /\ consCount > 0
      BY <1>2, <1>4 DEF IndInv, RemoveInv
    <3>2. MaxProds + (consCount - 1) \in Consumers
      BY <3>1, ThreadFacts
    <3>3. MaxProds + (consCount - 1) = MaxProds + consCount - 1
      BY <1>2
    <3> QED BY <1>4, <3>1, <3>2, <3>3, ThreadFacts
  <2>2. TypeOK'
    BY <1>2, <2>1 DEF IndInv, TypeOK, MainPc, workerData, queueVars
  <2>3. LiveInv'
    BY <1>2, <1>4, <2>1, ThreadFacts DEF IndInv, LiveInv
  <2>4. RemoveInv'
    BY <1>2, <1>4, <2>1 DEF RemoveInv
  <2> QED BY <1>1, <2>2, <2>3, <2>4 DEF IndInv
<1> QED BY <1>3, <1>4 DEF IndInv, RemoveInv

\* The keys 'P' and 'C' up to the broadcast.
LEMMA CmdRemoveInv ==
  ASSUME IndInv, NEW k \in {"producer", "consumer"}, CmdRemove(k)
  PROVE  IndInv'
<1> USE DEF CmdRemove
<1>1. RingConsistent' /\ OneOwner' /\ MutexInv' /\ BodyInv' /\ HandInv'
  BY MainFrame
<1>2. TypeOK'
  BY ThreadFacts DEF IndInv, TypeOK, MainPc, workerData, queueVars, RemoveInv
<1>3. LiveInv'
  BY ThreadFacts DEF IndInv, LiveInv, RemoveInv, TypeOK
<1>4. RemoveInv'
  BY DEF IndInv, RemoveInv, TypeOK, workerData, queueVars
<1> QED BY <1>1, <1>2, <1>3, <1>4 DEF IndInv

\* pthread_join: the slot given up has no living thread any more.
LEMMA RemoveJoinInv ==
  ASSUME IndInv, RemoveJoin
  PROVE  IndInv'
<1> USE DEF RemoveJoin
<1>1. RingConsistent' /\ OneOwner' /\ MutexInv' /\ BodyInv' /\ HandInv'
  BY MainFrame
<1>2. TypeOK'
  BY ThreadFacts DEF IndInv, TypeOK, MainPc, workerData, queueVars, RemoveInv, Joined
<1>3. LiveInv'
  BY ThreadFacts DEF IndInv, LiveInv, RemoveInv, TypeOK, Joined
<1>4. RemoveInv'
  BY DEF IndInv, RemoveInv, TypeOK, workerData, queueVars
<1> QED BY <1>1, <1>2, <1>3, <1>4 DEF IndInv

(***************************************************************************)
(* Broadcasts.                                                              *)
(***************************************************************************)
LEMMA BroadcastFrame ==
  ASSUME IndInv, NEW S \in SUBSET Threads,
         UNCHANGED <<workerData, mutex, running>>, pc' = Broadcast(pc, S)
  PROVE  /\ RingConsistent' /\ OneOwner' /\ MutexInv' /\ BodyInv' /\ HandInv'
         /\ pc' \in [Threads -> WorkerPc]
         /\ \A t \in Threads : pc'[t] # "off" <=> pc[t] # "off"
<1>1. \A t \in Threads :
        pc'[t] = IF t \in S /\ pc[t] = "wait" THEN "woken" ELSE pc[t]
  BY DEF Broadcast
<1>2. pc' \in [Threads -> WorkerPc]
  BY DEF Broadcast, IndInv, TypeOK, WorkerPc
<1>3. Owning' = Owning
  BY <1>1, ThreadFacts DEF Owning
<1>4. OneOwner' /\ RingConsistent'
  BY <1>3, OwnersSame, QueueSame DEF IndInv, workerData
<1>5. MutexInv'
  BY <1>1 DEF MutexInv, IndInv
<1>6. BodyInv'
  BY <1>1 DEF BodyInv, IndInv, workerData, queueVars
<1>7. HandInv'
  BY <1>1, ThreadFacts DEF HandInv, IndInv, workerData
<1> QED BY <1>1, <1>2, <1>4, <1>5, <1>6, <1>7

\* The broadcast of remove_last_producer and remove_last_consumer.
LEMMA RemoveBroadcastInv ==
  ASSUME IndInv, RemoveBroadcast
  PROVE  IndInv'
<1> USE DEF RemoveBroadcast
<1>1. /\ RingConsistent' /\ OneOwner' /\ MutexInv' /\ BodyInv' /\ HandInv'
      /\ pc' \in [Threads -> WorkerPc]
      /\ \A t \in Threads : pc'[t] # "off" <=> pc[t] # "off"
  <2> DEFINE S == IF victim = "producer" THEN Producers ELSE Consumers
  <2>1. S \in SUBSET Threads
    BY ThreadFacts
  <2> QED BY <2>1, BroadcastFrame
<1>2. TypeOK'
  BY <1>1 DEF IndInv, TypeOK, MainPc, workerData, queueVars
<1>3. LiveInv'
  BY <1>1, ThreadFacts DEF IndInv, LiveInv
<1>4. RemoveInv'
  BY DEF IndInv, RemoveInv, workerData, queueVars
<1> QED BY <1>1, <1>2, <1>3, <1>4 DEF IndInv

\* The two broadcasts of remove_all.
LEMMA RemoveAllBroadcastInv ==
  ASSUME IndInv, RemoveAllBroadcast
  PROVE  IndInv'
<1> USE DEF RemoveAllBroadcast
<1>1. /\ RingConsistent' /\ OneOwner' /\ MutexInv' /\ BodyInv' /\ HandInv'
      /\ pc' \in [Threads -> WorkerPc]
      /\ \A t \in Threads : pc'[t] # "off" <=> pc[t] # "off"
  <2> DEFINE S == Threads
  <2>1. S \in SUBSET Threads
    BY ThreadFacts
  <2> QED BY <2>1, BroadcastFrame
<1>2. TypeOK'
  BY <1>1 DEF IndInv, TypeOK, MainPc, workerData, queueVars
<1>3. LiveInv'
  BY <1>1, ThreadFacts DEF IndInv, LiveInv
<1>4. RemoveInv'
  BY DEF IndInv, RemoveInv, workerData, queueVars
<1> QED BY <1>1, <1>2, <1>3, <1>4 DEF IndInv

\* The two broadcasts after main's loop.
LEMMA QuitBroadcastInv ==
  ASSUME IndInv, QuitBroadcast
  PROVE  IndInv'
<1> USE DEF QuitBroadcast
<1>1. /\ RingConsistent' /\ OneOwner' /\ MutexInv' /\ BodyInv' /\ HandInv'
      /\ pc' \in [Threads -> WorkerPc]
      /\ \A t \in Threads : pc'[t] # "off" <=> pc[t] # "off"
  <2> DEFINE S == Threads
  <2>1. S \in SUBSET Threads
    BY ThreadFacts
  <2> QED BY <2>1, BroadcastFrame
<1>2. TypeOK'
  BY <1>1 DEF IndInv, TypeOK, MainPc, workerData, queueVars
<1>3. LiveInv'
  BY <1>1, ThreadFacts DEF IndInv, LiveInv
<1>4. RemoveInv'
  BY DEF IndInv, RemoveInv, workerData, queueVars
<1> QED BY <1>1, <1>2, <1>3, <1>4 DEF IndInv

(***************************************************************************)
(* Starting a thread: by LiveInv the slot it gets is free.                  *)
(***************************************************************************)
LEMMA CreateFrame ==
  ASSUME IndInv, NEW t \in Threads, pc[t] = "off",
         pc' = [pc EXCEPT ![t] = "loop"],
         UNCHANGED <<workerData, mutex, running>>
  PROVE  /\ RingConsistent' /\ OneOwner' /\ MutexInv' /\ BodyInv' /\ HandInv'
         /\ pc' \in [Threads -> WorkerPc]
<1>1. \A u \in Threads : pc'[u] = IF u = t THEN "loop" ELSE pc[u]
  BY DEF IndInv, TypeOK
<1>2. pc' \in [Threads -> WorkerPc]
  BY DEF IndInv, TypeOK, WorkerPc
<1>3. Owning' = Owning
  BY <1>1, ThreadFacts DEF Owning
<1>4. OneOwner' /\ RingConsistent'
  BY <1>3, OwnersSame, QueueSame DEF IndInv, workerData
<1>5. MutexInv'
  BY <1>1 DEF MutexInv, IndInv
<1>6. BodyInv'
  BY <1>1 DEF BodyInv, IndInv, workerData, queueVars
<1>7. HandInv'
  BY <1>1, ThreadFacts DEF HandInv, IndInv, workerData
<1> QED BY <1>2, <1>4, <1>5, <1>6, <1>7

\* create_producer uses a slot without a living thread.
LEMMA CmdCreateProducerInv ==
  ASSUME IndInv, CmdCreateProducer
  PROVE  IndInv'
<1> USE DEF CmdCreateProducer
<1>0. /\ MaxProds \in Nat /\ MaxCons \in Nat
      /\ prodCount \in 0..MaxProds /\ consCount \in 0..MaxCons
  BY CondQueueAssumption DEF IndInv, TypeOK
<1>1. CASE prodCount >= MaxProds
  <2>1. RingConsistent' /\ OneOwner' /\ MutexInv' /\ BodyInv' /\ HandInv'
    BY <1>1, MainFrame
  <2>2. TypeOK'
    BY <1>1 DEF IndInv, TypeOK, MainPc, workerData, queueVars
  <2>3. LiveInv' /\ RemoveInv'
    BY <1>1 DEF IndInv, LiveInv, RemoveInv, TypeOK
  <2> QED BY <2>1, <2>2, <2>3 DEF IndInv
<1>2. CASE prodCount < MaxProds
  <2>1. /\ prodCount \in Producers /\ prodCount \in Threads
        /\ pc' = [pc EXCEPT ![prodCount] = "loop"]
        /\ prodCount' = prodCount + 1
        /\ UNCHANGED <<running, workerData, mutex, cancelled, victim, ret,
                       armed, consCount>>
        /\ mpc' = "loop"
    BY <1>0, <1>2, ThreadFacts
  <2>2. pc[prodCount] = "off"
    BY <1>0, <2>1 DEF IndInv, LiveInv
  <2>3. /\ RingConsistent' /\ OneOwner' /\ MutexInv' /\ BodyInv' /\ HandInv'
        /\ pc' \in [Threads -> WorkerPc]
    BY <2>1, <2>2, CreateFrame
  <2>4. TypeOK'
    BY <1>0, <1>2, <2>1, <2>3 DEF IndInv, TypeOK, MainPc, workerData, queueVars
  <2>5. LiveInv'
    BY <1>0, <2>1, ThreadFacts DEF IndInv, LiveInv, TypeOK
  <2>6. RemoveInv'
    BY <2>1 DEF RemoveInv
  <2> QED BY <2>3, <2>4, <2>5, <2>6 DEF IndInv
<1> QED BY <1>0, <1>1, <1>2

\* create_consumer uses a slot without a living thread.
LEMMA CmdCreateConsumerInv ==
  ASSUME IndInv, CmdCreateConsumer
  PROVE  IndInv'
<1> USE DEF CmdCreateConsumer
<1>0. /\ MaxProds \in Nat /\ MaxCons \in Nat
      /\ prodCount \in 0..MaxProds /\ consCount \in 0..MaxCons
  BY CondQueueAssumption DEF IndInv, TypeOK
<1>1. CASE consCount >= MaxCons
  <2>1. RingConsistent' /\ OneOwner' /\ MutexInv' /\ BodyInv' /\ HandInv'
    BY <1>1, MainFrame
  <2>2. TypeOK'
    BY <1>1 DEF IndInv, TypeOK, MainPc, workerData, queueVars
  <2>3. LiveInv' /\ RemoveInv'
    BY <1>1 DEF IndInv, LiveInv, RemoveInv, TypeOK
  <2> QED BY <2>1, <2>2, <2>3 DEF IndInv
<1>2. CASE consCount < MaxCons
  <2>1. /\ MaxProds + consCount \in Consumers /\ MaxProds + consCount \in Threads
        /\ pc' = [pc EXCEPT ![MaxProds + consCount] = "loop"]
        /\ consCount' = consCount + 1
        /\ UNCHANGED <<running, workerData, mutex, cancelled, victim, ret,
                       armed, prodCount>>
        /\ mpc' = "loop"
    BY <1>0, <1>2, ThreadFacts
  <2>2. pc[MaxProds + consCount] = "off"
    BY <1>0, <2>1 DEF IndInv, LiveInv
  <2>3. /\ RingConsistent' /\ OneOwner' /\ MutexInv' /\ BodyInv' /\ HandInv'
        /\ pc' \in [Threads -> WorkerPc]
    BY <2>1, <2>2, CreateFrame
  <2>4. TypeOK'
    BY <1>0, <1>2, <2>1, <2>3 DEF IndInv, TypeOK, MainPc, workerData, queueVars
  <2>5. LiveInv'
    BY <1>0, <2>1, ThreadFacts DEF IndInv, LiveInv, TypeOK
  <2>6. RemoveInv'
    BY <2>1 DEF RemoveInv
  <2> QED BY <2>3, <2>4, <2>5, <2>6 DEF IndInv
<1> QED BY <1>0, <1>1, <1>2

(***************************************************************************)
(* Resizing.                                                                *)
(***************************************************************************)
LEMMA ResizeFrame ==
  ASSUME IndInv, mutex = Free, NEW n \in Nat \ {0}, count < n, Resize(n),
         mpc = "cmd", mpc' = "loop",
         UNCHANGED <<running, mutex, held, cancelled, heap, leaked, victim, ret,
                     prodCount, consCount, armed>>
  PROVE  IndInv'
<1> USE DEF Resize
<1>0. /\ capacity \in Nat \ {0} /\ head \in 0..(capacity - 1)
      /\ count \in 0..capacity /\ pc \in [Threads -> WorkerPc]
      /\ buffer \in [0..(capacity - 1) -> Msg \cup {Junk}]
  BY DEF IndInv, TypeOK
<1>1. Queued' = Queued
  <2>1. Queued' = Contents(Relocate(buffer, head, count, capacity, n), 0, count, n)
    BY DEF Queued
  <2>2. count <= n
    BY <1>0
  <2>3. Contents(Relocate(buffer, head, count, capacity, n), 0, count, n)
          = Contents(buffer, head, count, capacity)
    BY <1>0, <2>2, ContentsRelocate
  <2> QED BY <2>1, <2>3 DEF Queued
<1>2. /\ \A t \in Threads :
           pc'[t] = IF t \in Producers /\ pc[t] = "wait" THEN "woken" ELSE pc[t]
      /\ pc' \in [Threads -> WorkerPc]
  BY <1>0 DEF Broadcast, WorkerPc
<1>3. TypeOK'
  <2>1. buffer' \in [0..(n - 1) -> Msg \cup {Junk}]
    <3>1. \A i \in 0..(n - 1) : i < count => i \in 0..capacity
      BY <1>0
    <3>2. \A i \in 0..(n - 1) : i < count =>
             buffer[Slot(head, i, capacity)] \in Msg \cup {Junk}
      BY <1>0, <3>1, SlotInRange
    <3> QED BY <3>2 DEF Relocate
  <2>2. head' \in 0..(n - 1) /\ tail' \in 0..(n - 1) /\ count' \in 0..n
    BY <1>0
  <2> QED BY <1>2, <2>1, <2>2 DEF IndInv, TypeOK, MainPc
<1>4. RingConsistent'
  <2>1. Slot(0, count, n) = count
    BY <1>0, SlotInRange
  <2> QED BY <2>1 DEF RingConsistent
<1>5. OneOwner'
  <2>1. Owning' = Owning
    BY <1>2, ThreadFacts DEF Owning
  <2> QED BY <1>1, <2>1 DEF IndInv, OneOwner
<1>6. MutexInv' /\ HandInv'
  BY <1>2, ThreadFacts DEF MutexInv, HandInv, IndInv
<1>7. BodyInv'
  BY <1>2, ThreadFacts DEF MutexInv, BodyInv, IndInv
<1>8. LiveInv' /\ RemoveInv'
  BY <1>2, ThreadFacts DEF LiveInv, RemoveInv, IndInv
<1> QED BY <1>3, <1>4, <1>5, <1>6, <1>7, <1>8 DEF IndInv

\* queue_resize_increase.
LEMMA CmdIncreaseInv ==
  ASSUME IndInv, CmdIncrease
  PROVE  IndInv'
<1> USE DEF CmdIncrease
<1>1. capacity + 1 \in Nat \ {0} /\ count < capacity + 1
  BY DEF IndInv, TypeOK
<1> QED BY <1>1, ResizeFrame

\* queue_resize_decrease leaves room for the messages it moves.
LEMMA CmdDecreaseInv ==
  ASSUME IndInv, CmdDecrease
  PROVE  IndInv'
<1> USE DEF CmdDecrease
<1>1. CASE capacity <= 1 \/ count >= capacity - 1
  <2>0. UNCHANGED <<workerData, mutex, pc>> /\ (running' => running)
    BY <1>1 DEF workerData
  <2>1. RingConsistent' /\ OneOwner' /\ MutexInv' /\ BodyInv' /\ HandInv'
    BY <2>0, MainFrame
  <2>2. TypeOK'
    BY <1>1 DEF IndInv, TypeOK, MainPc, queueVars
  <2>3. LiveInv' /\ RemoveInv'
    BY <1>1 DEF IndInv, LiveInv, RemoveInv
  <2> QED BY <2>1, <2>2, <2>3 DEF IndInv
<1>2. CASE ~(capacity <= 1 \/ count >= capacity - 1)
  <2>1. capacity - 1 \in Nat \ {0} /\ count < capacity - 1
    BY <1>2 DEF IndInv, TypeOK
  <2> QED BY <1>2, <2>1, ResizeFrame
<1> QED BY <1>1, <1>2

(***************************************************************************)
(* The worker steps that move a message.                                    *)
(***************************************************************************)
LEMMA ProducerLoopInv ==
  ASSUME IndInv, NEW t \in Producers, ProducerLoop(t)
  PROVE  IndInv'
<1> USE DEF ProducerLoop
<1>0. t \in Threads /\ pc \in [Threads -> WorkerPc] /\ t \notin Owning
      /\ held \in [Threads -> Msg \cup {NoMsg}] /\ pc[t] # "off"
  BY ThreadFacts DEF IndInv, TypeOK, Owning
<1>1. CASE ~running
  <2>1. t \in Owning' <=> t \in Owning
    BY <1>0, <1>1, ThreadFacts DEF Owning
  <2>2. TypeOK' /\ RingConsistent' /\ OneOwner' /\ LiveInv' /\ RemoveInv'
    BY <1>0, <1>1, <2>1, PcFrame DEF IndInv, TypeOK, WorkerPc
  <2>3. MutexInv' /\ BodyInv' /\ HandInv'
    BY <1>0, <1>1, ThreadFacts DEF MutexInv, BodyInv, HandInv, IndInv
  <2> QED BY <2>2, <2>3 DEF IndInv
<1>2. CASE running
  <2>1. PICK m \in Msg \ heap : /\ heap' = heap \cup {m}
                                /\ held' = [held EXCEPT ![t] = m]
    BY <1>2
  <2>2. pc' = [pc EXCEPT ![t] = "lock"]
    BY <1>2
  <2>3. \A u \in Threads : /\ pc'[u] = IF u = t THEN "lock" ELSE pc[u]
                           /\ held'[u] = IF u = t THEN m ELSE held[u]
    BY <1>0, <2>1, <2>2
  <2>4. TypeOK'
    BY <1>0, <2>1, <2>2 DEF IndInv, TypeOK, WorkerPc, queueVars, mainVars
  <2>5. RingConsistent' /\ Queued' = Queued /\ count' = count
    BY QueueSame DEF IndInv
  <2>6. OneOwner'
    <3>1. Owning' = Owning \cup {t}
      BY <2>3, ThreadFacts DEF Owning
    <3>2. Owning \subseteq Threads
      BY ThreadFacts DEF Owning
    <3>3. {held'[u] : u \in Owning'} = {held[u] : u \in Owning} \cup {m}
      BY <1>0, <2>3, <3>1, <3>2
    <3>4. /\ \A u \in Owning : held[u] \in heap
          /\ \A i \in 1..count : Queued[i] \in heap
          /\ \A x \in leaked : x \in heap
      BY DEF IndInv, OneOwner
    <3> QED BY <1>0, <2>1, <2>3, <2>5, <3>1, <3>2, <3>3, <3>4 DEF IndInv, OneOwner
  <2>7. MutexInv' /\ BodyInv' /\ HandInv'
    BY <1>0, <2>3, <2>5, ThreadFacts DEF MutexInv, BodyInv, HandInv, IndInv, queueVars
  <2>8. LiveInv' /\ RemoveInv'
    BY <1>0, <2>3, <2>5, ThreadFacts DEF LiveInv, RemoveInv, IndInv, mainVars
  <2> QED BY <2>4, <2>5, <2>6, <2>7, <2>8 DEF IndInv
<1> QED BY <1>1, <1>2

\* queue_push returns -1 and the producer frees its own message.
LEMMA PushRefusedInv ==
  ASSUME IndInv, NEW t \in Producers, PushRefused(t)
  PROVE  IndInv'
<1> USE DEF PushRefused
<1>0. t \in Threads /\ pc \in [Threads -> WorkerPc] /\ t \in Owning
      /\ held \in [Threads -> Msg \cup {NoMsg}] /\ pc[t] # "off" /\ mutex = t
  BY ThreadFacts DEF IndInv, TypeOK, Owning, MutexInv
<1>1. \A u \in Threads : /\ pc'[u] = IF u = t THEN "off" ELSE pc[u]
                         /\ held'[u] = IF u = t THEN NoMsg ELSE held[u]
  BY <1>0
<1>2. TypeOK'
  BY <1>0 DEF IndInv, TypeOK, WorkerPc, queueVars, mainVars
<1>3. RingConsistent' /\ Queued' = Queued /\ count' = count
  BY QueueSame DEF IndInv
<1>4. OneOwner'
  <2>0. Owning \subseteq Threads /\ Owning' \subseteq Threads
    BY ThreadFacts DEF Owning
  <2>1. Owning' = Owning \ {t} /\ Owning \subseteq Threads
    <3>1. \A u \in Threads : u \in Owning' <=> u \in Owning /\ u # t
      BY <1>0, <1>1, ThreadFacts DEF Owning
    <3> QED BY <2>0, <3>1
  <2>2. \A u \in Owning' : u \in Owning /\ u # t /\ held'[u] = held[u]
    BY <1>1, <2>1
  <2>3. heap' = leaked' \cup {Queued'[i] : i \in 1..count'}
                        \cup {held'[u] : u \in Owning'}
    BY <1>0, <1>3, <2>1, <2>2 DEF IndInv, OneOwner
  <2> QED BY <1>3, <2>2, <2>3 DEF IndInv, OneOwner
<1>5. MutexInv' /\ BodyInv' /\ HandInv'
  BY <1>0, <1>1, <1>3, ThreadFacts DEF MutexInv, BodyInv, HandInv, IndInv, queueVars
<1>6. LiveInv' /\ RemoveInv'
  BY <1>0, <1>1, <1>3, ThreadFacts DEF LiveInv, RemoveInv, IndInv, mainVars
<1> QED BY <1>2, <1>3, <1>4, <1>5, <1>6 DEF IndInv

\* The producer prints a message that is not its own any more.
LEMMA ProducerPrintInv ==
  ASSUME IndInv, NEW t \in Producers, ProducerPrint(t)
  PROVE  IndInv'
<1> USE DEF ProducerPrint
<1>0. t \in Threads /\ pc \in [Threads -> WorkerPc] /\ t \notin Owning
      /\ held \in [Threads -> Msg \cup {NoMsg}]
  BY ThreadFacts DEF IndInv, TypeOK, Owning
<1>1. \A u \in Threads : /\ u # t => pc'[u] = pc[u] /\ held'[u] = held[u]
                         /\ u = t => pc'[u] \in {"sleep", "off"}
  BY <1>0
<1>2. TypeOK'
  BY <1>0 DEF IndInv, TypeOK, WorkerPc, queueVars, mainVars
<1>3. RingConsistent' /\ Queued' = Queued /\ count' = count
  BY QueueSame DEF IndInv
<1>4. OneOwner'
  <2>1. Owning' = Owning /\ Owning \subseteq Threads
    <3>1. Owning \subseteq Threads /\ Owning' \subseteq Threads
      BY ThreadFacts DEF Owning
    <3>2. \A u \in Threads : u \in Owning' <=> u \in Owning
      BY <1>0, <1>1, ThreadFacts DEF Owning
    <3> QED BY <3>1, <3>2
  <2>2. \A u \in Owning : held'[u] = held[u]
    BY <1>0, <1>1, <2>1
  <2> QED BY <1>3, <2>1, <2>2 DEF IndInv, OneOwner
<1>5. MutexInv' /\ BodyInv' /\ HandInv'
  BY <1>0, <1>1, <1>3, ThreadFacts DEF MutexInv, BodyInv, HandInv, IndInv, queueVars
<1>6. LiveInv' /\ RemoveInv'
  BY <1>0, <1>1, <1>3, ThreadFacts DEF LiveInv, RemoveInv, IndInv, mainVars
<1> QED BY <1>2, <1>3, <1>4, <1>5, <1>6 DEF IndInv

\* The consumer frees the message it owns, or leaks it when cancelled.
LEMMA ConsumerPrintInv ==
  ASSUME IndInv, NEW t \in Consumers, ConsumerPrint(t)
  PROVE  IndInv'
<1> USE DEF ConsumerPrint
<1>0. t \in Threads /\ pc \in [Threads -> WorkerPc] /\ t \in Owning
      /\ held \in [Threads -> Msg \cup {NoMsg}]
  BY ThreadFacts DEF IndInv, TypeOK, Owning
<1>1. \A u \in Threads : /\ u # t => pc'[u] = pc[u] /\ held'[u] = held[u]
                         /\ u = t => /\ pc'[u] \in {"sleep", "off"}
                                     /\ held'[u] = NoMsg
  BY <1>0
<1>2. held[t] \in heap /\ heap \subseteq Msg
  BY <1>0 DEF IndInv, OneOwner, TypeOK
<1>3. TypeOK'
  BY <1>0, <1>2 DEF IndInv, TypeOK, WorkerPc, queueVars, mainVars
<1>4. RingConsistent' /\ Queued' = Queued /\ count' = count
  BY QueueSame DEF IndInv
<1>5. OneOwner'
  <2>0. Owning \subseteq Threads /\ Owning' \subseteq Threads
    BY ThreadFacts DEF Owning
  <2>1. Owning' = Owning \ {t} /\ Owning \subseteq Threads
    <3>1. \A u \in Threads : u \in Owning' <=> u \in Owning /\ u # t
      BY <1>0, <1>1, ThreadFacts DEF Owning
    <3> QED BY <2>0, <3>1
  <2>2. \A u \in Owning' : u \in Owning /\ u # t /\ held'[u] = held[u]
    BY <1>1, <2>1
  <2>3. heap' = leaked' \cup {Queued'[i] : i \in 1..count'}
                        \cup {held'[u] : u \in Owning'}
    BY <1>0, <1>4, <2>1, <2>2 DEF IndInv, OneOwner
  <2>4. leaked' \subseteq leaked \cup {held[t]}
    OBVIOUS
  <2> QED BY <1>0, <1>4, <2>2, <2>3, <2>4 DEF IndInv, OneOwner
<1>6. MutexInv' /\ BodyInv' /\ HandInv'
  BY <1>0, <1>1, <1>4, ThreadFacts DEF MutexInv, BodyInv, HandInv, IndInv, queueVars
<1>7. LiveInv' /\ RemoveInv'
  BY <1>0, <1>1, <1>4, ThreadFacts DEF LiveInv, RemoveInv, IndInv, mainVars
<1> QED BY <1>3, <1>4, <1>5, <1>6, <1>7 DEF IndInv

\* A signal moves at most one sleeping thread, and never the signalling one.
LEMMA SignalFrame ==
  ASSUME pc \in [Threads -> WorkerPc], NEW t \in Threads, pc[t] = "body",
         NEW S \in SUBSET Threads,
         pc' \in Signal([pc EXCEPT ![t] = "print"], S)
  PROVE  /\ pc' \in [Threads -> WorkerPc]
         /\ pc'[t] = "print"
         /\ \A u \in Threads : u # t =>
               pc'[u] = pc[u] \/ (pc[u] = "wait" /\ pc'[u] = "woken")
<1> DEFINE p == [pc EXCEPT ![t] = "print"]
           W == {u \in S : p[u] = "wait"}
<1>1. p \in [Threads -> WorkerPc] /\ p[t] = "print"
  BY DEF WorkerPc
<1>2. CASE W = {}
  <2>1. pc' = p
    BY <1>2 DEF Signal
  <2> QED BY <1>1, <2>1
<1>3. CASE W # {}
  <2>1. PICK w \in W : pc' = [p EXCEPT ![w] = "woken"]
    BY <1>3 DEF Signal
  <2>2. w \in Threads /\ w # t /\ pc[w] = "wait"
    BY <1>1, <2>1
  <2> QED BY <1>1, <2>1, <2>2 DEF WorkerPc
<1> QED BY <1>2, <1>3

\* The queue as a sequence.
LEMMA QueuedType ==
  ASSUME TypeOK
  PROVE  /\ head \in Nat /\ count \in Nat /\ capacity \in Nat
         /\ IsRing(Msg \cup {Junk}, buffer, head, count, capacity)
         /\ Queued \in Seq(Msg \cup {Junk}) /\ Len(Queued) = count
<1>1. /\ head \in Nat /\ count \in Nat /\ capacity \in Nat
      /\ IsRing(Msg \cup {Junk}, buffer, head, count, capacity)
  BY DEF TypeOK, IsRing
<1> QED BY <1>1, ContentsType DEF Queued

\* What a push does to the queue, as a sequence.
LEMMA PushStoreFacts ==
  ASSUME IndInv, NEW t \in Producers, PushStore(t)
  PROVE  /\ t \in Threads /\ t \in Owning /\ mutex = t /\ held[t] \in Msg
         /\ count \in 0..(capacity - 1) /\ TypeOK'
         /\ \A i \in 1..count : Queued'[i] = Queued[i]
         /\ Queued'[count + 1] = held[t]
         /\ RingConsistent'
         /\ pc' \in [Threads -> WorkerPc] /\ pc'[t] = "print"
         /\ \A u \in Threads : u # t =>
               pc'[u] = pc[u] \/ (pc[u] = "wait" /\ pc'[u] = "woken")
<1> USE DEF PushStore
<1>1. /\ capacity \in Nat \ {0} /\ head \in 0..(capacity - 1)
      /\ count \in 0..capacity /\ t \in Threads
      /\ buffer \in [0..(capacity - 1) -> Msg \cup {Junk}]
      /\ tail = Slot(head, count, capacity) /\ tail \in 0..(capacity - 1)
  BY ThreadFacts DEF IndInv, TypeOK, RingConsistent
<1>2. t \in Owning /\ mutex = t /\ held[t] \in Msg
  BY <1>1 DEF IndInv, Owning, MutexInv, OneOwner, TypeOK
<1>3. count \in 0..(capacity - 1)
  BY <1>1 DEF IndInv, BodyInv
<1>4. /\ \A i \in 1..count : Queued'[i] = Queued[i]
      /\ Queued'[count + 1] = held[t]
  <2>1. \A i \in 1..count :
          /\ Slot(head, i - 1, capacity) \in 0..(capacity - 1)
          /\ Slot(head, i - 1, capacity) # tail
    BY <1>1, <1>3, TailSlotFree
  <2>2. \A i \in 1..count : buffer'[Slot(head, i - 1, capacity)]
                              = buffer[Slot(head, i - 1, capacity)]
    BY <1>1, <2>1
  <2>3. buffer'[Slot(head, (count + 1) - 1, capacity)] = held[t]
    <3>1. (count + 1) - 1 = count
      BY <1>1
    <3>2. buffer'[tail] = held[t]
      BY <1>1
    <3> HIDE DEF PushStore
    <3> QED BY <1>1, <3>1, <3>2
  <2>4. /\ Queued' = [i \in 1..(count + 1) |-> buffer'[Slot(head, i - 1, capacity)]]
        /\ Queued = [i \in 1..count |-> buffer[Slot(head, i - 1, capacity)]]
    BY DEF Queued, Contents
  <2>5. \A i \in 1..count : i \in 1..(count + 1)
    BY <1>1
  <2>6. count + 1 \in 1..(count + 1)
    BY <1>1
  <2> HIDE DEF PushStore
  <2> QED BY <2>2, <2>3, <2>4, <2>5, <2>6
<1>5. RingConsistent' /\ tail' \in 0..(capacity - 1)
  <2>1. tail' = Succ(Slot(head, count, capacity), capacity)
    BY <1>1
  <2>2. tail' = Slot(head, count + 1, capacity)
    BY <1>1, <1>3, <2>1, SuccOfSlot
  <2>3. count + 1 \in 0..capacity
    BY <1>1, <1>3
  <2> QED BY <1>1, <2>2, <2>3, SlotInRange DEF RingConsistent
<1>6. /\ pc' \in [Threads -> WorkerPc] /\ pc'[t] = "print"
      /\ \A u \in Threads : u # t =>
            pc'[u] = pc[u] \/ (pc[u] = "wait" /\ pc'[u] = "woken")
  BY <1>1, SignalFrame, ThreadFacts DEF IndInv, TypeOK
<1>7. TypeOK'
  <2>1. (added + 1) % CountMod \in 0..(CountMod - 1)
    BY CondQueueAssumption DEF IndInv, TypeOK
  <2> QED BY <1>1, <1>2, <1>3, <1>5, <1>6, <2>1 DEF IndInv, TypeOK, mainVars
<1> QED BY <1>1, <1>2, <1>3, <1>4, <1>5, <1>6, <1>7

\* queue_push hands the message from the producer to the queue.
LEMMA PushStoreInv ==
  ASSUME IndInv, NEW t \in Producers, PushStore(t)
  PROVE  IndInv'
<1> USE DEF PushStore
<1>0. /\ t \in Threads /\ t \in Owning /\ mutex = t /\ held[t] \in Msg
      /\ count \in 0..(capacity - 1) /\ capacity \in Nat \ {0}
      /\ TypeOK' /\ RingConsistent'
  BY PushStoreFacts DEF IndInv, TypeOK
<1>1. /\ pc' \in [Threads -> WorkerPc] /\ pc'[t] = "print"
      /\ \A u \in Threads : u # t =>
            pc'[u] = pc[u] \/ (pc[u] = "wait" /\ pc'[u] = "woken")
  BY PushStoreFacts
<1>2. /\ \A i \in 1..count : Queued'[i] = Queued[i]
      /\ Queued'[count + 1] = held[t]
  BY PushStoreFacts
<1>5. OneOwner'
  <2>1. Owning' = Owning \ {t} /\ Owning \subseteq Threads
    <3>1. Owning \subseteq Threads /\ Owning' \subseteq Threads
      BY ThreadFacts DEF Owning
    <3>2. \A u \in Threads : u \in Owning' <=> u \in Owning /\ u # t
      BY <1>0, <1>1, ThreadFacts DEF Owning
    <3> QED BY <3>1, <3>2
  <2>2. \A u \in Owning' : u \in Owning /\ u # t
    BY <2>1
  <2>3. count' = count + 1
        /\ 1..count' = 1..count \cup {count + 1}
    BY <1>0
  <2>4. {Queued'[i] : i \in 1..count'} = {Queued[i] : i \in 1..count} \cup {held[t]}
    BY <1>2, <2>3
  <2>5. {held'[u] : u \in Owning'} \cup {held[t]} = {held[u] : u \in Owning}
    BY <1>0, <2>1
  <2>6. heap' = leaked' \cup {Queued'[i] : i \in 1..count'}
                        \cup {held'[u] : u \in Owning'}
    BY <2>4, <2>5 DEF IndInv, OneOwner
  <2>7. \A i, j \in 1..count' : Queued'[i] = Queued'[j] => i = j
    BY <1>0, <1>2, <2>3 DEF IndInv, OneOwner
  <2>8. \A u \in Owning', i \in 1..count' : held'[u] # Queued'[i]
    BY <1>0, <1>2, <2>2, <2>3 DEF IndInv, OneOwner
  <2>9. \A i \in 1..count' : Queued'[i] \notin leaked'
    BY <1>0, <1>2, <2>3 DEF IndInv, OneOwner
  <2> QED BY <2>2, <2>6, <2>7, <2>8, <2>9 DEF IndInv, OneOwner
<1>6. MutexInv' /\ HandInv'
  BY <1>0, <1>1, ThreadFacts DEF MutexInv, HandInv, IndInv
<1>7. BodyInv'
  BY <1>0, <1>1, ThreadFacts DEF MutexInv, BodyInv, IndInv
<1>8. LiveInv'
  BY <1>0, <1>1, ThreadFacts DEF LiveInv, IndInv, mainVars
<1>9. RemoveInv'
  <2>1. mpc # "done"
    <3>1. pc[t] # "off"
      OBVIOUS
    <3>2. t < prodCount \/ mpc = "join"
      BY <3>1 DEF IndInv, LiveInv
    <3>3. t \in Nat /\ prodCount \in Nat
      BY <1>0, ThreadFacts, CondQueueAssumption DEF IndInv, TypeOK
    <3> QED BY <3>2, <3>3 DEF IndInv, RemoveInv
  <2> QED BY <2>1 DEF RemoveInv, IndInv, mainVars
<1> QED BY <1>0, <1>5, <1>6, <1>7, <1>8, <1>9 DEF IndInv

\* What a pop does to the queue, as a sequence.
LEMMA PopTakeFacts ==
  ASSUME IndInv, NEW t \in Consumers, PopTake(t)
  PROVE  /\ t \in Threads /\ t \notin Owning /\ mutex = t
         /\ count \in 1..capacity /\ TypeOK'
         /\ \A i \in 1..(count - 1) : Queued'[i] = Queued[i + 1]
         /\ Queued[1] = buffer[head] /\ buffer[head] \in Msg
         /\ RingConsistent'
         /\ pc' \in [Threads -> WorkerPc] /\ pc'[t] = "print"
         /\ \A u \in Threads : u # t =>
               pc'[u] = pc[u] \/ (pc[u] = "wait" /\ pc'[u] = "woken")
<1> USE DEF PopTake
<1>1. /\ capacity \in Nat \ {0} /\ head \in 0..(capacity - 1)
      /\ count \in 0..capacity /\ t \in Threads
      /\ buffer \in [0..(capacity - 1) -> Msg \cup {Junk}]
      /\ tail = Slot(head, count, capacity)
  BY ThreadFacts DEF IndInv, TypeOK, RingConsistent
<1>2. t \notin Owning /\ mutex = t
  BY <1>1, ThreadFacts DEF IndInv, Owning, MutexInv
<1>3. count \in 1..capacity
  BY <1>1, ThreadFacts DEF IndInv, BodyInv
<1>4. /\ \A i \in 1..(count - 1) : Queued'[i] = Queued[i + 1]
      /\ Queued[1] = buffer[head]
  <2>1. /\ Queued' = Contents(buffer, Succ(head, capacity), count - 1, capacity)
        /\ Queued = Contents(buffer, head, count, capacity)
    BY DEF Queued
  <2>0. /\ capacity \in Nat \ {0} /\ head \in 0..(capacity - 1)
        /\ count \in 1..capacity
    BY <1>1, <1>3
  <2> HIDE DEF PopTake
  <2>2. /\ \A i \in 1..(count - 1) :
              Contents(buffer, Succ(head, capacity), count - 1, capacity)[i]
                = Contents(buffer, head, count, capacity)[i + 1]
        /\ Contents(buffer, head, count, capacity)[1] = buffer[head]
    BY <2>0, ContentsPop
  <2> QED BY <2>1, <2>2
<1>5. buffer[head] \in Msg
  <2>1. 1 \in 1..count
    BY <1>3
  <2> QED BY <1>4, <2>1 DEF IndInv, OneOwner, TypeOK
<1>6. head' \in 0..(capacity - 1)
  BY <1>1, SuccInRange
<1>7. RingConsistent'
  <2>1. count - 1 \in 0..(capacity - 1) /\ (count - 1) + 1 = count
    BY <1>1, <1>3
  <2>2. Slot(Succ(head, capacity), count - 1, capacity)
          = Slot(head, (count - 1) + 1, capacity)
    BY <1>1, <2>1, SlotOfSucc
  <2> QED BY <1>1, <2>1, <2>2 DEF RingConsistent
<1>8. /\ pc' \in [Threads -> WorkerPc] /\ pc'[t] = "print"
      /\ \A u \in Threads : u # t =>
            pc'[u] = pc[u] \/ (pc[u] = "wait" /\ pc'[u] = "woken")
  BY <1>1, SignalFrame, ThreadFacts DEF IndInv, TypeOK
<1>9. TypeOK'
  <2>1. (removed + 1) % CountMod \in 0..(CountMod - 1)
    BY CondQueueAssumption DEF IndInv, TypeOK
  <2>2. held' \in [Threads -> Msg \cup {NoMsg}]
    BY <1>1, <1>5 DEF IndInv, TypeOK
  <2>3. count' \in 0..capacity
    BY <1>1, <1>3
  <2> QED BY <1>1, <1>6, <1>8, <2>1, <2>2, <2>3 DEF IndInv, TypeOK, mainVars
<1> QED BY <1>1, <1>2, <1>3, <1>4, <1>5, <1>7, <1>8, <1>9

\* queue_pop hands the message from the queue to the consumer.
LEMMA PopTakeInv ==
  ASSUME IndInv, NEW t \in Consumers, PopTake(t)
  PROVE  IndInv'
<1> USE DEF PopTake
<1>0. /\ t \in Threads /\ t \notin Owning /\ mutex = t
      /\ count \in 1..capacity /\ capacity \in Nat \ {0}
      /\ held \in [Threads -> Msg \cup {NoMsg}]
      /\ TypeOK' /\ RingConsistent'
  BY PopTakeFacts DEF IndInv, TypeOK
<1>1. /\ pc' \in [Threads -> WorkerPc] /\ pc'[t] = "print"
      /\ \A u \in Threads : u # t =>
            pc'[u] = pc[u] \/ (pc[u] = "wait" /\ pc'[u] = "woken")
  BY PopTakeFacts
<1>2. /\ \A i \in 1..count' : i + 1 \in 1..count /\ Queued'[i] = Queued[i + 1]
      /\ \A i \in 2..count : i - 1 \in 1..count' /\ Queued'[i - 1] = Queued[i]
      /\ buffer[head] = Queued[1] /\ 1 \in 1..count
  <2>1. \A i \in 1..(count - 1) : Queued'[i] = Queued[i + 1]
    BY PopTakeFacts
  <2>2. \A i \in 2..count : i - 1 \in 1..(count - 1) /\ (i - 1) + 1 = i
    BY <1>0
  <2>3. count' = count - 1 /\ (\A i \in 1..(count - 1) : i + 1 \in 1..count)
    BY <1>0
  <2>4. 1 \in 1..count
    BY <1>0
  <2>6. buffer[head] = Queued[1]
    BY PopTakeFacts
  <2> HIDE DEF PopTake
  <2>5. \A i \in 2..count : Queued'[i - 1] = Queued[i]
    <3> TAKE i \in 2..count
    <3>1. Queued'[i - 1] = Queued[(i - 1) + 1]
      BY <2>1, <2>2
    <3> QED BY <2>2, <3>1
  <2> QED BY <2>1, <2>2, <2>3, <2>4, <2>5, <2>6
<1>3. \A u \in Threads : held'[u] = IF u = t THEN Queued[1] ELSE held[u]
  BY <1>0, <1>2
<1>6. OneOwner'
  <2>1. Owning' = Owning \cup {t} /\ Owning \subseteq Threads
    <3>1. Owning \subseteq Threads /\ Owning' \subseteq Threads
      BY ThreadFacts DEF Owning
    <3>2. \A u \in Threads : u \in Owning' <=> u \in Owning \/ u = t
      BY <1>0, <1>1, ThreadFacts DEF Owning
    <3> QED BY <1>0, <3>1, <3>2
  <2>2. \A u \in Owning : u # t /\ held'[u] = held[u]
    BY <1>0, <1>3, <2>1
  <2>3. {Queued[i] : i \in 1..count}
          = {Queued'[i] : i \in 1..count'} \cup {Queued[1]}
    <3>1. \A i \in 1..count : i = 1 \/ i \in 2..count
      BY <1>0
    <3> QED BY <1>2, <3>1
  <2>4. {held'[u] : u \in Owning'} = {held[u] : u \in Owning} \cup {Queued[1]}
    BY <1>0, <1>3, <2>1, <2>2
  <2>5. heap' = leaked' \cup {Queued'[i] : i \in 1..count'}
                        \cup {held'[u] : u \in Owning'}
    BY <2>3, <2>4 DEF IndInv, OneOwner
  <2>6. \A i, j \in 1..count' : Queued'[i] = Queued'[j] => i = j
    <3> TAKE i, j \in 1..count'
    <3>1. Queued'[i] = Queued'[j] => i + 1 = j + 1
      BY <1>2 DEF IndInv, OneOwner
    <3> QED BY <1>0, <3>1
  <2>7. \A i \in 1..count' : Queued'[i] # Queued[1]
    BY <1>0, <1>2 DEF IndInv, OneOwner
  <2>8. \A u, w \in Owning' : held'[u] = held'[w] => u = w
    <3>1. \A u \in Owning : held[u] # Queued[1]
      BY <1>2 DEF IndInv, OneOwner
    <3>2. held'[t] = Queued[1]
      BY <1>0, <1>3
    <3>3. \A u, w \in Owning : held[u] = held[w] => u = w
      BY DEF IndInv, OneOwner
    <3> QED BY <2>1, <2>2, <3>1, <3>2, <3>3
  <2>9. \A u \in Owning', i \in 1..count' : held'[u] # Queued'[i]
    BY <1>0, <1>2, <1>3, <2>1, <2>2, <2>7 DEF IndInv, OneOwner
  <2>10. /\ \A u \in Owning' : held'[u] \notin leaked'
         /\ \A i \in 1..count' : Queued'[i] \notin leaked'
    BY <1>0, <1>2, <1>3, <2>1, <2>2 DEF IndInv, OneOwner
  <2> QED BY <2>5, <2>6, <2>8, <2>9, <2>10 DEF OneOwner
<1>7. MutexInv'
  BY <1>0, <1>1, ThreadFacts DEF MutexInv, IndInv
<1>8. HandInv'
  BY <1>0, <1>1, <1>3, ThreadFacts DEF HandInv, IndInv
<1>9. BodyInv'
  BY <1>0, <1>1, ThreadFacts DEF MutexInv, BodyInv, IndInv
<1>10. LiveInv'
  BY <1>0, <1>1, ThreadFacts DEF LiveInv, IndInv, mainVars
<1>11. RemoveInv'
  <2>1. mpc # "done"
    BY <1>0 DEF IndInv, RemoveInv
  <2> QED BY <2>1 DEF RemoveInv, IndInv, mainVars
<1> QED BY <1>0, <1>6, <1>7, <1>8, <1>9, <1>10, <1>11 DEF IndInv

(***************************************************************************)
(* The end: by LiveInv no thread is left when the queue is destroyed.       *)
(***************************************************************************)
LEMMA AllEnded ==
  ASSUME IndInv, mpc \in {"destroy", "done"}
  PROVE  /\ \A t \in Threads : pc[t] = "off"
         /\ Owning = {}
<1>1. prodCount = 0 /\ consCount = 0
  BY DEF IndInv, RemoveInv
<1>2. \A t \in Threads : pc[t] = "off"
  BY <1>1, ThreadFacts, CondQueueAssumption DEF IndInv, LiveInv
<1>3. Owning = {}
  BY <1>2, ThreadFacts DEF Owning
<1> QED BY <1>2, <1>3

\* queue_destroy frees what is queued, with nobody left to use it.
LEMMA QueueDestroyInv ==
  ASSUME IndInv, QueueDestroy
  PROVE  IndInv'
<1> USE DEF QueueDestroy
<1>0. /\ capacity \in Nat \ {0} /\ head \in 0..(capacity - 1)
      /\ count \in 0..capacity /\ tail = Slot(head, count, capacity)
  BY DEF IndInv, TypeOK, RingConsistent
<1>1. (\A t \in Threads : pc[t] = "off") /\ Owning = {}
  BY AllEnded
<1>2. head' \in 0..(capacity - 1)
  BY <1>0, SlotInRange
<1>3. TypeOK'
  BY <1>0, <1>2 DEF IndInv, TypeOK, MainPc
<1>4. RingConsistent'
  <2>1. Slot(head', 0, capacity) = head'
    BY <1>0, <1>2, SlotInRange
  <2> QED BY <1>0, <2>1 DEF RingConsistent
<1>5. OneOwner'
  <2>1. Owning' = {}
    BY <1>1 DEF Owning
  <2>2. {buffer[Slot(head, i, capacity)] : i \in 0..(count - 1)}
          = {Queued[i] : i \in 1..count}
    <3>1. \A i \in 1..count : /\ Queued[i] = buffer[Slot(head, i - 1, capacity)]
                              /\ i - 1 \in 0..(count - 1)
      BY <1>0 DEF Queued, Contents
    <3>2. \A i \in 0..(count - 1) :
            i + 1 \in 1..count /\ Queued[i + 1] = buffer[Slot(head, i, capacity)]
      <4> TAKE i \in 0..(count - 1)
      <4>1. i + 1 \in 1..count /\ (i + 1) - 1 = i
        BY <1>0
      <4> QED BY <3>1, <4>1
    <3> QED BY <3>1, <3>2
  <2>3. heap' = leaked
    BY <1>1, <2>2 DEF IndInv, OneOwner
  <2>4. 1..count' = {}
    OBVIOUS
  <2> QED BY <2>1, <2>3, <2>4 DEF OneOwner
<1>6. MutexInv' /\ BodyInv' /\ HandInv'
  BY <1>1, ThreadFacts DEF MutexInv, BodyInv, HandInv, IndInv
<1>7. LiveInv' /\ RemoveInv'
  BY <1>1, ThreadFacts DEF LiveInv, RemoveInv, IndInv
<1> QED BY <1>3, <1>4, <1>5, <1>6, <1>7 DEF IndInv

-----------------------------------------------------------------------------
\* The state after queue_init satisfies the invariant.
LEMMA InitInv == Init => IndInv
<1> SUFFICES ASSUME Init PROVE IndInv
  OBVIOUS
<1> USE CondQueueAssumption DEF Init
<1>1. Owning = {} /\ 1..count = {}
  <2>1. \A t \in Threads : pc[t] = "off"
    OBVIOUS
  <2>2. \A t \in Threads : t \notin Owning
    BY <2>1 DEF Owning
  <2>3. Owning = {}
    BY <2>2, ThreadFacts DEF Owning
  <2> QED BY <2>3
<1>2. TypeOK
  BY DEF TypeOK, WorkerPc, MainPc
<1>3. RingConsistent
  <2>1. Slot(0, 0, InitialCap) = 0
    BY SlotInRange
  <2> QED BY <2>1 DEF RingConsistent
<1>4. OneOwner
  BY <1>1 DEF OneOwner
<1>5. MutexInv /\ BodyInv /\ HandInv
  BY ThreadFacts DEF MutexInv, BodyInv, HandInv
<1>6. LiveInv /\ RemoveInv
  BY ThreadFacts DEF LiveInv, RemoveInv
<1> QED BY <1>2, <1>3, <1>4, <1>5, <1>6 DEF IndInv

\* Every step of the program preserves the inductive invariant.
LEMMA NextInv == IndInv /\ [Next]_vars => IndInv'
<1> SUFFICES ASSUME IndInv, [Next]_vars PROVE IndInv'
  OBVIOUS
<1>1. ASSUME NEW t \in Producers, ProducerStep(t) PROVE IndInv'
  BY <1>1, ThreadFacts, ProducerLoopInv, PushEnterInv, CondWaitInv,
     PushRefusedInv, PushStoreInv, ProducerPrintInv, SleepInv DEF ProducerStep
<1>2. ASSUME NEW t \in Consumers, ConsumerStep(t) PROVE IndInv'
  BY <1>2, ThreadFacts, ConsumerLoopInv, PopEnterInv, CondWaitInv,
     PopRefusedInv, PopTakeInv, ConsumerPrintInv, SleepInv DEF ConsumerStep
<1>3. ASSUME NEW t \in Threads, SpuriousWakeup(t) PROVE IndInv'
  BY <1>3, SpuriousWakeupInv
<1>4. CASE MainStep
  BY <1>4, MainLoopInv, MainScanInv, RemoveBroadcastInv, RemoveCancelInv,
     RemoveJoinInv, RemoveAllBroadcastInv, RemoveAllNextInv, QuitBroadcastInv,
     QueueDestroyInv DEF MainStep
<1>5. CASE UserStep
  BY <1>5, CmdCreateProducerInv, CmdCreateConsumerInv, CmdRemoveInv,
     CmdKillAllInv, CmdIncreaseInv, CmdDecreaseInv, CmdStatusInv, CmdUnknownInv,
     CmdQuitInv, CmdEofInv, SigintInv DEF UserStep
<1>6. CASE UNCHANGED vars
  <2>1. Queued' = Queued /\ Owning' = Owning
    BY <1>6 DEF vars, queueVars, Queued, Owning
  <2> QED BY <1>6, <2>1 DEF vars, queueVars, mainVars, IndInv, TypeOK,
          RingConsistent, OneOwner, MutexInv, BodyInv, HandInv, LiveInv, RemoveInv
<1> QED BY <1>1, <1>2, <1>3, <1>4, <1>5, <1>6 DEF Next, Terminated

\* IndInv holds in every reachable state.
THEOREM Invariance == Spec => []IndInv
<1> QED BY InitInv, NextInv, PTL DEF Spec

\* Every variable of the process stays in its range, for any number of
\* threads, capacity and heap.
THEOREM TypeCorrect == Spec => []TypeOK
<1>1. IndInv => TypeOK
  BY DEF IndInv
<1> QED BY <1>1, Invariance, PTL

\* head, tail and count describe one ring after every push, pop and resize.
THEOREM RingCorrect == Spec => []RingConsistent
<1>1. IndInv => RingConsistent
  BY DEF IndInv
<1> QED BY <1>1, Invariance, PTL

\* Every allocated message has exactly one owner.
THEOREM OwnershipCorrect == Spec => []OneOwner
<1>1. IndInv => OneOwner
  BY DEF IndInv
<1> QED BY <1>1, Invariance, PTL

\* queue_destroy runs after the end of every thread and frees every message
\* that no cancelled consumer leaked.
THEOREM DestructionCorrect == Spec => []DestroyedLast
<1>1. IndInv => DestroyedLast
  <2> SUFFICES ASSUME IndInv, mpc = "done"
               PROVE  (\A t \in Threads : pc[t] = "off") /\ heap = leaked
    BY DEF DestroyedLast
  <2>1. (\A t \in Threads : pc[t] = "off") /\ Owning = {} /\ 1..count = {}
    BY AllEnded DEF IndInv, RemoveInv
  <2>2. heap = leaked
    BY <2>1 DEF IndInv, OneOwner
  <2> QED BY <2>1, <2>2
<1> QED BY <1>1, Invariance, PTL

-----------------------------------------------------------------------------
(***************************************************************************)
(* No wakeup is lost.  Beyond IndInv this needs what a thread that is about *)
(* to wait has seen: the mutex keeps it true until it waits.                *)
(***************************************************************************)

\* A producer goes to sleep on a full queue only, a consumer on an empty one.
BlockInv ==
  \A t \in Threads : pc[t] = "block" =>
     IF t \in Producers THEN count = capacity ELSE count = 0

WakeInv == BlockInv /\ NoLostWakeup

\* The threads of S that are up to use a slot or a message, when the labels of
\* the threads are f; and that they are n at least if some of S are asleep.
AwakeAt(f, S)  == {t \in S : f[t] \in {"woken", "body"}}
WakeOK(f, S, n) ==
  {t \in S : f[t] = "wait"} # {} => Cardinality(AwakeAt(f, S)) >= n

\* NoLostWakeup in these terms, before and after a step.
LEMMA NoLostWakeupIs ==
  /\ NoLostWakeup <=> (running => /\ WakeOK(pc, Producers, capacity - count)
                                  /\ WakeOK(pc, Consumers, count))
  /\ NoLostWakeup' <=> (running' => /\ WakeOK(pc', Producers, capacity' - count')
                                    /\ WakeOK(pc', Consumers, count'))
<1> QED BY DEF NoLostWakeup, WakeOK, AwakeAt, Waiters

\* Both kinds of thread are finite sets.
LEMMA KindsFinite == IsFiniteSet(Producers) /\ IsFiniteSet(Consumers)
<1> QED BY FS_Interval, CondQueueAssumption DEF Producers, Consumers

\* The number of threads that are up is a number.
LEMMA AwakeFinite ==
  ASSUME NEW S, IsFiniteSet(S), NEW f
  PROVE  IsFiniteSet(AwakeAt(f, S)) /\ Cardinality(AwakeAt(f, S)) \in Nat
<1>1. AwakeAt(f, S) \subseteq S
  BY DEF AwakeAt
<1>2. IsFiniteSet(AwakeAt(f, S))
  BY <1>1, FS_Subset
<1> QED BY <1>2, FS_CardinalityType

\* Nobody falls asleep, and nobody who is up goes away.
LEMMA WakeGrows ==
  ASSUME NEW S, IsFiniteSet(S), NEW f, NEW g, NEW n \in Int, WakeOK(f, S, n),
         \A t \in S : /\ g[t] = "wait" => f[t] = "wait"
                      /\ f[t] \in {"woken", "body"} => g[t] \in {"woken", "body"}
  PROVE  WakeOK(g, S, n)
<1> DEFINE A == AwakeAt(f, S)
           B == AwakeAt(g, S)
<1>1. A \subseteq B
  BY DEF AwakeAt
<1>2. IsFiniteSet(B) /\ Cardinality(A) \in Nat /\ Cardinality(B) \in Nat
  BY AwakeFinite
<1>3. {t \in S : g[t] = "wait"} # {} => {t \in S : f[t] = "wait"} # {}
  OBVIOUS
<1>4. {t \in S : g[t] = "wait"} # {} => Cardinality(A) >= n
  BY <1>3 DEF WakeOK
<1> HIDE DEF A, B
<1>5. Cardinality(A) <= Cardinality(B)
  BY <1>1, <1>2, FS_Subset
<1>6. {t \in S : g[t] = "wait"} # {} => Cardinality(B) >= n
  BY <1>2, <1>4, <1>5
<1> QED BY <1>6 DEF WakeOK, B

\* Nothing is there to be used.
LEMMA WakeZero ==
  ASSUME NEW S, IsFiniteSet(S), NEW g, NEW n \in Int, n <= 0
  PROVE  WakeOK(g, S, n)
<1>1. Cardinality(AwakeAt(g, S)) \in Nat
  BY AwakeFinite
<1> QED BY <1>1 DEF WakeOK

\* One thread uses one of the n things and is up no more.
LEMMA WakeTurn ==
  ASSUME NEW S, IsFiniteSet(S), NEW f, NEW g, NEW n \in Int, WakeOK(f, S, n),
         NEW t \in S,
         \A u \in S : /\ g[u] = "wait" => f[u] = "wait"
                      /\ u # t /\ f[u] \in {"woken", "body"} =>
                           g[u] \in {"woken", "body"}
  PROVE  WakeOK(g, S, n - 1)
<1> DEFINE A == AwakeAt(f, S)
           B == AwakeAt(g, S)
<1>1. A \subseteq B \cup {t}
  BY DEF AwakeAt
<1>2. /\ IsFiniteSet(B) /\ Cardinality(A) \in Nat /\ Cardinality(B) \in Nat
  BY AwakeFinite
<1>3. {u \in S : g[u] = "wait"} # {} => {u \in S : f[u] = "wait"} # {}
  OBVIOUS
<1>4. {u \in S : g[u] = "wait"} # {} => Cardinality(A) >= n
  BY <1>3 DEF WakeOK
<1> HIDE DEF A, B
<1>5. /\ IsFiniteSet(B \cup {t})
      /\ Cardinality(B \cup {t}) = Cardinality(B)
           \/ Cardinality(B \cup {t}) = Cardinality(B) + 1
  BY <1>2, FS_AddElement
<1>6. Cardinality(A) <= Cardinality(B \cup {t})
  BY <1>1, <1>5, FS_Subset
<1>7. Cardinality(A) <= Cardinality(B) + 1
  BY <1>2, <1>5, <1>6
<1>8. {u \in S : g[u] = "wait"} # {} => Cardinality(B) >= n - 1
  BY <1>2, <1>4, <1>7
<1> QED BY <1>8 DEF WakeOK, B

\* A signal makes up for one more thing to be used.
LEMMA WakeSignal ==
  ASSUME NEW S, IsFiniteSet(S), S \subseteq Threads, NEW f \in [Threads -> WorkerPc],
         NEW n \in Int, WakeOK(f, S, n), NEW g \in Signal(f, S)
  PROVE  WakeOK(g, S, n + 1)
<1> DEFINE W == {t \in S : f[t] = "wait"}
<1>1. CASE W = {}
  <2>1. g = f
    BY <1>1 DEF Signal
  <2> QED BY <1>1, <2>1 DEF WakeOK
<1>2. CASE W # {}
  <2>1. PICK w \in W : g = [f EXCEPT ![w] = "woken"]
    BY <1>2 DEF Signal
  <2> DEFINE A == AwakeAt(f, S)
             B == AwakeAt(g, S)
  <2>2. B = A \cup {w} /\ w \notin A
    BY <2>1 DEF AwakeAt
  <2>3. IsFiniteSet(A) /\ Cardinality(A) \in Nat
    BY AwakeFinite
  <2>4. Cardinality(A) >= n
    BY <1>2 DEF WakeOK
  <2> HIDE DEF A, B
  <2>5. Cardinality(B) = Cardinality(A) + 1
    BY <2>2, <2>3, FS_AddElement
  <2>6. Cardinality(B) >= n + 1
    BY <2>3, <2>4, <2>5
  <2> QED BY <2>6 DEF WakeOK, B
<1> QED BY <1>1, <1>2

\* The bounds are integers.
LEMMA BoundTypes ==
  ASSUME TypeOK
  PROVE  count \in Int /\ capacity \in Int /\ capacity - count \in Int
<1> QED BY DEF TypeOK

\* A step that leaves the number of messages and slots alone, lets nobody fall
\* asleep and takes nobody away who is up.
LEMMA WakeFrame ==
  ASSUME IndInv, WakeInv, running' => running, UNCHANGED <<count, capacity>>,
         \A t \in Threads :
            /\ pc'[t] = "wait" => pc[t] = "wait"
            /\ pc'[t] = "block" => pc[t] = "block"
            /\ pc[t] \in {"woken", "body"} => pc'[t] \in {"woken", "body"}
  PROVE  WakeInv'
<1>1. BlockInv'
  BY DEF WakeInv, BlockInv
<1>2. ASSUME running'
      PROVE  /\ WakeOK(pc', Producers, capacity' - count')
             /\ WakeOK(pc', Consumers, count')
  <2>1. /\ WakeOK(pc, Producers, capacity - count)
        /\ WakeOK(pc, Consumers, count)
    BY <1>2, NoLostWakeupIs DEF WakeInv
  <2>2. count \in Int /\ capacity - count \in Int
    BY BoundTypes DEF IndInv
  <2>3. /\ WakeOK(pc', Producers, capacity - count)
        /\ WakeOK(pc', Consumers, count)
    BY <2>1, <2>2, WakeGrows, KindsFinite, ThreadFacts
  <2> QED BY <2>3
<1>3. NoLostWakeup'
  BY <1>2, NoLostWakeupIs
<1> QED BY <1>1, <1>3 DEF WakeInv

\* The same step, of one thread.
LEMMA WakeMove ==
  ASSUME IndInv, WakeInv, running' => running, UNCHANGED <<count, capacity>>,
         NEW t \in Threads, NEW l, pc' = [pc EXCEPT ![t] = l],
         pc[t] \notin {"woken", "body"} \/ l \in {"woken", "body"},
         l \notin {"wait", "block"}
  PROVE  WakeInv'
<1>1. pc'[t] = l /\ \A u \in Threads : u # t => pc'[u] = pc[u]
  BY DEF IndInv, TypeOK
<1> QED BY <1>1, WakeFrame

\* A thread gives up because the program is to end.
LEMMA WakeRefused ==
  ASSUME IndInv, WakeInv, ~running', UNCHANGED <<count, capacity>>,
         NEW t \in Threads, pc' = [pc EXCEPT ![t] = "off"]
  PROVE  WakeInv'
<1>1. pc'[t] = "off" /\ \A u \in Threads : u # t => pc'[u] = pc[u]
  BY DEF IndInv, TypeOK
<1>2. BlockInv'
  BY <1>1 DEF WakeInv, BlockInv
<1> QED BY <1>2, NoLostWakeupIs DEF WakeInv

\* pthread_cond_wait: nothing is there to be used.
LEMMA CondWaitWakes ==
  ASSUME IndInv, WakeInv, NEW t \in Threads, CondWait(t)
  PROVE  WakeInv'
<1>1. /\ pc[t] = "block" /\ pc' = [pc EXCEPT ![t] = "wait"]
      /\ count' = count /\ capacity' = capacity /\ running' = running
  BY DEF CondWait, queueVars
<1>2. pc'[t] = "wait" /\ \A u \in Threads : u # t => pc'[u] = pc[u]
  BY <1>1 DEF IndInv, TypeOK
<1>3. BlockInv'
  BY <1>1, <1>2 DEF WakeInv, BlockInv
<1>4. count \in Int /\ capacity \in Int /\ capacity - count \in Int
  BY BoundTypes DEF IndInv
<1>5. ASSUME running
      PROVE  /\ WakeOK(pc', Producers, capacity - count)
             /\ WakeOK(pc', Consumers, count)
  <2>1. /\ WakeOK(pc, Producers, capacity - count)
        /\ WakeOK(pc, Consumers, count)
    BY <1>5, NoLostWakeupIs DEF WakeInv
  <2>2. CASE t \in Producers
    <3>1. count = capacity
      BY <1>1, <2>2 DEF WakeInv, BlockInv
    <3>2. capacity - count <= 0
      BY <1>4, <3>1
    <3>3. WakeOK(pc', Producers, capacity - count)
      BY <1>4, <3>2, WakeZero, KindsFinite
    <3>4. \A u \in Consumers : pc'[u] = pc[u]
      BY <1>2, <2>2, ThreadFacts
    <3>5. WakeOK(pc', Consumers, count)
      BY <1>4, <2>1, <3>4, WakeGrows, KindsFinite
    <3> QED BY <3>3, <3>5
  <2>3. CASE t \in Consumers
    <3>1. count <= 0
      BY <1>1, <1>4, <2>3, ThreadFacts DEF WakeInv, BlockInv
    <3>2. WakeOK(pc', Consumers, count)
      BY <1>4, <3>1, WakeZero, KindsFinite
    <3>3. \A u \in Producers : pc'[u] = pc[u]
      BY <1>2, <2>3, ThreadFacts
    <3>4. WakeOK(pc', Producers, capacity - count)
      BY <1>4, <2>1, <3>3, WakeGrows, KindsFinite
    <3> QED BY <3>2, <3>4
  <2> QED BY <2>2, <2>3 DEF Threads
<1>6. NoLostWakeup'
  BY <1>1, <1>5, NoLostWakeupIs
<1> QED BY <1>3, <1>6 DEF WakeInv

\* A producer takes the mutex and finds room, or goes to sleep on a full queue.
LEMMA PushEnterWakes ==
  ASSUME IndInv, WakeInv, NEW t \in Producers, PushEnter(t)
  PROVE  WakeInv'
<1>1. /\ pc[t] \in {"lock", "woken"} /\ t \in Threads
      /\ count' = count /\ capacity' = capacity /\ running' = running
      /\ pc' = [pc EXCEPT ![t] =
                  IF count = capacity /\ running THEN "block" ELSE "body"]
  BY ThreadFacts DEF PushEnter, queueVars
<1>2. CASE ~(count = capacity /\ running)
  <2> DEFINE l == "body"
  <2>1. pc' = [pc EXCEPT ![t] = l] /\ l \in {"woken", "body"}
        /\ l \notin {"wait", "block"}
    BY <1>1, <1>2
  <2> HIDE DEF l
  <2> QED BY <1>1, <2>1, WakeMove
<1>3. CASE count = capacity /\ running
  <2>1. pc'[t] = "block" /\ \A u \in Threads : u # t => pc'[u] = pc[u]
    BY <1>1, <1>3 DEF IndInv, TypeOK
  <2>2. BlockInv'
    BY <1>1, <1>3, <2>1 DEF WakeInv, BlockInv
  <2>3. count \in Int /\ capacity \in Int /\ capacity - count \in Int
    BY BoundTypes DEF IndInv
  <2>4. capacity - count <= 0
    BY <1>3, <2>3
  <2>5. WakeOK(pc', Producers, capacity - count)
    BY <2>3, <2>4, WakeZero, KindsFinite
  <2>6. WakeOK(pc, Consumers, count)
    BY <1>3, NoLostWakeupIs DEF WakeInv
  <2>7. \A u \in Consumers : pc'[u] = pc[u]
    BY <2>1, ThreadFacts
  <2>8. WakeOK(pc', Consumers, count)
    BY <2>3, <2>6, <2>7, WakeGrows, KindsFinite
  <2>9. NoLostWakeup'
    BY <1>1, <2>5, <2>8, NoLostWakeupIs
  <2> QED BY <2>2, <2>9 DEF WakeInv
<1> QED BY <1>2, <1>3

\* A consumer takes the mutex and finds a message, or goes to sleep on an empty
\* queue.
LEMMA PopEnterWakes ==
  ASSUME IndInv, WakeInv, NEW t \in Consumers, PopEnter(t)
  PROVE  WakeInv'
<1>1. /\ pc[t] \in {"lock", "woken"} /\ t \in Threads
      /\ count' = count /\ capacity' = capacity /\ running' = running
      /\ pc' = [pc EXCEPT ![t] =
                  IF count = 0 /\ running THEN "block" ELSE "body"]
  BY ThreadFacts DEF PopEnter, queueVars
<1>2. CASE ~(count = 0 /\ running)
  <2> DEFINE l == "body"
  <2>1. pc' = [pc EXCEPT ![t] = l] /\ l \in {"woken", "body"}
        /\ l \notin {"wait", "block"}
    BY <1>1, <1>2
  <2> HIDE DEF l
  <2> QED BY <1>1, <2>1, WakeMove
<1>3. CASE count = 0 /\ running
  <2>1. pc'[t] = "block" /\ \A u \in Threads : u # t => pc'[u] = pc[u]
    BY <1>1, <1>3 DEF IndInv, TypeOK
  <2>2. BlockInv'
    BY <1>1, <1>3, <2>1, ThreadFacts DEF WakeInv, BlockInv
  <2>3. count \in Int /\ capacity - count \in Int /\ count <= 0
    BY <1>3, BoundTypes DEF IndInv
  <2>4. WakeOK(pc', Consumers, count)
    BY <2>3, WakeZero, KindsFinite
  <2>5. WakeOK(pc, Producers, capacity - count)
    BY <1>3, NoLostWakeupIs DEF WakeInv
  <2>6. \A u \in Producers : pc'[u] = pc[u]
    BY <2>1, ThreadFacts
  <2>7. WakeOK(pc', Producers, capacity - count)
    BY <2>3, <2>5, <2>6, WakeGrows, KindsFinite
  <2>8. NoLostWakeup'
    BY <1>1, <2>4, <2>7, NoLostWakeupIs
  <2> QED BY <2>2, <2>8 DEF WakeInv
<1> QED BY <1>2, <1>3

\* A thread with the mutex changes the number of messages: nobody else is
\* between its test and its sleep.
LEMMA BlockFree ==
  ASSUME IndInv, NEW t \in Threads, pc[t] = "body", pc'[t] # "block",
         \A u \in Threads : u # t =>
            pc'[u] = pc[u] \/ (pc[u] = "wait" /\ pc'[u] = "woken")
  PROVE  BlockInv'
<1>1. \A u \in Threads : u # t => pc[u] # "block"
  BY DEF IndInv, MutexInv
<1>2. \A u \in Threads : pc'[u] # "block"
  BY <1>1
<1> QED BY <1>2 DEF BlockInv

\* A push uses a slot and signals a consumer.
LEMMA PushStoreWakes ==
  ASSUME IndInv, WakeInv, NEW t \in Producers, PushStore(t)
  PROVE  WakeInv'
<1>1. /\ t \in Threads /\ pc'[t] = "print"
      /\ \A u \in Threads : u # t =>
            pc'[u] = pc[u] \/ (pc[u] = "wait" /\ pc'[u] = "woken")
  BY PushStoreFacts
<1> DEFINE f == [pc EXCEPT ![t] = "print"]
<1>2. /\ pc[t] = "body" /\ running /\ count' = count + 1
      /\ capacity' = capacity /\ pc' \in Signal(f, Consumers)
  BY DEF PushStore
<1>3. BlockInv'
  BY <1>1, <1>2, BlockFree
<1>4. count \in Int /\ capacity \in Int /\ capacity - count \in Int
  BY BoundTypes DEF IndInv
<1>5. /\ WakeOK(pc, Producers, capacity - count)
      /\ WakeOK(pc, Consumers, count)
  BY <1>2, NoLostWakeupIs DEF WakeInv
<1>6. WakeOK(pc', Producers, (capacity - count) - 1)
  <2>1. \A u \in Producers : /\ pc'[u] = "wait" => pc[u] = "wait"
                             /\ u # t /\ pc[u] \in {"woken", "body"} =>
                                  pc'[u] \in {"woken", "body"}
    BY <1>1, ThreadFacts
  <2> DEFINE n == capacity - count
  <2>2. n \in Int /\ WakeOK(pc, Producers, n)
    BY <1>4, <1>5
  <2> HIDE DEF n
  <2>3. WakeOK(pc', Producers, n - 1)
    BY <2>1, <2>2, WakeTurn, KindsFinite
  <2> QED BY <2>3 DEF n
<1>7. f \in [Threads -> WorkerPc] /\ \A u \in Consumers : f[u] = pc[u]
  BY <1>1, ThreadFacts DEF IndInv, TypeOK, WorkerPc
<1> HIDE DEF f
<1>8. WakeOK(f, Consumers, count)
  BY <1>4, <1>5, <1>7, WakeGrows, KindsFinite
<1>9. WakeOK(pc', Consumers, count + 1)
  BY <1>2, <1>4, <1>7, <1>8, WakeSignal, KindsFinite, ThreadFacts
<1>10. (capacity - count) - 1 = capacity - (count + 1)
  BY <1>4
<1>11. WakeOK(pc', Producers, capacity - (count + 1))
  BY <1>6, <1>10
<1>12. NoLostWakeup'
  BY <1>2, <1>9, <1>11, NoLostWakeupIs
<1> QED BY <1>3, <1>12 DEF WakeInv

\* A pop uses a message and signals a producer.
LEMMA PopTakeWakes ==
  ASSUME IndInv, WakeInv, NEW t \in Consumers, PopTake(t)
  PROVE  WakeInv'
<1>1. /\ t \in Threads /\ pc'[t] = "print"
      /\ \A u \in Threads : u # t =>
            pc'[u] = pc[u] \/ (pc[u] = "wait" /\ pc'[u] = "woken")
  BY PopTakeFacts
<1> DEFINE f == [pc EXCEPT ![t] = "print"]
<1>2. /\ pc[t] = "body" /\ running' = running /\ count' = count - 1
      /\ capacity' = capacity /\ pc' \in Signal(f, Producers)
  BY DEF PopTake
<1>3. BlockInv'
  BY <1>1, <1>2, BlockFree
<1>4. count \in Int /\ capacity \in Int /\ capacity - count \in Int
  BY BoundTypes DEF IndInv
<1>5. f \in [Threads -> WorkerPc] /\ \A u \in Producers : f[u] = pc[u]
  BY <1>1, ThreadFacts DEF IndInv, TypeOK, WorkerPc
<1> HIDE DEF f
<1>6. ASSUME running
      PROVE  /\ WakeOK(pc', Consumers, count - 1)
             /\ WakeOK(pc', Producers, capacity - (count - 1))
  <2>1. /\ WakeOK(pc, Producers, capacity - count)
        /\ WakeOK(pc, Consumers, count)
    BY <1>6, NoLostWakeupIs DEF WakeInv
  <2>2. \A u \in Consumers : /\ pc'[u] = "wait" => pc[u] = "wait"
                             /\ u # t /\ pc[u] \in {"woken", "body"} =>
                                  pc'[u] \in {"woken", "body"}
    BY <1>1, ThreadFacts
  <2>3. WakeOK(pc', Consumers, count - 1)
    BY <1>4, <2>1, <2>2, WakeTurn, KindsFinite
  <2> DEFINE n == capacity - count
  <2>4. n \in Int /\ WakeOK(pc, Producers, n)
    BY <1>4, <2>1
  <2> HIDE DEF n
  <2>5. WakeOK(f, Producers, n)
    BY <1>5, <2>4, WakeGrows, KindsFinite
  <2>6. WakeOK(pc', Producers, n + 1)
    BY <1>2, <1>5, <2>4, <2>5, WakeSignal, KindsFinite, ThreadFacts
  <2>7. n + 1 = capacity - (count - 1)
    BY <1>4 DEF n
  <2> QED BY <2>3, <2>6, <2>7
<1>7. NoLostWakeup'
  BY <1>2, <1>6, NoLostWakeupIs
<1> QED BY <1>3, <1>7 DEF WakeInv

\* A resize wakes every producer, with no thread between test and sleep.
LEMMA ResizeWakes ==
  ASSUME IndInv, WakeInv, NEW n, Resize(n), mutex = Free, running' = running
  PROVE  WakeInv'
<1>1. pc' = Broadcast(pc, Producers) /\ count' = count
  BY DEF Resize
<1>2. /\ \A u \in Producers : pc'[u] # "wait"
      /\ \A u \in Consumers : pc'[u] = pc[u]
      /\ \A u \in Threads : pc'[u] = "block" => pc[u] = "block"
  BY <1>1, ThreadFacts DEF Broadcast
<1>3. BlockInv'
  <2>1. \A u \in Threads : pc[u] # "block"
    BY ThreadFacts DEF IndInv, MutexInv
  <2> QED BY <1>2, <2>1 DEF BlockInv
<1>4. WakeOK(pc', Producers, capacity' - count')
  BY <1>2 DEF WakeOK
<1>5. ASSUME running PROVE WakeOK(pc', Consumers, count)
  <2>1. WakeOK(pc, Consumers, count) /\ count \in Int
    BY <1>5, NoLostWakeupIs, BoundTypes DEF WakeInv, IndInv
  <2> QED BY <1>2, <2>1, WakeGrows, KindsFinite
<1>6. NoLostWakeup'
  BY <1>1, <1>4, <1>5, NoLostWakeupIs
<1> QED BY <1>3, <1>6 DEF WakeInv

\* A broadcast of main's.
LEMMA BroadcastWakes ==
  ASSUME IndInv, WakeInv, NEW S, pc' = Broadcast(pc, S),
         UNCHANGED <<count, capacity, running>>
  PROVE  WakeInv'
<1>1. \A t \in Threads :
         /\ pc'[t] = "wait" => pc[t] = "wait"
         /\ pc'[t] = "block" => pc[t] = "block"
         /\ pc[t] \in {"woken", "body"} => pc'[t] \in {"woken", "body"}
  BY DEF Broadcast
<1> QED BY <1>1, WakeFrame

\* queue_destroy, when every thread has ended.
LEMMA DestroyWakes ==
  ASSUME IndInv, WakeInv, QueueDestroy
  PROVE  WakeInv'
<1>1. \A t \in Threads : pc'[t] = "off"
  BY AllEnded DEF QueueDestroy
<1>2. BlockInv'
  BY <1>1 DEF BlockInv
<1>3. /\ WakeOK(pc', Producers, capacity' - count')
      /\ WakeOK(pc', Consumers, count')
  BY <1>1, ThreadFacts DEF WakeOK
<1> QED BY <1>2, <1>3, NoLostWakeupIs DEF WakeInv

\* The steps of the workers.
LEMMA WorkerWakes ==
  ASSUME IndInv, WakeInv,
         \/ \E t \in Producers : ProducerStep(t)
         \/ \E t \in Consumers : ConsumerStep(t)
         \/ \E t \in Threads : SpuriousWakeup(t)
  PROVE  WakeInv'
<1>1. ASSUME NEW t \in Threads, Sleep(t) \/ SpuriousWakeup(t)
      PROVE  WakeInv'
  <2>1. CASE Sleep(t)
    <3> DEFINE l == IF t \in cancelled THEN "off" ELSE "loop"
    <3>1. /\ pc[t] = "sleep" /\ pc' = [pc EXCEPT ![t] = l]
          /\ l \in {"off", "loop"} /\ UNCHANGED <<running, count, capacity>>
      BY <2>1 DEF Sleep, queueVars
    <3> HIDE DEF l
    <3> QED BY <3>1, WakeMove
  <2>2. CASE SpuriousWakeup(t)
    BY <2>2, WakeMove, ZenonT(40) DEF SpuriousWakeup, queueVars
  <2> QED BY <1>1, <2>1, <2>2
<1>2. ASSUME NEW t \in Producers, ProducerLoop(t) \/ ProducerPrint(t)
      PROVE  WakeInv'
  <2>1. PICK l \in {"lock", "off", "sleep"} :
           /\ pc[t] \in {"loop", "print"} /\ pc' = [pc EXCEPT ![t] = l]
           /\ UNCHANGED <<running, count, capacity>>
    BY <1>2 DEF ProducerLoop, ProducerPrint, queueVars
  <2> QED BY <2>1, WakeMove, ThreadFacts
<1>3. ASSUME NEW t \in Consumers, ConsumerLoop(t) \/ ConsumerPrint(t)
      PROVE  WakeInv'
  <2>1. PICK l \in {"lock", "off", "sleep"} :
           /\ pc[t] \in {"loop", "print"} /\ pc' = [pc EXCEPT ![t] = l]
           /\ UNCHANGED <<running, count, capacity>>
    BY <1>3 DEF ConsumerLoop, ConsumerPrint, queueVars
  <2> QED BY <2>1, WakeMove, ThreadFacts
<1>4. ASSUME NEW t \in Threads, PushRefused(t) \/ PopRefused(t)
      PROVE  WakeInv'
  BY <1>4, WakeRefused DEF PushRefused, PopRefused, queueVars
<1>5. ASSUME NEW t \in Producers, ProducerStep(t) PROVE WakeInv'
  BY <1>1, <1>2, <1>4, <1>5, ThreadFacts, PushEnterWakes, CondWaitWakes,
     PushStoreWakes DEF ProducerStep
<1>6. ASSUME NEW t \in Consumers, ConsumerStep(t) PROVE WakeInv'
  BY <1>1, <1>3, <1>4, <1>6, ThreadFacts, PopEnterWakes, CondWaitWakes,
     PopTakeWakes DEF ConsumerStep
<1> QED BY <1>1, <1>5, <1>6

\* The steps of main and of the user.
LEMMA MainWakes ==
  ASSUME IndInv, WakeInv, MainStep \/ UserStep
  PROVE  WakeInv'
<1>1. ASSUME UNCHANGED <<workerData, pc>>, running' => running
      PROVE  WakeInv'
  <2>1. UNCHANGED <<count, capacity, pc>>
    BY <1>1 DEF workerData, queueVars
  <2> QED BY <1>1, <2>1, WakeFrame
<1>2. CASE MainLoop \/ MainScan \/ RemoveCancel \/ RemoveJoin \/ RemoveAllNext
             \/ CmdRemove("producer") \/ CmdRemove("consumer") \/ CmdKillAll
             \/ CmdStatus \/ CmdUnknown \/ CmdQuit \/ CmdEof \/ Sigint
  BY <1>1, <1>2 DEF MainLoop, MainScan, RemoveCancel, RemoveJoin, RemoveAllNext,
     CmdRemove, CmdKillAll, CmdStatus, CmdUnknown, CmdQuit, CmdEof, Sigint
<1>3. CASE RemoveBroadcast \/ RemoveAllBroadcast \/ QuitBroadcast
  BY <1>3, BroadcastWakes DEF RemoveBroadcast, RemoveAllBroadcast, QuitBroadcast,
     workerData, queueVars
<1>4. CASE QueueDestroy
  BY <1>4, DestroyWakes
<1>5. CASE CmdIncrease
  BY <1>5, ResizeWakes DEF CmdIncrease
<1>6. CASE CmdDecrease
  <2>1. CASE UNCHANGED <<queueVars, pc>>
    BY <1>6, <2>1, WakeFrame DEF CmdDecrease, queueVars
  <2>2. CASE Resize(capacity - 1)
    BY <1>6, <2>2, ResizeWakes DEF CmdDecrease
  <2> QED BY <1>6, <2>1, <2>2 DEF CmdDecrease
<1>7. CASE CmdCreateProducer \/ CmdCreateConsumer
  <2>1. CASE UNCHANGED pc
    BY <1>1, <1>7, <2>1 DEF CmdCreateProducer, CmdCreateConsumer
  <2>2. ASSUME NEW t, pc' = [pc EXCEPT ![t] = "loop"], t \in Threads => pc[t] = "off"
        PROVE  WakeInv'
    <3>1. \A u \in Threads : pc'[u] = pc[u] \/ (pc[u] = "off" /\ pc'[u] = "loop")
      BY <2>2 DEF IndInv, TypeOK
    <3>2. UNCHANGED <<running, count, capacity>>
      BY <1>7 DEF CmdCreateProducer, CmdCreateConsumer, workerData, queueVars
    <3> QED BY <3>1, <3>2, WakeFrame
  <2>3. /\ mpc = "cmd" /\ prodCount \in Nat /\ consCount \in Nat /\ MaxProds \in Nat
    BY <1>7, CondQueueAssumption
       DEF CmdCreateProducer, CmdCreateConsumer, IndInv, TypeOK
  <2>4. prodCount < MaxProds => pc[prodCount] = "off"
    BY <2>3, ThreadFacts DEF IndInv, LiveInv
  <2>5. consCount < MaxCons => pc[MaxProds + consCount] = "off"
    BY <2>3, ThreadFacts DEF IndInv, LiveInv
  <2>6. CASE pc' = [pc EXCEPT ![prodCount] = "loop"] /\ ~(prodCount >= MaxProds)
    <3>1. prodCount < MaxProds
      BY <2>3, <2>6
    <3> QED BY <2>2, <2>4, <2>6, <3>1
  <2>7. CASE /\ pc' = [pc EXCEPT ![MaxProds + consCount] = "loop"]
             /\ ~(consCount >= MaxCons)
    <3>1. consCount < MaxCons
      BY <2>3, <2>7, CondQueueAssumption
    <3> QED BY <2>2, <2>5, <2>7, <3>1
  <2> QED BY <1>7, <2>1, <2>6, <2>7 DEF CmdCreateProducer, CmdCreateConsumer
<1> QED BY <1>2, <1>3, <1>4, <1>5, <1>6, <1>7 DEF MainStep, UserStep

\* Nothing waits at the start.
LEMMA InitWakes == Init => WakeInv
<1> SUFFICES ASSUME Init PROVE WakeInv
  OBVIOUS
<1>1. \A t \in Threads : pc[t] = "off"
  BY DEF Init
<1>2. BlockInv
  BY <1>1 DEF BlockInv
<1>3. /\ WakeOK(pc, Producers, capacity - count)
      /\ WakeOK(pc, Consumers, count)
  BY <1>1, ThreadFacts DEF WakeOK
<1> QED BY <1>2, <1>3, NoLostWakeupIs DEF WakeInv

\* Every step keeps it.
LEMMA NextWakes == IndInv /\ WakeInv /\ [Next]_vars => WakeInv'
<1> SUFFICES ASSUME IndInv, WakeInv, [Next]_vars PROVE WakeInv'
  OBVIOUS
<1>1. CASE UNCHANGED vars
  BY <1>1, WakeFrame DEF vars, queueVars
<1> QED BY <1>1, WorkerWakes, MainWakes DEF Next, Terminated

\* No wakeup is lost, although every push and pop signals one thread only and
\* the flag is cleared without the mutex (queue.c 32-33, 45, 58-59, 71).
THEOREM WakeupsCorrect == Spec => []NoLostWakeup
<1>1. WakeInv => NoLostWakeup
  BY DEF WakeInv
<1> QED BY <1>1, Invariance, InitWakes, NextWakes, PTL DEF Spec

-----------------------------------------------------------------------------
(***************************************************************************)
(* The counters of the status line wrap, so they agree modulo CountMod.     *)
(***************************************************************************)

\* Their values.
LEMMA CounterTypes ==
  ASSUME IndInv
  PROVE  /\ CountMod \in Nat /\ CountMod >= 1 /\ count \in Int
         /\ added \in 0..(CountMod - 1) /\ removed \in 0..(CountMod - 1)
         /\ added \in Int /\ removed \in Int
<1> QED BY CondQueueAssumption DEF IndInv, TypeOK

\* A wrapping counter goes up by one, or by one less the modulus.
LEMMA CounterNext ==
  ASSUME NEW n \in Nat, n >= 1, NEW a \in 0..(n - 1)
  PROVE  /\ (a + 1) % n \in Int
         /\ (a + 1) % n = a + 1 \/ (a + 1) % n = (a + 1) - n
<1>1. a + 1 \in Nat /\ n # 0 /\ a + 1 < 2 * n
  OBVIOUS
<1>2. (a + 1) % n = IF a + 1 < n THEN a + 1 ELSE (a + 1) - n
  BY <1>1, ModCase
<1> QED BY <1>1, <1>2

\* A step that leaves the queue alone.
LEMMA CountersSame ==
  ASSUME CountersAgree, UNCHANGED <<added, removed, count>>, mpc' # "done" => mpc # "done"
  PROVE  CountersAgree'
<1> QED BY DEF CountersAgree

\* A push counts one message more, and one more added.
LEMMA PushStoreCounts ==
  ASSUME IndInv, CountersAgree, NEW t \in Producers, PushStore(t)
  PROVE  CountersAgree'
<1> DEFINE n == CountMod
           b == (added + 1) % CountMod
<1>1. /\ n \in Nat /\ n >= 1 /\ count \in Int /\ added \in Int /\ removed \in Int
      /\ b \in Int /\ (b = added + 1 \/ b = (added + 1) - n)
  BY CounterTypes, CounterNext
<1>2. count' = count + 1 /\ added' = b /\ removed' = removed /\ mpc # "done"
  BY AllEnded, ThreadFacts DEF PushStore
<1>3. (added - removed) % n = count % n
  BY <1>2 DEF CountersAgree
<1> HIDE DEF n, b
<1>4. ((added - removed) + 1) % n = (count + 1) % n
  <2> DEFINE d == added - removed
  <2>1. d \in Int /\ d % n = count % n
    BY <1>1, <1>3
  <2> HIDE DEF d
  <2>2. (d + 1) % n = (count + 1) % n
    BY <1>1, <2>1, ModStep
  <2> QED BY <2>2 DEF d
<1>5. (b - removed) % n = (count + 1) % n
  <2> DEFINE e == (added - removed) + 1
  <2>1. e \in Int /\ (b - removed = e \/ b - removed = e - n)
    BY <1>1
  <2>2. e % n = (count + 1) % n
    BY <1>4
  <2> HIDE DEF e
  <2>3. (e - n) % n = e % n
    BY <1>1, <2>1, ModShift
  <2> QED BY <2>1, <2>2, <2>3
<1> QED BY <1>2, <1>5 DEF CountersAgree, n

\* A pop counts one message less, and one more removed.
LEMMA PopTakeCounts ==
  ASSUME IndInv, CountersAgree, NEW t \in Consumers, PopTake(t)
  PROVE  CountersAgree'
<1> DEFINE n == CountMod
           b == (removed + 1) % CountMod
<1>1. /\ n \in Nat /\ n >= 1 /\ count \in Int /\ added \in Int /\ removed \in Int
      /\ b \in Int /\ (b = removed + 1 \/ b = (removed + 1) - n)
  BY CounterTypes, CounterNext
<1>2. count' = count - 1 /\ added' = added /\ removed' = b /\ mpc # "done"
  BY AllEnded, ThreadFacts DEF PopTake
<1>3. (added - removed) % n = count % n
  BY <1>2 DEF CountersAgree
<1> HIDE DEF n, b
<1>4. ((added - removed) - 1) % n = (count - 1) % n
  <2> DEFINE d == added - removed
  <2>1. d \in Int /\ d % n = count % n
    BY <1>1, <1>3
  <2> HIDE DEF d
  <2>2. (d - 1) % n = (count - 1) % n
    BY <1>1, <2>1, ModStep
  <2> QED BY <2>2 DEF d
<1>5. (added - b) % n = (count - 1) % n
  <2> DEFINE e == (added - removed) - 1
  <2>1. e \in Int /\ (added - b = e \/ added - b = e + n)
    BY <1>1
  <2>2. e % n = (count - 1) % n
    BY <1>4
  <2> HIDE DEF e
  <2>3. (e + n) % n = e % n
    BY <1>1, <2>1, ModShift
  <2> QED BY <2>1, <2>2, <2>3
<1> QED BY <1>2, <1>5 DEF CountersAgree, n

\* Every step keeps the counters in agreement.
LEMMA NextCounts == IndInv /\ CountersAgree /\ [Next]_vars => CountersAgree'
<1> SUFFICES ASSUME IndInv, CountersAgree, [Next]_vars PROVE CountersAgree'
  OBVIOUS
<1>1. ASSUME NEW t \in Producers, ProducerStep(t) PROVE CountersAgree'
  <2>1. CASE PushStore(t)
    BY <2>1, PushStoreCounts
  <2>2. CASE ~PushStore(t)
    BY <1>1, <2>2, CountersSame DEF ProducerStep, ProducerLoop, PushEnter,
       CondWait, PushRefused, ProducerPrint, Sleep, queueVars, mainVars
  <2> QED BY <2>1, <2>2
<1>2. ASSUME NEW t \in Consumers, ConsumerStep(t) PROVE CountersAgree'
  <2>1. CASE PopTake(t)
    BY <2>1, PopTakeCounts
  <2>2. CASE ~PopTake(t)
    BY <1>2, <2>2, CountersSame DEF ConsumerStep, ConsumerLoop, PopEnter,
       CondWait, PopRefused, ConsumerPrint, Sleep, queueVars, mainVars
  <2> QED BY <2>1, <2>2
<1>3. ASSUME NEW t \in Threads, SpuriousWakeup(t) PROVE CountersAgree'
  BY <1>3, CountersSame DEF SpuriousWakeup, queueVars, mainVars
<1>4. CASE MainStep
  <2>1. CASE QueueDestroy
    BY <2>1 DEF QueueDestroy, CountersAgree
  <2>2. CASE ~QueueDestroy
    BY <1>4, <2>2, CountersSame DEF MainStep, MainLoop, MainScan, RemoveBroadcast,
       RemoveCancel, RemoveJoin, RemoveAllBroadcast, RemoveAllNext, QuitBroadcast,
       workerData, queueVars
  <2> QED BY <2>1, <2>2
<1>5. CASE UserStep
  BY <1>5, CountersSame DEF UserStep, CmdCreateProducer, CmdCreateConsumer,
     CmdRemove, CmdKillAll, CmdIncrease, CmdDecrease, CmdStatus, CmdUnknown,
     CmdQuit, CmdEof, Sigint, Resize, workerData, queueVars
<1>6. CASE UNCHANGED vars
  BY <1>6, CountersSame DEF vars, queueVars, mainVars
<1> QED BY <1>1, <1>2, <1>3, <1>4, <1>5, <1>6 DEF Next, Terminated

\* The status line's counters differ by the number of messages in the queue,
\* also after they have wrapped (main.c 138-139).
THEOREM CountersCorrect == Spec => []CountersAgree
<1>1. Init => CountersAgree
  <2> SUFFICES ASSUME Init PROVE CountersAgree
    OBVIOUS
  <2>1. added - removed = count
    BY DEF Init
  <2> QED BY <2>1 DEF CountersAgree
<1> QED BY <1>1, Invariance, NextCounts, PTL DEF Spec

-----------------------------------------------------------------------------
(***************************************************************************)
(* The queue implements BoundedFifo.  Push is Put, pop is Take, the end of  *)
(* a consumer's work is Release, a resize that is not refused is Resize,    *)
(* queue_destroy is Close; every other step leaves the abstract queue       *)
(* alone.                                                                   *)
(***************************************************************************)

\* A step that changes neither the ring nor what consumers hold, and is not
\* queue_destroy, is a stuttering step of the abstract queue.
LEMMA FifoStutter ==
  ASSUME UNCHANGED <<buffer, head, count, capacity>>,
         \A t \in Consumers : held'[t] = held[t],
         mpc' = "done" <=> mpc = "done"
  PROVE  UNCHANGED Fifo!vars
<1>1. Queued' = Queued
  BY DEF Queued
<1>2. [t \in Consumers |-> held[t]]' = [t \in Consumers |-> held[t]]
  OBVIOUS
<1>3. (IF mpc = "done" THEN 0 ELSE capacity)'
        = IF mpc = "done" THEN 0 ELSE capacity
  OBVIOUS
<1> QED BY <1>1, <1>2, <1>3 DEF Fifo!vars

\* A thread that is somewhere in its loop sees a queue that is not destroyed.
LEMMA AliveNotDone ==
  ASSUME IndInv, NEW t \in Threads, pc[t] # "off"
  PROVE  mpc # "done"
<1> QED BY AllEnded

\* A consumer has either nothing or an allocated address in its hand.
LEMMA HandFacts ==
  ASSUME IndInv, NEW c \in Consumers
  PROVE  /\ pc[c] # "print" => held[c] = NoMsg
         /\ pc[c] = "print" => c \in Owning /\ held[c] \in Msg
<1>1. c \in Threads
  BY ThreadFacts
<1>2. pc[c] # "print" => held[c] = NoMsg
  BY DEF IndInv, HandInv
<1>3. ASSUME pc[c] = "print" PROVE c \in Owning /\ held[c] \in Msg
  <2>1. c \in Owning
    BY <1>3 DEF Owning
  <2>2. held[c] \in heap /\ heap \subseteq Msg
    BY <2>1 DEF IndInv, OneOwner, TypeOK
  <2> QED BY <2>1, <2>2
<1> QED BY <1>2, <1>3

\* The contents after a step, as a sequence.
LEMMA QueuedTypeNext ==
  ASSUME TypeOK'
  PROVE  Queued' \in Seq(Msg \cup {Junk}) /\ Len(Queued') = count'
<1>1. /\ head' \in Nat /\ count' \in Nat /\ capacity' \in Nat
      /\ IsRing(Msg \cup {Junk}, buffer', head', count', capacity')
  <2>1. /\ capacity' \in Nat \ {0} /\ head' \in 0..(capacity' - 1)
        /\ count' \in 0..capacity'
        /\ buffer' \in [0..(capacity' - 1) -> Msg \cup {Junk}]
    BY Zenon DEF TypeOK
  <2>2. head' \in Nat /\ count' \in Nat /\ capacity' \in Nat
    BY <2>1
  <2> QED BY Zenon, <2>1, <2>2 DEF IsRing
<1>2. Queued' = Contents(buffer', head', count', capacity')
  BY DEF Queued
<1> QED BY <1>1, <1>2, ContentsType

\* queue_push appends a message that is nowhere else.
LEMMA PushIsPut ==
  ASSUME IndInv, NEW t \in Producers, PushStore(t)
  PROVE  Fifo!Put(held[t]) /\ held[t] \in Msg
<1>1. /\ t \in Threads /\ t \in Owning /\ held[t] \in Msg
      /\ count \in 0..(capacity - 1) /\ TypeOK'
      /\ \A i \in 1..count : Queued'[i] = Queued[i]
      /\ Queued'[count + 1] = held[t]
  BY PushStoreFacts
<1>2. Queued \in Seq(Msg \cup {Junk}) /\ Len(Queued) = count /\ count \in Nat
  BY QueuedType DEF IndInv
<1>3. /\ mpc # "done" /\ mpc' = mpc /\ capacity' = capacity /\ held' = held
      /\ count' = count + 1
  BY <1>1, AliveNotDone DEF PushStore, mainVars
<1>4. Queued' = Append(Queued, held[t])
  <2>1. Queued' \in Seq(Msg \cup {Junk}) /\ Len(Queued') = count + 1
    BY <1>1, <1>3, QueuedTypeNext
  <2>2. held[t] \in Msg \cup {Junk}
    BY <1>1
  <2>3. /\ Append(Queued, held[t]) \in Seq(Msg \cup {Junk})
        /\ Len(Append(Queued, held[t])) = count + 1
        /\ \A i \in 1..count : Append(Queued, held[t])[i] = Queued[i]
        /\ Append(Queued, held[t])[count + 1] = held[t]
    BY <1>2, <2>2, AppendProperties
  <2>4. \A i \in 1..(count + 1) : Queued'[i] = Append(Queued, held[t])[i]
    BY <1>1, <1>2, <2>3
  <2> QED BY <2>1, <2>3, <2>4, SeqEqual
<1>5. \A i \in 1..Len(Queued) : Queued[i] # held[t]
  BY <1>1, <1>2 DEF IndInv, OneOwner
<1>6. \A c \in Consumers : held[c] # held[t]
  <2> TAKE c \in Consumers
  <2>1. c # t
    BY ThreadFacts
  <2>2. NoMsg \notin Msg
    BY CondQueueAssumption
  <2> QED BY <1>1, <2>1, <2>2, HandFacts DEF IndInv, OneOwner
<1>7. Len(Queued) < IF mpc = "done" THEN 0 ELSE capacity
  BY <1>1, <1>2, <1>3 DEF IndInv, TypeOK
<1> QED BY <1>1, <1>3, <1>4, <1>5, <1>6, <1>7 DEF Fifo!Put

\* queue_pop gives its oldest message to a consumer whose hand is empty.
LEMMA PopIsTake ==
  ASSUME IndInv, NEW t \in Consumers, PopTake(t)
  PROVE  Fifo!Take(t)
<1>1. /\ t \in Threads /\ count \in 1..capacity /\ TypeOK'
      /\ \A i \in 1..(count - 1) : Queued'[i] = Queued[i + 1]
      /\ Queued[1] = buffer[head]
  BY PopTakeFacts
<1>2. /\ Queued \in Seq(Msg \cup {Junk}) /\ Len(Queued) = count
      /\ count \in Nat /\ Queued # <<>>
  <2>1. Queued \in Seq(Msg \cup {Junk}) /\ Len(Queued) = count /\ count \in Nat
    BY QueuedType DEF IndInv
  <2>2. Len(Queued) # 0
    BY <1>1, <2>1
  <2> QED BY <2>1, <2>2, EmptySeq
<1>3. /\ mpc # "done" /\ mpc' = mpc /\ capacity' = capacity
      /\ count' = count - 1 /\ held[t] = NoMsg
      /\ held' = [held EXCEPT ![t] = buffer[head]]
  BY <1>1, AliveNotDone, HandFacts DEF PopTake, mainVars
<1>4. Queued' = Tail(Queued)
  <2>1. Queued' \in Seq(Msg \cup {Junk}) /\ Len(Queued') = count - 1
    BY <1>1, <1>3, QueuedTypeNext
  <2>2. /\ Tail(Queued) \in Seq(Msg \cup {Junk})
        /\ Len(Tail(Queued)) = count - 1
        /\ \A i \in 1..(count - 1) : Tail(Queued)[i] = Queued[i + 1]
    BY <1>2, HeadTailProperties
  <2>3. \A i \in 1..(count - 1) : Queued'[i] = Tail(Queued)[i]
    BY <1>1, <2>2
  <2> QED BY <2>1, <2>2, <2>3, SeqEqual
<1>5. Head(Queued) = buffer[head]
  BY <1>1, <1>2
<1>6. [c \in Consumers |-> held[c]]'
        = [[c \in Consumers |-> held[c]] EXCEPT ![t] = Head(Queued)]
  BY <1>3, <1>5, ThreadFacts DEF IndInv, TypeOK
<1> QED BY <1>2, <1>3, <1>4, <1>6 DEF Fifo!Take

\* A consumer is done with its message when it frees it, or when it ends.
LEMMA PrintIsRelease ==
  ASSUME IndInv, NEW t \in Consumers, ConsumerPrint(t)
  PROVE  Fifo!Release(t)
<1>1. held[t] \in Msg /\ held[t] # NoMsg
  BY HandFacts, CondQueueAssumption DEF ConsumerPrint
<1>2. Queued' = Queued /\ capacity' = capacity /\ mpc' = mpc
  BY QueueSame DEF ConsumerPrint, mainVars
<1>3. [c \in Consumers |-> held[c]]'
        = [[c \in Consumers |-> held[c]] EXCEPT ![t] = NoMsg]
  BY ThreadFacts DEF ConsumerPrint, IndInv, TypeOK
<1> QED BY <1>1, <1>2, <1>3 DEF Fifo!Release

\* Both resizes change the capacity and keep messages and order.
LEMMA ResizeIsResize ==
  ASSUME IndInv, NEW n \in Nat \ {0}, count < n, Resize(n), UNCHANGED held,
         mpc = "cmd", mpc' = "loop"
  PROVE  Fifo!Resize
<1>1. /\ capacity \in Nat \ {0} /\ head \in 0..(capacity - 1)
      /\ count \in 0..capacity /\ count <= n
  BY DEF IndInv, TypeOK
<1>2. Queued' = Queued
  <2>1. Queued' = Contents(Relocate(buffer, head, count, capacity, n),
                           0, count, n)
    BY DEF Resize, Queued
  <2> QED BY <1>1, <2>1, ContentsRelocate DEF Queued
<1>3. Len(Queued) = count
  BY QueuedType DEF IndInv
<1>4. capacity' = n
  BY DEF Resize
<1> QED BY <1>1, <1>2, <1>3, <1>4 DEF Fifo!Resize

\* queue_destroy ends the queue when no consumer works any more.
LEMMA DestroyIsClose ==
  ASSUME IndInv, QueueDestroy
  PROVE  Fifo!Close
<1>1. \A c \in Consumers : held[c] = NoMsg
  BY AllEnded, HandFacts, ThreadFacts DEF QueueDestroy
<1>2. Queued' = <<>>
  BY DEF QueueDestroy, Queued, Contents
<1>3. held' = held /\ mpc' = "done"
  BY DEF QueueDestroy
<1> QED BY <1>1, <1>2, <1>3 DEF Fifo!Close

\* The initial queue is an initial abstract queue.
LEMMA InitIsInit == Init => Fifo!Init
<1> SUFFICES ASSUME Init PROVE Fifo!Init
  OBVIOUS
<1>1. Queued = <<>>
  BY DEF Init, Queued, Contents
<1>2. (IF mpc = "done" THEN 0 ELSE capacity) \in Nat \ {0}
  BY CondQueueAssumption DEF Init
<1>3. [t \in Consumers |-> held[t]] = [c \in Consumers |-> NoMsg]
  BY ThreadFacts DEF Init
<1> QED BY <1>1, <1>2, <1>3 DEF Fifo!Init

\* What a producer does to the queue is a push, or nothing.
LEMMA ProducerSteps ==
  ASSUME IndInv, NEW t \in Producers, ProducerStep(t)
  PROVE  [Fifo!Next]_(Fifo!vars)
<1>1. CASE PushStore(t)
  BY <1>1, PushIsPut DEF Fifo!Next
<1>2. ASSUME UNCHANGED <<queueVars, mainVars>>,
             \A c \in Consumers : held'[c] = held[c]
      PROVE  UNCHANGED Fifo!vars
  BY <1>2, FifoStutter DEF queueVars, mainVars
<1>3. \A c \in Consumers : c # t /\ c \in Threads
  BY ThreadFacts
<1>4. CASE ProducerLoop(t)
  BY <1>2, <1>3, <1>4 DEF ProducerLoop, IndInv, TypeOK
<1>5. CASE PushEnter(t) \/ CondWait(t) \/ Sleep(t)
  BY <1>2, <1>5 DEF PushEnter, CondWait, Sleep
<1>6. CASE PushRefused(t) \/ ProducerPrint(t)
  BY <1>2, <1>3, <1>6 DEF PushRefused, ProducerPrint, IndInv, TypeOK
<1> QED BY <1>1, <1>4, <1>5, <1>6 DEF ProducerStep

\* What a consumer does to the queue is a pop, the end of its work on a
\* message, or nothing.
LEMMA ConsumerSteps ==
  ASSUME IndInv, NEW t \in Consumers, ConsumerStep(t)
  PROVE  [Fifo!Next]_(Fifo!vars)
<1>1. CASE PopTake(t)
  BY <1>1, PopIsTake DEF Fifo!Next
<1>2. CASE ConsumerPrint(t)
  BY <1>2, PrintIsRelease DEF Fifo!Next
<1>3. CASE ConsumerLoop(t) \/ PopEnter(t) \/ CondWait(t) \/ PopRefused(t)
             \/ Sleep(t)
  <2>1. UNCHANGED <<queueVars, mainVars, held>>
    BY <1>3 DEF ConsumerLoop, PopEnter, CondWait, PopRefused, Sleep
  <2> QED BY <2>1, FifoStutter DEF queueVars, mainVars
<1> QED BY <1>1, <1>2, <1>3 DEF ConsumerStep

\* Of main's own steps only queue_destroy changes the queue.
LEMMA MainSteps ==
  ASSUME IndInv, MainStep
  PROVE  [Fifo!Next]_(Fifo!vars)
<1>1. CASE QueueDestroy
  BY <1>1, DestroyIsClose DEF Fifo!Next
<1>2. CASE ~QueueDestroy
  <2>1. UNCHANGED workerData /\ mpc # "done" /\ mpc' # "done"
    BY <1>2 DEF MainStep, MainLoop, MainScan, RemoveBroadcast, RemoveCancel,
       RemoveJoin, RemoveAllBroadcast, RemoveAllNext, QuitBroadcast
  <2> QED BY <2>1, FifoStutter DEF workerData, queueVars
<1> QED BY <1>1, <1>2

\* Of the user's keys only + and - change the queue.
LEMMA UserSteps ==
  ASSUME IndInv, UserStep
  PROVE  [Fifo!Next]_(Fifo!vars)
<1>0. capacity \in Nat \ {0} /\ count \in 0..capacity
  BY DEF IndInv, TypeOK
<1>1. ASSUME UNCHANGED workerData, mpc # "done", mpc' # "done"
      PROVE  UNCHANGED Fifo!vars
  BY <1>1, FifoStutter DEF workerData, queueVars
<1>2. CASE CmdIncrease
  BY <1>0, <1>2, ResizeIsResize DEF CmdIncrease, Fifo!Next
<1>3. CASE CmdDecrease /\ ~(capacity <= 1 \/ count >= capacity - 1)
  <2>1. capacity - 1 \in Nat \ {0} /\ count < capacity - 1
    BY <1>0, <1>3
  <2> QED BY <1>3, <2>1, ResizeIsResize DEF CmdDecrease, Fifo!Next
<1>4. CASE CmdDecrease /\ (capacity <= 1 \/ count >= capacity - 1)
  BY <1>1, <1>4 DEF CmdDecrease, workerData
<1>5. CASE CmdCreateProducer \/ CmdCreateConsumer \/ CmdRemove("producer")
             \/ CmdRemove("consumer") \/ CmdKillAll \/ CmdStatus
             \/ CmdUnknown \/ CmdQuit \/ CmdEof \/ Sigint
  BY <1>1, <1>5 DEF CmdCreateProducer, CmdCreateConsumer, CmdRemove,
     CmdKillAll, CmdStatus, CmdUnknown, CmdQuit, CmdEof, Sigint
<1> QED BY <1>2, <1>3, <1>4, <1>5 DEF UserStep

\* Every step of the program is a step of the abstract queue or none of it.
LEMMA StepIsStep ==
  ASSUME IndInv, [Next]_vars
  PROVE  [Fifo!Next]_(Fifo!vars)
<1>1. ASSUME NEW t \in Threads, SpuriousWakeup(t)
      PROVE  [Fifo!Next]_(Fifo!vars)
  BY <1>1, FifoStutter DEF SpuriousWakeup, queueVars, mainVars
<1>2. CASE UNCHANGED vars
  BY <1>2, FifoStutter DEF vars, queueVars, mainVars
<1> QED BY <1>1, <1>2, ProducerSteps, ConsumerSteps, MainSteps, UserSteps
        DEF Next, Terminated

\* Push, pop, resize, removal and destruction implement the abstract queue,
\* for any number of threads, capacity and set of addresses: order is kept
\* across every resize, each message goes to one consumer, none is lost.
THEOREM FifoCorrect == Spec => ImplementsFifo
<1>1. Init => Fifo!Init
  BY InitIsInit
<1>2. IndInv /\ [Next]_vars => [Fifo!Next]_(Fifo!vars)
  BY StepIsStep
<1> QED BY <1>1, <1>2, Invariance, PTL DEF Spec, ImplementsFifo, Fifo!Spec

=============================================================================
