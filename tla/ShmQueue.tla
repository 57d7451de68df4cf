------------------------------ MODULE ShmQueue ------------------------------
(***************************************************************************)
(* lab04: a parent process, steered by the keys a user types, forks and     *)
(* kills producer and consumer processes.  They share a ring buffer in a    *)
(* System V shared memory segment, guarded by a set of three System V       *)
(* semaphores: 0 counts free slots, 1 counts messages, 2 is the mutex.      *)
(*                                                                          *)
(* The segment and the semaphores belong to the kernel: they survive the    *)
(* processes, and the next start of the program finds what the last one     *)
(* left.  Process handles are array slots: producers[i] is process i,       *)
(* consumers[i] is process MaxProcs + i.                                    *)
(*                                                                          *)
(* Between the semop that enters and the semop that leaves the critical     *)
(* section nobody else looks at the ring, and a segment whose mutex died    *)
(* with its owner is never looked at again, so the assignments in between   *)
(* are one step; a process can be killed before it and after it.  The two   *)
(* counters that are only printed (added_count, removed_count) are left     *)
(* out.                                                                     *)
(***************************************************************************)
EXTENDS Integers, FiniteSets, Ring

CONSTANTS QueueSize,  \* MAX_QUEUE_SIZE
          MaxProcs,   \* MAX_PROCS, for either kind
          Msg,        \* contents of messages
          NoMsg,      \* no message in a worker's local variable
          MaxStarts   \* bound: how often the program is started

ASSUME ShmQueueAssumption ==
  /\ QueueSize \in Nat \ {0} /\ MaxProcs \in Nat \ {0} /\ MaxStarts \in Nat
  /\ NoMsg \notin Msg /\ Junk \notin Msg

Producers == 0..(MaxProcs - 1)
Consumers == MaxProcs..(2 * MaxProcs - 1)
Workers   == Producers \cup Consumers

VARIABLES
  sem,          \* sem[0], sem[1], sem[2]
  semLive,      \* the semaphore set exists
  buffer, head, tail, freeSlots,   \* struct Queue in the segment
  pc,           \* pc[t]: where worker t is; "off" when its slot is not in use,
                \* "exited" when it ended by itself and was not removed yet
  held,         \* held[t]: its local variable msg
  ppc,          \* where the parent is
  running,      \* the parent's flag
  interrupted,  \* Ctrl-C came: the workers' copies of running are 0, and the
                \* one-shot SIGINT handlers of all processes are used up
  chldArmed,    \* the parent's one-shot SIGCHLD handler is still installed
  prodCount, consCount,
  starts,       \* how often the program was started
  fresh,        \* history: this start created the semaphores it uses
  blank,        \* history: whoever created the semaphores never gave them values
  stuck         \* history: processes that died between the two semops since
                \* the semaphores were created

ringVars   == <<buffer, head, tail, freeSlots>>
parentVars == <<ppc, running, interrupted, chldArmed, prodCount, consCount,
                starts, fresh, blank>>
vars == <<sem, semLive, ringVars, pc, held, parentVars, stuck>>

\* The processes that own the mutex.
Inside == {t \in Workers : pc[t] \in {"body", "post"}}

\* The slots of a segment as the kernel hands it out: filled with zeros.
ZeroFilled == [i \in 0..(QueueSize - 1) |-> Junk]

Init ==
  /\ sem = [i \in 0..2 |-> 0] /\ semLive = FALSE
  /\ buffer = ZeroFilled /\ head = 0 /\ tail = 0 /\ freeSlots = QueueSize
  /\ pc = [t \in Workers |-> "off"]
  /\ held = [t \in Workers |-> NoMsg]
  /\ ppc = "init" /\ running = TRUE /\ interrupted = FALSE
  /\ chldArmed = TRUE
  /\ prodCount = 0 /\ consCount = 0
  /\ starts = 1 /\ fresh = FALSE /\ blank = FALSE
  /\ stuck = 0

\* semop with two operations: both or none.  `take` are decremented, `give`
\* incremented.  safe_semop repeats a call that a signal interrupted, so a
\* signal shows no effect here.
SemOp(take, give) ==
  /\ \A i \in take : sem[i] > 0
  /\ sem' = [i \in 0..2 |-> IF i \in take THEN sem[i] - 1
                            ELSE IF i \in give THEN sem[i] + 1 ELSE sem[i]]

\* Where a signal whose handler returns leaves the parent: a blocked scanf
\* fails and ends the command loop, a scanf not yet entered does not.
Interrupt(p) == IF p = "cmd" THEN {"cmd", "end"} ELSE {p}

-----------------------------------------------------------------------------
(***************************************************************************)
(* Workers.                                                                 *)
(***************************************************************************)

\* while (running): a worker that leaves the loop exits, which sends SIGCHLD.
WorkerExit(t) ==
  /\ pc[t] = "loop"
  /\ interrupted
  /\ pc' = [pc EXCEPT ![t] = "exited"]
  /\ chldArmed' = FALSE
  /\ ppc' \in (IF chldArmed THEN Interrupt(ppc) ELSE {ppc})
  /\ UNCHANGED <<sem, semLive, ringVars, held, running, interrupted,
                 prodCount, consCount, starts, fresh, blank, stuck>>

\* The producer makes up a message.
ProducerLoop(t) ==
  /\ pc[t] = "loop"
  /\ ~interrupted
  /\ pc' = [pc EXCEPT ![t] = "lock"]
  /\ \E m \in Msg : held' = [held EXCEPT ![t] = m]
  /\ UNCHANGED <<sem, semLive, ringVars, parentVars, stuck>>

ConsumerLoop(t) ==
  /\ pc[t] = "loop"
  /\ ~interrupted
  /\ pc' = [pc EXCEPT ![t] = "lock"]
  /\ UNCHANGED <<sem, semLive, ringVars, held, parentVars, stuck>>

\* Mutant of PushEnter: does not take the mutex.
PushEnterUnlocked(t) ==
  /\ pc[t] = "lock"
  /\ SemOp({0}, {})
  /\ pc' = [pc EXCEPT ![t] = "body"]
  /\ UNCHANGED <<semLive, ringVars, held, parentVars, stuck>>

\* queue_push: wait for a free slot and the mutex
PushEnter(t) ==
  /\ pc[t] = "lock"
  /\ SemOp({0, 2}, {})
  /\ pc' = [pc EXCEPT ![t] = "body"]
  /\ UNCHANGED <<semLive, ringVars, held, parentVars, stuck>>

\* Mutant of PushStore: the message goes to the wrong end of the ring.
PushStoreAtHead(t) ==
  /\ pc[t] = "body"
  /\ buffer' = [buffer EXCEPT ![head] = held[t]]
  /\ tail' = Succ(tail, QueueSize)
  /\ freeSlots' = freeSlots - 1
  /\ pc' = [pc EXCEPT ![t] = "post"]
  /\ UNCHANGED <<sem, semLive, head, held, parentVars, stuck>>

\* queue_push: store the message
PushStore(t) ==
  /\ pc[t] = "body"
  /\ buffer' = [buffer EXCEPT ![tail] = held[t]]
  /\ tail' = Succ(tail, QueueSize)
  /\ freeSlots' = freeSlots - 1
  /\ pc' = [pc EXCEPT ![t] = "post"]
  /\ UNCHANGED <<sem, semLive, head, held, parentVars, stuck>>

\* queue_push: release the mutex and announce the message
PushLeave(t) ==
  /\ pc[t] = "post"
  /\ SemOp({}, {1, 2})
  /\ pc' = [pc EXCEPT ![t] = "print"]
  /\ UNCHANGED <<semLive, ringVars, held, parentVars, stuck>>

\* queue_pop: wait for a message and the mutex
PopEnter(t) ==
  /\ pc[t] = "lock"
  /\ SemOp({1, 2}, {})
  /\ pc' = [pc EXCEPT ![t] = "body"]
  /\ UNCHANGED <<semLive, ringVars, held, parentVars, stuck>>

\* queue_pop: copy the oldest message out
PopTake(t) ==
  /\ pc[t] = "body"
  /\ held' = [held EXCEPT ![t] = buffer[head]]
  /\ head' = Succ(head, QueueSize)
  /\ freeSlots' = freeSlots + 1
  /\ pc' = [pc EXCEPT ![t] = "post"]
  /\ UNCHANGED <<sem, semLive, buffer, tail, parentVars, stuck>>

\* Mutant of PopLeave: does not announce the free slot.
PopLeaveSilent(t) ==
  /\ pc[t] = "post"
  /\ SemOp({}, {2})
  /\ pc' = [pc EXCEPT ![t] = "print"]
  /\ UNCHANGED <<semLive, ringVars, held, parentVars, stuck>>

\* queue_pop: release the mutex and announce the free slot
PopLeave(t) ==
  /\ pc[t] = "post"
  /\ SemOp({}, {0, 2})
  /\ pc' = [pc EXCEPT ![t] = "print"]
  /\ UNCHANGED <<semLive, ringVars, held, parentVars, stuck>>

\* Print the message (the consumer also compares its hash), sleep.
WorkerPrint(t) ==
  /\ pc[t] = "print"
  /\ pc' = [pc EXCEPT ![t] = "loop"]
  /\ held' = [held EXCEPT ![t] = NoMsg]
  /\ UNCHANGED <<sem, semLive, ringVars, parentVars, stuck>>

-----------------------------------------------------------------------------
(***************************************************************************)
(* The parent.                                                              *)
(***************************************************************************)

\* queue_init, up to semget: a segment left behind is replaced by one filled
\* with zeros.  A semaphore set left behind is taken over with the values it
\* has, and queue_init is done; a new set has zeros as well.
QueueInit ==
  /\ ppc = "init"
  /\ buffer' = ZeroFilled /\ head' = 0 /\ tail' = 0
  /\ \/ /\ semLive
        /\ ppc' = "loop"
        /\ freeSlots' = QueueSize
        /\ UNCHANGED <<sem, semLive, blank, stuck>>
     \/ /\ ~semLive
        /\ ppc' = "setall"
        /\ freeSlots' = 0
        /\ sem' = [i \in 0..2 |-> 0] /\ semLive' = TRUE
        /\ blank' = TRUE
        /\ stuck' = 0
  /\ UNCHANGED <<pc, held, running, interrupted, chldArmed, prodCount,
                 consCount, starts, fresh>>

\* queue_init: semctl gives the new set its values, and the rest of queue_init
SetAll ==
  /\ ppc = "setall"
  /\ ppc' = "loop"
  /\ head' = 0 /\ tail' = 0 /\ freeSlots' = QueueSize
  /\ sem' = [i \in 0..2 |-> <<QueueSize, 0, 1>>[i + 1]]
  /\ fresh' = TRUE /\ blank' = FALSE
  /\ UNCHANGED <<semLive, buffer, pc, held, running, interrupted, chldArmed,
                 prodCount, consCount, starts, stuck>>

\* A system call of queue_init fails, and main returns.
QueueInitFails ==
  /\ ppc \in {"init", "setall"}
  /\ ppc' = "dead"
  /\ UNCHANGED <<sem, semLive, ringVars, pc, held, running, interrupted,
                 chldArmed, prodCount, consCount, starts, fresh, blank, stuck>>

\* while (running)
MainLoop ==
  /\ ppc = "loop"
  /\ ppc' = IF running THEN "cmd" ELSE "end"
  /\ UNCHANGED <<sem, semLive, ringVars, pc, held, running, interrupted,
                 chldArmed, prodCount, consCount, starts, fresh, blank, stuck>>

\* 'p': create_producer; fork may fail
CmdCreateProducer ==
  /\ ppc = "cmd"
  /\ ppc' = "loop"
  /\ \/ /\ prodCount < MaxProcs
        /\ pc' = [pc EXCEPT ![prodCount] = "loop"]
        /\ prodCount' = prodCount + 1
     \/ UNCHANGED <<pc, prodCount>>
  /\ UNCHANGED <<sem, semLive, ringVars, held, running, interrupted,
                 chldArmed, consCount, starts, fresh, blank, stuck>>

\* 'c': create_consumer; fork may fail
CmdCreateConsumer ==
  /\ ppc = "cmd"
  /\ ppc' = "loop"
  /\ \/ /\ consCount < MaxProcs
        /\ pc' = [pc EXCEPT ![MaxProcs + consCount] = "loop"]
        /\ consCount' = consCount + 1
     \/ UNCHANGED <<pc, consCount>>
  /\ UNCHANGED <<sem, semLive, ringVars, held, running, interrupted,
                 chldArmed, prodCount, starts, fresh, blank, stuck>>

\* kill(pid, SIGKILL) and waitpid: the worker ends wherever it is.  A worker
\* blocked in semop is taken off the semaphores' queues by the kernel; what
\* it had decremented stays decremented.
Kill(t) ==
  /\ pc' = [pc EXCEPT ![t] = "off"]
  /\ held' = [held EXCEPT ![t] = NoMsg]
  /\ stuck' = IF t \in Inside THEN stuck + 1 ELSE stuck
  /\ chldArmed' = FALSE

RemoveLastProducer ==
  /\ prodCount > 0
  /\ Kill(prodCount - 1)
  /\ prodCount' = prodCount - 1
  /\ UNCHANGED <<sem, semLive, ringVars, running, interrupted, consCount,
                 starts, fresh, blank>>

RemoveLastConsumer ==
  /\ consCount > 0
  /\ Kill(MaxProcs + consCount - 1)
  /\ consCount' = consCount - 1
  /\ UNCHANGED <<sem, semLive, ringVars, running, interrupted, prodCount,
                 starts, fresh, blank>>

\* 'P'
CmdRemoveProducer ==
  /\ ppc = "cmd"
  /\ ppc' = "loop"
  /\ RemoveLastProducer

\* 'C'
CmdRemoveConsumer ==
  /\ ppc = "cmd"
  /\ ppc' = "loop"
  /\ RemoveLastConsumer

\* 's' prints, 'P' and 'C' without a worker to remove return at once, and any
\* other key means nothing.
CmdNothing ==
  /\ ppc = "cmd"
  /\ ppc' = "loop"
  /\ UNCHANGED <<sem, semLive, ringVars, pc, held, running, interrupted,
                 chldArmed, prodCount, consCount, starts, fresh, blank, stuck>>

\* 'k' calls remove_all_procs, 'q' clears the flag, the end of the input ends
\* the loop.
CmdLeave ==
  /\ ppc = "cmd"
  /\ \/ ppc' = "killall" /\ UNCHANGED running
     \/ ppc' = "loop" /\ running' = FALSE
     \/ ppc' = "end" /\ UNCHANGED running
  /\ UNCHANGED <<sem, semLive, ringVars, pc, held, interrupted, chldArmed,
                 prodCount, consCount, starts, fresh, blank, stuck>>

\* remove_all_procs: producers first, then consumers
RemoveAll ==
  /\ ppc \in {"killall", "end"}
  /\ \/ RemoveLastProducer
     \/ prodCount = 0 /\ RemoveLastConsumer
  /\ UNCHANGED ppc

\* remove_all_procs has returned.
RemoveAllDone ==
  /\ ppc \in {"killall", "end"}
  /\ prodCount = 0 /\ consCount = 0
  /\ ppc' = IF ppc = "killall" THEN "loop" ELSE "destroy"
  /\ UNCHANGED <<sem, semLive, ringVars, pc, held, running, interrupted,
                 chldArmed, prodCount, consCount, starts, fresh, blank, stuck>>

\* while (wait(NULL) > 0); queue_destroy: both kernel objects are removed.
QueueDestroy ==
  /\ ppc = "destroy"
  /\ ppc' = "done"
  /\ semLive' = FALSE
  /\ UNCHANGED <<sem, ringVars, pc, held, running, interrupted, chldArmed,
                 prodCount, consCount, starts, fresh, blank, stuck>>

-----------------------------------------------------------------------------
(***************************************************************************)
(* The user and the environment.                                            *)
(***************************************************************************)

\* The first Ctrl-C, delivered to the whole foreground process group.
Sigint ==
  /\ ppc \notin {"done", "dead"}
  /\ ~interrupted
  /\ interrupted' = TRUE
  /\ running' = FALSE
  /\ ppc' \in Interrupt(ppc)
  /\ UNCHANGED <<sem, semLive, ringVars, pc, held, chldArmed, prodCount,
                 consCount, starts, fresh, blank, stuck>>

\* The second Ctrl-C finds the default disposition restored: every process of
\* the group ends where it is, and nobody removes the kernel objects.
SigintAgain ==
  /\ ppc \notin {"done", "dead"}
  /\ interrupted
  /\ ppc' = "dead"
  /\ pc' = [t \in Workers |-> "off"]
  /\ stuck' = stuck + Cardinality(Inside)
  /\ UNCHANGED <<sem, semLive, ringVars, held, running, interrupted,
                 chldArmed, prodCount, consCount, starts, fresh, blank>>

\* The program is started again.
Restart ==
  /\ ppc \in {"done", "dead"}
  /\ starts < MaxStarts
  /\ starts' = starts + 1
  /\ ppc' = "init"
  /\ running' = TRUE /\ interrupted' = FALSE /\ chldArmed' = TRUE
  /\ prodCount' = 0 /\ consCount' = 0
  /\ held' = [t \in Workers |-> NoMsg]
  /\ fresh' = FALSE
  /\ UNCHANGED <<sem, semLive, ringVars, pc, blank, stuck>>

\* The program has ended and is not started again.
Ended ==
  /\ ppc \in {"done", "dead"}
  /\ starts >= MaxStarts
  /\ UNCHANGED vars

-----------------------------------------------------------------------------
ProducerStep(t) == \/ ProducerLoop(t) \/ PushEnter(t) \/ PushStore(t)
                   \/ PushLeave(t) \/ WorkerPrint(t) \/ WorkerExit(t)

ConsumerStep(t) == \/ ConsumerLoop(t) \/ PopEnter(t) \/ PopTake(t)
                   \/ PopLeave(t) \/ WorkerPrint(t) \/ WorkerExit(t)

ParentStep == \/ QueueInit \/ SetAll \/ QueueInitFails \/ MainLoop
              \/ RemoveAll \/ RemoveAllDone \/ QueueDestroy

UserStep == \/ CmdCreateProducer \/ CmdCreateConsumer \/ CmdRemoveProducer
            \/ CmdRemoveConsumer \/ CmdNothing \/ CmdLeave
            \/ Sigint \/ SigintAgain \/ Restart

Next == \/ \E t \in Producers : ProducerStep(t)
        \/ \E t \in Consumers : ConsumerStep(t)
        \/ ParentStep
        \/ UserStep
        \/ Ended

Spec == Init /\ [][Next]_vars

\* Runnable processes keep running, and a semop that becomes possible again
\* and again is not passed over for ever: the kernel retries the waiting
\* operations in the order of their arrival at every change of the set.
Fairness ==
  /\ \A t \in Producers : WF_vars(ProducerStep(t)) /\ SF_vars(PushEnter(t))
  /\ \A t \in Consumers : WF_vars(ConsumerStep(t)) /\ SF_vars(PopEnter(t))
  /\ WF_vars(ParentStep)

FairSpec == Spec /\ Fairness

-----------------------------------------------------------------------------
(***************************************************************************)
(* Properties.                                                              *)
(***************************************************************************)

\* Every variable stays in its range; the slots of the ring are never counted
\* beyond its size.
TypeOK ==
  /\ sem \in [0..2 -> 0..QueueSize] /\ semLive \in BOOLEAN
  /\ buffer \in [0..(QueueSize - 1) -> Msg \cup {Junk}]
  /\ head \in 0..(QueueSize - 1) /\ tail \in 0..(QueueSize - 1)
  /\ freeSlots \in Int
  /\ pc \in [Workers -> {"off", "loop", "lock", "body", "post", "print",
                         "exited"}]
  /\ held \in [Workers -> Msg \cup {NoMsg, Junk}]
  /\ ppc \in {"init", "setall", "loop", "cmd", "killall", "end", "destroy", "done",
              "dead"}
  /\ running \in BOOLEAN /\ interrupted \in BOOLEAN /\ chldArmed \in BOOLEAN
  /\ prodCount \in 0..MaxProcs /\ consCount \in 0..MaxProcs
  /\ starts \in Nat /\ fresh \in BOOLEAN /\ blank \in BOOLEAN
  /\ stuck \in Nat

\* The mutex is always accounted for (queue.c 64-102): it is free, or one
\* living process is inside, or one process died inside.  So at most one is
\* inside, and at most one ever dies there, in this and all later starts that
\* take over the same semaphores.  If the start that created them was ended
\* before SETALL (queue.c 41-56), nobody ever gets in.
MutexAccounted ==
  semLive => sem[2] + Cardinality(Inside) + stuck = IF blank THEN 0 ELSE 1

\* Every slot is always accounted for: free, filled, in the work of the
\* process inside, or lost with the one that died there; there is none if the
\* semaphores were never given values.  Killing a process that is blocked in
\* semop loses nothing, because the two operations of a semop happen together
\* (queue.c 65-70, 88-91).  When nobody is inside, the segment tells the same,
\* in the free slots that print_status shows and in the distance from head to
\* tail (queue.c 72-75, 93-96), provided this start created the semaphores.
SlotsAccounted ==
  semLive =>
    /\ sem[0] + sem[1] + Cardinality(Inside) + stuck
         = IF blank THEN 0 ELSE QueueSize
    /\ fresh /\ sem[2] = 1 => /\ freeSlots = sem[0]
                              /\ QueueSize - freeSlots = sem[1]
                              /\ tail = Slot(head, sem[1], QueueSize)

\* What waits in the segment, oldest first.
Queued == Contents(buffer, head, QueueSize - freeSlots, QueueSize)

Fifo == INSTANCE BoundedFifo WITH
          Taker <- Consumers,
          Copied <- TRUE,
          fifo  <- IF ppc = "done" THEN <<>> ELSE Queued,
          cap   <- IF ppc = "done" THEN 0 ELSE QueueSize,
          hand  <- [t \in Consumers |-> held[t]]

\* In a start that created its semaphores the segment is a bounded FIFO,
\* although workers are killed at any point of queue_push and queue_pop
\* (queue.c 64-102, main.c 178-194): every step is one of the abstract queue.
ImplementsFifo ==
  [][fresh /\ fresh' => Fifo!Next \/ UNCHANGED Fifo!vars]_vars

\* A worker waits for ever only if somebody died inside, or the semaphores were
\* never given values, or what it waits for never comes again: for a consumer
\* the queue stays empty, for a producer it stays full (queue.c 64-70, 86-91).
\* In a start that created the semaphores, that is what the segment says as
\* well.  So nobody is passed over for ever by the others, who wait for the same
\* semaphores and come back to them.
NobodyStarves ==
  /\ \A t \in Consumers :
       pc[t] = "lock" ~>
         \/ pc[t] # "lock" \/ stuck > 0 \/ blank
         \/ [](sem[1] = 0 /\ (fresh => freeSlots = QueueSize))
  /\ \A t \in Producers :
       pc[t] = "lock" ~>
         \/ pc[t] # "lock" \/ stuck > 0 \/ blank
         \/ [](sem[0] = 0 /\ (fresh => freeSlots = 0))

=============================================================================
