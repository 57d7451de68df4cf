------------------------------ MODULE SemQueue -------------------------------
(***************************************************************************)
(* lab05/src/5.1: the queue of CondQueue built on a mutex and two counting  *)
(* semaphores: sem_empty counts the free slots, sem_full the messages.  A   *)
(* worker takes one semaphore, works on the ring under the mutex, and posts *)
(* the other.  A resize has to keep sem_empty in step with the capacity.    *)
(*                                                                          *)
(* Producer i is thread i, consumer i is thread MaxProds + i.  The critical *)
(* sections of push and pop are single steps; the mutex is held across a    *)
(* step only by main, in the sem_wait of queue_resize_decrease.  A message  *)
(* is its contents; the counters that are only printed are left out, and so *)
(* are the broadcasts of remove_last_* and remove_all to condition          *)
(* variables that this variant's queue.h does not have.                     *)
(***************************************************************************)
EXTENDS Integers, FiniteSets, Ring

CONSTANTS MaxProds, MaxCons,  \* MAX_PRODS, for each of the two arrays
          InitialCap,         \* INITIAL_QUEUE_CAPACITY
          MaxCap,             \* bound: '+' is typed only below this capacity
          Msg,                \* messages
          NoMsg               \* the null pointer

ASSUME SemQueueAssumption ==
  /\ MaxProds \in Nat \ {0} /\ MaxCons \in Nat \ {0}
  /\ InitialCap \in Nat \ {0} /\ MaxCap \in Nat
  /\ NoMsg \notin Msg /\ Junk \notin Msg

Producers == 0..(MaxProds - 1)
Consumers == MaxProds..(MaxProds + MaxCons - 1)
Threads   == Producers \cup Consumers

VARIABLES
  running,     \* the global flag
  slipped,     \* history: a resize has gone on without the slot it waited for
  buffer, head, tail, count, capacity,   \* struct Queue
  empty, full, \* its semaphores
  pc,          \* where a worker is; "off" when not created or ended
  held,        \* a consumer's local variable msg
  mpc,         \* where main is
  prodCount, consCount,
  victim,      \* the thread remove_last_* cancels and joins, -1 if none
  all          \* why main is in remove_all: 'k', the end, or it is not

ring     == <<buffer, head, tail, count, capacity>>
sems     == <<empty, full>>
workers  == <<pc, held>>
mainVars == <<mpc, prodCount, consCount, victim, all>>
vars     == <<running, slipped, ring, sems, workers, mainVars>>

Init ==
  /\ running = TRUE /\ slipped = FALSE
  /\ buffer = [i \in 0..(InitialCap - 1) |-> Junk]
  /\ head = 0 /\ tail = 0 /\ count = 0 /\ capacity = InitialCap
  /\ empty = InitialCap /\ full = 0
  /\ pc = [t \in Threads |-> "off"]
  /\ held = [c \in Consumers |-> NoMsg]
  /\ mpc = "loop" /\ prodCount = 0 /\ consCount = 0
  /\ victim = -1 /\ all = "no"

GoTo(t, lab) == pc' = [pc EXCEPT ![t] = lab]

MutexFree == mpc \notin {"decwait", "decintr"}

-----------------------------------------------------------------------------
(***************************************************************************)
(* queue_push and queue_pop in the loops of producer_task, consumer_task.   *)
(***************************************************************************)

\* sem_wait: on sem_empty in push, on sem_full in pop
SemWait(t) ==
  /\ pc[t] = "wait"
  /\ \/ t \in Producers /\ empty > 0 /\ empty' = empty - 1 /\ UNCHANGED full
     \/ t \in Consumers /\ full > 0 /\ full' = full - 1 /\ UNCHANGED empty
  /\ GoTo(t, "lock")
  /\ UNCHANGED <<running, slipped, ring, held, mainVars>>

\* push under the mutex: store the message that producer_task has filled in,
\* or find that it is too late
Push(t) ==
  /\ t \in Producers /\ pc[t] = "lock" /\ MutexFree
  /\ \/ /\ running
        /\ \E m \in Msg : buffer' = [buffer EXCEPT ![tail] = m]
        /\ tail' = Succ(tail, capacity)
        /\ count' = count + 1
        /\ GoTo(t, "post")
     \/ /\ ~running
        /\ GoTo(t, "giveback")
        /\ UNCHANGED <<buffer, tail, count>>
  /\ UNCHANGED <<running, slipped, head, capacity, sems, held, mainVars>>

\* Mutant of Pop: it is too late as soon as the program is to end.
PopLate(t) ==
  /\ t \in Consumers /\ pc[t] = "lock" /\ MutexFree
  /\ IF ~running
       THEN GoTo(t, "giveback") /\ UNCHANGED <<head, count, held>>
       ELSE /\ held' = [held EXCEPT ![t] = buffer[head]]
            /\ head' = Succ(head, capacity)
            /\ count' = count - 1
            /\ GoTo(t, "post")
  /\ UNCHANGED <<running, slipped, buffer, tail, capacity, sems, mainVars>>

\* pop under the mutex: take the oldest message; NULL if there is none and it
\* is too late to wait for one
Pop(t) ==
  /\ t \in Consumers /\ pc[t] = "lock" /\ MutexFree
  /\ IF ~running /\ count = 0
       THEN GoTo(t, "giveback") /\ UNCHANGED <<head, count, held>>
       ELSE /\ held' = [held EXCEPT ![t] = buffer[head]]
            /\ head' = Succ(head, capacity)
            /\ count' = count - 1
            /\ GoTo(t, "post")
  /\ UNCHANGED <<running, slipped, buffer, tail, capacity, sems, mainVars>>

\* sem_post of the other semaphore after success
SemPost(t) ==
  /\ pc[t] = "post"
  /\ \/ t \in Producers /\ full' = full + 1 /\ UNCHANGED empty
     \/ t \in Consumers /\ empty' = empty + 1 /\ UNCHANGED full
  /\ GoTo(t, "print")
  /\ UNCHANGED <<running, slipped, ring, held, mainVars>>

\* sem_post of the same semaphore after a refusal.  The callers do not look at
\* the result: a producer forgets the message, a consumer uses the pointer.
GiveBack(t) ==
  /\ pc[t] = "giveback"
  /\ IF t \in Producers
       THEN empty' = empty + 1 /\ UNCHANGED full
       ELSE full' = full + 1 /\ UNCHANGED empty
  /\ GoTo(t, "print")
  /\ UNCHANGED <<running, slipped, ring, held, mainVars>>

\* Mutant of PrintAndSleep: a cancellation is never acted upon.
PrintAndSleepOn(t) ==
  /\ pc[t] = "print"
  /\ held' = [c \in Consumers |-> IF c = t THEN NoMsg ELSE held[c]]
  /\ GoTo(t, "wait")
  /\ UNCHANGED <<running, slipped, ring, sems, mainVars>>

\* The rest of the loop's body: printf, a consumer's hash check and free, and
\* sleep, where a thread that has been cancelled ends.
PrintAndSleep(t) ==
  /\ pc[t] = "print"
  /\ held' = [c \in Consumers |-> IF c = t THEN NoMsg ELSE held[c]]
  /\ GoTo(t, IF t = victim THEN "off" ELSE "wait")
  /\ UNCHANGED <<running, slipped, ring, sems, mainVars>>

-----------------------------------------------------------------------------
(***************************************************************************)
(* main: the commands.                                                      *)
(***************************************************************************)

\* while (running)
MainLoop ==
  /\ mpc = "loop"
  /\ \/ running /\ mpc' = "cmd" /\ UNCHANGED all
     \/ ~running /\ mpc' = "removeall" /\ all' = "end"
  /\ UNCHANGED <<running, slipped, ring, sems, workers, prodCount, consCount,
                 victim>>

\* 'p' and 'c': create_producer and create_consumer
CmdCreate ==
  /\ mpc = "cmd"
  /\ \/ /\ prodCount < MaxProds
        /\ GoTo(prodCount, "wait")
        /\ prodCount' = prodCount + 1
        /\ UNCHANGED consCount
     \/ /\ consCount < MaxCons
        /\ GoTo(MaxProds + consCount, "wait")
        /\ consCount' = consCount + 1
        /\ UNCHANGED prodCount
  /\ mpc' = "loop"
  /\ UNCHANGED <<running, slipped, ring, sems, held, victim, all>>

\* remove_last_*: pthread_cancel of the last producer or consumer
Cancel(kind) ==
  /\ \/ kind = "producer" /\ prodCount > 0 /\ prodCount' = prodCount - 1
        /\ victim' = prodCount - 1 /\ UNCHANGED consCount
     \/ kind = "consumer" /\ consCount > 0 /\ consCount' = consCount - 1
        /\ victim' = MaxProds + consCount - 1 /\ UNCHANGED prodCount
  /\ mpc' = "join"

\* 'P' and 'C'
CmdRemove ==
  /\ mpc = "cmd"
  /\ \E kind \in {"producer", "consumer"} : Cancel(kind)
  /\ UNCHANGED <<running, slipped, ring, sems, workers, all>>

\* pthread_join: returns when the thread has ended
Join ==
  /\ mpc = "join"
  /\ pc[victim] = "off"
  /\ mpc' = IF all = "no" THEN "loop" ELSE "removeall"
  /\ victim' = -1
  /\ UNCHANGED <<running, slipped, ring, sems, workers, prodCount, consCount,
                 all>>

\* 'k', and the end of input, which breaks the command loop: remove_all
CmdRemoveAll ==
  /\ mpc = "cmd"
  /\ mpc' = "removeall"
  /\ all' \in {"kill", "end"}
  /\ UNCHANGED <<running, slipped, ring, sems, workers, prodCount, consCount,
                 victim>>

\* 'q'; 's'; a key main does not know; a command that is refused
CmdOther ==
  /\ mpc = "cmd"
  /\ mpc' = "loop"
  /\ running' \in {running, FALSE}
  /\ UNCHANGED <<slipped, ring, sems, workers, prodCount, consCount, victim,
                 all>>

\* remove_all's loops: the producers first, then the consumers.
RemoveNext ==
  /\ mpc = "removeall"
  /\ \/ /\ prodCount > 0
        /\ Cancel("producer")
        /\ UNCHANGED all
     \/ /\ prodCount = 0 /\ consCount > 0
        /\ Cancel("consumer")
        /\ UNCHANGED all
     \/ /\ prodCount = 0 /\ consCount = 0
        /\ mpc' = IF all = "kill" THEN "loop" ELSE "destroy"
        /\ all' = "no"
        /\ UNCHANGED <<prodCount, consCount, victim>>
  /\ UNCHANGED <<running, slipped, ring, sems, workers>>

\* The array of newcap slots with the messages at its front.
Resize(newcap) ==
  /\ buffer' = Relocate(buffer, head, count, capacity, newcap)
  /\ capacity' = newcap
  /\ head' = 0
  /\ tail' = count
  /\ UNCHANGED count

\* '+': queue_resize_increase, up to the unlock
CmdIncrease ==
  /\ mpc = "cmd"
  /\ capacity < MaxCap
  /\ Resize(capacity + 1)
  /\ mpc' = "incpost"
  /\ UNCHANGED <<running, slipped, sems, workers, prodCount, consCount, victim,
                 all>>

\* queue_resize_increase: sem_post(&q->sem_empty)
IncreasePost ==
  /\ mpc = "incpost"
  /\ empty' = empty + 1
  /\ mpc' = "loop"
  /\ UNCHANGED <<running, slipped, ring, full, workers, prodCount, consCount,
                 victim, all>>

\* '-': queue_resize_decrease, if it does not refuse: it locks the mutex and
\* then waits for a free slot
CmdDecrease ==
  /\ mpc = "cmd"
  /\ capacity > 1 /\ count < capacity - 1
  /\ mpc' = "decwait"
  /\ UNCHANGED <<running, slipped, ring, sems, workers, prodCount, consCount,
                 victim, all>>

\* Mutant of DecreaseTake: the slot is not taken away.
DecreaseTakeNone ==
  /\ \/ mpc = "decwait" /\ empty > 0 /\ UNCHANGED slipped
     \/ mpc = "decintr" /\ slipped' = TRUE
  /\ Resize(capacity - 1)
  /\ mpc' = "loop"
  /\ UNCHANGED <<running, sems, workers, prodCount, consCount, victim, all>>

\* Mutant of DecreaseTake: it waits until two slots are free.
DecreaseTakeTwo ==
  /\ \/ mpc = "decwait" /\ empty > 1 /\ empty' = empty - 1 /\ UNCHANGED slipped
     \/ mpc = "decintr" /\ slipped' = TRUE /\ UNCHANGED empty
  /\ Resize(capacity - 1)
  /\ mpc' = "loop"
  /\ UNCHANGED <<running, full, workers, prodCount, consCount, victim, all>>

\* queue_resize_decrease: sem_wait returns, with a slot or, interrupted,
\* without one, which is not looked at; then the new array, and the unlock.
DecreaseTake ==
  /\ \/ mpc = "decwait" /\ empty > 0 /\ empty' = empty - 1 /\ UNCHANGED slipped
     \/ mpc = "decintr" /\ slipped' = TRUE /\ UNCHANGED empty
  /\ Resize(capacity - 1)
  /\ mpc' = "loop"
  /\ UNCHANGED <<running, full, workers, prodCount, consCount, victim, all>>

\* The handler of SIGINT.  The kernel runs it in the main thread, which never
\* blocks the signal, and without SA_RESTART, so that a sem_wait of main in
\* which it arrives fails; a scanf it interrupts may fail or go on.  A second
\* SIGINT finds the default action, which ends the process.
Sigint ==
  /\ running /\ mpc # "done"
  /\ running' = FALSE
  /\ \/ UNCHANGED mpc
     \/ mpc = "decwait" /\ mpc' = "decintr"
  /\ UNCHANGED <<slipped, ring, sems, workers, prodCount, consCount, victim,
                 all>>

\* queue_destroy, when nobody is left whom its posts could wake
Destroy ==
  /\ mpc = "destroy"
  /\ mpc' = "done"
  /\ count' = 0
  /\ head' = (head + count) % capacity
  /\ UNCHANGED <<running, slipped, buffer, tail, capacity, sems, workers,
                 prodCount, consCount, victim, all>>

Terminated == mpc = "done" /\ UNCHANGED vars

-----------------------------------------------------------------------------
Worker(t) == \/ SemWait(t) \/ Push(t) \/ Pop(t) \/ SemPost(t)
             \/ GiveBack(t) \/ PrintAndSleep(t)

\* What main does without waiting for the user.
MainStep == \/ MainLoop \/ Join \/ RemoveNext \/ IncreasePost \/ DecreaseTake
            \/ Destroy

Command == \/ CmdCreate \/ CmdRemove \/ CmdRemoveAll \/ CmdOther
           \/ CmdIncrease \/ CmdDecrease

Next == \/ MainStep \/ Command \/ Sigint \/ Terminated
        \/ \E t \in Threads : Worker(t)

Spec == Init /\ [][Next]_vars

\* The scheduler lets every thread go on that can; the user need not type.
FairSpec == Spec /\ WF_vars(MainStep) /\ \A t \in Threads : WF_vars(Worker(t))

-----------------------------------------------------------------------------
(***************************************************************************)
(* Properties.                                                              *)
(***************************************************************************)
Number(S, labs) == Cardinality({t \in S : pc[t] \in labs})

\* Every message is announced once: on sem_full, or by the producer about to
\* post it, or it is promised to a consumer.  Every free slot is too, on
\* sem_empty, whatever resizes and refusals come in between.  An interrupted
\* queue_resize_decrease leaves one slot too many announced, and only when the
\* flag has already turned every producer away (queue.c 28-140).
SlotsAccounted ==
  /\ slipped => ~running
  /\ mpc # "done" =>
       /\ count = full + Number(Producers, {"post"})
                       + Number(Consumers, {"lock", "giveback"})
       /\ capacity + (IF slipped THEN 1 ELSE 0)
            = count + empty + Number(Consumers, {"post"})
                    + Number(Producers, {"lock", "giveback"})
                    + (IF mpc = "incpost" THEN 1 ELSE 0)

\* queue_pop never returns NULL, also not at the end, so consumer_task may use
\* the pointer without a test (queue.c 61-66, main.c 48-51).
NoNullPop == \A t \in Consumers : pc[t] = "print" => held[t] # NoMsg

Fifo == INSTANCE BoundedFifo WITH
          Taker <- Consumers,
          Copied <- TRUE,
          fifo <- Contents(buffer, head, count, capacity),
          cap <- IF mpc = "done" THEN 0 ELSE capacity,
          hand <- held

\* The queue is a bounded first-in-first-out queue: a message leaves it once
\* and in order, through all resizes (queue.c 28-140).
ImplementsFifo == Fifo!Spec

\* queue_resize_decrease waits for ever only if two producers or more have
\* taken all the free slots and wait for the mutex main holds: its test of
\* count leaves two slots that are not in use (queue.c 118-125).
DecreaseHangs ==
  <>[](mpc = "decwait") =>
    <>[](empty = 0 /\ Number(Producers, {"lock"}) >= 2)

\* remove_last_* waits for ever only for a thread that waits for ever on its
\* semaphore, where cancellation is disabled: whatever else the thread is
\* doing, it comes to its next sleep and ends (queue.c 30-32, main.c 82-104).
JoinHangs == <>[](mpc = "join") => <>[](victim # -1 /\ pc[victim] = "wait")

=============================================================================
