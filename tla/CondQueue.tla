------------------------------ MODULE CondQueue ------------------------------
(***************************************************************************)
(* lab05/src/5.2: a process in which a main thread, steered by the keys a   *)
(* user types, starts and removes producer and consumer threads that share  *)
(* one bounded queue of message pointers.  The queue is guarded by a mutex  *)
(* and two condition variables, not_full and not_empty.                     *)
(*                                                                          *)
(* Thread handles are array slots: producers[i] is thread i, consumers[i]   *)
(* is thread MaxProds + i.  A slot is used again only after its thread was  *)
(* joined, so a slot names at most one live thread.  A message is its       *)
(* address: malloc returns any address that is not allocated, so addresses  *)
(* are reused as the C heap reuses them.                                    *)
(*                                                                          *)
(* A step is what happens between two points where another thread can make  *)
(* a difference.  Code that holds the mutex shares with the outside only    *)
(* the flag `running` (written by main and by the SIGINT handler without    *)
(* the mutex), so a critical section is cut where it reads that flag.       *)
(***************************************************************************)
EXTENDS Integers, FiniteSets, Ring

CONSTANTS MaxProds,    \* MAX_PRODS as the size of producers[]
          MaxCons,     \* MAX_PRODS as the size of consumers[]
          InitialCap,  \* INITIAL_QUEUE_CAPACITY
          Msg,         \* addresses malloc can return (bounds the heap)
          NoMsg,       \* a message pointer that was never set
          MaxCap,      \* bound: '+' is typed only below this capacity
          CountMod     \* the counters added_count, removed_count wrap here

ASSUME CondQueueAssumption ==
  /\ MaxProds \in Nat \ {0} /\ MaxCons \in Nat \ {0}
  /\ InitialCap \in Nat \ {0}
  /\ MaxCap \in Nat
  /\ CountMod \in Nat \ {0}
  /\ NoMsg \notin Msg
  /\ Junk \notin Msg

Producers == 0..(MaxProds - 1)
Consumers == MaxProds..(MaxProds + MaxCons - 1)
Threads   == Producers \cup Consumers
Free      == -1     \* nobody owns the mutex

VARIABLES
  running,    \* the global flag
  buffer, head, tail, count, capacity, added, removed,   \* struct Queue
  mutex,      \* owner of queue->mutex; main's own critical sections are
              \* single steps, so main is never seen as the owner
  pc,         \* pc[t]: where worker t is; "off" when not created or ended
  held,       \* held[t]: its local variable msg
  cancelled,  \* threads with a pending cancellation request
  heap,       \* allocated messages
  leaked,     \* history: messages whose last pointer died with its thread
  mpc,        \* where main is
  victim,     \* the kind of thread remove_last_* is removing, "none" outside
  ret,        \* who called remove_last_*: the command loop ("cmd", also
              \* outside), remove_all for 'k', or remove_all at the end
  prodCount, consCount,
  armed       \* the SIGINT handler is still installed (signal() of System V
              \* flavour resets it when it fires)

queueVars == <<buffer, head, tail, count, capacity, added, removed>>
mainVars  == <<mpc, victim, ret, prodCount, consCount>>
vars == <<running, queueVars, mutex, pc, held, cancelled, heap, leaked,
          mainVars, armed>>

WorkerPc == {"off", "loop", "lock", "block", "wait", "woken", "body",
             "print", "sleep"}
MainPc   == {"loop", "scan", "cmd", "bcast", "removeall", "all", "remove",
             "cancel", "join", "destroy", "done"}

\* queue_init and the initialisers of main.c's globals.
Init ==
  /\ running = TRUE
  /\ buffer = [i \in 0..(InitialCap - 1) |-> Junk]
  /\ head = 0 /\ tail = 0 /\ count = 0
  /\ capacity = InitialCap
  /\ added = 0 /\ removed = 0
  /\ mutex = Free
  /\ pc = [t \in Threads |-> "off"]
  /\ held = [t \in Threads |-> NoMsg]
  /\ cancelled = {}
  /\ heap = {}
  /\ leaked = {}
  /\ mpc = "loop"
  /\ victim = "none"
  /\ ret = "cmd"
  /\ prodCount = 0 /\ consCount = 0
  /\ armed = TRUE

-----------------------------------------------------------------------------
(***************************************************************************)
(* Condition variables.  The producers wait on not_full, the consumers on   *)
(* not_empty, so the waiters of a condition are the threads of one kind at  *)
(* "wait".  A woken thread still has to get the mutex back.                 *)
(***************************************************************************)
Waiters(S) == {t \in S : pc[t] = "wait"}

\* The values of pcs after pthread_cond_signal to the waiters among S.
Signal(pcs, S) ==
  LET W == {t \in S : pcs[t] = "wait"}
  IN  IF W = {} THEN {pcs} ELSE {[pcs EXCEPT ![t] = "woken"] : t \in W}

\* The value of pcs after pthread_cond_broadcast to the waiters among S.
Broadcast(pcs, S) ==
  [t \in Threads |-> IF t \in S /\ pcs[t] = "wait" THEN "woken" ELSE pcs[t]]

-----------------------------------------------------------------------------
(***************************************************************************)
(* Steps of both kinds of worker.                                           *)
(***************************************************************************)

\* pthread_cond_wait: give up the mutex and wait, in one step.
CondWait(t) ==
  /\ pc[t] = "block"
  /\ mutex' = Free
  /\ pc' = [pc EXCEPT ![t] = "wait"]
  /\ UNCHANGED <<running, queueVars, held, cancelled, heap, leaked, mainVars,
                 armed>>

\* pthread_cond_wait may return although nobody signalled.
SpuriousWakeup(t) ==
  /\ pc[t] = "wait"
  /\ pc' = [pc EXCEPT ![t] = "woken"]
  /\ UNCHANGED <<running, queueVars, mutex, held, cancelled, heap, leaked,
                 mainVars, armed>>

\* Mutant of Sleep: it is not ended by a cancellation.
SleepOn(t) ==
  /\ pc[t] = "sleep"
  /\ pc' = [pc EXCEPT ![t] = "loop"]
  /\ UNCHANGED <<running, queueVars, mutex, held, cancelled, heap, leaked,
                 mainVars, armed>>

\* sleep() is a cancellation point: a pending request ends the thread there.
Sleep(t) ==
  /\ pc[t] = "sleep"
  /\ pc' = [pc EXCEPT ![t] = IF t \in cancelled THEN "off" ELSE "loop"]
  /\ UNCHANGED <<running, queueVars, mutex, held, cancelled, heap, leaked,
                 mainVars, armed>>

-----------------------------------------------------------------------------
(***************************************************************************)
(* producer_task and queue_push.                                            *)
(***************************************************************************)

\* while (running) { msg = malloc; fill it in
ProducerLoop(t) ==
  /\ pc[t] = "loop"
  /\ \/ /\ running
        /\ \E m \in Msg \ heap :
             /\ heap' = heap \cup {m}
             /\ held' = [held EXCEPT ![t] = m]
        /\ pc' = [pc EXCEPT ![t] = "lock"]
     \/ /\ ~running
        /\ pc' = [pc EXCEPT ![t] = "off"]
        /\ UNCHANGED <<heap, held>>
  /\ UNCHANGED <<running, queueVars, mutex, cancelled, leaked, mainVars,
                 armed>>

\* Mutant of PushEnter: `if` in place of `while` around pthread_cond_wait.
PushEnterIf(t) ==
  /\ pc[t] \in {"lock", "woken"}
  /\ mutex = Free
  /\ mutex' = t
  /\ pc' = [pc EXCEPT ![t] =
              IF pc[t] = "lock" /\ count = capacity /\ running
                THEN "block" ELSE "body"]
  /\ UNCHANGED <<running, queueVars, held, cancelled, heap, leaked, mainVars,
                 armed>>

\* Mutant of PushEnter: waits for room without looking at running.
PushEnterDeaf(t) ==
  /\ pc[t] \in {"lock", "woken"}
  /\ mutex = Free
  /\ mutex' = t
  /\ pc' = [pc EXCEPT ![t] = IF count = capacity THEN "block" ELSE "body"]
  /\ UNCHANGED <<running, queueVars, held, cancelled, heap, leaked, mainVars,
                 armed>>

\* Take the mutex, on the way in or on the way out of pthread_cond_wait, and
\* evaluate `q->count == q->capacity && running`.
PushEnter(t) ==
  /\ pc[t] \in {"lock", "woken"}
  /\ mutex = Free
  /\ mutex' = t
  /\ pc' = [pc EXCEPT ![t] =
              IF count = capacity /\ running THEN "block" ELSE "body"]
  /\ UNCHANGED <<running, queueVars, held, cancelled, heap, leaked, mainVars,
                 armed>>

\* Mutant of PushRefused: the caller forgets free(msg).
PushRefusedLeaks(t) ==
  /\ pc[t] = "body"
  /\ ~running
  /\ held' = [held EXCEPT ![t] = NoMsg]
  /\ pc' = [pc EXCEPT ![t] = "off"]
  /\ mutex' = Free
  /\ UNCHANGED <<running, queueVars, cancelled, heap, leaked, mainVars, armed>>

\* if (!running) return -1; the caller frees the message and ends.
PushRefused(t) ==
  /\ pc[t] = "body"
  /\ ~running
  /\ heap' = heap \ {held[t]}
  /\ held' = [held EXCEPT ![t] = NoMsg]
  /\ pc' = [pc EXCEPT ![t] = "off"]
  /\ mutex' = Free
  /\ UNCHANGED <<running, queueVars, cancelled, leaked, mainVars, armed>>

\* Mutant of PushStore: signals only when the queue was empty.
PushStoreFirstOnly(t) ==
  /\ pc[t] = "body"
  /\ running
  /\ buffer' = [buffer EXCEPT ![tail] = held[t]]
  /\ tail' = Succ(tail, capacity)
  /\ count' = count + 1
  /\ added' = (added + 1) % CountMod
  /\ pc' \in Signal([pc EXCEPT ![t] = "print"],
                    IF count = 0 THEN Consumers ELSE {})
  /\ mutex' = Free
  /\ UNCHANGED <<running, head, capacity, removed, held, cancelled, heap,
                 leaked, mainVars, armed>>

\* Mutant of PushStore: the message is not counted as added.
PushStoreUncounted(t) ==
  /\ pc[t] = "body"
  /\ running
  /\ buffer' = [buffer EXCEPT ![tail] = held[t]]
  /\ tail' = Succ(tail, capacity)
  /\ count' = count + 1
  /\ pc' \in Signal([pc EXCEPT ![t] = "print"], Consumers)
  /\ mutex' = Free
  /\ UNCHANGED <<running, head, capacity, added, removed, held, cancelled,
                 heap, leaked, mainVars, armed>>

\* Store the message, signal not_empty, unlock.  The pointer stays in the
\* producer's local variable although the message is the queue's now.
PushStore(t) ==
  /\ pc[t] = "body"
  /\ running
  /\ buffer' = [buffer EXCEPT ![tail] = held[t]]
  /\ tail' = Succ(tail, capacity)
  /\ count' = count + 1
  /\ added' = (added + 1) % CountMod
  /\ pc' \in Signal([pc EXCEPT ![t] = "print"], Consumers)
  /\ mutex' = Free
  /\ UNCHANGED <<running, head, capacity, removed, held, cancelled, heap,
                 leaked, mainVars, armed>>

\* printf of the pushed message's fields; stdio may act on a cancellation.
ProducerPrint(t) ==
  /\ pc[t] = "print"
  /\ \/ pc' = [pc EXCEPT ![t] = "sleep"]
     \/ /\ t \in cancelled
        /\ pc' = [pc EXCEPT ![t] = "off"]
  /\ held' = [held EXCEPT ![t] = NoMsg]
  /\ UNCHANGED <<running, queueVars, mutex, cancelled, heap, leaked, mainVars,
                 armed>>

-----------------------------------------------------------------------------
(***************************************************************************)
(* consumer_task and queue_pop.                                             *)
(***************************************************************************)
ConsumerLoop(t) ==
  /\ pc[t] = "loop"
  /\ pc' = [pc EXCEPT ![t] = IF running THEN "lock" ELSE "off"]
  /\ UNCHANGED <<running, queueVars, mutex, held, cancelled, heap, leaked,
                 mainVars, armed>>

\* Take the mutex and evaluate `q->count == 0 && running`.
PopEnter(t) ==
  /\ pc[t] \in {"lock", "woken"}
  /\ mutex = Free
  /\ mutex' = t
  /\ pc' = [pc EXCEPT ![t] =
              IF count = 0 /\ running THEN "block" ELSE "body"]
  /\ UNCHANGED <<running, queueVars, held, cancelled, heap, leaked, mainVars,
                 armed>>

\* if (!running && q->count == 0) return NULL; the caller ends.
PopRefused(t) ==
  /\ pc[t] = "body"
  /\ ~running /\ count = 0
  /\ pc' = [pc EXCEPT ![t] = "off"]
  /\ mutex' = Free
  /\ UNCHANGED <<running, queueVars, held, cancelled, heap, leaked, mainVars,
                 armed>>

\* Take the oldest message, signal not_full, unlock.
PopTake(t) ==
  /\ pc[t] = "body"
  /\ running \/ count # 0
  /\ held' = [held EXCEPT ![t] = buffer[head]]
  /\ head' = Succ(head, capacity)
  /\ count' = count - 1
  /\ removed' = (removed + 1) % CountMod
  /\ pc' \in Signal([pc EXCEPT ![t] = "print"], Producers)
  /\ mutex' = Free
  /\ UNCHANGED <<running, buffer, tail, capacity, added, cancelled, heap,
                 leaked, mainVars, armed>>

\* printf, the hash comparison and free(msg).  A cancellation acted upon in
\* printf ends the thread before free: the message is leaked.
ConsumerPrint(t) ==
  /\ pc[t] = "print"
  /\ \/ /\ heap' = heap \ {held[t]}
        /\ pc' = [pc EXCEPT ![t] = "sleep"]
        /\ UNCHANGED leaked
     \/ /\ t \in cancelled
        /\ pc' = [pc EXCEPT ![t] = "off"]
        /\ leaked' = leaked \cup {held[t]}
        /\ UNCHANGED heap
  /\ held' = [held EXCEPT ![t] = NoMsg]
  /\ UNCHANGED <<running, queueVars, mutex, cancelled, mainVars, armed>>

-----------------------------------------------------------------------------
(***************************************************************************)
(* The main thread.                                                         *)
(***************************************************************************)
workerData == <<queueVars, held, heap, leaked>>

\* while (running)
MainLoop ==
  /\ mpc = "loop"
  /\ mpc' = IF running THEN "scan" ELSE "bcast"
  /\ UNCHANGED <<running, workerData, mutex, pc, cancelled, victim, ret,
                 prodCount, consCount, armed>>

\* Enter scanf; from "cmd" on main is blocked in read().
MainScan ==
  /\ mpc = "scan"
  /\ mpc' = "cmd"
  /\ UNCHANGED <<running, workerData, mutex, pc, cancelled, victim, ret,
                 prodCount, consCount, armed>>

\* 'p': create_producer
CmdCreateProducer ==
  /\ mpc = "cmd"
  /\ mpc' = "loop"
  /\ IF prodCount >= MaxProds
       THEN UNCHANGED <<pc, prodCount>>
       ELSE /\ pc' = [pc EXCEPT ![prodCount] = "loop"]
            /\ prodCount' = prodCount + 1
  /\ UNCHANGED <<running, workerData, mutex, cancelled, victim, ret,
                 consCount, armed>>

\* 'c': create_consumer
CmdCreateConsumer ==
  /\ mpc = "cmd"
  /\ mpc' = "loop"
  /\ IF consCount >= MaxCons
       THEN UNCHANGED <<pc, consCount>>
       ELSE /\ pc' = [pc EXCEPT ![MaxProds + consCount] = "loop"]
            /\ consCount' = consCount + 1
  /\ UNCHANGED <<running, workerData, mutex, cancelled, victim, ret,
                 prodCount, armed>>

\* 'P' and 'C': remove_last_producer and remove_last_consumer up to their
\* early return.
CmdRemove(kind) ==
  /\ mpc = "cmd"
  /\ IF (IF kind = "producer" THEN prodCount ELSE consCount) = 0
       THEN mpc' = "loop" /\ UNCHANGED victim
       ELSE mpc' = "remove" /\ victim' = kind
  /\ UNCHANGED <<running, workerData, mutex, pc, cancelled, ret, prodCount,
                 consCount, armed>>

\* remove_last_*: lock, broadcast, unlock
RemoveBroadcast ==
  /\ mpc = "remove"
  /\ mutex = Free
  /\ pc' = Broadcast(pc, IF victim = "producer" THEN Producers ELSE Consumers)
  /\ mpc' = "cancel"
  /\ UNCHANGED <<running, workerData, mutex, cancelled, victim, ret,
                 prodCount, consCount, armed>>

\* pthread_cancel(producers[--prod_count])
RemoveCancel ==
  /\ mpc = "cancel"
  /\ mpc' = "join"
  /\ IF victim = "producer"
       THEN /\ prodCount' = prodCount - 1
            /\ cancelled' = cancelled \cup {prodCount - 1}
            /\ UNCHANGED consCount
       ELSE /\ consCount' = consCount - 1
            /\ cancelled' = cancelled \cup {MaxProds + consCount - 1}
            /\ UNCHANGED prodCount
  /\ UNCHANGED <<running, workerData, mutex, pc, victim, ret, armed>>

\* The thread remove_last_* waits for: the slot just given up.
Joined == IF victim = "producer" THEN prodCount ELSE MaxProds + consCount

\* pthread_join returns once the thread has ended.
RemoveJoin ==
  /\ mpc = "join"
  /\ pc[Joined] = "off"
  /\ mpc' = IF ret = "cmd" THEN "loop" ELSE "all"
  /\ cancelled' = cancelled \ {Joined}
  /\ victim' = "none"
  /\ UNCHANGED <<running, workerData, mutex, pc, ret, prodCount, consCount,
                 armed>>

\* 'k': remove_all
CmdKillAll ==
  /\ mpc = "cmd"
  /\ mpc' = "removeall"
  /\ ret' = "kill"
  /\ UNCHANGED <<running, workerData, mutex, pc, cancelled, victim, prodCount,
                 consCount, armed>>

\* remove_all: lock, broadcast both conditions, unlock
RemoveAllBroadcast ==
  /\ mpc = "removeall"
  /\ mutex = Free
  /\ pc' = Broadcast(pc, Threads)
  /\ mpc' = "all"
  /\ UNCHANGED <<running, workerData, mutex, cancelled, victim, ret,
                 prodCount, consCount, armed>>

\* Mutant of RemoveAllNext: only the producers are removed.
RemoveAllNextProducers ==
  /\ mpc = "all"
  /\ IF prodCount > 0
       THEN mpc' = "remove" /\ victim' = "producer" /\ UNCHANGED ret
       ELSE /\ mpc' = IF ret = "kill" THEN "loop" ELSE "destroy"
            /\ ret' = "cmd"
            /\ UNCHANGED victim
  /\ UNCHANGED <<running, workerData, mutex, pc, cancelled, prodCount,
                 consCount, armed>>

\* remove_all: its two while loops, producers first
RemoveAllNext ==
  /\ mpc = "all"
  /\ \/ /\ prodCount > 0
        /\ mpc' = "remove"
        /\ victim' = "producer"
        /\ UNCHANGED ret
     \/ /\ prodCount = 0 /\ consCount > 0
        /\ mpc' = "remove"
        /\ victim' = "consumer"
        /\ UNCHANGED ret
     \/ /\ prodCount = 0 /\ consCount = 0
        /\ mpc' = IF ret = "kill" THEN "loop" ELSE "destroy"
        /\ ret' = "cmd"
        /\ UNCHANGED victim
  /\ UNCHANGED <<running, workerData, mutex, pc, cancelled, prodCount,
                 consCount, armed>>

\* Mutant of Resize: tail keeps its place in the old array.
ResizeKeepsTail(newcap) ==
  /\ buffer' = Relocate(buffer, head, count, capacity, newcap)
  /\ capacity' = newcap
  /\ head' = 0
  /\ pc' = Broadcast(pc, Producers)
  /\ UNCHANGED <<tail, count, added, removed>>

\* The new array of queue_resize_increase and queue_resize_decrease, with the
\* messages moved to its front, and the broadcast of not_full.
Resize(newcap) ==
  /\ buffer' = Relocate(buffer, head, count, capacity, newcap)
  /\ capacity' = newcap
  /\ head' = 0
  /\ tail' = count
  /\ pc' = Broadcast(pc, Producers)
  /\ UNCHANGED <<count, added, removed>>

\* '+': queue_resize_increase
CmdIncrease ==
  /\ mpc = "cmd"
  /\ capacity < MaxCap
  /\ mutex = Free
  /\ mpc' = "loop"
  /\ Resize(capacity + 1)
  /\ UNCHANGED <<running, mutex, held, cancelled, heap, leaked, victim, ret,
                 prodCount, consCount, armed>>

\* '-': queue_resize_decrease, refused at capacity 1 and while the messages
\* would fill the smaller array
CmdDecrease ==
  /\ mpc = "cmd"
  /\ mutex = Free
  /\ mpc' = "loop"
  /\ IF capacity <= 1 \/ count >= capacity - 1
       THEN UNCHANGED <<queueVars, pc>>
       ELSE Resize(capacity - 1)
  /\ UNCHANGED <<running, mutex, held, cancelled, heap, leaked, victim, ret,
                 prodCount, consCount, armed>>

\* A key without a meaning
CmdUnknown ==
  /\ mpc = "cmd"
  /\ mpc' = "loop"
  /\ UNCHANGED <<running, workerData, mutex, pc, cancelled, victim, ret,
                 prodCount, consCount, armed>>

\* 's': print_status, which waits for the mutex
CmdStatus ==
  /\ mpc = "cmd"
  /\ mutex = Free
  /\ mpc' = "loop"
  /\ UNCHANGED <<running, workerData, mutex, pc, cancelled, victim, ret,
                 prodCount, consCount, armed>>

\* 'q'
CmdQuit ==
  /\ mpc = "cmd"
  /\ mpc' = "loop"
  /\ running' = FALSE
  /\ UNCHANGED <<workerData, mutex, pc, cancelled, victim, ret, prodCount,
                 consCount, armed>>

\* End of input: scanf does not return 1.
CmdEof ==
  /\ mpc = "cmd"
  /\ mpc' = "bcast"
  /\ UNCHANGED <<running, workerData, mutex, pc, cancelled, victim, ret,
                 prodCount, consCount, armed>>

\* SIGINT, handled by the main thread wherever it is.  A blocked scanf is
\* interrupted and fails; a scanf that main has yet to enter is not.
Sigint ==
  /\ armed
  /\ mpc # "done"
  /\ armed' = FALSE
  /\ running' = FALSE
  /\ mpc' = IF mpc = "cmd" THEN "bcast" ELSE mpc
  /\ UNCHANGED <<workerData, mutex, pc, cancelled, victim, ret, prodCount,
                 consCount>>

\* After the loop: lock, broadcast both conditions, unlock, call remove_all
QuitBroadcast ==
  /\ mpc = "bcast"
  /\ mutex = Free
  /\ pc' = Broadcast(pc, Threads)
  /\ mpc' = "removeall"
  /\ ret' = "quit"
  /\ UNCHANGED <<running, workerData, mutex, cancelled, victim, prodCount,
                 consCount, armed>>

\* queue_destroy: free the messages still queued, then the queue
QueueDestroy ==
  /\ mpc = "destroy"
  /\ mutex = Free
  /\ heap' = heap \ {buffer[Slot(head, i, capacity)] : i \in 0..(count - 1)}
  /\ head' = Slot(head, count, capacity)
  /\ count' = 0
  /\ mpc' = "done"
  /\ UNCHANGED <<running, buffer, tail, capacity, added, removed, mutex, pc,
                 held, cancelled, leaked, victim, ret, prodCount, consCount,
                 armed>>

\* The process has ended.
Terminated == mpc = "done" /\ UNCHANGED vars

-----------------------------------------------------------------------------
ProducerStep(t) ==
  \/ ProducerLoop(t) \/ PushEnter(t) \/ CondWait(t) \/ PushRefused(t)
  \/ PushStore(t) \/ ProducerPrint(t) \/ Sleep(t)

ConsumerStep(t) ==
  \/ ConsumerLoop(t) \/ PopEnter(t) \/ CondWait(t) \/ PopRefused(t)
  \/ PopTake(t) \/ ConsumerPrint(t) \/ Sleep(t)

\* What main does once it has a command, or no more of them.
MainStep ==
  \/ MainLoop \/ MainScan \/ RemoveBroadcast \/ RemoveCancel \/ RemoveJoin
  \/ RemoveAllBroadcast \/ RemoveAllNext \/ QuitBroadcast \/ QueueDestroy

\* What the user does: a key, the end of the input, Ctrl-C.
UserStep ==
  \/ CmdCreateProducer \/ CmdCreateConsumer
  \/ CmdRemove("producer") \/ CmdRemove("consumer") \/ CmdKillAll
  \/ CmdIncrease \/ CmdDecrease \/ CmdStatus \/ CmdUnknown
  \/ CmdQuit \/ CmdEof \/ Sigint

Next ==
  \/ \E t \in Producers : ProducerStep(t)
  \/ \E t \in Consumers : ConsumerStep(t)
  \/ \E t \in Threads : SpuriousWakeup(t)
  \/ MainStep
  \/ UserStep
  \/ Terminated

Spec == Init /\ [][Next]_vars

\* The kernel keeps scheduling every thread that can run.  Nothing is assumed
\* of the user, of spurious wakeups, or of who gets a contended mutex.
Fairness ==
  /\ \A t \in Producers : WF_vars(ProducerStep(t))
  /\ \A t \in Consumers : WF_vars(ConsumerStep(t))
  /\ WF_vars(MainStep)

FairSpec == Spec /\ Fairness

-----------------------------------------------------------------------------
(***************************************************************************)
(* Properties.                                                              *)
(***************************************************************************)

\* Every variable of the process stays in its range.
TypeOK ==
  /\ running \in BOOLEAN
  /\ capacity \in Nat \ {0}
  /\ buffer \in [0..(capacity - 1) -> Msg \cup {Junk}]
  /\ head \in 0..(capacity - 1)
  /\ tail \in 0..(capacity - 1)
  /\ count \in 0..capacity
  /\ added \in 0..(CountMod - 1) /\ removed \in 0..(CountMod - 1)
  /\ mutex \in Threads \cup {Free}
  /\ pc \in [Threads -> WorkerPc]
  /\ held \in [Threads -> Msg \cup {NoMsg}]
  /\ cancelled \subseteq Threads
  /\ heap \subseteq Msg /\ leaked \subseteq Msg
  /\ mpc \in MainPc
  /\ victim \in {"none", "producer", "consumer"}
  /\ ret \in {"cmd", "kill", "quit"}
  /\ prodCount \in 0..MaxProds /\ consCount \in 0..MaxCons
  /\ armed \in BOOLEAN

\* What waits in the queue, oldest first.
Queued == Contents(buffer, head, count, capacity)

\* The three indices that push, pop, both resizes and destroy update one by
\* one always describe the same ring (queue.c 41-43, 67-69, 95-96, 137-138):
\* tail is where head and count say it is.
RingConsistent == tail = Slot(head, count, capacity)

\* The threads whose local variable msg is the message's only reference: a
\* producer before its push, a consumer between pop and free.
Owning == {t \in Producers :
             pc[t] \in {"lock", "block", "wait", "woken", "body"}}
          \cup {t \in Consumers : pc[t] = "print"}

\* Every allocated message has exactly one owner: the producer that has not
\* pushed it yet, one slot of the queue, the consumer that took it, or nobody
\* after a cancellation in printf (main.c 59-69).  So no message is delivered
\* twice, freed twice or freed while it is queued, whatever is resized,
\* removed or cancelled in between.
OneOwner ==
  /\ heap = leaked \cup {Queued[i] : i \in 1..count}
                   \cup {held[t] : t \in Owning}
  /\ \A i, j \in 1..count : Queued[i] = Queued[j] => i = j
  /\ \A t, u \in Owning : held[t] = held[u] => t = u
  /\ \A t \in Owning, i \in 1..count : held[t] # Queued[i]
  /\ \A t \in Owning : held[t] \notin leaked
  /\ \A i \in 1..count : Queued[i] \notin leaked

\* No wakeup is lost: while the program runs, a thread stays asleep on a
\* condition variable only if enough others are already awake to use up every
\* free slot (for not_full) or every message (for not_empty), although each
\* push and pop wakes one thread only (queue.c 32-33, 45, 58-59, 71).
NoLostWakeup ==
  LET awake(S) == Cardinality({t \in S : pc[t] \in {"woken", "body"}})
  IN  running =>
        /\ Waiters(Producers) # {} => awake(Producers) >= capacity - count
        /\ Waiters(Consumers) # {} => awake(Consumers) >= count

\* queue_destroy frees the queue and its mutex (queue.c 163-167): by then
\* every thread that was ever started has ended, and all that remains of the
\* messages is what cancelled consumers leaked.
DestroyedLast ==
  mpc = "done" => /\ \A t \in Threads : pc[t] = "off"
                  /\ heap = leaked

\* The status line's two counters (main.c 138-139), read at a moment when
\* nobody is inside the queue, differ by the number of queued messages.
CountersAgree ==
  mpc # "done" => (added - removed) % CountMod = count % CountMod

(***************************************************************************)
(* What TypeOK, RingConsistent, OneOwner and DestroyedLast need to be       *)
(* preserved by every step.                                                 *)
(***************************************************************************)

\* The thread between lock and unlock, and nobody else, owns the mutex.
MutexInv == \A t \in Threads : pc[t] \in {"block", "body"} <=> mutex = t

\* What the while loop of push and pop established still holds at the store
\* and at the take: only `running` can have changed since.
BodyInv ==
  \A t \in Threads : pc[t] = "body" /\ running =>
     IF t \in Producers THEN count < capacity ELSE count > 0

\* A consumer has a message in hand only between pop and free.
HandInv == \A t \in Consumers : pc[t] # "print" => held[t] = NoMsg

\* Only threads in the slots below prod_count and cons_count, and the one
\* being joined, are alive.
LiveInv ==
  /\ \A t \in Producers : pc[t] # "off" =>
        t < prodCount \/ (mpc = "join" /\ victim = "producer" /\ t = prodCount)
  /\ \A t \in Consumers : pc[t] # "off" =>
        \/ t < MaxProds + consCount
        \/ mpc = "join" /\ victim = "consumer" /\ t = MaxProds + consCount

\* Where main is in remove_last_* and after it.
RemoveInv ==
  /\ mpc \in {"remove", "cancel"} =>
        \/ victim = "producer" /\ prodCount > 0
        \/ victim = "consumer" /\ consCount > 0
  /\ mpc = "join" => \/ victim = "producer" /\ prodCount < MaxProds
                     \/ victim = "consumer" /\ consCount < MaxCons
  /\ mpc \in {"destroy", "done"} => prodCount = 0 /\ consCount = 0
  /\ mpc = "done" => count = 0

IndInv == /\ TypeOK /\ RingConsistent /\ OneOwner
          /\ MutexInv /\ BodyInv /\ HandInv /\ LiveInv /\ RemoveInv

\* The queue is a bounded FIFO that hands every message to one consumer.
Fifo == INSTANCE BoundedFifo WITH
          Taker <- Consumers,
          Copied <- FALSE,
          fifo  <- Queued,
          cap   <- IF mpc = "done" THEN 0 ELSE capacity,
          hand  <- [t \in Consumers |-> held[t]]

\* Push, pop, resize, removal and destruction implement the abstract queue:
\* order is kept across every resize, and nothing is lost before the end.
ImplementsFifo == Fifo!Spec

\* Quitting works: once main has left its command loop because running is 0
\* ('q' or Ctrl-C), every worker ends, is joined, and the queue is destroyed,
\* although the flag is cleared without the mutex while threads are about to
\* wait (main.c 17-20, 172, 176-183).
ShutdownCompletes == (mpc = "bcast" /\ ~running) ~> (mpc = "done")

\* remove_last_producer and remove_last_consumer wait for ever (pthread_join,
\* main.c 103, 115) only for a thread that stays in queue_push or queue_pop,
\* where cancellation is disabled: it waits for its condition, or the others
\* always get the mutex first.  Wherever else the request finds the thread, it
\* comes to its next sleep and ends.  (Staying in "loop" without a message is
\* an effect of the bound on the heap.)
JoinHangs ==
  <>[](mpc = "join") =>
    <>[](/\ mpc = "join"
         /\ pc[Joined] \in {"loop", "lock", "block", "wait", "woken"})

=============================================================================
