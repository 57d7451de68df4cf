----------------------------- MODULE Supervisor -----------------------------
(***************************************************************************)
(* lab03: a parent that keeps a table of its children and talks to them     *)
(* with signals.  The user creates, deletes, starts and stops children by   *)
(* keys; a started child asks the parent with SIGUSR1, again and again,     *)
(* before it prints, and the parent's handler answers with SIGUSR2.  The    *)
(* parent's SIGCHLD handler removes a child that ended from the table, and  *)
(* it can do so between any two machine instructions of a command, because  *)
(* only DeleteAllChild blocks the signal.                                   *)
(*                                                                          *)
(* SIGUSR1 and SIGUSR2 are ordinary signals: one of a kind can be pending,  *)
(* a second one is dropped.  `size--` and `size++` are a load and a store.  *)
(***************************************************************************)
EXTENDS Integers, FiniteSets

CONSTANTS Pid,      \* process numbers fork can return (bounds the children)
          Talkers,  \* the children for which the user types 'g' and 's'
          NoPid

ASSUME SupervisorAssumption ==
  IsFiniteSet(Pid) /\ Talkers \subseteq Pid /\ NoPid \notin Pid

VARIABLES
  arr,       \* child_processes[i].pid, also behind the last entry
  size,      \* child_processes_size; -1 stands for SIZE_MAX
  mpc,       \* where the parent's main is
  tmp,       \* what `size--` or `size++` has loaded
  child,     \* the parent's local variable pid
  life,      \* life[c]: what child c does, or that it is not there (any more)
  sig,       \* sig[c]: signals pending for c
  canPrint,  \* can_print of c
  received,  \* received_signal of c
  asking,    \* the child whose SIGUSR1 is pending at the parent
  raced      \* history: the SIGCHLD handler changed the table inside a command

childVars == <<canPrint, received>>
vars == <<arr, size, mpc, tmp, child, life, sig, childVars, asking, raced>>

Alive   == {c \in Pid : life[c] \in {"start", "loop", "ask"}}
Indices == 0..(Cardinality(Pid) - 1)

Init ==
  /\ arr = [i \in Indices |-> NoPid] /\ size = 0
  /\ mpc = "cmd" /\ tmp = 0 /\ child = NoPid
  /\ life = [c \in Pid |-> "none"]
  /\ sig = [c \in Pid |-> {}]
  /\ canPrint = [c \in Pid |-> FALSE]
  /\ received = [c \in Pid |-> FALSE]
  /\ asking = NoPid
  /\ raced = FALSE

\* kill and sigqueue: no effect on a process that has ended.
Send(c, s) == [sig EXCEPT ![c] = IF c \in Alive THEN @ \cup {s} ELSE @]

-----------------------------------------------------------------------------
(***************************************************************************)
(* The parent's commands.                                                   *)
(***************************************************************************)

\* '+': CreateChild, fork
CmdCreate ==
  /\ mpc = "cmd"
  /\ \E c \in Pid :
       /\ life[c] = "none"
       /\ life' = [life EXCEPT ![c] = "start"]
       /\ child' = c
  /\ mpc' = "forked"
  /\ UNCHANGED <<arr, size, tmp, sig, childVars, asking, raced>>

\* CreateChild: fill in the entry behind the last one
CreateEntry ==
  /\ mpc = "forked"
  /\ arr' = [arr EXCEPT ![size] = child]
  /\ mpc' = "entered"
  /\ UNCHANGED <<size, tmp, child, life, sig, childVars, asking,
                 raced>>

\* '-': DeleteLastChild, kill
CmdDelete ==
  /\ mpc = "cmd"
  /\ size # 0
  /\ sig' = Send(arr[size - 1], "term")
  /\ mpc' = "killed"
  /\ UNCHANGED <<arr, size, tmp, child, life, childVars, asking,
                 raced>>

\* child_processes_size++ and child_processes_size--, the load
SizeLoad ==
  /\ mpc \in {"entered", "killed"}
  /\ tmp' = size
  /\ mpc' = IF mpc = "entered" THEN "inc" ELSE "dec"
  /\ UNCHANGED <<arr, size, child, life, sig, childVars, asking,
                 raced>>

\* ... and the store.  After 0 - 1 the table reaches beyond the array, and
\* nothing is known of what the parent does from there.
SizeStore ==
  /\ mpc \in {"inc", "dec"}
  /\ size' = IF mpc = "inc" THEN tmp + 1 ELSE tmp - 1
  /\ mpc' = IF size' < 0 THEN "wild" ELSE "cmd"
  /\ tmp' = 0
  /\ child' = NoPid
  /\ UNCHANGED <<arr, life, sig, childVars, asking, raced>>

\* 'g' and 's': StartChild and StopChild of an index in the table.  (The flag
\* is_running that they set is only printed.)
CmdSignal(s) ==
  /\ mpc = "cmd"
  /\ \E i \in 0..(size - 1) :
       /\ arr[i] \in Talkers
       /\ sig' = Send(arr[i], s)
  /\ UNCHANGED <<arr, size, mpc, tmp, child, life, childVars, asking, raced>>

\* 'k': DeleteAllChild, with SIGCHLD blocked; 'q': CleanExit does that and
\* finds nothing to wait for
CmdDeleteAll ==
  /\ mpc = "cmd"
  /\ sig' = [c \in Pid |->
               IF c \in Alive /\ \E i \in 0..(size - 1) : arr[i] = c
                 THEN sig[c] \cup {"term"} ELSE sig[c]]
  /\ size' = 0
  /\ mpc' \in {"cmd", "done"}
  /\ UNCHANGED <<arr, tmp, child, life, childVars, asking, raced>>

-----------------------------------------------------------------------------
(***************************************************************************)
(* The parent's signal handlers.                                            *)
(***************************************************************************)
Running == mpc \notin {"done", "wild"}

\* Mutant of HandleSignal: the question is taken and not answered.
HandleSignalSilent ==
  /\ Running
  /\ asking # NoPid
  /\ asking' = NoPid
  /\ UNCHANGED <<arr, size, mpc, tmp, child, life, sig, childVars,
                 raced>>

\* SIGUSR1: answer the child whose number came with the signal
HandleSignal ==
  /\ Running
  /\ asking # NoPid
  /\ sig' = Send(asking, "usr2")
  /\ asking' = NoPid
  /\ UNCHANGED <<arr, size, mpc, tmp, child, life, childVars, raced>>

\* Mutant of CloseGap: the entry stays, and the last one falls off the table.
KeepGap(first) == arr

\* The entries behind `first` move up by one.
CloseGap(first) ==
  [i \in Indices |->
     IF first <= i /\ i < size - 1 THEN arr[i + 1] ELSE arr[i]]

\* Mutant of HandleExitChild: counts down for a child that is not listed too.
HandleExitAny ==
  /\ Running
  /\ \E c \in Pid :
       /\ life[c] = "zombie"
       /\ life' = [life EXCEPT ![c] = "gone"]
       /\ LET found == {i \in 0..(size - 1) : arr[i] = c}
              first == CHOOSE i \in found : \A j \in found : i <= j
          IN  arr' = IF found = {} THEN arr ELSE CloseGap(first)
       /\ size' = size - 1
  /\ raced' = (raced \/ mpc # "cmd")
  /\ UNCHANGED <<mpc, tmp, child, sig, childVars, asking>>

\* SIGCHLD: collect a child that has ended and close the gap in the table
HandleExitChild ==
  /\ Running
  /\ \E c \in Pid :
       /\ life[c] = "zombie"
       /\ life' = [life EXCEPT ![c] = "gone"]
       /\ LET found == {i \in 0..(size - 1) : arr[i] = c}
              first == CHOOSE i \in found : \A j \in found : i <= j
          IN  IF found = {}
                THEN UNCHANGED <<arr, size>>
                ELSE /\ arr' = CloseGap(first)
                     /\ size' = size - 1
  /\ raced' = (raced \/ mpc # "cmd")
  /\ UNCHANGED <<mpc, tmp, child, sig, childVars, asking>>

-----------------------------------------------------------------------------
(***************************************************************************)
(* A child.                                                                 *)
(***************************************************************************)

\* A child ends: by a signal for which it has no handler (SIGUSR1 and SIGUSR2
\* too, before InitSignalsHandling), because exec failed, or for reasons of
\* its own.
ChildEnd(c) ==
  /\ c \in Alive
  /\ life' = [life EXCEPT ![c] = "zombie"]
  /\ sig' = [sig EXCEPT ![c] = {}]
  /\ canPrint' = [canPrint EXCEPT ![c] = FALSE]
  /\ received' = [received EXCEPT ![c] = FALSE]
  /\ UNCHANGED <<arr, size, mpc, tmp, child, asking, raced>>

\* exec and InitSignalsHandling
ChildInit(c) ==
  /\ life[c] = "start"
  /\ sig[c] = {}
  /\ life' = [life EXCEPT ![c] = "loop"]
  /\ UNCHANGED <<arr, size, mpc, tmp, child, sig, childVars, asking,
                 raced>>

\* UsrSignHandler.  Of two pending signals the kernel delivers SIGUSR1 first.
UsrSignHandler(c) ==
  /\ life[c] \in {"loop", "ask"}
  /\ \E s \in sig[c] \ {"term"} :
       /\ s = "usr2" => "usr1" \notin sig[c]
       /\ canPrint' = [canPrint EXCEPT ![c] = (s = "usr2")]
       /\ received' = [received EXCEPT ![c] = TRUE]
       /\ sig' = [sig EXCEPT ![c] = @ \ {s}]
  /\ UNCHANGED <<arr, size, mpc, tmp, child, life, asking, raced>>

\* A turn of the loop, in which the child forgets earlier signals; a child
\* that may print goes and asks.
ChildLoop(c) ==
  /\ life[c] = "loop"
  /\ received' = [received EXCEPT ![c] = FALSE]
  /\ life' = [life EXCEPT ![c] = IF canPrint[c] THEN "ask" ELSE "loop"]
  /\ UNCHANGED <<arr, size, mpc, tmp, child, sig, canPrint, asking,
                 raced>>

\* while (!received_signal) sigqueue(getppid(), SIGUSR1, ...)
ChildAsk(c) ==
  /\ life[c] = "ask"
  /\ ~received[c]
  /\ asking' = IF Running /\ asking = NoPid THEN c ELSE asking
  /\ UNCHANGED <<arr, size, mpc, tmp, child, life, sig, childVars,
                 raced>>

\* The question is answered: print, or, if the answer was a stop, set
\* can_print and go on.
ChildAnswered(c) ==
  /\ life[c] = "ask"
  /\ received[c]
  /\ life' = [life EXCEPT ![c] = "loop"]
  /\ canPrint' = [canPrint EXCEPT ![c] = TRUE]
  /\ UNCHANGED <<arr, size, mpc, tmp, child, sig, received, asking,
                 raced>>

\* The parent has ended or is out of control.
Stopped == ~Running /\ UNCHANGED vars

-----------------------------------------------------------------------------
ChildStep(c) == ChildInit(c) \/ ChildLoop(c) \/ ChildAnswered(c)

ParentStep == CreateEntry \/ SizeLoad \/ SizeStore

UserStep == \/ CmdCreate \/ CmdDelete \/ CmdDeleteAll
            \/ CmdSignal("usr1") \/ CmdSignal("usr2")

Next == \/ \E c \in Pid : \/ ChildStep(c) \/ ChildAsk(c) \/ UsrSignHandler(c)
                         \/ ChildEnd(c)
        \/ ParentStep \/ UserStep
        \/ HandleSignal \/ HandleExitChild
        \/ Stopped

Spec == Init /\ [][Next]_vars

\* Processes and handlers get to run.  A child repeats its question once a
\* second while other children, once answered, are silent for six turns: so
\* it does not always meet the moment when another's signal is pending.
Fairness ==
  /\ \A c \in Pid : /\ WF_vars(ChildStep(c))
                    /\ WF_vars(UsrSignHandler(c))
                    /\ SF_vars(ChildAsk(c) /\ asking = NoPid)
  /\ WF_vars(HandleSignal) /\ WF_vars(HandleExitChild) /\ WF_vars(ParentStep)

FairSpec == Spec /\ Fairness

-----------------------------------------------------------------------------
(***************************************************************************)
(* Properties.                                                              *)
(***************************************************************************)

\* Every variable stays in its range; the table fits in its array, and its
\* unsigned size wraps only where SizeStore says so.
TypeOK ==
  /\ arr \in [Indices -> Pid \cup {NoPid}]
  /\ size \in IF mpc = "wild" THEN {-1} ELSE 0..Cardinality(Pid)
  /\ mpc \in {"cmd", "forked", "entered", "killed", "inc", "dec", "done",
              "wild"}
  /\ tmp \in 0..Cardinality(Pid) /\ child \in Pid \cup {NoPid}
  /\ life \in [Pid -> {"none", "start", "loop", "ask", "zombie", "gone"}]
  /\ sig \in [Pid -> SUBSET {"term", "usr1", "usr2"}]
  /\ canPrint \in [Pid -> BOOLEAN] /\ received \in [Pid -> BOOLEAN]
  /\ asking \in Pid \cup {NoPid}
  /\ raced \in BOOLEAN

\* The children in the table.
Listed == {arr[i] : i \in 0..(size - 1)}

\* The parent keeps track of its children: at the prompt the table has one
\* entry for each child that has not been collected, except those that were
\* told to end (parent.c 165-222).
Tracks ==
  mpc = "cmd" =>
    /\ \A i, j \in 0..(size - 1) : arr[i] = arr[j] => i = j
    /\ Listed \subseteq Alive \cup {c \in Pid : life[c] = "zombie"}
    /\ \A c \in Alive : "term" \notin sig[c] => c \in Listed

\* The only way to lose track is the SIGCHLD handler that comes in the middle
\* of CreateChild or DeleteLastChild: as long as that has not happened, the
\* table is right, however many children end by themselves meanwhile.
TracksUnlessRaced == ~raced => Tracks

\* A child that asks gets an answer, although questions of other children make
\* the kernel drop its own (child.c 72-75, parent.c 152-158).
AskAnswered ==
  \A c \in Pid : (life[c] = "ask") ~> (life[c] # "ask" \/ ~Running)

=============================================================================
