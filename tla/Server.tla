-------------------------------- MODULE Server --------------------------------
(***************************************************************************)
(* lab08/src/server.c: main, which accepts connections and starts a thread  *)
(* for each, the list pending_fds it shares with the threads, and the       *)
(* SIGINT handler, which main runs.  The connections are those of Session.  *)
(*                                                                          *)
(* Main allocates a cell for a descriptor, links it into pending_fds, waits *)
(* in accept, and passes the cell to the thread; the thread unlinks and     *)
(* frees it.  A client stands for the descriptor of its connection.  The    *)
(* handler does not return, so neither does the accept it interrupts.       *)
(***************************************************************************)
EXTENDS Session, FiniteSets

CONSTANTS NoFd,      \* -1
          Freed,     \* the contents of a cell that is not allocated
          NumCells,  \* bound: cells that malloc hands out, and reuses
          MaxFails   \* bound: calls of accept and pthread_create that fail

ASSUME ServerAssumption ==
  /\ NumCells \in Nat \ {0} /\ NumCells > Cardinality(Clients)
  /\ MaxFails \in Nat
  /\ NoFd \notin Clients /\ Freed \notin Clients \cup {NoFd}

Cells == 1..NumCells

VARIABLES
  mpc,       \* where main is
  cell,      \* contents of the cells
  mine,      \* main's variable client_fd: the cell of this round
  arg,       \* the cell passed to a client's thread
  pending,   \* pending_fds: the cells its nodes point to
  sigint,    \* the handler has been called
  fails,
  misused    \* a cell has been read or freed after it was freed

listVars == <<mpc, cell, mine, arg, pending, sigint, fails, misused>>
vars     == <<sessVars, listVars>>

Init ==
  /\ SessInit
  /\ mpc = "loop"
  /\ cell = [k \in Cells |-> Freed]
  /\ mine = 1 /\ arg = [c \in Clients |-> 1]
  /\ pending = <<>>
  /\ sigint = FALSE /\ fails = 0 /\ misused = FALSE

-----------------------------------------------------------------------------
\* malloc, and the new node in front of the list, up to the unlock
Link ==
  /\ alive /\ mpc = "loop"
  /\ \E k \in Cells :
       /\ cell[k] = Freed /\ \A j \in 1..(k - 1) : cell[j] # Freed
       /\ cell' = [cell EXCEPT ![k] = NoFd]
       /\ mine' = k
       /\ pending' = <<k>> \o pending
  /\ mpc' = "locked"
  /\ UNCHANGED <<sessVars, arg, sigint, fails, misused>>

\* pthread_mutex_unlock
Unlock ==
  /\ alive /\ mpc = "locked"
  /\ mpc' = "accept"
  /\ UNCHANGED <<sessVars, cell, mine, arg, pending, sigint, fails, misused>>

\* accept returns the next connection
Accept(c) ==
  /\ alive /\ mpc = "accept"
  /\ cpc[c] # "off" /\ spc[c] = "none"
  /\ cell' = [cell EXCEPT ![mine] = c]
  /\ spc' = [spc EXCEPT ![c] = "accepted"]
  /\ mpc' = "create"
  /\ UNCHANGED <<config, alive, client, net, up, peer, todo, dir, mine, arg,
                 pending, sigint, fails, misused>>

\* accept fails: the cell is freed, its node stays
AcceptFails ==
  /\ alive /\ mpc = "accept" /\ fails < MaxFails
  /\ fails' = fails + 1
  /\ cell' = [cell EXCEPT ![mine] = Freed]
  /\ mpc' = "loop"
  /\ UNCHANGED <<sessVars, mine, arg, pending, sigint, misused>>

\* pthread_create; if it fails the connection is closed and the cell freed
Create(c) ==
  /\ alive /\ mpc = "create" /\ spc[c] = "accepted"
  /\ \/ /\ spc' = [spc EXCEPT ![c] = "start"]
        /\ arg' = [arg EXCEPT ![c] = mine]
        /\ UNCHANGED <<cell, fails>>
     \/ /\ fails < MaxFails
        /\ fails' = fails + 1
        /\ spc' = [spc EXCEPT ![c] = "ended"]
        /\ cell' = [cell EXCEPT ![mine] = Freed]
        /\ UNCHANGED arg
  /\ mpc' = "loop"
  /\ UNCHANGED <<config, alive, client, net, up, peer, todo, dir, mine,
                 pending, sigint, misused>>

\* The nodes whose cell holds the descriptor of c
NodesOf(c) == {i \in 1..Len(pending) : cell[pending[i]] = c}

\* Mutant of Start: the cell is freed, and its node left in the list.
StartLinked(c) ==
  /\ alive /\ spc[c] = "start" /\ mpc \notin {"locked", "stuck"}
  /\ cell[arg[c]] = c
  /\ cell' = [cell EXCEPT ![arg[c]] = Freed]
  /\ spc' = [spc EXCEPT ![c] = "send"]
  /\ todo' = [todo EXCEPT ![c] = Greeting]
  /\ UNCHANGED <<config, alive, client, net, up, peer, dir, mpc, mine, arg,
                 pending, sigint, fails, misused>>

\* The thread begins, when list_mutex is free: it takes the first node with its
\* descriptor out of the list, reading the cells of the nodes before it, frees
\* its cell, and sends the greeting.  If the handler has freed the cell there
\* is no telling what it does until the process exits.
Start(c) ==
  /\ alive /\ spc[c] = "start" /\ mpc \notin {"locked", "stuck"}
  /\ IF cell[arg[c]] # c
       THEN /\ misused' = TRUE
            /\ spc' = [spc EXCEPT ![c] = "lost"]
            /\ UNCHANGED <<cell, pending, todo>>
       ELSE LET first == CHOOSE i \in NodesOf(c) :
                           \A j \in NodesOf(c) : i <= j
            IN  /\ misused' = (misused \/ \E i \in 1..first :
                                              cell[pending[i]] = Freed)
                /\ pending' = RemoveAt(pending, first)
                /\ cell' = [cell EXCEPT ![arg[c]] = Freed]
                /\ spc' = [spc EXCEPT ![c] = "send"]
                /\ todo' = [todo EXCEPT ![c] = Greeting]
  /\ UNCHANGED <<config, alive, client, net, up, peer, dir, mpc, mine, arg,
                 sigint, fails>>

\* handle_sigint is called.  It closes listen_fd, which resets the connections
\* that wait there, and locks list_mutex, which main does not give back if it
\* is interrupted while it holds it.
Sigint ==
  /\ alive /\ ~sigint
  /\ sigint' = TRUE
  /\ mpc' = IF mpc = "locked" THEN "stuck" ELSE "handler"
  /\ spc' = [c \in Clients |-> IF spc[c] = "none" THEN "ended" ELSE spc[c]]
  /\ UNCHANGED <<config, alive, client, net, up, peer, todo, dir, cell, mine,
                 arg, pending, fails, misused>>

\* Mutant of FreePending: the walk through the list does not advance.
FreePendingStays ==
  /\ alive /\ mpc = "handler"
  /\ UNCHANGED vars

\* handle_sigint closes the descriptors in the list, and frees it.  One that
\* occurs twice, or in a node with a freed cell, is freed twice.
FreePending ==
  /\ alive /\ mpc = "handler"
  /\ misused' = (misused \/ \E i \in 1..Len(pending) :
                      \/ cell[pending[i]] = Freed
                      \/ \E j \in 1..(i - 1) : pending[j] = pending[i])
  /\ cell' = [k \in Cells |-> IF k \in Range(pending) THEN Freed ELSE cell[k]]
  /\ pending' = <<>>
  /\ mpc' = "exit"
  /\ UNCHANGED <<sessVars, mine, arg, sigint, fails>>

\* exit(EXIT_SUCCESS)
Exit ==
  /\ alive /\ mpc = "exit"
  /\ alive' = FALSE
  /\ UNCHANGED <<config, client, net, up, peer, thread, listVars>>

Done == /\ ~alive \/ mpc = "stuck"
        /\ \A c \in Clients : cpc[c] \in {"off", "gone", "away"}
        /\ UNCHANGED vars

-----------------------------------------------------------------------------
MainStep == Link \/ Unlock \/ AcceptFails \/ FreePending \/ Exit
            \/ \E c \in Clients : Accept(c) \/ Create(c)

ClientStep(c) == Reads(c) /\ UNCHANGED listVars
UserStep(c)   == Uses(c) /\ UNCHANGED listVars
ThreadStep(c) == Start(c) \/ (Serves(c) /\ UNCHANGED listVars)

Next == \/ MainStep \/ Sigint \/ Done
        \/ \E c \in Clients : ClientStep(c) \/ UserStep(c) \/ ThreadStep(c)

Spec == Init /\ [][Next]_vars

\* Processes and threads go on when they can; the users need not do anything.
FairSpec ==
  /\ Spec /\ WF_vars(MainStep)
  /\ \A c \in Clients : WF_vars(ClientStep(c)) /\ WF_vars(ThreadStep(c))

-----------------------------------------------------------------------------
(***************************************************************************)
(* Properties.                                                              *)
(***************************************************************************)
\* A cell is read or freed after it was freed only if accept or pthread_create
\* had failed and left its node behind, or if the SIGINT handler freed the
\* cell of a thread that had not begun (server.c 38, 51, 65, 236, 243).
MisusedOnly ==
  misused => fails > 0 \/ (sigint /\ \E c \in Clients : spc[c] = "lost")

\* With a plain info.txt the server ends without a SIGINT only if a client was
\* interrupted while it was waiting for a reply: a client that ends at its
\* prompt or with QUIT does no harm (server.c 70-158, client.c 15-24).
DiesOnly ==
  PlainInfo /\ ~alive /\ ~sigint => \E c \in Clients : cpc[c] = "away"

\* A client waits for ever only for: an empty line that does not come because
\* there is no info.txt or it does not end with LF; the reply to an empty
\* line; the empty line after "(cannot open dir)"; after an info.txt with an
\* empty line in it, a reply that it has already taken for another; or for a
\* thread that cannot begin because main was interrupted with list_mutex held
\* (client.c 73-78, 105-119, 153-168, server.c 53, 70-164).
WaitsForeverOnly ==
  \A c \in Clients :
    <>[](cpc[c] \in Waiting) =>
      <>[](\/ ~PlainInfo
           \/ asked[c] = "EMPTY"
           \/ asked[c] = "LIST" /\ ~CanOpen(c)
           \/ mpc = "stuck" /\ spc[c] = "start")

\* After a SIGINT the server exits, unless main was interrupted while it held
\* list_mutex (server.c 24-47 and 229-232).
SigintEnds == (sigint /\ mpc # "stuck") ~> ~alive

\* What lab08.pdf says of the server: it serves several clients reliably.  It
\* does not end before a SIGINT, whatever a client does.
ServerSurvives == alive \/ sigint

=============================================================================
