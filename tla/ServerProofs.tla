---------------------------- MODULE ServerProofs ----------------------------
(***************************************************************************)
(* Proofs about the server of lab08 and its clients, for every set of       *)
(* clients and number of cells.  First the list: as long as no call of      *)
(* accept or pthread_create fails, a cell is read or freed after it was     *)
(* freed only by a thread that begins after the SIGINT handler has freed    *)
(* the list.  Then the connections: with a plain info.txt no reply is taken *)
(* for another, and only a client that is interrupted in the middle of a    *)
(* reply ends the server.                                                   *)
(***************************************************************************)
EXTENDS Server, SequenceTheorems, TLAPS

-----------------------------------------------------------------------------
(***************************************************************************)
(* The inductive invariant.                                                 *)
(***************************************************************************)

\* The variables that main, the threads and the handler share.
ListTypes ==
  /\ mpc \in {"loop", "locked", "accept", "create", "handler", "stuck", "exit"}
  /\ spc \in [Clients -> {"none", "accepted", "start", "send", "lastsend",
                          "recv", "ended", "lost"}]
  /\ cell \in [Cells -> Clients \cup {NoFd, Freed}]
  /\ mine \in Cells
  /\ arg \in [Clients -> Cells]
  /\ fails \in Nat
  /\ misused \in BOOLEAN

\* The nodes of pending_fds are the allocated cells, each once.
Linked ==
  /\ pending \in Seq(Cells)
  /\ \A i, j \in 1..Len(pending) : pending[i] = pending[j] => i = j
  /\ \A k \in Cells :
       cell[k] # Freed <=> \E i \in 1..Len(pending) : pending[i] = k

\* A descriptor is in one cell, from accept to the begin of its thread; the
\* thread knows which.
Passed ==
  /\ \A k, j \in Cells : cell[k] \in Clients /\ cell[k] = cell[j] => k = j
  /\ \A k \in Cells :
       cell[k] \in Clients => spc[cell[k]] \in {"accepted", "start"}
  /\ \A c \in Clients : spc[c] = "start" => cell[arg[c]] = c

\* What main knows of the cell of its round.
Round ==
  /\ mpc \in {"locked", "accept"} => cell[mine] = NoFd
  /\ mpc \in {"loop", "locked", "accept"} =>
       \A c \in Clients : spc[c] # "accepted"
  /\ mpc = "create" =>
       \A c \in Clients : spc[c] = "accepted" => cell[mine] = c

\* The handler has freed the list, and no cell is allocated any more.
AllFreed == pending = <<>> /\ \A k \in Cells : cell[k] = Freed

\* Until the handler frees the list nothing is misused.
ListInv ==
  fails = 0 =>
    IF mpc = "exit"
      THEN AllFreed /\ (misused => \E c \in Clients : spc[c] = "lost")
      ELSE Linked /\ Passed /\ Round /\ ~misused

HandlerInv == mpc \in {"handler", "stuck", "exit"} => sigint

IndInv == ListTypes /\ HandlerInv /\ ListInv

-----------------------------------------------------------------------------
(***************************************************************************)
(* The list.                                                                *)
(***************************************************************************)

\* A new node in front of a list.
LEMMA PushFacts ==
  ASSUME NEW S, NEW s \in Seq(S), NEW k \in S
  PROVE  /\ <<k>> \o s \in Seq(S)
         /\ Len(<<k>> \o s) = Len(s) + 1
         /\ (<<k>> \o s)[1] = k
         /\ \A i \in 1..Len(s) : (<<k>> \o s)[i + 1] = s[i]
<1>1. <<k>> \in Seq(S) /\ Len(<<k>>) = 1 /\ Len(s) \in Nat
  OBVIOUS
<1> QED BY <1>1

\* A node is taken out of a list.
LEMMA RemoveFacts ==
  ASSUME NEW S, NEW s \in Seq(S), NEW n \in 1..Len(s)
  PROVE  /\ RemoveAt(s, n) \in Seq(S)
         /\ Len(RemoveAt(s, n)) = Len(s) - 1
         /\ \A i \in 1..(Len(s) - 1) :
              RemoveAt(s, n)[i] = IF i < n THEN s[i] ELSE s[i + 1]
<1> DEFINE a == SubSeq(s, 1, n - 1)
           b == SubSeq(s, n + 1, Len(s))
<1>1. Len(s) \in Nat /\ n \in Nat /\ 1 <= n /\ n <= Len(s)
  OBVIOUS
<1>2. /\ a \in Seq(S) /\ Len(a) = n - 1
      /\ \A i \in 1..(n - 1) : a[i] = s[i]
  BY <1>1
<1>3. /\ b \in Seq(S) /\ Len(b) = Len(s) - n
      /\ \A i \in 1..(Len(s) - n) : b[i] = s[n + i]
  BY <1>1
<1>4. RemoveAt(s, n) = a \o b
  BY DEF RemoveAt
<1> HIDE DEF a, b
<1>5. /\ a \o b \in Seq(S) /\ Len(a \o b) = Len(s) - 1
      /\ \A i \in 1..(Len(s) - 1) :
           (a \o b)[i] = IF i <= n - 1 THEN a[i] ELSE b[i - (n - 1)]
  BY <1>1, <1>2, <1>3
<1>6. ASSUME NEW i \in 1..(Len(s) - 1)
      PROVE  (a \o b)[i] = IF i < n THEN s[i] ELSE s[i + 1]
  <2>1. CASE i < n
    BY <1>1, <1>2, <1>5, <2>1
  <2>2. CASE ~(i < n)
    <3>1. i - (n - 1) \in 1..(Len(s) - n) /\ n + (i - (n - 1)) = i + 1
      BY <1>1, <2>2
    <3> QED BY <1>1, <1>3, <1>5, <2>2, <3>1
  <2> QED BY <2>1, <2>2
<1> QED BY <1>4, <1>5, <1>6

\* Nothing is linked at first.
LEMMA InitInv == Init => IndInv
<1> SUFFICES ASSUME Init PROVE IndInv
  OBVIOUS
<1>1. 1 \in Cells
  BY ServerAssumption DEF Cells
<1>2. ListTypes
  <2>1. /\ spc = [c \in Clients |-> "none"] /\ fails = 0 /\ ~misused
        /\ cell = [k \in Cells |-> Freed] /\ misused \in BOOLEAN
        /\ mine = 1 /\ arg = [c \in Clients |-> 1] /\ mpc = "loop"
    BY DEF Init, SessInit
  <2>2. fails \in Nat
    BY <2>1
  <2> QED BY <1>1, <2>1, <2>2 DEF ListTypes
<1>3. /\ \A k \in Cells : cell[k] = Freed
      /\ \A c \in Clients : spc[c] = "none"
      /\ pending = <<>> /\ mpc = "loop" /\ ~misused
  BY DEF Init, SessInit
<1>4. \A i \in 1..Len(pending) : FALSE
  BY <1>3
<1>5. Linked
  <2>1. <<>> \in Seq(Cells)
    OBVIOUS
  <2> QED BY <1>3, <1>4, <2>1 DEF Linked
<1>6. Passed
  BY <1>3, ServerAssumption DEF Passed
<1>7. Round
  BY <1>3 DEF Round
<1> QED BY <1>2, <1>3, <1>5, <1>6, <1>7 DEF Init, IndInv, HandlerInv, ListInv

-----------------------------------------------------------------------------
(***************************************************************************)
(* Steps of a connection.                                                   *)
(***************************************************************************)

\* A step that leaves the list alone and moves no thread to or from its begin.
LEMMA ConnectionKeeps ==
  ASSUME IndInv, UNCHANGED listVars,
         spc' \in [Clients -> {"none", "accepted", "start", "send", "lastsend",
                               "recv", "ended", "lost"}],
         \A c \in Clients : \A l \in {"accepted", "start", "lost"} :
           spc'[c] = l <=> spc[c] = l
  PROVE  IndInv'
<1>1. ListTypes'
  BY DEF IndInv, ListTypes, listVars
<1>2. HandlerInv'
  BY DEF IndInv, HandlerInv, listVars
<1>3. ListInv'
  <2>1. SUFFICES ASSUME fails = 0
                 PROVE  IF mpc = "exit"
                          THEN AllFreed' /\ (misused => \E c \in Clients : spc'[c] = "lost")
                          ELSE Linked' /\ Passed' /\ Round' /\ ~misused
    BY DEF ListInv, listVars
  <2>2. CASE mpc = "exit"
    BY <2>1, <2>2 DEF IndInv, ListInv, AllFreed, listVars
  <2>3. CASE mpc # "exit"
    <3>1. Linked /\ Passed /\ Round /\ ~misused
      BY <2>1, <2>3 DEF IndInv, ListInv
    <3>2. Linked'
      BY <3>1 DEF Linked, listVars
    <3>3. Passed'
      BY <3>1 DEF Passed, listVars
    <3>4. Round'
      BY <3>1 DEF Round, listVars
    <3> QED BY <2>3, <3>1, <3>2, <3>3, <3>4
  <2> QED BY <2>2, <2>3
<1> QED BY <1>1, <1>2, <1>3 DEF IndInv

\* What a client does, its reading and what its user types.
LEMMA ClientKeeps ==
  ASSUME IndInv, NEW c \in Clients, ClientStep(c) \/ UserStep(c)
  PROVE  IndInv'
<1>1. UNCHANGED listVars
  BY DEF ClientStep, UserStep
<1>2. UNCHANGED spc
  BY DEF ClientStep, UserStep, Reads, Uses, Refill, ReadLine, ReadFails,
         Connect, Script, EndOfInput, Interrupt, Type, thread
<1> QED BY <1>1, <1>2, ConnectionKeeps DEF IndInv, ListTypes

\* What a thread does between its begin and its end.
LEMMA ServesKeeps ==
  ASSUME IndInv, NEW c \in Clients, Serves(c), UNCHANGED listVars
  PROVE  IndInv'
<1>1. \/ UNCHANGED spc
      \/ /\ spc[c] \in {"recv", "send", "lastsend"}
         /\ \E l \in {"recv", "send", "lastsend", "ended"} :
              spc' = [spc EXCEPT ![c] = l]
  <2>1. CASE Recv(c)
    BY <2>1 DEF Recv, thread
  <2>2. CASE Send(c)
    BY <2>2 DEF Send
  <2>3. CASE RecvEnd(c)
    BY <2>3 DEF RecvEnd
  <2> QED BY <2>1, <2>2, <2>3 DEF Serves
<1>2. spc \in [Clients -> {"none", "accepted", "start", "send", "lastsend",
                           "recv", "ended", "lost"}]
  BY DEF IndInv, ListTypes
<1>3. spc' \in [Clients -> {"none", "accepted", "start", "send", "lastsend",
                            "recv", "ended", "lost"}]
  BY <1>1, <1>2
<1>4. \A k \in Clients : \A l \in {"accepted", "start", "lost"} :
        spc'[k] = l <=> spc[k] = l
  BY <1>1, <1>2
<1> QED BY <1>3, <1>4, ConnectionKeeps

-----------------------------------------------------------------------------
(***************************************************************************)
(* Main.                                                                    *)
(***************************************************************************)

\* malloc and the new node
LEMMA LinkKeeps ==
  ASSUME IndInv, Link
  PROVE  IndInv'
<1>1. PICK k \in Cells :
        /\ cell[k] = Freed
        /\ cell' = [cell EXCEPT ![k] = NoFd]
        /\ mine' = k
        /\ pending' = <<k>> \o pending
  BY DEF Link
<1>2. /\ mpc = "loop" /\ mpc' = "locked"
      /\ UNCHANGED <<spc, arg, sigint, fails, misused>>
  BY DEF Link, sessVars, thread
<1>3. /\ cell'[k] = NoFd
      /\ \A j \in Cells : j # k => cell'[j] = cell[j]
  BY <1>1 DEF IndInv, ListTypes
<1>4. ListTypes' /\ HandlerInv'
  BY <1>1, <1>2 DEF IndInv, ListTypes, HandlerInv
<1>5. ASSUME fails = 0
      PROVE  Linked' /\ Passed' /\ Round' /\ ~misused
  <2>1. Linked /\ Passed /\ Round /\ ~misused
    BY <1>2, <1>5 DEF IndInv, ListInv
  <2>2. \A i \in 1..Len(pending) : pending[i] # k
    BY <1>1, <2>1 DEF Linked
  <2>3. /\ pending \in Seq(Cells) /\ Len(pending) \in Nat
        /\ pending' \in Seq(Cells) /\ Len(pending') = Len(pending) + 1
        /\ pending'[1] = k
        /\ \A i \in 1..Len(pending) : pending'[i + 1] = pending[i]
    BY <1>1, <2>1, PushFacts DEF Linked
  <2>4. \A i \in 1..Len(pending') :
          \/ i = 1
          \/ i # 1 /\ i - 1 \in 1..Len(pending) /\ pending'[i] = pending[i - 1]
    BY <2>3
  <2>5. \A i, j \in 1..Len(pending') : pending'[i] = pending'[j] => i = j
    <3>1. SUFFICES ASSUME NEW i \in 1..Len(pending'), NEW j \in 1..Len(pending'),
                          pending'[i] = pending'[j]
                   PROVE  i = j
      OBVIOUS
    <3>2. CASE i = 1 \/ j = 1
      BY <2>2, <2>3, <2>4, <3>1, <3>2
    <3>3. CASE i # 1 /\ j # 1
      <4>1. i - 1 = j - 1
        BY <2>1, <2>4, <3>1, <3>3 DEF Linked
      <4> QED BY <2>3, <4>1
    <3> QED BY <3>2, <3>3
  <2>6. ASSUME NEW j \in Cells
        PROVE  cell'[j] # Freed <=> \E i \in 1..Len(pending') : pending'[i] = j
    <3>1. CASE j = k
      <4>1. 1 \in 1..Len(pending')
        BY <2>3
      <4> QED BY <2>3, <1>3, <3>1, <4>1, ServerAssumption
    <3>2. CASE j # k
      <4>1. cell[j] # Freed <=> \E i \in 1..Len(pending) : pending[i] = j
        BY <2>1 DEF Linked
      <4>2. (\E i \in 1..Len(pending) : pending[i] = j)
              => \E i \in 1..Len(pending') : pending'[i] = j
        <5>1. SUFFICES ASSUME NEW i \in 1..Len(pending), pending[i] = j
                       PROVE  i + 1 \in 1..Len(pending') /\ pending'[i + 1] = j
          OBVIOUS
        <5> QED BY <2>3, <5>1
      <4>3. (\E i \in 1..Len(pending') : pending'[i] = j)
              => \E i \in 1..Len(pending) : pending[i] = j
        <5>1. SUFFICES ASSUME NEW i \in 1..Len(pending'), pending'[i] = j
                       PROVE  \E h \in 1..Len(pending) : pending[h] = j
          OBVIOUS
        <5> QED BY <2>3, <2>4, <3>2, <5>1
      <4> QED BY <1>3, <3>2, <4>1, <4>2, <4>3
    <3> QED BY <3>1, <3>2
  <2>7. Passed'
    BY <1>1, <1>2, <2>3, <1>3, <2>1, ServerAssumption
       DEF Passed, IndInv, ListTypes
  <2>8. Round'
    BY <1>1, <1>2, <1>3, <2>1 DEF Round
  <2> QED BY <2>1, <2>3, <2>5, <2>6, <2>7, <2>8 DEF Linked
<1> QED BY <1>2, <1>4, <1>5 DEF IndInv, ListInv

\* The unlock
LEMMA UnlockKeeps ==
  ASSUME IndInv, Unlock
  PROVE  IndInv'
<1>1. /\ mpc = "locked" /\ mpc' = "accept"
      /\ UNCHANGED <<spc, cell, mine, arg, pending, sigint, fails, misused>>
  BY DEF Unlock, sessVars, thread
<1> QED BY <1>1 DEF IndInv, ListTypes, HandlerInv, ListInv, Linked, Passed, Round

\* accept succeeds
LEMMA AcceptKeeps ==
  ASSUME IndInv, NEW c \in Clients, Accept(c)
  PROVE  IndInv'
<1>1. /\ mpc = "accept" /\ mpc' = "create" /\ spc[c] = "none"
      /\ cell' = [cell EXCEPT ![mine] = c]
      /\ spc' = [spc EXCEPT ![c] = "accepted"]
      /\ UNCHANGED <<mine, arg, pending, sigint, fails, misused>>
  BY DEF Accept
<1>2. ListTypes' /\ HandlerInv'
  BY <1>1 DEF IndInv, ListTypes, HandlerInv
<1>3. ASSUME fails = 0
      PROVE  Linked' /\ Passed' /\ Round' /\ ~misused
  <2>1. Linked /\ Passed /\ Round /\ ~misused
    BY <1>1, <1>3 DEF IndInv, ListInv
  <2>2. /\ mine \in Cells /\ cell[mine] = NoFd
        /\ \A k \in Clients : spc[k] # "accepted"
    BY <1>1, <2>1 DEF Round, IndInv, ListTypes
  <2>3. /\ cell'[mine] = c
        /\ \A k \in Cells : k # mine => cell'[k] = cell[k]
        /\ spc'[c] = "accepted"
        /\ \A k \in Clients : k # c => spc'[k] = spc[k]
    BY <1>1, <2>2 DEF IndInv, ListTypes
  <2>4. \A k \in Cells : cell[k] # c
    BY <1>1, <2>1 DEF Passed
  <2>5. Linked'
    BY <1>1, <2>1, <2>2, <2>3, ServerAssumption DEF Linked
  <2>6. Passed'
    BY <1>1, <2>1, <2>2, <2>3, <2>4, ServerAssumption
       DEF Passed, IndInv, ListTypes
  <2>7. Round'
    BY <1>1, <2>2, <2>3 DEF Round
  <2> QED BY <2>1, <2>5, <2>6, <2>7
<1> QED BY <1>1, <1>2, <1>3 DEF IndInv, ListInv

\* A call of accept or pthread_create that fails: nothing is claimed any more.
LEMMA FailsKeeps ==
  ASSUME IndInv, ListTypes', fails' = fails + 1, mpc' = "loop"
  PROVE  IndInv'
<1>1. fails' # 0
  BY DEF IndInv, ListTypes
<1> QED BY <1>1 DEF IndInv, HandlerInv, ListInv

\* accept fails
LEMMA AcceptFailsKeeps ==
  ASSUME IndInv, AcceptFails
  PROVE  IndInv'
<1>1. ListTypes'
  BY DEF IndInv, ListTypes, AcceptFails, sessVars, thread
<1> QED BY <1>1, FailsKeeps DEF AcceptFails

\* pthread_create
LEMMA CreateKeeps ==
  ASSUME IndInv, NEW c \in Clients, Create(c)
  PROVE  IndInv'
<1>1. CASE spc' = [spc EXCEPT ![c] = "start"]
  <2>1. /\ mpc = "create" /\ mpc' = "loop" /\ spc[c] = "accepted"
        /\ arg' = [arg EXCEPT ![c] = mine]
        /\ UNCHANGED <<cell, fails, mine, pending, sigint, misused>>
    BY <1>1 DEF Create, IndInv, ListTypes
  <2>2. ListTypes' /\ HandlerInv'
    BY <1>1, <2>1 DEF IndInv, ListTypes, HandlerInv
  <2>3. ASSUME fails = 0
        PROVE  Linked' /\ Passed' /\ Round' /\ ~misused
    <3>1. Linked /\ Passed /\ Round /\ ~misused
      BY <2>1, <2>3 DEF IndInv, ListInv
    <3>2. mine \in Cells /\ cell[mine] = c
      BY <2>1, <3>1 DEF Round, IndInv, ListTypes
    <3>3. \A k \in Clients : spc[k] = "accepted" => k = c
      BY <2>1, <3>1, <3>2 DEF Round
    <3>4. /\ spc'[c] = "start" /\ arg'[c] = mine
          /\ \A k \in Clients : k # c => spc'[k] = spc[k] /\ arg'[k] = arg[k]
      BY <1>1, <2>1 DEF IndInv, ListTypes
    <3>5. Linked'
      BY <2>1, <3>1 DEF Linked
    <3>6. Passed'
      BY <2>1, <3>1, <3>2, <3>4 DEF Passed, IndInv, ListTypes
    <3>7. Round'
      BY <2>1, <3>3, <3>4 DEF Round
    <3> QED BY <3>1, <3>5, <3>6, <3>7
  <2> QED BY <2>1, <2>2, <2>3 DEF IndInv, ListInv
<1>2. CASE ~(spc' = [spc EXCEPT ![c] = "start"])
  <2>1. ListTypes'
    BY <1>2 DEF IndInv, ListTypes, Create
  <2> QED BY <1>2, <2>1, FailsKeeps DEF Create
<1> QED BY <1>1, <1>2

-----------------------------------------------------------------------------
(***************************************************************************)
(* A thread that begins.                                                    *)
(***************************************************************************)

\* A thread whose cell is allocated has one node in the list, and takes it out.
LEMMA StartLinkedKeeps ==
  ASSUME IndInv, NEW c \in Clients, Start(c), fails = 0, mpc # "exit"
  PROVE  Linked' /\ Passed' /\ Round' /\ ~misused'
<1>1. Linked /\ Passed /\ Round /\ ~misused
  BY DEF IndInv, ListInv
<1>2. spc[c] = "start" /\ cell[arg[c]] = c /\ arg[c] \in Cells
  BY <1>1 DEF Start, Passed, IndInv, ListTypes
<1>3. pending \in Seq(Cells) /\ Len(pending) \in Nat
  BY <1>1 DEF Linked
<1>4. \A i \in 1..Len(pending) : pending[i] \in Cells
  BY <1>3
<1>5. PICK n \in 1..Len(pending) : pending[n] = arg[c]
  BY <1>1, <1>2, ServerAssumption DEF Linked
<1>6. \A i \in NodesOf(c) : i = n
  BY <1>1, <1>2, <1>4, <1>5 DEF NodesOf, Passed, Linked
<1>7. n \in NodesOf(c)
  BY <1>2, <1>5 DEF NodesOf
<1>8. (CHOOSE i \in NodesOf(c) : \A j \in NodesOf(c) : i <= j) = n
  <2>1. \E i \in NodesOf(c) : \A j \in NodesOf(c) : i <= j
    BY <1>3, <1>6, <1>7
  <2>2. (CHOOSE i \in NodesOf(c) : \A j \in NodesOf(c) : i <= j) \in NodesOf(c)
    BY <2>1
  <2> QED BY <1>6, <2>2
<1>9. /\ misused' = (misused \/ \E i \in 1..n : cell[pending[i]] = Freed)
      /\ pending' = RemoveAt(pending, n)
      /\ cell' = [cell EXCEPT ![arg[c]] = Freed]
      /\ spc' = [spc EXCEPT ![c] = "send"]
      /\ UNCHANGED <<mpc, mine, arg, sigint, fails>>
  BY <1>2, <1>8 DEF Start
<1>10. ~misused'
  <2>1. \A i \in 1..n : i \in 1..Len(pending)
    BY <1>3
  <2> QED BY <1>1, <1>4, <1>9, <2>1 DEF Linked
<1>11. /\ pending' \in Seq(Cells)
       /\ Len(pending') = Len(pending) - 1
       /\ \A i \in 1..(Len(pending) - 1) :
            pending'[i] = IF i < n THEN pending[i] ELSE pending[i + 1]
  BY <1>3, <1>9, RemoveFacts
<1>12. /\ cell'[arg[c]] = Freed
       /\ \A k \in Cells : k # arg[c] => cell'[k] = cell[k]
       /\ spc'[c] = "send"
       /\ \A k \in Clients : k # c => spc'[k] = spc[k]
  BY <1>2, <1>9 DEF IndInv, ListTypes
<1>13. Linked'
  <2>1. \A i \in 1..Len(pending') :
          \/ /\ i < n /\ i \in 1..Len(pending) /\ pending'[i] = pending[i]
          \/ /\ i >= n /\ i + 1 \in 1..Len(pending) /\ pending'[i] = pending[i + 1]
    BY <1>3, <1>11
  <2>2. ASSUME NEW i \in 1..Len(pending'), NEW j \in 1..Len(pending'),
               pending'[i] = pending'[j]
        PROVE  i = j
    <3>1. \A g, h \in 1..Len(pending) : pending[g] = pending[h] => g = h
      BY <1>1 DEF Linked
    <3>2. CASE i < n /\ j < n
      BY <2>1, <2>2, <3>1, <3>2
    <3>3. CASE i < n /\ j >= n
      <4>1. i = j + 1
        BY <2>1, <2>2, <3>1, <3>3
      <4> QED BY <1>3, <3>3, <4>1
    <3>4. CASE i >= n /\ j < n
      <4>1. j = i + 1
        BY <2>1, <2>2, <3>1, <3>4
      <4> QED BY <1>3, <3>4, <4>1
    <3>5. CASE i >= n /\ j >= n
      <4>1. i + 1 = j + 1
        BY <2>1, <2>2, <3>1, <3>5
      <4> QED BY <1>3, <1>11, <4>1
    <3> QED BY <1>3, <1>11, <3>2, <3>3, <3>4, <3>5
  <2>3. \A i \in 1..Len(pending') : pending'[i] # arg[c]
    <3>1. ASSUME NEW i \in 1..Len(pending'), pending'[i] = arg[c]
          PROVE  FALSE
      <4>1. CASE i < n
        <5>1. i = n
          BY <1>1, <1>5, <2>1, <3>1, <4>1 DEF Linked
        <5> QED BY <1>3, <4>1, <5>1
      <4>2. CASE ~(i < n)
        <5>1. i + 1 = n
          BY <1>1, <1>5, <2>1, <3>1, <4>2 DEF Linked
        <5> QED BY <1>3, <4>2, <5>1
      <4> QED BY <4>1, <4>2
    <3> QED BY <3>1
  <2>4. ASSUME NEW k \in Cells, k # arg[c], NEW i \in 1..Len(pending), pending[i] = k
        PROVE  \E j \in 1..Len(pending') : pending'[j] = k
    <3>1. i # n
      BY <1>5, <2>4
    <3>2. CASE i < n
      <4>1. i \in 1..Len(pending')
        BY <1>3, <1>11, <3>2
      <4> QED BY <1>11, <2>4, <3>2, <4>1
    <3>3. CASE i > n
      <4>1. i - 1 \in 1..Len(pending') /\ ~(i - 1 < n) /\ (i - 1) + 1 = i
        BY <1>3, <1>11, <3>3
      <4> QED BY <1>11, <2>4, <4>1
    <3> QED BY <1>3, <3>1, <3>2, <3>3
  <2>5. ASSUME NEW k \in Cells
        PROVE  cell'[k] # Freed <=> \E i \in 1..Len(pending') : pending'[i] = k
    <3>1. CASE k = arg[c]
      BY <1>12, <2>3, <3>1
    <3>2. CASE k # arg[c]
      <4>1. cell[k] # Freed <=> \E i \in 1..Len(pending) : pending[i] = k
        BY <1>1 DEF Linked
      <4>2. (\E i \in 1..Len(pending') : pending'[i] = k)
              => \E i \in 1..Len(pending) : pending[i] = k
        BY <2>1
      <4> QED BY <1>12, <2>4, <3>2, <4>1, <4>2
    <3> QED BY <3>1, <3>2
  <2> QED BY <1>11, <2>2, <2>5 DEF Linked
<1>14. Passed'
  <2>1. \A k \in Cells : cell'[k] # c
    BY <1>1, <1>2, <1>12, ServerAssumption DEF Passed
  <2> QED BY <1>1, <1>2, <1>9, <1>12, <2>1, ServerAssumption DEF Passed, IndInv, ListTypes
<1>15. Round'
  <2>1. mpc \in {"locked", "accept"} => mine # arg[c]
    BY <1>1, <1>2, ServerAssumption DEF Round
  <2>2. ASSUME mpc = "create", NEW k \in Clients, spc[k] = "accepted"
        PROVE  mine # arg[c]
    BY <1>1, <1>2, <2>2 DEF Round
  <2> QED BY <1>1, <1>2, <1>9, <1>12, <2>1, <2>2 DEF Round, IndInv, ListTypes
<1> QED BY <1>10, <1>13, <1>14, <1>15

\* A thread begins; if the handler has freed the list it is lost.
LEMMA StartKeeps ==
  ASSUME IndInv, NEW c \in Clients, Start(c)
  PROVE  IndInv'
<1>1. UNCHANGED <<mpc, mine, arg, sigint, fails>>
  BY DEF Start
<1>2. ListTypes' /\ HandlerInv'
  <2>1. HandlerInv'
    BY <1>1 DEF IndInv, HandlerInv
  <2>2. CASE cell[arg[c]] # c
    BY <1>1, <2>1, <2>2 DEF Start, IndInv, ListTypes
  <2>3. CASE cell[arg[c]] = c
    <3>1. /\ misused' \in BOOLEAN
          /\ cell' = [cell EXCEPT ![arg[c]] = Freed]
          /\ spc' = [spc EXCEPT ![c] = "send"]
      BY <2>3 DEF Start, IndInv, ListTypes
    <3> QED BY <1>1, <2>1, <3>1 DEF IndInv, ListTypes
  <2> QED BY <2>2, <2>3
<1>3. ASSUME fails = 0, mpc = "exit"
      PROVE  AllFreed' /\ (misused' => \E k \in Clients : spc'[k] = "lost")
  <2>1. AllFreed
    BY <1>3 DEF IndInv, ListInv
  <2>2. cell[arg[c]] # c
    BY <2>1, ServerAssumption DEF AllFreed, IndInv, ListTypes
  <2>3. UNCHANGED <<cell, pending>> /\ spc' = [spc EXCEPT ![c] = "lost"]
    BY <2>2 DEF Start
  <2>4. spc'[c] = "lost"
    BY <2>3 DEF IndInv, ListTypes
  <2> QED BY <2>1, <2>3, <2>4 DEF AllFreed
<1> QED BY <1>1, <1>2, <1>3, StartLinkedKeeps DEF IndInv, ListInv

-----------------------------------------------------------------------------
(***************************************************************************)
(* The SIGINT handler.                                                      *)
(***************************************************************************)

\* The handler is called
LEMMA SigintKeeps ==
  ASSUME IndInv, Sigint
  PROVE  IndInv'
<1>1. /\ mpc # "exit" /\ sigint'
      /\ mpc' \in {"stuck", "handler"}
      /\ spc' = [k \in Clients |-> IF spc[k] = "none" THEN "ended" ELSE spc[k]]
      /\ UNCHANGED <<cell, mine, arg, pending, fails, misused>>
  BY DEF Sigint, IndInv, HandlerInv
<1>2. ListTypes' /\ HandlerInv'
  BY <1>1 DEF IndInv, ListTypes, HandlerInv
<1>3. ASSUME fails = 0
      PROVE  Linked' /\ Passed' /\ Round' /\ ~misused
  <2>1. Linked /\ Passed /\ Round /\ ~misused
    BY <1>1, <1>3 DEF IndInv, ListInv
  <2>2. Linked'
    BY <1>1, <2>1 DEF Linked
  <2>3. Passed'
    BY <1>1, <2>1 DEF Passed
  <2>4. Round'
    BY <1>1 DEF Round
  <2> QED BY <2>1, <2>2, <2>3, <2>4
<1> QED BY <1>1, <1>2, <1>3 DEF IndInv, ListInv

\* The handler frees the list
LEMMA FreePendingKeeps ==
  ASSUME IndInv, FreePending
  PROVE  IndInv'
<1>1. /\ mpc = "handler" /\ mpc' = "exit"
      /\ misused' = (misused \/ \E i \in 1..Len(pending) :
                       \/ cell[pending[i]] = Freed
                       \/ \E j \in 1..(i - 1) : pending[j] = pending[i])
      /\ cell' = [k \in Cells |-> IF k \in Range(pending) THEN Freed ELSE cell[k]]
      /\ pending' = <<>>
      /\ UNCHANGED <<spc, mine, arg, sigint, fails>>
  BY DEF FreePending, sessVars, thread
<1>2. ListTypes' /\ HandlerInv'
  BY <1>1 DEF IndInv, ListTypes, HandlerInv
<1>3. ASSUME fails = 0
      PROVE  AllFreed' /\ ~misused'
  <2>1. Linked /\ ~misused
    BY <1>1, <1>3 DEF IndInv, ListInv
  <2>2. \A i \in 1..Len(pending) : pending[i] \in Cells
    BY <2>1 DEF Linked
  <2>3. \A i \in 1..Len(pending) : cell[pending[i]] # Freed
    BY <2>1, <2>2 DEF Linked
  <2>4. ASSUME NEW i \in 1..Len(pending), NEW j \in 1..(i - 1)
        PROVE  pending[j] # pending[i]
    <3>1. Len(pending) \in Nat
      BY <2>1 DEF Linked
    <3>2. j \in 1..Len(pending) /\ j # i
      BY <3>1
    <3> QED BY <2>1, <3>2 DEF Linked
  <2>5. ASSUME NEW k \in Cells
        PROVE  cell'[k] = Freed
    <3>1. CASE cell[k] = Freed
      BY <1>1, <3>1
    <3>2. CASE cell[k] # Freed
      <4>1. PICK i \in 1..Len(pending) : pending[i] = k
        BY <2>1, <3>2 DEF Linked
      <4>2. k \in Range(pending)
        BY <2>1, <4>1 DEF Range, Linked
      <4> QED BY <1>1, <4>2
    <3> QED BY <3>1, <3>2
  <2> QED BY <1>1, <2>1, <2>3, <2>4, <2>5 DEF AllFreed
<1> QED BY <1>1, <1>2, <1>3 DEF IndInv, ListInv

-----------------------------------------------------------------------------
(***************************************************************************)
(* The server.                                                              *)
(***************************************************************************)

\* Every step keeps the invariant.
LEMMA NextInv == IndInv /\ [Next]_vars => IndInv'
<1> SUFFICES ASSUME IndInv, [Next]_vars PROVE IndInv'
  OBVIOUS
<1>1. CASE MainStep
  <2>1. CASE Exit
    <3>1. UNCHANGED listVars /\ UNCHANGED spc
      BY <2>1 DEF Exit, thread
    <3> QED BY <3>1, ConnectionKeeps DEF IndInv, ListTypes
  <2> QED BY <1>1, <2>1, LinkKeeps, UnlockKeeps, AcceptFailsKeeps,
             FreePendingKeeps, AcceptKeeps, CreateKeeps DEF MainStep
<1>2. CASE Sigint
  BY <1>2, SigintKeeps
<1>3. CASE Done \/ UNCHANGED vars
  <2>1. UNCHANGED listVars /\ UNCHANGED spc
    BY <1>3 DEF Done, vars, sessVars, thread
  <2> QED BY <2>1, ConnectionKeeps DEF IndInv, ListTypes
<1>4. ASSUME NEW c \in Clients, ClientStep(c) \/ UserStep(c) \/ ThreadStep(c)
      PROVE  IndInv'
  BY <1>4, ClientKeeps, ServesKeeps, StartKeeps DEF ThreadStep
<1> QED BY <1>1, <1>2, <1>3, <1>4 DEF Next

\* The invariant holds in every state of the server.
LEMMA SpecInv == Spec => []IndInv
<1> QED BY InitInv, NextInv, PTL DEF Spec

\* For every set of clients and every way they use their connections: a cell of
\* pending_fds is read or freed after it was freed only if a call of accept or
\* pthread_create had failed, or if the SIGINT handler freed the cell of a
\* thread that had not begun (server.c 38, 51, 65, 236, 243).
THEOREM MisuseCorrect == Spec => []MisusedOnly
<1>1. IndInv => MisusedOnly
  <2>1. SUFFICES ASSUME IndInv, misused, ~(fails > 0)
                 PROVE  sigint /\ \E c \in Clients : spc[c] = "lost"
    BY DEF MisusedOnly
  <2>2. fails = 0
    BY <2>1 DEF IndInv, ListTypes
  <2> QED BY <2>1, <2>2 DEF IndInv, ListInv, HandlerInv
<1> QED BY <1>1, SpecInv, PTL

-----------------------------------------------------------------------------
(***************************************************************************)
(* Streams.                                                                 *)
(***************************************************************************)

Piece == {"text", "bye", "nl", "crlf", "nul"}

\* What the calls of send in t add to the stream; no reply takes more than three.
Sent(t, i) == IF i <= Len(t) THEN t[i] ELSE <<>>
Flat(t)    == Sent(t, 1) \o (Sent(t, 2) \o Sent(t, 3))

\* What c has still to read, wherever it is.
Rest(c) == buf[c] \o (net[c] \o Flat(todo[c]))

\* It may be, while the client waits in l, one of:
Rests(l) ==
  CASE l = "greeting" -> {<<"text", "crlf", "nul", "text", "nl", "crlf">>,
                          <<"nul", "text", "nl", "crlf">>, <<"crlf">>}
    [] l = "lines"    -> {<<"text", "nl", "crlf">>, <<"text", "crlf", "crlf">>,
                          <<"text", "crlf">>, <<"crlf">>, <<>>}
    [] l = "line"     -> {<<"text", "crlf">>, <<"crlf">>, <<>>}

\* The least element of a set, once it is known.
LEMMA MinIs ==
  ASSUME NEW S \in SUBSET Int, NEW e \in S, \A j \in S : e <= j
  PROVE  Min(S) = e
<1> DEFINE m == CHOOSE x \in S : \A y \in S : x =< y
<1>1. m \in S /\ \A y \in S : m =< y
  OBVIOUS
<1>2. Min(S) = m
  BY DEF Min
<1> HIDE DEF m
<1>3. m <= e /\ e <= m
  BY <1>1
<1> QED BY <1>1, <1>2, <1>3

\* A call of send moves its piece of the stream and keeps the whole.
LEMMA FlatHead ==
  ASSUME NEW t \in Seq(Seq(Piece) \ {<<>>}), t # <<>>, Len(t) <= 3
  PROVE  /\ Head(t) \in Seq(Piece) /\ Head(t) # <<>>
         /\ Tail(t) \in Seq(Seq(Piece) \ {<<>>}) /\ Len(Tail(t)) = Len(t) - 1
         /\ Flat(Tail(t)) \in Seq(Piece)
         /\ Flat(t) = Head(t) \o Flat(Tail(t))
<1>1. /\ Len(t) \in {1, 2, 3}
      /\ \A i \in 1..Len(t) : t[i] \in Seq(Piece) /\ t[i] # <<>>
      /\ Head(t) = t[1]
  <2>1. Len(t) \in Nat /\ Len(t) # 0
    OBVIOUS
  <2>2. \A i \in 1..Len(t) : t[i] \in Seq(Piece) \ {<<>>}
    OBVIOUS
  <2>3. Head(t) = t[1]
    OBVIOUS
  <2>4. Len(t) \in {1, 2, 3}
    <3>1. \A n \in Nat : n # 0 /\ n <= 3 => n \in {1, 2, 3}
      OBVIOUS
    <3> QED BY <2>1, <3>1
  <2> QED BY <2>2, <2>3, <2>4
<1>2. /\ Tail(t) \in Seq(Seq(Piece) \ {<<>>}) /\ Len(Tail(t)) = Len(t) - 1
      /\ \A i \in 1..(Len(t) - 1) : Tail(t)[i] = t[i + 1]
  OBVIOUS
<1>3. <<>> \in Seq(Piece)
  OBVIOUS
<1>4. /\ Sent(t, 1) = Head(t)
      /\ Sent(t, 2) \in Seq(Piece) /\ Sent(t, 3) \in Seq(Piece)
      /\ Sent(Tail(t), 1) = Sent(t, 2) /\ Sent(Tail(t), 2) = Sent(t, 3)
      /\ Sent(Tail(t), 3) = <<>>
  BY <1>1, <1>2, <1>3 DEF Sent
<1>5. Flat(Tail(t)) = Sent(t, 2) \o Sent(t, 3)
  BY <1>4, ConcatEmptySeq DEF Flat
<1>6. Sent(t, 2) \o Sent(t, 3) \in Seq(Piece)
  BY <1>4, ConcatProperties
<1>7. Head(t) \in Seq(Piece) /\ Head(t) # <<>>
  BY <1>1
<1>8. Flat(t) = Head(t) \o Flat(Tail(t))
  BY <1>4, <1>5 DEF Flat
<1> QED BY <1>2, <1>5, <1>6, <1>7, <1>8

\* Nothing is left to be sent only when no call of send is left.
LEMMA FlatType ==
  ASSUME NEW t \in Seq(Seq(Piece) \ {<<>>}), Len(t) <= 3
  PROVE  Flat(t) \in Seq(Piece) /\ (Flat(t) = <<>> => t = <<>>)
<1>1. CASE t = <<>>
  <2>1. Sent(t, 1) = <<>> /\ Sent(t, 2) = <<>> /\ Sent(t, 3) = <<>>
    BY <1>1 DEF Sent
  <2>2. <<>> \in Seq(Piece) /\ <<>> \o (<<>> \o <<>>) = <<>>
    OBVIOUS
  <2> QED BY <1>1, <2>1, <2>2 DEF Flat
<1>2. CASE t # <<>>
  <2>1. /\ Head(t) \in Seq(Piece) /\ Head(t) # <<>> /\ Flat(Tail(t)) \in Seq(Piece)
        /\ Flat(t) = Head(t) \o Flat(Tail(t))
    BY <1>2, FlatHead
  <2> QED BY <2>1, ConcatProperties, ConcatEqualIffEmpty
<1> QED BY <1>1, <1>2

\* The first line in the buffer of the client is the first of the stream.
LEMMA FirstLine ==
  ASSUME NEW s \in Seq(Piece), NEW x \in Seq(Piece), Ends(s) # {},
         NEW e \in Ends(s \o x), \A j \in Ends(s \o x) : e <= j
  PROVE  /\ EndOfLine(s) = e
         /\ SubSeq(s, 1, e) = SubSeq(s \o x, 1, e)
         /\ Len(SubSeq(s, 1, e)) = e
         /\ SubSeq(s, e + 1, Len(s)) \in Seq(Piece)
         /\ SubSeq(s, e + 1, Len(s)) \o x = SubSeq(s \o x, e + 1, Len(s \o x))
<1>1. /\ Len(s) \in Nat /\ Len(x) \in Nat
      /\ s \o x \in Seq(Piece) /\ Len(s \o x) = Len(s) + Len(x)
      /\ \A i \in 1..(Len(s) + Len(x)) :
           (s \o x)[i] = IF i <= Len(s) THEN s[i] ELSE x[i - Len(s)]
  BY ConcatProperties
<1>2. Ends(s) \subseteq Ends(s \o x)
  BY <1>1 DEF Ends
<1>3. e \in 1..(Len(s) + Len(x)) /\ (s \o x)[e] \in {"nl", "crlf"}
  BY <1>1 DEF Ends
<1>4. e <= Len(s)
  <2>1. PICK j \in Ends(s) : TRUE
    OBVIOUS
  <2>2. e <= j /\ j \in 1..Len(s)
    BY <1>2, <2>1 DEF Ends
  <2> QED BY <1>1, <1>3, <2>2
<1>5. e \in Ends(s)
  BY <1>1, <1>3, <1>4 DEF Ends
<1>6. EndOfLine(s) = e
  <2>1. Ends(s) \in SUBSET Int
    BY <1>1 DEF Ends
  <2> QED BY <1>2, <1>5, <2>1, MinIs DEF EndOfLine
<1> DEFINE a == SubSeq(s, e + 1, Len(s))
           b == SubSeq(s \o x, e + 1, Len(s \o x))
<1>7. /\ a \in Seq(Piece) /\ Len(a) = Len(s) - e
      /\ \A i \in 1..(Len(s) - e) : a[i] = s[e + i]
  BY <1>1, <1>3, <1>4
<1>8. /\ b \in Seq(Piece) /\ Len(b) = Len(s) + Len(x) - e
      /\ \A i \in 1..(Len(s) + Len(x) - e) : b[i] = (s \o x)[e + i]
  <2> DEFINE y == s \o x
  <2>1. y \in Seq(Piece) /\ Len(y) = Len(s) + Len(x)
    BY <1>1
  <2> HIDE DEF y
  <2>2. /\ SubSeq(y, e + 1, Len(y)) \in Seq(Piece)
        /\ Len(SubSeq(y, e + 1, Len(y))) = Len(s) + Len(x) - e
        /\ \A i \in 1..(Len(s) + Len(x) - e) : SubSeq(y, e + 1, Len(y))[i] = y[e + i]
    BY <1>1, <1>3, <1>4, <2>1
  <2> QED BY <2>2 DEF y
<1>9. a \o x = b
  <2> HIDE DEF a, b
  <2>1. /\ a \o x \in Seq(Piece) /\ Len(a \o x) = Len(a) + Len(x)
        /\ \A i \in 1..(Len(a) + Len(x)) :
             (a \o x)[i] = IF i <= Len(a) THEN a[i] ELSE x[i - Len(a)]
    BY <1>7, ConcatProperties
  <2>2. Len(a \o x) = Len(b)
    BY <1>1, <1>3, <1>7, <1>8, <2>1
  <2>3. ASSUME NEW i \in 1..Len(b)
        PROVE  (a \o x)[i] = b[i]
    <3>1. i \in 1..(Len(s) + Len(x) - e) /\ i \in 1..(Len(a) + Len(x))
      BY <1>1, <1>3, <1>7, <1>8
    <3>2. b[i] = (s \o x)[e + i] /\ e + i \in 1..(Len(s) + Len(x))
      BY <1>1, <1>3, <1>8, <3>1
    <3>3. CASE i <= Len(s) - e
      <4>1. (a \o x)[i] = a[i]
        BY <1>1, <1>7, <2>1, <3>1, <3>3
      <4>2. a[i] = s[e + i] /\ e + i <= Len(s)
        BY <1>1, <1>3, <1>7, <3>1, <3>3
      <4>3. (s \o x)[e + i] = s[e + i]
        BY <1>1, <3>2, <4>2
      <4> QED BY <3>2, <4>1, <4>2, <4>3, Zenon
    <3>4. CASE ~(i <= Len(s) - e)
      <4>1. /\ i - Len(a) = (e + i) - Len(s)
            /\ ~(i <= Len(a)) /\ ~(e + i <= Len(s))
        BY <1>1, <1>3, <1>7, <3>4
      <4>2. (a \o x)[i] = x[i - Len(a)]
        BY <2>1, <3>1, <4>1, Zenon
      <4>3. (s \o x)[e + i] = x[(e + i) - Len(s)]
        BY <1>1, <3>2, <4>1, Zenon
      <4> QED BY <3>2, <4>1, <4>2, <4>3, Zenon
    <3> QED BY <3>3, <3>4
  <2>4. b \in Seq(Piece) /\ \A i \in 1..Len(a \o x) : (a \o x)[i] = b[i]
    BY <1>8, <2>2, <2>3, Zenon
  <2> QED BY <2>1, <2>2, <2>4, SeqEqual, Zenon
<1>10. SubSeq(s, 1, e) = SubSeq(s \o x, 1, e) /\ Len(SubSeq(s, 1, e)) = e
  <2> DEFINE y == s \o x
  <2>1. y \in Seq(Piece) /\ Len(y) = Len(s) + Len(x)
        /\ \A i \in 1..e : y[i] = s[i]
    BY <1>1, <1>3, <1>4
  <2> HIDE DEF y
  <2>2. /\ SubSeq(s, 1, e) \in Seq(Piece) /\ Len(SubSeq(s, 1, e)) = e
        /\ \A i \in 1..e : SubSeq(s, 1, e)[i] = s[i]
    BY <1>1, <1>3, <1>4
  <2>3. /\ SubSeq(y, 1, e) \in Seq(Piece) /\ Len(SubSeq(y, 1, e)) = e
        /\ \A i \in 1..e : SubSeq(y, 1, e)[i] = y[i]
    BY <1>1, <1>3, <1>4, <2>1
  <2>4. SubSeq(s, 1, e) = SubSeq(y, 1, e)
    BY <2>1, <2>2, <2>3
  <2> QED BY <2>2, <2>4 DEF y
<1> QED BY <1>6, <1>7, <1>9, <1>10

\* A part of a sequence, piece by piece.
LEMMA PartIs ==
  ASSUME NEW s \in Seq(Piece), NEW t \in Seq(Piece), NEW m \in 1..(Len(s) + 1),
         Len(t) = Len(s) - m + 1,
         \A i \in 1..Len(t) : t[i] = s[m + i - 1]
  PROVE  SubSeq(s, m, Len(s)) = t
<1>1. Len(s) \in Nat /\ Len(t) \in Nat
  OBVIOUS
<1>2. /\ SubSeq(s, m, Len(s)) \in Seq(Piece)
      /\ Len(SubSeq(s, m, Len(s))) = Len(s) - m + 1
      /\ \A i \in 1..(Len(s) - m + 1) : SubSeq(s, m, Len(s))[i] = s[m + i - 1]
  BY <1>1
<1> QED BY <1>1, <1>2

\* Where the first line of a reply ends, and what is left behind it.
LEMMA LineOfRest ==
  ASSUME NEW l \in {"greeting", "lines", "line"}, NEW r \in Rests(l), r # <<>>
  PROVE  \E e \in Ends(r) :
           /\ \A j \in Ends(r) : e <= j
           /\ IF l \in {"greeting", "lines"} /\ SubSeq(r, 1, e) # <<"crlf">>
                THEN SubSeq(r, e + 1, Len(r)) \in Rests(l)
                ELSE SubSeq(r, e + 1, Len(r)) = <<>>
<1>1. CASE r = <<"crlf">>
  <2>1. 1 \in Ends(r) /\ \A j \in Ends(r) : 1 <= j
    BY <1>1 DEF Ends
  <2>2. r \in Seq(Piece) /\ Len(r) = 1
    BY <1>1 DEF Piece
  <2>3. SubSeq(r, 1, Len(r)) = r /\ SubSeq(r, 1 + 1, Len(r)) = <<>>
    BY <2>2
  <2> USE <2>1
  <2> WITNESS 1 \in Ends(r)
  <2> QED BY <1>1, <2>1, <2>2, <2>3
<1>2. CASE r = <<"text", "crlf">>
  <2>1. 2 \in Ends(r) /\ \A j \in Ends(r) : 2 <= j
    BY <1>2 DEF Ends
  <2>2. r \in Seq(Piece) /\ Len(r) = 2
    BY <1>2 DEF Piece
  <2>3. Len(SubSeq(r, 1, 2)) = 2 /\ SubSeq(r, 2 + 1, Len(r)) = <<>>
    BY <2>2
  <2>4. SubSeq(r, 1, 2) # <<"crlf">>
    BY <2>3
  <2>5. (l = "lines" => <<>> \in Rests(l)) /\ l # "greeting"
    BY <1>2 DEF Rests
  <2> USE <2>1
  <2> WITNESS 2 \in Ends(r)
  <2> QED BY <2>1, <2>3, <2>4, <2>5
<1>3. CASE r = <<"text", "nl", "crlf">> \/ r = <<"text", "crlf", "crlf">>
  <2>1. 2 \in Ends(r) /\ \A j \in Ends(r) : 2 <= j
    BY <1>3 DEF Ends
  <2>2. r \in Seq(Piece) /\ Len(r) = 3 /\ r[3] = "crlf"
    <3>1. CASE r = <<"text", "nl", "crlf">>
      BY <3>1 DEF Piece
    <3>2. CASE r = <<"text", "crlf", "crlf">>
      BY <3>2 DEF Piece
    <3> QED BY <1>3, <3>1, <3>2
  <2>3. SubSeq(r, 2 + 1, Len(r)) = <<"crlf">>
    <3>1. <<"crlf">> \in Seq(Piece)
      BY DEF Piece
    <3>2. PICK t \in Seq(Piece) : t = <<"crlf">>
      BY <3>1
    <3>3. /\ Len(t) = 1
          /\ t[1] = "crlf"
      BY <3>2
    <3>4. \A i \in 1..Len(t) : t[i] = r[3 + i - 1]
      BY <2>2, <3>3
    <3>5. 3 \in 1..(Len(r) + 1) /\ Len(t) = Len(r) - 3 + 1
      BY <2>2, <3>3
    <3>6. SubSeq(r, 3, Len(r)) = t
      BY <2>2, <3>4, <3>5, PartIs
    <3> QED BY <3>2, <3>6
  <2>4. SubSeq(r, 1, 2) # <<"crlf">>
    <3>1. Len(SubSeq(r, 1, 2)) = 2
      BY <2>2
    <3> QED BY <3>1
  <2>5. l = "lines" /\ <<"crlf">> \in Rests(l)
    BY <1>3, SMTT(30) DEF Rests
  <2> USE <2>1
  <2> WITNESS 2 \in Ends(r)
  <2> QED BY <2>1, <2>3, <2>4, <2>5
<1>4. CASE r = <<"nul", "text", "nl", "crlf">>
  <2>1. 3 \in Ends(r) /\ \A j \in Ends(r) : 3 <= j
    BY <1>4 DEF Ends
  <2>2. r \in Seq(Piece) /\ Len(r) = 4 /\ r[4] = "crlf"
    BY <1>4 DEF Piece
  <2>3. SubSeq(r, 3 + 1, Len(r)) = <<"crlf">>
    <3>1. <<"crlf">> \in Seq(Piece)
      BY DEF Piece
    <3>2. PICK t \in Seq(Piece) : t = <<"crlf">>
      BY <3>1
    <3>3. /\ Len(t) = 1
          /\ t[1] = "crlf"
      BY <3>2
    <3>4. \A i \in 1..Len(t) : t[i] = r[4 + i - 1]
      BY <2>2, <3>3
    <3>5. 4 \in 1..(Len(r) + 1) /\ Len(t) = Len(r) - 4 + 1
      BY <2>2, <3>3
    <3>6. SubSeq(r, 4, Len(r)) = t
      BY <2>2, <3>4, <3>5, PartIs
    <3> QED BY <3>2, <3>6
  <2>4. SubSeq(r, 1, 3) # <<"crlf">>
    <3>1. Len(SubSeq(r, 1, 3)) = 3
      BY <2>2
    <3> QED BY <3>1
  <2>5. l = "greeting" /\ <<"crlf">> \in Rests(l)
    BY <1>4 DEF Rests
  <2> USE <2>1
  <2> WITNESS 3 \in Ends(r)
  <2> QED BY <2>1, <2>3, <2>4, <2>5
<1>5. CASE r = <<"text", "crlf", "nul", "text", "nl", "crlf">>
  <2>1. 2 \in Ends(r) /\ \A j \in Ends(r) : 2 <= j
    BY <1>5 DEF Ends
  <2>2. /\ r \in Seq(Piece) /\ Len(r) = 6
        /\ r[3] = "nul" /\ r[4] = "text" /\ r[5] = "nl" /\ r[6] = "crlf"
    BY <1>5 DEF Piece
  <2>3. SubSeq(r, 2 + 1, Len(r)) = <<"nul", "text", "nl", "crlf">>
    <3>1. <<"nul", "text", "nl", "crlf">> \in Seq(Piece)
      BY DEF Piece
    <3>2. PICK t \in Seq(Piece) : t = <<"nul", "text", "nl", "crlf">>
      BY <3>1
    <3>3. /\ Len(t) = 4
          /\ t[1] = "nul" /\ t[2] = "text" /\ t[3] = "nl" /\ t[4] = "crlf"
      BY <3>2
    <3>4. \A i \in 1..Len(t) : t[i] = r[3 + i - 1]
      BY <2>2, <3>3
    <3>5. 3 \in 1..(Len(r) + 1) /\ Len(t) = Len(r) - 3 + 1
      BY <2>2, <3>3
    <3>6. SubSeq(r, 3, Len(r)) = t
      BY <2>2, <3>4, <3>5, PartIs
    <3> QED BY <3>2, <3>6
  <2>4. SubSeq(r, 1, 2) # <<"crlf">>
    <3>1. Len(SubSeq(r, 1, 2)) = 2
      BY <2>2
    <3> QED BY <3>1
  <2>5. l = "greeting" /\ <<"nul", "text", "nl", "crlf">> \in Rests(l)
    BY <1>5 DEF Rests
  <2> USE <2>1
  <2> WITNESS 2 \in Ends(r)
  <2> QED BY <2>1, <2>3, <2>4, <2>5
<1> QED BY <1>1, <1>2, <1>3, <1>4, <1>5 DEF Rests

-----------------------------------------------------------------------------
(***************************************************************************)
(* The invariant of a connection, for a plain info.txt.                     *)
(***************************************************************************)

\* Nothing is on its way to c.
Silent(c) == buf[c] = <<>> /\ net[c] = <<>> /\ todo[c] = <<>>

\* A greeting or a reply is on its way; the thread sends while it has something
\* left.  For an empty line, or a directory that it cannot open, the thread
\* waits and the client goes on reading.
Replying(c) ==
  /\ cpc[c] \in {"greeting", "lines", "line"} /\ up[c] = <<>>
  /\ buf[c] \in Seq(Piece) /\ net[c] \in Seq(Piece)
  /\ todo[c] \in Seq(Seq(Piece) \ {<<>>}) /\ Len(todo[c]) <= 3
  /\ spc[c] = IF todo[c] = <<>> THEN "recv" ELSE "send"
  /\ Rest(c) \in Rests(cpc[c])

\* The client has not connected, waits for its thread, is at its prompt, or has
\* sent a command.
Settled(c) ==
  /\ Silent(c)
  /\ \/ up[c] = <<>> /\ cpc[c] = "off" /\ spc[c] = "none"
     \/ /\ up[c] = <<>> /\ cpc[c] = "greeting"
        /\ spc[c] \in {"none", "accepted", "start", "lost"}
     \/ up[c] = <<>> /\ cpc[c] = "prompt" /\ spc[c] = "recv"
     \/ /\ asked[c] \in Commands /\ up[c] = <<asked[c]>>
        /\ cpc[c] = ReplyOf(asked[c]) /\ spc[c] = "recv"

\* The BYE is about to be sent, after which the connection is closed.
Parting(c) ==
  /\ cpc[c] = "bye" /\ spc[c] = "lastsend" /\ up[c] = <<>>
  /\ buf[c] = <<>> /\ net[c] = <<>> /\ todo[c] = ByeReply

Synced(c) == /\ ~broken[c] /\ peer[c] = "open"
             /\ Settled(c) \/ Replying(c) \/ Parting(c)

\* A client that left at its prompt is sent a BYE at most, in one call of send,
\* which cannot raise SIGPIPE.
Left(c) ==
  /\ cpc[c] = "gone" /\ peer[c] = "fin"
  /\ \/ spc[c] = "recv" /\ up[c] \in {<<>>, <<"QUIT">>}
     \/ spc[c] = "lastsend" /\ todo[c] = ByeReply

ClientSync(c) == ServerClosed(c) \/ cpc[c] = "away" \/ Left(c) \/ Synced(c)

AliveInv == alive \/ sigint \/ \E c \in Clients : cpc[c] = "away"

IsPerClient(f) == f = [c \in Clients |-> f[c]]

PerClient ==
  /\ IsPerClient(cpc) /\ IsPerClient(asked) /\ IsPerClient(buf)
  /\ IsPerClient(broken) /\ IsPerClient(net) /\ IsPerClient(up)
  /\ IsPerClient(peer) /\ IsPerClient(spc) /\ IsPerClient(todo)

SyncInv ==
  /\ PerClient
  /\ PlainInfo => AliveInv /\ \A c \in Clients : ClientSync(c)

\* A client that a step is not about.
Same(c) == UNCHANGED <<cpc[c], asked[c], buf[c], broken[c], net[c], up[c],
                       peer[c], spc[c], todo[c]>>

-----------------------------------------------------------------------------
\* Three parts of a stream.
LEMMA Assoc ==
  \A s, t, u \in Seq(Piece) : (s \o t) \o u = s \o (t \o u)
BY ConcatAssociative

\* A client stays in step when nothing of its connection changes.
LEMMA SameKeeps ==
  ASSUME NEW c \in Clients, ClientSync(c), Same(c), alive' => alive
  PROVE  ClientSync(c)'
<1>1. /\ cpc'[c] = cpc[c] /\ asked'[c] = asked[c] /\ buf'[c] = buf[c]
      /\ broken'[c] = broken[c] /\ net'[c] = net[c] /\ up'[c] = up[c]
      /\ peer'[c] = peer[c] /\ spc'[c] = spc[c] /\ todo'[c] = todo[c]
  BY DEF Same
<1>2. CASE ServerClosed(c)
  BY <1>1, <1>2 DEF ClientSync, ServerClosed
<1>3. CASE cpc[c] = "away"
  BY <1>1, <1>3 DEF ClientSync
<1>4. CASE Left(c)
  BY <1>1, <1>4 DEF ClientSync, Left, ByeReply
<1>5. CASE Synced(c)
  <2>1. Settled(c) => Settled(c)'
    BY <1>1 DEF Settled, Silent
  <2>2. Replying(c) => Replying(c)'
    BY <1>1 DEF Replying, Rest
  <2>3. Parting(c) => Parting(c)'
    BY <1>1 DEF Parting, ByeReply
  <2> QED BY <1>1, <1>5, <2>1, <2>2, <2>3 DEF ClientSync, Synced
<1> QED BY <1>2, <1>3, <1>4, <1>5 DEF ClientSync

\* The client connects
LEMMA ConnectSync ==
  ASSUME NEW c \in Clients, PerClient, ClientSync(c), Connect(c)
  PROVE  ClientSync(c)'
<1>1. /\ cpc[c] = "off" /\ ~ServerClosed(c)
      /\ cpc' = [cpc EXCEPT ![c] = "greeting"]
      /\ UNCHANGED <<asked, buf, broken, net, up, peer, spc, todo, alive>>
  BY DEF Connect, thread
<1>2. cpc'[c] = "greeting"
  BY <1>1 DEF PerClient, IsPerClient
<1>3. Settled(c) /\ spc[c] = "none" /\ ~broken[c] /\ peer[c] = "open"
  BY <1>1 DEF ClientSync, Left, Synced, Settled, Replying, Parting, ReplyOf
<1>4. up[c] = <<>>
  BY <1>1, <1>3 DEF Settled, ReplyOf
<1>5. Settled(c)'
  BY <1>1, <1>2, <1>3, <1>4 DEF Settled, Silent
<1> QED BY <1>1, <1>3, <1>5 DEF ClientSync, Synced

\* fgets asks for more
LEMMA RefillSync ==
  ASSUME NEW c \in Clients, PerClient, ClientSync(c), Refill(c)
  PROVE  ClientSync(c)'
<1>1. /\ cpc[c] \in Waiting /\ net[c] # <<>>
      /\ buf' = [buf EXCEPT ![c] = @ \o net[c]]
      /\ net' = [net EXCEPT ![c] = <<>>]
      /\ UNCHANGED <<cpc, asked, broken, up, peer, spc, todo, alive>>
  BY DEF Refill, thread
<1>2. buf'[c] = buf[c] \o net[c] /\ net'[c] = <<>>
  BY <1>1 DEF PerClient, IsPerClient
<1>3. CASE ServerClosed(c)
  BY <1>1, <1>3 DEF ClientSync, ServerClosed
<1>4. CASE ~ServerClosed(c)
  <2>1. ~broken[c] /\ peer[c] = "open" /\ Replying(c)
    BY <1>1, <1>4 DEF ClientSync, Left, Synced, Settled, Silent, Parting, Waiting
  <2>2. /\ buf[c] \in Seq(Piece) /\ net[c] \in Seq(Piece)
        /\ Flat(todo[c]) \in Seq(Piece)
    BY <2>1, FlatType DEF Replying
  <2>3. /\ buf[c] \o net[c] \in Seq(Piece) /\ <<>> \in Seq(Piece)
        /\ <<>> \o Flat(todo[c]) = Flat(todo[c])
        /\ (buf[c] \o net[c]) \o Flat(todo[c]) = buf[c] \o (net[c] \o Flat(todo[c]))
    <3>1. buf[c] \o net[c] \in Seq(Piece)
      BY <2>2, ConcatProperties
    <3>2. <<>> \o Flat(todo[c]) = Flat(todo[c])
      BY <2>2, ConcatEmptySeq
    <3>3. (buf[c] \o net[c]) \o Flat(todo[c]) = buf[c] \o (net[c] \o Flat(todo[c]))
      BY <2>2, Assoc
    <3> QED BY <3>1, <3>2, <3>3
  <2>4. Rest(c)' = Rest(c)
    BY <1>1, <1>2, <2>3 DEF Rest
  <2>5. Replying(c)'
    BY <1>1, <1>2, <2>1, <2>3, <2>4 DEF Replying
  <2> QED BY <1>1, <2>1, <2>5 DEF ClientSync, Synced
<1> QED BY <1>3, <1>4

\* fgets returns a line: the reply goes on, or the client is at its prompt and
\* nothing is left.
LEMMA ReadLineSync ==
  ASSUME NEW c \in Clients, PerClient, ClientSync(c), ReadLine(c)
  PROVE  ClientSync(c)'
<1>1. /\ cpc[c] \in Waiting /\ Ends(buf[c]) # {}
      /\ UNCHANGED <<alive, up, spc, todo>>
  BY DEF ReadLine, thread
<1>2. CASE ServerClosed(c)
  BY <1>1, <1>2 DEF ClientSync, ServerClosed
<1>3. CASE ~ServerClosed(c)
  <2>1. buf[c] # <<>>
    BY <1>1 DEF Ends
  <2>2. ~broken[c] /\ peer[c] = "open" /\ Replying(c)
    BY <1>1, <1>3, <2>1 DEF ClientSync, Left, Synced, Settled, Silent, Parting, Waiting
  <2>3. /\ cpc[c] \in {"greeting", "lines", "line"} /\ up[c] = <<>>
        /\ buf[c] \in Seq(Piece) /\ net[c] \in Seq(Piece)
        /\ todo[c] \in Seq(Seq(Piece) \ {<<>>}) /\ Len(todo[c]) <= 3
        /\ spc[c] = IF todo[c] = <<>> THEN "recv" ELSE "send"
        /\ Rest(c) \in Rests(cpc[c])
    BY <2>2 DEF Replying
  <2>4. Flat(todo[c]) \in Seq(Piece) /\ (Flat(todo[c]) = <<>> => todo[c] = <<>>)
    BY <2>3, FlatType
  <2>5. PICK x \in Seq(Piece) : x = net[c] \o Flat(todo[c])
    BY <2>3, <2>4, ConcatProperties
  <2>6. Rest(c) = buf[c] \o x /\ Rest(c) # <<>>
    <3>1. Rest(c) = buf[c] \o x
      BY <2>5 DEF Rest
    <3> QED BY <2>1, <2>3, <3>1, ConcatEqualIffEmpty
  <2>7. PICK e \in Ends(Rest(c)) :
          /\ \A j \in Ends(Rest(c)) : e <= j
          /\ IF cpc[c] \in {"greeting", "lines"} /\ SubSeq(Rest(c), 1, e) # <<"crlf">>
               THEN SubSeq(Rest(c), e + 1, Len(Rest(c))) \in Rests(cpc[c])
               ELSE SubSeq(Rest(c), e + 1, Len(Rest(c))) = <<>>
    BY <2>3, <2>6, LineOfRest
  <2>8. PICK b \in Seq(Piece) : b = SubSeq(buf[c], e + 1, Len(buf[c]))
    BY <1>1, <2>3, <2>6, <2>7, FirstLine
  <2>9. /\ EndOfLine(buf[c]) = e
        /\ SubSeq(buf[c], 1, e) = SubSeq(Rest(c), 1, e)
        /\ Len(SubSeq(buf[c], 1, e)) = e
        /\ b \o x = SubSeq(Rest(c), e + 1, Len(Rest(c)))
    <3>1. e \in Ends(buf[c] \o x) /\ \A j \in Ends(buf[c] \o x) : e <= j
      BY <2>6, <2>7
    <3>2. /\ EndOfLine(buf[c]) = e
          /\ SubSeq(buf[c], 1, e) = SubSeq(buf[c] \o x, 1, e)
          /\ Len(SubSeq(buf[c], 1, e)) = e
          /\ SubSeq(buf[c], e + 1, Len(buf[c])) \o x
               = SubSeq(buf[c] \o x, e + 1, Len(buf[c] \o x))
      <4>1. PICK s \in Seq(Piece) : s = buf[c]
        BY <2>3
      <4>2. Ends(s) # {} /\ e \in Ends(s \o x) /\ \A j \in Ends(s \o x) : e <= j
        BY <1>1, <3>1, <4>1
      <4>3. EndOfLine(s) = e
        BY <4>2, FirstLine
      <4>4. SubSeq(s, 1, e) = SubSeq(s \o x, 1, e) /\ Len(SubSeq(s, 1, e)) = e
        BY <4>2, FirstLine, ZenonT(40)
      <4>5. SubSeq(s, e + 1, Len(s)) \o x = SubSeq(s \o x, e + 1, Len(s \o x))
        BY <4>2, FirstLine
      <4> QED BY <4>1, <4>3, <4>4, <4>5
    <3> QED BY <2>6, <2>8, <3>2
  <2>10. /\ cpc' = [cpc EXCEPT ![c] =
                      IF @ \in {"greeting", "lines"}
                           /\ SubSeq(buf[c], 1, e) # <<"crlf">>
                        THEN @ ELSE "prompt"]
         /\ buf' = [buf EXCEPT ![c] = SubSeq(@, e + 1, Len(@))]
         /\ UNCHANGED <<peer, net, broken, asked>>
    BY <2>3, <2>9 DEF ReadLine
  <2>11. buf'[c] = b
    BY <2>8, <2>10 DEF PerClient, IsPerClient
  <2>12. Rest(c)' = b \o x
    BY <1>1, <2>5, <2>10, <2>11 DEF Rest
  <2>13. CASE cpc[c] \in {"greeting", "lines"} /\ SubSeq(buf[c], 1, e) # <<"crlf">>
    <3>1. cpc'[c] = cpc[c]
      BY <2>10, <2>13 DEF PerClient, IsPerClient
    <3>2. Rest(c)' \in Rests(cpc[c])
      BY <2>7, <2>9, <2>12, <2>13
    <3>3. Replying(c)'
      BY <1>1, <2>3, <2>10, <2>11, <3>1, <3>2 DEF Replying
    <3> QED BY <2>2, <2>10, <3>3 DEF ClientSync, Synced
  <2>14. CASE ~(cpc[c] \in {"greeting", "lines"} /\ SubSeq(buf[c], 1, e) # <<"crlf">>)
    <3>1. cpc'[c] = "prompt"
      BY <2>10, <2>14 DEF PerClient, IsPerClient
    <3>2. b \o x = <<>>
      BY <2>7, <2>9, <2>14
    <3>3. b = <<>> /\ x = <<>>
      BY <3>2, ConcatEqualIffEmpty
    <3>4. net[c] = <<>> /\ Flat(todo[c]) = <<>>
      <4>1. net[c] \o Flat(todo[c]) = <<>>
        BY <2>5, <3>3
      <4> QED BY <2>3, <2>4, <4>1, ConcatEqualIffEmpty
    <3>5. Settled(c)'
      BY <1>1, <2>3, <2>4, <2>10, <2>11, <3>1, <3>3, <3>4 DEF Settled, Silent
    <3> QED BY <2>2, <2>10, <3>5 DEF ClientSync, Synced
  <2> QED BY <2>13, <2>14
<1> QED BY <1>2, <1>3

\* fgets returns NULL only on a closed connection.
LEMMA ReadFailsSync ==
  ASSUME NEW c \in Clients, PerClient, ClientSync(c), ReadFails(c)
  PROVE  ClientSync(c)'
<1>1. ServerClosed(c)
  BY DEF ReadFails, ClientSync, Left, Synced, Waiting
<1> QED BY <1>1 DEF ReadFails, thread, ClientSync, ServerClosed

\* At its prompt a client on an open connection has nothing to read.
LEMMA AtPrompt ==
  ASSUME NEW c \in Clients, ClientSync(c), cpc[c] = "prompt", ~ServerClosed(c)
  PROVE  /\ Silent(c) /\ up[c] = <<>> /\ spc[c] = "recv"
         /\ ~broken[c] /\ peer[c] = "open"
<1>1. ~broken[c] /\ peer[c] = "open" /\ Settled(c)
  BY DEF ClientSync, Left, Synced, Replying, Parting
<1> QED BY <1>1 DEF Settled, ReplyOf

\* A line is sent
LEMMA TypeSync ==
  ASSUME NEW c \in Clients, PerClient, ClientSync(c), NEW cmd \in Commands,
         Type(c, cmd)
  PROVE  ClientSync(c)'
<1>1. cpc[c] = "prompt" /\ UNCHANGED <<alive, spc, todo>>
  BY DEF Type, thread
<1>2. CASE ServerClosed(c)
  BY <1>1, <1>2 DEF ClientSync, ServerClosed
<1>3. CASE ~ServerClosed(c)
  <2>1. /\ Silent(c) /\ up[c] = <<>> /\ spc[c] = "recv"
        /\ ~broken[c] /\ peer[c] = "open"
    BY <1>1, <1>3, AtPrompt
  <2>2. ~Refuses(c)
    BY <2>1 DEF Refuses, Silent
  <2>3. /\ up' = [up EXCEPT ![c] = Append(@, cmd)]
        /\ cpc' = [cpc EXCEPT ![c] = ReplyOf(cmd)]
        /\ asked' = [asked EXCEPT ![c] = cmd]
        /\ broken' = [broken EXCEPT ![c] = Refuses(c)]
        /\ UNCHANGED <<buf, net, peer>>
    BY <1>3, <2>2 DEF Type, Write
  <2>4. /\ up'[c] = Append(<<>>, cmd) /\ cpc'[c] = ReplyOf(cmd)
        /\ asked'[c] = cmd /\ ~broken'[c]
    BY <2>1, <2>2, <2>3 DEF PerClient, IsPerClient
  <2>5. up'[c] = <<cmd>>
    BY <2>4
  <2>6. Settled(c)'
    BY <1>1, <2>1, <2>3, <2>4, <2>5 DEF Settled, Silent, ReplyOf
  <2> QED BY <2>1, <2>3, <2>4, <2>6 DEF ClientSync, Synced
<1> QED BY <1>2, <1>3

\* The client ends, by itself or by Ctrl-C
LEMMA LeaveSync ==
  ASSUME NEW c \in Clients, PerClient, ClientSync(c),
         EndOfInput(c) \/ Interrupt(c)
  PROVE  ClientSync(c)'
<1>1. UNCHANGED <<alive, spc, todo>>
  BY DEF EndOfInput, Interrupt, thread
<1>2. CASE ServerClosed(c)
  BY <1>1, <1>2 DEF ClientSync, ServerClosed
<1>3. CASE ~ServerClosed(c) /\ cpc[c] # "prompt"
  <2>1. cpc'[c] = "away"
    BY <1>3 DEF EndOfInput, Interrupt, Leave, PerClient, IsPerClient
  <2> QED BY <2>1 DEF ClientSync
<1>4. CASE ~ServerClosed(c) /\ cpc[c] = "prompt"
  <2>1. /\ Silent(c) /\ up[c] = <<>> /\ spc[c] = "recv"
        /\ ~broken[c] /\ peer[c] = "open"
    BY <1>4, AtPrompt
  <2>2. ~Refuses(c) /\ net[c] = <<>>
    BY <2>1 DEF Refuses, Silent
  <2>3. Leave(c, "gone")
    BY <1>4 DEF EndOfInput, Interrupt
  <2>4. cpc'[c] = "gone" /\ peer'[c] = "fin"
    BY <2>2, <2>3 DEF Leave, PerClient, IsPerClient
  <2>5. up' = up \/ up' = [up EXCEPT ![c] = Append(@, "QUIT")]
    BY DEF EndOfInput, Interrupt, Write
  <2>6. up'[c] = <<>> \/ up'[c] = Append(<<>>, "QUIT")
    BY <2>1, <2>5 DEF PerClient, IsPerClient
  <2>7. up'[c] = <<>> \/ up'[c] = <<"QUIT">>
    <3>1. Append(<<>>, "QUIT") = <<"QUIT">>
      OBVIOUS
    <3> QED BY <2>6, <3>1
  <2> QED BY <1>1, <2>1, <2>4, <2>7 DEF ClientSync, Left
<1> QED BY <1>2, <1>3, <1>4

\* What one, two or three calls of send add to the stream.
LEMMA Sends ==
  ASSUME NEW p \in Seq(Piece), NEW q \in Seq(Piece), NEW r \in Seq(Piece),
         p # <<>>, q # <<>>, r # <<>>
  PROVE  /\ <<p>> \in Seq(Seq(Piece) \ {<<>>}) /\ Len(<<p>>) = 1
         /\ <<p, q>> \in Seq(Seq(Piece) \ {<<>>}) /\ Len(<<p, q>>) = 2
         /\ <<p, q, r>> \in Seq(Seq(Piece) \ {<<>>}) /\ Len(<<p, q, r>>) = 3
         /\ Flat(<<p>>) = p
         /\ Flat(<<p, q>>) = p \o q
         /\ Flat(<<p, q, r>>) = p \o (q \o r)
<1> DEFINE W == Seq(Piece) \ {<<>>}
<1>1. p \in W /\ q \in W /\ r \in W
  OBVIOUS
<1> HIDE DEF W
<1>2. <<p>> \in Seq(W) /\ <<p, q>> \in Seq(W) /\ <<p, q, r>> \in Seq(W)
  BY <1>1
<1>3. <<>> \in Seq(Piece)
  OBVIOUS
<1>4. Flat(<<p>>) = p
  <2>1. Sent(<<p>>, 1) = p /\ Sent(<<p>>, 2) = <<>> /\ Sent(<<p>>, 3) = <<>>
    BY DEF Sent
  <2>2. <<>> \o <<>> = <<>> /\ p \o <<>> = p
    BY <1>3, ConcatEmptySeq
  <2> QED BY <2>1, <2>2 DEF Flat
<1>5. Flat(<<p, q>>) = p \o q
  <2>1. Sent(<<p, q>>, 1) = p /\ Sent(<<p, q>>, 2) = q /\ Sent(<<p, q>>, 3) = <<>>
    BY DEF Sent
  <2>2. q \o <<>> = q
    BY ConcatEmptySeq
  <2> QED BY <2>1, <2>2 DEF Flat
<1>6. Flat(<<p, q, r>>) = p \o (q \o r)
  BY DEF Flat, Sent
<1> QED BY <1>2, <1>4, <1>5, <1>6 DEF W

\* Two parts of a stream.
LEMMA JoinIs ==
  ASSUME NEW S, NEW s \in Seq(S), NEW t \in Seq(S), NEW w \in Seq(S),
         Len(w) = Len(s) + Len(t),
         \A i \in 1..Len(s) : w[i] = s[i],
         \A i \in 1..Len(t) : w[Len(s) + i] = t[i]
  PROVE  s \o t = w
<1>1. Len(s) \in Nat /\ Len(t) \in Nat
  OBVIOUS
<1>2. /\ s \o t \in Seq(S) /\ Len(s \o t) = Len(s) + Len(t)
      /\ \A i \in 1..(Len(s) + Len(t)) :
           (s \o t)[i] = IF i <= Len(s) THEN s[i] ELSE t[i - Len(s)]
  BY ConcatProperties
<1>3. ASSUME NEW i \in 1..(Len(s) + Len(t))
      PROVE  (s \o t)[i] = w[i]
  <2>1. CASE i <= Len(s)
    BY <1>1, <1>2, <2>1
  <2>2. CASE ~(i <= Len(s))
    <3>1. i - Len(s) \in 1..Len(t) /\ Len(s) + (i - Len(s)) = i
      BY <1>1, <2>2
    <3> QED BY <1>2, <2>2, <3>1
  <2> QED BY <2>1, <2>2
<1> QED BY <1>2, <1>3, SeqEqual

\* A call of send in front of two others.
LEMMA JoinedCalls ==
  ASSUME NEW S, NEW p \in S, NEW q \in S, NEW r \in S
  PROVE  <<p>> \o <<q, r>> = <<p, q, r>>
<1>1. <<p>> \in Seq(S) /\ <<q, r>> \in Seq(S) /\ <<p, q, r>> \in Seq(S)
  OBVIOUS
<1>2. PICK s \in Seq(S), t \in Seq(S), w \in Seq(S) :
        s = <<p>> /\ t = <<q, r>> /\ w = <<p, q, r>>
  BY <1>1
<1>3. /\ Len(s) = 1 /\ s[1] = p
      /\ Len(t) = 2 /\ t[1] = q /\ t[2] = r
      /\ Len(w) = 3 /\ w[1] = p /\ w[2] = q /\ w[3] = r
  BY <1>2
<1>4. /\ Len(w) = Len(s) + Len(t)
      /\ \A i \in 1..Len(s) : w[i] = s[i]
      /\ \A i \in 1..Len(t) : w[Len(s) + i] = t[i]
  BY <1>3
<1>5. s \o t = w
  BY <1>4, JoinIs
<1> QED BY <1>2, <1>5

\* Pieces sent one after the other.
LEMMA Joined ==
  ASSUME NEW a \in Piece, NEW b \in Piece, NEW d \in Piece
  PROVE  /\ <<a>> \o <<d>> = <<a, d>>
         /\ <<a, b>> \o <<d>> = <<a, b, d>>
         /\ <<"text", "crlf", "nul">> \o <<"text", "nl", "crlf">>
              = <<"text", "crlf", "nul", "text", "nl", "crlf">>
<1>1. <<a>> \o <<d>> = <<a, d>>
  <2>1. <<a>> \in Seq(Piece) /\ <<d>> \in Seq(Piece) /\ <<a, d>> \in Seq(Piece)
    OBVIOUS
  <2>2. PICK s \in Seq(Piece), t \in Seq(Piece), w \in Seq(Piece) :
          s = <<a>> /\ t = <<d>> /\ w = <<a, d>>
    BY <2>1
  <2>3. /\ Len(s) = 1 /\ s[1] = a
        /\ Len(t) = 1 /\ t[1] = d
        /\ Len(w) = 2 /\ w[1] = a /\ w[2] = d
    BY <2>2
  <2>4. /\ Len(w) = Len(s) + Len(t)
        /\ \A i \in 1..Len(s) : w[i] = s[i]
        /\ \A i \in 1..Len(t) : w[Len(s) + i] = t[i]
    BY <2>3
  <2>5. s \o t = w
    BY <2>4, JoinIs
  <2> QED BY <2>2, <2>5
<1>2. <<a, b>> \o <<d>> = <<a, b, d>>
  <2>1. <<a, b>> \in Seq(Piece) /\ <<d>> \in Seq(Piece) /\ <<a, b, d>> \in Seq(Piece)
    OBVIOUS
  <2>2. PICK s \in Seq(Piece), t \in Seq(Piece), w \in Seq(Piece) :
          s = <<a, b>> /\ t = <<d>> /\ w = <<a, b, d>>
    BY <2>1
  <2>3. /\ Len(s) = 2 /\ s[1] = a /\ s[2] = b
        /\ Len(t) = 1 /\ t[1] = d
        /\ Len(w) = 3 /\ w[1] = a /\ w[2] = b /\ w[3] = d
    BY <2>2
  <2>4. /\ Len(w) = Len(s) + Len(t)
        /\ \A i \in 1..Len(s) : w[i] = s[i]
        /\ \A i \in 1..Len(t) : w[Len(s) + i] = t[i]
    BY <2>3
  <2>5. s \o t = w
    BY <2>4, JoinIs
  <2> QED BY <2>2, <2>5
<1>3. <<"text", "crlf", "nul">> \o <<"text", "nl", "crlf">> = <<"text", "crlf", "nul", "text", "nl", "crlf">>
  <2>1. <<"text", "crlf", "nul">> \in Seq(Piece) /\ <<"text", "nl", "crlf">> \in Seq(Piece) /\ <<"text", "crlf", "nul", "text", "nl", "crlf">> \in Seq(Piece)
    BY DEF Piece
  <2>2. PICK s \in Seq(Piece), t \in Seq(Piece), w \in Seq(Piece) :
          s = <<"text", "crlf", "nul">> /\ t = <<"text", "nl", "crlf">> /\ w = <<"text", "crlf", "nul", "text", "nl", "crlf">>
    BY <2>1
  <2>3. /\ Len(s) = 3 /\ s[1] = "text" /\ s[2] = "crlf" /\ s[3] = "nul"
        /\ Len(t) = 3 /\ t[1] = "text" /\ t[2] = "nl" /\ t[3] = "crlf"
        /\ Len(w) = 6 /\ w[1] = "text" /\ w[2] = "crlf" /\ w[3] = "nul" /\ w[4] = "text" /\ w[5] = "nl" /\ w[6] = "crlf"
    BY <2>2
  <2>4. /\ Len(w) = Len(s) + Len(t)
        /\ \A i \in 1..Len(s) : w[i] = s[i]
        /\ \A i \in 1..Len(t) : w[Len(s) + i] = t[i]
    BY <2>3
  <2>5. s \o t = w
    BY <2>4, JoinIs
  <2> QED BY <2>2, <2>5
<1> QED BY <1>1, <1>2, <1>3

\* A reply, when it is made, is what the client waits for.
LEMMA ReplyIsRest ==
  ASSUME PlainInfo, NEW c \in Clients, NEW cmd \in Commands \ {"EMPTY", "QUIT"},
         NEW r \in Reply(c, cmd)
  PROVE  /\ r \in Seq(Seq(Piece) \ {<<>>}) /\ Len(r) <= 3 /\ r # <<>>
         /\ Flat(r) \in Rests(ReplyOf(cmd))
         /\ ReplyOf(cmd) \in {"lines", "line"}
<1>1. ReplyOf(cmd) = IF cmd \in {"INFO", "LIST"} THEN "lines" ELSE "line"
  BY DEF ReplyOf
<1> DEFINE tx == <<"text">>  cr == <<"crlf">>  tc == <<"text", "crlf">>
           tn == <<"text", "nl">>
<1>2. /\ tx \in Seq(Piece) /\ cr \in Seq(Piece) /\ tc \in Seq(Piece) /\ tn \in Seq(Piece)
      /\ tx # <<>> /\ cr # <<>> /\ tc # <<>> /\ tn # <<>>
  BY DEF Piece
<1>3. /\ tx \o cr = <<"text", "crlf">>
      /\ tc \o cr = <<"text", "crlf", "crlf">>
      /\ tn \o cr = <<"text", "nl", "crlf">>
  BY Joined DEF Piece
<1>4. /\ cr \in Rests("lines") /\ tc \in Rests("lines")
      /\ tc \o cr \in Rests("lines") /\ tn \o cr \in Rests("lines")
      /\ cr \in Rests("line") /\ tc \in Rests("line")
      /\ tx \o cr \in Rests("line") /\ tx \o cr \in Rests("lines")
  BY <1>3 DEF Rests
<1> HIDE DEF tx, cr, tc, tn
<1>5. ASSUME NEW p \in {tx, cr, tc, tn}
      PROVE  /\ <<p>> \in Seq(Seq(Piece) \ {<<>>})
             /\ Len(<<p>>) <= 3 /\ <<p>> # <<>> /\ Flat(<<p>>) = p
             /\ <<p, cr>> \in Seq(Seq(Piece) \ {<<>>})
             /\ Len(<<p, cr>>) <= 3 /\ <<p, cr>> # <<>> /\ Flat(<<p, cr>>) = p \o cr
  <2>1. p \in Seq(Piece) /\ p # <<>> /\ cr \in Seq(Piece) /\ cr # <<>>
    BY <1>2
  <2>2. /\ <<p>> \in Seq(Seq(Piece) \ {<<>>}) /\ Len(<<p>>) = 1
        /\ <<p, cr>> \in Seq(Seq(Piece) \ {<<>>}) /\ Len(<<p, cr>>) = 2
        /\ Flat(<<p>>) = p /\ Flat(<<p, cr>>) = p \o cr
    BY <2>1, Sends
  <2>3. <<p>> # <<>> /\ <<p, cr>> # <<>>
    OBVIOUS
  <2>4. 1 <= 3 /\ 2 <= 3
    OBVIOUS
  <2> QED BY <2>2, <2>3, <2>4
<1>6. CASE cmd = "ECHO"
  <2>1. r = <<tx, cr>> \/ r = <<cr>>
    BY <1>6 DEF Reply, tx, cr, tc
  <2> QED BY <1>1, <1>5, <1>4, <1>6, <2>1
<1>7. CASE cmd = "INFO"
  <2>1. info = tn /\ info # <<>>
    BY DEF PlainInfo, tn
  <2>2. r = <<tn, cr>>
    BY <1>7, <2>1 DEF Reply, InfoReply, cr
  <2> QED BY <1>1, <1>5, <1>4, <1>7, <2>2
<1>8. CASE cmd = "CD"
  <2>1. r = <<cr>>
    BY <1>8 DEF Reply, tx, cr, tc
  <2> QED BY <1>1, <1>5, <1>4, <1>8, <2>1
<1>9. CASE cmd = "LIST"
  <2>1. r = <<tc, cr>> \/ r = <<tx, cr>>
    BY <1>9 DEF Reply, tx, cr, tc
  <2> QED BY <1>1, <1>5, <1>4, <1>9, <2>1
<1>10. CASE cmd = "OTHER"
  <2>1. r = <<tc>>
    BY <1>10 DEF Reply, UnknownReply, tc
  <2> QED BY <1>1, <1>5, <1>4, <1>10, <2>1
<1> QED BY <1>6, <1>7, <1>8, <1>9, <1>10 DEF Commands

\* recv gets a command
LEMMA RecvSync ==
  ASSUME PlainInfo, NEW c \in Clients, PerClient, ClientSync(c), Recv(c)
  PROVE  ClientSync(c)'
<1>1. /\ alive /\ spc[c] = "recv" /\ up[c] # <<>> /\ ~ServerClosed(c)
      /\ up' = [up EXCEPT ![c] = <<>>]
      /\ UNCHANGED <<alive, cpc, asked, buf, broken, net, peer>>
  BY DEF Recv, client, ServerClosed
<1>2. up'[c] = <<>>
  BY <1>1 DEF PerClient, IsPerClient
<1>3. ASSUME NEW cmd, up[c] = <<cmd>>, cmd # "EMPTY"
      PROVE  /\ \E r \in Reply(c, cmd) : todo'[c] = r
             /\ spc'[c] = IF cmd = "QUIT" THEN "lastsend" ELSE "send"
  <2>1. {i \in 1..Len(up[c]) : up[c][i] # "EMPTY"} = {1}
    BY <1>3
  <2>2. Min({1}) = 1
    BY MinIs
  <2>3. up[c][1] = cmd
    BY <1>3
  <2>4. /\ \E r \in Reply(c, cmd) : todo' = [todo EXCEPT ![c] = r]
        /\ spc' = [spc EXCEPT ![c] = IF cmd = "QUIT" THEN "lastsend" ELSE "send"]
    BY <2>1, <2>2, <2>3 DEF Recv
  <2> QED BY <2>4 DEF PerClient, IsPerClient
<1>4. CASE cpc[c] = "away"
  BY <1>1, <1>4 DEF ClientSync
<1>5. CASE Left(c)
  <2>1. up[c] = <<"QUIT">>
    BY <1>1, <1>5 DEF Left
  <2>2. spc'[c] = "lastsend" /\ todo'[c] = ByeReply
    BY <1>3, <2>1 DEF Reply
  <2>3. Left(c)'
    BY <1>1, <1>5, <2>2 DEF Left, ByeReply
  <2> QED BY <2>3 DEF ClientSync
<1>6. CASE Synced(c)
  <2>1. /\ ~broken[c] /\ peer[c] = "open" /\ Silent(c)
        /\ asked[c] \in Commands /\ up[c] = <<asked[c]>>
        /\ cpc[c] = ReplyOf(asked[c])
    BY <1>1, <1>6 DEF Synced, Settled, Replying, Parting
  <2>2. CASE asked[c] = "EMPTY"
    <3>1. {i \in 1..Len(up[c]) : up[c][i] # "EMPTY"} = {}
      BY <2>1, <2>2
    <3>2. UNCHANGED <<spc, todo>>
      BY <3>1 DEF Recv, thread
    <3>3. cpc[c] = "line"
      BY <2>1, <2>2 DEF ReplyOf
    <3>4. /\ <<>> \in Seq(Piece) /\ <<>> \in Seq(Seq(Piece) \ {<<>>})
          /\ Len(<<>>) <= 3
      OBVIOUS
    <3>5. Rest(c)' = <<>>
      <4>1. Sent(<<>>, 1) = <<>> /\ Sent(<<>>, 2) = <<>> /\ Sent(<<>>, 3) = <<>>
        BY DEF Sent
      <4>2. <<>> \o <<>> = <<>>
        OBVIOUS
      <4>3. Flat(<<>>) = <<>>
        BY <4>1, <4>2 DEF Flat
      <4> QED BY <1>1, <2>1, <3>2, <4>2, <4>3 DEF Rest, Silent
    <3>6. <<>> \in Rests("line")
      BY DEF Rests
    <3>7. Replying(c)'
      BY <1>1, <1>2, <2>1, <3>2, <3>3, <3>4, <3>5, <3>6 DEF Replying, Silent
    <3> QED BY <1>1, <2>1, <3>7 DEF ClientSync, Synced
  <2>3. CASE asked[c] = "QUIT"
    <3>1. spc'[c] = "lastsend" /\ todo'[c] = ByeReply
      BY <1>3, <2>1, <2>3 DEF Reply
    <3>2. cpc[c] = "bye"
      BY <2>1, <2>3 DEF ReplyOf
    <3>3. Parting(c)'
      BY <1>1, <1>2, <2>1, <3>1, <3>2 DEF Parting, Silent, ByeReply
    <3> QED BY <1>1, <2>1, <3>3 DEF ClientSync, Synced
  <2>4. CASE asked[c] \notin {"EMPTY", "QUIT"}
    <3>1. PICK r \in Reply(c, asked[c]) : todo'[c] = r
      BY <1>3, <2>1, <2>4
    <3>2. spc'[c] = "send"
      BY <1>3, <2>1, <2>4
    <3>3. /\ r \in Seq(Seq(Piece) \ {<<>>}) /\ Len(r) <= 3 /\ r # <<>>
          /\ Flat(r) \in Rests(cpc[c]) /\ cpc[c] \in {"lines", "line"}
      BY <2>1, <2>4, ReplyIsRest
    <3>4. Flat(r) \in Seq(Piece) /\ <<>> \in Seq(Piece)
      BY <3>3, FlatType
    <3>5. Rest(c)' = Flat(r)
      <4>1. <<>> \o (<<>> \o Flat(r)) = Flat(r)
        BY <3>4, ConcatEmptySeq
      <4> QED BY <1>1, <2>1, <3>1, <4>1 DEF Rest, Silent
    <3>6. Replying(c)'
      BY <1>1, <1>2, <2>1, <3>1, <3>2, <3>3, <3>4, <3>5 DEF Replying, Silent
    <3> QED BY <1>1, <2>1, <3>6 DEF ClientSync, Synced
  <2> QED BY <2>2, <2>3, <2>4
<1> QED BY <1>1, <1>4, <1>5, <1>6 DEF ClientSync

\* A call of send.  It raises SIGPIPE only for a client that left in the middle
\* of a reply.
LEMMA SendSync ==
  ASSUME NEW c \in Clients, PerClient, ClientSync(c), Send(c)
  PROVE  /\ ClientSync(c)'
         /\ ~alive' => cpc[c] = "away"
<1>1. /\ alive /\ spc[c] \in {"send", "lastsend"} /\ ~ServerClosed(c)
      /\ todo' = [todo EXCEPT ![c] = Tail(@)]
      /\ spc' = [spc EXCEPT ![c] = IF Len(todo[c]) > 1 THEN @
                                   ELSE IF @ = "send" THEN "recv" ELSE "ended"]
      /\ UNCHANGED <<cpc, asked, buf, broken, up>>
  BY DEF Send, client, ServerClosed
<1>2. /\ todo'[c] = Tail(todo[c])
      /\ spc'[c] = IF Len(todo[c]) > 1 THEN spc[c]
                   ELSE IF spc[c] = "send" THEN "recv" ELSE "ended"
  BY <1>1 DEF PerClient, IsPerClient
<1>3. CASE cpc[c] = "away"
  BY <1>1, <1>3 DEF ClientSync
<1>4. ASSUME spc[c] = "lastsend", todo[c] = ByeReply
      PROVE  ClientSync(c)'
  <2>1. Len(todo[c]) = 1
    BY <1>4 DEF ByeReply
  <2>2. spc'[c] = "ended"
    BY <1>2, <1>4, <2>1
  <2> QED BY <2>2 DEF ClientSync, ServerClosed
<1>5. CASE Left(c)
  <2>1. alive'
    BY <1>5 DEF Send, Left
  <2> QED BY <1>1, <1>4, <1>5, <2>1 DEF Left
<1>6. CASE Synced(c)
  <2>1. peer[c] = "open" /\ ~broken[c]
    BY <1>6 DEF Synced
  <2>2. /\ net' = [net EXCEPT ![c] = @ \o Head(todo[c])]
        /\ UNCHANGED <<alive, peer>>
    BY <2>1 DEF Send
  <2>3. CASE Parting(c)
    BY <1>1, <1>4, <2>2, <2>3 DEF Parting
  <2>4. CASE Replying(c)
    <3>1. /\ todo[c] \in Seq(Seq(Piece) \ {<<>>}) /\ Len(todo[c]) <= 3
          /\ buf[c] \in Seq(Piece) /\ net[c] \in Seq(Piece)
          /\ spc[c] = "send" /\ todo[c] # <<>>
      BY <1>1, <2>4 DEF Replying
    <3>2. PICK h \in Seq(Piece) : h = Head(todo[c])
      BY <3>1, FlatHead
    <3>3. PICK f \in Seq(Piece) : f = Flat(Tail(todo[c]))
      BY <3>1, FlatHead
    <3>4. /\ Tail(todo[c]) \in Seq(Seq(Piece) \ {<<>>})
          /\ Len(Tail(todo[c])) = Len(todo[c]) - 1
          /\ Flat(todo[c]) = h \o f
      BY <3>1, <3>2, <3>3, FlatHead
    <3>5. net'[c] = net[c] \o h
      BY <2>2, <3>2 DEF PerClient, IsPerClient
    <3>6. net[c] \o h \in Seq(Piece)
      BY <3>1, ConcatProperties
    <3>7. (net[c] \o h) \o f = net[c] \o (h \o f)
      BY <3>1, Assoc
    <3>8. Rest(c)' = Rest(c)
      BY <1>1, <1>2, <3>3, <3>4, <3>5, <3>7 DEF Rest
    <3>9. Len(todo[c]) \in Nat /\ Len(todo[c]) # 0
      BY <3>1
    <3>10. spc'[c] = IF todo'[c] = <<>> THEN "recv" ELSE "send"
      <4>1. PICK t \in Seq(Seq(Piece) \ {<<>>}) : t = Tail(todo[c])
        BY <3>4
      <4>2. t = <<>> <=> Len(t) = 0
        OBVIOUS
      <4>3. Len(t) = 0 <=> ~(Len(todo[c]) > 1)
        <5>1. PICK n \in Nat : n = Len(todo[c]) /\ n # 0 /\ Len(t) = n - 1
          BY <3>4, <3>9, <4>1
        <5>2. \A m \in Nat : m # 0 => (m - 1 = 0 <=> ~(m > 1))
          OBVIOUS
        <5> QED BY <5>1, <5>2
      <4> QED BY <1>2, <3>1, <4>1, <4>2, <4>3
    <3>11. Len(Tail(todo[c])) <= 3
      BY <3>1, <3>4, <3>9
    <3>12. Replying(c)'
      BY <1>1, <1>2, <2>4, <3>4, <3>5, <3>6, <3>8, <3>10, <3>11 DEF Replying
    <3> QED BY <1>1, <2>1, <2>2, <3>12 DEF ClientSync, Synced
  <2> QED BY <1>1, <1>6, <2>3, <2>4 DEF Synced, Settled
<1> QED BY <1>1, <1>3, <1>5, <1>6 DEF ClientSync

\* recv finds the end
LEMMA RecvEndSync ==
  ASSUME NEW c \in Clients, PerClient, RecvEnd(c)
  PROVE  ClientSync(c)'
<1>1. spc'[c] = "ended"
  BY DEF RecvEnd, PerClient, IsPerClient
<1> QED BY <1>1 DEF ClientSync, ServerClosed

\* accept and pthread_create, for a client that waits for its greeting
LEMMA ThreadSync ==
  ASSUME NEW c \in Clients, PerClient, ClientSync(c), Accept(c) \/ Create(c)
  PROVE  ClientSync(c)'
<1>1. /\ (spc[c] \in {"none", "accepted"} /\ cpc[c] # "off") \/ spc[c] = "accepted"
      /\ spc'[c] \in {"accepted", "start", "ended"}
      /\ UNCHANGED <<alive, cpc, asked, buf, broken, net, up, peer, todo>>
  BY DEF Accept, Create, client, PerClient, IsPerClient
<1>2. CASE spc'[c] = "ended" \/ ~alive \/ cpc[c] = "away"
  BY <1>1, <1>2 DEF ClientSync, ServerClosed
<1>3. CASE spc'[c] # "ended" /\ alive /\ cpc[c] # "away"
  <2>1. /\ Settled(c) /\ cpc[c] = "greeting" /\ ~broken[c] /\ peer[c] = "open"
        /\ up[c] = <<>>
    BY <1>1, <1>3 DEF ClientSync, ServerClosed, Left, Synced, Settled, Replying, Parting
  <2>2. Settled(c)'
    BY <1>1, <1>3, <2>1 DEF Settled, Silent
  <2> QED BY <1>1, <2>1, <2>2 DEF ClientSync, Synced
<1> QED BY <1>2, <1>3

\* The thread begins, and has the greeting to send.
LEMMA StartSync ==
  ASSUME PlainInfo, NEW c \in Clients, PerClient, ClientSync(c), Start(c)
  PROVE  ClientSync(c)'
<1>1. /\ alive /\ spc[c] = "start" /\ ~ServerClosed(c)
      /\ UNCHANGED <<alive, cpc, asked, buf, broken, net, up, peer>>
  BY DEF Start, client, ServerClosed
<1>2. CASE cpc[c] = "away"
  BY <1>1, <1>2 DEF ClientSync
<1>3. CASE cpc[c] # "away"
  <2>1. /\ Silent(c) /\ cpc[c] = "greeting" /\ ~broken[c] /\ peer[c] = "open"
        /\ up[c] = <<>>
    BY <1>1, <1>3 DEF ClientSync, Left, Synced, Settled, Replying, Parting
  <2>2. CASE cell[arg[c]] # c
    <3>1. spc'[c] = "lost" /\ UNCHANGED todo
      BY <2>2 DEF Start, PerClient, IsPerClient
    <3>2. Settled(c)'
      BY <1>1, <2>1, <3>1 DEF Settled, Silent
    <3> QED BY <1>1, <2>1, <3>2 DEF ClientSync, Synced
  <2>3. CASE cell[arg[c]] = c
    <3>1. spc'[c] = "send" /\ todo'[c] = Greeting
      BY <2>3 DEF Start, PerClient, IsPerClient
    <3> DEFINE p == <<"text", "crlf", "nul">>  q == <<"text", "nl">>
               r == <<"crlf">>
    <3>2. /\ p \in Seq(Piece) /\ q \in Seq(Piece) /\ r \in Seq(Piece)
          /\ p # <<>> /\ q # <<>> /\ r # <<>>
      BY DEF Piece
    <3>3. info = q /\ info # <<>>
      BY DEF PlainInfo
    <3>4. p \o (q \o r) = <<"text", "crlf", "nul", "text", "nl", "crlf">>
      <4>1. q \o r = <<"text", "nl", "crlf">>
        BY Joined DEF Piece
      <4>2. p \o <<"text", "nl", "crlf">>
              = <<"text", "crlf", "nul", "text", "nl", "crlf">>
        BY Joined DEF Piece
      <4> QED BY <4>1, <4>2
    <3>5. p \o (q \o r) \in Rests("greeting")
      BY <3>4 DEF Rests
    <3> HIDE DEF p, q, r
    <3>6. Greeting = <<p>> \o <<q, r>>
      BY <3>3 DEF Greeting, InfoReply, p, r
    <3>7. Greeting = <<p, q, r>>
      BY <3>2, <3>6, JoinedCalls
    <3>8. /\ Greeting \in Seq(Seq(Piece) \ {<<>>}) /\ Len(Greeting) = 3
          /\ Flat(Greeting) = p \o (q \o r)
      <4>1. /\ <<p, q, r>> \in Seq(Seq(Piece) \ {<<>>}) /\ Len(<<p, q, r>>) = 3
            /\ Flat(<<p, q, r>>) = p \o (q \o r)
        BY <3>2, Sends
      <4> QED BY <3>7, <4>1
    <3>9. Greeting # <<>> /\ Len(Greeting) <= 3
      <4>1. <<p, q, r>> # <<>> /\ 3 <= 3
        OBVIOUS
      <4> QED BY <3>7, <3>8, <4>1
    <3>10. Flat(Greeting) \in Seq(Piece) /\ <<>> \in Seq(Piece)
      <4>1. PICK g \in Seq(Seq(Piece) \ {<<>>}) : g = Greeting /\ Len(g) <= 3
        BY <3>8, <3>9
      <4>2. Flat(g) \in Seq(Piece)
        BY <4>1, FlatType
      <4> QED BY <4>1, <4>2, EmptySeq
    <3>11. <<>> \o (<<>> \o Flat(Greeting)) = Flat(Greeting)
      BY <3>10, ConcatEmptySeq
    <3>12. Rest(c)' \in Rests("greeting")
      BY <1>1, <2>1, <3>1, <3>5, <3>8, <3>11 DEF Rest, Silent
    <3>13. Replying(c)'
      BY <1>1, <2>1, <3>1, <3>8, <3>9, <3>10, <3>12 DEF Replying, Silent
    <3> QED BY <1>1, <2>1, <3>13 DEF ClientSync, Synced
  <2> QED BY <2>2, <2>3
<1> QED BY <1>2, <1>3

-----------------------------------------------------------------------------
(***************************************************************************)
(* All clients.                                                             *)
(***************************************************************************)

\* A step about one client leaves the others alone, keeps the configuration,
\* and a client that was interrupted stays away.
LEMMA StepsApart ==
  ASSUME PerClient, NEW c \in Clients,
         ClientStep(c) \/ UserStep(c) \/ ThreadStep(c) \/ Accept(c) \/ Create(c)
  PROVE  /\ PerClient' /\ UNCHANGED <<info, sigint>>
         /\ \A k \in Clients : k # c => Same(k)
         /\ cpc[c] = "away" => cpc'[c] = "away"
         /\ Send(c) \/ UNCHANGED alive
<1> USE DEF PerClient, IsPerClient, Same, listVars
<1>1. CASE Connect(c) /\ UNCHANGED listVars
  BY <1>1 DEF Connect, config, thread
<1>2. CASE Refill(c) /\ UNCHANGED listVars
  BY <1>2 DEF Refill, config, thread
<1>3. CASE ReadLine(c) /\ UNCHANGED listVars
  BY <1>3 DEF ReadLine, Leave, config, thread, Waiting
<1>4. CASE ReadFails(c) /\ UNCHANGED listVars
  BY <1>4 DEF ReadFails, config, thread, Waiting
<1>5. ASSUME NEW cmd \in Commands, Type(c, cmd), UNCHANGED listVars
      PROVE  /\ PerClient' /\ UNCHANGED <<info, sigint>>
             /\ \A k \in Clients : k # c => Same(k)
             /\ cpc[c] = "away" => cpc'[c] = "away"
             /\ UNCHANGED alive
  BY <1>5 DEF Type, Write, Leave, config, thread
<1>6. CASE Script(c) /\ UNCHANGED listVars
  BY <1>6 DEF Script, config, thread
<1>7. CASE EndOfInput(c) /\ UNCHANGED listVars
  BY <1>7 DEF EndOfInput, Leave, config, thread
<1>8. CASE Interrupt(c) /\ UNCHANGED listVars
  BY <1>8 DEF Interrupt, Write, Leave, config, thread, Waiting
<1>9. CASE Recv(c) /\ UNCHANGED listVars
  BY <1>9 DEF Recv, config, client, thread
<1>10. CASE Send(c) /\ UNCHANGED listVars
  BY <1>10 DEF Send, config, client
<1>11. CASE RecvEnd(c) /\ UNCHANGED listVars
  BY <1>11 DEF RecvEnd, config, client
<1>12. CASE Start(c)
  BY <1>12 DEF Start, config, client
<1>13. CASE Accept(c)
  BY <1>13 DEF Accept, config, client
<1>14. CASE Create(c)
  BY <1>14 DEF Create, config, client
<1> QED BY <1>1, <1>2, <1>3, <1>4, <1>5, <1>6, <1>7, <1>8, <1>9, <1>10, <1>11,
           <1>12, <1>13, <1>14
        DEF ClientStep, UserStep, ThreadStep, Reads, Uses, Serves

\* The client that a step is about stays in step.
LEMMA OwnStep ==
  ASSUME PlainInfo, PerClient, NEW c \in Clients, ClientSync(c),
         ClientStep(c) \/ UserStep(c) \/ ThreadStep(c) \/ Accept(c) \/ Create(c)
  PROVE  ClientSync(c)'
<1>1. CASE Script(c)
  <2>1. Same(c) /\ UNCHANGED alive
    BY <1>1 DEF Script, Same, thread
  <2> QED BY <2>1, SameKeeps
<1> QED BY <1>1, ConnectSync, RefillSync, ReadLineSync, ReadFailsSync, TypeSync,
           LeaveSync, RecvSync, SendSync, RecvEndSync, ThreadSync, StartSync
        DEF ClientStep, UserStep, ThreadStep, Reads, Uses, Serves

\* Every step about a client
LEMMA ClientKeepsSync ==
  ASSUME SyncInv, NEW c \in Clients,
         ClientStep(c) \/ UserStep(c) \/ ThreadStep(c) \/ Accept(c) \/ Create(c)
  PROVE  SyncInv'
<1>1. /\ PerClient' /\ UNCHANGED <<info, sigint>>
      /\ \A k \in Clients : k # c => Same(k)
      /\ cpc[c] = "away" => cpc'[c] = "away"
      /\ Send(c) \/ UNCHANGED alive
  BY StepsApart DEF SyncInv
<1>2. ASSUME PlainInfo
      PROVE  AliveInv' /\ \A k \in Clients : ClientSync(k)'
  <2>1. AliveInv /\ \A k \in Clients : ClientSync(k)
    BY <1>2 DEF SyncInv
  <2>2. alive' => alive
    BY <1>1 DEF Send
  <2>3. ClientSync(c)'
    BY <1>2, <2>1, OwnStep DEF SyncInv
  <2>4. ASSUME NEW k \in Clients PROVE ClientSync(k)'
    BY <1>1, <2>1, <2>2, <2>3, SameKeeps
  <2>5. \A k \in Clients : cpc[k] = "away" => cpc'[k] = "away"
    BY <1>1 DEF Same
  <2>6. AliveInv'
    <3>1. CASE UNCHANGED alive
      BY <1>1, <2>1, <2>5, <3>1 DEF AliveInv
    <3>2. CASE Send(c)
      <4>1. ~alive' => cpc[c] = "away"
        BY <2>1, <3>2, SendSync DEF SyncInv
      <4> QED BY <2>5, <4>1 DEF AliveInv
    <3> QED BY <1>1, <3>1, <3>2
  <2> QED BY <2>4, <2>6
<1> QED BY <1>1, <1>2 DEF SyncInv, PlainInfo

\* Main and the handler
LEMMA MainKeepsSync ==
  ASSUME SyncInv, HandlerInv,
         \/ Link \/ Unlock \/ AcceptFails \/ FreePending \/ Exit \/ Sigint
         \/ Done \/ UNCHANGED vars
  PROVE  SyncInv'
<1>1. /\ UNCHANGED <<info, cpc, asked, buf, broken, net, up, peer, todo>>
      /\ (alive' => alive) /\ (sigint => sigint')
  BY DEF Link, Unlock, AcceptFails, FreePending, Exit, Sigint, Done, vars, listVars,
         sessVars, config, client, thread
<1>2. \/ UNCHANGED spc
      \/ spc' = [k \in Clients |-> IF spc[k] = "none" THEN "ended" ELSE spc[k]]
  BY DEF Link, Unlock, AcceptFails, FreePending, Exit, Sigint, Done, vars, sessVars,
         thread
<1>3. UNCHANGED alive \/ sigint'
  BY DEF Link, Unlock, AcceptFails, FreePending, Exit, Sigint, Done, vars, listVars,
         sessVars, HandlerInv
<1>4. PerClient'
  BY <1>1, <1>2 DEF SyncInv, PerClient, IsPerClient
<1>5. ASSUME PlainInfo, NEW k \in Clients
      PROVE  ClientSync(k)'
  <2>1. ClientSync(k)
    BY <1>5 DEF SyncInv
  <2>2. CASE spc'[k] = "ended"
    BY <2>2 DEF ClientSync, ServerClosed
  <2>3. CASE spc'[k] # "ended"
    <3>1. Same(k)
      BY <1>1, <1>2, <2>3 DEF Same
    <3> QED BY <1>1, <2>1, <3>1, SameKeeps
  <2> QED BY <2>2, <2>3
<1>6. ASSUME PlainInfo
      PROVE  AliveInv'
  <2>1. alive \/ sigint \/ \E k \in Clients : cpc[k] = "away"
    BY <1>6 DEF SyncInv, AliveInv
  <2>2. alive' \/ sigint' \/ \E k \in Clients : cpc'[k] = "away"
    BY <1>1, <1>3, <2>1
  <2> QED BY <2>2 DEF AliveInv
<1> QED BY <1>1, <1>4, <1>5, <1>6 DEF SyncInv, PlainInfo

\* The invariant of the connections holds in every state of the server.
LEMMA SyncCorrect == Spec => []SyncInv
<1>1. Init => SyncInv
  <2> SUFFICES ASSUME Init PROVE SyncInv
    OBVIOUS
  <2>1. PerClient
    BY DEF Init, SessInit, PerClient, IsPerClient
  <2>2. ASSUME NEW c \in Clients PROVE ClientSync(c)
    BY DEF Init, SessInit, ClientSync, Synced, Settled, Silent
  <2> QED BY <2>1, <2>2 DEF Init, SessInit, SyncInv, AliveInv
<1>2. SyncInv /\ IndInv /\ [Next]_vars => SyncInv'
  BY ClientKeepsSync, MainKeepsSync DEF IndInv, Next, MainStep
<1> QED BY <1>1, <1>2, SpecInv, PTL DEF Spec

\* For every number of clients and every way their users and the scheduler act:
\* with a plain info.txt a client that shows its prompt on an open connection
\* has read the last reply to its end, and the thread waits for a command
\* (client.c 73-78 and 140-168 against server.c 70-164).
THEOREM InSyncCorrect == Spec => []InSync
<1>1. SyncInv => InSync
  BY AtPrompt DEF SyncInv, InSync, Silent
<1> QED BY <1>1, SyncCorrect, PTL

\* For every number of clients: with a plain info.txt the server ends without a
\* SIGINT only if a client was interrupted while it waited for a reply
\* (server.c 70-158, client.c 15-24).
THEOREM DeathCorrect == Spec => []DiesOnly
<1>1. SyncInv => DiesOnly
  BY DEF SyncInv, AliveInv, DiesOnly
<1> QED BY <1>1, SyncCorrect, PTL

=============================================================================
