----------------------------- MODULE BoundedFifo -----------------------------
(***************************************************************************)
(* What a bounded message queue promises its clients: messages come out in  *)
(* the order in which they went in, each one is handed to exactly one taker *)
(* and nobody else can see it while that taker holds it, at most `cap` of   *)
(* them wait at a time, and changing `cap` loses none of them.              *)
(***************************************************************************)
EXTENDS Naturals, Sequences

CONSTANTS Msg,     \* messages (in the code: addresses of Message structures)
          Taker,   \* the clients that take messages out
          NoMsg,   \* "no message in hand"
          Copied   \* TRUE: the queue holds copies, so equal messages may be
                   \* under way at once; FALSE: it holds unique addresses

VARIABLES fifo,   \* the messages waiting, oldest first
          cap,    \* how many may wait
          hand    \* hand[c]: the message taker c is working on

vars == <<fifo, cap, hand>>

Init == /\ fifo = <<>>
        /\ cap \in Nat \ {0}
        /\ hand = [c \in Taker |-> NoMsg]

\* An address enters only if it is neither waiting nor in somebody's hand.
Put(m) == /\ Len(fifo) < cap
          /\ Copied \/ /\ \A i \in 1..Len(fifo) : fifo[i] # m
                       /\ \A c \in Taker : hand[c] # m
          /\ fifo' = Append(fifo, m)
          /\ UNCHANGED <<cap, hand>>

Take(c) == /\ fifo # <<>>
           /\ hand[c] = NoMsg
           /\ hand' = [hand EXCEPT ![c] = Head(fifo)]
           /\ fifo' = Tail(fifo)
           /\ UNCHANGED cap

Release(c) == /\ hand[c] # NoMsg
              /\ hand' = [hand EXCEPT ![c] = NoMsg]
              /\ UNCHANGED <<fifo, cap>>

Resize == /\ cap # 0
          /\ cap' \in Nat \ {0}
          /\ Len(fifo) <= cap'
          /\ UNCHANGED <<fifo, hand>>

\* The end of the queue, when nobody works on a message any more: what still
\* waits is thrown away, and with no capacity left nothing happens after it.
Close == /\ \A c \in Taker : hand[c] = NoMsg
         /\ fifo' = <<>>
         /\ cap' = 0
         /\ UNCHANGED hand

Next == \/ \E m \in Msg : Put(m)
        \/ \E c \in Taker : Take(c) \/ Release(c)
        \/ Resize
        \/ Close

Spec == Init /\ [][Next]_vars

=============================================================================
