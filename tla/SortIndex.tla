------------------------------ MODULE SortIndex ------------------------------
(***************************************************************************)
(* lab06/src/sort_index.c: the index file is mapped into memory chunk by    *)
(* chunk, and `threads` threads (the main thread is number 0) sort a chunk  *)
(* together: first its blocks one by one, then, round after round, they     *)
(* merge neighbouring runs in pairs until one run is left.  A barrier of    *)
(* all threads separates the phases.  Blocks and pairs are handed out by    *)
(* two maps under a mutex; besides, every thread starts with the block, and *)
(* in each round with the pair, of its own number.                          *)
(*                                                                          *)
(* A record is its rank in the order of cmp_index_s, a natural number; the  *)
(* records of a file differ in recno, so no two are equal.  qsort is one    *)
(* step, as no block is sorted by two threads (BlocksSortedOnce).  do_merge *)
(* goes record by record, for a pair can be merged by two threads at once.  *)
(***************************************************************************)
EXTENDS Integers, Sequences, FiniteSets

CONSTANTS NumThreads,  \* argument threads
          Blocks,      \* argument blocks
          Per,         \* records of a block
          Inputs,      \* chunks the file may hold
          NumChunks    \* bound: chunks of the file

Threads == 0..(NumThreads - 1)
Size    == Blocks * Per              \* records of a chunk

\* The checks of main's arguments (Blocks is a power of two: no odd number but
\* 1 divides it), and whole chunks of different records.
ASSUME SortIndexAssumption ==
  /\ NumThreads \in Nat \ {0} /\ Per \in Nat \ {0} /\ NumChunks \in Nat
  /\ Blocks \in Nat \ {0}
  /\ \A d \in 1..Blocks : Blocks % d = 0 /\ d % 2 = 1 => d = 1
  /\ Blocks >= 4 * NumThreads
  /\ \A f \in Inputs :
       /\ f \in [0..(Size - 1) -> Nat]
       /\ \A i, j \in 0..(Size - 1) : f[i] = f[j] => i = j

VARIABLES
  chunk,      \* chunks sorted so far
  base,       \* the mapped chunk
  blockMap,   \* blocks taken for sorting
  mergeMap,   \* pairs taken for merging in this round
  at,         \* where a thread is; "off" between two chunks
  width,      \* 1 << s for its local variable s: the blocks of a run
  part,       \* the block or the pair it works on
  tmp, l,     \* do_merge's local variables (r is Len(tmp) - l)
  written,    \* how far its memcpy is
  input,      \* history: the chunk as it was mapped
  sorts,      \* history: how often a block was sorted
  raced       \* history: a record was read while another thread's memcpy
              \* wrote the same pair

shared   == <<chunk, base, blockMap, mergeMap>>
locals   == <<at, width, part, tmp, l, written>>
history  == <<input, sorts, raced>>
sortVars == <<shared, locals, history>>

SortInit ==
  /\ chunk = 0
  /\ base \in Inputs
  /\ blockMap = {} /\ mergeMap = {}
  /\ at = [t \in Threads |-> "off"]
  /\ width = [t \in Threads |-> 1]
  /\ part = [t \in Threads |-> 0]
  /\ tmp = [t \in Threads |-> <<>>]
  /\ l = [t \in Threads |-> 0]
  /\ written = [t \in Threads |-> 0]
  /\ input = base
  /\ sorts = [b \in 0..(Blocks - 1) |-> 0]
  /\ raced = FALSE

\* The pairs and the length of a run in the round with runs of w blocks; the
\* last round is over when one run has all the blocks.
NumPairs(w) == Blocks \div (2 * w)
Span(w)     == w * Per

JumpTo(t, lab) == at' = [at EXCEPT ![t] = lab]

-----------------------------------------------------------------------------
(***************************************************************************)
(* main: map the next chunk and start the threads; when all have ended,     *)
(* write the chunk back and unmap it.                                       *)
(***************************************************************************)
MapChunk ==
  /\ \A t \in Threads : at[t] = "off"
  /\ chunk < NumChunks
  /\ base' \in Inputs
  /\ input' = base'
  /\ blockMap' = Threads
  /\ mergeMap' = {}
  /\ at' = [t \in Threads |-> "sync1"]
  /\ sorts' = [b \in 0..(Blocks - 1) |-> 0]
  /\ raced' = FALSE
  /\ UNCHANGED <<chunk, width, part, tmp, l, written>>

UnmapChunk ==
  /\ \A t \in Threads : at[t] = "end"
  /\ chunk' = chunk + 1
  /\ at' = [t \in Threads |-> "off"]
  /\ width' = [t \in Threads |-> 1]
  /\ part' = [t \in Threads |-> 0]
  /\ UNCHANGED <<base, blockMap, mergeMap, tmp, l, written, history>>

\* The whole file is sorted: the program has ended.
Terminated == /\ chunk = NumChunks
              /\ \A t \in Threads : at[t] = "off"
              /\ UNCHANGED sortVars

\* What follows each pthread_barrier_wait.
Behind == [sync1 |-> "qsort", sync2 |-> "round", sync3 |-> "own",
           sync4 |-> "next"]

\* pthread_barrier_wait: when the last of the threads has arrived, at whichever
\* of the calls, all of them go on.
Barrier ==
  /\ \A t \in Threads : at[t] \in DOMAIN Behind
  /\ at' = [t \in Threads |-> Behind[at[t]]]
  /\ UNCHANGED <<shared, width, part, tmp, l, written, history>>

-----------------------------------------------------------------------------
(***************************************************************************)
(* The sorting phase.                                                       *)
(***************************************************************************)

\* f with the n records from lo on in order.
Sorted(f, lo, n) ==
  LET segment == {f[i] : i \in lo..(lo + n - 1)}
  IN  [i \in DOMAIN f |->
         IF i \in lo..(lo + n - 1)
           THEN CHOOSE k \in segment :
                  Cardinality({x \in segment : x < k}) = i - lo
           ELSE f[i]]

QsortBlock(t, b) ==
  /\ base' = Sorted(base, Per * b, Per)
  /\ sorts' = [sorts EXCEPT ![b] = @ + 1]
  /\ JumpTo(t, "take")

\* qsort of the block with the thread's own number, marked by main
SortOwn(t) ==
  /\ at[t] = "qsort"
  /\ QsortBlock(t, t)
  /\ UNCHANGED <<chunk, blockMap, mergeMap, width, part, tmp, l, written,
                 input, raced>>

\* The lowest unmarked number below n, or n.
NextFree(map, n) ==
  CHOOSE i \in 0..n :
    (i = n \/ i \notin map) /\ \A j \in 0..(i - 1) : j \in map

\* Mutant of TakeBlock: the block is not marked.
TakeBlockUnmarked(t) ==
  /\ at[t] = "take"
  /\ LET b == NextFree(blockMap, Blocks)
     IN  /\ part' = [part EXCEPT ![t] = b]
         /\ JumpTo(t, IF b < Blocks THEN "sort" ELSE "sync2")
  /\ UNCHANGED <<shared, width, tmp, l, written, history>>

\* Under the mutex: mark the next block, or find that none is left.
TakeBlock(t) ==
  /\ at[t] = "take"
  /\ LET b == NextFree(blockMap, Blocks)
     IN  \/ /\ b < Blocks
            /\ blockMap' = blockMap \cup {b}
            /\ part' = [part EXCEPT ![t] = b]
            /\ JumpTo(t, "sort")
         \/ /\ b = Blocks
            /\ JumpTo(t, "sync2")
            /\ UNCHANGED <<blockMap, part>>
  /\ UNCHANGED <<chunk, base, mergeMap, width, tmp, l, written, history>>

SortTaken(t) ==
  /\ at[t] = "sort"
  /\ QsortBlock(t, part[t])
  /\ UNCHANGED <<chunk, blockMap, mergeMap, width, part, tmp, l, written,
                 input, raced>>

-----------------------------------------------------------------------------
(***************************************************************************)
(* The merging phase.                                                       *)
(***************************************************************************)

\* The head of the loop over the rounds: thread 0 clears the map.
Round(t) ==
  /\ at[t] = "round"
  /\ \/ /\ width[t] = Blocks
        /\ JumpTo(t, "end")
        /\ UNCHANGED mergeMap
     \/ /\ width[t] < Blocks
        /\ mergeMap' = IF t = 0 THEN {} ELSE mergeMap
        /\ JumpTo(t, "sync3")
  /\ UNCHANGED <<chunk, base, blockMap, width, part, tmp, l, written, history>>

\* do_merge(idx, span, base) begins.
StartMerge(t, idx) ==
  /\ part' = [part EXCEPT ![t] = idx]
  /\ JumpTo(t, "merge")

\* The pair with the thread's own number, which the map does not know of.
MergeOwn(t) ==
  /\ at[t] = "own"
  /\ \/ t < NumPairs(width[t]) /\ StartMerge(t, t)
     \/ t >= NumPairs(width[t]) /\ JumpTo(t, "pick") /\ UNCHANGED part
  /\ UNCHANGED <<shared, width, tmp, l, written, history>>

\* Mutant of TakePair: the pair is not marked.
TakePairUnmarked(t) ==
  /\ at[t] = "pick"
  /\ LET j == NextFree(mergeMap, NumPairs(width[t]))
     IN  \/ j < NumPairs(width[t]) /\ StartMerge(t, j)
         \/ j = NumPairs(width[t]) /\ JumpTo(t, "sync4") /\ UNCHANGED part
  /\ UNCHANGED <<shared, width, tmp, l, written, history>>

\* Mutant of TakePair: a round ends without a barrier.
TakePairNoBarrier(t) ==
  /\ at[t] = "pick"
  /\ LET j == NextFree(mergeMap, NumPairs(width[t]))
     IN  \/ /\ j < NumPairs(width[t])
            /\ mergeMap' = mergeMap \cup {j}
            /\ StartMerge(t, j)
         \/ /\ j = NumPairs(width[t])
            /\ JumpTo(t, "next")
            /\ UNCHANGED <<mergeMap, part>>
  /\ UNCHANGED <<chunk, base, blockMap, width, tmp, l, written, history>>

\* Under the mutex: mark the next pair, or find that none is left.
TakePair(t) ==
  /\ at[t] = "pick"
  /\ LET j == NextFree(mergeMap, NumPairs(width[t]))
     IN  \/ /\ j < NumPairs(width[t])
            /\ mergeMap' = mergeMap \cup {j}
            /\ StartMerge(t, j)
         \/ /\ j = NumPairs(width[t])
            /\ JumpTo(t, "sync4")
            /\ UNCHANGED <<mergeMap, part>>
  /\ UNCHANGED <<chunk, base, blockMap, width, tmp, l, written, history>>

\* The first record of the pair a thread merges.
Left(t)  == part[t] * 2 * Span(width[t])
Total(t) == 2 * Span(width[t])

\* Another thread is at `lab` in do_merge of records of t's pair.
Meets(t, lab) ==
  \E u \in Threads \ {t} :
    at[u] = lab /\ Left(u) < Left(t) + Total(t) /\ Left(t) < Left(u) + Total(u)

\* do_merge: the smaller of the two heads, or what is left of one run, goes to
\* tmp, until tmp is full.
MergeStep(t) ==
  /\ at[t] = "merge"
  /\ LET span == Span(width[t])
         r    == Len(tmp[t]) - l[t]
         lt   == Left(t) + l[t]
         rt   == Left(t) + span + r
         left == r = span \/ (l[t] < span /\ base[lt] <= base[rt])
     IN  /\ tmp' = [tmp EXCEPT ![t] =
                      Append(@, base[IF left THEN lt ELSE rt])]
         /\ l' = [l EXCEPT ![t] = IF left THEN @ + 1 ELSE @]
  /\ IF Len(tmp[t]) + 1 = Total(t) THEN JumpTo(t, "write") ELSE UNCHANGED at
  /\ raced' = (raced \/ Meets(t, "write"))
  /\ UNCHANGED <<shared, width, part, written, input, sorts>>

\* do_merge: memcpy of tmp over the pair, from its first record on
WriteBack(t) ==
  /\ at[t] = "write"
  /\ base' = [base EXCEPT ![Left(t) + written[t]] = tmp[t][written[t] + 1]]
  /\ IF written[t] + 1 < Total(t)
       THEN /\ written' = [written EXCEPT ![t] = @ + 1]
            /\ UNCHANGED <<at, tmp, l>>
       ELSE /\ written' = [written EXCEPT ![t] = 0]
            /\ tmp' = [tmp EXCEPT ![t] = <<>>]
            /\ l' = [l EXCEPT ![t] = 0]
            /\ JumpTo(t, "pick")
  /\ raced' = (raced \/ Meets(t, "merge"))
  /\ UNCHANGED <<chunk, blockMap, mergeMap, width, part, input, sorts>>

\* The end of the loop's body.
NextRound(t) ==
  /\ at[t] = "next"
  /\ width' = [width EXCEPT ![t] = 2 * @]
  /\ JumpTo(t, "round")
  /\ UNCHANGED <<shared, part, tmp, l, written, history>>

-----------------------------------------------------------------------------
Worker(t) == \/ SortOwn(t) \/ TakeBlock(t) \/ SortTaken(t) \/ Round(t)
             \/ MergeOwn(t) \/ TakePair(t) \/ MergeStep(t) \/ WriteBack(t)
             \/ NextRound(t)

SortNext == \/ MapChunk \/ UnmapChunk \/ Barrier \/ Terminated
            \/ \E t \in Threads : Worker(t)

SortSpec == SortInit /\ [][SortNext]_sortVars

\* No thread waits for input, so the scheduler lets every one go on.
FairSortSpec ==
  /\ SortSpec
  /\ WF_sortVars(MapChunk) /\ WF_sortVars(UnmapChunk) /\ WF_sortVars(Barrier)
  /\ \A t \in Threads : WF_sortVars(Worker(t))

-----------------------------------------------------------------------------
(***************************************************************************)
(* Properties.                                                              *)
(***************************************************************************)
\* The map hands every block to one thread: no block is sorted twice, and when
\* the second barrier opens every block has been sorted (sort_index.c 188-205).
BlocksSortedOnce ==
  \A b \in 0..(Blocks - 1) :
    /\ sorts[b] <= 1
    /\ (\E t \in Threads : at[t] \in {"round", "sync3"}) => sorts[b] = 1

\* Between two rounds the chunk consists of sorted runs, each of them a
\* rearrangement of what was mapped at its place, and after the last round of
\* one run; whichever threads merged which pairs how often.  This holds as long
\* as nobody's memcpy met another thread's reading of the same pair
\* (sort_index.c 209-237, 252-270).
SortedUnlessRaced ==
  ~raced => \A t \in Threads : at[t] \in {"round", "sync3", "end"} =>
    LET n == Span(width[t])
    IN  \A k \in 0..(Size \div n - 1) :
          LET run == Sorted(input, k * n, n)
          IN  \A i \in (k * n)..(k * n + n - 1) : base[i] = run[i]

\* No thread is left alone at a barrier: all chunks get sorted
\* (sort_index.c 186, 205, 218, 235).
Completes == <>(chunk = NumChunks)

=============================================================================
