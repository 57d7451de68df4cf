# OSiS: a TLA+ verification project

The repository is a collection of operating-system programs in C: eight lab
assignments (`lab01` to `lab08`) and a course work. This directory holds TLA+
models of those in which processes, threads, signals or files interact, the TLC
runs that check them, and proofs checked by TLAPS.

    tlc -workers 2 -config CondQueue.cfg MCCondQueue   # one run
    tlapm CondQueueProofs.tla                          # the proofs of one module

`PROJECT.json` lists every run, the lines of C each definition stands for, the
mutant that each property refutes, the hazards and the findings.

## Inventory

| Component | State | Operations | How it interacts | What makes it correct | Module |
|---|---|---|---|---|---|
| Condition-variable queue, `lab05/src/5.2` | ring of message pointers, capacity, counters, thread tables, `running` | push, pop, resize ±1, create/remove threads, quit, Ctrl-C, destroy | one mutex, two condition variables; `running` shared without the mutex; cancellation | FIFO; one owner per message; no lost wakeup; shutdown ends; destroyed last | `CondQueue` |
| Shared-memory queue, `lab04` | ring in a System V segment, three semaphores, process tables | push, pop, fork, SIGKILL, Ctrl-C, destroy, start again | semop on two semaphores at once; kernel objects outlive the processes | mutex and slots accounted for; FIFO; nobody starves; clean restart | `ShmQueue` |
| Record editor, `lab07` | a file of records, locks on byte ranges | GET, PUT, INIT, Ctrl-C | open-file-description locks between processes | no lost update; no torn read; locks given back | `RecordFile` |
| Trash, `CourseWork` | the file system, `.trash/files`, `.trash/info` | unlink/unlinkat (interposed), restore, purge, purge --all | any program and any number of tools at once, no locks, crashes anywhere | no file lost or doubled; restorable; restored to its origin | `Trash` |
| Supervisor, `lab03` | table of children, signals pending, each child's `can_print` | create, delete, start, stop, delete all, quit; handlers for SIGUSR1, SIGCHLD | signals that are merged and reordered; handlers that interrupt commands | the table lists the children; questions are answered | `Supervisor` |
| Semaphore queue, `lab05/src/5.1` | ring, capacity, two POSIX semaphores, thread tables | as 5.2 | semaphore waits outside and, for `-`, inside the mutex | every slot announced once; FIFO; never NULL; where it can hang | `SemQueue` |
| Parallel sort, `lab06/sort_index.c` | mapped chunk, `block_map`, `merge_map`, round of each thread | local sort, merge rounds | threads, one mutex, one barrier | every block sorted once; rounds leave sorted runs; nobody left at a barrier | `SortIndex` |
| Server and client, `lab08` | streams both ways, `curr_dir`, `info_buf`, `pending_fds` | accept, serve, SIGINT; connect, send a command, read the reply, `@` file, Ctrl-C | threads, a signal handler that locks, byte streams, SIGPIPE | replies belong to their commands; no descriptor freed twice; nobody waits for ever | `Session`, `Server` |
| Browser, `CourseWork/src/cli/browser.c` | mode, directory, cursor, scroll offset | keys, Ctrl-C, SIGWINCH | calls restore, purge and the interposed unlink; other processes change the lists | acts on what the user saw | `Browser` with `Trash` |
| `lab01`, `lab02`, `lab06` gen/view | none of interest | listing, starting a child, file input/output | none | | not modelled |

The hard parts are concurrency (all of them), signals as an unreliable and
reordering channel (`lab03`), processes killed between two steps that belong
together (`lab04`, trash), state that outlives its program (`lab04`), values
read before and used after somebody else could act (`lab05` print, `lab07` PUT,
trash restore, the browser's cursor), and two sides of a stream that have to
agree where a reply ends (`lab08`). `hazards` in `PROJECT.json` gives the line of each.

## Modules

* `Ring` — the index arithmetic of the queues, stated once. `Ordering` — the elements
  of a set in an order, which is how the browser's lists are sorted. `DataTheorems`
  proves what the definitions of both do.
* `BoundedFifo` — what a bounded queue promises: order, one taker per message,
  capacity, nothing lost by a resize. `CasStore` — compare-and-set registers.
  No definition of them models code; they are what the code is compared with.
* `CondQueue` implements `BoundedFifo`.
* `ShmQueue` implements `BoundedFifo` within a start that created its semaphores,
  `SemQueue` always.
* `RecordFile` implements `CasStore` until somebody types INIT.
* `Browser` extends `Trash`: the browser's process is one tool and one program of
  `Trash`, beside the others.
* `Session` is one connection, client and server thread; `Server` extends it with
  main, the pending list and the SIGINT handler.
* `Supervisor`, `SortIndex` — with properties of their own.
* `...Proofs` — the theorems about a module and their proofs (see Proofs below);
  `FileProofs` is about `RecordFile` and `SortIndex`, `TrashProofs` about `Trash` and
  `Browser`.
* `MC*` — one per module, adds the symmetry sets TLC uses. Symmetry is declared
  only for sets of model values that no definition tells apart (messages,
  processes, files when none is a link), and never in a run with liveness.

A property that holds except in one situation names that situation (`fresh`,
`inited`, `raced`, `outrun`, the hang properties below), so that the run shows that
it is the only one; each of them is reachable, and without it the property fails.

Definitions called "Mutant of ..." are faulty variants of the definition that
follows them; no specification uses them. `PROJECT.json` pairs each with the
property that refutes it.

### CondQueue

Threads are the slots of `producers[]` and `consumers[]`; messages are heap
addresses, reused as `malloc` reuses them; `heap` is what is allocated. A critical
section is a step or, where it reads `running` twice, two: `PushEnter`/`PopEnter`
evaluate the loop condition, the step after them (`CondWait`, `PushStore`,
`PushRefused`, ...) acts on it, and the flag may change in between.
`pthread_cond_wait` gives up the mutex and waits in one step; a woken thread
competes for the mutex; wakeups may be spurious. Cancellation is deferred and
disabled inside the queue, so it takes effect in `sleep` and possibly in `printf`:
a consumer cancelled in `printf` leaks its message (`leaked`). Main's steps are
the lock-broadcast-unlock, cancel and join of the removals, the two loops of
`remove_all`, and one step per key. The Makefile's `-std` selects the one-shot
`signal()`, hence `armed`. A SIGINT interrupts a blocked `scanf` but not one that
main has not entered (`MainScan`). `added_count` and `removed_count` wrap at
`CountMod`.

Runs:

* `cond_safety` (1 producer, 2 consumers, 2 addresses, capacities 1-3, 2.3
  million states up to symmetry): two waiters of a kind and two messages are what
  a lost signal needs, and a resize that has to move messages because `head` is
  not 0 needs capacity 3. Push and pop are mirror images, so two waiting
  consumers stand for two waiting producers as well. `RingConsistent`, `OneOwner`, `NoLostWakeup` and
  `DestroyedLast` hold, and the queue implements `BoundedFifo`.
* `cond_live` (2 producers, 1 consumer, capacity 1, counters modulo 2):
  `ShutdownCompletes` holds under weak fairness of each thread and of main. No
  fairness is assumed of the user, of spurious wakeups or of who gets a contended
  mutex. `JoinHangs`: P and C never return only if the thread they join stays in
  push or pop, where `running` is still 1, the condition still holds and
  cancellation is disabled; and that does happen (a producer at a full queue that
  nobody empties). `lab05.pdf` page 3 says the program "гарантирует отсутствие
  гонок и дедлоков". `CountersAgree` is checked with counters that wrap.

After `queue_push` the producer still prints the fields of its message, which a
consumer may have freed by then (`main.c` 41-44). The model keeps that pointer in
`held` but states no property about it, since the code gives no guarantee.

### ShmQueue

Between its two semops a worker is at "body" (before the assignments) or "post"
(after them) and can be killed at either. `SemOp` is atomic and `safe_semop`
hides interruptions. `QueueInit` replaces a stale segment and takes over stale
semaphores, as `queue_init` does; when there are none, `semget` creates a set of zeros
and `SetAll` is the step that gives it values. `SigintAgain` is the second Ctrl-C,
which finds the one-shot handler used up and leaves the kernel objects behind, also
between these two steps; a system call of `queue_init` may fail (`QueueInitFails`);
`Restart` starts over. `stuck` counts the processes that died inside, `blank` records
that the semaphores exist and were never given values: the next start takes over
the zeros, and nobody ever gets in.

Runs:

* `shm_safety` (2+2 workers, 2 slots, 2 starts, 3.1 million states): the mutex and
  every slot are accounted for through kills, double Ctrl-C and restarts, and are
  both 0 as long as the semaphores are `blank`; in a
  start that created its semaphores the ring agrees with them and every step is a
  step of `BoundedFifo`. A SIGKILL between the two semops (`main.c` 182, 191) loses
  the mutex for good; that is `stuck`, and `MutexAccounted` says it is the only
  way to lose it once it was given.
* `shm_starvation` (1 slot, 2+2 workers that contend for it, 2 starts):
  `NobodyStarves`: a worker waits for ever only if somebody died inside, the set is
  `blank`, or the semaphore it waits for stays 0 from some time on, that is, the queue
  stays full or empty. A worker passed over again and again while others of its kind
  get the slot would violate it. Strong fairness of the two waiting semops, because
  the kernel retries the operations that wait in the order of arrival whenever
  the set changes; weak fairness of everything else the processes do.

A start that takes over the semaphores of a killed one has them beside a fresh
ring, and a consumer may then read a slot nobody wrote: `fresh` in the properties
is the condition that this start created its semaphores.

### RecordFile

A client runs one command at a time. A write is two steps, so an unlocked read
can see it half done. `PutEdit` is what `fgets` makes of the user's answers: Enter
empties a text field, the end of the input leaves it alone, and after the end of
the input the semester is whatever the uninitialised buffer holds.

Runs:

* `record` (2 clients, 2 records): until the first INIT (`inited`) every step is a
  step of `CasStore` (`ImplementsCas`); `InitFillsFile`, with INITs that overlap
  each other and PUTs; `LocksReleased`, under weak fairness of the program and
  none of the user, so no lock is kept across a question. Two clients suffice: a
  conflict is between a writer and one other.
INIT takes no lock, so a PUT may write over a record its user has not seen:
hence the condition `inited` of `ImplementsCas`.

Enter at the prompt for the name saves an empty name, although the prompt says
that it skips the field; `PutEdit` does the same.

### Trash

`unlink` is one step up to the name, one for `rename`, one for `fopen` and one for
`fclose` of the metadata; `restore` and `purge` are one step per system call. Each of
these calls may fail, and what the code then does is part of the model: metadata
that are not written are not noticed (`InfoFails`), and `purge` goes on to the metadata
when the file could not be removed (`PurgeFile`). `Exec` ends or kills a program
anywhere; `ToolEnd` does so for a tool. An ID is the second and `rand() % 100000`
(`GenerateUniqueName`); nobody seeds `rand()`, so every process draws the same numbers
(`Rand`), and the numbers of one process repeat (`Modulus` stands for 100000). Every
file has contents of its own, so a duplicate or a loss is visible; `purged`, `unlinked`
and `lost` record the ways in which a file may end. `entries` records the IDs that were
given to files, `repeated` those that were given twice, `unrecorded` the files whose
metadata were not written, or are removed without the file.

Run: `trash_crash` (two programs that draw the same numbers, a link and a regular
file, one tool, two seconds, everybody killed anywhere, 1.8 million states up to
symmetry). `OnePlace`: a file can be replaced (`lost`) by another with the same ID or by
a restore onto an occupied path, and a restored link replaces its target, because
`realpath` resolved it; these, purge and the fallback are the only ways in which a
file ends. `FileHasInfo`: a file in the trash has its metadata unless it is
`unrecorded`, being written, or its ID is in `repeated`. Two processes that delete in the
same second do use the same ID, and so does one that deletes a few hundred files in a
second, although `CourseWork.pdf` page 4 says that files are kept under unique names
("под уникальными именами"); the second file replaces the first, and until its
metadata are written those of the first are read for it. Nothing but `OnePlace` is
claimed of such an ID. `RestoresToOrigin`, which needs two deletions of one program, is
part of the run `browser`.

`TRASH_BASE` is taken to be an absolute path. With the default, ".", each process has
the trash of the directory it is in. And `move_to_trash` leaves files of the trash to
the real `unlink` by comparing their absolute path with the beginning "./.trash", which
never matches: a browser with the library preloaded then moves what it purges into
the trash again. Neither is modelled, and no property of `Trash` or `Browser` says
anything of a relative `TRASH_BASE`.

### Browser

`cmd_browse` reads the directory once for the picture and once more for the key, and
restore and purge read again what they work on; all of these are separate steps
here (`DrawList`, the `Key...` actions, the commands, which are those of `Trash`),
and other processes act in between. `shown` is the last picture; `foreign` and
`outrun` record whether another process changed something since. Ctrl-C ends the
process at any of these points (`OnSigint` calls `_exit`), SIGWINCH drops the next
key. The list of the trash is in the order of `cmp_entry` (`CmpEntry`, by the name in
the metadata), that of a directory in the order of `NameOrder`: `Arranged` of `Ordering`
puts an element where the number of those before it says, which TLC evaluates and a
proof can count.

Run: `browser` (the browser as one program and one tool, another tool, two files,
two seconds, two deletions, one visible line; 955 thousand states up to symmetry and
the view `Seen`, which tells states apart by all but the histories of `Trash` that no
guard and no property of this run reads). The
two numbers that `rand()` yields are the same modulo `Modulus`, so two deletions in a
second give their files one ID. `RestoresToOrigin`: other than that, restore moves a
file to where it was deleted. One line is the smallest window, in which every move scrolls; two entries suffice
for a list that shifts under the cursor. `TakesOnlyWhatWasShown`: r, d and Del take
the entry under the cursor of the last picture, unless somebody interfered.
`CursorAtList`: the browser's own commands leave the cursor at most one line below
the list. That line occurs: restoring the last entry does not move the cursor, and
with one visible line the window is then blank.

Facts met while modelling, about which nothing is claimed: the list of a directory
never scrolls, so the cursor can leave the window; `resizeterm(0, 0)` refuses its
arguments, so the size of the window never changes; Backspace after Enter on ".."
or "." goes to the directory left, though the help says "go up"; the help says "q
or Esc", but Esc does not quit; Del on a directory fails here (the trash is inside
it) but uses up a `rand()`.

### Supervisor

The commands that change the table are cut where the SIGCHLD handler can come in:
after fork, after the entry, and between load and store of `size++` / `size--`.
Signals pending for a process are a set, so a second one of a kind is dropped, and
SIGUSR1 is delivered before SIGUSR2. A size below 0 stands for `SIZE_MAX`, after
which nothing is claimed ("wild").

Run: `supervisor` (2 children that end at any time and talk). `TracksUnlessRaced`:
the table is right as long as SIGCHLD does not come inside a command; if it does,
a child may drop out of the table or its size may wrap. `AskAnswered` holds under
weak fairness of processes and handlers and strong fairness of asking when the
parent has no question pending: a child repeats its question every second and is
silent for six turns after an answer. Two children are enough for questions that
collide and for a gap in the table to close; `SupervisorProofs` covers larger tables.
Nothing is claimed of StopChild: its SIGUSR1 is delivered before an earlier
SIGUSR2, and a child that is stopped while it asks sets `can_print` again.

### SemQueue

5.1 is the program of 5.2 with `sem_empty` and `sem_full`. A worker's `sem_wait`, its
critical section and its `sem_post` are steps of their own; main holds the mutex
across a step only in `queue_resize_decrease`. A SIGINT is handled by the main thread:
the kernel delivers a signal of the process to the main thread unless that blocks it,
and main never does. The handler is the one-shot one of `signal()`, without
`SA_RESTART`, so a `sem_wait` of main that it interrupts fails; `queue_resize_decrease`
does not look at the result and shrinks the ring without a slot (`decintr`, `slipped`).
A worker's `sem_wait` is not interrupted, since no handler ever runs in a worker.
`main.c` of 5.1 broadcasts on
`not_full` and `not_empty`, which its `queue.h` does not have (the Makefile builds
only 5.2); the model leaves the broadcasts out.

Run: `sem` (2 producers, 1 consumer, capacities 1 to 3; 257 thousand states): two
producers are what it takes to hold the two slots that the test in
`queue_resize_decrease` leaves. `SlotsAccounted` (after an interrupted `-` one slot
too many is announced, but then `running` is 0 and every producer gives its slot
back), `NoNullPop` (`consumer_task` uses
the result without a test) and `ImplementsFifo` hold. `DecreaseHangs`: `-` waits for
ever only when two producers have taken all free slots and wait for the mutex that
main holds, and then everybody waits. `JoinHangs`: P and C wait for ever only for a
thread in its `sem_wait`. Weak fairness of main and of each worker. Deadlock is not
checked, since these two situations are deadlocks of the program.

### SortIndex

A record is its rank. `width` is `1 << s` for the round number `s` of a thread, the
blocks of a run. The argument `blocks` is a power of two, which `SortIndexAssumption`
says as: no odd number but 1 divides it. `qsort` of a block is one step, because `BlocksSortedOnce`
shows that a block has one thread; `do_merge` and its `memcpy` go record by record,
because a pair can be merged by two threads at once: a thread starts
every round with the pair of its own number without marking it in `merge_map`, and
the loop behind it hands the same pair out again. `raced` records that a memcpy met
another thread's reading of the same pair; what is in the chunk then is arbitrary.
`lab06.pdf` page 4 credits the barriers with keeping threads apart; they separate
rounds, not the threads of a round.

Run: `sort` (2 threads, 8 blocks of 2 records, the smallest the checks of the
arguments allow; 2 chunks, so that the maps are used again; 210 thousand states).
`SortedUnlessRaced`: without that meeting every round leaves sorted runs of the
records that were there, even when a pair was merged twice. `Completes`, under weak
fairness of every thread (none waits for input): no thread is left at a barrier.
Two inputs are enough for merges that swap, interleave and change nothing; the
comparison `cmp_index_s` is not exercised beyond its order. `memsize` is taken to be a
whole number of blocks, a block a whole number of records and the file a whole number
of chunks. `sort_index.c` does not check that; what it does with remainders is not
modelled.

### Session and Server

A stream is a sequence of pieces: characters, LF, CR LF, and the zero byte that the
server sends after "Welcome" and "BYE" because it counts it. `fgets` ends a line at LF;
the client waits for a line that is exactly CR LF. A send to a client that has gone
is answered with a reset, and the next one raises SIGPIPE, which nobody handles.
`info.txt` has one of the shapes of `AllShapes`, `root_dir` is absolute or not. In
`Server` a pending descriptor is a cell of the heap, so that a use after free is
visible (`misused`); `accept` and `pthread_create` may fail.

Runs:

* `server` (one client, 4 lines typed, one failure; 126 thousand states). `InSync`:
  what a client reads is the reply to what it sent, for an `info.txt` of lines.
  `MisusedOnly`, `DiesOnly`, `WaitsForeverOnly` and `SigintEnds` name the only
  situations in which freed memory is used, the server dies, a client waits for
  ever or a SIGINT does not end the server. Weak fairness of main, threads and
  clients; none of the users. With two clients the shapes of `info.txt` and the
  failures give too many states; for the three invariants `ServerProofs` covers
  any number of clients, and for the other two: clients share only the list, the
  process and the mutex, which the thread that starts, main and the handler
  already contend for.
* `server_reliable` (violation, two clients): a client interrupted while it waits for
  a reply ends the server for both. `lab08.pdf` page 4 says that it serves several
  clients reliably.

Situations the properties name, in the code's terms: with a relative `root_dir`
`opendir` fails and LIST sends no empty line, so the client waits; likewise LIST
after `CD` to a file; a missing `info.txt`, or one whose last line has no end, makes
it wait in the greeting; an empty CR LF line in `info.txt` puts client and server out
of step, after which the client's FILE, which holds unread input, refuses to write;
an empty line gets no reply; Ctrl-C while main holds `list_mutex` locks it again in
the handler; a failed `accept` or `pthread_create` frees the cell and leaves its
node. After a failed `pthread_create` `pthread_detach` is called on an uninitialised
number, which the model does not follow. A client interrupted in the middle of a
reply sends no QUIT, although `lab08.pdf` page 6 says it always does.

## Proofs

Every theorem is about the specification of its module without fairness (`Spec`, in
`SortIndex` `SortSpec`, in `Browser` `BrowserSpec`), for every
value of the constants that the module's named assumption admits: any number of
threads, clients, messages, slots, cells, records, blocks, files or lines of the
window, and not only the instance of the run. Each has the same plan: an inductive invariant `IndInv`, a conjunction of
named parts; one lemma per action that it is kept, with one step per part that the
action can disturb; the property from the invariant. The invariants were checked
with TLC before they were proved.

| Module | Theorem | States | Also needs |
|---|---|---|---|
| `CondQueueProofs` | `TypeCorrect`, `RingCorrect`, `OwnershipCorrect`, `DestructionCorrect` | `TypeOK`, `RingConsistent`, `OneOwner`, `DestroyedLast` | `MutexInv`, `BodyInv`, `HandInv`, `LiveInv`, `RemoveInv` |
| | `WakeupsCorrect` | `NoLostWakeup` | `BlockInv` |
| | `CountersCorrect` | `CountersAgree` | arithmetic modulo `CountMod` |
| | `FifoCorrect` | `ImplementsFifo` | `IndInv` |
| `ShmQueueProofs` | `ShmTypeCorrect`, `MutexCorrect`, `SlotsCorrect` | `TypeOK`, `MutexAccounted`, `SlotsAccounted` | `LiveInv`, `HandInv`, `SlotSum`, `RingInv` |
| | `ShmFifoCorrect` | `ImplementsFifo` | the same |
| `SemQueueProofs` | `SemSlotsCorrect`, `PopNeverNull`, `SemFifoCorrect` | `SlotsAccounted`, `NoNullPop`, `ImplementsFifo` | `LiveInv`, `HandInv`, `RingInv` |
| `FileProofs` | `RecordTypeCorrect`, `FileFilled`, `EditorsAreRegisters` | `TypeOK`, `InitFillsFile`, `ImplementsCas` | `LocalInv`, `LockInv`, `WriteInv` |
| | `BlocksSortedOnceHolds`, `SortedUnlessRacedHolds` | `BlocksSortedOnce`, `SortedUnlessRaced` | `SortInductive`: `BlockInv`, `ThreadInv`, `RecordInv` |
| `TrashProofs` | `OnePlaceCorrect` | `OnePlace` | `LocalInv`, `FilesInv` |
| | `InfoCorrect`, `RestoreCorrect` | `FileHasInfo`, `RestoresToOrigin` | `EntriesInv`, `WriteInv`, `ReadInv` |
| | `BrowserTypeCorrect`, `CursorCorrect`, `TakesCorrect` | `BrowserTypeOK`, `CursorAtList`, `TakesOnlyWhatWasShown` | `CommandInv`, `ShownInv`, `CursorInv` |
| | `BrowserOnePlace`; `BrowserInfoCorrect`, `BrowserRestoreCorrect` | `OnePlace`; `FileHasInfo`, `RestoresToOrigin`, in the presence of the browser | the same |
| `SupervisorProofs` | `TypeCorrect`, `TracksCorrect` | `TypeOK`, `TracksUnlessRaced` | `CountInv`, `TrackInv` |
| `ServerProofs` | `MisuseCorrect` | `MisusedOnly` | `HandlerInv`, `ListInv` |
| | `InSyncCorrect`, `DeathCorrect` | `InSync`, `DiesOnly` | `SyncInv` |

Why the properties are not inductive by themselves, and what is added:

* **CondQueue.** `MutexInv`: the owner of the mutex is the thread between lock and
  unlock. `BodyInv`: what the while loop of push or pop tested still holds at the
  store or take, since only `running` can change meanwhile; without it `count` could
  leave its range. `LiveInv`: only slots below the counts, or the one being joined,
  have living threads; without it a new thread could overwrite one that owns a
  message. `NoLostWakeup` needs `BlockInv`: a thread that decided to wait still has
  reason to, until it waits. `FifoCorrect`: under `IndInv` a push is `Put` (`OneOwner`
  gives that the address is nowhere else), a pop is `Take` (the consumer's hand is
  empty), the end of a consumer's work is `Release`, a resize that is not refused is
  `Resize`, `queue_destroy` is `Close` (nobody is left), and every other step leaves
  the abstract queue alone.
* **ShmQueue, SemQueue.** Slots are counted, with the cardinality theorems of
  `FiniteSetTheorems`: each step moves one slot between a semaphore and the hands of
  one process. `RingInv` ties head, tail and the contents to the count; in `ShmQueue`
  it holds where `fresh` does, and counts the process inside as before or after its
  assignments. `NoNullPop` follows because a consumer past `sem_wait` is counted.
* `DataTheorems` is what proofs have in common. Of rings: slots of different elements
  differ, a push appends to `Contents`, a pop removes its head, a resize keeps it, and a
  step of head or tail commutes with the modulo. Of orders: the ranks of the n elements
  of a finite set are 0 to n - 1, each once, so that `Arranged` has every element of the
  set at one place. A sorted list is thus reached by counting, without an induction.
* **RecordFile.** `LocalInv`: where a client holds which lock. `LockInv`: an exclusive
  lock excludes every other on the record. `WriteInv`: the record is unchanged from the comparison to the write, which
  is why the two halves of a write are one step of `CasStore`.
* **Trash.** `FilesInv`: a file is in one directory entry, and those that have none are
  in exactly one of `purged`, `unlinked`, `lost`; this is `OnePlace` with what programs
  and tools hold between two system calls (`LocalInv`). `FileHasInfo` and
  `RestoresToOrigin` need to know which process may still change the metadata of an ID.
  `EntriesInv`: only IDs that were given to files are in use, by files, metadata,
  programs and tools; so an ID given for the first time is new to all of them.
  `WriteInv`: at an ID given once, at most one program has its metadata to write, and
  what it will write is where the file was deleted from. `ReadInv`: the metadata at such
  an ID, and what a tool has read of them, are where the file was deleted from, and no
  tool removes them while the file is there, unless it could not remove the file. The
  number of programs, tools, links, files and deletions, the sequence `Rand` and its
  modulus are free.
* **Browser.** `BrowserSteps`: each step of the browser is a step of `Trash`, apart from
  two, a Del that fails and Ctrl-C; these are
  shown to keep the invariants of `Trash`. `CursorAtList` speaks of one state and
  `TakesOnlyWhatWasShown` of one step, and both depend on what was read a command
  before. `CommandInv`: which entry the tool and the program that the browser is are
  working on. `ShownInv`: until another process acts, the list is what the screen shows
  and the entry of the command is the line under the cursor. `CursorInv`: that line is
  in the list until the command has taken it away, and then the list is one shorter;
  here the ranks of `DataTheorems` give the length of the list.
* **SortIndex.** `BlockInv`: a marked block has been sorted, or is being sorted by one
  thread, and between two barriers all threads are in the phases that lie between them.
  `ThreadInv`: what the variables of a thread are in each phase (its width is that of
  the round, its pair exists, `do_merge` is inside its two runs). `RecordInv`: until a
  memcpy meets a reader, every pair of the round is either untouched, that is two sorted
  runs, or done, or being written; a `tmp` that is being filled has the least records of
  both runs in order, and one that is being written has all of them; so a second
  memcpy to a pair that was done writes the records that are there already. That the
  runs are sorted is said by comparing them with the one increasing arrangement of the
  records (`Sorted`), whose ranks `DataTheorems` counts; that two merged runs are this
  arrangement needs no induction either.
* **Supervisor.** `CountInv`: the table is no larger than the number of children
  forked, one less while one is being entered. `TrackInv`: `TracksUnlessRaced` at the
  steps inside a command, where the table and its size disagree.
* **Server.** While no call has failed and the handler has not freed the list: the
  nodes of `pending_fds` are the allocated cells, each once (`Linked`), and a descriptor
  is in one cell from accept to the begin of its thread (`Passed`, `Round`).
* **Session.** `SyncInv` speaks of all a client has still to read, in its buffer, in the
  network and in the sends its thread has not made (`Rest`). A refill and a send leave
  it as it is; reading a line takes its first line; and for each place where a client
  waits it is one of a few sequences (`Rests`), from which follows that the line that
  brings back the prompt is the last. For a client that left at its prompt (`Left`)
  at most one send is to come, and only a second can raise SIGPIPE.

Assumptions on the constants are those of the code: sizes, capacities and counter
widths are positive, and special values (`NoMsg`, `Freed`, ...) are no members of the
sets they are told apart from; only `Supervisor` needs its set of children
finite and `Browser` its set of paths. `NumCells` exceeds
the number of clients, so that `malloc` does not run out of cells: all but one of the
cells in use belong to different clients.

Every invariant of the runs and every action property is proved. Only model-checked
are:

* the liveness properties `ShutdownCompletes`, `JoinHangs`, `DecreaseHangs`, `NobodyStarves`,
  `LocksReleased`, `AskAnswered`, `Completes`, `WaitsForeverOnly` and `SigintEnds`, since
  fairness and ENABLED are beyond tlapm;
* `ServerSurvives`, which the run `server_reliable` refutes.

## Plan

1. Done: every component with state that several actors share, and the theorems
   above.
2. Theorems next: `InSync` for every `info.txt` whose lines end with LF and are not
   CR LF alone.
3. Larger instances: two clients in `server`, two browsers.

## Not modelled

`lab01` (walks directories and prints; keeps no state), `lab02` (builds an
environment once, starts children and forgets them) and the generator and viewer
of `lab06` (sequential file input and output).

Of the modelled components: message contents and `calculate_hash` (the queues treat
a message as a unit); printing; path strings, file names' extensions and lengths
(so neither the 255 characters of `restore.c` 22 nor the `id[64]` of `purge.c` 93);
directories in the trash, and the browser inside `.trash`; the last chunk of a sort
when it is shorter than the others; failures of `malloc`, `open` and, except in
`lab08`, `pthread_create`; memory of the child table (`realloc`); the child's
statistics; pointers that are read after they were given away (`lab05` `main.c`
41); reuse of process numbers.
