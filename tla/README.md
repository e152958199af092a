# A verification project for sampleC

The repository is a collection of small C programs. Three of them are real
concurrent systems: a timer service whose signal handler feeds an event loop
thread (`linux_timer/timer_linux.c`), an interface monitor that splits a netlink
socket between main and a libevent thread (`linux_timer/timer_event_lib.c` over
`rt_netlinks/rt_netlink_utils.c`), and two counting programs (`lockless/`). One
is large: the scanner of the verb example, a table-driven automaton over a
buffer that is refilled while it is scanned (`lex_yacc/lex.yy.c`, generated from
`verb.l` and kept in the repository). The datagram programs talk over a link
that loses and reorders frames. The sorting, tree and bit programs are
sequential, with loops and recursions that tests on one fixed array say little
about. The rest prints something and exits. This directory models these groups,
model-checks them with TLC and proves with TLAPS the safety of the concurrent
systems, of the scanner and of the datagram programs, and that the sorts, the bit
operations and the tree compute what they should. Every invariant and action
property that a run checks is proved for all values of the constants.

Paths below are relative to `src/`.

## 1. Inventory

| component | state | operations | interaction |
|---|---|---|---|
| timer service, `linux_timer/timer_linux.c` | `an_master_thread` (two mutexes, a condition variable, `event_type`, an array of 20 timers and its index), the signal disposition, the POSIX timer | create thread, install handler, create/start/stop/reset timer; enqueue and notify in the handler; wait, look at the event type, take and dispatch in the master | signal handler on top of any thread, shared memory, condition variable |
| delays, `timer_linux.c:197-234`, `timer_event_lib.c:118-132` | `struct itimerspec`, `struct timeval` | start, stop, reset | kernel timer, libevent |
| interface monitor, `timer_event_lib.c`, `rt_netlinks/` | `_evt_base`, `an_evnt_handler_thread`, `_netlink_sock`, one receive buffer per call | start-up, dump request, receive loop, registration, two callbacks | two threads on one socket, libevent callbacks, the kernel's datagrams |
| counting threads, `lockless/` | `count` | increment (plain or atomic), join, print | shared memory |
| gap sorts, `sort/shellsort.c`, `sort/insertionSort.c` | the array, loop variables | pass, insertion, shift | none |
| quicksort, `sort/quicksort.c` | the array, the stack of calls | partition, two recursive calls | none |
| scanner, `lex_yacc/verb.l`, `lex_yacc/lex.yy.c` | the buffer with its two end characters, pointers into it, the state of the automaton, the stream | match a token, act on it, tell a NUL from the end of the buffer, move, grow and refill the buffer, finish | stdio, terminal or file |
| datagram programs, `socket/udp_*.c`, `bpf/bpf_filter_test.c` | one socket and one buffer each; a filter program and its length | send, receive and print, attach a filter | the link, the kernel's filter machine |
| other sorts, `sort/` | the array | merge, counting, bubble, selection | none |
| tree, `tree/tree_in_post.c` | the nodes, a static index, the stack of calls | build from two traversals, print | none |
| bit operations, `binary/` | none | get, set, count and print bits | none |
| pipes, `syscalls/` | a pipe between two processes | write, read, wait | kernel |
| ELF dumps, dl, LTTng, ptrace, files, strings, word counter, build examples | buffers | straight-line input and output | kernel |

What makes them correct, and what is hard:

* **Timer service.** Every expiry that finds room is dispatched exactly once and
  in order, whichever thread the handler interrupts. Hard: `event_type` is
  tested under one mutex and written under another; the handler locks mutexes
  its own thread may hold; the array index never goes down; the thread runs
  before its descriptor exists; results of the start-up calls are ignored.
* **Delays.** The delay asked for is the one the kernel gets. Hard: a 32-bit
  product.
* **Interface monitor.** No link message is lost or reordered when main hands
  the socket to the event thread; main gets past the dump. Hard: notifications
  arrive during the dump, the walk over the buffer ignores the received length
  and parses what lies behind, errors and overruns end the receive loop anywhere.
* **Counting threads.** The atomic program prints the total; the racy one may
  print much less, and how much less is the question.
* **Scanner.** What it prints are the longest matches of the rules on the whole
  input, wherever reads happen to end. Hard: the matching loop is bounded by the
  end-of-buffer characters alone; the text moves, and may be reallocated, in the
  middle of a token; a NUL of the text looks like the end of the buffer; the
  input ends, is interrupted or fails anywhere.
* **Datagrams.** The filter passes what its comment says, from when it is
  attached; servers print what they received. Hard: frames queued before the
  filter, a filter cut short, no end to the bytes printed, senders of either
  version of IP into one buffer.
* **Sorts, tree, bits.** Sorted, a rearrangement, within the array, and
  terminating; the tree has the traversals it came from; a field that is set is
  the field that is read.

`PROJECT.json` lists every hazard at its line with the properties that cover it.

## 2. Modules

| module | models | composition |
|---|---|---|
| `EventChannel` | abstract: what the timer service promises | |
| `MasterThread` | the timer service | refines `EventChannel` (`ChannelSafe`, `ChannelLive`) |
| `MCMasterThread` | its TLC instance: symmetry of the timers | extends `MasterThread` |
| `TimerDelay`, `MCTimerDelay` | the arithmetic of both delays; boundary values | |
| `NetlinkMonitor` | the interface monitor and the kernel's side of the socket | |
| `Counter` | both counting programs | |
| `GapSort` | shellSort, and insertionSort as its last pass alone | |
| `QuickSort` | quicksort with its stack of calls | |
| `Lexer` | abstract: what `verb.l` promises, without a buffer | |
| `Scanner` | `yylex` and its buffer | refines `Lexer` (`LongestMatch`) |
| `MCScanner` | its TLC instance: the texts | extends `Scanner` |
| `Udp`, `MCUdp` | clients, servers and filtered listeners on one link; who runs with whom, and the strange frames | |
| `Sorts` | merge, counting, bubble and selection sort as functions | |
| `Bits` | the bit operations as functions of a word's bits | |
| `Tree` | `buildtree` and `printInorder`, call by call on a heap of nodes | |
| `MCAlgorithms` | their TLC instance: one program runs on each of its small inputs, the others on one of theirs | extends `Sorts`, `Bits`, `Tree` |
| `MasterThreadProofs`, `NetlinkMonitorProofs`, `CounterProofs`, `TimerDelayProofs`, `QuickSortProofs`, `UdpProofs` | the theorems about the module of that name | extend it and `TLAPS` |
| `ScannerProofs` | the invariants of `Scanner`, and that it implements `Lexer` | extends `Scanner` |
| `AlgorithmProofs` | the theorems about `GapSort`, `Sorts`, `Bits` and `Tree` | extends the four |

### MasterThread

Four contexts execute: `main`, `master`, and the handler on top of each
(`main_sig`, `master_sig`). `At(c, l)` lets a context run only while no handler
is on top of it, and a handler is not interrupted by another SIGTIMER. A mutex
holds the context that locked it, so a handler blocks on the mutex of the thread
it interrupted, for ever, as a default pthread mutex does. A step is one mutex
operation, one system call, or the body of one critical section.

| code | actions |
|---|---|
| `an_pthread_create` | `CreateThread` (the new thread runs), then `PublishThread` (`an_master_thread` is set) |
| `an_timer_services_init`, `an_timer_init` and `an_timer_start`, `pthread_join` | `ServicesInit`, `StartTimer`, `JoinMaster` |
| `an_handle_timer_events` | `Deliver`, then `EnqueueLock`, `Enqueue`, `EnqueueUnlock`, `NotifyLock`, `NotifySignal`, `NotifyUnlock` |
| `an_pthread_wait_for_event` | `WaitLock`, `WaitCheck`, `WaitSleep`, `WakeSpuriously`, `WaitRelock`, `WaitUnlock` |
| `an_pthread_get_waiting_event_type` | `TypeLock`, `TypeRead`, `TypeUnlock` |
| `an_pthread_any_pending_timer_event` | `PendingLock`, `PendingTest`, `PendingUnlock` |
| `an_pthread_get_pending_timer_event` | `TakeLock`, `Take`, `TakeUnlock` |
| body of `an_master_thread_func` | `Dispatch` |

`timer_events` holds the slots below the index, so its length is
`curr_timer_event_index`; a slot that was taken is `NULL` and stays. `accepted`
and `handled` are history variables, and the refinement mapping is the identity
on them: `EventChannel` accepts when the handler fills a slot and handles when
the master dispatches. `Expire`, `Deliver` and `WakeSpuriously` are the kernel
and the thread library.

### TimerDelay

Nanoseconds are counted in units of 64, which divides 10^6, 10^9 and 2^32. The
32-bit product of the source is then exact and fits TLC's integers. `it_value`
and `timeout` are what the kernel and libevent are given.

### NetlinkMonitor

Main goes through `InitTimer`, `CreateThread`, `PublishThread`, `OpenSocket`,
`SendRequest`, the receive loop, `Register` and `JoinThread`. The receive loop
(`AllocBuffer`, `Receive`, `ParseLink`, `WalkEnd`, `WalkStale`, `ParseStale`,
`EndWalk`) takes the context as a parameter: main runs it for the dump, the event
thread for every callback of the socket (`an_handle_intf_events`). `TimerCbk` is
the other callback. A link message is the number with which the kernel queued it;
a datagram is a run of them and what ends it. Behind the datagram the walk goes on
(`Stale`) over bytes that may look like any message: `WalkStale` is a header that
is no link message, which can set `msg_done`; `ParseStale` a link message, which
is reported as number 0, or whose name overruns `name[IFNAMSIZ]` and kills the
process; `EndWalk` the end of the buffer or bytes that are no header. The text
that is printed is left out. The kernel queues dump datagrams and notifications in
any split and order the socket's buffer allows, among them `RTM_DELLINK`, which
the code does not ask for; it loses notifications when the socket is full, refuses
the dump, or sends a datagram that `recvmsg` truncates. The history variable
`dropped` holds the link messages of truncated datagrams.

### Counter

`Load` and `Store` are what any compiler may make of the race: a register holds
the count over any number of iterations. `FetchAndAdd` is one step. `atomic`
tells which of the two programs runs. A `pthread_create` may fail, which main
does not look at: the join of an uninitialised id then returns or kills the
program (`JoinOf`).

### GapSort and QuickSort

One step per assignment of the inner loops. The two gap sorts differ in the first
gap alone (`FirstGaps`); the history variable `gaps` collects the gaps of the
passes that have ended. `QuickSort` keeps the stack of
calls, because the recursion includes the pivot; a process that has used up
`STACK` calls is killed. A read past the array gives any value. `arr0` and
`origin` are history variables that state "a rearrangement of the input".

### Lexer and Scanner

`Lexer` cuts the input from the left: a `Token` is the longest text that some
rule matches, and the first rule that matches it says what is printed. `Scanner`
is `lex.yy.c` with its own tables, entry by entry; only `yy_ec` is written by
character classes. A pointer into `yy_ch_buf` is its offset, so the reallocation
of a buffer moves nothing. A step is one character of the matching loop
(`MatchChar`), the back-up behind it (`FindAction`), one action (`Rule`), or a
part of the refill:

| code | actions |
|---|---|
| start of `yylex`, `yyensure_buffer_stack`, `yy_create_buffer` | `Initialise` |
| `yy_match`, `yy_find_action`, `do_action` | `BeginToken`, `MatchChar`, `FindAction`, `Rule` |
| `case YY_END_OF_BUFFER` | `RealNul` or `EndOfBuffer`, by `yy_c_buf_p <= Chars` |
| `yy_get_previous_state`, `yy_try_NUL_trans` | `PreviousChar`, `TryNul` |
| `yy_get_next_buffer` | `MoveText`, `Grow`, `Room`; `EndOfFile`, `ContinueScan`, `LastMatch` |
| `YY_INPUT` | `ReadLine` for a terminal, `ReadBlock` and `ReadError` for any other file |

The refinement mapping takes `scanned`, the characters in the tokens so far, for
the position in the input, and what `yylex` printed for what the lexer prints.
Reads end at the end of what was asked for, of the line (terminal), at an error
behind some characters, or at the end of the input; an interrupted read is
retried; `malloc` may fail.

### Udp

A frame is its five fields the programs look at and its bytes. The link is a set
of frames, so each may arrive never, once or repeatedly, in any order. `code` is
the filter both listeners hold; `len` is how much of it each attaches; `Verdict`
runs the machine on it, and `Accepted` is the kernel's test of its jumps. A server
binds the IPv6 wildcard address without asking for IPv6 alone, so it takes
datagrams of both versions of IP (`Takes`). Its buffer holds anything at first
(`Garbage`) and then what earlier datagrams left; printing stops at the first NUL,
in the buffer or in the memory behind it (`Behind`). The history variables `given`
and `taken` hold what reached each program and what each server took; `Picks(s, g,
K)` says that s is what the places K of g hold, in their order.

### Sorts, Bits and Tree

In `Sorts` and `Bits` a run of a program is one step from its input to its output,
which is a function that follows the loops and calls of the source: a loop is a
function of the rounds it has made, `mergeSort` one of the array and the range it
is called with. `t` of `countingSort` is counted and summed before elements are
placed from it. Its `c` has `CSLOTS` slots, ten in the source, however long the
array is; a run that writes outside it leaves no output but `overrun`, as what it
does from there on is undefined. In `Bits` a word is its bits, `x - 1` is the
borrow that runs up to the lowest bit that is set, and `>>` keeps the sign of an
`int` (`Halved`); calls of `printrightbit` that never reach zero print `Endless`.
What each program should compute is stated another way in the properties.

`Tree` is a state machine, one action per path through a call: a call of
`buildtree` ends on an empty range (`EmptyRange`) or a leaf (`CreateLeaf`), or
calls for its left subtree (`CreateInner`); what comes back is stored by
`ReturnLeft`, which calls for the right one, and `ReturnRight`, which returns.
`calls` is the stack, `preindex` the static index, `heap` the nodes. A node is
named by its place in the preorder, which is when it is allocated, so no table of
addresses is needed. Any `malloc` may fail; the history variable `lost` holds the
nodes that got no memory. `printInorder` is `PrintLeft` and `PrintNode`; `walk`
holds the callers that still have to print. An input is a tree given by the place
of each node in the inorder and the range of its subtree (`IsTree`), with the two
traversals that come of it.

## 3. Runs

| run | instance | what it shows |
|---|---|---|
| `any_context` | 2 timers, 3 slots, handlers on both threads, all start-up faults | `ExactlyOnce`, `EventBit`, `NoLostWakeup`, and `OnlySelfDeadlock`: a circle of waiting contexts always contains a handler waiting for the thread it interrupted. `ChannelSafe`: refinement of the safe part of `EventChannel` |
| `delivery` | 2 timers, 3 slots, handlers on main | `NoDeadlock`, `DeathIsStartup`; `ChannelLive`: refinement of all of `EventChannel`; `HandlerReturns`: a handler that competes with the polling master for `thread_mutex` gets it if mutexes are granted in the end |
| `idle_master` (violation) | 1 timer | `IdleMasterWaits`, a comment of the code, is false: the master polls for ever |
| `timer_delay` | all boundary delays | `TimevalExact`; `ShortPeriodExact`; `PeriodNear`: past the wrap the period is off by less than a second and never disarms |
| `timer_delay_wrap` (violation) | the same | `PeriodIsDelay` is false from 4295 ms on |
| `netlink_faults` | 2 links, 3 changes, 1 stale report, a socket for 2 datagrams, all faults | `Conserved` over the hand-over, whatever stale messages are reported besides; `DoneIsFinal` whatever stale memory says; `AllReported`, `DumpRegisters`: nothing queued stays unreported unless it is truncated or the process dies, and a dump that the kernel completes ends with the registration |
| `counter` | 5 iterations, both programs, either thread not created | `NeverAhead`; `RacyBounds`: 2 is the least the racy program prints, and a thread that is alone loses nothing; `AtomicTotal` |
| `gap_sort` | all arrays of 9 elements of 3 values, first gaps 4 and 1 | `GapSorted`: between passes the array is in order by the gap of every pass so far; `Sorted`, `Rearranged`, `Ends` |
| `quick_sort` | all arrays of 5 elements of 5 values, 10 calls | `ScansInRange` (the comment at line 32), `Separated`, `Rearranged`, `Ends`, and `FitsDistinct`: the program ends normally exactly if all elements differ |
| `scanner` | all texts of up to 4 characters of 6 classes, and pairs of longer words; a buffer of 3 characters, reads of 2; file and terminal; all faults | `InBuffer`: the scan never passes the end-of-buffer characters; `BufferIsInput`: no character is lost or repeated; `Prompt`: a complete line is answered before more is read; `LongestMatch`: refinement of `Lexer`, and the scan ends |
| `udp` | each client with each receiver, strange frames, 3 frames and 3 arrivals, buffers of zeros or without a NUL, all faults | `FilterExact`: the full filter passes what line 29 says, from when it is attached, and the short one never runs; `TailIsOld`: behind the end of a datagram a server prints what earlier ones left |
| `algorithms` | all arrays of up to 6 elements of 4 values with 5 slots in `c`, all words, positions and widths of 5 bits, all trees of up to 6 nodes with any failed allocations | `SortsAgree`: in order, with each value as often as before, but for arrays longer than `c`, with which countingSort always leaves it; `FieldsAgree`: setbits writes its field only, and getbits reads it back one position lower; `CountsAgree`: the loop counts the bits, and the digits are those of the number, without end if it is negative; `TreeRebuilt`: the tree is the one the traversals came from and prints the inorder, both without the leaves that got no memory; the program is killed only if another node got none. Deadlock is checked: every program gets to its end |

Bounds. Three slots and two timers fill the array, leave an event in it while
another is taken, and reach the full array with a handler on each thread at
once; one expiry per timer is pending at a time in the kernel, as POSIX has it.
The proofs cover twenty slots and any number of timers. A socket of two
datagrams overruns while main is in the walk; one stale report (`STALE`) falls
anywhere among the others, and the proofs allow any number. Five iterations leave room for a
thread to sleep over the other's whole loop. Nine elements give shellSort three
passes whose gaps (4, 2, 1) are not all divisors of the length. Five elements
give quicksort every pattern of equal elements and ranks, and ten calls are more
than distinct elements ever nest. A scanner's buffer of three characters is
shorter than `were` and `wares` and longer than a read: words are moved, grown
for and refilled at every place, and a read ends at every place of a verb; the
program's 16384 and 8192 differ in nothing but how seldom that happens. Three
frames are enough for a long datagram, a short one behind it, and a strange one
between, and three arrivals for each to come early, late or twice. Six elements
make merges of unequal halves at two levels, and are one more than the slots of
`c`. Five bits hold fields with bits above
and below them, and numbers of either sign.

What a run leaves out: `delivery` has no failed `sigaction`, whose consequence,
death at the first expiry, `DeathIsStartup` allows anyway; it is among the faults
of `any_context`. `DumpRegisters` speaks of dumps that end with `NLMSG_DONE`: with
one that is refused the code waits for ever. `Lexer` may fail at any time, so
`LongestMatch` does not tell a failed read from an end of the input that is taken
for one. `FieldsAgree` has n at most p, as the calls of setbits do.

`CHECK_DEADLOCK FALSE` stands where the system really may stop: in
`any_context` a handler and its thread may block each other, in `netlink_faults`
a refused dump leaves main in `recvmsg`, and in `udp` a server waits for
datagrams that nobody sends.

## 4. Fairness

* Timer service (`FairSpec`): the scheduler runs every thread and handler that
  can run, and a queued signal is delivered (weak fairness). Strong fairness is
  assumed for the master's requests for the array mutex only: its competitors
  are handlers a timer period apart. Liveness is checked with SIGTIMER on main:
  that is where Linux delivers a process-directed signal when main does not
  block it. On the master it can deadlock, which `any_context` shows to be the
  only way. `HandlerReturns` alone assumes, in its own statement (`FairLocks`),
  mutexes that are granted in the end, which POSIX does not promise. No timer is
  obliged to expire and no wake-up to be spurious.
* Interface monitor: main, the serving of a readable socket and the kernel's
  dump go on. The loop runs all active events before it polls again, so timer
  callbacks cannot keep the socket from its turn. `AllReported` alone assumes
  that the event thread's `malloc` succeeds in the end (`MemoryReturns`).
* Scanner: `yylex` runs on, and its reads return and are not interrupted for
  ever (`WF_vars(Scan)`, which leaves out `ReadError`): the program installs no
  signal handler, so nothing keeps interrupting it.
* GapSort and QuickSort: the program runs on. Counter, Udp, Sorts, Bits and Tree
  have safety properties only.

## 5. What is proved

Everything below holds for all values of the constants under the assumptions
named in the modules (a null pointer is no timer, at least one slot, and so on).

* **MasterThreadProofs.** The inductive invariant is `TypeOK`, who holds which
  mutex at which label (`LockOwners`), how far main has come (`Startup`), and
  `DeathIsStartup`, `ExactlyOnce`, `EventBit` and `NoLostWakeup`. Ownership is
  what makes a critical section exclusive, and without it `ExactlyOnce` is not
  inductive: a handler could append during the scan. From it follow
  `OnlySelfDeadlock`, `NoDeadlock` when handlers run on main only, and
  `ChannelSafe`, the step simulation of `EventChannel`. `OnlySelfDeadlock`
  follows from the order of the mutexes: no one asks for one while holding the
  other.
* **NetlinkMonitorProofs.** `Passed` is the number of the last link message that
  left the socket and the buffers. The invariant adds to `Conserved` who may be
  receiving (`Roles`: never both in the middle of one datagram) and where the
  end of the dump is (`DoneAhead`). Its types (`Typing`) are proved and, being
  nothing else than types, not checked by a run.
* **CounterProofs.** A register never holds more than the iterations done, and
  holds zero only in a thread that has done none (`Registers`): hence at least 2.
  Without the other thread it holds what was counted (`Alone`).
* **TimerDelayProofs.** What was computed is a function of the delay
  (`Computed`); the rest is division with remainder.
* **QuickSortProofs.** Four strengthenings: what the scans have passed is on its
  side of the pivot (`PartitionOK`, which gives `ScansInRange`); the calls above
  one that waits for its left part stay within that part (`CallsOK`); and
  `Apart`, which is `Separated` with each pending range tied to the call that
  will sort it. By `CallsOK` no pending range overlaps that of the running call,
  so what it exchanges cannot disturb the order with anything outside
  (`TopApart`, `ExchangeApart`), and `Split` divides its range at the pivot.
  `EndsSorted`: if no call is left, the whole array is in order. `Apart` is
  strict: an element equal to the pivot never comes to the right of it, so equal
  elements stay in one range, and a program that ends had none. `DepthOK` is the
  other half of `FitsDistinct`: with distinct elements a call may pass its whole
  range on, if the pivot is the greatest, but the call above it cannot, so 2N
  calls are enough.
* **ScannerProofs.** The invariant says of each state of the automaton what kind
  of text led to it (nothing, tabs, letters, one other character: `OfKind`), over
  `Plain`, the buffer as it stands but for the NUL that ends the current token.
  With the two end-of-buffer characters (`Ends`) and the account of where each
  character taken from the file is (`Accounted`) it is inductive, and gives
  `InBuffer`, `BufferIsInput` and `Prompt` for every input, buffer and read size.
  The kinds are needed because only they exclude that a token crosses the first
  end-of-buffer character, and that `yy_get_previous_state` ends elsewhere than
  the scan it repeats.
  For the refinement, `TokenInv` adds which text each state stands for (the
  beginnings of the verbs, one by one), that a token ends where the input does or
  where its next character cannot go on (`EndsHere`), and that the end of the
  input was seen before it is acted upon. Hence what is accepted is the longest
  match (`TokenLongest`), and the state's rule is the first that matches it
  (`TokenRule`): every `Rule` is a `Token` of `Lexer`, `EndOfFile` is its
  `EndOfInput`, failures are its `Fail`, and all else stutters.
  `ImplementsLexer` is `LongestMatch` without its fairness.
* **UdpProofs.** `VerdictExact` runs the ten instructions of the filter on any
  frame: it returns a length exactly for the frames its comment names. The
  invariant says of each listener that what it has printed and what is still
  queued are, in order, the places of `given` before the filter was attached and
  the wanted ones behind it (`QueueOK`, with `PicksOneMore` and `PicksNoMore` for
  a frame that is queued or dropped), that the short filter was refused
  (`ShortRefused`), and of each server that its buffer holds byte by byte the last
  datagram that was long enough to reach there, and nothing is said of bytes
  that none reached (`BufferOK`). `StringOf` is what printing up to the first NUL
  shows of the buffer, whatever lies behind it.
* **AlgorithmProofs, gap sorts.** The elements up to the hole are ordered by the
  gap, across the hole too (`PrefixSorted`), and the gap becomes zero only after
  the pass with gap one. `GapSorted` for all earlier gaps is not inductive:
  within a pass the earlier order is broken. `EarlierGaps` therefore keeps that
  the array is, chain by chain of the present gap, a rearrangement of one that was
  in order by all earlier gaps. That sorting the chains brings the order back is
  `KeepsOrder`: were an element above the one a gap further, the elements of its
  chain from it on and those of the other chain up to its partner would together
  be too many for the places they had, by the pigeonhole principle. `EndsInOrder`
  takes neighbours to all pairs by the least distance (`LeastNat`).
* **AlgorithmProofs, other sorts.** Induction over a number or the length of a
  range is done on sets of numbers (`Induction`), so no operator is a parameter;
  `Loop` uses it to show that a recursive function of a loop is defined
  (`Runs`). Every exchange, merge and placement is a rearrangement by a
  permutation of places, these compose (`ReorderTwice`), and a rearrangement
  keeps how often each value occurs (`SameCounts`). `TookLeast`: what merge takes
  is least among what is left of both halves, whichever of its three loops takes
  it. `CallsEnd`: the calls of mergeSort are on shorter ranges, so its recursion is
  defined, and each leaves what is outside its range alone. `SlotsInOrder` and
  `CountsUpTo`: the slot countingSort counts out for an element is its rank, so no
  two share one and all of `0..n-1` are taken: one lies outside `c` exactly if the
  array is longer.
* **AlgorithmProofs, bits.** `GetField` and `SetField` give every bit of the
  results. `ClearedOne`: `x & (x - 1)` loses exactly the lowest bit that is set.
  `CallShifted` and `DigitsPrinted`: call k has the number shifted by k, so the
  digits come out from the highest bit that is set, and the sign never goes away.
* **AlgorithmProofs, tree.** `Rebuilds` is `TreeRebuilt` for every tree and every
  set of failed allocations. The invariant `TreeInv` says that each call on the
  stack ranges over exactly the subtree of its node (`CallsOK`); that `preindex`
  is at the node of the running call before it and behind that node's subtree
  after it (`PreindexOK`), which is why one index for all calls is enough; and
  that what a node points to is right or some call has still to store it
  (`HeapOK`). `FindsNode` needs that no data occurs twice: `searchindex` looks from
  the start of the array, not of the range. When the stack is empty nothing is
  left to store. Of the walk, `WalkOK` says that what is printed are the places
  below the subtree that comes next, and that the k-th caller's subtree ends where
  its own caller's node stands; `ShowsNext` adds one place, and `KeptChildren`
  says that a leaf that is missing leaves no other place out.
* **The end of the sorts and of the tree** (`SortsEnd`, `QuickSortEnds`,
  `TreeEnds`). What is still to be done is a sequence of natural numbers of fixed
  length, and every step takes it down in the order of a dictionary (`Below`): a
  step may add behind the number it lowers, as a new pass adds shifts. Nothing goes
  down for ever in that order, so there are no endless runs, for any size.
  `SortLeft` keeps one number for each call there may be: an equal pivot's call
  hands on its whole range, and only the depth of the stack ends that. `TreeLeft`
  needs `PreindexInPre`: no call takes more of the preorder than there is. These
  need no fairness. That a step remains until the end is the part left to TLC.

## 6. Only model-checked, and why

* Liveness (`ChannelLive`, `HandlerReturns`, `AllReported`, `DumpRegisters`,
  `Ends`, and that `LongestMatch` also ends): temporal properties under fairness
  need `ENABLED`, which the prover does not handle.
* That the sorts and the tree never stop short of their end: a step being possible
  is `ENABLED` again. TLC checks `Ends` for the sorts, and finds no deadlock in
  `algorithms`. That there is no endless run of them is proved (see above), and so
  is that the recursive functions of `Sorts` and `Bits` are defined, so that their
  loops and calls end (`Loop`, `CallsEnd`). That a dictionary order on sequences
  of fixed length is well-founded is mathematics that the proofs do not repeat.

## 7. Not modelled, and why

* `an_timer_uninit`, `rtnetlink_sock_free`, `rt_netlink_sock_close`: no caller.
* `setbits` with n > p, a negative shift count, which no call in the repository
  has.
* Wording and layout of what is printed; `printf` inside a signal handler.
* The race inside libevent when main adds an event while the thread dispatches:
  the library is not in the repository.
* Scanner: `yyunput`, `input`, `unput`, `yymore`, `REJECT`, the stack of more
  than one buffer, `yy_scan_string` and its relatives: no caller in the
  repository, whose `main` calls `yylex` once. Buffer sizes that overflow an
  `int` need a token of a gigabyte. That `yy_get_next_buffer` extends a buffer by
  half when the read does not fit is unreachable: `InBuffer` says that it fits.
* Datagrams: the printing of addresses, which in `udp_recv_msg_server.c` runs an
  index that is not initialised; the raw server's receive loop, which the refused
  filter keeps it from.
* Pipes: three messages of one size pass through blocking calls whose results are
  ignored; far below the size of a pipe each arrives whole and in order.
* ELF dumps, dl, LTTng, ptrace, files, strings, enum and pointer examples, the
  word counter (a main that reads and returns): one call after the other, with no
  state to relate. Build files only drive tools.

## 8. Disagreements found

* `timer_linux.c:393`: once woken the master never waits again
  (run `idle_master`), against the comment at line 270.
* `timer_linux.c:210`: delays of 4295 ms and more wrap (run `timer_delay_wrap`),
  against the parameter's description at line 198.
* `sort/quicksort.c:47`: two equal elements are never sorted but exhaust the
  stack. No comment says otherwise, and the program's own array has none, so
  this is stated as the property `FitsDistinct`.
* `socket/udp_raw_server_bpf_filter.c:43`: the length is four and the filter has
  ten instructions, so its jumps leave it and it ends without a return. The
  kernel refuses it, against line 29, which says what it lets through: the second
  conjunct of `FilterExact`.
* `bpf/bpf_filter_test.c:85`: frames queued between the socket and the filter are
  printed unfiltered: the first part of `FilterExact`.
* `while (no_of_bytes_received--)` after a receive that failed counts down from
  -1 and leaves the buffer: `Listen` ends in `killed`.
* `socket/udp_recv_from_server.c:52`: nothing ends the bytes that are printed:
  `TailIsOld` says what follows them. Where neither a datagram nor the buffer holds
  a NUL the line goes on with the memory behind it (`String`).
* `linux_timer/timer_event_lib.c:192`: the walk parses stale `RTM_NEWLINK` headers
  behind the datagram, so an interface may be reported again, or `strcpy` overrun
  `name[IFNAMSIZ]` (`rt_netlinks/rt_netlink_utils.c:226`): `ParseStale`.
* `sort/countingSort.c:18`: `c` has ten slots, `n` is a parameter: a longer array is
  written outside it (`SortsAgree`). The program's own array has ten elements.
* `binary/setbits.c:5` and `binary/getbits.c`: one names a field by the bit above
  it, the other by its highest bit, and getbits answers zero for the n = p + 1
  lowest bits: `FieldsAgree` states both.
* `lex_yacc/lex.yy.c:588`: an error behind some characters leaves its flag, and
  the clean end of the input is then fatal: `ReadBlock`.

## 9. Plan

Done, in order of importance: `EventChannel` and `MasterThread`, `Counter`,
`TimerDelay`, `NetlinkMonitor`, `GapSort`, `QuickSort`, `Lexer` and `Scanner`,
`Udp`, `Sorts`, `Bits` and `Tree`, each with its proofs. What is left: the pipes
of `syscalls/`, if their calls' results are ever looked at.
