# A TLA+ model of BareMetal-AppPort

BareMetal-AppPort runs ordinary C programs on BareMetal, a single-address-space
kernel for one core, by giving musl a "kernel" made of C files linked into the
program (`port/`). This directory models the parts of that port where order,
interleaving and bounds decide whether it works, checks the models with TLC and
proves what matters most with TLAPS. Source paths below are relative to the
repository; `PROJECT.json` maps every definition to the lines it models.

## 1. The system

| Component | State it keeps | Operations | Modelled in |
|---|---|---|---|
| Threads (`port/thread_shim.c`) | thread slots, the intrusive ready queue, `g_current`, wait address, deadline and wake reason of each thread, signal masks and pending sets | futex wait, wake and requeue, sleep, yield, clone, exit, sigprocmask, tkill, the 1 ms timer tick | `Sched`, `Futex` |
| musl's threads (patched musl, external) | `__thread_list_lock`, `detach_state`, stacks | create, exit, join, detach, `__unmapself` | `Pthread` |
| Signals (`thread_shim.c`) | dispositions, masks, pending sets, `sig_eintr` | delivery from the tick, `sigaction`, `sigprocmask`, `tkill`, interrupted sleeps | `Signals`; waits across threads in `Sched` |
| Heap (`port/posix_shim.c`) | bump pointer, end of the window, free list | `brk`, `mmap`, `munmap` | `Heap`, `Program` |
| Start (`port/crt0.c`) | fabricated argv | size check, `args=` parser | `Program` (size check) |
| `dlopen` (`port/dlfcn_shim.c`) | loaded modules, error text | open, sym, close | `Program` |
| Sockets (`port/net_shim.c`) | 16 socket slots, accept queues, receive buffers | the BSD calls, the lwIP callbacks, readiness | `Sockets`, `Backlog` |
| Names (`port/dns_shim.c`) | one static `dns_wait`, static results | `gethostbyname`, `getaddrinfo` | `Dns`, in `Net` |
| Network bring-up (`port/net_glue.c`) | `net_ready`, the interface, lwIP's servers | parse `ip=`, DHCP, DNS fallback, `net_poll` | `Net` |
| TLS (`port/tls_shim.c`) | two connection slots, the shared configuration | connect, read, write, close | `Net` |
| poll, select, console, time (`posix_shim.c`) | the byte of stdin looked at, what fd 0 is | `read`, `readv`, `poll`, `select`, `nanosleep`, `dup3` | `Console`; the sockets' side in `Sockets` |
| Files (`port/ext4_shim.c`, lwext4 external) | open file slots, working directory | open, read, write, seek, list, unlink, rename, ... | `Files` |
| SQLite VFS (`port/sqlite_port/sqlite_vfs.c`) | a descriptor per open file | the calls SQLite's pager makes of an operating system | `Sqlite` |
| Language ports, scripts, examples | none, or thin layers | | not modelled |

How they interact. Everything is a function call in one address space. musl
calls `__bmos_syscall()`, which dispatches to the shims. Two things break the
sequential picture: the kernel's timer makes an interrupted program call
`thread_shim_timer_tick_c()` between any two instructions, and lwIP calls back
into `net_shim.c` and `dns_shim.c`, though only while some thread is inside
`net_poll()` or another lwIP call. A blocked call is a loop that polls and
sleeps through the scheduler (`thread_shim_sleep_until()`). The heap lies behind
the image, so what `crt0.c` has checked is what the allocator relies on, and
`dlopen()` and musl's allocator take from it what they need.

What is hard, by component, and what makes it correct:

* **Threads.** The tick may land anywhere interrupts are on, also inside the
  loop of a thread that is parked but still on the CPU. A wake may be lost
  between the test of a futex word and the park; a thread may be woken twice,
  by a wake, a deadline and a signal. Correct: the ready queue holds each ready
  thread once, one thread runs, a free slot is nowhere referenced, an exiting
  thread stays parked, a wait reports why it ended, and the calls implement
  plain futex wait sets.
* **musl's threads.** The thread list lock is released by the shim, on behalf of
  a thread that is gone; stacks are unmapped by others, or by the thread
  itself. Correct: no stack is reused while a thread is on it, the lock is
  exclusive and is always granted, exits finish, joins return.
* **Signals.** A tick looks at the mask and picks a signal with interrupts on,
  and another tick may nest before it has taken it, and again while its handler
  runs, on the same stack; every handler saves and restores the mask. Correct:
  the mask is the program's own once all have returned, no handler starts while
  its signal is blocked, no deliverable signal stays the lowest for ever.
* **Heap, start, `dlopen`.** `brk` and `mmap` share one pointer, and mallocng
  remembers a break that others have moved past; RAM may be too small for the
  image; `dlopen()` fails at any of a dozen points with up to three things in
  its hands. Correct: no byte has two owners, the free list is merged and lies
  in the window, what was taken is given back.
* **Sockets.** Callbacks arrive for sockets that are queued, closed or reused.
  Correct: every slot has one owner, connections are accepted in the order they
  came, each once, a control block and its slot agree, no byte of the receive
  window is lost, `poll()` tells what the calls would do, a settled wait ends.
* **Names, bring-up, TLS.** Answers may come after the caller has given up; the
  lease may come late, be lost, or bring some servers or none; a connection
  fails after its name, its descriptor or its slot. Correct: no answer is one
  left over from an earlier lookup, each server is the one with the best claim,
  no descriptor is lost, every call comes back or has come as far as a handshake.
* **Console, `poll()`, `select()`.** `poll()` takes a byte to learn that there
  is one, `read()` must give it out first; a flag a handler sets is read and
  cleared in two instructions. Correct: input arrives whole and in order, waits
  end at their deadline or when what they ask about is ready.
* **Files.** `rename()` in two steps over a recursive remove, sizes cached per
  descriptor, paths remembered as texts by open files. Correct: a failed call
  loses nothing, but for the target of a `rename()`; no call loses more than it
  names; an open file is where its text says; a listing gives every entry once.
* **SQLite VFS.** SQLite commits by deleting a journal of old pages, and plays
  back one it finds; any call may fail, a write after a part of it, and the
  program may end anywhere. Locks and syncs do nothing. Correct: what is read is
  what was committed, all of it and nothing else.

The hazards, each at its line, are in `PROJECT.json`.

## 2. Modules

* `Sched` -- the scheduler. A thread is where its `pc` says: in the program, or
  between two steps of a shim call. A step is a stretch the code runs with
  interrupts off, or a stretch with interrupts on that reads or writes shared
  state once; between steps `Tick` may fire wherever the code has interrupts on.
  `readyQ` is the sequence that the intrusive list stands for. `ScanTimeouts`,
  `FutexWake`, `Requeue` and `SwitchToHead` are the helpers of the same names in
  the code, composed in the actions that call them. User code is any sequence
  of calls, under the two locks musl holds around clone and tkill.
* `Futex` -- what futexes promise: a call is decided in a state in which its
  word has the expected value, or is refused; a wake takes min(n, all) waiters.
* `Pthread` -- musl's create, exit, join and detach as the client, with
  `Sched`'s actions used through `INSTANCE`. No signals are sent (`Sig` is
  empty). Of the three assumptions `Sched` makes of its client this module meets
  one, `CloneUnderLock`: its clones come one at a time because of musl's list
  lock. `TkillUnderLock` (`pthread_kill()` under `killlock`) and
  `ExitSignalsBlocked` (the masks of an exit) remain assumptions about musl.
* `Signals`, `MCSignals` -- one thread, its calls, its sleep, and the stack of
  ticks that have not returned. A tick goes through `clear` (a signal is
  picked), `start` (its bit is taken, interrupts off), `handler` and `back`; the
  program's calls are possible in its own code and in the innermost handler.
  Other threads raise signals while a tick has gone on to them or the thread is
  parked. From the look at a disposition to the call of its handler is one step.
* `Heap` -- the arena, each call one step, with mallocng's `alloc_meta()` and
  anybody's `mmap()` as clients. Addresses are bytes; the list is a function
  from block address to size, since the code keeps it sorted by address.
* `Program` -- `Heap` from the first instruction on: `Boot` is crt0's size
  check, and `dlopen()` a sequence of steps, one per resource it takes or gives
  back, each of which may fail. Its large allocations are mappings; other
  threads map and unmap in between.
* `Sockets`, `MCSockets` -- the socket table and, as its environment, lwIP's
  control blocks with the callbacks registered on each. A waiting call goes
  through `top` (the test of its loop), `net` (inside `net_poll()`, where any
  number of callbacks may happen), `after` (the test after it), `sleep`, and
  `act` (taking what it waited for). Non-blocking calls are those that give up
  at `after`. There may be any number of threads, but `OthersRest` makes them
  hand over only where a call sleeps: nothing in `net_shim.c` is locked,
  `dns_shim.c:110-112` says it relies on "no concurrent callers to race", and a
  tick that takes the processor away inside a call is not modelled. So a callback
  may arrive in the `net_poll()` of one thread while another is asleep in a call
  on the same socket, but no two threads are between `net_shim.c:303` and 323.
  Of a send buffer are kept whether there is room in it (`buf`, `tcp_sndbuf()`)
  and the length of the queue (`sent`, `tcp_sndqueuelen()`): `send()` looks at the
  first, `poll()` at both, and lwIP may answer ERR_MEM at any time.
  Left out: ports, addresses, iovecs, option values, `FIONREAD`.
* `Backlog` -- what the socket table promises a server: a line of connections
  for each listener and the set of those the program has been given; a client
  arrives at the end of a line, an accept takes its head, a close turns the line
  away. `Sockets` maps a ring (`acceptq[]`, head, tail and count) to the sequence
  `Line` of its entries, and the descriptors the program holds to `given`; all
  other calls and callbacks must leave both as they are.
* `Dns` -- `resolve()`. Nothing bounds lwIP's retries by the 30 seconds of the
  loop, so a query may outlive the call it was for, and its callback comes while
  another waits. `earlier` is a history variable: the queries left over when the
  last call began.
* `Net`, `MCNet` -- extends `Dns` with what comes before and after a lookup:
  the `ip=` parameter (a sequence of fields of which the kind is kept), DHCP or
  a static address, the wait, the fallback servers, and `tls_connect()` step by
  step. DHCP's answers and losses happen inside `net_poll()`. A handshake may
  fail, succeed, or be tried again without end (`tls_shim.c:175-180`).
* `Console`, `MCConsole` -- `read()` and `readv()` of the console, `poll()`,
  `select()` and `nanosleep()` as loops of a thread that may be preempted
  between any two steps. Bytes typed are numbered, so that the kernel's buffer
  is a range; the socket is ready, quiet or closed by another thread.
* `Files` -- the descriptor table, the working directory and the calls on them,
  with lwext4's name space and its `ext4_file` as the environment. A path is the
  sequence of its names. lwext4 may fail to create, to remove or to move a name
  for reasons of its own, so `rename()` may fail after it has removed the target
  (`ext4_shim.c:452-464`). A `getdents()` with a buffer too small for the next
  entry fails with -EINVAL (577-578) and leaves the iterator behind that entry.
  The program is assumed to leave alone what it has open
  (see the module's header): lwext4 frees an open file with its name, and the
  port has nothing to say of that. Left out: symbolic links, stat, time stamps,
  the block device, `ext4_shim_sync()` at exit.
* `Sqlite` -- the VFS as operators that give what each of its calls may answer
  and leave of a file, and SQLite's pager with one connection and a rollback
  journal as the client, one action per call. A file is a sequence of what is
  written at once: pages, records of pages as they were, a header. `Restart`
  keeps the files. As the VFS's header says of lwext4, what a call has written
  is on the disk when it returns. The constants `Relative` and `Dir` say how the
  database is named and where the program goes, `UnlinkFails` whether lwext4 may
  fail to remove a file that is there.
* `SchedProofs`, `PthreadProofs`, `SignalsProofs`, `ProgramProofs`,
  `SocketsProofs`, `NetProofs` (also for `Console`), `FilesProofs`,
  `SqliteProofs` -- proofs, see section 5.

## 3. Runs

Bounds are in the `.cfg` files.

| Run | What it shows | Bounds, and why they are enough |
|---|---|---|
| `sched_live` | queue, running thread, slots, exit, wait results, refinement of `Futex`; ready threads run, timed waits and signalled waits end | main and one worker, one word with two values, and one signal musl blocks before an exit, the third reason to wake; main matters as it is not in `g_threads[]`. Safety and the refinement are proved for every number of threads, so this run is about the liveness |
| `pthread` | stacks, list lock, clones, with no signals sent | three joinable threads in two slots: the fewest for two clones at once with a slot free |
| `pthread_live` | locks granted, exits and joins end | three threads, joinable or detached, through one slot, so that slots are reused |
| `program` | no overlap, merged list, inside the window, nothing kept by `dlopen()` | RAM too small for the image, of nine and of twelve pages; mappings of three and four pages, at most three at a time, two modules: blocks that touch on either side, exact fits, splits, exhaustion, growth, every failure with both blocks held |
| `heap_brk` (violation) | `brk` grants a mapped page | one-page mappings |
| `sockets` | slot ownership, refinement of `Backlog` | three slots: a listener and two connections, so that one can overtake the other, or a listener, a queued connection and one reused meanwhile; two threads, calls limited to accept, so that both can wait on one listener |
| `sockets_live` | the two halves of a socket, window, readiness; settled calls end | two slots, a window, a send queue and rings of one, TCP and UDP; one thread that makes every call and one that polls, in whose `net_poll()` the callbacks for the first one's sleeping call may come |
| `net` | no answer left over, servers, descriptors; calls return | two names, so that one can answer for the other; two connections and three descriptors; 21 command lines: no `ip=`, two of them, each way a client address can be given, a short one, and a name server field of each kind with and without more behind it |
| `files` | open files, failed calls, losses, listings, with lwext4 failing at any call | two descriptors, so that one can be the directory of the other; two names on two levels, two inodes beside the root, so that a directory can hold one and two entries and rename can go over its own parent; sizes to two bytes, so that a write can leave a gap |
| `signals` | masks, blocked signals; the lowest is taken | SIGKILL, a signal fatal by default and one ignored by default; two ticks deep, so that one nests in the other's delivery and in its handler; handlers with a mask, SA_NODEFER, SA_RESTART, SA_RESETHAND |
| `console` | input in order; waits and interrupted reads end | three bytes; a buffer of two, the empty and the one-byte buffer of musl's stdio, and two of one byte: a byte looked at, one read and one that waits |
| `sqlite` | what is read is what was committed | three pages of two values, so that a transaction can change, add and drop pages and leave one alone, and a playback be cut off between records |

Every passing run's properties are each refuted by a mutant: an operator beside
the one it mutates, that differs as a plausible slip in the code would.
`NoOverlap` holds for mappings of more than two pages and not for smaller ones,
which is why `program` and `heap_brk` differ in `MapLen`: mallocng moves its
break by two pages the first time and by one after that.

`CHECK_DEADLOCK FALSE` is set where the system may stop: in `Sockets` a program
may have closed everything and be unable to open more while a control block
lingers, and nobody polls; in `Signals` a fatal signal ends the program; in
`Program` crt0 gives up when the image does not fit.

### The violation, and three conditions

`heap_brk` is a run that fails: a break request that equals `heap_cur` passes
for a success, so that mallocng takes for its own what `mmap()` has given out.

Two other properties, `ExitingStaysParked` and `Atomic`, hold only under
conditions that constants state. Changing a constant in the `.cfg` shows what
happens without them:

* `Sched` with two workers and a signal in `Sig` that is not in `AppSig`
  (SIGCANCEL, which musl
  leaves open around an exit) breaks `ExitingStaysParked`: `scan_timeouts()`
  wakes any blocked thread with a deliverable signal (`thread_shim.c:315-319`),
  an exiting one too, against the comment "never wake an exiting thread back
  onto the ready queue" (`thread_shim.c:766`).
* `Sqlite` with `Relative` and two directories breaks `Atomic`:
  `ext2FullPathname()` returns a relative name unchanged, so after a `chdir()`
  SQLite's journal and its database part company: a transaction whose rollback
  was cut short is never rolled back, and the journal of a committed one stays
  behind and undoes it at the next start.
* `Sqlite` with `UnlinkFails` breaks `Atomic`: `ext2Delete()` drops the result of
  `unlink()`, and with it the news that a transaction reported committed will be
  undone by the next start.

### What the properties leave out, where the code falls short

Four of the properties except a case in which the code does not do what its
comments say or a reader would expect. The models contain each case, and none of
these has a failing run of its own:

* `AnswerNotStale` excepts an address that belongs to a query an earlier
  `resolve()` had given up. Such a late callback completes the next `resolve()`
  with the other name's address, although `dns_shim.c:83-84` says that it "just
  harmlessly writes into memory nobody's reading anymore"; what 75-79 says of
  lwIP's retries does not bound them by the 30 seconds. Without
  `\/ result \in earlier` the property is violated.
* `PollHonest` says of a connected stream only that, if `poll()` calls it
  writable, there is some length `send()` would take, memory allowing.
  `bsock_write()` does not look at the length of the send queue and takes ERR_MEM
  for a full buffer (`net_shim.c:704-705`), and it does not try a shorter write:
  a long one may find the socket writable and wait.
* `FailureKeepsFiles` excepts the target of a `rename()` that failed after it had
  removed it, as the comment at `ext4_shim.c:425-428` admits; nothing else may be
  lost.
* `ListedOnce` excepts the entries on which `getdents()` failed with -EINVAL: the
  iterator has passed them, and a second call with a larger buffer goes on with
  the next (`ext4_shim.c:577-578`, where 584 would put the entry back).

## 4. Fairness

* `Sched` (`FairSpec`): a thread inside a shim call goes on with it when it has
  the CPU, ticks keep coming and time passes: the kernel's timer runs every
  millisecond and the code with interrupts off is straight-line. User code is
  not assumed to do anything.
* `Pthread`: as above, and threads inside musl's lock, exit and join routines go
  on. Strong, as each gets the CPU again and again but loses it in between.
* `Sockets`: a thread inside a call goes on with it. `net_poll()` is assumed to
  find the receive ring empty at some point, and the sleep of one round to end,
  which is `TimedWaitEnds` of `Sched`. That is strong fairness: what other threads
  call in the meantime does not keep a sleeper from the processor for ever, which
  is `ReadyRuns` of `Sched`. No callback is assumed to happen.
* `Net`: the bring-up, the loop of `resolve()` and the call go on, and 30 seconds
  pass in a loop that looks at the time again and again. `connect()` ends at the
  latest with lwIP's last SYN. Neither DHCP nor a name server is assumed to
  answer, nor lwIP to give a query up; and nothing is assumed of a handshake,
  which is why `CallReturns` goes only that far.
* `Signals`: ticks keep coming, a tick goes on where it is and its handler
  returns; between two ticks the thread gets on with its own sleep, strongly, as
  a tick takes the CPU from it again and again. Nothing makes the program
  unblock a signal.
* `Console`: the thread goes on with its call, ticks scan the parked threads,
  time passes. Nobody need type, send or signal.

## 5. Proofs

All hold for every value of the constants, under the modules' named
assumptions and what is said here. Every safety and action property that a
passing run checks is the statement of a theorem; each inductive invariant was
checked with TLC before it was proved.

`SchedProofs` proves, for any number of threads, words and signals, that the
inductive invariant `IInv` is kept, and from it `TypeCorrect` and the properties
the runs check: `StatesCorrect`, `SlotsSafe`, `ExitSafe`,
`WaitResults`. Each assumes `Sig \subseteq AppSig`: the signals are ones musl
blocks around an exit. Without it `ExitingStaysParked` is false (section 3).

Why an invariant of its own is needed: that the ready queue is exact says
nothing of where a thread is in its call. `IInv` adds that a slot whose `pc` is
inside a call is in use (`SlotInUse`), that the current thread's slot is
(`CurInUse`), that a thread in an idle loop is the current one
(`LoopsAreCurrent`), that a blocked thread is at a point where it waits
(`BlockedIsParked`), what each wake reason implies (`WakeReasons`), what an
exiting thread's fields are (`Exiting`), and that what a tkill, a clone or a
wait has already looked up is still valid (`RaiseTargets`, `CloneTargets`,
`FutexArgs`). The proof has one lemma per action and in it one step per conjunct.

Its last theorem is `RefinesFutex`: every behaviour of `Sched` is one of
`Futex`, through the mapping that takes a wait set to the threads with that
`wait_addr`, and an undecided call (`Asked`, `Expected`) to a thread between its
call and its park. The step that matters is `FutexPark`: the word is tested
again with interrupts off, so a thread joins the wait set only while the word
still has the value it was called with.

`PthreadProofs` proves `ListLock`, `CloneSlots` and `StacksSafe` for any number of
slots and threads and any mix of joinable and detached ones, and `MuslUsesSched`:
every step of musl's threads is a step of `Sched`. That lemma (`SchedStep`) comes
first, as it brings in the invariant of `SchedProofs` (instance `ShimP`) and
with it all that is known of the scheduler: `MuslWaits` concludes that the
theorems about `Sched`, the refinement of `Futex` among them, hold of threads
that are created, exit and join. This is about programs that send their threads
no signals: it discharges `CloneUnderLock`, while what `Sched` assumes of
`pthread_kill()` and of the signal masks around an exit is neither used nor
shown. `MuslInv` adds musl's half:

* `LockHeld`: a thread that is anywhere from its `a_cas()` to `__tl_unlock()`
  has its identity in `__thread_list_lock`; for an exiting thread the section
  ends in the shim, at the store to `*ctid` (`exit_ctid`). Two owners would be two
  values of one word, so the lock is exclusive, and so are two creators in
  `alloc_thread_slot()`.
* `Joiner`: what `pthread_join()` may conclude. Having seen `detach_state` EXITED,
  it passes the lock once; when it then reads the lock word as free or held by
  another, the exit it waits for has released it (`Released`), and a thread that
  has done that does not leave the CPU before its slot is free.
* `Exited`, `OneEach`, `Counted`: EXITED is set in the last critical section; a
  thread runs in one slot, and one thread creates or joins it.
* `Stacks`: what is unmapped belongs to a thread on that last stretch, whether the
  joiner, the thread itself or a creator whose clone failed has unmapped it.

`SignalsProofs` proves `MaskComesBack` and `NoneHandledBlocked`, for any depth
of nested ticks. `MaskRestored` is inductive: the outermost handler keeps the
program's mask, and only the innermost code can change the current one. That a
signal picked a while ago is still not blocked when its handler starts needs
`TakenUnblocked`: for each delivery on its way to a handler, its signal is
outside the mask saved by the lowest handler above it on the stack, or, if there
is none, outside the current one, so each handler that returns restores a mask
that leaves it open.

`ProgramProofs` proves of `Program`, and so of the arena of `Heap`,
`StaysInWindow`, `ListCoalesces`, `LoaderCleansUp` and `MappingsApart` without
further assumptions: whatever lengths are mapped and whatever `brk()` is asked
for, no two mappings share a byte and nothing mapped is free. That mallocng's
metadata has no second owner either (`NoOverlap`) is false in general, as
`heap_brk` shows; `OnlyLandingShares` proves it of every behaviour in which no
mapping moves `heap_cur` to exactly the break that `alloc_meta()` will ask for
next (`Lands`), so that the equality granted at `posix_shim.c:149` is the only
gap. The run `program` keeps out of it by the sizes of its mappings, three pages
and four. `Inserted` is the lemma about the two-step merge of
`free_list_insert()`: the blocks do not touch afterwards, and whatever was apart
from the list and from the range given back is apart from the new list. It needs
no maximum to exist, because a block that ends where the new one begins is the
last before it. `Allocated` is its counterpart for `sys_mmap()`. `ArenaInv`
joins the parts: blocks in use are apart from each other and from the list, all
below the bump pointer. `BrkInv` is why mallocng's metadata is safe: the bump
pointer is where mallocng's break is (`AtBreak`), or one page further because of
the guard page nobody uses (`AfterGuard`), or because of a page mapped before
there is any metadata, which will lie beyond it (`BeforeFirst`), or it is beyond
what `alloc_meta()` will ask for (`Beyond`) and `brk()` refuses. `LoaderInv`
says which of its two blocks `dlopen()` holds at each of its steps.

`SocketsProofs` proves `PcbsAgree`, `WindowKept`, `PollTells` and `SlotsShared`,
for any number of slots, threads and control blocks. The threads are those of
the module, which hand over only where a call sleeps; nothing is claimed of a
tick inside `socket()`, `recv()` or `accept()`. `OneAwake` is what that gives:
one thread at most is in a call and not asleep. Two threads may wait in
`accept()` on one listener; the one that wakes first takes the connection and
the other looks again. The parts of `IInv`: `Rings` (head, tail and count of
each `acceptq[]` describe one another), `Queues` (no slot is in two places of
the rings, and none that is queued has been given to the program), `Owned` (a
slot in use is the program's or queued), `Blocks` (which control blocks have an
owner, and which callbacks they then have registered), `Quiet` (nothing arrives
on a stream that is not connected), `Callers` (what a thread in `act` has seen
is still there: it has not slept since), and the two properties that are
inductive themselves, `PcbAgrees` and `WindowExact`. The ring's arithmetic
modulo `SockMax` is in `RingGrows` and `RingShrinks`.

Its last result is `RefinesBacklog`: every behaviour of `Sockets` is one of
`Backlog`. A ring is read as the sequence of its entries from the head on,
wherever in the array it lies (`RingSeq`); `RingAppends` and `RingTail` say that
storing at the tail appends to that sequence and moving the head on takes its
first, across the end of the array, and that a ring in which nothing is written
keeps its sequence. Then each action is looked at: `OnAccept` is an arrival of a
slot that `IInv` shows to be in no line (a free slot is not queued), accept a
`Take` of one not given out before, close of a listener frees those in its line
and no one else's; and the callbacks of a reset, of data or of the end of a
stream, which may all hit a connection that is still waiting, leave line and
program alone (`OthersUnseen`).

`NetProofs` proves `LookupsRight`, `ServersRight` and `TlsLosesNothing`.
`LookupInv`: lwIP has a query in progress only for the name the caller is waiting
for or one left over when it began, and what the callback has written is the
address of such a name. `ServerInv`: at each stage of the bring-up a server is
the one with the best claim so far (`Claim`), and no lease comes with a static
address. `TlsInv`: the slot that `tls_connect()` has in hand is still free until
it takes it, and its descriptor is in no other.

It also proves `InputArrives` about `Console`, for any number of bytes and any
buffers: a `read()` that goes to the console has handed out the byte `poll()`
took before (`InputInv`), so that byte comes first in what the program reads.

`FilesProofs` proves `DescriptorsRight`, `EntriesOnce`, `FailureKeeps` and
`LosesOne`, for any names, depth of paths, sizes and numbers of inodes and
descriptors. `IInv`: the name space is a tree (`IsTree`: what is above a name is
a directory, and an inode has one name), each open slot leads where it says
(`Leads`), and a file that is written has one descriptor (`Alone`). The work is
in the operators: `CreatedIs`, `RemovedIs` and `MovedIs` say what a creation, a
removal and a rename leave at each path, and the lemmas after them that the
result is a tree and that open files still lead where they did. A rename moves
all that is below a directory, so its lemmas are about replacing a prefix of a
path: distinct paths stay distinct, what is above a path stays above it, and the
two subtrees are apart (no program of `Files` moves a directory below itself).
That the first free descriptor exists needs that a non-empty set of numbers has
a least element, which `LeastOf` takes from the well-foundedness of `<`
(`WFMin`).

`SqliteProofs` proves `CommitsAtomically` and `CommitsForGood` under `Stays`: the
database's name is absolute or the program stays in one directory, and
`unlink()` does what it reports. The heart is `OnDisk`, which holds at every
moment, so that a restart may come at any: what is on the disk is the committed
database, or beside it lies a journal with a whole header whose records turn it
back into that. `Saving`, `Writing`, `Playing` and `Ending` add what each part of
the pager's work knows: that a page is recorded before it is written over, which
records have been played. `WrittenUndone` and `ResizedUndone` are why a write,
also a torn one, and a truncation leave the journal as good as it was.

Only model-checked: liveness under fairness (`ReadyRuns`, `TimedWaitEnds`,
`SignalEndsWait`, `LockGranted`, `ExitCompletes`, `JoinReturns`,
`SettledCallEnds`, `CallReturns`, `LowestTaken`, `WaitEnds`,
`InterruptEndsRead`), which is beyond the prover.

## 6. What could come next

* `Sockets`: ticks inside the calls of two threads, and what then remains true
  of the table.
* `Program` and `Heap`: calls of two threads inside `mmap()` at once.
* `Files`: symbolic links, `stat`, and `ext4_shim_sync()` at exit with a block
  device that may lose what was not written; an abstract POSIX name space that
  `Rename` implements.

## 7. Not modelled, and why

* The kernel, lwIP, lwext4, mbedTLS and musl are outside this repository; they
  appear as environments, as far as the port relies on them. The inside of lwIP
  under preemption (it is not reentrant) cannot be said anything about from here.
* Several threads inside what the port writes for one. Two that accept on one
  listener, preempted inside `accept()`, may both take the connection each has
  seen queued (`net_shim.c:445`), and two in `socket()` the same slot (303,
  323); two in the bring-up, or in `tls_connect()`, pass the same flag or slot
  (`net_glue.c:397`, `tls_shim.c:136`); two inside `mmap()` and `munmap()` have
  nothing in `posix_shim.c` to keep them apart. `Sockets` has threads that hand
  over only where a call sleeps, the others have one thread, and their
  properties hold for those.
* `rename()` compares texts, so `rename("a", "./a")` removes the file it was to
  move (`ext4_shim.c:444`); `Files` writes each path one way. It has no second
  descriptor on a file that is written.
* `thread_shim_exit_current()` enables interrupts while still on the stack that
  `__unmapself` has unmapped, against the comment in the musl patch; what keeps
  this harmless is checked (`StackNotReusedWhileLive`).
* In `Signals`: a disposition that a nested handler changes between its test and
  its use. `nanosleep()` returns
  -EINTR also after a handler with SA_RESTART or an ignored signal
  (`thread_shim.c:962`); this is modelled as it is, with no property about it.
* In `Console`: a `select()` does not notice that a descriptor it waits for has
  been closed (`posix_shim.c:1080`); `WaitEnds` excepts it.
* The `args=` parser and the stack `crt0.c` builds, `dlsym()` and the arithmetic
  of relocations: data without a state that anything else touches.
* In `Sqlite`: a second connection, which takes the first's journal for one a
  crash has left, since no lock is ever reserved (`sqlite_vfs.c:239`); temporary
  files, removed by a relative name (`sqlite_vfs.c:145`); a `stat()` that fails,
  which passes for a missing journal (`sqlite_vfs.c:344`); and whether lwext4's
  cache is as write-through as the VFS says.
* Register and stack switching, the dispatch table, formatting, configuration
  headers (most lines of the repository), language glue, example programs and
  build scripts have no behaviour a model checker adds anything to.
