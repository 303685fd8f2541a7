------------------------------- MODULE Sched -------------------------------
(***************************************************************************)
(* The thread scheduler of port/thread_shim.c: thread slots, the ready     *)
(* queue, futex wait/wake/requeue, timed sleep, clone, exit, sched_yield,  *)
(* signal raising and the 1 ms timer tick.                                 *)
(*                                                                         *)
(* There is one CPU.  Code between irq_disable() and irq_enable() is one   *)
(* atomic step; every state of the model is a point at which interrupts    *)
(* are enabled, so a tick can land in every state.  `cur` is g_current,    *)
(* the thread whose stack the CPU is on; pc[s] is where thread s is: in    *)
(* application code ("user"), or at one of the interrupt-enabled points    *)
(* of a scheduler call.                                                    *)
(*                                                                         *)
(* Abstractions.  TIMECOUNTER deadlines are "none", "armed" or "passed",   *)
(* and time passes one deadline at a time.  A thread is named by its slot  *)
(* (0 is g_main_thread, i is g_threads[i-1]); tids are not kept.  A caught *)
(* signal's handler is a no-op here, and a tick does not nest in a tick.   *)
(* FS base and the FXSAVE image travel with `cur` and are not kept.        *)
(***************************************************************************)
EXTENDS Integers, Sequences, FiniteSets, Functions

CONSTANTS
  MaxThreads,   \* THREAD_SHIM_MAX_THREADS: the number of g_threads[] slots
  Addr,         \* futex words
  Val,          \* what a futex word may hold; 0 is what the exit path stores
  NoAddr,       \* a null wait_addr or ctid
  Sig,          \* the signals the program raises
  AppSig        \* those musl blocks before a thread exits (not SIGCANCEL)

ASSUME MaxThreadsAssumption == MaxThreads \in Nat \ {0}
ASSUME ValAssumption == 0 \in Val
ASSUME AddrAssumption == NoAddr \notin Addr
ASSUME SigAssumption == Sig \subseteq Nat

Slot == 0 .. MaxThreads
Main == 0
Workers == Slot \ {Main}

VARIABLES
  state,       \* bmos_thread.state
  readyQ,      \* g_ready_head .. g_ready_tail
  cur,         \* g_current
  active,      \* g_active
  pc,          \* where each thread is
  arg,         \* the arguments of the call it is in
  waitAddr,    \* bmos_thread.wait_addr
  deadline,    \* bmos_thread.wait_deadline_ns
  wakeReason,  \* bmos_thread.wake_reason
  ctid,        \* bmos_thread.ctid
  sigPending,  \* bmos_thread.sig_pending
  sigBlocked,  \* bmos_thread.sig_blocked
  mem          \* the futex words

schedVars  == <<state, readyQ, cur, active>>
waitVars   == <<waitAddr, deadline, wakeReason>>
sigVars    == <<sigPending, sigBlocked>>
vars == <<schedVars, waitVars, sigVars, pc, arg, ctid, mem>>

ThreadStates == {"FREE", "READY", "RUNNING", "BLOCKED"}
ExitPcs == {"exit_ctid", "exit_wake", "exit_deq", "exit_scan"}
ParkPcs == {"park", "idle", "unpark"}
Pcs == {"none", "user", "fw_sig", "fw_lock", "sl_lock", "clone_fill", "raise"}
         \cup ParkPcs \cup ExitPcs
Args == [addr : Addr \cup {NoAddr}, val : Val, timed : BOOLEAN, slot : Slot]
NoArg == [addr |-> NoAddr, val |-> 0, timed |-> FALSE, slot |-> Main]

TypeOK ==
  /\ state \in [Slot -> ThreadStates]
  /\ readyQ \in Seq(Slot)
  /\ cur \in Slot
  /\ active \in BOOLEAN
  /\ pc \in [Slot -> Pcs]
  /\ arg \in [Slot -> Args]
  /\ waitAddr \in [Slot -> Addr \cup {NoAddr}]
  /\ deadline \in [Slot -> {"none", "armed", "passed"}]
  /\ wakeReason \in [Slot -> {"NONE", "SIGNAL", "TIMEOUT", "INTR"}]
  /\ ctid \in [Slot -> Addr \cup {NoAddr}]
  /\ sigPending \in [Slot -> SUBSET Sig]
  /\ sigBlocked \in [Slot -> SUBSET Sig]
  /\ mem \in [Addr -> Val]

\* Before the first pthread_create() only the main thread exists, and even
\* g_main_thread.state is still the BSS zero, T_FREE.
Init ==
  /\ state = [s \in Slot |-> "FREE"]
  /\ readyQ = <<>>
  /\ cur = Main
  /\ active = FALSE
  /\ pc = [s \in Slot |-> IF s = Main THEN "user" ELSE "none"]
  /\ arg = [s \in Slot |-> NoArg]
  /\ waitAddr = [s \in Slot |-> NoAddr]
  /\ deadline = [s \in Slot |-> "none"]
  /\ wakeReason = [s \in Slot |-> "NONE"]
  /\ ctid = [s \in Slot |-> NoAddr]
  /\ sigPending = [s \in Slot |-> {}]
  /\ sigBlocked = [s \in Slot |-> {}]
  /\ mem = [a \in Addr |-> 0]

-----------------------------------------------------------------------------
(* Helpers *)

\* The slots of W in the order a `for (i = 0; ...)` scan over thread_at(i)
\* visits them.  The set has exactly one member.
InSlotOrder(W) ==
  {q \in [1 .. Cardinality(W) -> W] :
     \A i, j \in 1 .. Cardinality(W) : i < j => q[i] < q[j]}

Deliverable(s) == sigPending[s] \ sigBlocked[s]

\* thread s runs application code and the CPU is on it
InUser(s) == cur = s /\ pc[s] = "user"

Goto(s, l) == pc' = [pc EXCEPT ![s] = l]

\* Mutants of ScanWakes: the scan is over g_threads[] and misses
\* g_main_thread; a thread without a deadline is skipped before its signals
\* are looked at.
ScanWakesNotMain ==
  {s \in Workers : /\ state[s] = "BLOCKED"
                   /\ Deliverable(s) # {} \/ deadline[s] = "passed"}
ScanWakesTimedOnly ==
  {s \in Slot : /\ state[s] = "BLOCKED" /\ deadline[s] # "none"
                /\ Deliverable(s) # {} \/ deadline[s] = "passed"}

\* scan_timeouts(): the parked threads it wakes, and why
ScanWakes ==
  {s \in Slot : /\ state[s] = "BLOCKED"
                /\ Deliverable(s) # {} \/ deadline[s] = "passed"}

\* Mutant of ScanReason: every scan wake reports a timeout
ScanReasonTimeout(s) == "TIMEOUT"

ScanReason(s) == IF Deliverable(s) # {} THEN "INTR" ELSE "TIMEOUT"

\* wake_thread_locked() on every slot of W
ClearWait(W, Reason(_)) ==
  /\ waitAddr' = [s \in Slot |-> IF s \in W THEN NoAddr ELSE waitAddr[s]]
  /\ wakeReason' = [s \in Slot |-> IF s \in W THEN Reason(s) ELSE wakeReason[s]]

Readied(W) == [s \in Slot |-> IF s \in W THEN "READY" ELSE state[s]]

\* scan_timeouts() as a whole step
ScanTimeouts ==
  \E q \in InSlotOrder(ScanWakes) :
    /\ state' = Readied(Range(q))
    /\ readyQ' = readyQ \o q
    /\ ClearWait(Range(q), ScanReason)

\* Mutant of FutexWake: the scan is over g_threads[] and misses g_main_thread
FutexWakeNotMain(a, n) ==
  \E q \in InSlotOrder({s \in Workers : state[s] = "BLOCKED" /\ waitAddr[s] = a}) :
    LET w == SubSeq(q, 1, IF n < Len(q) THEN n ELSE Len(q)) IN
    /\ state' = Readied(Range(w))
    /\ readyQ' = readyQ \o w
    /\ ClearWait(Range(w), LAMBDA s : "SIGNAL")

\* futex_wake(a, n): the first n threads parked on a, in slot order
FutexWake(a, n) ==
  \E q \in InSlotOrder({s \in Slot : state[s] = "BLOCKED" /\ waitAddr[s] = a}) :
    LET w == SubSeq(q, 1, IF n < Len(q) THEN n ELSE Len(q)) IN
    /\ state' = Readied(Range(w))
    /\ readyQ' = readyQ \o w
    /\ ClearWait(Range(w), LAMBDA s : "SIGNAL")

\* thread_shim_init(), made by the first clone, tkill or kill
ShimInit ==
  /\ active' = TRUE
  /\ state' = IF active THEN state ELSE [state EXCEPT ![Main] = "RUNNING"]

\* The head of queue q becomes the running thread.  `st` is the state array
\* as the caller left it.
SwitchToHead(st, q) ==
  /\ cur' = Head(q)
  /\ readyQ' = Tail(q)
  /\ state' = [st EXCEPT ![Head(q)] = "RUNNING"]

\* Mutant of Requeue: the running thread is put back at the head
RequeueFront(st, q) == SwitchToHead([st EXCEPT ![cur] = "READY"], <<cur>> \o q)

\* reschedule(1): the running thread goes to the back of the queue first
Requeue(st, q) == SwitchToHead([st EXCEPT ![cur] = "READY"], Append(q, cur))

-----------------------------------------------------------------------------
(* futex_wait() and thread_shim_sleep_until() *)

\* The two unlocked tests of futex_wait() before the signal test.  Failing
\* one returns -EAGAIN, which changes nothing.
CallFutexWait(s, a, v, timed) ==
  /\ InUser(s)
  /\ IF active /\ mem[a] = v
       THEN /\ Goto(s, "fw_sig")
            /\ arg' = [arg EXCEPT ![s] = [addr |-> a, val |-> v, timed |-> timed,
                                          slot |-> Main]]
       ELSE UNCHANGED <<pc, arg>>
  /\ UNCHANGED <<schedVars, waitVars, sigVars, ctid, mem>>

\* A signal already deliverable at entry returns -EINTR without parking.
FutexSignalTest(s) ==
  /\ cur = s /\ pc[s] = "fw_sig"
  /\ Goto(s, IF Deliverable(s) = {} THEN "fw_lock" ELSE "user")
  /\ UNCHANGED <<schedVars, waitVars, sigVars, arg, ctid, mem>>

\* Mutant of FutexPark: the word is not tested again
FutexParkUnchecked(s) ==
  /\ cur = s /\ pc[s] = "fw_lock"
  /\ state' = [state EXCEPT ![s] = "BLOCKED"]
  /\ waitAddr' = [waitAddr EXCEPT ![s] = arg[s].addr]
  /\ deadline' = [deadline EXCEPT ![s] = IF arg[s].timed THEN "armed" ELSE "none"]
  /\ wakeReason' = [wakeReason EXCEPT ![s] = "NONE"]
  /\ Goto(s, "park")
  /\ UNCHANGED <<readyQ, cur, active, sigVars, arg, ctid, mem>>

\* The irq-disabled part: test the word again, then park.
FutexPark(s) ==
  /\ cur = s /\ pc[s] = "fw_lock"
  /\ IF mem[arg[s].addr] # arg[s].val
       THEN /\ Goto(s, "user")
            /\ UNCHANGED <<state, waitVars>>
       ELSE /\ state' = [state EXCEPT ![s] = "BLOCKED"]
            /\ waitAddr' = [waitAddr EXCEPT ![s] = arg[s].addr]
            /\ deadline' = [deadline EXCEPT ![s] =
                              IF arg[s].timed THEN "armed" ELSE "none"]
            /\ wakeReason' = [wakeReason EXCEPT ![s] = "NONE"]
            /\ Goto(s, "park")
  /\ UNCHANGED <<readyQ, cur, active, sigVars, arg, ctid, mem>>

\* thread_shim_sleep_until() up to its irq_disable(): a deliverable signal
\* or a target already reached returns at once.  (Before thread_shim_init()
\* the call is a plain HLT loop.)
CallSleep(s) ==
  /\ InUser(s)
  /\ Goto(s, IF active /\ Deliverable(s) = {} THEN "sl_lock" ELSE "user")
  /\ UNCHANGED <<schedVars, waitVars, sigVars, arg, ctid, mem>>

SleepPark(s) ==
  /\ cur = s /\ pc[s] = "sl_lock"
  /\ state' = [state EXCEPT ![s] = "BLOCKED"]
  /\ waitAddr' = [waitAddr EXCEPT ![s] = NoAddr]
  /\ deadline' = [deadline EXCEPT ![s] = "armed"]
  /\ wakeReason' = [wakeReason EXCEPT ![s] = "NONE"]
  /\ Goto(s, "park")
  /\ UNCHANGED <<readyQ, cur, active, sigVars, arg, ctid, mem>>

\* reschedule(0) with interrupts off: resume the head of the ready queue,
\* which may be this very thread if it was woken meanwhile.
ParkSwitch(s) ==
  /\ cur = s /\ pc[s] = "park"
  /\ IF readyQ = <<>>
       THEN /\ Goto(s, "idle")
            /\ UNCHANGED <<state, readyQ, cur>>
       ELSE /\ SwitchToHead(state, readyQ)
            /\ Goto(s, "unpark")
  /\ UNCHANGED <<active, waitVars, sigVars, arg, ctid, mem>>

\* reschedule(0) with nothing to run: scan_timeouts(), SLEEP, try again.
ParkIdle(s) ==
  /\ cur = s /\ pc[s] = "idle"
  /\ ScanTimeouts
  /\ Goto(s, "park")
  /\ UNCHANGED <<cur, active, deadline, sigVars, arg, ctid, mem>>

\* Mutant of Unpark: wait_deadline_ns is not reset
UnparkKeepsDeadline(s) ==
  /\ cur = s /\ pc[s] = "unpark"
  /\ wakeReason' = [wakeReason EXCEPT ![s] = "NONE"]
  /\ arg' = [arg EXCEPT ![s] = NoArg]
  /\ Goto(s, "user")
  /\ UNCHANGED <<schedVars, waitAddr, deadline, sigVars, ctid, mem>>

\* The caller of reschedule(0) runs again: it drops its deadline and returns
\* what the wake reason says.  (Nothing reads the reason again, so the model
\* forgets it.)
Unpark(s) ==
  /\ cur = s /\ pc[s] = "unpark"
  /\ deadline' = [deadline EXCEPT ![s] = "none"]
  /\ wakeReason' = [wakeReason EXCEPT ![s] = "NONE"]
  /\ arg' = [arg EXCEPT ![s] = NoArg]
  /\ Goto(s, "user")
  /\ UNCHANGED <<schedVars, waitAddr, sigVars, ctid, mem>>

-----------------------------------------------------------------------------
(* Calls that do not park *)

\* futex_wake(), and futex_requeue(), which wakes nr_wake + nr_requeue
CallFutexWake(s, a, n) ==
  /\ InUser(s) /\ active /\ n > 0
  /\ FutexWake(a, n)
  /\ UNCHANGED <<cur, active, deadline, sigVars, pc, arg, ctid, mem>>

\* the application stores to a futex word
UserWrite(s, a, v) ==
  /\ InUser(s)
  /\ mem' = [mem EXCEPT ![a] = v]
  /\ UNCHANGED <<schedVars, waitVars, sigVars, pc, arg, ctid>>

CallYield(s) ==
  /\ InUser(s) /\ active
  /\ Requeue(state, readyQ)
  /\ UNCHANGED <<active, waitVars, sigVars, pc, arg, ctid, mem>>

\* rt_sigprocmask(SIG_SETMASK, B)
CallSetMask(s, B) ==
  /\ InUser(s)
  /\ sigBlocked' = [sigBlocked EXCEPT ![s] = B]
  /\ UNCHANGED <<schedVars, waitVars, sigPending, pc, arg, ctid, mem>>

\* thread_shim_tkill(): find_thread_by_tid() ...
CallTkill(s, t) ==
  /\ InUser(s)
  /\ ShimInit
  /\ t = Main \/ state[t] # "FREE"
  /\ Goto(s, "raise")
  /\ arg' = [arg EXCEPT ![s] = [NoArg EXCEPT !.slot = t]]
  /\ UNCHANGED <<readyQ, cur, waitVars, sigVars, ctid, mem>>

\* ... then raise_pending() on the slot it found
RaisePending(s, sig) ==
  /\ cur = s /\ pc[s] = "raise"
  /\ sigPending' = [sigPending EXCEPT ![arg[s].slot] = @ \cup {sig}]
  /\ arg' = [arg EXCEPT ![s] = NoArg]
  /\ Goto(s, "user")
  /\ UNCHANGED <<schedVars, waitVars, sigBlocked, ctid, mem>>

-----------------------------------------------------------------------------
(* thread_shim_clone() *)

FreeSlots == {t \in Workers : state[t] = "FREE"}

\* alloc_thread_slot() takes the first free slot and clone fills it in, with
\* interrupts enabled.  No free slot is -EAGAIN.
CallClone(s, c) ==
  /\ InUser(s)
  /\ ShimInit
  /\ \/ /\ FreeSlots = {}
        /\ UNCHANGED <<pc, arg, waitVars, sigVars, ctid>>
     \/ \E t \in FreeSlots :
          /\ \A u \in FreeSlots : t <= u
          /\ Goto(s, "clone_fill")
          /\ arg' = [arg EXCEPT ![s] = [NoArg EXCEPT !.slot = t]]
          /\ ctid' = [ctid EXCEPT ![t] = c]
          /\ waitAddr' = [waitAddr EXCEPT ![t] = NoAddr]
          /\ deadline' = [deadline EXCEPT ![t] = "none"]
          /\ wakeReason' = [wakeReason EXCEPT ![t] = "NONE"]
          /\ sigPending' = [sigPending EXCEPT ![t] = {}]
          /\ sigBlocked' = [sigBlocked EXCEPT ![t] = sigBlocked[s]]
  /\ UNCHANGED <<readyQ, cur, mem>>

\* Mutant of CloneReady: *ctid is cleared when the thread starts
CloneReadyClearsCtid(s) ==
  /\ cur = s /\ pc[s] = "clone_fill"
  /\ state' = [state EXCEPT ![arg[s].slot] = "READY"]
  /\ readyQ' = Append(readyQ, arg[s].slot)
  /\ pc' = [pc EXCEPT ![s] = "user", ![arg[s].slot] = "user"]
  /\ mem' = [mem EXCEPT ![ctid[arg[s].slot]] = 0]
  /\ arg' = [arg EXCEPT ![s] = NoArg]
  /\ UNCHANGED <<cur, active, waitVars, sigVars, ctid>>

\* The last, irq-disabled part: the new thread joins the ready queue.  It
\* starts in bmos_thread_trampoline(), which only enables interrupts.
CloneReady(s) ==
  /\ cur = s /\ pc[s] = "clone_fill"
  /\ state' = [state EXCEPT ![arg[s].slot] = "READY"]
  /\ readyQ' = Append(readyQ, arg[s].slot)
  /\ pc' = [pc EXCEPT ![s] = "user", ![arg[s].slot] = "user"]
  /\ arg' = [arg EXCEPT ![s] = NoArg]
  /\ UNCHANGED <<cur, active, waitVars, sigVars, ctid, mem>>

-----------------------------------------------------------------------------
(* thread_shim_exit_current(), reached only by a worker's bare SYS_exit *)

\* Mutants of CallExit: the slot is recycled at once; the thread is left
\* T_RUNNING and can be preempted on its way out.
CallExitFrees(s) ==
  /\ InUser(s) /\ s # Main
  /\ state' = [state EXCEPT ![s] = "FREE"]
  /\ waitAddr' = [waitAddr EXCEPT ![s] = NoAddr]
  /\ Goto(s, IF ctid[s] = NoAddr THEN "exit_deq" ELSE "exit_ctid")
  /\ UNCHANGED <<readyQ, cur, active, deadline, wakeReason, sigVars, arg, ctid, mem>>
CallExitUnparked(s) ==
  /\ InUser(s) /\ s # Main
  /\ waitAddr' = [waitAddr EXCEPT ![s] = NoAddr]
  /\ Goto(s, IF ctid[s] = NoAddr THEN "exit_deq" ELSE "exit_ctid")
  /\ UNCHANGED <<state, readyQ, cur, active, deadline, wakeReason, sigVars, arg,
                 ctid, mem>>

\* state = T_BLOCKED, wait_addr = 0, with interrupts off

CallExit(s) ==
  /\ InUser(s) /\ s # Main
  /\ state' = [state EXCEPT ![s] = "BLOCKED"]
  /\ waitAddr' = [waitAddr EXCEPT ![s] = NoAddr]
  /\ Goto(s, IF ctid[s] = NoAddr THEN "exit_deq" ELSE "exit_ctid")
  /\ UNCHANGED <<readyQ, cur, active, deadline, wakeReason, sigVars, arg, ctid, mem>>

ExitClearCtid(s) ==
  /\ cur = s /\ pc[s] = "exit_ctid"
  /\ mem' = [mem EXCEPT ![ctid[s]] = 0]
  /\ Goto(s, "exit_wake")
  /\ UNCHANGED <<schedVars, waitVars, sigVars, arg, ctid>>

\* Mutant of ExitWake: *ctid is cleared and nobody is woken
ExitWakeNobody(s) ==
  /\ cur = s /\ pc[s] = "exit_wake"
  /\ Goto(s, "exit_deq")
  /\ UNCHANGED <<schedVars, waitVars, sigVars, arg, ctid, mem>>

ExitWake(s) ==
  /\ cur = s /\ pc[s] = "exit_wake"
  /\ FutexWake(ctid[s], 1)
  /\ Goto(s, "exit_deq")
  /\ UNCHANGED <<cur, active, deadline, sigVars, arg, ctid, mem>>

\* The slot is recycled in the step that leaves the thread's stack.
ExitSwitch(s) ==
  /\ cur = s /\ pc[s] = "exit_deq"
  /\ IF readyQ = <<>>
       THEN /\ Goto(s, "exit_scan")
            /\ UNCHANGED <<state, readyQ, cur>>
       ELSE /\ cur' = Head(readyQ)
            /\ readyQ' = Tail(readyQ)
            /\ state' = [state EXCEPT ![Head(readyQ)] = "RUNNING", ![s] = "FREE"]
            /\ Goto(s, "none")
  /\ UNCHANGED <<active, waitVars, sigVars, arg, ctid, mem>>

ExitIdle(s) ==
  /\ cur = s /\ pc[s] = "exit_scan"
  /\ ScanTimeouts
  /\ Goto(s, "exit_deq")
  /\ UNCHANGED <<cur, active, deadline, sigVars, arg, ctid, mem>>

-----------------------------------------------------------------------------
(* The environment *)

\* Mutant of Tick: a parked thread is preempted too
TickAlwaysPreempts ==
  /\ active
  /\ \E q \in InSlotOrder(ScanWakes) :
       /\ ClearWait(Range(q), ScanReason)
       /\ IF readyQ \o q # <<>>
            THEN Requeue(Readied(Range(q)), readyQ \o q)
            ELSE /\ state' = Readied(Range(q))
                 /\ readyQ' = readyQ \o q
                 /\ UNCHANGED cur
  /\ sigPending' = [sigPending EXCEPT ![cur] =
       @ \ {g \in Deliverable(cur) : \A h \in Deliverable(cur) : g <= h}]
  /\ UNCHANGED <<active, deadline, sigBlocked, pc, arg, ctid, mem>>

\* thread_shim_timer_tick_c(): scan_timeouts(), deliver the current thread's
\* lowest deliverable signal, then preempt it if it is running and another
\* thread is ready.
Tick ==
  /\ active
  /\ \E q \in InSlotOrder(ScanWakes) :
       /\ ClearWait(Range(q), ScanReason)
       /\ IF state[cur] = "RUNNING" /\ readyQ \o q # <<>>
            THEN Requeue(Readied(Range(q)), readyQ \o q)
            ELSE /\ state' = Readied(Range(q))
                 /\ readyQ' = readyQ \o q
                 /\ UNCHANGED cur
  /\ sigPending' = [sigPending EXCEPT ![cur] =
       @ \ {g \in Deliverable(cur) : \A h \in Deliverable(cur) : g <= h}]
  /\ UNCHANGED <<active, deadline, sigBlocked, pc, arg, ctid, mem>>

\* TIMECOUNTER reaches the deadline of thread s.
TimePasses(s) ==
  /\ deadline[s] = "armed"
  /\ deadline' = [deadline EXCEPT ![s] = "passed"]
  /\ UNCHANGED <<schedVars, waitAddr, wakeReason, sigVars, pc, arg, ctid, mem>>

-----------------------------------------------------------------------------
(* The specification: any program that uses the calls the way musl does *)

\* What thread s does inside the scheduler, once it is there
ShimStep(s) ==
  \/ FutexSignalTest(s) \/ FutexPark(s) \/ SleepPark(s)
  \/ ParkSwitch(s) \/ ParkIdle(s) \/ Unpark(s)
  \/ \E sig \in Sig : RaisePending(s, sig)
  \/ CloneReady(s)
  \/ ExitClearCtid(s) \/ ExitWake(s) \/ ExitSwitch(s) \/ ExitIdle(s)

\* pthread_create() clones under __thread_list_lock, and always with
\* CLONE_CHILD_CLEARTID
CloneUnderLock(s) ==
  /\ \A u \in Slot : pc[u] # "clone_fill"
  /\ \E c \in Addr : CallClone(s, c)

\* pthread_kill() looks at a tid only under the target's killlock, and an
\* exiting thread clears its tid under the same lock before SYS_exit
TkillUnderLock(s) ==
  \E t \in Slot : /\ pc[t] \notin ExitPcs
                  /\ CallTkill(s, t)

\* __pthread_exit() blocks the application's signals first
ExitSignalsBlocked(s) ==
  /\ AppSig \subseteq sigBlocked[s]
  /\ \A u \in Slot : ~ (pc[u] = "raise" /\ arg[u].slot = s)
  /\ CallExit(s)

ClientCall(s) ==
  \/ \E a \in Addr, v \in Val : \/ \E timed \in BOOLEAN : CallFutexWait(s, a, v, timed)
                                \/ UserWrite(s, a, v)
  \/ \E a \in Addr, n \in 1 .. MaxThreads + 1 : CallFutexWake(s, a, n)
  \/ CallSleep(s) \/ CallYield(s)
  \/ \E B \in SUBSET Sig : CallSetMask(s, B)
  \/ Sig # {} /\ TkillUnderLock(s)
  \/ CloneUnderLock(s)
  \/ ExitSignalsBlocked(s)

Next ==
  \/ Tick
  \/ \E s \in Slot : TimePasses(s) \/ ShimStep(s) \/ ClientCall(s)

Spec == Init /\ [][Next]_vars

\* Timer interrupts keep coming, time goes on, and a thread that the CPU is
\* on goes on with its call.  Nothing makes an application call anything.
Fairness ==
  /\ WF_vars(Tick)
  /\ \A s \in Slot : WF_vars(TimePasses(s)) /\ WF_vars(ShimStep(s))

FairSpec == Spec /\ Fairness

-----------------------------------------------------------------------------
(* Properties *)

\* The ready queue holds each T_READY thread once and no other thread: the
\* intrusive `next` link of enqueue_ready_locked() allows one place at most.
ReadyQueueExact ==
  /\ IsInjective(readyQ)
  /\ \A s \in Slot : state[s] = "READY" <=> s \in Range(readyQ)

\* A thread runs application code, or is anywhere but in reschedule(0)'s and
\* exit's loops, only as the one T_RUNNING thread; in those loops the CPU is
\* on a thread the tick must not preempt.
OnlyCurrentRuns ==
  active => /\ \A s \in Slot : state[s] = "RUNNING" => s = cur
            /\ state[cur] # "RUNNING" => pc[cur] \in {"park", "idle"} \cup ExitPcs

\* Each thread is where its state says: ready in the queue once, running on
\* the CPU alone.
StatesExact == ReadyQueueExact /\ OnlyCurrentRuns

\* A recycled slot is no longer the current thread, in the ready queue, parked
\* on a word or the target of a signal about to be raised.
FreeSlotsUnreferenced ==
  active =>
    \A s \in Slot : state[s] = "FREE" =>
      /\ cur # s
      /\ s \notin Range(readyQ)
      /\ \A u \in Slot : ~ (pc[u] = "raise" /\ arg[u].slot = s)

\* "never wake an exiting thread back onto the ready queue"
\* (thread_shim_exit_current): it stays parked until its slot is freed.
ExitingStaysParked ==
  \A s \in Slot : pc[s] \in ExitPcs => cur = s /\ state[s] = "BLOCKED"

\* What a wait returns is true: it was woken, exactly once and for the reason
\* it reports, and -ETIMEDOUT means that its deadline has passed.
WaitResultHonest ==
  \A s \in Slot : pc[s] = "unpark" =>
    /\ state[s] = "BLOCKED" <=> wakeReason[s] = "NONE"
    /\ wakeReason[s] = "TIMEOUT" => deadline[s] = "passed"
    /\ waitAddr[s] # NoAddr => state[s] = "BLOCKED"

\* A thread between its call and the park, and what it called with
Asking(s) == pc[s] \in {"fw_sig", "fw_lock"}
Asked == [s \in Slot |-> IF Asking(s) THEN arg[s].addr ELSE NoAddr]
Expected == [s \in Slot |-> IF Asking(s) THEN arg[s].val ELSE 0]

\* The futex calls implement the abstract wait sets: a thread parks only while
\* its word has the value it was called with, so no wake is lost between the
\* test of the word and the park, and none is spent on a thread that has
\* already left.
Abstract == INSTANCE Futex WITH
  Thread <- Slot, waiting <- waitAddr, asked <- Asked, expected <- Expected,
  expired <- {s \in Slot : deadline[s] = "passed" \/ Deliverable(s) # {}}

ImplementsFutex == Abstract!FutexSpec

\* Round robin starves nobody: whatever the running thread does, a thread put
\* on the ready queue gets the CPU.
ReadyRuns == \A s \in Slot : state[s] = "READY" ~> state[s] = "RUNNING"

\* A timed futex wait or a sleep ends, even with every thread parked and
\* nobody to wake it.
TimedWaitEnds ==
  \A s \in Slot : (state[s] = "BLOCKED" /\ deadline[s] # "none") ~> state[s] = "RUNNING"

\* A parked thread with a deliverable signal is resumed (with -EINTR).
SignalEndsWait ==
  \A s \in Slot : (state[s] = "BLOCKED" /\ pc[s] \notin ExitPcs /\ Deliverable(s) # {})
                     ~> state[s] = "RUNNING"

=============================================================================
