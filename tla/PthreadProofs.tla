--------------------------- MODULE PthreadProofs ---------------------------
(***************************************************************************)
(* Proofs about Pthread, for any number of slots, of threads created and   *)
(* for any mix of joinable and detached threads: the thread list lock is   *)
(* exclusive from its acquisition to the shim's store to *ctid, it orders  *)
(* every stack's return after the exit of the thread that ran on it, and   *)
(* each step is one of Sched, so that what SchedProofs proves of the       *)
(* scheduler holds of musl's threads as long as no signals are sent: the   *)
(* clones are shown to come one at a time, as Sched assumes, while what it *)
(* assumes of pthread_kill() and of the masks of an exit remains assumed.  *)
(*                                                                         *)
(* ShimP is SchedProofs for the scheduler this module's threads run on.    *)
(* What is proved there of any caller of the scheduler holds here of       *)
(* threads that create, exit, join and wait, because each of their steps   *)
(* is a step of Sched (SchedStep).                                         *)
(***************************************************************************)
EXTENDS Pthread, TLAPS, FiniteSetTheorems

ShimP == INSTANCE SchedProofs WITH Addr <- Word, Val <- WordVal, NoAddr <- -1,
                                   Sig <- {}, AppSig <- {}

(* The inductive invariant, by topic *)

\* __thread_list_lock is held, by s; from "exit_ctid" on, the shim is to
\* release it
Holds(s) ==
  \/ upc[s] \in {"cr_clone", "cr_done", "tl_rel", "ex_commit", "ex_wake", "ex_sys"}
  \/ pc[s] = "exit_ctid"

\* s creates the thread peer[s], or is about to
Creating(s) == ret[s] = "cr_clone" \/ upc[s] \in CreatePcs

\* s creates the thread peer[s] and has not put it on the ready queue
BeforeClone(s) ==
  ret[s] = "cr_clone" \/ upc[s] = "cr_clone" \/ (upc[s] = "cr_done" /\ pc[s] = "clone_fill")

\* s joins the thread peer[s]
Joining(s) == ret[s] = "jn_pass" \/ upc[s] \in JoinPcs

\* The shim's exit of s has released the list lock
Released(s) == pc[s] \in {"exit_wake", "exit_deq", "exit_scan"}

\* musl's and the shim's program counters agree
Places ==
  \A s \in Slot :
    /\ pc[s] # "raise"
    /\ pc[s] = "none" <=> upc[s] = "none"
    /\ pc[s] \in Shim!ExitPcs <=> upc[s] = "ex_gone"
    /\ pc[s] = "clone_fill" => upc[s] = "cr_done" /\ ctid[arg[s].slot] = TlLock

\* the main thread joins and never exits, the others exit and never join
Roles ==
  \A s \in Slot :
    /\ IF s = Main
         THEN /\ thr[s] = 0
              /\ upc[s] \notin {"none", "start"} \cup ExitPcs /\ ret[s] # "ex_commit"
         ELSE /\ ~ Joining(s) /\ upc[s] # "main"
              /\ thr[s] # 0 <=> upc[s] # "none"
              /\ upc[s] # "none" => ctid[s] = TlLock

\* where a thread goes after the lock, and whom it creates or joins
Returns ==
  \A s \in Slot :
    /\ ret[s] # "none" <=> upc[s] \in LockPcs \cup {"jn_pass"}
    /\ upc[s] = "tl_try" => ret[s] # "jn_pass"
    /\ upc[s] = "jn_pass" => ret[s] = "jn_pass"
    /\ peer[s] # 0 <=> Creating(s) \/ Joining(s)

LockHeld == \A s \in Slot : Holds(s) => mem[TlLock] = Self(s)

\* a thread runs in one slot, and one thread creates or joins it
OneEach ==
  \A s, t \in Slot :
    /\ s # t /\ thr[s] # 0 => thr[s] # thr[t]
    /\ s # t /\ peer[s] # 0 => peer[s] # peer[t]
    /\ BeforeClone(s) => thr[t] # peer[s]

\* the threads there are
Counted ==
  /\ \A s \in Slot : thr[s] <= nCreated /\ peer[s] <= nCreated
  /\ unmapped \subseteq 1 .. nCreated

\* detach_state is EXITED only once the thread is in its last critical section
Exited ==
  \A s \in Slot :
    /\ thr[s] # 0 /\ mem[thr[s]] = EXITED => upc[s] \in {"ex_wake", "ex_sys", "ex_gone"}
    /\ BeforeClone(s) => mem[peer[s]] # EXITED

\* What the joiner knows: having seen EXITED and then the list lock free or
\* changing hands, it knows that the exit has released the lock.
Joiner ==
  /\ upc[Main] \in {"jn_sync", "jn_unmap"} \/ ret[Main] = "jn_pass"
       => mem[peer[Main]] = EXITED
  /\ \A s \in Slot : thr[s] # 0 /\ thr[s] = peer[Main] =>
       /\ ret[Main] = "jn_pass" /\ upc[Main] \in {"tl_inc", "tl_test"}
            => Released(s) \/ seen[Main] = Self(s)
       /\ (ret[Main] = "jn_pass" /\ upc[Main] = "tl_dec") \/ upc[Main] \in {"jn_pass", "jn_unmap"}
            => Released(s)

\* a stack is given back only when its thread is on its way out of its slot
Stacks ==
  /\ \A p \in unmapped, s \in Slot : thr[s] = p => pc[s] \in Shim!ExitPcs
  /\ \A s \in Slot : BeforeClone(s) => peer[s] \notin unmapped

\* tl_lock_waiters counts the threads between its increment and its decrement
Waiting == {s \in Slot : upc[s] \in {"tl_test", "tl_dec"}}
WaitersCounted == tlWaiters = Cardinality(Waiting)

MuslInv ==
  /\ TypeOK
  /\ Places /\ Roles /\ Returns /\ LockHeld
  /\ OneEach /\ Counted /\ Exited /\ Joiner /\ Stacks /\ WaitersCounted

IInv == ShimP!IInv /\ MuslInv

-----------------------------------------------------------------------------
(* The scheduler's invariant, in the words of this module *)

LEMMA Assumed ==
  /\ MaxThreads \in Nat \ {0} /\ MaxCreated \in Nat \ {0}
  /\ 0 \in WordVal /\ -1 \notin Word /\ {} \subseteq Nat
BY CreatedAssumption DEF WordVal, Word

\* Slots and words are numbers, and a lock word can name every slot.
LEMMA Ranges ==
  /\ Slot = 0 .. MaxThreads /\ Main = 0 /\ Main \in Slot
  /\ Word = 0 .. MaxCreated /\ TlLock \in Word
  /\ \A s \in Slot : Self(s) \in WordVal /\ Self(s) # 0
  /\ \A s, t \in Slot : Self(s) = Self(t) => s = t
  /\ {EXITED, EXITING, JOINABLE, DETACHED} \subseteq WordVal
BY CreatedAssumption DEF Slot, Shim!Slot, Main, Shim!Main, Word, WordVal, Self, TlLock,
   EXITED, EXITING, JOINABLE, DETACHED

\* What the proofs below need of the scheduler's state.
LEMMA Shims ==
  ASSUME ShimP!IInv
  PROVE  /\ cur \in Slot
         /\ pc \in [Slot -> Shim!Pcs] /\ pc[Main] # "none"
         /\ arg \in [Slot -> Shim!Args]
         /\ ctid \in [Slot -> Word \cup {-1}]
         /\ mem \in [Word -> WordVal]
         /\ \A s \in Slot : pc[s] \in Shim!ExitPcs => cur = s /\ s # Main /\ state[s] = "BLOCKED"
         /\ \A s \in Slot : pc[s] = "clone_fill" =>
              arg[s].slot \in Slot \ {Main} /\ pc[arg[s].slot] = "none"
<1> USE Ranges DEF ShimP!IInv, Slot, Shim!Slot, Main, Shim!Main, ShimP!Slot, ShimP!Main
<1>1. ShimP!TypeOK
  OBVIOUS
<1>2. /\ cur \in Slot /\ pc \in [Slot -> Shim!Pcs] /\ arg \in [Slot -> Shim!Args]
      /\ ctid \in [Slot -> Word \cup {-1}] /\ mem \in [Word -> WordVal]
  BY <1>1 DEF ShimP!TypeOK, ShimP!Pcs, ShimP!ExitPcs, ShimP!ParkPcs, ShimP!Args,
     Shim!Pcs, Shim!ExitPcs, Shim!ParkPcs, Shim!Args
<1>3. \A s \in Slot : pc[s] \in Shim!ExitPcs => cur = s /\ s # Main /\ state[s] = "BLOCKED"
  BY DEF ShimP!Exiting, ShimP!ExitPcs, Shim!ExitPcs
<1>4. pc[Main] # "none"
  BY DEF ShimP!Idle, ShimP!CurInUse, ShimP!SlotInUse
<1>5. ASSUME NEW s \in Slot, pc[s] = "clone_fill"
      PROVE  arg[s].slot \in Slot \ {Main} /\ pc[arg[s].slot] = "none"
  <2>1. active
    BY <1>5 DEF ShimP!Idle
  <2> QED BY <1>5, <2>1 DEF ShimP!CloneTargets, ShimP!Workers, ShimP!SlotInUse
<1> QED BY <1>2, <1>3, <1>4, <1>5

-----------------------------------------------------------------------------
(* Each step of musl is a step of Sched *)

\* Sched and SchedProofs' Sched are one module.
LEMMA SameInit == Shim!Init => ShimP!Init
BY DEF Shim!Init, Shim!Slot, Shim!Main, Shim!NoArg, ShimP!Init, ShimP!Slot,
   ShimP!Main, ShimP!NoArg

LEMMA SameNext == Shim!Next => ShimP!Next
BY DEF Shim!Slot, Shim!Main, Shim!Workers, Shim!schedVars, Shim!waitVars,
   Shim!sigVars, Shim!ExitPcs, Shim!NoArg, Shim!InSlotOrder,
   Shim!Deliverable, Shim!InUser, Shim!Goto, Shim!ScanWakes, Shim!ScanReason,
   Shim!ClearWait, Shim!Readied, Shim!ScanTimeouts, Shim!FutexWake,
   Shim!ShimInit, Shim!SwitchToHead, Shim!Requeue, Shim!CallFutexWait,
   Shim!FutexSignalTest, Shim!FutexPark, Shim!CallSleep, Shim!SleepPark,
   Shim!ParkSwitch, Shim!ParkIdle, Shim!Unpark, Shim!CallFutexWake,
   Shim!UserWrite, Shim!CallYield, Shim!CallSetMask, Shim!CallTkill,
   Shim!RaisePending, Shim!FreeSlots, Shim!CallClone, Shim!CloneReady,
   Shim!CallExit, Shim!ExitClearCtid, Shim!ExitWake, Shim!ExitSwitch,
   Shim!ExitIdle, Shim!Tick, Shim!TimePasses, Shim!ShimStep,
   Shim!CloneUnderLock, Shim!TkillUnderLock, Shim!ExitSignalsBlocked,
   Shim!ClientCall, Shim!Next, Shim!Cardinality, Shim!Range, ShimP!Slot,
   ShimP!Main, ShimP!Workers, ShimP!schedVars, ShimP!waitVars, ShimP!sigVars,
   ShimP!ExitPcs, ShimP!NoArg, ShimP!InSlotOrder, ShimP!Deliverable,
   ShimP!InUser, ShimP!Goto, ShimP!ScanWakes, ShimP!ScanReason,
   ShimP!ClearWait, ShimP!Readied, ShimP!ScanTimeouts, ShimP!FutexWake,
   ShimP!ShimInit, ShimP!SwitchToHead, ShimP!Requeue, ShimP!CallFutexWait,
   ShimP!FutexSignalTest, ShimP!FutexPark, ShimP!CallSleep, ShimP!SleepPark,
   ShimP!ParkSwitch, ShimP!ParkIdle, ShimP!Unpark, ShimP!CallFutexWake,
   ShimP!UserWrite, ShimP!CallYield, ShimP!CallSetMask, ShimP!CallTkill,
   ShimP!RaisePending, ShimP!FreeSlots, ShimP!CallClone, ShimP!CloneReady,
   ShimP!CallExit, ShimP!ExitClearCtid, ShimP!ExitWake, ShimP!ExitSwitch,
   ShimP!ExitIdle, ShimP!Tick, ShimP!TimePasses, ShimP!ShimStep,
   ShimP!CloneUnderLock, ShimP!TkillUnderLock, ShimP!ExitSignalsBlocked,
   ShimP!ClientCall, ShimP!Next, ShimP!Cardinality, ShimP!Range

LEMMA SameVars == UNCHANGED Shim!vars => UNCHANGED ShimP!vars
BY DEF Shim!vars, Shim!schedVars, Shim!waitVars, Shim!sigVars, ShimP!vars,
   ShimP!schedVars, ShimP!waitVars, ShimP!sigVars

\* The calls musl makes are those Sched allows its client.
LEMMA CallsAllowed ==
  ASSUME NEW s \in Slot
  PROVE  /\ \A a \in Word, v \in WordVal :
              /\ Shim!CallFutexWait(s, a, v, FALSE) => Shim!Next
              /\ Shim!UserWrite(s, a, v) => Shim!Next
         /\ \A a \in Word : Shim!CallFutexWake(s, a, 1) => Shim!Next
<1>1. 1 \in 1 .. MaxThreads + 1
  BY CreatedAssumption
<1>2. Shim!ClientCall(s) => Shim!Next
  BY DEF Shim!Next, Slot
<1> QED BY <1>1, <1>2 DEF Shim!ClientCall

\* pthread_create() clones under the list lock, so alone.
LEMMA CloneAlone ==
  ASSUME IInv, NEW s \in Slot, CreateClone(s)
  PROVE  Shim!Next
<1>1. upc[s] = "cr_clone" /\ pc[s] = "user" /\ Shim!CallClone(s, TlLock)
  BY DEF CreateClone, At, Shim!InUser
<1>2. ASSUME NEW u \in Slot, pc[u] = "clone_fill" PROVE FALSE
  <2>1. upc[u] = "cr_done"
    BY <1>2 DEF IInv, MuslInv, Places
  <2>2. Holds(s) /\ Holds(u)
    BY <1>1, <2>1 DEF Holds
  <2>3. Self(s) = Self(u)
    BY <2>2 DEF IInv, MuslInv, LockHeld
  <2>4. s = u
    BY <2>3, Ranges
  <2> QED BY <1>1, <1>2, <2>4
<1>3. Shim!CloneUnderLock(s)
  BY <1>1, <1>2, Ranges DEF Shim!CloneUnderLock, Slot
<1> QED BY <1>3 DEF Shim!ClientCall, Shim!Next, Slot

\* __pthread_exit() leaves for the shim with no signal about to be raised.
LEMMA ExitAllowed ==
  ASSUME IInv, NEW s \in Slot, ExitSys(s)
  PROVE  Shim!Next
<1>1. Shim!ExitSignalsBlocked(s)
  BY DEF ExitSys, Shim!ExitSignalsBlocked, IInv, MuslInv, Places, Slot
<1> QED BY <1>1 DEF Shim!ClientCall, Shim!Next, Slot

\* What the scheduler does of its own accord is a step of it.
LEMMA ShimStepAllowed ==
  ASSUME NEW s \in Slot, ShimOnly(s) \/ CreateCloned(s)
  PROVE  Shim!Next
BY DEF ShimOnly, CreateCloned, Shim!ShimStep, Shim!Next, Slot

LEMMA UnchangedShim == UNCHANGED shimVars => UNCHANGED Shim!vars
BY DEF shimVars, Shim!vars, Shim!schedVars, Shim!waitVars, Shim!sigVars

LEMMA SchedStep ==
  ASSUME IInv, [Next]_vars
  PROVE  [Shim!Next]_(Shim!vars)
<1> USE Ranges DEF IInv, MuslInv, TypeOK
<1>1. CASE UNCHANGED vars
  BY <1>1, UnchangedShim DEF vars
<1>2. CASE Shim!Tick
  BY <1>2 DEF Shim!Next
<1>3. ASSUME NEW s \in Slot,
             TlInc(s) \/ TlDec(s) \/ CreateDone(s) \/ Join(s) \/ JoinSync(s) \/ JoinUnmap(s)
      PROVE  UNCHANGED Shim!vars
  BY <1>3, UnchangedShim DEF TlInc, TlDec, CreateDone, Join, JoinSync, JoinUnmap
<1>4. ASSUME NEW s \in Slot, TlTry(s) \/ TlRelease(s)
      PROVE  [Shim!Next]_(Shim!vars)
  BY <1>4, UnchangedShim, CallsAllowed, Assumed DEF TlTry, TlRelease
<1>5. ASSUME NEW s \in Slot, TlTest(s) \/ TlWake(s) \/ JoinPass(s)
      PROVE  [Shim!Next]_(Shim!vars)
  BY <1>5, UnchangedShim, CallsAllowed DEF TlTest, TlWake, JoinPass, WakeOneIfWaiters
<1>6. ASSUME NEW s \in Slot, Create(s)
      PROVE  Shim!Next
  <2>1. nCreated + 1 \in Word
    BY <1>6, Assumed DEF Create
  <2>2. NewStates \subseteq WordVal
    BY NewStatesAssumption
  <2> QED BY <1>6, <2>1, <2>2, CallsAllowed DEF Create
<1>7. ASSUME NEW s \in Slot, ExitBegin(s) \/ ExitCommit(s) \/ ExitWakeJoiner(s)
      PROVE  [Shim!Next]_(Shim!vars)
  <2>1. thr[s] \in Word
    OBVIOUS
  <2> QED BY <1>7, <2>1, UnchangedShim, CallsAllowed DEF ExitBegin, ExitCommit, ExitWakeJoiner
<1>8. ASSUME NEW s \in Slot, JoinTest(s)
      PROVE  [Shim!Next]_(Shim!vars)
  <2>1. peer[s] \in Word /\ mem[peer[s]] \in WordVal
    BY Shims
  <2> QED BY <1>8, <2>1, UnchangedShim, CallsAllowed DEF JoinTest
<1>9. ASSUME NEW s \in Slot, CreateClone(s) \/ ExitSys(s) \/ ShimOnly(s) \/ CreateCloned(s)
      PROVE  Shim!Next
  BY <1>9, CloneAlone, ExitAllowed, ShimStepAllowed
<1> QED BY <1>1, <1>2, <1>3, <1>4, <1>5, <1>6, <1>7, <1>8, <1>9 DEF Next, ThreadStep

\* ... and so keeps the scheduler's invariant.
LEMMA SchedKeeps ==
  ASSUME IInv, [Next]_vars
  PROVE  ShimP!IInv'
<1>1. [ShimP!Next]_(ShimP!vars)
  BY SchedStep, SameNext, SameVars
<1> QED BY <1>1, Assumed, ShimP!StepKeeps DEF IInv

-----------------------------------------------------------------------------
(* Every action keeps musl's invariant *)

LEMMA Initially == Init => IInv
<1> SUFFICES ASSUME Init PROVE IInv
  OBVIOUS
<1> USE Ranges DEF Init
<1>1. ShimP!IInv
  BY Assumed, SameInit, ShimP!Initially
<1>2. pc = [s \in Slot |-> IF s = Main THEN "user" ELSE "none"]
  BY DEF Shim!Init, Slot, Main
<1>3. TypeOK /\ Counted
  BY Assumed DEF TypeOK, Counted, Created, WordVal
<1>4. Places /\ Roles /\ Returns
  BY <1>2 DEF Places, Roles, Returns, Shim!ExitPcs, ExitPcs, Joining, Creating, LockPcs,
    CreatePcs, JoinPcs
<1>5. LockHeld /\ OneEach /\ Exited /\ Joiner /\ Stacks
  BY <1>2 DEF LockHeld, Holds, OneEach, Exited, Joiner, Stacks, BeforeClone
<1>6. WaitersCounted
  <2>1. Waiting = {}
    BY DEF Waiting
  <2> QED BY <2>1, FS_EmptySet DEF WaitersCounted
<1> QED BY <1>1, <1>3, <1>4, <1>5, <1>6 DEF IInv, MuslInv

\* tl_lock_waiters stays right if nobody begins or ends to wait.
LEMMA WaitersSame ==
  ASSUME WaitersCounted, UNCHANGED tlWaiters,
         \A t \in Slot : upc[t] \in {"tl_test", "tl_dec"} <=> upc'[t] \in {"tl_test", "tl_dec"}
  PROVE  WaitersCounted'
<1>1. Waiting' = Waiting
  BY DEF Waiting
<1> QED BY <1>1 DEF WaitersCounted

\* ... and stays within the number of threads when one begins.
LEMMA WaiterBegins ==
  ASSUME WaitersCounted, NEW s \in Slot, s \notin Waiting,
         Waiting' = Waiting \cup {s}, tlWaiters' = tlWaiters + 1
  PROVE  WaitersCounted' /\ tlWaiters' \in 0 .. MaxThreads + 1
<1>1. IsFiniteSet(Slot) /\ Cardinality(Slot) = MaxThreads + 1
  BY FS_Interval, Ranges, CreatedAssumption
<1>2. Waiting \subseteq Slot /\ Waiting' \subseteq Slot
  BY DEF Waiting
<1>3. IsFiniteSet(Waiting) /\ Cardinality(Waiting') <= MaxThreads + 1
      /\ Cardinality(Waiting') \in Nat
  BY <1>1, <1>2, FS_Subset, FS_CardinalityType
<1>4. Cardinality(Waiting') = Cardinality(Waiting) + 1
  BY <1>3, FS_AddElement
<1> QED BY <1>3, <1>4, CreatedAssumption DEF WaitersCounted

LEMMA WaiterEnds ==
  ASSUME WaitersCounted, NEW s \in Waiting,
         Waiting' = Waiting \ {s}, tlWaiters' = tlWaiters - 1, tlWaiters \in 0 .. MaxThreads + 1
  PROVE  WaitersCounted' /\ tlWaiters' \in 0 .. MaxThreads + 1
<1>1. IsFiniteSet(Slot)
  BY FS_Interval, Ranges, CreatedAssumption
<1>2. Waiting \subseteq Slot
  BY DEF Waiting
<1>3. IsFiniteSet(Waiting) /\ IsFiniteSet(Waiting')
  BY <1>1, <1>2, FS_Subset
<1>4. Cardinality(Waiting') = Cardinality(Waiting) - 1 /\ Cardinality(Waiting') \in Nat
  BY <1>3, FS_RemoveElement, FS_CardinalityType
<1> QED BY <1>4, CreatedAssumption DEF WaitersCounted

LEMMA TlIncKeeps ==
  ASSUME IInv, NEW s \in Slot, TlInc(s)
  PROVE  MuslInv'
<1>1. /\ cur = s /\ pc[s] = "user" /\ upc[s] = "tl_inc"
      /\ upc' = [upc EXCEPT ![s] = "tl_test"] /\ tlWaiters' = tlWaiters + 1
      /\ UNCHANGED <<pc, arg, ctid, mem, ret, seen, peer, thr, nCreated, unmapped>>
  BY DEF TlInc, At, Go, Shim!InUser, shimVars
<1> USE <1>1, Ranges, Shims DEF IInv, MuslInv
<1>2. WaitersCounted' /\ tlWaiters' \in 0 .. MaxThreads + 1
  <2>1. s \notin Waiting /\ Waiting' = Waiting \cup {s}
    BY DEF Waiting, TypeOK
  <2> QED BY <2>1, WaiterBegins
<1>3. (TypeOK /\ Counted)'
  BY <1>2 DEF TypeOK, Counted, LockPcs
<1>4. (Places /\ Roles /\ Returns)'
  BY DEF TypeOK, Places, Roles, Returns, ExitPcs, Joining, Creating, LockPcs, CreatePcs,
    JoinPcs
<1>5. (LockHeld /\ OneEach /\ Exited)'
  BY DEF TypeOK, LockHeld, Holds, OneEach, Exited, BeforeClone
<1>6. (Joiner /\ Stacks)'
  BY DEF TypeOK, Joiner, Stacks, BeforeClone, Released
<1> QED BY <1>2, <1>3, <1>4, <1>5, <1>6

LEMMA TlDecKeeps ==
  ASSUME IInv, NEW s \in Slot, TlDec(s)
  PROVE  MuslInv'
<1>1. /\ cur = s /\ pc[s] = "user" /\ upc[s] = "tl_dec"
      /\ upc' = [upc EXCEPT ![s] = IF ret[s] = "jn_pass" THEN "jn_pass" ELSE "tl_try"]
      /\ tlWaiters' = tlWaiters - 1 /\ seen' = [seen EXCEPT ![s] = 0]
      /\ UNCHANGED <<pc, arg, ctid, mem, ret, peer, thr, nCreated, unmapped>>
  BY DEF TlDec, At, Go, Shim!InUser, shimVars
<1> USE <1>1, Ranges, Shims DEF IInv, MuslInv
<1>2. WaitersCounted' /\ tlWaiters' \in 0 .. MaxThreads + 1
  <2>1. s \in Waiting /\ Waiting' = Waiting \ {s}
    BY DEF Waiting, TypeOK
  <2> QED BY <2>1, WaiterEnds DEF TypeOK
<1>3. (TypeOK /\ Counted)'
  BY <1>2, Assumed DEF TypeOK, Counted, LockPcs, JoinPcs
<1>4. (Places /\ Roles /\ Returns)'
  BY DEF TypeOK, Places, Roles, Returns, ExitPcs, Joining, Creating, LockPcs, CreatePcs,
    JoinPcs
<1>5. (LockHeld /\ OneEach /\ Exited)'
  BY DEF TypeOK, LockHeld, Holds, OneEach, Exited, BeforeClone
<1>6. (Joiner /\ Stacks)'
  BY DEF TypeOK, Joiner, Stacks, BeforeClone, Released, Roles, Returns, Joining
<1> QED BY <1>2, <1>3, <1>4, <1>5, <1>6

\* The lock is taken only while nobody holds it.
LEMMA TlTryKeeps ==
  ASSUME IInv, NEW s \in Slot, TlTry(s)
  PROVE  MuslInv'
<1>1. /\ cur = s /\ pc[s] = "user" /\ upc[s] = "tl_try"
      /\ UNCHANGED <<pc, arg, ctid, peer, thr, nCreated, tlWaiters, unmapped>>
  BY DEF TlTry, At, Shim!InUser, Shim!UserWrite, shimVars
<1> USE <1>1, Ranges, Shims DEF IInv, MuslInv
<1>2. CASE mem[TlLock] = 0
  <2>1. /\ mem' = [mem EXCEPT ![TlLock] = Self(s)] /\ upc' = [upc EXCEPT ![s] = ret[s]]
        /\ ret' = [ret EXCEPT ![s] = "none"] /\ UNCHANGED seen
    BY <1>2 DEF TlTry, Shim!UserWrite, Go
  <2>2. ret[s] \in {"cr_clone", "ex_commit"}
    BY DEF TypeOK, Returns, LockPcs
  <2> USE <1>2, <2>1, <2>2
  <2>3. (TypeOK /\ Counted /\ WaitersCounted)'
    <3>1. WaitersCounted'
      BY WaitersSame DEF TypeOK
    <3> QED BY <3>1 DEF TypeOK, Counted, CreatePcs, ExitPcs
  <2>4. (Places /\ Roles /\ Returns)'
    BY DEF TypeOK, Places, Roles, Returns, ExitPcs, Joining, Creating, LockPcs, CreatePcs,
      JoinPcs
  <2>5. LockHeld'
    BY DEF TypeOK, LockHeld, Holds
  <2>6. \A t \in Slot : BeforeClone(t)' <=> BeforeClone(t)
    BY DEF TypeOK, BeforeClone
  <2>7. \A a \in Word : a # 0 => mem'[a] = mem[a]
    BY DEF TlLock
  <2>8. \A t \in Slot : BeforeClone(t) => peer[t] # 0
    BY DEF Returns, BeforeClone, Creating, CreatePcs
  <2>9. (OneEach /\ Stacks)'
    BY <2>6 DEF OneEach, Stacks
  <2>10. Exited'
    BY <2>6, <2>7, <2>8 DEF TypeOK, Exited
  <2>11. Joiner'
    BY <2>7 DEF TypeOK, Joiner, Returns, Roles, Joining, JoinPcs, Released
  <2> QED BY <2>3, <2>4, <2>5, <2>9, <2>10, <2>11
<1>3. CASE mem[TlLock] # 0
  <2>1. /\ seen' = [seen EXCEPT ![s] = mem[TlLock]] /\ upc' = [upc EXCEPT ![s] = "tl_inc"]
        /\ UNCHANGED <<mem, ret>>
    BY <1>3 DEF TlTry, Go, shimVars
  <2> USE <2>1
  <2>2. WaitersCounted'
    BY WaitersSame DEF TypeOK
  <2>3. (TypeOK /\ Counted)'
    BY DEF TypeOK, Counted, LockPcs
  <2>4. (Places /\ Roles /\ Returns)'
    BY DEF TypeOK, Places, Roles, Returns, ExitPcs, Joining, Creating, LockPcs, CreatePcs,
      JoinPcs
  <2>5. LockHeld' /\ (\A t \in Slot : BeforeClone(t)' <=> BeforeClone(t))
    BY DEF TypeOK, LockHeld, Holds, BeforeClone
  <2>6. (OneEach /\ Exited)'
    BY <2>5 DEF TypeOK, OneEach, Exited
  <2>7. (Joiner /\ Stacks)'
    BY DEF TypeOK, Joiner, Stacks, BeforeClone, Released, Returns
  <2> QED BY <2>2, <2>3, <2>4, <2>5, <2>6, <2>7
<1> QED BY <1>2, <1>3

\* A futex call changes where its caller is in the shim, and nothing of musl's.
LEMMA CallWaitEffect ==
  ASSUME ShimP!IInv, NEW s \in Slot, NEW a \in Word, NEW v \in WordVal,
         Shim!CallFutexWait(s, a, v, FALSE)
  PROVE  /\ UNCHANGED <<mem, ctid>>
         /\ \A t \in Slot : t # s => pc'[t] = pc[t] /\ arg'[t] = arg[t]
         /\ pc[s] = "user" /\ pc'[s] \in {"user", "fw_sig"}
BY Shims DEF Shim!CallFutexWait, Shim!InUser, Shim!Goto

LEMMA CallWakeEffect ==
  ASSUME NEW s \in Slot, NEW a \in Word, Shim!CallFutexWake(s, a, 1)
  PROVE  pc[s] = "user" /\ UNCHANGED <<pc, arg, ctid, mem>>
BY DEF Shim!CallFutexWake, Shim!InUser

\* Seeing the lock word change, the joiner knows that its former holder is gone.
LEMMA TlTestKeeps ==
  ASSUME IInv, NEW s \in Slot, TlTest(s)
  PROVE  MuslInv'
<1>1. /\ cur = s /\ pc[s] = "user" /\ upc[s] = "tl_test"
      /\ UNCHANGED <<ret, seen, peer, thr, nCreated, tlWaiters, unmapped>>
  BY DEF TlTest, At, Shim!InUser
<1> USE <1>1, Ranges, Shims DEF IInv, MuslInv
<1>2. CASE mem[TlLock] = seen[s]
  <2>1. Shim!CallFutexWait(s, TlLock, seen[s], FALSE) /\ UNCHANGED upc
    BY <1>2 DEF TlTest
  <2>2. seen[s] \in WordVal
    BY DEF TypeOK
  <2>3. /\ UNCHANGED <<mem, ctid>>
        /\ \A t \in Slot : t # s => pc'[t] = pc[t] /\ arg'[t] = arg[t]
        /\ pc[s] = "user" /\ pc'[s] \in {"user", "fw_sig"}
    BY <2>1, <2>2, CallWaitEffect
  <2> USE <2>1, <2>3
  <2>4. WaitersCounted'
    BY WaitersSame
  <2>5. (TypeOK /\ Counted)'
    BY DEF TypeOK, Counted
  <2>6. (Places /\ Roles /\ Returns)'
    BY DEF Places, Roles, Returns, Joining, Creating, Shim!ExitPcs
  <2>7. (LockHeld /\ OneEach /\ Exited)'
    BY DEF LockHeld, Holds, OneEach, Exited, BeforeClone
  <2>8. (Joiner /\ Stacks)'
    BY DEF Joiner, Stacks, BeforeClone, Released, Shim!ExitPcs
  <2> QED BY <2>4, <2>5, <2>6, <2>7, <2>8
<1>3. CASE mem[TlLock] # seen[s]
  <2>1. upc' = [upc EXCEPT ![s] = "tl_dec"] /\ UNCHANGED <<pc, arg, ctid, mem>>
    BY <1>3 DEF TlTest, Go, shimVars
  <2> USE <1>3, <2>1
  <2>2. WaitersCounted'
    BY WaitersSame DEF TypeOK
  <2>3. (TypeOK /\ Counted)'
    BY DEF TypeOK, Counted, LockPcs
  <2>4. (Places /\ Roles /\ Returns)'
    BY DEF TypeOK, Places, Roles, Returns, ExitPcs, Joining, Creating, LockPcs, CreatePcs,
      JoinPcs
  <2>5. (LockHeld /\ OneEach /\ Exited /\ Stacks)'
    BY DEF TypeOK, LockHeld, Holds, OneEach, Exited, Stacks, BeforeClone
  <2>6. ASSUME NEW t \in Slot, thr[t] # 0, mem[thr[t]] = EXITED, mem[TlLock] # Self(t)
        PROVE  Released(t)
    BY <2>6 DEF Exited, LockHeld, Holds, Places, Released, Shim!ExitPcs
  <2>7. Joiner'
    BY <2>6 DEF TypeOK, Joiner, Released
  <2> QED BY <2>2, <2>3, <2>4, <2>5, <2>7
<1> QED BY <1>2, <1>3

LEMMA TlReleaseKeeps ==
  ASSUME IInv, NEW s \in Slot, TlRelease(s)
  PROVE  MuslInv'
<1>1. /\ cur = s /\ pc[s] = "user" /\ upc[s] = "tl_rel"
      /\ mem' = [mem EXCEPT ![TlLock] = 0] /\ upc' = [upc EXCEPT ![s] = "tl_wake"]
      /\ UNCHANGED <<pc, arg, ctid, ret, seen, peer, thr, nCreated, tlWaiters, unmapped>>
  BY DEF TlRelease, At, Go, Shim!InUser, Shim!UserWrite
<1> USE <1>1, Ranges, Shims DEF IInv, MuslInv
<1>2. WaitersCounted'
  BY WaitersSame DEF TypeOK
<1>3. (TypeOK /\ Counted)'
  BY DEF TypeOK, Counted, UnlockPcs
<1>4. (Places /\ Roles /\ Returns)'
  BY DEF TypeOK, Places, Roles, Returns, ExitPcs, Joining, Creating, LockPcs, CreatePcs,
    JoinPcs
<1>5. LockHeld'
  <2>1. \A t \in Slot : Holds(t) => t = s
    BY DEF LockHeld, Holds
  <2> QED BY <2>1 DEF TypeOK, LockHeld, Holds
<1>6. \A t \in Slot : BeforeClone(t) => peer[t] # 0
  BY DEF Returns, BeforeClone, Creating, CreatePcs
<1>7. \A a \in Word : a # 0 => mem'[a] = mem[a]
  BY DEF TlLock
<1>8. (OneEach /\ Exited)'
  BY <1>6, <1>7 DEF TypeOK, OneEach, Exited, BeforeClone
<1>9. (Joiner /\ Stacks)'
  BY <1>7 DEF TypeOK, Joiner, Stacks, BeforeClone, Released, Returns, Joining, JoinPcs
<1> QED BY <1>2, <1>3, <1>4, <1>5, <1>8, <1>9

\* A wake changes only what the scheduler keeps.
LEMMA WakeOneEffect ==
  ASSUME NEW s \in Slot, WakeOneIfWaiters(s)
  PROVE  UNCHANGED <<pc, arg, ctid, mem>>
BY Ranges, CallWakeEffect DEF WakeOneIfWaiters, shimVars

LEMMA TlWakeKeeps ==
  ASSUME IInv, NEW s \in Slot, TlWake(s)
  PROVE  MuslInv'
<1>1. /\ cur = s /\ pc[s] = "user" /\ upc[s] = "tl_wake"
      /\ upc' = [upc EXCEPT ![s] = IF s = Main THEN "main" ELSE "start"]
      /\ UNCHANGED <<pc, arg, ctid, mem, ret, seen, peer, thr, nCreated, tlWaiters, unmapped>>
  BY WakeOneEffect DEF TlWake, At, Go, Home, Shim!InUser
<1> USE <1>1, Ranges, Shims DEF IInv, MuslInv
<1>2. WaitersCounted'
  BY WaitersSame DEF TypeOK
<1>3. (TypeOK /\ Counted)'
  BY DEF TypeOK, Counted
<1>4. (Places /\ Roles /\ Returns)'
  BY DEF TypeOK, Places, Roles, Returns, ExitPcs, Joining, Creating, LockPcs, CreatePcs,
    JoinPcs
<1>5. (LockHeld /\ OneEach /\ Exited)'
  BY DEF TypeOK, LockHeld, Holds, OneEach, Exited, BeforeClone
<1>6. (Joiner /\ Stacks)'
  BY DEF TypeOK, Joiner, Stacks, BeforeClone, Released
<1> QED BY <1>2, <1>3, <1>4, <1>5, <1>6

\* The new thread is one that no slot, no other creator and no joiner has.
LEMMA CreateKeeps ==
  ASSUME IInv, NEW s \in Slot, Create(s)
  PROVE  MuslInv'
<1> DEFINE p == nCreated + 1
<1>1. PICK d \in NewStates : Shim!UserWrite(s, p, d)
  BY DEF Create
<1>2. /\ cur = s /\ pc[s] = "user" /\ upc[s] = Home(s) /\ nCreated < MaxCreated
      /\ mem' = [mem EXCEPT ![p] = d]
      /\ nCreated' = p /\ peer' = [peer EXCEPT ![s] = p]
      /\ ret' = [ret EXCEPT ![s] = "cr_clone"] /\ upc' = [upc EXCEPT ![s] = "tl_try"]
      /\ UNCHANGED <<pc, arg, ctid, seen, thr, tlWaiters, unmapped>>
  BY <1>1 DEF Create, At, Go, Shim!InUser, Shim!UserWrite
<1> USE <1>2, Ranges, Shims DEF IInv, MuslInv
<1>3. p \in Word /\ p # 0 /\ nCreated \in Nat
  BY Assumed DEF TypeOK
<1>4. d \in WordVal /\ d # EXITED
  BY NewStatesAssumption DEF EXITED, JOINABLE, DETACHED
<1>5. \A t \in Slot : thr[t] # p /\ peer[t] # p
  BY <1>3 DEF TypeOK, Counted
<1> HIDE DEF p
<1> USE <1>3, <1>4, <1>5
<1>6. upc[s] \in {"main", "start"} /\ ret[s] = "none"
  BY DEF Home, Returns, LockPcs
<1>7. WaitersCounted'
  BY <1>6, WaitersSame DEF TypeOK
<1>8. (TypeOK /\ Counted)'
  <2>1. \A t \in Slot : thr[t] \in Word /\ peer[t] \in Word
    BY DEF TypeOK
  <2>2. \A t \in Slot : thr'[t] <= nCreated' /\ peer'[t] <= nCreated'
    BY <2>1, Assumed DEF TypeOK, Counted, p
  <2>3. unmapped' \subseteq 1 .. nCreated'
    BY DEF Counted, p
  <2> QED BY <2>2, <2>3 DEF TypeOK, Counted, LockPcs
<1>9. (Places /\ Roles)'
  BY <1>6 DEF TypeOK, Places, Roles, ExitPcs, Joining, JoinPcs
<1>10. Returns'
  BY <1>6 DEF TypeOK, Returns, Joining, Creating, LockPcs, CreatePcs, JoinPcs
<1>11. LockHeld'
  BY <1>6 DEF TypeOK, LockHeld, Holds, TlLock
<1>12. OneEach'
  BY <1>6 DEF TypeOK, OneEach, BeforeClone
<1>13. \A a \in Word : a # p => mem'[a] = mem[a]
  OBVIOUS
<1>14. Exited'
  BY <1>6, <1>13 DEF TypeOK, Exited, BeforeClone
<1>15. Joiner'
  <2>1. CASE s = Main
    BY <2>1 DEF TypeOK, Joiner
  <2>2. CASE s # Main
    BY <2>2, <1>6, <1>13 DEF TypeOK, Joiner, Released
  <2> QED BY <2>1, <2>2
<1>16. p \notin unmapped
  BY DEF Counted, TypeOK, p
<1>17. Stacks'
  BY <1>6, <1>16 DEF TypeOK, Stacks, BeforeClone
<1> QED BY <1>7, <1>8, <1>9, <1>10, <1>11, <1>12, <1>14, <1>15, <1>17

\* What clone fills in is a slot in which no thread is.
LEMMA CreateCloneKeeps ==
  ASSUME IInv, NEW s \in Slot, CreateClone(s)
  PROVE  MuslInv'
<1>1. /\ cur = s /\ pc[s] = "user" /\ upc[s] = "cr_clone"
      /\ upc' = [upc EXCEPT ![s] = "cr_done"] /\ Shim!CallClone(s, TlLock)
      /\ UNCHANGED <<mem, ret, seen, peer, thr, nCreated, tlWaiters, unmapped>>
  BY DEF CreateClone, At, Go, Shim!InUser, Shim!CallClone
<1> USE <1>1, Ranges, Shims DEF IInv, MuslInv
<1>2. \/ UNCHANGED <<pc, arg, ctid>>
      \/ \E t \in Slot \ {Main} :
           /\ state[t] = "FREE" /\ pc[t] = "none"
           /\ pc' = [pc EXCEPT ![s] = "clone_fill"]
           /\ arg'[s].slot = t /\ (\A u \in Slot : u # s => arg'[u] = arg[u])
           /\ ctid' = [ctid EXCEPT ![t] = TlLock]
  <2>1. CASE UNCHANGED <<pc, arg, ctid>>
    BY <2>1
  <2>2. ASSUME NEW t \in Shim!FreeSlots, Shim!Goto(s, "clone_fill"),
               arg' = [arg EXCEPT ![s] = [Shim!NoArg EXCEPT !.slot = t]],
               ctid' = [ctid EXCEPT ![t] = TlLock]
        PROVE  /\ t \in Slot \ {Main} /\ state[t] = "FREE" /\ pc[t] = "none"
               /\ pc' = [pc EXCEPT ![s] = "clone_fill"]
               /\ arg'[s].slot = t /\ (\A u \in Slot : u # s => arg'[u] = arg[u])
    <3>1. t \in Slot \ {Main} /\ state[t] = "FREE"
      BY <2>2 DEF Shim!FreeSlots, Shim!Workers, Slot, Main
    <3>2. pc[t] = "none"
      BY <3>1 DEF ShimP!IInv, ShimP!Idle, ShimP!SlotInUse, ShimP!Slot, ShimP!Main
    <3> QED BY <2>2, <3>1, <3>2 DEF Shim!Goto, Shim!NoArg
  <2> QED BY <1>1, <2>1, <2>2 DEF Shim!CallClone
<1>3. WaitersCounted'
  BY WaitersSame DEF TypeOK
<1>4. (TypeOK /\ Counted)'
  BY DEF TypeOK, Counted, CreatePcs
<1>5. CASE UNCHANGED <<pc, arg, ctid>>
  <2> USE <1>5
  <2>1. (Places /\ Roles /\ Returns)'
    BY DEF TypeOK, Places, Roles, Returns, ExitPcs, Joining, Creating, LockPcs, CreatePcs,
      JoinPcs
  <2>2. (LockHeld /\ OneEach /\ Exited)'
    BY DEF TypeOK, LockHeld, Holds, OneEach, Exited, BeforeClone
  <2>3. (Joiner /\ Stacks)'
    BY DEF TypeOK, Joiner, Stacks, BeforeClone, Released
  <2> QED BY <1>3, <1>4, <2>1, <2>2, <2>3
<1>6. ASSUME NEW t \in Slot \ {Main}, pc[t] = "none",
             pc' = [pc EXCEPT ![s] = "clone_fill"],
             arg'[s].slot = t, \A u \in Slot : u # s => arg'[u] = arg[u],
             ctid' = [ctid EXCEPT ![t] = TlLock]
      PROVE  MuslInv'
  <2> USE <1>6
  <2>1. Places'
    BY DEF TypeOK, Places, Shim!ExitPcs
  <2>2. (Roles /\ Returns)'
    BY DEF TypeOK, Places, Roles, Returns, ExitPcs, Joining, Creating, LockPcs, CreatePcs,
      JoinPcs
  <2>3. (LockHeld /\ OneEach /\ Exited)'
    BY DEF TypeOK, LockHeld, Holds, OneEach, Exited, BeforeClone
  <2>4. (Joiner /\ Stacks)'
    BY DEF TypeOK, Joiner, Stacks, BeforeClone, Released, Shim!ExitPcs
  <2> QED BY <1>3, <1>4, <2>1, <2>2, <2>3, <2>4
<1> QED BY <1>2, <1>5, <1>6

\* A thread whose pthread_create() failed has never run.
LEMMA CreateDoneKeeps ==
  ASSUME IInv, NEW s \in Slot, CreateDone(s)
  PROVE  MuslInv'
<1> DEFINE p == peer[s]
<1>1. /\ cur = s /\ pc[s] = "user" /\ upc[s] = "cr_done"
      /\ upc' = [upc EXCEPT ![s] = "tl_rel"] /\ peer' = [peer EXCEPT ![s] = 0]
      /\ UNCHANGED <<state, pc, arg, ctid, mem, ret, seen, thr, nCreated, tlWaiters>>
  BY DEF CreateDone, At, Go, Shim!InUser, shimVars
<1> USE <1>1, Ranges, Shims DEF IInv, MuslInv
<1>2. p \in Created /\ p <= nCreated
  BY DEF TypeOK, Returns, Creating, CreatePcs, Counted, Created
<1>3. unmapped' \subseteq unmapped \cup {p}
  BY DEF CreateDone
<1>4. \A t \in Slot : thr[t] = p => p \notin unmapped' \/ p \in unmapped
  <2>1. ASSUME NEW t \in Slot, thr[t] = p PROVE state[t] # "FREE"
    <3>1. t # Main /\ pc[t] # "none"
      BY <1>2, <2>1 DEF Roles, Places, Created
    <3> QED BY <3>1 DEF ShimP!IInv, ShimP!Idle, ShimP!SlotInUse, ShimP!Slot, ShimP!Main
  <2> QED BY <2>1 DEF CreateDone, RunsOn
<1> HIDE DEF p
<1>5. WaitersCounted'
  BY WaitersSame DEF TypeOK
<1>6. (TypeOK /\ Counted)'
  BY <1>2, <1>3, Assumed DEF TypeOK, Counted, UnlockPcs, Created
<1>7. (Places /\ Roles)'
  BY DEF TypeOK, Places, Roles, ExitPcs, Joining, JoinPcs
<1>8. Returns'
  BY DEF TypeOK, Returns, Joining, Creating, LockPcs, CreatePcs, JoinPcs
<1>9. LockHeld'
  BY DEF TypeOK, LockHeld, Holds
<1>10. \A t \in Slot : BeforeClone(t)' => BeforeClone(t) /\ t # s /\ peer'[t] = peer[t]
  BY DEF TypeOK, BeforeClone, Returns, LockPcs
<1>11. Exited'
  BY <1>10 DEF TypeOK, Exited
<1>12. OneEach'
  BY <1>10 DEF TypeOK, OneEach
<1>13. Joiner'
  BY DEF TypeOK, Joiner, Released, Returns, LockPcs
<1>14. Stacks'
  <2>1. \A t \in Slot : BeforeClone(t)' => peer[t] # p
    BY <1>2, <1>10 DEF OneEach, Created, p
  <2>2. \A t \in Slot : BeforeClone(t)' => peer'[t] \notin unmapped'
    BY <1>3, <1>10, <2>1 DEF Stacks
  <2>3. \A q \in unmapped', t \in Slot : thr[t] = q => q \in unmapped
    BY <1>3, <1>4
  <2> QED BY <2>2, <2>3 DEF Stacks
<1> QED BY <1>5, <1>6, <1>7, <1>8, <1>9, <1>11, <1>12, <1>13, <1>14

LEMMA ExitBeginKeeps ==
  ASSUME IInv, NEW s \in Slot, ExitBegin(s)
  PROVE  MuslInv'
<1> DEFINE p == thr[s]
<1>1. /\ cur = s /\ pc[s] = "user" /\ upc[s] = "start"
      /\ upc' = [upc EXCEPT ![s] = "tl_try"] /\ ret' = [ret EXCEPT ![s] = "ex_commit"]
      /\ mem' = mem \/ mem' = [mem EXCEPT ![p] = EXITING]
      /\ UNCHANGED <<pc, arg, ctid, seen, peer, thr, nCreated, tlWaiters, unmapped>>
  BY DEF ExitBegin, At, Go, Shim!InUser, Shim!UserWrite, shimVars
<1> USE <1>1, Ranges, Shims DEF IInv, MuslInv
<1>2. s # Main /\ p \in Word /\ p # 0 /\ ret[s] = "none"
  BY DEF TypeOK, Roles, Returns, LockPcs
<1>3. p # TlLock
  BY <1>2 DEF TlLock
<1> USE <1>2, <1>3
<1>4. WaitersCounted'
  BY WaitersSame DEF TypeOK
<1>5. (TypeOK /\ Counted)'
  BY DEF TypeOK, Counted, LockPcs
<1>6. (Places /\ Roles /\ Returns)'
  <2>1. Places'
    BY DEF TypeOK, Places, LockPcs, ExitPcs, CreatePcs, JoinPcs
  <2>2. Roles'
    BY DEF TypeOK, Roles, LockPcs, ExitPcs, CreatePcs, JoinPcs, Joining, Creating
  <2>3. Returns'
    BY DEF TypeOK, Returns, LockPcs, ExitPcs, CreatePcs, JoinPcs, Joining, Creating
  <2> QED BY <2>1, <2>2, <2>3
<1>7. LockHeld'
  BY DEF TypeOK, LockHeld, Holds
<1>8. \A t \in Slot : BeforeClone(t)' <=> BeforeClone(t)
  BY DEF TypeOK, BeforeClone
<1>9. (OneEach /\ Stacks)'
  BY <1>8 DEF OneEach, Stacks
<1>10. mem[p] # EXITED
  BY DEF Exited
<1>11. \A a \in Word : mem'[a] = EXITED <=> mem[a] = EXITED
  <2>1. CASE mem' = mem
    BY <2>1
  <2>2. CASE mem' = [mem EXCEPT ![p] = EXITING]
    <3>1. mem'[p] = EXITING /\ \A a \in Word : a # p => mem'[a] = mem[a]
      BY <2>2
    <3>2. EXITING # EXITED
      BY DEF EXITED, EXITING
    <3> QED BY <1>10, <3>1, <3>2
  <2> QED BY <1>1, <2>1, <2>2
<1>12. Exited'
  BY <1>8, <1>11 DEF TypeOK, Exited
<1>13. Joiner'
  BY <1>11 DEF TypeOK, Joiner, Released
<1> QED BY <1>4, <1>5, <1>6, <1>7, <1>9, <1>12, <1>13

\* EXITED is stored with the list lock held.
LEMMA ExitCommitKeeps ==
  ASSUME IInv, NEW s \in Slot, ExitCommit(s)
  PROVE  MuslInv'
<1> DEFINE p == thr[s]
<1>1. /\ cur = s /\ pc[s] = "user" /\ upc[s] = "ex_commit"
      /\ mem' = mem \/ mem' = [mem EXCEPT ![p] = EXITED]
      /\ UNCHANGED <<pc, arg, ctid, ret, seen, peer, thr, nCreated, tlWaiters, unmapped>>
  BY DEF ExitCommit, At, Go, Shim!InUser, Shim!UserWrite, shimVars
<1> USE <1>1, Ranges, Shims DEF IInv, MuslInv
<1>2. s # Main /\ p \in Word /\ p # 0 /\ ret[s] = "none"
  BY DEF TypeOK, Roles, Returns, LockPcs, ExitPcs
<1>3. p # TlLock
  BY <1>2 DEF TlLock
<1>goto. PICK l \in {"ex_wake", "ex_sys"} : upc' = [upc EXCEPT ![s] = l]
  BY DEF ExitCommit, Go
<1> USE <1>2, <1>3, <1>goto
<1>4. WaitersCounted'
  BY WaitersSame DEF TypeOK
<1>5. (TypeOK /\ Counted)'
  BY DEF TypeOK, Counted, ExitPcs
<1>6. (Places /\ Roles /\ Returns)'
  BY DEF TypeOK, Places, Roles, Returns, ExitPcs, Joining, Creating, LockPcs, CreatePcs,
    JoinPcs
<1>7. LockHeld'
  <2>1. \A t \in Slot : Holds(t)' => Holds(t)
    BY DEF TypeOK, Holds
  <2>2. mem'[TlLock] = mem[TlLock]
    OBVIOUS
  <2> QED BY <2>1, <2>2 DEF LockHeld
<1>8. \A t \in Slot : BeforeClone(t)' <=> BeforeClone(t)
  BY DEF TypeOK, BeforeClone
<1>9. (OneEach /\ Stacks)'
  BY <1>8 DEF OneEach, Stacks
<1>10. \A a \in Word : a # p => mem'[a] = mem[a]
  OBVIOUS
<1>11. Exited'
  BY <1>8, <1>10 DEF TypeOK, Exited, OneEach
<1>12. \A t \in Slot : Released(t)' <=> Released(t)
  BY DEF Released
<1>13. mem[peer[Main]] = EXITED => mem'[peer[Main]] = EXITED
  BY <1>10 DEF TypeOK
<1>14. Joiner'
  BY <1>12, <1>13 DEF TypeOK, Joiner
<1> QED BY <1>4, <1>5, <1>6, <1>7, <1>9, <1>11, <1>14

LEMMA ExitWakeJoinerKeeps ==
  ASSUME IInv, NEW s \in Slot, ExitWakeJoiner(s)
  PROVE  MuslInv'
<1>1. /\ cur = s /\ pc[s] = "user" /\ upc[s] = "ex_wake"
      /\ upc' = [upc EXCEPT ![s] = "ex_sys"]
      /\ Shim!CallFutexWake(s, thr[s], 1)
      /\ UNCHANGED <<ret, seen, peer, thr, nCreated, tlWaiters, unmapped>>
  BY DEF ExitWakeJoiner, At, Go, Shim!InUser
<1>2. UNCHANGED <<pc, arg, ctid, mem>>
  BY <1>1, CallWakeEffect DEF IInv, MuslInv, TypeOK
<1> USE <1>1, <1>2, Ranges, Shims DEF IInv, MuslInv
<1>3. WaitersCounted'
  BY WaitersSame DEF TypeOK
<1>4. (TypeOK /\ Counted)'
  BY DEF TypeOK, Counted, ExitPcs
<1>5. (Places /\ Roles /\ Returns)'
  BY DEF TypeOK, Places, Roles, Returns, ExitPcs, Joining, Creating, LockPcs, CreatePcs,
    JoinPcs
<1>6. (LockHeld /\ OneEach /\ Exited)'
  BY DEF TypeOK, LockHeld, Holds, OneEach, Exited, BeforeClone
<1>7. (Joiner /\ Stacks)'
  BY DEF TypeOK, Joiner, Stacks, BeforeClone, Released
<1> QED BY <1>3, <1>4, <1>5, <1>6, <1>7

\* A detached thread's stack goes in the step in which its exit begins.
LEMMA ExitSysKeeps ==
  ASSUME IInv, NEW s \in Slot, ExitSys(s)
  PROVE  MuslInv'
<1> DEFINE p == thr[s]
<1>1. /\ cur = s /\ pc[s] = "user" /\ upc[s] = "ex_sys"
      /\ upc' = [upc EXCEPT ![s] = "ex_gone"]
      /\ UNCHANGED <<arg, ctid, mem, ret, seen, peer, thr, nCreated, tlWaiters>>
  BY DEF ExitSys, At, Go, Shim!InUser, Shim!CallExit
<1> USE <1>1, Ranges, Shims DEF IInv, MuslInv
<1>2. s # Main /\ p \in Created /\ p <= nCreated /\ ret[s] = "none" /\ ctid[s] = TlLock
  BY DEF TypeOK, Roles, Returns, LockPcs, ExitPcs, Counted, Created
<1>3. pc' = [pc EXCEPT ![s] = "exit_ctid"]
  BY <1>2 DEF ExitSys, Shim!CallExit, Shim!Goto, TlLock
<1>4. unmapped' \subseteq unmapped \cup {p}
  BY DEF ExitSys
<1> USE <1>2, <1>3
<1>5. WaitersCounted'
  BY WaitersSame DEF TypeOK
<1>6. (TypeOK /\ Counted)'
  BY <1>4 DEF TypeOK, Counted, ExitPcs, Created
<1>7. (Places /\ Roles)'
  BY DEF TypeOK, Places, Roles, ExitPcs, Joining, JoinPcs, Shim!ExitPcs
<1>8. Returns'
  BY DEF TypeOK, Returns, Joining, Creating, LockPcs, CreatePcs, JoinPcs
<1>9. LockHeld'
  BY DEF TypeOK, LockHeld, Holds
<1>10. \A t \in Slot : BeforeClone(t)' <=> BeforeClone(t)
  BY DEF TypeOK, BeforeClone
<1>11. (OneEach /\ Exited)'
  BY <1>10 DEF TypeOK, OneEach, Exited
<1>12. Joiner'
  BY DEF TypeOK, Joiner, Released
<1>13. Stacks'
  <2>1. \A t \in Slot : BeforeClone(t) => peer[t] # p
    BY DEF OneEach
  <2>2. \A t \in Slot : t # s => thr[t] # p
    BY DEF OneEach, Created
  <2>3. \A q \in unmapped', t \in Slot : thr[t] = q => pc'[t] \in Shim!ExitPcs
    BY <1>4, <2>2 DEF Stacks, Shim!ExitPcs
  <2> QED BY <1>4, <1>10, <2>1, <2>3 DEF Stacks
<1> QED BY <1>5, <1>6, <1>7, <1>8, <1>9, <1>11, <1>12, <1>13

LEMMA JoinKeeps ==
  ASSUME IInv, NEW s \in Slot, Join(s)
  PROVE  MuslInv'
<1>1. PICK p \in 1 .. nCreated \ unmapped :
        /\ \A t \in Slot : peer[t] # p
        /\ peer' = [peer EXCEPT ![s] = p]
  BY DEF Join
<1>2. /\ s = Main /\ cur = s /\ pc[s] = "user" /\ upc[s] = "main"
      /\ upc' = [upc EXCEPT ![s] = "jn_test"]
      /\ UNCHANGED <<pc, arg, ctid, mem, ret, seen, thr, nCreated, tlWaiters, unmapped>>
  BY DEF Join, At, Go, Shim!InUser, shimVars
<1> USE <1>1, <1>2, Ranges, Shims DEF IInv, MuslInv
<1>3. p \in Word /\ p # 0 /\ p <= nCreated /\ ret[s] = "none"
  <2>1. nCreated \in 0 .. MaxCreated /\ MaxCreated \in Nat
    BY Assumed DEF TypeOK
  <2>2. ret[s] = "none"
    BY DEF Returns, LockPcs
  <2>3. p \in 1 .. nCreated
    OBVIOUS
  <2>4. p \in Int /\ 1 <= p /\ p <= nCreated
    BY <2>1, <2>3
  <2> QED BY <2>1, <2>2, <2>4
<1> USE <1>3
<1>4. WaitersCounted'
  BY WaitersSame DEF TypeOK
<1>5. (TypeOK /\ Counted)'
  BY DEF TypeOK, Counted, JoinPcs
<1>6. (Places /\ Roles)'
  BY DEF TypeOK, Places, Roles, ExitPcs, Joining, JoinPcs
<1>7. Returns'
  BY DEF TypeOK, Returns, Joining, Creating, LockPcs, CreatePcs, JoinPcs
<1>8. LockHeld'
  BY DEF TypeOK, LockHeld, Holds
<1>9. \A t \in Slot : BeforeClone(t)' => BeforeClone(t) /\ t # s /\ peer'[t] = peer[t]
  BY DEF TypeOK, BeforeClone
<1>10. (Exited /\ Stacks)'
  BY <1>9 DEF TypeOK, Exited, Stacks
<1>11. OneEach'
  BY <1>9 DEF TypeOK, OneEach
<1>12. Joiner'
  BY DEF TypeOK, Joiner
<1> QED BY <1>4, <1>5, <1>6, <1>7, <1>8, <1>10, <1>11, <1>12

LEMMA JoinTestKeeps ==
  ASSUME IInv, NEW s \in Slot, JoinTest(s)
  PROVE  MuslInv'
<1>1. /\ cur = s /\ pc[s] = "user" /\ upc[s] = "jn_test"
      /\ UNCHANGED <<ret, seen, peer, thr, nCreated, tlWaiters, unmapped>>
  BY DEF JoinTest, At, Shim!InUser
<1> USE <1>1, Ranges, Shims DEF IInv, MuslInv
<1>2. s = Main /\ ret[s] = "none"
  BY DEF Roles, Joining, JoinPcs, Returns, LockPcs
<1>3. CASE mem[peer[s]] # EXITED
  <2>1. Shim!CallFutexWait(s, peer[s], mem[peer[s]], FALSE) /\ UNCHANGED upc
    BY <1>3 DEF JoinTest
  <2>2. peer[s] \in Word /\ mem[peer[s]] \in WordVal
    BY DEF TypeOK
  <2>3. /\ UNCHANGED <<mem, ctid>>
        /\ \A t \in Slot : t # s => pc'[t] = pc[t] /\ arg'[t] = arg[t]
        /\ pc[s] = "user" /\ pc'[s] \in {"user", "fw_sig"}
    BY <2>1, <2>2, CallWaitEffect
  <2> USE <2>1, <2>3
  <2>4. WaitersCounted'
    BY WaitersSame
  <2>5. (TypeOK /\ Counted)'
    BY DEF TypeOK, Counted
  <2>6. (Places /\ Roles /\ Returns)'
    BY DEF Places, Roles, Returns, Joining, Creating, Shim!ExitPcs
  <2>7. (LockHeld /\ OneEach /\ Exited)'
    BY DEF LockHeld, Holds, OneEach, Exited, BeforeClone
  <2>8. (Joiner /\ Stacks)'
    BY DEF Joiner, Stacks, BeforeClone, Released, Shim!ExitPcs
  <2> QED BY <2>4, <2>5, <2>6, <2>7, <2>8
<1>4. CASE mem[peer[s]] = EXITED
  <2>1. upc' = [upc EXCEPT ![s] = "jn_sync"] /\ UNCHANGED <<pc, arg, ctid, mem>>
    BY <1>4 DEF JoinTest, Go, shimVars
  <2> USE <1>2, <1>4, <2>1
  <2>2. WaitersCounted'
    BY WaitersSame DEF TypeOK
  <2>3. (TypeOK /\ Counted)'
    BY DEF TypeOK, Counted, JoinPcs
  <2>4. (Places /\ Roles /\ Returns)'
    BY DEF TypeOK, Places, Roles, Returns, ExitPcs, Joining, Creating, LockPcs, CreatePcs,
      JoinPcs
  <2>5. (LockHeld /\ OneEach /\ Exited /\ Stacks)'
    BY DEF TypeOK, LockHeld, Holds, OneEach, Exited, Stacks, BeforeClone
  <2>6. Joiner'
    BY DEF TypeOK, Joiner
  <2> QED BY <2>2, <2>3, <2>4, <2>5, <2>6
<1> QED BY <1>3, <1>4

\* __tl_sync(): whoever holds the lock when the joiner looks is, if anybody,
\* the thread that stored EXITED -- or that thread has released it before.
LEMMA JoinSyncKeeps ==
  ASSUME IInv, NEW s \in Slot, JoinSync(s)
  PROVE  MuslInv'
<1>1. /\ cur = s /\ pc[s] = "user" /\ upc[s] = "jn_sync"
      /\ seen' = [seen EXCEPT ![s] = mem[TlLock]]
      /\ UNCHANGED <<pc, arg, ctid, mem, peer, thr, nCreated, tlWaiters, unmapped>>
  BY DEF JoinSync, At, Shim!InUser, shimVars
<1> USE <1>1, Ranges, Shims DEF IInv, MuslInv
<1>2. s = Main /\ ret[s] = "none" /\ peer[s] # 0 /\ mem[peer[s]] = EXITED
  BY DEF Roles, Joining, JoinPcs, Returns, LockPcs, Joiner
<1> USE <1>2
<1>3. ASSUME NEW t \in Slot, thr[t] # 0, thr[t] = peer[s]
      PROVE  Released(t) \/ mem[TlLock] = Self(t)
  BY <1>3 DEF Exited, LockHeld, Holds, Places, Released, Shim!ExitPcs
<1>4. CASE mem[TlLock] = 0
  <2>1. upc' = [upc EXCEPT ![s] = "jn_unmap"] /\ UNCHANGED ret
    BY <1>4 DEF JoinSync, Go
  <2> USE <1>4, <2>1
  <2>2. WaitersCounted'
    BY WaitersSame DEF TypeOK
  <2>3. (TypeOK /\ Counted)'
    BY DEF TypeOK, Counted, JoinPcs
  <2>4. (Places /\ Roles /\ Returns)'
    BY DEF TypeOK, Places, Roles, Returns, ExitPcs, Joining, Creating, LockPcs, CreatePcs,
      JoinPcs
  <2>5. (LockHeld /\ OneEach /\ Exited /\ Stacks)'
    BY DEF TypeOK, LockHeld, Holds, OneEach, Exited, Stacks, BeforeClone
  <2>6. Joiner'
    BY <1>3 DEF TypeOK, Joiner, Released
  <2> QED BY <2>2, <2>3, <2>4, <2>5, <2>6
<1>5. CASE mem[TlLock] # 0
  <2>1. upc' = [upc EXCEPT ![s] = "tl_inc"] /\ ret' = [ret EXCEPT ![s] = "jn_pass"]
    BY <1>5 DEF JoinSync, Go
  <2> USE <1>5, <2>1
  <2>2. WaitersCounted'
    BY WaitersSame DEF TypeOK
  <2>3. (TypeOK /\ Counted)'
    BY DEF TypeOK, Counted, LockPcs
  <2>4. (Places /\ Roles)'
    BY DEF TypeOK, Places, Roles, ExitPcs, Joining, LockPcs, JoinPcs
  <2>5. Returns'
    BY DEF TypeOK, Returns, Joining, Creating, LockPcs, CreatePcs, JoinPcs
  <2>6. \A t \in Slot : BeforeClone(t)' <=> BeforeClone(t)
    BY DEF TypeOK, BeforeClone
  <2>7. (LockHeld /\ OneEach /\ Exited /\ Stacks)'
    BY <2>6 DEF TypeOK, LockHeld, Holds, OneEach, Exited, Stacks
  <2>8. Joiner'
    BY <1>3 DEF TypeOK, Joiner, Released
  <2> QED BY <2>2, <2>3, <2>4, <2>5, <2>7, <2>8
<1> QED BY <1>4, <1>5

LEMMA JoinPassKeeps ==
  ASSUME IInv, NEW s \in Slot, JoinPass(s)
  PROVE  MuslInv'
<1>1. /\ cur = s /\ pc[s] = "user" /\ upc[s] = "jn_pass"
      /\ upc' = [upc EXCEPT ![s] = "jn_unmap"] /\ ret' = [ret EXCEPT ![s] = "none"]
      /\ UNCHANGED <<pc, arg, ctid, mem, seen, peer, thr, nCreated, tlWaiters, unmapped>>
  BY WakeOneEffect DEF JoinPass, At, Go, Shim!InUser
<1> USE <1>1, Ranges, Shims DEF IInv, MuslInv
<1>2. s = Main /\ ret[s] = "jn_pass"
  BY DEF Roles, Joining, JoinPcs, Returns
<1> USE <1>2
<1>3. WaitersCounted'
  BY WaitersSame DEF TypeOK
<1>4. (TypeOK /\ Counted)'
  BY DEF TypeOK, Counted, JoinPcs
<1>5. (Places /\ Roles)'
  BY DEF TypeOK, Places, Roles, ExitPcs, Joining, JoinPcs
<1>6. Returns'
  BY DEF TypeOK, Returns, Joining, Creating, LockPcs, CreatePcs, JoinPcs
<1>7. \A t \in Slot : BeforeClone(t)' <=> BeforeClone(t)
  BY DEF TypeOK, BeforeClone
<1>8. (LockHeld /\ OneEach /\ Exited /\ Stacks)'
  BY <1>7 DEF TypeOK, LockHeld, Holds, OneEach, Exited, Stacks
<1>9. Joiner'
  BY DEF TypeOK, Joiner, Released
<1> QED BY <1>3, <1>4, <1>5, <1>6, <1>8, <1>9

\* The joiner unmaps the stack of a thread whose exit has released the lock.
LEMMA JoinUnmapKeeps ==
  ASSUME IInv, NEW s \in Slot, JoinUnmap(s)
  PROVE  MuslInv'
<1> DEFINE p == peer[s]
<1>1. /\ cur = s /\ pc[s] = "user" /\ upc[s] = "jn_unmap"
      /\ upc' = [upc EXCEPT ![s] = "main"] /\ peer' = [peer EXCEPT ![s] = 0]
      /\ unmapped' = unmapped \cup {p}
      /\ UNCHANGED <<pc, arg, ctid, mem, ret, seen, thr, nCreated, tlWaiters>>
  BY DEF JoinUnmap, At, Go, Shim!InUser, shimVars
<1> USE <1>1, Ranges, Shims DEF IInv, MuslInv
<1>2. s = Main /\ ret[s] = "none" /\ p \in Created /\ p <= nCreated
  BY DEF TypeOK, Roles, Joining, JoinPcs, Returns, LockPcs, Counted, Created
<1> USE <1>2
<1>3. WaitersCounted'
  BY WaitersSame DEF TypeOK
<1>4. (TypeOK /\ Counted)'
  <2>1. TypeOK'
    BY Assumed DEF TypeOK
  <2>2. nCreated \in Nat /\ p \in 1 .. nCreated
    BY Assumed DEF TypeOK, Created
  <2>3. \A t \in Slot : thr'[t] <= nCreated' /\ peer'[t] <= nCreated'
    BY <2>2 DEF TypeOK, Counted
  <2>4. unmapped' \subseteq 1 .. nCreated'
    BY <2>2 DEF Counted
  <2> QED BY <2>1, <2>3, <2>4 DEF Counted
<1>5. (Places /\ Roles)'
  BY DEF TypeOK, Places, Roles, ExitPcs, Joining, JoinPcs
<1>6. Returns'
  BY DEF TypeOK, Returns, Joining, Creating, LockPcs, CreatePcs, JoinPcs
<1>7. LockHeld'
  BY DEF TypeOK, LockHeld, Holds
<1>8. \A t \in Slot : BeforeClone(t)' => BeforeClone(t) /\ t # s /\ peer'[t] = peer[t]
  BY DEF TypeOK, BeforeClone
<1>9. (OneEach /\ Exited)'
  BY <1>8 DEF TypeOK, OneEach, Exited
<1>10. Joiner'
  BY DEF TypeOK, Joiner
<1>11. Stacks'
  <2>1. \A t \in Slot : BeforeClone(t)' => peer[t] # p
    BY <1>8 DEF OneEach, Created
  <2>2. \A t \in Slot : thr[t] = p => pc[t] \in Shim!ExitPcs
    BY DEF Joiner, Released, Created, Shim!ExitPcs
  <2> QED BY <1>8, <2>1, <2>2 DEF Stacks
<1> QED BY <1>3, <1>4, <1>5, <1>6, <1>7, <1>9, <1>10, <1>11

\* The new thread starts in the slot that clone filled in.
LEMMA CreateClonedKeeps ==
  ASSUME IInv, NEW s \in Slot, CreateCloned(s)
  PROVE  MuslInv'
<1> DEFINE k == arg[s].slot
           p == peer[s]
<1>1. /\ cur = s /\ pc[s] = "clone_fill"
      /\ thr' = [thr EXCEPT ![k] = p] /\ upc' = [upc EXCEPT ![k] = "start"]
      /\ pc' = [pc EXCEPT ![s] = "user", ![k] = "user"]
      /\ arg' = [arg EXCEPT ![s] = Shim!NoArg]
      /\ UNCHANGED <<ctid, mem, ret, seen, peer, nCreated, tlWaiters, unmapped>>
  BY DEF CreateCloned, Shim!CloneReady
<1> USE <1>1, Ranges, Shims DEF IInv, MuslInv
<1>2. /\ k \in Slot /\ k # Main /\ k # s /\ pc[k] = "none" /\ upc[k] = "none"
      /\ upc[s] = "cr_done" /\ ctid[k] = TlLock
  BY DEF Places
<1>3. p \in Word /\ p # 0 /\ p <= nCreated /\ BeforeClone(s)
  BY <1>2 DEF TypeOK, Returns, Creating, CreatePcs, Counted, BeforeClone
<1>4. ret[s] = "none" /\ ret[k] = "none" /\ peer[k] = 0 /\ thr[k] = 0
  BY <1>2 DEF Returns, LockPcs, Creating, Joining, CreatePcs, JoinPcs, Roles
<1> HIDE DEF k, p
<1>5. \A t \in Slot : pc'[t] = IF t = s \/ t = k THEN "user" ELSE pc[t]
  BY <1>2
<1>6. \A t \in Slot : t # s => arg'[t] = arg[t]
  OBVIOUS
<1> USE <1>2, <1>3, <1>4, <1>5
<1>7. WaitersCounted'
  BY WaitersSame DEF TypeOK
<1>8. (TypeOK /\ Counted)'
  BY DEF TypeOK, Counted
<1>9. Places'
  <2>1. ASSUME NEW t \in Slot, t # s, t # k
        PROVE  pc'[t] = pc[t] /\ upc'[t] = upc[t] /\ arg'[t] = arg[t] /\ ctid' = ctid
    BY <1>6, <2>1 DEF TypeOK
  <2>2. upc'[s] = "cr_done" /\ upc'[k] = "start"
    BY DEF TypeOK
  <2> QED BY <2>1, <2>2 DEF Places, Shim!ExitPcs
<1>10. (Roles /\ Returns)'
  BY DEF TypeOK, Roles, Returns, Joining, Creating, LockPcs, CreatePcs, JoinPcs
<1>11. LockHeld'
  BY DEF TypeOK, LockHeld, Holds
<1>12. \A t \in Slot : BeforeClone(t)' => BeforeClone(t) /\ t # s /\ t # k
  BY DEF TypeOK, BeforeClone
<1>13. OneEach'
  BY <1>12, p = peer[s] DEF TypeOK, OneEach, p
<1>14. Exited'
  BY <1>12 DEF TypeOK, Exited, p
<1>15. Joiner'
  <2>1. ASSUME p = peer[Main]
        PROVE  ret[Main] # "jn_pass" /\ upc[Main] \notin JoinPcs
    <3>1. s = Main
      BY <2>1 DEF OneEach, p
    <3> QED BY <3>1 DEF JoinPcs
  <2> QED BY <2>1 DEF TypeOK, Joiner, Released, JoinPcs
<1>16. Stacks'
  <2>1. \A q \in unmapped', t \in Slot : thr'[t] = q => pc'[t] \in Shim!ExitPcs
    <3>1. p \notin unmapped
      BY DEF Stacks, p
    <3>2. \A t \in Slot : t # k => thr'[t] = thr[t]
      OBVIOUS
    <3>3. thr'[k] = p
      BY DEF TypeOK
    <3>4. \A t \in Slot : pc[t] \in Shim!ExitPcs => pc'[t] \in Shim!ExitPcs
      BY DEF Shim!ExitPcs
    <3> QED BY <3>1, <3>2, <3>3, <3>4 DEF Stacks
  <2> QED BY <1>12, <2>1 DEF Stacks
<1> QED BY <1>7, <1>8, <1>9, <1>10, <1>11, <1>13, <1>14, <1>15, <1>16

\* What a step inside the scheduler changes of what musl's invariant is about:
\* where the thread is, *ctid, and, with its slot, the thread itself.
LEMMA ShimOnlyEffect ==
  ASSUME IInv, ShimP!IInv', NEW s \in Slot, ShimOnly(s)
  PROVE  \E l \in Shim!Pcs :
           /\ cur = s /\ pc' = [pc EXCEPT ![s] = l] /\ ctid' = ctid
           /\ \A t \in Slot : t # s => arg'[t] = arg[t]
           /\ UNCHANGED <<ret, seen, peer, nCreated, tlWaiters, unmapped>>
           /\ \/ /\ pc[s] \in {"fw_sig", "fw_lock"} \cup Shim!ParkPcs
                 /\ l \in {"user", "fw_lock"} \cup Shim!ParkPcs
                 /\ UNCHANGED <<mem, thr, upc>>
              \/ /\ pc[s] = "exit_ctid" /\ l = "exit_wake"
                 /\ mem' = [mem EXCEPT ![ctid[s]] = 0] /\ UNCHANGED <<thr, upc>>
              \/ /\ Released(s) /\ l \in {"exit_deq", "exit_scan"}
                 /\ UNCHANGED <<mem, thr, upc>>
              \/ /\ Released(s) /\ l = "none" /\ UNCHANGED mem
                 /\ thr' = [thr EXCEPT ![s] = 0] /\ upc' = [upc EXCEPT ![s] = "none"]
<1> USE Ranges, Shims DEF IInv, MuslInv
<1>1. cur = s /\ pc[s] \in {"fw_sig", "fw_lock"} \cup Shim!ParkPcs \cup Shim!ExitPcs
  BY DEF ShimOnly, Shim!FutexSignalTest, Shim!FutexPark, Shim!ParkSwitch, Shim!ParkIdle,
    Shim!Unpark, Shim!ExitClearCtid, Shim!ExitWake, Shim!ExitSwitch, Shim!ExitIdle,
    Shim!ParkPcs, Shim!ExitPcs
<1>2. active /\ active'
  <2>1. active
    BY <1>1 DEF ShimP!IInv, ShimP!Idle, ShimP!Slot, ShimP!Main, Shim!ParkPcs, Shim!ExitPcs
  <2> QED BY <2>1 DEF ShimOnly, Shim!FutexSignalTest, Shim!FutexPark, Shim!ParkSwitch,
        Shim!ParkIdle, Shim!Unpark, Shim!ExitClearCtid, Shim!ExitWake, Shim!ExitSwitch,
        Shim!ExitIdle, Shim!schedVars
<1>3. \A t \in Slot : state'[t] = "FREE" <=> pc'[t] = "none"
  BY <1>2 DEF ShimP!IInv, ShimP!SlotInUse, ShimP!Slot
<1>4. /\ ctid' = ctid /\ \A t \in Slot : t # s => arg'[t] = arg[t]
      /\ UNCHANGED <<ret, seen, peer, nCreated, tlWaiters, unmapped>>
  BY DEF ShimOnly, Shim!FutexSignalTest, Shim!FutexPark, Shim!ParkSwitch, Shim!ParkIdle,
    Shim!Unpark, Shim!ExitClearCtid, Shim!ExitWake, Shim!ExitSwitch, Shim!ExitIdle
<1>5. /\ thr' = [t \in Slot |-> IF pc'[t] = "none" THEN 0 ELSE thr[t]]
      /\ upc' = [t \in Slot |-> IF t # Main /\ pc'[t] = "none" THEN "none" ELSE upc[t]]
  BY <1>3 DEF ShimOnly
<1>6. \A t \in Slot : pc[t] = "none" => t # Main /\ thr[t] = 0 /\ upc[t] = "none"
  BY DEF Places, Roles
<1>7. ASSUME NEW l \in Shim!Pcs \ {"none"}, pc' = [pc EXCEPT ![s] = l]
      PROVE  UNCHANGED <<thr, upc>>
  BY <1>5, <1>6, <1>7 DEF TypeOK
<1>8. CASE Shim!FutexSignalTest(s) \/ Shim!FutexPark(s) \/ Shim!ParkSwitch(s)
             \/ Shim!ParkIdle(s) \/ Shim!Unpark(s)
  <2>1. PICK l \in {"user", "fw_lock"} \cup Shim!ParkPcs :
          /\ pc' = [pc EXCEPT ![s] = l] /\ mem' = mem
          /\ pc[s] \in {"fw_sig", "fw_lock"} \cup Shim!ParkPcs
    BY <1>8 DEF Shim!FutexSignalTest, Shim!FutexPark, Shim!ParkSwitch, Shim!ParkIdle,
      Shim!Unpark, Shim!Goto, Shim!ParkPcs
  <2>2. l \in Shim!Pcs \ {"none"}
    BY DEF Shim!Pcs, Shim!ParkPcs
  <2> QED BY <1>1, <1>4, <1>7, <2>1, <2>2
<1>9. CASE Shim!ExitClearCtid(s)
  <2>1. pc' = [pc EXCEPT ![s] = "exit_wake"] /\ pc[s] = "exit_ctid"
        /\ mem' = [mem EXCEPT ![ctid[s]] = 0]
    BY <1>9 DEF Shim!ExitClearCtid, Shim!Goto
  <2>2. "exit_wake" \in Shim!Pcs \ {"none"}
    BY DEF Shim!Pcs, Shim!ExitPcs
  <2> QED BY <1>1, <1>4, <1>7, <2>1, <2>2
<1>10. CASE Shim!ExitWake(s) \/ Shim!ExitIdle(s) \/ (Shim!ExitSwitch(s) /\ readyQ = <<>>)
  <2>1. PICK l \in {"exit_deq", "exit_scan"} :
          pc' = [pc EXCEPT ![s] = l] /\ mem' = mem /\ Released(s)
    BY <1>10 DEF Shim!ExitWake, Shim!ExitIdle, Shim!ExitSwitch, Shim!Goto, Released
  <2>2. l \in Shim!Pcs \ {"none"}
    BY DEF Shim!Pcs, Shim!ExitPcs
  <2> QED BY <1>1, <1>4, <1>7, <2>1, <2>2
<1>11. CASE Shim!ExitSwitch(s) /\ readyQ # <<>>
  <2>1. pc' = [pc EXCEPT ![s] = "none"] /\ mem' = mem /\ Released(s)
    BY <1>11 DEF Shim!ExitSwitch, Shim!Goto, Released
  <2>2. s # Main
    BY <2>1 DEF Released, Shim!ExitPcs
  <2>3. thr' = [thr EXCEPT ![s] = 0] /\ upc' = [upc EXCEPT ![s] = "none"]
    <3>1. pc'[s] = "none" /\ \A t \in Slot : t # s => pc'[t] = pc[t]
      BY <2>1
    <3>2. \A t \in Slot : thr'[t] = IF t = s THEN 0 ELSE thr[t]
      BY <1>5, <1>6, <3>1
    <3>3. \A t \in Slot : upc'[t] = IF t = s THEN "none" ELSE upc[t]
      BY <1>5, <1>6, <2>2, <3>1
    <3>4. /\ thr' = [t \in Slot |-> thr'[t]] /\ thr = [t \in Slot |-> thr[t]]
          /\ upc' = [t \in Slot |-> upc'[t]] /\ upc = [t \in Slot |-> upc[t]]
      BY <1>5 DEF TypeOK
    <3> QED BY <3>2, <3>3, <3>4
  <2>4. "none" \in Shim!Pcs
    BY DEF Shim!Pcs
  <2> QED BY <1>1, <1>4, <2>1, <2>3, <2>4
<1> QED BY <1>8, <1>9, <1>10, <1>11 DEF ShimOnly

\* The exit releases the list lock, and frees the slot of a thread that no
\* longer holds it.
LEMMA ShimOnlyKeeps ==
  ASSUME IInv, ShimP!IInv', NEW s \in Slot, ShimOnly(s)
  PROVE  MuslInv'
<1>1. PICK l \in Shim!Pcs :
        /\ cur = s /\ pc' = [pc EXCEPT ![s] = l] /\ ctid' = ctid
        /\ \A t \in Slot : t # s => arg'[t] = arg[t]
        /\ UNCHANGED <<ret, seen, peer, nCreated, tlWaiters, unmapped>>
        /\ \/ /\ pc[s] \in {"fw_sig", "fw_lock"} \cup Shim!ParkPcs
              /\ l \in {"user", "fw_lock"} \cup Shim!ParkPcs
              /\ UNCHANGED <<mem, thr, upc>>
           \/ /\ pc[s] = "exit_ctid" /\ l = "exit_wake"
              /\ mem' = [mem EXCEPT ![ctid[s]] = 0] /\ UNCHANGED <<thr, upc>>
           \/ /\ Released(s) /\ l \in {"exit_deq", "exit_scan"}
              /\ UNCHANGED <<mem, thr, upc>>
           \/ /\ Released(s) /\ l = "none" /\ UNCHANGED mem
              /\ thr' = [thr EXCEPT ![s] = 0] /\ upc' = [upc EXCEPT ![s] = "none"]
  BY ShimOnlyEffect
<1> USE <1>1, Ranges, Shims DEF IInv, MuslInv
<1>2. pc'[s] = l /\ \A t \in Slot : t # s => pc'[t] = pc[t]
  OBVIOUS
<1>3. CASE /\ pc[s] \in {"fw_sig", "fw_lock"} \cup Shim!ParkPcs
           /\ l \in {"user", "fw_lock"} \cup Shim!ParkPcs
           /\ UNCHANGED <<mem, thr, upc>>
  <2> USE <1>2, <1>3
  <2>1. (TypeOK /\ Counted /\ WaitersCounted)'
    BY WaitersSame DEF TypeOK, Counted
  <2>2. (Places /\ Roles /\ Returns)'
    BY DEF Places, Roles, Returns, Joining, Creating, Shim!ExitPcs, Shim!ParkPcs
  <2>3. (LockHeld /\ OneEach /\ Exited)'
    BY DEF LockHeld, Holds, OneEach, Exited, BeforeClone, Shim!ParkPcs
  <2>4. (Joiner /\ Stacks)'
    BY DEF Joiner, Stacks, BeforeClone, Released, Shim!ExitPcs, Shim!ParkPcs
  <2> QED BY <2>1, <2>2, <2>3, <2>4
<1>4. CASE /\ pc[s] = "exit_ctid" /\ l = "exit_wake"
           /\ mem' = [mem EXCEPT ![ctid[s]] = 0] /\ UNCHANGED <<thr, upc>>
  <2>1. s # Main /\ upc[s] = "ex_gone" /\ ctid[s] = TlLock
    BY <1>4 DEF Places, Roles, Shim!ExitPcs
  <2> USE <1>2, <1>4, <2>1
  <2>2. (TypeOK /\ Counted /\ WaitersCounted)'
    BY WaitersSame DEF TypeOK, Counted
  <2>3. (Places /\ Roles /\ Returns)'
    BY DEF Places, Roles, Returns, Joining, Creating, Shim!ExitPcs
  <2>4. LockHeld'
    <3>1. \A t \in Slot : Holds(t) => t = s
      BY DEF LockHeld, Holds
    <3> QED BY <3>1 DEF LockHeld, Holds
  <2>5. \A a \in Word : a # 0 => mem'[a] = mem[a]
    BY DEF TlLock
  <2>6. \A t \in Slot : BeforeClone(t)' <=> BeforeClone(t)
    BY DEF BeforeClone
  <2>7. \A t \in Slot : BeforeClone(t) => peer[t] # 0
    BY DEF Returns, BeforeClone, Creating, CreatePcs
  <2>8. (OneEach /\ Exited)'
    BY <2>5, <2>6, <2>7 DEF TypeOK, OneEach, Exited
  <2>9. Joiner'
    BY <2>5 DEF TypeOK, Joiner, Released, Returns, Joining, JoinPcs
  <2>10. Stacks'
    BY <2>6 DEF Stacks, Shim!ExitPcs
  <2> QED BY <2>2, <2>3, <2>4, <2>8, <2>9, <2>10
<1>5. CASE Released(s) /\ l \in {"exit_deq", "exit_scan"} /\ UNCHANGED <<mem, thr, upc>>
  <2> USE <1>2, <1>5
  <2>1. (TypeOK /\ Counted /\ WaitersCounted)'
    BY WaitersSame DEF TypeOK, Counted
  <2>2. (Places /\ Roles /\ Returns)'
    BY DEF Places, Roles, Returns, Joining, Creating, Shim!ExitPcs, Released
  <2>3. (LockHeld /\ OneEach /\ Exited)'
    BY DEF LockHeld, Holds, OneEach, Exited, BeforeClone, Released
  <2>4. (Joiner /\ Stacks)'
    BY DEF Joiner, Stacks, BeforeClone, Released, Shim!ExitPcs
  <2> QED BY <2>1, <2>2, <2>3, <2>4
<1>6. CASE /\ Released(s) /\ l = "none" /\ UNCHANGED mem
           /\ thr' = [thr EXCEPT ![s] = 0] /\ upc' = [upc EXCEPT ![s] = "none"]
  <2>1. s # Main /\ upc[s] = "ex_gone" /\ ret[s] = "none" /\ peer[s] = 0
    <3>1. s # Main /\ upc[s] = "ex_gone"
      BY <1>6 DEF Places, Released, Shim!ExitPcs
    <3> QED BY <3>1 DEF Returns, LockPcs, Creating, Joining, CreatePcs, JoinPcs
  <2> USE <1>2, <1>6, <2>1
  <2>2. WaitersCounted'
    BY WaitersSame DEF TypeOK
  <2>3. (TypeOK /\ Counted)'
    <3>1. 0 \in Word /\ 0 <= nCreated /\ nCreated \in Nat
      BY Assumed DEF TypeOK, Word
    <3>2. TypeOK'
      BY <3>1 DEF TypeOK
    <3>3. Counted'
      BY <3>1 DEF TypeOK, Counted
    <3> QED BY <3>2, <3>3
  <2>4. (Places /\ Roles /\ Returns)'
    BY DEF TypeOK, Places, Roles, Returns, ExitPcs, Joining, Creating, LockPcs, CreatePcs,
      JoinPcs, Shim!ExitPcs
  <2>5. LockHeld'
    BY DEF TypeOK, LockHeld, Holds
  <2>6. \A t \in Slot : BeforeClone(t)' => BeforeClone(t)
    BY DEF TypeOK, BeforeClone
  <2>7. \A t \in Slot : thr'[t] = IF t = s THEN 0 ELSE thr[t]
    BY DEF TypeOK
  <2>8. \A t \in Slot : BeforeClone(t) => peer[t] # 0
    BY DEF Returns, BeforeClone, Creating, CreatePcs
  <2>9. (OneEach /\ Exited)'
    BY <2>6, <2>7, <2>8 DEF TypeOK, OneEach, Exited
  <2>10. Joiner'
    BY <2>7 DEF TypeOK, Joiner, Released
  <2>11. Stacks'
    BY <2>6, <2>7 DEF Stacks, Counted
  <2> QED BY <2>2, <2>3, <2>4, <2>5, <2>9, <2>10, <2>11
<1> QED BY <1>1, <1>3, <1>4, <1>5, <1>6

\* A tick preempts, and wakes: musl's state does not change.
LEMMA TickKeeps ==
  ASSUME IInv,
         UNCHANGED <<pc, arg, ctid, mem, upc, ret, seen, peer, thr, nCreated, tlWaiters, unmapped>>
  PROVE  MuslInv'
<1> USE DEF IInv, MuslInv
<1>1. (TypeOK /\ Counted /\ WaitersCounted)'
  BY DEF TypeOK, Counted, WaitersCounted, Waiting
<1>2. (Places /\ Roles /\ Returns)'
  BY DEF Places, Roles, Returns, Joining, Creating
<1>3. (LockHeld /\ OneEach /\ Exited)'
  BY DEF LockHeld, Holds, OneEach, Exited, BeforeClone
<1>4. (Joiner /\ Stacks)'
  BY DEF Joiner, Stacks, BeforeClone, Released
<1> QED BY <1>1, <1>2, <1>3, <1>4

-----------------------------------------------------------------------------
(* The theorems *)

\* IInv is inductive.
THEOREM Inductive == Spec => []IInv
<1>1. IInv /\ [Next]_vars => IInv'
  <2> SUFFICES ASSUME IInv, [Next]_vars PROVE IInv'
    OBVIOUS
  <2>1. ShimP!IInv'
    BY SchedKeeps
  <2>2. CASE UNCHANGED vars
    BY <2>1, <2>2, TickKeeps DEF IInv, vars, shimVars, userVars
  <2>3. CASE Shim!Tick /\ UNCHANGED userVars
    BY <2>1, <2>3, TickKeeps DEF IInv, Shim!Tick, userVars
  <2>4. ASSUME NEW s \in Slot, ThreadStep(s)
        PROVE  IInv'
    <3>1. CASE ShimOnly(s) \/ CreateCloned(s)
      BY <2>1, <3>1, ShimOnlyKeeps, CreateClonedKeeps DEF IInv
    <3>2. CASE TlTry(s) \/ TlInc(s) \/ TlTest(s) \/ TlDec(s) \/ TlRelease(s) \/ TlWake(s)
      BY <2>1, <3>2, TlTryKeeps, TlIncKeeps, TlTestKeeps, TlDecKeeps, TlReleaseKeeps,
         TlWakeKeeps DEF IInv
    <3>3. CASE CreateClone(s) \/ CreateDone(s)
      BY <2>1, <3>3, CreateCloneKeeps, CreateDoneKeeps DEF IInv
    <3>4. CASE ExitBegin(s) \/ ExitCommit(s) \/ ExitWakeJoiner(s) \/ ExitSys(s)
      BY <2>1, <3>4, ExitBeginKeeps, ExitCommitKeeps, ExitWakeJoinerKeeps, ExitSysKeeps
         DEF IInv
    <3>5. CASE JoinTest(s) \/ JoinSync(s) \/ JoinPass(s) \/ JoinUnmap(s)
      BY <2>1, <3>5, JoinTestKeeps, JoinSyncKeeps, JoinPassKeeps, JoinUnmapKeeps DEF IInv
    <3> QED BY <2>4, <3>1, <3>2, <3>3, <3>4, <3>5 DEF ThreadStep
  <2>5. ASSUME NEW s \in Slot, Create(s) \/ Join(s)
        PROVE  IInv'
    BY <2>1, <2>5, CreateKeeps, JoinKeeps DEF IInv
  <2> QED BY <2>2, <2>3, <2>4, <2>5 DEF Next
<1> QED BY Initially, <1>1, PTL DEF Spec

\* The variables of musl's threads keep their types; tl_lock_waiters is never
\* negative and never more than the threads there are.
THEOREM TypeCorrect == Spec => []TypeOK
<1>1. IInv => TypeOK
  BY DEF IInv, MuslInv
<1> QED BY Inductive, <1>1, PTL

\* __thread_list_lock has one owner from a_cas() to __tl_unlock(), or, for an
\* exiting thread, to the store to *ctid in thread_shim_exit_current().
THEOREM ListLock == Spec => []ListLockExclusive
<1>1. IInv => ListLockExclusive
  BY Shims DEF IInv, MuslInv, LockHeld, Holds, ListLockExclusive, InListSection, CreatePcs,
     ExitPcs
<1> QED BY Inductive, <1>1, PTL

\* alloc_thread_slot() gives two creators two slots: only one is ever between
\* the choice of a slot and the ready queue, because both hold the list lock.
THEOREM CloneSlots == Spec => []CloneSlotsDistinct
<1>1. IInv => CloneSlotsDistinct
  <2> SUFFICES ASSUME IInv, NEW s \in Slot, NEW t \in Slot, s # t,
                      pc[s] = "clone_fill", pc[t] = "clone_fill"
               PROVE  FALSE
    BY DEF CloneSlotsDistinct
  <2>1. Holds(s) /\ Holds(t)
    BY DEF IInv, MuslInv, Places, Holds
  <2> QED BY <2>1, Ranges DEF IInv, MuslInv, LockHeld
<1> QED BY Inductive, <1>1, PTL

\* No thread runs on an unmapped stack but one that the CPU does not leave
\* until its slot is free, whoever unmapped the stack: the thread itself, its
\* joiner, or a creator whose clone failed.
THEOREM StacksSafe == Spec => []StackNotReusedWhileLive
<1>1. IInv => StackNotReusedWhileLive
  BY Shims DEF IInv, MuslInv, Stacks, StackNotReusedWhileLive, RunsOn
<1> QED BY Inductive, <1>1, PTL

\* Creating, ending and joining threads, musl never has two clones in progress
\* at once, which is what Sched assumes of them: each step is one of Sched with
\* no signals.  Its other two assumptions are about signals and not met here.
THEOREM MuslUsesSched == Spec => UsesSchedAsAssumed
<1>1. Init => Shim!Init
  BY DEF Init
<1>2. IInv /\ [Next]_vars => [Shim!Next]_(Shim!vars)
  BY SchedStep
<1> QED BY Inductive, <1>1, <1>2, PTL DEF Spec, UsesSchedAsAssumed, Shim!Spec

\* In particular, in a program that sends its threads no signals, every thread
\* is in the state and the queue the shim thinks it is in, whatever creators,
\* exits and joins there are; no slot is given out that anybody still uses; a
\* thread that has exited stays so; what a wait reports is what happened; and
\* no wake of musl's locks and joins is lost: its futex calls implement the
\* abstract wait sets.
THEOREM MuslWaits ==
  Spec => /\ [](ShimP!StatesExact /\ ShimP!FreeSlotsUnreferenced)
          /\ [](ShimP!ExitingStaysParked /\ ShimP!WaitResultHonest)
          /\ ShimP!ImplementsFutex
<1>1. Init => ShimP!Init
  BY SameInit DEF Init
<1>2. IInv /\ [Next]_vars => [ShimP!Next]_(ShimP!vars)
  BY SchedStep, SameNext, SameVars
<1>3. Spec => ShimP!Spec
  BY Inductive, <1>1, <1>2, PTL DEF Spec, ShimP!Spec
<1>4. {} \subseteq {}
  OBVIOUS
<1> QED BY <1>3, <1>4, Assumed, ShimP!StatesCorrect, ShimP!SlotsSafe, ShimP!ExitSafe,
          ShimP!WaitResults, ShimP!RefinesFutex, PTL

=============================================================================
