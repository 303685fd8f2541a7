------------------------------ MODULE Pthread ------------------------------
(***************************************************************************)
(* musl's pthread_create(), pthread_exit() and pthread_join() running on   *)
(* the scheduler of Sched.  The musl code is outside this repository; it   *)
(* is modelled for what it demands of thread_shim.c: the thread list lock  *)
(* is a futex word which an exiting thread never unlocks itself -- it is   *)
(* the CLONE_CHILD_CLEARTID word, and thread_shim_exit_current() releases  *)
(* it -- and a thread's stack is unmapped by its joiner, or, detached, by  *)
(* the thread itself in the patched __unmapself.                           *)
(*                                                                         *)
(* Thread p's pthread struct holds the futex word p (its detach_state);    *)
(* word 0 is __thread_list_lock, holding the slot of its owner plus one.   *)
(***************************************************************************)
EXTENDS Integers, Sequences, FiniteSets

CONSTANTS MaxThreads,   \* thread slots besides the main thread's
          MaxCreated,   \* bound: threads created in a behaviour
          NewStates     \* the detach_states threads are created with

ASSUME CreatedAssumption == MaxThreads \in Nat \ {0} /\ MaxCreated \in Nat \ {0}

TlLock == 0
EXITED == 0
EXITING == 1
JOINABLE == 2
DETACHED == 3

ASSUME NewStatesAssumption == NewStates \subseteq {JOINABLE, DETACHED}

Word == 0 .. MaxCreated
WordVal == 0 .. (IF MaxThreads > 2 THEN MaxThreads + 1 ELSE 3)

VARIABLES state, readyQ, cur, active, pc, arg, waitAddr, deadline, wakeReason,
          ctid, sigPending, sigBlocked, mem

Shim == INSTANCE Sched WITH Addr <- Word, Val <- WordVal, NoAddr <- -1,
                            Sig <- {}, AppSig <- {}

Slot == Shim!Slot
Main == Shim!Main
Created == 1 .. MaxCreated

VARIABLES
  upc,         \* where each thread is in musl's code
  ret,         \* where it goes after the lock routine it is in
  seen,        \* the value of the word it saw before waiting
  peer,        \* the thread it creates or joins
  thr,         \* slot -> the thread that runs in it (0: none, or main)
  nCreated,    \* threads created so far
  tlWaiters,   \* tl_lock_waiters
  unmapped     \* threads whose stack has been given back

userVars == <<upc, ret, seen, peer, thr, nCreated, tlWaiters, unmapped>>
shimVars == <<state, readyQ, cur, active, pc, arg, waitAddr, deadline,
              wakeReason, ctid, sigPending, sigBlocked, mem>>
vars == <<shimVars, userVars>>

LockPcs == {"tl_try", "tl_inc", "tl_test", "tl_dec"}
UnlockPcs == {"tl_rel", "tl_wake"}
CreatePcs == {"cr_clone", "cr_done"}
ExitPcs == {"ex_commit", "ex_wake", "ex_sys", "ex_gone"}
JoinPcs == {"jn_test", "jn_sync", "jn_pass", "jn_unmap"}

TypeOK ==
  /\ upc \in [Slot -> {"main", "start", "none"} \cup LockPcs \cup UnlockPcs
                        \cup CreatePcs \cup ExitPcs \cup JoinPcs]
  /\ ret \in [Slot -> {"none", "cr_clone", "ex_commit", "jn_pass"}]
  /\ seen \in [Slot -> WordVal]
  /\ peer \in [Slot -> Word]
  /\ thr \in [Slot -> Word]
  /\ nCreated \in Word
  /\ tlWaiters \in 0 .. MaxThreads + 1
  /\ unmapped \subseteq Created

Init ==
  /\ Shim!Init
  /\ upc = [s \in Slot |-> IF s = Main THEN "main" ELSE "none"]
  /\ ret = [s \in Slot |-> "none"]
  /\ seen = [s \in Slot |-> 0]
  /\ peer = [s \in Slot |-> 0]
  /\ thr = [s \in Slot |-> 0]
  /\ nCreated = 0
  /\ tlWaiters = 0
  /\ unmapped = {}

-----------------------------------------------------------------------------
(* Helpers *)

At(s, l) == Shim!InUser(s) /\ upc[s] = l
Go(s, l) == upc' = [upc EXCEPT ![s] = l]
Self(s) == s + 1              \* what thread s stores into the lock
Home(s) == IF s = Main THEN "main" ELSE "start"

\* the stack of p is in use by the thread in slot s
RunsOn(s, p) == thr[s] = p /\ state[s] # "FREE"

-----------------------------------------------------------------------------
(* __tl_lock(), __tl_unlock() and __wait() *)

\* Mutant of TlTry: the lock is taken whoever holds it
TlTryAlways(s) ==
  /\ At(s, "tl_try")
  /\ Shim!UserWrite(s, TlLock, Self(s))
  /\ Go(s, ret[s])
  /\ ret' = [ret EXCEPT ![s] = "none"]
  /\ UNCHANGED <<seen, peer, thr, nCreated, tlWaiters, unmapped>>

\* a_cas(&__thread_list_lock, 0, self)
TlTry(s) ==
  /\ At(s, "tl_try")
  /\ IF mem[TlLock] = 0
       THEN /\ Shim!UserWrite(s, TlLock, Self(s))
            /\ Go(s, ret[s])
            /\ ret' = [ret EXCEPT ![s] = "none"]
            /\ UNCHANGED seen
       ELSE /\ seen' = [seen EXCEPT ![s] = mem[TlLock]]
            /\ Go(s, "tl_inc")
            /\ UNCHANGED <<shimVars, ret>>
  /\ UNCHANGED <<peer, thr, nCreated, tlWaiters, unmapped>>

TlInc(s) ==
  /\ At(s, "tl_inc")
  /\ tlWaiters' = tlWaiters + 1
  /\ Go(s, "tl_test")
  /\ UNCHANGED <<shimVars, ret, seen, peer, thr, nCreated, unmapped>>

\* while (*addr == val) futex_wait(addr, val)
TlTest(s) ==
  /\ At(s, "tl_test")
  /\ IF mem[TlLock] = seen[s]
       THEN /\ Shim!CallFutexWait(s, TlLock, seen[s], FALSE)
            /\ UNCHANGED upc
       ELSE /\ Go(s, "tl_dec")
            /\ UNCHANGED shimVars
  /\ UNCHANGED <<ret, seen, peer, thr, nCreated, tlWaiters, unmapped>>

\* A locker tries again; __tl_sync() goes on to pass the wake it may have
\* taken from a locker.
TlDec(s) ==
  /\ At(s, "tl_dec")
  /\ tlWaiters' = tlWaiters - 1
  /\ Go(s, IF ret[s] = "jn_pass" THEN "jn_pass" ELSE "tl_try")
  /\ seen' = [seen EXCEPT ![s] = 0]
  /\ UNCHANGED <<shimVars, ret, peer, thr, nCreated, unmapped>>

TlRelease(s) ==
  /\ At(s, "tl_rel")
  /\ Shim!UserWrite(s, TlLock, 0)
  /\ Go(s, "tl_wake")
  /\ UNCHANGED <<ret, seen, peer, thr, nCreated, tlWaiters, unmapped>>

WakeOneIfWaiters(s) ==
  IF tlWaiters > 0 THEN Shim!CallFutexWake(s, TlLock, 1) ELSE UNCHANGED shimVars

TlWake(s) ==
  /\ At(s, "tl_wake")
  /\ WakeOneIfWaiters(s)
  /\ Go(s, Home(s))
  /\ UNCHANGED <<ret, seen, peer, thr, nCreated, tlWaiters, unmapped>>

-----------------------------------------------------------------------------
(* pthread_create() *)

\* The struct and stack of the new thread exist, its detach_state is set, and
\* the caller goes for the thread list lock.
Create(s) ==
  /\ At(s, Home(s))
  /\ nCreated < MaxCreated
  /\ nCreated' = nCreated + 1
  /\ \E d \in NewStates : Shim!UserWrite(s, nCreated + 1, d)
  /\ peer' = [peer EXCEPT ![s] = nCreated + 1]
  /\ ret' = [ret EXCEPT ![s] = "cr_clone"]
  /\ Go(s, "tl_try")
  /\ UNCHANGED <<seen, thr, tlWaiters, unmapped>>

\* __clone(..., &__thread_list_lock as ctid)
CreateClone(s) ==
  /\ At(s, "cr_clone")
  /\ Shim!CallClone(s, TlLock)
  /\ Go(s, "cr_done")
  /\ UNCHANGED <<ret, seen, peer, thr, nCreated, tlWaiters, unmapped>>

\* The clone call ends: the child is ready to run start().
CreateCloned(s) ==
  /\ Shim!CloneReady(s)
  /\ thr' = [thr EXCEPT ![arg[s].slot] = peer[s]]
  /\ upc' = [upc EXCEPT ![arg[s].slot] = "start"]
  /\ UNCHANGED <<ret, seen, peer, nCreated, tlWaiters, unmapped>>

\* -EAGAIN: the stack is given back.  Either way the lock is released.
CreateDone(s) ==
  /\ At(s, "cr_done")
  /\ unmapped' = IF \E t \in Slot : RunsOn(t, peer[s])
                   THEN unmapped ELSE unmapped \cup {peer[s]}
  /\ peer' = [peer EXCEPT ![s] = 0]
  /\ Go(s, "tl_rel")
  /\ UNCHANGED <<shimVars, ret, seen, thr, nCreated, tlWaiters>>

-----------------------------------------------------------------------------
(* __pthread_exit() *)

\* JOINABLE becomes EXITING, then the lock is taken for good.
ExitBegin(s) ==
  /\ At(s, "start")
  /\ IF mem[thr[s]] = JOINABLE
       THEN Shim!UserWrite(s, thr[s], EXITING)
       ELSE UNCHANGED shimVars
  /\ ret' = [ret EXCEPT ![s] = "ex_commit"]
  /\ Go(s, "tl_try")
  /\ UNCHANGED <<seen, peer, thr, nCreated, tlWaiters, unmapped>>

\* A joinable thread lets its joiner go, with the lock still held.
ExitCommit(s) ==
  /\ At(s, "ex_commit")
  /\ IF mem[thr[s]] = EXITING
       THEN Shim!UserWrite(s, thr[s], EXITED) /\ Go(s, "ex_wake")
       ELSE Go(s, "ex_sys") /\ UNCHANGED shimVars
  /\ UNCHANGED <<ret, seen, peer, thr, nCreated, tlWaiters, unmapped>>

ExitWakeJoiner(s) ==
  /\ At(s, "ex_wake")
  /\ Shim!CallFutexWake(s, thr[s], 1)
  /\ Go(s, "ex_sys")
  /\ UNCHANGED <<ret, seen, peer, thr, nCreated, tlWaiters, unmapped>>

\* SYS_exit.  For a detached thread the patched __unmapself turns interrupts
\* off, unmaps the stack the thread is running on and calls SYS_exit, so both
\* happen in one step.
ExitSys(s) ==
  /\ At(s, "ex_sys")
  /\ Shim!CallExit(s)
  /\ unmapped' = IF mem[thr[s]] = DETACHED THEN unmapped \cup {thr[s]} ELSE unmapped
  /\ Go(s, "ex_gone")
  /\ UNCHANGED <<ret, seen, peer, thr, nCreated, tlWaiters>>

-----------------------------------------------------------------------------
(* pthread_join(), called by the main thread *)

\* The thread joined is one whose pthread_create() has returned it.
Join(s) ==
  /\ s = Main /\ At(s, "main")
  /\ \E p \in 1 .. nCreated \ unmapped :
       /\ mem[p] # DETACHED
       /\ \A t \in Slot : peer[t] # p
       /\ peer' = [peer EXCEPT ![s] = p]
  /\ Go(s, "jn_test")
  /\ UNCHANGED <<shimVars, ret, seen, thr, nCreated, tlWaiters, unmapped>>

\* while ((state = t->detach_state)) __timedwait(&t->detach_state, state)
JoinTest(s) ==
  /\ At(s, "jn_test")
  /\ IF mem[peer[s]] = EXITED
       THEN Go(s, "jn_sync") /\ UNCHANGED shimVars
       ELSE Shim!CallFutexWait(s, peer[s], mem[peer[s]], FALSE) /\ UNCHANGED upc
  /\ UNCHANGED <<ret, seen, peer, thr, nCreated, tlWaiters, unmapped>>

\* __tl_sync(): wait until the holder of the list lock has let it go
JoinSync(s) ==
  /\ At(s, "jn_sync")
  /\ seen' = [seen EXCEPT ![s] = mem[TlLock]]
  /\ IF mem[TlLock] = 0
       THEN Go(s, "jn_unmap") /\ UNCHANGED ret
       ELSE Go(s, "tl_inc") /\ ret' = [ret EXCEPT ![s] = "jn_pass"]
  /\ UNCHANGED <<shimVars, peer, thr, nCreated, tlWaiters, unmapped>>

JoinPass(s) ==
  /\ At(s, "jn_pass")
  /\ WakeOneIfWaiters(s)
  /\ Go(s, "jn_unmap")
  /\ ret' = [ret EXCEPT ![s] = "none"]
  /\ UNCHANGED <<seen, peer, thr, nCreated, tlWaiters, unmapped>>

JoinUnmap(s) ==
  /\ At(s, "jn_unmap")
  /\ unmapped' = unmapped \cup {peer[s]}
  /\ peer' = [peer EXCEPT ![s] = 0]
  /\ Go(s, "main")
  /\ UNCHANGED <<shimVars, ret, seen, thr, nCreated, tlWaiters>>

-----------------------------------------------------------------------------
(* The program *)

\* A step of the scheduler other than the end of a clone call; when it frees
\* the slot, the thread in it is gone.
ShimOnly(s) ==
  /\ \/ Shim!FutexSignalTest(s) \/ Shim!FutexPark(s) \/ Shim!ParkSwitch(s)
     \/ Shim!ParkIdle(s) \/ Shim!Unpark(s) \/ Shim!ExitClearCtid(s)
     \/ Shim!ExitWake(s) \/ Shim!ExitSwitch(s) \/ Shim!ExitIdle(s)
  /\ thr' = [t \in Slot |-> IF state'[t] = "FREE" THEN 0 ELSE thr[t]]
  /\ upc' = [t \in Slot |-> IF t # Main /\ state'[t] = "FREE" THEN "none" ELSE upc[t]]
  /\ UNCHANGED <<ret, seen, peer, nCreated, tlWaiters, unmapped>>

\* What thread s has to do next; a thread may create or join when it likes.
ThreadStep(s) ==
  \/ ShimOnly(s) \/ CreateCloned(s)
  \/ TlTry(s) \/ TlInc(s) \/ TlTest(s) \/ TlDec(s) \/ TlRelease(s) \/ TlWake(s)
  \/ CreateClone(s) \/ CreateDone(s)
  \/ ExitBegin(s) \/ ExitCommit(s) \/ ExitWakeJoiner(s) \/ ExitSys(s)
  \/ JoinTest(s) \/ JoinSync(s) \/ JoinPass(s) \/ JoinUnmap(s)

Next ==
  \/ Shim!Tick /\ UNCHANGED userVars
  \/ \E s \in Slot : ThreadStep(s) \/ Create(s) \/ Join(s)

Spec == Init /\ [][Next]_vars

\* Ticks keep coming, and a time slice is long enough for a thread that gets
\* one again and again to execute its next step in one of them.
FairSpec == Spec /\ WF_vars(Shim!Tick /\ UNCHANGED userVars)
                 /\ \A s \in Slot : SF_vars(ThreadStep(s))

-----------------------------------------------------------------------------
(* Properties *)

\* Each step of these threads is one of Sched.  They send each other no signals
\* (Sig is empty): of what Sched assumes of its caller this is about
\* CloneUnderLock alone, and not about pthread_kill() and the masks of an exit.
UsesSchedAsAssumed == Shim!Spec

\* No stack is given back while a thread that runs on it could still be
\* switched away from it: until its slot is free the CPU stays with it, so no
\* other thread can map the memory.  The joiner's munmap is ordered after the
\* exit by the list lock alone, which is released before the exit is over.
StackNotReusedWhileLive ==
  \A p \in unmapped, s \in Slot : RunsOn(s, p) => cur = s /\ pc[s] \in Shim!ExitPcs

\* The list lock is held by at most one thread, from its acquisition to its
\* release, which for an exiting thread is the shim's store to *ctid.
InListSection(s) ==
  \/ upc[s] \in CreatePcs \cup {"tl_rel"} \cup (ExitPcs \ {"ex_gone"})
  \/ pc[s] = "exit_ctid"

ListLockExclusive ==
  \A s \in Slot : state[s] # "FREE" /\ InListSection(s) => mem[TlLock] = Self(s)

\* Two clones in progress never fill in the same slot, although
\* alloc_thread_slot() reserves nothing.
CloneSlotsDistinct ==
  \A s, t \in Slot : s # t /\ pc[s] = "clone_fill" /\ pc[t] = "clone_fill"
                       => arg[s].slot # arg[t].slot

\* Every thread that wants the list lock gets it.
LockGranted ==
  \A s \in Slot, l \in {"cr_clone", "ex_commit"} : ret[s] = l ~> upc[s] = l

\* A thread that begins to exit leaves its slot free for another.
ExitCompletes == \A s \in Slot : upc[s] = "ex_sys" ~> state[s] = "FREE"

\* pthread_join() returns once the thread joined exits -- which each does.
JoinReturns == upc[Main] = "jn_test" ~> upc[Main] = "main"

=============================================================================
