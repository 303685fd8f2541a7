------------------------------ MODULE Signals ------------------------------
(***************************************************************************)
(* Signal delivery of port/thread_shim.c, as one thread sees it: the raw   *)
(* calls that set dispositions, masks and pending bits, the sleep a signal *)
(* ends, and the timer tick that takes a pending signal and calls its      *)
(* handler on the interrupted stack.  A tick may land in a handler, and in *)
(* another tick's delivery, so the deliveries in progress form a stack.    *)
(*                                                                         *)
(* The other threads run when a tick preempts this one or when it is       *)
(* parked; what they do to it is to raise signals and to scan the parked   *)
(* threads.  What a handler does beyond these calls is its own business;   *)
(* it returns.  From the look at its disposition to the call of the        *)
(* handler is one step: a tick nested in between leaves the mask as it     *)
(* was, and what its handler may do to the same disposition is left out.   *)
(***************************************************************************)
EXTENDS Integers, SequencesExt

CONSTANTS
  Sig,         \* the signals in use, numbered
  SigKill,     \* SIGKILL, which need not be among them
  Ignorable,   \* those default_is_ignore() is true of
  Dispositions,\* bound: what the program may set for each signal
  MaxDepth     \* bound: ticks nested in each other (the stack, in the code)

SaFlags == {"NODEFER", "RESTART", "RESETHAND"}
Sigaction == [handler : {"ign", "dfl", "fn"}, mask : SUBSET Sig, flags : SUBSET SaFlags]

ASSUME SigAssumption == Sig \subseteq 1 .. 64 /\ Ignorable \subseteq Sig
ASSUME DispositionAssumption == Dispositions \in [Sig -> SUBSET Sigaction]
ASSUME DepthAssumption == MaxDepth \in Nat \ {0}

VARIABLES
  active,    \* g_active
  alive,     \* the program has not been terminated
  act,       \* g_sigact[]
  pending,   \* bmos_thread.sig_pending
  blocked,   \* bmos_thread.sig_blocked
  eintr,     \* bmos_thread.sig_eintr
  ticks,     \* the ticks that have not returned, the innermost last
  pc,        \* where the thread's own code is
  woken,     \* wake_reason while parked
  asked      \* the mask the program itself has asked for, outside handlers

vars == <<active, alive, act, pending, blocked, eintr, ticks, pc, woken, asked>>

Default == [handler |-> "dfl", mask |-> {}, flags |-> {}]

TypeOK ==
  /\ active \in BOOLEAN /\ alive \in BOOLEAN /\ eintr \in BOOLEAN
  /\ act \in [Sig -> Sigaction]
  /\ pending \subseteq Sig /\ blocked \subseteq Sig /\ asked \subseteq Sig
  /\ Len(ticks) <= MaxDepth
  /\ Range(ticks) \subseteq [at : {"clear", "start", "handler", "back"}, sig : Sig \cup {0},
                             saved : SUBSET Sig]
  /\ pc \in {"user", "test", "park", "parked"}
  /\ woken \in {"NONE", "TIMEOUT", "INTR"}

Init ==
  /\ active = FALSE /\ alive = TRUE /\ eintr = FALSE
  /\ act = [g \in Sig |-> Default]
  /\ pending = {} /\ blocked = {} /\ asked = {}
  /\ ticks = <<>>
  /\ pc = "user" /\ woken = "NONE"

-----------------------------------------------------------------------------
(* Where the thread is *)

InHandler == ticks # <<>> /\ Last(ticks).at = "handler"

\* the thread's own code runs, in no tick at all
Own(where) == alive /\ ticks = <<>> /\ pc = where

\* program code runs: the thread's own, or a handler
Program == alive /\ (InHandler \/ Own("user"))

\* the others run: a tick has gone on to another thread, or this one is parked
Away == /\ alive /\ active
        /\ pc = "parked" \/ (ticks # <<>> /\ Last(ticks).at = "back")

-----------------------------------------------------------------------------
(* The calls *)

\* SIGKILL has no disposition to set.
RtSigaction(g, d) ==
  /\ Program /\ g # SigKill
  /\ act' = [act EXCEPT ![g] = d]
  /\ UNCHANGED <<active, alive, pending, blocked, eintr, ticks, pc, woken, asked>>

Blockable(set) == set \ {SigKill}

RtSigprocmask(how, set) ==
  /\ Program
  /\ blocked' = CASE how = "block"   -> blocked \cup Blockable(set)
                  [] how = "unblock" -> blocked \ Blockable(set)
                  [] how = "setmask" -> Blockable(set)
  /\ asked' = IF InHandler THEN asked ELSE blocked'
  /\ UNCHANGED <<active, alive, act, pending, eintr, ticks, pc, woken>>

\* tkill() or kill() at the thread itself, which starts the timer if nothing
\* has yet
RaiseSelf(g) ==
  /\ Program
  /\ active' = TRUE
  /\ pending' = pending \cup {g}
  /\ UNCHANGED <<alive, act, blocked, eintr, ticks, pc, woken, asked>>

\* tkill() from another thread
RaisedByOther(g) ==
  /\ Away
  /\ pending' = pending \cup {g}
  /\ UNCHANGED <<active, alive, act, blocked, eintr, ticks, pc, woken, asked>>

-----------------------------------------------------------------------------
(* thread_shim_timer_tick_c() and deliver_pending_signals() *)

Deliverable == pending \ blocked

\* the innermost tick goes on
Advance(frame) == ticks' = [ticks EXCEPT ![Len(ticks)] = frame]

\* Mutant of Lowest: sig_blocked is not looked at
LowestPending == {g \in pending : \A h \in pending : g <= h}

\* the signal a tick picks, if there is one
Lowest == {g \in Deliverable : \A h \in Deliverable : g <= h}

\* A tick arrives and looks for a signal; interrupts stay on.
Tick ==
  /\ active /\ alive
  /\ Len(ticks) < MaxDepth
  /\ \/ \E g \in Lowest :
          ticks' = Append(ticks, [at |-> "clear", sig |-> g, saved |-> {}])
     \/ /\ Lowest = {}
        /\ ticks' = Append(ticks, [at |-> "back", sig |-> 0, saved |-> {}])
  /\ UNCHANGED <<active, alive, act, pending, blocked, eintr, pc, woken, asked>>

\* what is blocked while the handler of g runs, beyond what already was
HandlerMask(g) ==
  act[g].mask \cup (IF "NODEFER" \in act[g].flags THEN {} ELSE {g})

Fatal(g) == g = SigKill \/ (act[g].handler = "dfl" /\ g \notin Ignorable)

\* Mutant of Taken: the bit stays set
TakenNot(g) == pending

\* the pending set once g has been taken off it
Taken(g) == pending \ {g}

\* Take the signal, with interrupts off.
Clear ==
  /\ alive /\ ticks # <<>> /\ Last(ticks).at = "clear"
  /\ pending' = Taken(Last(ticks).sig)
  /\ Advance([Last(ticks) EXCEPT !.at = "start"])
  /\ UNCHANGED <<active, alive, act, blocked, eintr, pc, woken, asked>>

\* Follow its disposition: nothing, the end of the program, or the handler.
Deliver ==
  /\ alive /\ ticks # <<>> /\ Last(ticks).at = "start"
  /\ LET f == Last(ticks)
         g == f.sig
     IN \/ Fatal(g) /\ alive' = FALSE /\ UNCHANGED <<blocked, eintr, ticks>>
        \/ /\ ~Fatal(g) /\ act[g].handler # "fn"
           /\ Advance([f EXCEPT !.at = "back"])
           /\ UNCHANGED <<alive, blocked, eintr>>
        \/ /\ ~Fatal(g) /\ act[g].handler = "fn"
           /\ Advance([f EXCEPT !.at = "handler", !.saved = blocked])
           /\ blocked' = blocked \cup HandlerMask(g)
           /\ eintr' = (eintr \/ "RESTART" \notin act[g].flags)
           /\ UNCHANGED alive
  /\ UNCHANGED <<active, act, pending, pc, woken, asked>>

\* Mutant of Restored: only the signal itself is unblocked again
RestoredSignal(frame) == blocked \ {frame.sig}

\* sig_blocked after a handler
Restored(frame) == frame.saved

\* g_sigact[] after a handler: SA_RESETHAND takes effect
AfterHandler(g) == IF "RESETHAND" \in act[g].flags
                     THEN [act EXCEPT ![g].handler = "dfl", ![g].flags = {}]
                     ELSE act

HandlerReturns ==
  /\ alive /\ InHandler
  /\ act' = AfterHandler(Last(ticks).sig)
  /\ blocked' = Restored(Last(ticks))
  /\ Advance([Last(ticks) EXCEPT !.at = "back"])
  /\ UNCHANGED <<active, alive, pending, eintr, pc, woken, asked>>

\* reschedule(1) comes back, at once or after others have run.
TickReturns ==
  /\ alive /\ ticks # <<>> /\ Last(ticks).at = "back"
  /\ ticks' = Front(ticks)
  /\ UNCHANGED <<active, alive, act, pending, blocked, eintr, pc, woken, asked>>

-----------------------------------------------------------------------------
(* thread_shim_sleep_until() *)

Goto(l) == pc' = l /\ UNCHANGED <<active, alive, act, pending, blocked, eintr, ticks, asked>>

CallSleep == Own("user") /\ active /\ Goto("test") /\ UNCHANGED woken

\* -EINTR at once, or the time is up before it begins
SleepTest ==
  /\ Own("test")
  /\ IF Deliverable # {} THEN Goto("user") ELSE Goto("park") \/ Goto("user")
  /\ UNCHANGED woken

SleepPark == Own("park") /\ Goto("parked") /\ woken' = "NONE"

\* scan_timeouts(), in this thread's idle loop or anybody's tick
ScanTimeouts ==
  /\ alive /\ pc = "parked" /\ woken = "NONE"
  /\ woken' = IF Deliverable # {} THEN "INTR" ELSE "TIMEOUT"
  /\ UNCHANGED <<active, alive, act, pending, blocked, eintr, ticks, pc, asked>>

\* reschedule(0) comes back
Unpark == Own("parked") /\ woken # "NONE" /\ Goto("user") /\ woken' = "NONE"

-----------------------------------------------------------------------------
(* The specification *)

Call ==
  \/ \E g \in Sig : \E d \in Dispositions[g] : RtSigaction(g, d)
  \/ \E how \in {"block", "unblock", "setmask"}, set \in SUBSET Sig : RtSigprocmask(how, set)
  \/ \E g \in Sig : RaiseSelf(g)
  \/ CallSleep

Delivery == Clear \/ Deliver \/ HandlerReturns \/ TickReturns
Sleeping == SleepTest \/ SleepPark \/ Unpark

Next ==
  \/ Call \/ Tick \/ Delivery \/ Sleeping
  \/ ScanTimeouts \/ \E g \in Sig : RaisedByOther(g)

Spec == Init /\ [][Next]_vars

\* Ticks keep coming, a tick goes on where it has got to and its handler
\* returns, and between two ticks the thread gets something done.
FairSpec ==
  Spec /\ WF_vars(Tick) /\ WF_vars(Delivery) /\ SF_vars(Sleeping) /\ WF_vars(ScanTimeouts)

-----------------------------------------------------------------------------
(* Properties *)

Handling(i) == ticks[i].at = "handler"

\* However deliveries nest and whatever their handlers do to the mask, it is
\* the one the program asked for once they have all returned; meanwhile the
\* outermost of them keeps it.
MaskRestored ==
  \/ /\ \A i \in DOMAIN ticks : ~Handling(i)
     /\ blocked = asked
  \/ \E i \in DOMAIN ticks : /\ Handling(i) /\ ticks[i].saved = asked
                             /\ \A j \in 1 .. i - 1 : ~Handling(j)

\* A handler starts
Starts(g) ==
  /\ ticks # <<>> /\ ticks' # <<>> /\ Len(ticks) = Len(ticks')
  /\ Last(ticks).at = "start" /\ Last(ticks').at = "handler" /\ Last(ticks').sig = g

\* A handler is never started while its signal is blocked, although the mask
\* was looked at with interrupts on and other deliveries, whose handlers set
\* masks of their own, may have come in between.
BlockedNotHandled == [][\A g \in Sig : Starts(g) => g \notin blocked]_vars

\* A deliverable signal is taken, unless lower ones keep coming: none stays
\* the lowest for ever, whatever the program is doing.
LowestTaken == \A g \in Sig : ~ <>[](alive /\ g \in Lowest)

=============================================================================
