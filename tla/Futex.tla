------------------------------- MODULE Futex -------------------------------
(***************************************************************************)
(* What SYS_futex promises its callers, and all that musl's locks rely on: *)
(* a call joins the wait set of its word in a state in which the word has  *)
(* the value it was called with, and is turned away only if it has another *)
(* or the caller's time is up or a signal came; a wake takes as many       *)
(* waiters as it was asked to, or all of them; otherwise a thread leaves a *)
(* wait set only because its time is up or a signal came.  Sched is shown  *)
(* to implement this.                                                      *)
(***************************************************************************)
EXTENDS Naturals, FiniteSets

CONSTANTS Thread, Addr, Val, NoAddr

VARIABLES
  mem,       \* the futex words
  asked,     \* the word of each thread's undecided wait call, or NoAddr
  expected,  \* the value that call was made with
  waiting,   \* the word each thread waits on, or NoAddr
  expired    \* the threads with a passed deadline or a deliverable signal

callVars == <<asked, expected>>
futexVars == <<mem, callVars, waiting, expired>>

Waiters(a) == {t \in Thread : waiting[t] = a}

Leave(S) == waiting' = [t \in Thread |-> IF t \in S THEN NoAddr ELSE waiting[t]]

FutexInit ==
  /\ mem = [a \in Addr |-> 0]
  /\ asked = [t \in Thread |-> NoAddr]
  /\ expected = [t \in Thread |-> 0]
  /\ waiting = [t \in Thread |-> NoAddr]
  /\ expired = {}

Write(a, v) ==
  /\ mem' = [mem EXCEPT ![a] = v]
  /\ UNCHANGED <<callVars, waiting>>

Call(t, a, v) ==
  /\ asked[t] = NoAddr /\ waiting[t] = NoAddr
  /\ asked' = [asked EXCEPT ![t] = a]
  /\ expected' = [expected EXCEPT ![t] = v]
  /\ UNCHANGED <<mem, waiting>>

Decided(t) ==
  /\ asked[t] # NoAddr
  /\ asked' = [asked EXCEPT ![t] = NoAddr]
  /\ expected' = [expected EXCEPT ![t] = 0]

Wait(t) ==
  /\ Decided(t)
  /\ mem[asked[t]] = expected[t]
  /\ waiting' = [waiting EXCEPT ![t] = asked[t]]
  /\ UNCHANGED mem

Refuse(t) ==
  /\ Decided(t)
  /\ mem[asked[t]] # expected[t] \/ t \in expired
  /\ UNCHANGED <<mem, waiting>>

Wake(a, n) ==
  /\ \E S \in SUBSET Waiters(a) :
       /\ IF Cardinality(Waiters(a)) <= n THEN S = Waiters(a)
                                          ELSE Cardinality(S) = n
       /\ Leave(S)
  /\ UNCHANGED <<mem, callVars>>

GiveUp ==
  /\ \E S \in SUBSET expired : Leave(S)
  /\ UNCHANGED <<mem, callVars>>

\* Time and signals: `expired` changes on its own, and with any other step.
Environment == UNCHANGED <<mem, callVars, waiting>>

FutexNext ==
  /\ expired' \subseteq Thread
  /\ \/ \E a \in Addr, v \in Val : Write(a, v) \/ \E t \in Thread : Call(t, a, v)
     \/ \E t \in Thread : Wait(t) \/ Refuse(t)
     \/ \E a \in Addr, n \in 1 .. Cardinality(Thread) : Wake(a, n)
     \/ GiveUp
     \/ Environment

FutexSpec == FutexInit /\ [][FutexNext]_futexVars

=============================================================================
