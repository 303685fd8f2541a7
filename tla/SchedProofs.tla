---------------------------- MODULE SchedProofs ----------------------------
(***************************************************************************)
(* Proofs about Sched, for any number of threads, futex words and signals: *)
(* the ready queue, the running thread and the slots stay consistent with  *)
(* one another.  Signals are restricted to those musl blocks before a      *)
(* thread exits: with the others ExitingStaysParked is false.              *)
(***************************************************************************)
EXTENDS Sched, TLAPS, SequenceTheorems, FiniteSetTheorems

(* The inductive invariant, by topic *)

\* before thread_shim_init() nothing has happened
Idle ==
  ~ active => /\ state = [s \in Slot |-> "FREE"]
              /\ readyQ = <<>>
              /\ cur = Main
              /\ pc = [s \in Slot |-> IF s = Main THEN "user" ELSE "none"]
              /\ waitAddr = [s \in Slot |-> NoAddr]
              /\ deadline = [s \in Slot |-> "none"]

SlotInUse == active => \A s \in Slot : state[s] = "FREE" <=> pc[s] = "none"

CurInUse == active => state[cur] # "FREE" /\ state[Main] # "FREE"

\* the CPU is on a thread that loops in reschedule(0), and it is not T_RUNNING
LoopsAreCurrent ==
  \A s \in Slot : pc[s] \in {"park", "idle"} =>
    cur = s /\ state[s] \in {"BLOCKED", "READY"}

\* T_BLOCKED is a matter of the wait and exit paths, as are wait_addr and
\* wait_deadline_ns
BlockedIsParked ==
  \A s \in Slot : /\ state[s] = "BLOCKED" => pc[s] \in ParkPcs \cup ExitPcs
                  /\ waitAddr[s] # NoAddr => state[s] = "BLOCKED" /\ pc[s] \in ParkPcs
                  /\ deadline[s] # "none" => pc[s] \in ParkPcs

WakeReasons ==
  \A s \in Slot : pc[s] \in ParkPcs =>
    /\ state[s] = "BLOCKED" <=> wakeReason[s] = "NONE"
    /\ wakeReason[s] = "TIMEOUT" => deadline[s] = "passed"

Exiting ==
  \A s \in Slot : pc[s] \in ExitPcs =>
    /\ cur = s /\ s # Main /\ state[s] = "BLOCKED" /\ Deliverable(s) = {}
    /\ pc[s] \in {"exit_ctid", "exit_wake"} => ctid[s] # NoAddr
    /\ \A u \in Slot : ~ (pc[u] = "raise" /\ arg[u].slot = s)

RaiseTargets == \A u \in Slot : pc[u] = "raise" => state[arg[u].slot] # "FREE"

CloneTargets ==
  /\ \A u \in Slot : pc[u] = "clone_fill" => /\ arg[u].slot \in Workers
                                             /\ state[arg[u].slot] = "FREE"
  /\ \A u, v \in Slot : pc[u] = "clone_fill" /\ pc[v] = "clone_fill" => u = v

\* a thread on its way to a futex park has a word to park on
FutexArgs == \A u \in Slot : pc[u] \in {"fw_sig", "fw_lock"} => arg[u].addr \in Addr

IInv ==
  /\ TypeOK
  /\ Idle /\ SlotInUse /\ CurInUse
  /\ ReadyQueueExact /\ OnlyCurrentRuns /\ LoopsAreCurrent
  /\ BlockedIsParked /\ WakeReasons /\ Exiting
  /\ RaiseTargets /\ CloneTargets /\ FutexArgs

-----------------------------------------------------------------------------
(* The ready queue as a sequence without repetition *)

\* Appending a slot that is not queued.
LEMMA AppendQueue ==
  ASSUME NEW q \in Seq(Slot), IsInjective(q), NEW x \in Slot, x \notin Range(q)
  PROVE  /\ Append(q, x) \in Seq(Slot)
         /\ Append(q, x) # <<>>
         /\ IsInjective(Append(q, x))
         /\ Range(Append(q, x)) = Range(q) \cup {x}
<1> DEFINE r == Append(q, x)
<1>1. /\ r \in Seq(Slot) /\ r # <<>> /\ Len(r) = Len(q) + 1 /\ Len(q) \in Nat
      /\ \A i \in 1 .. Len(q) : r[i] = q[i]
      /\ r[Len(q) + 1] = x
  BY AppendProperties, LenProperties
<1>2. DOMAIN r = 1 .. Len(q) + 1 /\ DOMAIN q = 1 .. Len(q)
  BY <1>1, LenProperties
<1>3. \A i \in DOMAIN q : q[i] # x
  BY DEF Range
<1>4. IsInjective(r)
  BY <1>1, <1>2, <1>3 DEF IsInjective
<1>5. Range(r) = Range(q) \cup {x}
  <2>1. ASSUME NEW y \in Range(r) PROVE y \in Range(q) \cup {x}
    BY <1>1, <1>2, <2>1 DEF Range
  <2>2. ASSUME NEW y \in Range(q) PROVE y \in Range(r)
    <3>1. PICK i \in 1 .. Len(q) : q[i] = y
      BY <1>2 DEF Range
    <3>2. i \in DOMAIN r /\ r[i] = y
      BY <1>1, <1>2, <3>1
    <3> QED BY <3>2 DEF Range
  <2>3. x \in Range(r)
    <3>1. Len(q) + 1 \in DOMAIN r
      BY <1>1, <1>2
    <3> QED BY <1>1, <3>1 DEF Range
  <2> QED BY <2>1, <2>2, <2>3
<1> QED BY <1>1, <1>4, <1>5

\* Taking the head.
LEMMA TailQueue ==
  ASSUME NEW q \in Seq(Slot), IsInjective(q), q # <<>>
  PROVE  /\ Head(q) \in Range(q) /\ Head(q) \in Slot
         /\ Tail(q) \in Seq(Slot)
         /\ IsInjective(Tail(q))
         /\ Range(Tail(q)) = Range(q) \ {Head(q)}
<1> DEFINE r == Tail(q)
<1>1. /\ Head(q) \in Slot /\ r \in Seq(Slot) /\ Len(r) = Len(q) - 1
      /\ \A i \in 1 .. Len(r) : r[i] = q[i + 1]
      /\ Len(q) \in Nat \ {0}
  BY HeadTailProperties, EmptySeq
<1>2. DOMAIN r = 1 .. Len(q) - 1 /\ DOMAIN q = 1 .. Len(q)
  BY <1>1, LenProperties
<1>3. Head(q) = q[1]
  OBVIOUS
<1>4. IsInjective(r)
  BY <1>1, <1>2 DEF IsInjective
<1>5. Head(q) \in Range(q)
  BY <1>1, <1>2, <1>3 DEF Range
<1>6. ASSUME NEW y \in Range(r) PROVE y \in Range(q) \ {Head(q)}
  <2>1. PICK i \in DOMAIN r : r[i] = y
    BY DEF Range
  <2>2. i + 1 \in DOMAIN q /\ q[i + 1] = y /\ i + 1 # 1 /\ 1 \in DOMAIN q
    BY <1>1, <1>2, <2>1
  <2>3. y # Head(q)
    BY <1>3, <2>2 DEF IsInjective
  <2> QED BY <2>2, <2>3 DEF Range
<1>7. ASSUME NEW y \in Range(q), y # Head(q) PROVE y \in Range(r)
  <2>1. PICK i \in 1 .. Len(q) : q[i] = y
    BY <1>2 DEF Range
  <2>2. i # 1
    BY <1>3, <1>7, <2>1
  <2>3. i - 1 \in DOMAIN r /\ r[i - 1] = y
    BY <1>1, <1>2, <2>1, <2>2
  <2> QED BY <2>3 DEF Range
<1> QED BY <1>1, <1>4, <1>5, <1>6, <1>7

\* Appending a batch of slots none of which is queued.
LEMMA ConcatQueue ==
  ASSUME NEW q \in Seq(Slot), IsInjective(q), NEW w \in Seq(Slot), IsInjective(w),
         Range(q) \cap Range(w) = {}
  PROVE  /\ q \o w \in Seq(Slot)
         /\ IsInjective(q \o w)
         /\ Range(q \o w) = Range(q) \cup Range(w)
<1> DEFINE r == q \o w
<1>1. /\ r \in Seq(Slot) /\ Len(r) = Len(q) + Len(w)
      /\ \A i \in 1 .. Len(q) + Len(w) : r[i] = IF i <= Len(q) THEN q[i] ELSE w[i - Len(q)]
  BY ConcatProperties
<1>2. /\ DOMAIN r = 1 .. Len(q) + Len(w) /\ Len(q) \in Nat /\ Len(w) \in Nat
      /\ DOMAIN q = 1 .. Len(q) /\ DOMAIN w = 1 .. Len(w)
  BY <1>1, LenProperties
<1>3. \A i \in DOMAIN q, j \in DOMAIN w : q[i] # w[j]
  BY DEF Range
<1>4. ASSUME NEW i \in DOMAIN r, NEW j \in DOMAIN r, r[i] = r[j] PROVE i = j
  <2>1. CASE i <= Len(q) /\ j <= Len(q)
    BY <1>1, <1>2, <1>4, <2>1 DEF IsInjective
  <2>2. CASE i > Len(q) /\ j > Len(q)
    <3>1. i - Len(q) \in DOMAIN w /\ j - Len(q) \in DOMAIN w
      BY <1>2, <2>2
    <3>2. w[i - Len(q)] = w[j - Len(q)]
      BY <1>1, <1>2, <1>4, <2>2
    <3>3. i - Len(q) = j - Len(q)
      BY <3>1, <3>2 DEF IsInjective
    <3> QED BY <1>2, <3>3
  <2>3. CASE i <= Len(q) /\ j > Len(q)
    <3>1. i \in DOMAIN q /\ j - Len(q) \in DOMAIN w /\ q[i] = w[j - Len(q)]
      BY <1>1, <1>2, <1>4, <2>3
    <3> QED BY <1>3, <3>1
  <2>4. CASE i > Len(q) /\ j <= Len(q)
    <3>1. j \in DOMAIN q /\ i - Len(q) \in DOMAIN w /\ q[j] = w[i - Len(q)]
      BY <1>1, <1>2, <1>4, <2>4
    <3> QED BY <1>3, <3>1
  <2> QED BY <1>2, <2>1, <2>2, <2>3, <2>4
<1> QED BY <1>1, <1>4, RangeConcatenation DEF IsInjective

\* A scan in slot order visits members of W, each once.
LEMMA SlotOrder ==
  ASSUME NEW W \in SUBSET Slot, NEW q \in InSlotOrder(W)
  PROVE  /\ q \in Seq(Slot)
         /\ IsInjective(q)
         /\ Range(q) = W
<1>1. IsFiniteSet(Slot)
  BY FS_Interval, MaxThreadsAssumption DEF Slot
<1>2. Cardinality(W) \in Nat
  BY <1>1, FS_Subset, FS_CardinalityType
<1>3. q \in [1 .. Cardinality(W) -> W]
  BY DEF InSlotOrder
<1>4. q \in Seq(Slot)
  BY <1>2, <1>3, SeqDef
<1>5. \A i \in DOMAIN q : q[i] \in Int
  <2>1. W \subseteq Int
    BY MaxThreadsAssumption DEF Slot
  <2> QED BY <1>3, <2>1
<1>6. \A i, j \in DOMAIN q : i < j => q[i] < q[j]
  BY <1>3 DEF InSlotOrder
<1>7. IsInjective(q)
  BY <1>2, <1>3, <1>5, <1>6 DEF IsInjective
<1>8. Range(q) = W
  <2> DEFINE n == Cardinality(W)
  <2>1. n \in Nat => Cardinality(1 .. n) = n
    <3> HIDE DEF n
    <3> QED BY FS_Interval
  <2>2. IsFiniteSet(W)
    BY <1>1, FS_Subset
  <2>3. q \in Injection(1 .. Cardinality(W), W)
    BY <1>3, <1>7 DEF Injection
  <2>4. q \in Surjection(1 .. Cardinality(W), W)
    BY <1>2, <2>1, <2>2, <2>3, FS_Injection
  <2> QED BY <1>3, <2>4 DEF Surjection, Range
<1> QED BY <1>4, <1>7, <1>8

\* The first m slots of a scan.
LEMMA SlotOrderPrefix ==
  ASSUME NEW W \in SUBSET Slot, NEW q \in InSlotOrder(W), NEW m \in Nat, m <= Len(q)
  PROVE  /\ SubSeq(q, 1, m) \in Seq(Slot)
         /\ IsInjective(SubSeq(q, 1, m))
         /\ Range(SubSeq(q, 1, m)) \subseteq W
<1> DEFINE w == SubSeq(q, 1, m)
<1>1. q \in Seq(Slot) /\ IsInjective(q) /\ Range(q) \subseteq W
  BY SlotOrder
<1>2. Len(q) \in Nat /\ DOMAIN q = 1 .. Len(q) /\ \A i \in 1 .. m : q[i] \in Slot
  BY <1>1, LenProperties, ElementOfSeq
<1>3. /\ w \in Seq(Slot)
      /\ Len(w) = m
      /\ \A i \in 1 .. m : w[i] = q[i]
  <2>1. /\ w \in Seq(Slot)
        /\ Len(w) = IF 1 <= m THEN m - 1 + 1 ELSE 0
        /\ \A i \in 1 .. m - 1 + 1 : w[i] = q[1 + i - 1]
    BY <1>2, SubSeqProperties
  <2> QED BY <2>1
<1>4. DOMAIN w = 1 .. m
  BY <1>3, LenProperties
<1>5. IsInjective(w)
  BY <1>1, <1>2, <1>3, <1>4 DEF IsInjective
<1>6. Range(w) \subseteq Range(q)
  BY <1>2, <1>3, <1>4 DEF Range
<1> QED BY <1>1, <1>3, <1>5, <1>6

-----------------------------------------------------------------------------
(* Waking, queueing and switching keep the queue exact.  `st` and `q` are    *)
(* the state array and the ready queue at some point inside a step.          *)

QueueHoldsReady(st, q) ==
  /\ q \in Seq(Slot) /\ IsInjective(q)
  /\ \A s \in Slot : st[s] = "READY" <=> s \in Range(q)

\* The running thread goes to the back of the queue.
LEMMA QueueTheRunning ==
  ASSUME NEW st \in [Slot -> ThreadStates], NEW q, QueueHoldsReady(st, q),
         NEW s \in Slot, st[s] # "READY"
  PROVE  QueueHoldsReady([st EXCEPT ![s] = "READY"], Append(q, s))
<1>1. s \notin Range(q)
  BY DEF QueueHoldsReady
<1>2. /\ Append(q, s) \in Seq(Slot) /\ IsInjective(Append(q, s))
      /\ Range(Append(q, s)) = Range(q) \cup {s}
  BY <1>1, AppendQueue DEF QueueHoldsReady
<1> QED BY <1>2 DEF QueueHoldsReady

\* The head of the queue becomes the running thread.
LEMMA RunTheHead ==
  ASSUME NEW st \in [Slot -> ThreadStates], NEW q, QueueHoldsReady(st, q), q # <<>>
  PROVE  /\ Head(q) \in Slot /\ st[Head(q)] = "READY"
         /\ QueueHoldsReady([st EXCEPT ![Head(q)] = "RUNNING"], Tail(q))
<1>1. /\ Head(q) \in Range(q) /\ Head(q) \in Slot
      /\ Tail(q) \in Seq(Slot) /\ IsInjective(Tail(q))
      /\ Range(Tail(q)) = Range(q) \ {Head(q)}
  BY TailQueue DEF QueueHoldsReady
<1> QED BY <1>1 DEF QueueHoldsReady

\* A batch of parked threads is woken.
LEMMA QueueTheWoken ==
  ASSUME state \in [Slot -> ThreadStates], QueueHoldsReady(state, readyQ),
         NEW w \in Seq(Slot), IsInjective(w),
         \A s \in Range(w) : state[s] = "BLOCKED"
  PROVE  /\ Readied(Range(w)) \in [Slot -> ThreadStates]
         /\ QueueHoldsReady(Readied(Range(w)), readyQ \o w)
<1>1. Range(readyQ) \cap Range(w) = {} /\ Range(w) \subseteq Slot
  <2>1. Range(w) \subseteq Slot
    BY ElementOfSeq, LenProperties DEF Range
  <2>2. ASSUME NEW s \in Range(readyQ) \cap Range(w) PROVE FALSE
    BY <2>1 DEF QueueHoldsReady
  <2> QED BY <2>1, <2>2
<1>2. /\ readyQ \o w \in Seq(Slot) /\ IsInjective(readyQ \o w)
      /\ Range(readyQ \o w) = Range(readyQ) \cup Range(w)
  BY <1>1, ConcatQueue DEF QueueHoldsReady
<1>3. Readied(Range(w)) \in [Slot -> ThreadStates]
  BY DEF Readied, ThreadStates
<1>4. ASSUME NEW s \in Slot
      PROVE  Readied(Range(w))[s] = "READY" <=> s \in Range(readyQ \o w)
  BY <1>2 DEF Readied, QueueHoldsReady
<1> QED BY <1>2, <1>3, <1>4 DEF QueueHoldsReady

-----------------------------------------------------------------------------
(* The two scans, as one: a batch w of waiting threads is woken              *)

Woken(w) ==
  /\ w \in Seq(Slot) /\ IsInjective(w)
  /\ \A s \in Range(w) : s \in Slot /\ state[s] = "BLOCKED" /\ pc[s] \in ParkPcs
  /\ waitAddr' = [s \in Slot |-> IF s \in Range(w) THEN NoAddr ELSE waitAddr[s]]
  /\ wakeReason' \in [Slot -> {"NONE", "SIGNAL", "TIMEOUT", "INTR"}]
  /\ \A s \in Slot : IF s \in Range(w)
                     THEN /\ wakeReason'[s] # "NONE"
                          /\ wakeReason'[s] = "TIMEOUT" => deadline[s] = "passed"
                     ELSE wakeReason'[s] = wakeReason[s]

\* scan_timeouts() wakes no exiting thread: it has no deadline, and its
\* signals are blocked.
LEMMA ScanWakesWaiters ==
  ASSUME IInv, NEW q \in InSlotOrder(ScanWakes), ClearWait(Range(q), ScanReason)
  PROVE  Woken(q)
<1>1. ScanWakes \in SUBSET Slot
  BY DEF ScanWakes
<1>2. q \in Seq(Slot) /\ IsInjective(q) /\ Range(q) = ScanWakes
  BY <1>1, SlotOrder
<1>3. ASSUME NEW s \in Range(q)
      PROVE  s \in Slot /\ state[s] = "BLOCKED" /\ pc[s] \in ParkPcs
  <2>1. s \in Slot /\ state[s] = "BLOCKED"
        /\ (Deliverable(s) # {} \/ deadline[s] = "passed")
    BY <1>2 DEF ScanWakes
  <2>2. pc[s] \in ExitPcs => Deliverable(s) = {}
    BY <2>1 DEF IInv, Exiting
  <2> QED BY <2>1, <2>2 DEF IInv, BlockedIsParked, ParkPcs, ExitPcs
<1>4. ASSUME NEW s \in Range(q)
      PROVE  /\ ScanReason(s) \in {"TIMEOUT", "INTR"}
             /\ ScanReason(s) = "TIMEOUT" => deadline[s] = "passed"
  BY <1>2 DEF ScanReason, ScanWakes
<1> QED BY <1>2, <1>3, <1>4 DEF Woken, ClearWait, IInv, TypeOK

\* futex_wake() wakes no exiting thread: its wait_addr is null.
LEMMA FutexWakesWaiters ==
  ASSUME IInv, NEW a \in Addr, NEW n \in Nat, FutexWake(a, n)
  PROVE  \E w : Woken(w) /\ state' = Readied(Range(w)) /\ readyQ' = readyQ \o w
<1> DEFINE W == {s \in Slot : state[s] = "BLOCKED" /\ waitAddr[s] = a}
<1>1. PICK q \in InSlotOrder(W) :
        LET w == SubSeq(q, 1, IF n < Len(q) THEN n ELSE Len(q)) IN
        /\ state' = Readied(Range(w))
        /\ readyQ' = readyQ \o w
        /\ ClearWait(Range(w), LAMBDA s : "SIGNAL")
  BY DEF FutexWake
<1> DEFINE m == IF n < Len(q) THEN n ELSE Len(q)
           w == SubSeq(q, 1, m)
<1>2. m \in Nat /\ m <= Len(q)
  BY SlotOrder, LenProperties
<1>3. w \in Seq(Slot) /\ IsInjective(w) /\ Range(w) \subseteq W
  BY <1>2, SlotOrderPrefix
<1>4. /\ waitAddr' = [s \in Slot |-> IF s \in Range(w) THEN NoAddr ELSE waitAddr[s]]
      /\ wakeReason' = [s \in Slot |-> IF s \in Range(w) THEN "SIGNAL" ELSE wakeReason[s]]
  BY <1>1 DEF ClearWait
<1>5. ASSUME NEW s \in Range(w)
      PROVE  s \in Slot /\ state[s] = "BLOCKED" /\ pc[s] \in ParkPcs
  BY <1>3, AddrAssumption DEF IInv, BlockedIsParked
<1>6. Woken(w)
  BY <1>3, <1>4, <1>5 DEF Woken, IInv, TypeOK
<1> QED BY <1>1, <1>6

-----------------------------------------------------------------------------
(* Every action preserves the invariant *)

LEMMA Initially == Init => IInv
<1> SUFFICES ASSUME Init PROVE IInv
  OBVIOUS
<1>1. Main \in Slot /\ <<>> \in Seq(Slot) /\ Range(<<>>) = {}
  BY MaxThreadsAssumption DEF Slot, Main, Range
<1>2. TypeOK
  BY <1>1, ValAssumption DEF Init, TypeOK, ThreadStates, Pcs, Args, NoArg
<1>3. ReadyQueueExact
  BY <1>1 DEF Init, ReadyQueueExact, IsInjective
<1>4. Idle /\ SlotInUse /\ CurInUse /\ OnlyCurrentRuns
  BY DEF Init, Idle, SlotInUse, CurInUse, OnlyCurrentRuns
<1>5. LoopsAreCurrent /\ BlockedIsParked /\ WakeReasons /\ Exiting /\ RaiseTargets
        /\ CloneTargets /\ FutexArgs
  BY DEF Init, LoopsAreCurrent, BlockedIsParked, WakeReasons, Exiting, RaiseTargets,
         CloneTargets, FutexArgs, ParkPcs, ExitPcs
<1> QED BY <1>2, <1>3, <1>4, <1>5 DEF IInv

LEMMA FutexSignalTestKeeps ==
  ASSUME IInv, NEW s \in Slot, FutexSignalTest(s)
  PROVE  IInv'
BY DEF FutexSignalTest, Goto, schedVars, waitVars, sigVars, IInv, TypeOK, Idle, SlotInUse,
  CurInUse, ReadyQueueExact, OnlyCurrentRuns, LoopsAreCurrent, BlockedIsParked, WakeReasons,
  Exiting, RaiseTargets, CloneTargets, FutexArgs, Pcs, ParkPcs, ExitPcs, Deliverable

\* The argument records the calls store.
LEMMA NoArgRecord == NoArg \in Args
BY ValAssumption, MaxThreadsAssumption DEF NoArg, Args, Slot, Main

LEMMA SlotArgRecord ==
  ASSUME NEW t \in Slot
  PROVE  [NoArg EXCEPT !.slot = t] \in Args /\ [NoArg EXCEPT !.slot = t].slot = t
BY ValAssumption, MaxThreadsAssumption DEF NoArg, Args, Slot, Main

LEMMA FutexArgRecord ==
  ASSUME NEW a \in Addr, NEW v \in Val, NEW timed \in BOOLEAN
  PROVE  [addr |-> a, val |-> v, timed |-> timed, slot |-> Main] \in Args
<1>1. Main \in Slot
  BY MaxThreadsAssumption DEF Slot, Main
<1> QED BY <1>1 DEF Args

\* A running thread leaves a call without parking.
LEMMA LeaveKeeps ==
  ASSUME IInv, active, NEW s \in Slot, cur = s, state[s] = "RUNNING",
         pc[s] = "fw_lock", Goto(s, "user"),
         UNCHANGED <<schedVars, waitVars, sigVars, arg, ctid, mem>>
  PROVE  IInv'
BY DEF Goto, schedVars, waitVars, sigVars, IInv, TypeOK, Idle, SlotInUse, CurInUse,
  ReadyQueueExact, OnlyCurrentRuns, LoopsAreCurrent, BlockedIsParked, WakeReasons,
  Exiting, RaiseTargets, CloneTargets, FutexArgs, Pcs, ParkPcs, ExitPcs, Deliverable

LEMMA FutexParkKeeps ==
  ASSUME IInv, NEW s \in Slot, FutexPark(s)
  PROVE  IInv'
<1>1. active /\ state[s] = "RUNNING" /\ cur = s /\ pc[s] = "fw_lock"
  BY DEF FutexPark, IInv, TypeOK, Idle, OnlyCurrentRuns, ExitPcs
<1>2. CASE mem[arg[s].addr] # arg[s].val
  BY <1>1, <1>2, LeaveKeeps DEF FutexPark, schedVars
<1>3. CASE mem[arg[s].addr] = arg[s].val
  <2>1. /\ state' = [state EXCEPT ![s] = "BLOCKED"]
        /\ waitAddr' = [waitAddr EXCEPT ![s] = arg[s].addr]
        /\ deadline' = [deadline EXCEPT ![s] = IF arg[s].timed THEN "armed" ELSE "none"]
        /\ wakeReason' = [wakeReason EXCEPT ![s] = "NONE"]
        /\ pc' = [pc EXCEPT ![s] = "park"]
        /\ UNCHANGED <<readyQ, cur, active, sigPending, sigBlocked, arg, ctid, mem>>
    BY <1>3 DEF FutexPark, Goto, sigVars
  <2> USE <1>1, <2>1 DEF IInv
  <2>2. TypeOK'
    BY DEF TypeOK, Pcs, ParkPcs, ThreadStates, Args
  <2>3. (Idle /\ SlotInUse /\ CurInUse)'
    BY DEF TypeOK, Idle, SlotInUse, CurInUse
  <2>4. ReadyQueueExact'
    BY DEF TypeOK, ReadyQueueExact
  <2>5. (OnlyCurrentRuns /\ LoopsAreCurrent)'
    BY DEF TypeOK, OnlyCurrentRuns, LoopsAreCurrent, ExitPcs
  <2>6. (BlockedIsParked /\ WakeReasons)'
    BY DEF TypeOK, BlockedIsParked, WakeReasons, ParkPcs, ExitPcs
  <2>7. Exiting'
    BY DEF TypeOK, Exiting, Deliverable, ExitPcs
  <2>8. (RaiseTargets /\ CloneTargets /\ FutexArgs)'
    BY DEF TypeOK, RaiseTargets, CloneTargets, FutexArgs
  <2> QED BY <2>2, <2>3, <2>4, <2>5, <2>6, <2>7, <2>8
<1> QED BY <1>2, <1>3

LEMMA SleepParkKeeps ==
  ASSUME IInv, NEW s \in Slot, SleepPark(s)
  PROVE  IInv'
<1> USE DEF IInv, SleepPark, Goto, schedVars, waitVars, sigVars
<1>1. active /\ state[s] = "RUNNING"
  BY DEF TypeOK, Idle, OnlyCurrentRuns, ExitPcs
<1>2. TypeOK'
  BY <1>1 DEF TypeOK, Pcs, ParkPcs, ExitPcs, Args, ThreadStates
<1>3. (Idle /\ SlotInUse /\ CurInUse)'
  BY <1>1 DEF TypeOK, Idle, SlotInUse, CurInUse
<1>4. ReadyQueueExact'
  BY <1>1 DEF TypeOK, Idle, ReadyQueueExact
<1>5. (OnlyCurrentRuns /\ LoopsAreCurrent)'
  BY <1>1 DEF TypeOK, Idle, OnlyCurrentRuns, LoopsAreCurrent, ExitPcs
<1>6. (BlockedIsParked /\ WakeReasons)'
  BY <1>1 DEF TypeOK, BlockedIsParked, WakeReasons, ParkPcs, ExitPcs
<1>7. Exiting'
  BY <1>1 DEF TypeOK, Exiting, Deliverable, ExitPcs
<1>8. (RaiseTargets /\ CloneTargets /\ FutexArgs)'
  BY <1>1 DEF TypeOK, RaiseTargets, CloneTargets, FutexArgs
<1> QED BY <1>2, <1>3, <1>4, <1>5, <1>6, <1>7, <1>8

LEMMA UnparkKeeps ==
  ASSUME IInv, NEW s \in Slot, Unpark(s)
  PROVE  IInv'
<1> USE DEF IInv, Unpark, Goto, schedVars, waitVars, sigVars
<1>1. active /\ state[s] = "RUNNING"
  BY DEF TypeOK, Idle, OnlyCurrentRuns, ExitPcs
<1>2. NoArg \in Args
  BY NoArgRecord
<1>3. TypeOK'
  BY <1>1, <1>2 DEF TypeOK, Pcs, ParkPcs, ExitPcs, Args, ThreadStates
<1>4. (Idle /\ SlotInUse /\ CurInUse)'
  BY <1>1, <1>2 DEF TypeOK, Idle, SlotInUse, CurInUse
<1>5. ReadyQueueExact'
  BY <1>1, <1>2 DEF TypeOK, Idle, ReadyQueueExact
<1>6. (OnlyCurrentRuns /\ LoopsAreCurrent)'
  BY <1>1, <1>2 DEF TypeOK, Idle, OnlyCurrentRuns, LoopsAreCurrent, ExitPcs
<1>7. (BlockedIsParked /\ WakeReasons)'
  BY <1>1, <1>2 DEF TypeOK, BlockedIsParked, WakeReasons, ParkPcs, ExitPcs
<1>8. Exiting'
  BY <1>1, <1>2 DEF TypeOK, Exiting, Deliverable, ExitPcs
<1>9. (RaiseTargets /\ CloneTargets /\ FutexArgs)'
  BY <1>1, <1>2 DEF TypeOK, RaiseTargets, CloneTargets, FutexArgs
<1> QED BY <1>3, <1>4, <1>5, <1>6, <1>7, <1>8, <1>9

LEMMA RaisePendingKeeps ==
  ASSUME IInv, NEW s \in Slot, NEW sig \in Sig, RaisePending(s, sig)
  PROVE  IInv'
<1> USE DEF IInv, RaisePending, Goto, schedVars, waitVars, sigVars
<1>1. active /\ state[s] = "RUNNING"
  BY DEF TypeOK, Idle, OnlyCurrentRuns, ExitPcs
<1>2. NoArg \in Args
  BY NoArgRecord
<1>3. TypeOK'
  BY <1>1, <1>2 DEF TypeOK, Pcs, ParkPcs, ExitPcs, Args, ThreadStates
<1>4. (Idle /\ SlotInUse /\ CurInUse)'
  BY <1>1, <1>2 DEF TypeOK, Idle, SlotInUse, CurInUse
<1>5. ReadyQueueExact'
  BY <1>1, <1>2 DEF TypeOK, Idle, ReadyQueueExact
<1>6. (OnlyCurrentRuns /\ LoopsAreCurrent)'
  BY <1>1, <1>2 DEF TypeOK, Idle, OnlyCurrentRuns, LoopsAreCurrent, ExitPcs
<1>7. (BlockedIsParked /\ WakeReasons)'
  BY <1>1, <1>2 DEF TypeOK, BlockedIsParked, WakeReasons, ParkPcs, ExitPcs
<1>8. Exiting'
  BY <1>1, <1>2 DEF TypeOK, Exiting, Deliverable, ExitPcs
<1>9. (RaiseTargets /\ CloneTargets /\ FutexArgs)'
  BY <1>1, <1>2 DEF TypeOK, RaiseTargets, CloneTargets, FutexArgs
<1> QED BY <1>3, <1>4, <1>5, <1>6, <1>7, <1>8, <1>9

LEMMA ExitClearCtidKeeps ==
  ASSUME IInv, NEW s \in Slot, ExitClearCtid(s)
  PROVE  IInv'
<1> USE DEF IInv, ExitClearCtid, Goto, schedVars, waitVars, sigVars
<1>1. active /\ ctid[s] # NoAddr
  BY DEF TypeOK, Idle, Exiting, ExitPcs
<1>2. mem' \in [Addr -> Val]
  BY ValAssumption DEF TypeOK
<1>3. TypeOK'
  BY <1>1, <1>2 DEF TypeOK, Pcs, ParkPcs, ExitPcs, Args, ThreadStates
<1>4. (Idle /\ SlotInUse /\ CurInUse)'
  BY <1>1, <1>2 DEF TypeOK, Idle, SlotInUse, CurInUse
<1>5. ReadyQueueExact'
  BY <1>1, <1>2 DEF TypeOK, Idle, ReadyQueueExact
<1>6. (OnlyCurrentRuns /\ LoopsAreCurrent)'
  BY <1>1, <1>2 DEF TypeOK, Idle, OnlyCurrentRuns, LoopsAreCurrent, ExitPcs
<1>7. (BlockedIsParked /\ WakeReasons)'
  BY <1>1, <1>2 DEF TypeOK, BlockedIsParked, WakeReasons, ParkPcs, ExitPcs
<1>8. Exiting'
  BY <1>1, <1>2 DEF TypeOK, Exiting, Deliverable, ExitPcs
<1>9. (RaiseTargets /\ CloneTargets /\ FutexArgs)'
  BY <1>1, <1>2 DEF TypeOK, RaiseTargets, CloneTargets, FutexArgs
<1> QED BY <1>3, <1>4, <1>5, <1>6, <1>7, <1>8, <1>9

LEMMA CallFutexWaitKeeps ==
  ASSUME IInv, NEW s \in Slot, NEW a \in Addr, NEW v \in Val, NEW timed \in BOOLEAN,
         CallFutexWait(s, a, v, timed)
  PROVE  IInv'
<1> USE DEF IInv, CallFutexWait, Goto, InUser, schedVars, waitVars, sigVars
<1>1. arg' \in [Slot -> Args]
  BY FutexArgRecord DEF TypeOK
<1>2. /\ \A u \in Slot \ {s} : arg'[u] = arg[u] /\ pc'[u] = pc[u]
      /\ (pc'[s] = "fw_sig" /\ arg'[s].addr = a) \/ pc'[s] = "user"
  BY DEF TypeOK
<1>3. TypeOK'
  BY <1>1 DEF TypeOK, Pcs, ParkPcs, ExitPcs, Args, ThreadStates
<1>4. (Idle /\ SlotInUse /\ CurInUse)'
  BY <1>1 DEF TypeOK, Idle, SlotInUse, CurInUse
<1>5. ReadyQueueExact'
  BY <1>1 DEF TypeOK, Idle, ReadyQueueExact
<1>6. (OnlyCurrentRuns /\ LoopsAreCurrent)'
  BY <1>1 DEF TypeOK, Idle, OnlyCurrentRuns, LoopsAreCurrent, ExitPcs
<1>7. (BlockedIsParked /\ WakeReasons)'
  BY <1>1 DEF TypeOK, BlockedIsParked, WakeReasons, ParkPcs, ExitPcs
<1>8. Exiting'
  BY <1>1 DEF TypeOK, Exiting, Deliverable, ExitPcs
<1>9. (RaiseTargets /\ CloneTargets /\ FutexArgs)'
  <2>1. UNCHANGED state /\ pc[s] = "user"
    OBVIOUS
  <2> HIDE DEF CallFutexWait
  <2>2. RaiseTargets'
    BY <1>2, <2>1 DEF TypeOK, RaiseTargets
  <2>3. CloneTargets'
    BY <1>2, <2>1 DEF TypeOK, CloneTargets
  <2>4. FutexArgs'
    BY <1>2, <2>1 DEF TypeOK, FutexArgs
  <2> QED BY <2>2, <2>3, <2>4
<1> QED BY <1>3, <1>4, <1>5, <1>6, <1>7, <1>8, <1>9

LEMMA CallSleepKeeps ==
  ASSUME IInv, NEW s \in Slot, CallSleep(s)
  PROVE  IInv'
<1> USE DEF IInv, CallSleep, Goto, InUser, schedVars, waitVars, sigVars
<1>1. ~ active => pc' = pc
  BY DEF TypeOK
<1>2. TypeOK'
  BY <1>1 DEF TypeOK, Pcs, ParkPcs, ExitPcs, Args, ThreadStates
<1>3. (Idle /\ SlotInUse /\ CurInUse)'
  BY <1>1 DEF TypeOK, Idle, SlotInUse, CurInUse
<1>4. ReadyQueueExact'
  BY <1>1 DEF TypeOK, Idle, ReadyQueueExact
<1>5. (OnlyCurrentRuns /\ LoopsAreCurrent)'
  BY <1>1 DEF TypeOK, Idle, OnlyCurrentRuns, LoopsAreCurrent, ExitPcs
<1>6. (BlockedIsParked /\ WakeReasons)'
  BY <1>1 DEF TypeOK, BlockedIsParked, WakeReasons, ParkPcs, ExitPcs
<1>7. Exiting'
  BY <1>1 DEF TypeOK, Exiting, Deliverable, ExitPcs
<1>8. (RaiseTargets /\ CloneTargets /\ FutexArgs)'
  BY <1>1 DEF TypeOK, RaiseTargets, CloneTargets, FutexArgs
<1> QED BY <1>2, <1>3, <1>4, <1>5, <1>6, <1>7, <1>8

LEMMA UserWriteKeeps ==
  ASSUME IInv, NEW s \in Slot, NEW a \in Addr, NEW v \in Val, UserWrite(s, a, v)
  PROVE  IInv'
<1> USE DEF IInv, UserWrite, InUser, schedVars, waitVars, sigVars
<1>1. TypeOK'
  BY DEF TypeOK, Pcs, ParkPcs, ExitPcs, Args, ThreadStates
<1>2. (Idle /\ SlotInUse /\ CurInUse)'
  BY DEF TypeOK, Idle, SlotInUse, CurInUse
<1>3. ReadyQueueExact'
  BY DEF TypeOK, Idle, ReadyQueueExact
<1>4. (OnlyCurrentRuns /\ LoopsAreCurrent)'
  BY DEF TypeOK, Idle, OnlyCurrentRuns, LoopsAreCurrent, ExitPcs
<1>5. (BlockedIsParked /\ WakeReasons)'
  BY DEF TypeOK, BlockedIsParked, WakeReasons, ParkPcs, ExitPcs
<1>6. Exiting'
  BY DEF TypeOK, Exiting, Deliverable, ExitPcs
<1>7. (RaiseTargets /\ CloneTargets /\ FutexArgs)'
  BY DEF TypeOK, RaiseTargets, CloneTargets, FutexArgs
<1> QED BY <1>1, <1>2, <1>3, <1>4, <1>5, <1>6, <1>7

LEMMA CallSetMaskKeeps ==
  ASSUME IInv, NEW s \in Slot, NEW B \in SUBSET Sig, CallSetMask(s, B)
  PROVE  IInv'
<1> USE DEF IInv, CallSetMask, InUser, schedVars, waitVars, sigVars
<1>1. TypeOK'
  BY DEF TypeOK, Pcs, ParkPcs, ExitPcs, Args, ThreadStates
<1>2. (Idle /\ SlotInUse /\ CurInUse)'
  BY DEF TypeOK, Idle, SlotInUse, CurInUse
<1>3. ReadyQueueExact'
  BY DEF TypeOK, Idle, ReadyQueueExact
<1>4. (OnlyCurrentRuns /\ LoopsAreCurrent)'
  BY DEF TypeOK, Idle, OnlyCurrentRuns, LoopsAreCurrent, ExitPcs
<1>5. (BlockedIsParked /\ WakeReasons)'
  BY DEF TypeOK, BlockedIsParked, WakeReasons, ParkPcs, ExitPcs
<1>6. Exiting'
  BY DEF TypeOK, Exiting, Deliverable, ExitPcs
<1>7. (RaiseTargets /\ CloneTargets /\ FutexArgs)'
  BY DEF TypeOK, RaiseTargets, CloneTargets, FutexArgs
<1> QED BY <1>1, <1>2, <1>3, <1>4, <1>5, <1>6, <1>7

LEMMA TimePassesKeeps ==
  ASSUME IInv, NEW s \in Slot, TimePasses(s)
  PROVE  IInv'
<1> USE DEF IInv, TimePasses, schedVars, waitVars, sigVars
<1>1. TypeOK'
  BY DEF TypeOK, Pcs, ParkPcs, ExitPcs, Args, ThreadStates
<1>2. (Idle /\ SlotInUse /\ CurInUse)'
  BY DEF TypeOK, Idle, SlotInUse, CurInUse
<1>3. ReadyQueueExact'
  BY DEF TypeOK, Idle, ReadyQueueExact
<1>4. (OnlyCurrentRuns /\ LoopsAreCurrent)'
  BY DEF TypeOK, Idle, OnlyCurrentRuns, LoopsAreCurrent, ExitPcs
<1>5. (BlockedIsParked /\ WakeReasons)'
  BY DEF TypeOK, BlockedIsParked, WakeReasons, ParkPcs, ExitPcs
<1>6. Exiting'
  BY DEF TypeOK, Exiting, Deliverable, ExitPcs
<1>7. (RaiseTargets /\ CloneTargets /\ FutexArgs)'
  BY DEF TypeOK, RaiseTargets, CloneTargets, FutexArgs
<1> QED BY <1>1, <1>2, <1>3, <1>4, <1>5, <1>6, <1>7

LEMMA CallTkillKeeps ==
  ASSUME IInv, NEW s \in Slot, NEW t \in Slot, pc[t] \notin ExitPcs, CallTkill(s, t)
  PROVE  IInv'
<1> USE DEF IInv, CallTkill, ShimInit, Goto, InUser, schedVars, waitVars, sigVars
<1>1. /\ state' \in [Slot -> ThreadStates] /\ Main \in Slot
      /\ \A u \in Slot \ {Main} : state'[u] = state[u]
      /\ active => state'[Main] = state[Main]
      /\ ~ active => state'[Main] = "RUNNING"
  BY MaxThreadsAssumption DEF TypeOK, ThreadStates, Slot, Main
<1>2. arg' \in [Slot -> Args] /\ arg'[s].slot = t
  BY SlotArgRecord DEF TypeOK
<1>3. TypeOK'
  BY <1>1, <1>2 DEF TypeOK, Pcs, ParkPcs, ExitPcs, Args, ThreadStates
<1>4. (Idle /\ SlotInUse /\ CurInUse)'
  BY <1>1, <1>2 DEF TypeOK, Idle, SlotInUse, CurInUse
<1>5. ReadyQueueExact'
  BY <1>1, <1>2 DEF TypeOK, Idle, ReadyQueueExact
<1>6. (OnlyCurrentRuns /\ LoopsAreCurrent)'
  BY <1>1, <1>2 DEF TypeOK, Idle, OnlyCurrentRuns, LoopsAreCurrent, ExitPcs, Idle
<1>7. (BlockedIsParked /\ WakeReasons)'
  BY <1>1, <1>2 DEF TypeOK, BlockedIsParked, WakeReasons, ParkPcs, ExitPcs, Idle
<1>8. Exiting'
  BY <1>1, <1>2 DEF TypeOK, Exiting, Deliverable, ExitPcs
<1>9. (RaiseTargets /\ CloneTargets /\ FutexArgs)'
  BY <1>1, <1>2 DEF TypeOK, RaiseTargets, CloneTargets, FutexArgs, Idle, CurInUse
<1> QED BY <1>3, <1>4, <1>5, <1>6, <1>7, <1>8, <1>9

LEMMA CallCloneKeeps ==
  ASSUME IInv, NEW s \in Slot, NEW c \in Addr, \A u \in Slot : pc[u] # "clone_fill",
         CallClone(s, c)
  PROVE  IInv'
<1>1. /\ state' \in [Slot -> ThreadStates] /\ Main \in Slot
      /\ \A u \in Slot \ {Main} : state'[u] = state[u]
      /\ active => state'[Main] = state[Main]
      /\ ~ active => state'[Main] = "RUNNING"
      /\ active' /\ cur = s /\ pc[s] = "user"
      /\ UNCHANGED <<readyQ, cur, mem>>
  BY MaxThreadsAssumption DEF CallClone, ShimInit, InUser, IInv, TypeOK, ThreadStates, Slot, Main
<1> USE <1>1 DEF IInv
<1>2. ReadyQueueExact'
  BY DEF TypeOK, Idle, ReadyQueueExact
<1>3. CASE UNCHANGED <<pc, arg, waitVars, sigVars, ctid>>
  <2> USE <1>3 DEF waitVars, sigVars
  <2>1. TypeOK'
    BY DEF TypeOK
  <2>2. (Idle /\ SlotInUse /\ CurInUse)'
    BY DEF TypeOK, Idle, SlotInUse, CurInUse
  <2>3. (OnlyCurrentRuns /\ LoopsAreCurrent)'
    BY DEF TypeOK, Idle, OnlyCurrentRuns, LoopsAreCurrent, ExitPcs
  <2>4. (BlockedIsParked /\ WakeReasons)'
    BY DEF TypeOK, Idle, BlockedIsParked, WakeReasons, ParkPcs, ExitPcs
  <2>5. Exiting'
    BY DEF TypeOK, Exiting, Deliverable, ExitPcs
  <2>6. (RaiseTargets /\ CloneTargets /\ FutexArgs)'
    BY DEF TypeOK, Args, RaiseTargets, CloneTargets, FutexArgs
  <2> QED BY <1>2, <2>1, <2>2, <2>3, <2>4, <2>5, <2>6
<1>4. CASE ~ UNCHANGED <<pc, arg, waitVars, sigVars, ctid>>
  <2>1. PICK t \in FreeSlots :
          /\ pc' = [pc EXCEPT ![s] = "clone_fill"]
          /\ arg' = [arg EXCEPT ![s] = [NoArg EXCEPT !.slot = t]]
          /\ ctid' = [ctid EXCEPT ![t] = c]
          /\ waitAddr' = [waitAddr EXCEPT ![t] = NoAddr]
          /\ deadline' = [deadline EXCEPT ![t] = "none"]
          /\ wakeReason' = [wakeReason EXCEPT ![t] = "NONE"]
          /\ sigPending' = [sigPending EXCEPT ![t] = {}]
          /\ sigBlocked' = [sigBlocked EXCEPT ![t] = sigBlocked[s]]
    BY <1>4 DEF CallClone, Goto
  <2>2. t \in Slot /\ t \in Workers /\ state[t] = "FREE" /\ t # Main /\ state'[t] = "FREE"
    BY DEF FreeSlots, Workers
  <2>3. pc[t] = "none" /\ t # s
    BY <2>2 DEF Idle, SlotInUse, TypeOK
  <2>4. arg' \in [Slot -> Args] /\ arg'[s].slot = t /\ \A u \in Slot \ {s} : arg'[u] = arg[u]
    BY <2>1, <2>2, SlotArgRecord DEF TypeOK
  <2> USE <2>1, <2>2, <2>3
  <2>5. TypeOK'
    BY <2>4 DEF TypeOK, Pcs
  <2>6. (Idle /\ SlotInUse /\ CurInUse)'
    BY DEF TypeOK, Idle, SlotInUse, CurInUse
  <2>7. (OnlyCurrentRuns /\ LoopsAreCurrent)'
    BY DEF TypeOK, Idle, OnlyCurrentRuns, LoopsAreCurrent, ExitPcs
  <2>8. (BlockedIsParked /\ WakeReasons)'
    BY DEF TypeOK, Idle, BlockedIsParked, WakeReasons, ParkPcs, ExitPcs
  <2>9. Exiting'
    BY <2>4 DEF TypeOK, Exiting, Deliverable, ExitPcs
  <2>10. (RaiseTargets /\ CloneTargets /\ FutexArgs)'
    BY <2>4 DEF TypeOK, Args, RaiseTargets, CloneTargets, FutexArgs
  <2> QED BY <1>2, <2>5, <2>6, <2>7, <2>8, <2>9, <2>10
<1> QED BY <1>3, <1>4

LEMMA CallExitKeeps ==
  ASSUME IInv, NEW s \in Slot, AppSig \subseteq sigBlocked[s], Sig \subseteq AppSig,
         \A u \in Slot : ~ (pc[u] = "raise" /\ arg[u].slot = s),
         CallExit(s)
  PROVE  IInv'
<1> USE DEF IInv, CallExit, Goto, InUser, schedVars, waitVars, sigVars
<1>1. active /\ state[s] = "RUNNING"
  BY DEF TypeOK, Idle, OnlyCurrentRuns, ExitPcs
<1>2. TypeOK'
  BY <1>1 DEF TypeOK, Pcs, ParkPcs, ExitPcs, Args, ThreadStates
<1>3. (Idle /\ SlotInUse /\ CurInUse)'
  BY <1>1 DEF TypeOK, Idle, SlotInUse, CurInUse
<1>4. ReadyQueueExact'
  BY <1>1 DEF TypeOK, Idle, ReadyQueueExact
<1>5. (OnlyCurrentRuns /\ LoopsAreCurrent)'
  BY <1>1 DEF TypeOK, Idle, OnlyCurrentRuns, LoopsAreCurrent, ExitPcs
<1>6. (BlockedIsParked /\ WakeReasons)'
  BY <1>1 DEF TypeOK, BlockedIsParked, WakeReasons, ParkPcs, ExitPcs
<1>7. Exiting'
  BY <1>1 DEF TypeOK, Exiting, Deliverable, ExitPcs
<1>8. (RaiseTargets /\ CloneTargets /\ FutexArgs)'
  BY <1>1 DEF TypeOK, RaiseTargets, CloneTargets, FutexArgs
<1> QED BY <1>2, <1>3, <1>4, <1>5, <1>6, <1>7, <1>8

LEMMA CloneReadyKeeps ==
  ASSUME IInv, NEW s \in Slot, CloneReady(s)
  PROVE  IInv'
<1> DEFINE t == arg[s].slot
<1>1. /\ active /\ cur = s /\ pc[s] = "clone_fill" /\ state[s] = "RUNNING"
      /\ t \in Slot /\ t # Main /\ state[t] = "FREE" /\ pc[t] = "none" /\ t # s
  BY DEF CloneReady, IInv, TypeOK, Args, Idle, OnlyCurrentRuns, SlotInUse, CloneTargets,
         ExitPcs, Workers
<1>2. /\ state' = [state EXCEPT ![t] = "READY"] /\ readyQ' = Append(readyQ, t)
      /\ pc' = [pc EXCEPT ![s] = "user", ![t] = "user"]
      /\ arg' = [arg EXCEPT ![s] = NoArg]
      /\ UNCHANGED <<cur, active, waitAddr, deadline, wakeReason, sigPending, sigBlocked,
                     ctid, mem>>
  BY DEF CloneReady, waitVars, sigVars
<1> HIDE DEF t
<1>3. QueueHoldsReady(state', readyQ')
  <2>1. state \in [Slot -> ThreadStates] /\ QueueHoldsReady(state, readyQ)
    BY DEF IInv, TypeOK, ReadyQueueExact, QueueHoldsReady
  <2> QED BY <1>1, <1>2, <2>1, QueueTheRunning
<1> USE <1>1, <1>2 DEF IInv
<1>4. TypeOK'
  BY <1>3, NoArgRecord DEF TypeOK, Pcs, ThreadStates, QueueHoldsReady
<1>5. (Idle /\ SlotInUse /\ CurInUse)'
  BY DEF TypeOK, Idle, SlotInUse, CurInUse
<1>6. ReadyQueueExact'
  BY <1>3 DEF QueueHoldsReady, ReadyQueueExact
<1>7. (OnlyCurrentRuns /\ LoopsAreCurrent)'
  BY DEF TypeOK, OnlyCurrentRuns, LoopsAreCurrent, ExitPcs
<1>8. (BlockedIsParked /\ WakeReasons)'
  <2>1. BlockedIsParked'
    BY DEF TypeOK, BlockedIsParked, ParkPcs, ExitPcs
  <2>2. WakeReasons'
    BY DEF TypeOK, WakeReasons, ParkPcs, ExitPcs
  <2> QED BY <2>1, <2>2
<1>9. Exiting'
  BY DEF TypeOK, Exiting, Deliverable, ExitPcs
<1>10. (RaiseTargets /\ CloneTargets /\ FutexArgs)'
  BY DEF TypeOK, RaiseTargets, CloneTargets, FutexArgs
<1> QED BY <1>4, <1>5, <1>6, <1>7, <1>8, <1>9, <1>10

\* A batch of waiting threads is woken and the CPU stays where it is.
LEMMA WakeKeeps ==
  ASSUME IInv, active, NEW w, Woken(w),
         state' = Readied(Range(w)), readyQ' = readyQ \o w,
         NEW l, pc' = [pc EXCEPT ![cur] = l],
         \/ l = pc[cur]
         \/ pc[cur] = "idle" /\ l = "park"
         \/ pc[cur] \in {"exit_wake", "exit_scan"} /\ l = "exit_deq",
         sigPending' \in [Slot -> SUBSET Sig],
         \A u \in Slot : sigPending'[u] \subseteq sigPending[u],
         UNCHANGED <<cur, active, deadline, sigBlocked, arg, ctid, mem>>
  PROVE  IInv'
<1> USE DEF IInv
<1>1. state' \in [Slot -> ThreadStates] /\ QueueHoldsReady(state', readyQ')
  BY QueueTheWoken DEF Woken, TypeOK, ReadyQueueExact, QueueHoldsReady
<1>2. /\ waitAddr' \in [Slot -> Addr \cup {NoAddr}]
      /\ \A u \in Slot : IF u \in Range(w)
           THEN /\ state[u] = "BLOCKED" /\ state'[u] = "READY" /\ pc[u] \in ParkPcs
                /\ waitAddr'[u] = NoAddr
           ELSE state'[u] = state[u] /\ waitAddr'[u] = waitAddr[u]
  BY DEF Woken, Readied, TypeOK
<1>3. \A u \in Slot : u # cur => pc'[u] = pc[u]
  BY DEF TypeOK
<1>4. pc' \in [Slot -> Pcs] /\ pc'[cur] = l
  BY DEF TypeOK, Pcs, ParkPcs, ExitPcs
<1>5. /\ wakeReason' \in [Slot -> {"NONE", "SIGNAL", "TIMEOUT", "INTR"}]
      /\ \A u \in Slot : IF u \in Range(w)
           THEN wakeReason'[u] # "NONE" /\ (wakeReason'[u] = "TIMEOUT" => deadline[u] = "passed")
           ELSE wakeReason'[u] = wakeReason[u]
  BY DEF Woken
<1>6. TypeOK'
  BY <1>1, <1>2, <1>4, <1>5 DEF TypeOK, QueueHoldsReady
<1>7. (Idle /\ SlotInUse /\ CurInUse)'
  BY <1>2, <1>3, <1>4, MaxThreadsAssumption
  DEF TypeOK, Idle, SlotInUse, CurInUse, ParkPcs, Slot, Main
<1>8. ReadyQueueExact'
  BY <1>1 DEF QueueHoldsReady, ReadyQueueExact
<1>9. (OnlyCurrentRuns /\ LoopsAreCurrent)'
  BY <1>2, <1>3, <1>4 DEF TypeOK, OnlyCurrentRuns, LoopsAreCurrent, ParkPcs, ExitPcs
<1>10. (BlockedIsParked /\ WakeReasons)'
  BY <1>2, <1>3, <1>4, <1>5 DEF TypeOK, BlockedIsParked, WakeReasons, ParkPcs, ExitPcs
<1>11. Exiting'
  BY <1>2, <1>3, <1>4 DEF TypeOK, Exiting, Deliverable, ParkPcs, ExitPcs
<1>12. (RaiseTargets /\ CloneTargets /\ FutexArgs)'
  BY <1>2, <1>3, <1>4 DEF TypeOK, Args, RaiseTargets, CloneTargets, FutexArgs
<1> QED BY <1>6, <1>7, <1>8, <1>9, <1>10, <1>11, <1>12

\* The running thread is put at the back of the queue, after the woken ones.
LEMMA RequeueKeeps ==
  ASSUME IInv, active, state[cur] = "RUNNING", NEW w, Woken(w),
         Requeue(Readied(Range(w)), readyQ \o w),
         sigPending' \in [Slot -> SUBSET Sig],
         \A u \in Slot : sigPending'[u] \subseteq sigPending[u],
         UNCHANGED <<active, deadline, sigBlocked, pc, arg, ctid, mem>>
  PROVE  IInv'
<1> USE DEF IInv
<1> DEFINE st == [Readied(Range(w)) EXCEPT ![cur] = "READY"]
           q == Append(readyQ \o w, cur)
           h == Head(q)
<1>1. /\ Readied(Range(w)) \in [Slot -> ThreadStates]
      /\ QueueHoldsReady(Readied(Range(w)), readyQ \o w)
      /\ cur \in Slot /\ cur \notin Range(w)
  BY QueueTheWoken DEF Woken, TypeOK, ReadyQueueExact, QueueHoldsReady
<1>2. Readied(Range(w))[cur] = "RUNNING"
  BY <1>1 DEF Readied
<1>3. st \in [Slot -> ThreadStates] /\ QueueHoldsReady(st, q)
  BY <1>1, <1>2, QueueTheRunning DEF ThreadStates
<1>4. q # <<>>
  <2> DEFINE r == readyQ \o w
  <2>1. r \in Seq(Slot)
    BY <1>1 DEF QueueHoldsReady
  <2> HIDE DEF r
  <2>2. Append(r, cur) # <<>>
    BY <1>1, <2>1, AppendProperties
  <2> QED BY <2>2 DEF r
<1>5. /\ state' = [st EXCEPT ![h] = "RUNNING"] /\ cur' = h /\ readyQ' = Tail(q)
  BY DEF Requeue, SwitchToHead
<1>6. h \in Slot /\ st[h] = "READY" /\ QueueHoldsReady(state', readyQ')
  <2> HIDE DEF st, q
  <2> QED BY <1>3, <1>4, <1>5, RunTheHead
<1>7. /\ state' \in [Slot -> ThreadStates]
      /\ state'[h] = "RUNNING"
      /\ \A u \in Slot : /\ u # h /\ u = cur => state'[u] = "READY"
                         /\ u # h /\ u # cur /\ u \in Range(w) => state'[u] = "READY"
                         /\ u # h /\ u # cur /\ u \notin Range(w) => state'[u] = state[u]
      /\ h # cur /\ h \notin Range(w) => state[h] = "READY"
  <2>1. state' \in [Slot -> ThreadStates] /\ state'[h] = "RUNNING"
    <3> HIDE DEF st, h
    <3> QED BY <1>3, <1>5, <1>6 DEF ThreadStates
  <2>2. \A u \in Slot : u # h => state'[u] = st[u]
    <3> HIDE DEF st, h
    <3> QED BY <1>3, <1>5, <1>6
  <2>3. \A u \in Slot : IF u = cur THEN st[u] = "READY"
                        ELSE IF u \in Range(w) THEN st[u] = "READY" ELSE st[u] = state[u]
    BY <1>1 DEF Readied
  <2> HIDE DEF st, h
  <2> QED BY <1>6, <2>1, <2>2, <2>3
<1> HIDE DEF st, q, h
<1>8. /\ waitAddr' \in [Slot -> Addr \cup {NoAddr}]
      /\ \A u \in Slot : IF u \in Range(w)
           THEN state[u] = "BLOCKED" /\ pc[u] \in ParkPcs /\ waitAddr'[u] = NoAddr
           ELSE waitAddr'[u] = waitAddr[u]
  BY DEF Woken, TypeOK
<1>9. /\ wakeReason' \in [Slot -> {"NONE", "SIGNAL", "TIMEOUT", "INTR"}]
      /\ \A u \in Slot : IF u \in Range(w)
           THEN wakeReason'[u] # "NONE" /\ (wakeReason'[u] = "TIMEOUT" => deadline[u] = "passed")
           ELSE wakeReason'[u] = wakeReason[u]
  BY DEF Woken
<1>10. TypeOK'
  BY <1>5, <1>6, <1>7, <1>8, <1>9 DEF TypeOK, QueueHoldsReady
<1>11. (Idle /\ SlotInUse /\ CurInUse)'
  <2>1. \A u \in Slot : state[u] = "FREE" <=> state'[u] = "FREE"
    BY <1>6, <1>7, <1>8
  <2>2. Main \in Slot
    BY MaxThreadsAssumption DEF Slot, Main
  <2> QED BY <1>5, <1>6, <1>7, <2>1, <2>2 DEF Idle, SlotInUse, CurInUse
<1>12. ReadyQueueExact'
  BY <1>6 DEF QueueHoldsReady, ReadyQueueExact
<1>13. (OnlyCurrentRuns /\ LoopsAreCurrent)'
  BY <1>5, <1>6, <1>7, <1>8 DEF TypeOK, OnlyCurrentRuns, LoopsAreCurrent
<1>14. (BlockedIsParked /\ WakeReasons)'
  BY <1>5, <1>6, <1>7, <1>8, <1>9 DEF TypeOK, BlockedIsParked, WakeReasons, ParkPcs, ExitPcs
<1>15. Exiting'
  BY <1>1, <1>5 DEF TypeOK, Exiting
<1>16. (RaiseTargets /\ CloneTargets /\ FutexArgs)'
  BY <1>5, <1>6, <1>7, <1>8 DEF TypeOK, Args, RaiseTargets, CloneTargets, FutexArgs
<1> QED BY <1>10, <1>11, <1>12, <1>13, <1>14, <1>15, <1>16

\* The loop of reschedule(0): the CPU leaves a parked thread for the head of
\* the queue, possibly the same thread.
LEMMA ParkSwitchKeeps ==
  ASSUME IInv, NEW s \in Slot, ParkSwitch(s)
  PROVE  IInv'
<1>1. /\ active /\ cur = s /\ pc[s] = "park" /\ state[s] \in {"BLOCKED", "READY"}
      /\ UNCHANGED <<active, waitAddr, deadline, wakeReason, sigPending, sigBlocked,
                     arg, ctid, mem>>
  BY DEF ParkSwitch, IInv, TypeOK, Idle, LoopsAreCurrent, waitVars, sigVars
<1> USE <1>1 DEF IInv
<1>2. CASE readyQ = <<>>
  <2>1. pc' = [pc EXCEPT ![s] = "idle"] /\ UNCHANGED <<state, readyQ, cur>>
    BY <1>2 DEF ParkSwitch, Goto
  <2> USE <2>1
  <2>2. TypeOK' /\ (Idle /\ SlotInUse /\ CurInUse)' /\ ReadyQueueExact'
    BY DEF TypeOK, Pcs, ParkPcs, Idle, SlotInUse, CurInUse, ReadyQueueExact
  <2>3. (OnlyCurrentRuns /\ LoopsAreCurrent)'
    BY DEF TypeOK, OnlyCurrentRuns, LoopsAreCurrent, ExitPcs
  <2>4. (BlockedIsParked /\ WakeReasons)'
    BY DEF TypeOK, BlockedIsParked, WakeReasons, ParkPcs, ExitPcs
  <2>5. (Exiting /\ RaiseTargets /\ CloneTargets /\ FutexArgs)'
    BY DEF TypeOK, Exiting, Deliverable, ExitPcs, RaiseTargets, CloneTargets, FutexArgs
  <2> QED BY <2>2, <2>3, <2>4, <2>5
<1>3. CASE readyQ # <<>>
  <2> DEFINE h == Head(readyQ)
  <2>1. /\ pc' = [pc EXCEPT ![s] = "unpark"]
        /\ cur' = h /\ readyQ' = Tail(readyQ) /\ state' = [state EXCEPT ![h] = "RUNNING"]
    BY <1>3 DEF ParkSwitch, Goto, SwitchToHead
  <2>2. h \in Slot /\ state[h] = "READY" /\ QueueHoldsReady(state', readyQ')
    <3>1. state \in [Slot -> ThreadStates] /\ QueueHoldsReady(state, readyQ)
      BY DEF TypeOK, ReadyQueueExact, QueueHoldsReady
    <3> QED BY <1>3, <2>1, <3>1, RunTheHead
  <2> HIDE DEF h
  <2> USE <2>1, <2>2
  <2>3. TypeOK'
    BY DEF TypeOK, Pcs, ParkPcs, ThreadStates, QueueHoldsReady
  <2>4. (Idle /\ SlotInUse /\ CurInUse)'
    BY DEF TypeOK, Idle, SlotInUse, CurInUse
  <2>5. ReadyQueueExact'
    BY DEF QueueHoldsReady, ReadyQueueExact
  <2>6. (OnlyCurrentRuns /\ LoopsAreCurrent)'
    BY DEF TypeOK, OnlyCurrentRuns, LoopsAreCurrent
  <2>7. (BlockedIsParked /\ WakeReasons)'
    BY DEF TypeOK, BlockedIsParked, WakeReasons, ParkPcs, ExitPcs
  <2>8. Exiting'
    BY DEF TypeOK, Exiting, Deliverable, ExitPcs
  <2>9. (RaiseTargets /\ CloneTargets /\ FutexArgs)'
    BY DEF TypeOK, Args, RaiseTargets, CloneTargets, FutexArgs
  <2> QED BY <2>3, <2>4, <2>5, <2>6, <2>7, <2>8, <2>9
<1> QED BY <1>2, <1>3

\* exit leaves its stack and recycles its slot in one step.
LEMMA ExitSwitchKeeps ==
  ASSUME IInv, NEW s \in Slot, ExitSwitch(s)
  PROVE  IInv'
<1>1. /\ active /\ cur = s /\ pc[s] = "exit_deq" /\ state[s] = "BLOCKED" /\ s # Main
      /\ Deliverable(s) = {}
      /\ \A u \in Slot : ~ (pc[u] = "raise" /\ arg[u].slot = s)
      /\ UNCHANGED <<active, waitAddr, deadline, wakeReason, sigPending, sigBlocked,
                     arg, ctid, mem>>
  BY DEF ExitSwitch, IInv, TypeOK, Idle, Exiting, ExitPcs, waitVars, sigVars
<1> USE <1>1 DEF IInv
<1>2. CASE readyQ = <<>>
  <2>1. pc' = [pc EXCEPT ![s] = "exit_scan"] /\ UNCHANGED <<state, readyQ, cur>>
    BY <1>2 DEF ExitSwitch, Goto
  <2> USE <2>1
  <2>2. TypeOK' /\ (Idle /\ SlotInUse /\ CurInUse)' /\ ReadyQueueExact'
    BY DEF TypeOK, Pcs, ExitPcs, Idle, SlotInUse, CurInUse, ReadyQueueExact
  <2>3. (OnlyCurrentRuns /\ LoopsAreCurrent)'
    BY DEF TypeOK, OnlyCurrentRuns, LoopsAreCurrent, ExitPcs
  <2>4. (BlockedIsParked /\ WakeReasons)'
    BY DEF TypeOK, BlockedIsParked, WakeReasons, ParkPcs, ExitPcs
  <2>5. (Exiting /\ RaiseTargets /\ CloneTargets /\ FutexArgs)'
    BY DEF TypeOK, Exiting, Deliverable, ExitPcs, RaiseTargets, CloneTargets, FutexArgs
  <2> QED BY <2>2, <2>3, <2>4, <2>5
<1>3. CASE readyQ # <<>>
  <2> DEFINE h == Head(readyQ)
             st == [state EXCEPT ![h] = "RUNNING"]
  <2>1. /\ pc' = [pc EXCEPT ![s] = "none"]
        /\ cur' = h /\ readyQ' = Tail(readyQ)
        /\ state' = [state EXCEPT ![h] = "RUNNING", ![s] = "FREE"]
    BY <1>3 DEF ExitSwitch, Goto
  <2>2. h \in Slot /\ state[h] = "READY" /\ QueueHoldsReady(st, Tail(readyQ))
    <3>1. state \in [Slot -> ThreadStates] /\ QueueHoldsReady(state, readyQ)
      BY DEF TypeOK, ReadyQueueExact, QueueHoldsReady
    <3> QED BY <1>3, <3>1, RunTheHead
  <2>3. QueueHoldsReady(state', readyQ')
    <3> HIDE DEF h
    <3> QED BY <2>1, <2>2 DEF QueueHoldsReady, TypeOK
  <2> HIDE DEF h
  <2> USE <2>1, <2>2, <2>3
  <2>4. TypeOK'
    BY DEF TypeOK, Pcs, ThreadStates, QueueHoldsReady
  <2>5. (Idle /\ SlotInUse /\ CurInUse)'
    <3>1. Main \in Slot
      BY MaxThreadsAssumption DEF Slot, Main
    <3>2. CurInUse'
      BY <3>1 DEF TypeOK, CurInUse
    <3>3. (Idle /\ SlotInUse)'
      BY DEF TypeOK, Idle, SlotInUse
    <3> QED BY <3>2, <3>3
  <2>6. ReadyQueueExact'
    BY DEF QueueHoldsReady, ReadyQueueExact
  <2>7. (OnlyCurrentRuns /\ LoopsAreCurrent)'
    BY DEF TypeOK, OnlyCurrentRuns, LoopsAreCurrent
  <2>8. (BlockedIsParked /\ WakeReasons)'
    BY DEF TypeOK, BlockedIsParked, WakeReasons, ParkPcs, ExitPcs
  <2>9. Exiting'
    BY DEF TypeOK, Exiting, Deliverable, ExitPcs
  <2>10. (RaiseTargets /\ CloneTargets /\ FutexArgs)'
    BY DEF TypeOK, Args, RaiseTargets, CloneTargets, FutexArgs
  <2> QED BY <2>4, <2>5, <2>6, <2>7, <2>8, <2>9, <2>10
<1> QED BY <1>2, <1>3

\* The four places that wake a batch.
LEMMA ParkIdleKeeps ==
  ASSUME IInv, NEW s \in Slot, ParkIdle(s)
  PROVE  IInv'
<1>1. active /\ cur = s /\ pc[s] = "idle"
  BY DEF ParkIdle, IInv, TypeOK, Idle
<1>2. PICK q \in InSlotOrder(ScanWakes) :
        /\ state' = Readied(Range(q)) /\ readyQ' = readyQ \o q
        /\ ClearWait(Range(q), ScanReason)
  BY DEF ParkIdle, ScanTimeouts
<1>3. Woken(q)
  BY <1>2, ScanWakesWaiters
<1>4. sigPending \in [Slot -> SUBSET Sig]
  BY DEF IInv, TypeOK
<1>5. pc' = [pc EXCEPT ![cur] = "park"]
      /\ UNCHANGED <<cur, active, deadline, sigPending, sigBlocked, arg, ctid, mem>>
  BY <1>1 DEF ParkIdle, Goto, sigVars
<1> QED BY <1>1, <1>2, <1>3, <1>4, <1>5, WakeKeeps

LEMMA ExitIdleKeeps ==
  ASSUME IInv, NEW s \in Slot, ExitIdle(s)
  PROVE  IInv'
<1>1. active /\ cur = s /\ pc[s] = "exit_scan"
  BY DEF ExitIdle, IInv, TypeOK, Idle
<1>2. PICK q \in InSlotOrder(ScanWakes) :
        /\ state' = Readied(Range(q)) /\ readyQ' = readyQ \o q
        /\ ClearWait(Range(q), ScanReason)
  BY DEF ExitIdle, ScanTimeouts
<1>3. Woken(q)
  BY <1>2, ScanWakesWaiters
<1>4. sigPending \in [Slot -> SUBSET Sig]
  BY DEF IInv, TypeOK
<1>5. pc' = [pc EXCEPT ![cur] = "exit_deq"]
      /\ UNCHANGED <<cur, active, deadline, sigPending, sigBlocked, arg, ctid, mem>>
  BY <1>1 DEF ExitIdle, Goto, sigVars
<1> QED BY <1>1, <1>2, <1>3, <1>4, <1>5, WakeKeeps

LEMMA ExitWakeKeeps ==
  ASSUME IInv, NEW s \in Slot, ExitWake(s)
  PROVE  IInv'
<1>1. active /\ cur = s /\ pc[s] = "exit_wake" /\ ctid[s] \in Addr
  BY DEF ExitWake, IInv, TypeOK, Idle, Exiting, ExitPcs
<1>2. PICK w : Woken(w) /\ state' = Readied(Range(w)) /\ readyQ' = readyQ \o w
  BY <1>1, FutexWakesWaiters DEF ExitWake
<1>3. sigPending \in [Slot -> SUBSET Sig]
  BY DEF IInv, TypeOK
<1>4. pc' = [pc EXCEPT ![cur] = "exit_deq"]
      /\ UNCHANGED <<cur, active, deadline, sigPending, sigBlocked, arg, ctid, mem>>
  BY <1>1 DEF ExitWake, Goto, sigVars
<1> QED BY <1>1, <1>2, <1>3, <1>4, WakeKeeps

LEMMA CallFutexWakeKeeps ==
  ASSUME IInv, NEW s \in Slot, NEW a \in Addr, NEW n \in Nat, CallFutexWake(s, a, n)
  PROVE  IInv'
<1>1. active /\ cur = s /\ FutexWake(a, n)
  BY DEF CallFutexWake, InUser
<1>2. PICK w : Woken(w) /\ state' = Readied(Range(w)) /\ readyQ' = readyQ \o w
  BY <1>1, FutexWakesWaiters
<1>3. sigPending \in [Slot -> SUBSET Sig] /\ pc' = [pc EXCEPT ![cur] = pc[cur]]
  BY DEF CallFutexWake, IInv, TypeOK
<1>4. UNCHANGED <<cur, active, deadline, sigPending, sigBlocked, arg, ctid, mem>>
  BY DEF CallFutexWake, sigVars
<1> QED BY <1>1, <1>2, <1>3, <1>4, WakeKeeps

LEMMA CallYieldKeeps ==
  ASSUME IInv, NEW s \in Slot, CallYield(s)
  PROVE  IInv'
<1>1. /\ active /\ cur = s /\ state[cur] = "RUNNING"
      /\ UNCHANGED <<active, waitAddr, deadline, wakeReason, sigPending, sigBlocked,
                     pc, arg, ctid, mem>>
  BY DEF CallYield, InUser, IInv, OnlyCurrentRuns, ExitPcs, waitVars, sigVars
<1>2. Range(<<>>) = {} /\ IsInjective(<<>>) /\ <<>> \in Seq(Slot)
  BY DEF Range, IsInjective
<1>3. Woken(<<>>)
  BY <1>1, <1>2 DEF Woken, IInv, TypeOK
<1>4. Readied(Range(<<>>)) = state /\ readyQ \o <<>> = readyQ
  BY <1>2, ConcatEmptySeq DEF Readied, IInv, TypeOK
<1>5. Requeue(Readied(Range(<<>>)), readyQ \o <<>>)
  BY <1>4 DEF CallYield
<1>6. sigPending' \in [Slot -> SUBSET Sig] /\ \A u \in Slot : sigPending'[u] \subseteq sigPending[u]
  BY <1>1 DEF IInv, TypeOK
<1> QED BY <1>1, <1>3, <1>5, <1>6, RequeueKeeps

LEMMA TickKeeps ==
  ASSUME IInv, Tick
  PROVE  IInv'
<1>1. PICK q \in InSlotOrder(ScanWakes) :
        /\ ClearWait(Range(q), ScanReason)
        /\ IF state[cur] = "RUNNING" /\ readyQ \o q # <<>>
             THEN Requeue(Readied(Range(q)), readyQ \o q)
             ELSE /\ state' = Readied(Range(q))
                  /\ readyQ' = readyQ \o q
                  /\ UNCHANGED cur
  BY DEF Tick
<1>2. Woken(q)
  BY <1>1, ScanWakesWaiters
<1>3. /\ active
      /\ sigPending' \in [Slot -> SUBSET Sig]
      /\ \A u \in Slot : sigPending'[u] \subseteq sigPending[u]
      /\ UNCHANGED <<active, deadline, sigBlocked, pc, arg, ctid, mem>>
      /\ pc' = [pc EXCEPT ![cur] = pc[cur]]
  BY DEF Tick, IInv, TypeOK
<1>4. CASE state[cur] = "RUNNING" /\ readyQ \o q # <<>>
  BY <1>1, <1>2, <1>3, <1>4, RequeueKeeps
<1>5. CASE ~ (state[cur] = "RUNNING" /\ readyQ \o q # <<>>)
  BY <1>1, <1>2, <1>3, <1>5, WakeKeeps
<1> QED BY <1>4, <1>5

-----------------------------------------------------------------------------
(* The theorems *)

LEMMA StutterKeeps == IInv /\ UNCHANGED vars => IInv'
BY DEF vars, schedVars, waitVars, sigVars, IInv, TypeOK, Idle, SlotInUse, CurInUse,
  ReadyQueueExact, OnlyCurrentRuns, LoopsAreCurrent, BlockedIsParked, WakeReasons,
  Exiting, RaiseTargets, CloneTargets, FutexArgs, Deliverable

LEMMA ShimStepKeeps ==
  ASSUME IInv, NEW s \in Slot, ShimStep(s)
  PROVE  IInv'
BY FutexSignalTestKeeps, FutexParkKeeps, SleepParkKeeps, ParkSwitchKeeps, ParkIdleKeeps,
   UnparkKeeps, RaisePendingKeeps, CloneReadyKeeps, ExitClearCtidKeeps, ExitWakeKeeps,
   ExitSwitchKeeps, ExitIdleKeeps DEF ShimStep

LEMMA ClientCallKeeps ==
  ASSUME IInv, Sig \subseteq AppSig, NEW s \in Slot, ClientCall(s)
  PROVE  IInv'
<1>1. ASSUME NEW a \in Addr, NEW v \in Val, NEW timed \in BOOLEAN,
             CallFutexWait(s, a, v, timed)
      PROVE  IInv'
  BY <1>1, CallFutexWaitKeeps
<1>2. ASSUME NEW a \in Addr, NEW v \in Val, UserWrite(s, a, v) PROVE IInv'
  BY <1>2, UserWriteKeeps
<1>3. ASSUME NEW a \in Addr, NEW n \in 1 .. MaxThreads + 1, CallFutexWake(s, a, n)
      PROVE  IInv'
  BY <1>3, CallFutexWakeKeeps, MaxThreadsAssumption
<1>4. CASE CallSleep(s)
  BY <1>4, CallSleepKeeps
<1>5. CASE CallYield(s)
  BY <1>5, CallYieldKeeps
<1>6. ASSUME NEW B \in SUBSET Sig, CallSetMask(s, B) PROVE IInv'
  BY <1>6, CallSetMaskKeeps
<1>7. CASE TkillUnderLock(s)
  BY <1>7, CallTkillKeeps DEF TkillUnderLock
<1>8. CASE CloneUnderLock(s)
  BY <1>8, CallCloneKeeps DEF CloneUnderLock
<1>9. CASE ExitSignalsBlocked(s)
  BY <1>9, CallExitKeeps DEF ExitSignalsBlocked
<1> QED BY <1>1, <1>2, <1>3, <1>4, <1>5, <1>6, <1>7, <1>8, <1>9 DEF ClientCall

\* No step of any thread, of the tick or of time breaks IInv.
LEMMA StepKeeps ==
  ASSUME Sig \subseteq AppSig, IInv, [Next]_vars
  PROVE  IInv'
<1>1. CASE UNCHANGED vars
  BY <1>1, StutterKeeps
<1>2. CASE Tick
  BY <1>2, TickKeeps
<1>3. ASSUME NEW s \in Slot, TimePasses(s) PROVE IInv'
  BY <1>3, TimePassesKeeps
<1>4. ASSUME NEW s \in Slot, ShimStep(s) PROVE IInv'
  BY <1>4, ShimStepKeeps
<1>5. ASSUME NEW s \in Slot, ClientCall(s) PROVE IInv'
  BY <1>5, ClientCallKeeps
<1> QED BY <1>1, <1>2, <1>3, <1>4, <1>5 DEF Next

\* IInv is inductive.
THEOREM Inductive ==
  ASSUME Sig \subseteq AppSig
  PROVE  Spec => []IInv
<1>1. IInv /\ [Next]_vars => IInv'
  BY StepKeeps
<1> QED BY Initially, <1>1, PTL DEF Spec

\* The state keeps its types: no index out of g_threads[], no other state
\* than the four of bmos_thread.state.
THEOREM TypeCorrect ==
  ASSUME Sig \subseteq AppSig
  PROVE  Spec => []TypeOK
<1>1. IInv => TypeOK
  BY DEF IInv
<1> QED BY Inductive, <1>1, PTL

\* Whatever wakes, switches and ticks there were, the intrusive ready queue of
\* enqueue_ready_locked() holds each T_READY thread once and nobody else; at
\* most one thread is T_RUNNING, it is g_current, and the CPU is on another one
\* only in the loops of reschedule(0) and of exit.
THEOREM StatesCorrect ==
  ASSUME Sig \subseteq AppSig
  PROVE  Spec => []StatesExact
<1>1. IInv => StatesExact
  BY DEF IInv, StatesExact
<1> QED BY Inductive, <1>1, PTL

\* A slot the next clone may take is no longer used by anybody.
THEOREM SlotsSafe ==
  ASSUME Sig \subseteq AppSig
  PROVE  Spec => []FreeSlotsUnreferenced
<1>1. IInv => FreeSlotsUnreferenced
  BY DEF IInv, TypeOK, CurInUse, ReadyQueueExact, RaiseTargets, FreeSlotsUnreferenced
<1> QED BY Inductive, <1>1, PTL

\* thread_shim_exit_current() is never made ready again by a late wake, a
\* timeout or a signal the application may send.
THEOREM ExitSafe ==
  ASSUME Sig \subseteq AppSig
  PROVE  Spec => []ExitingStaysParked
<1>1. IInv => ExitingStaysParked
  BY DEF IInv, Exiting, ExitingStaysParked
<1> QED BY Inductive, <1>1, PTL

\* futex_wait() and thread_shim_sleep_until() report what happened: a timeout
\* only if the deadline has passed, and a wake only to a thread taken off its
\* word.
THEOREM WaitResults ==
  ASSUME Sig \subseteq AppSig
  PROVE  Spec => []WaitResultHonest
<1>1. IInv => WaitResultHonest
  BY DEF IInv, BlockedIsParked, WakeReasons, ParkPcs, WaitResultHonest
<1> QED BY Inductive, <1>1, PTL

-----------------------------------------------------------------------------
(* Sched implements Futex: a park is one step with the test of its word, a *)
(* scan in slot order wakes as many waiters as it was asked to, and        *)
(* nothing else touches wait_addr.                                         *)

\* Futex's Leave, on the variables of Sched
LeaveThese(S) ==
  waitAddr' = [s \in Slot |-> IF s \in S THEN NoAddr ELSE waitAddr[s]]

\* Futex has its own instance of FiniteSets.
LEMMA SameCardinality == \A S : Abstract!Cardinality(S) = Cardinality(S)
BY DEF Abstract!Cardinality, Cardinality

\* No thread enters or leaves the stretch between the call and the park.
AsksAsBefore ==
  \A u \in Slot : \/ pc'[u] = pc[u] /\ arg'[u] = arg[u]
                  \/ ~ Asking(u) /\ pc'[u] \notin {"fw_sig", "fw_lock"}

LEMMA CallsSame ==
  ASSUME AsksAsBefore
  PROVE  UNCHANGED <<Asked, Expected>>
BY DEF AsksAsBefore, Asked, Expected, Asking

\* A step that leaves the words, the calls and the wait sets alone.
LEMMA QuietStep ==
  ASSUME UNCHANGED <<mem, waitAddr>>, AsksAsBefore
  PROVE  Abstract!FutexNext
<1>1. {s \in Slot : deadline[s] = "passed" \/ Deliverable(s) # {}}' \subseteq Slot
  OBVIOUS
<1> QED BY <1>1, CallsSame DEF Abstract!FutexNext, Abstract!Environment, Abstract!callVars

\* A null wait_addr is stored where it was null already.
LEMMA NullStore ==
  ASSUME IInv, NEW s \in Slot, state[s] # "BLOCKED",
         waitAddr' = [waitAddr EXCEPT ![s] = NoAddr]
  PROVE  UNCHANGED waitAddr
BY DEF IInv, TypeOK, BlockedIsParked

\* A store to a futex word.
LEMMA StoreStep ==
  ASSUME NEW a \in Addr, NEW v \in Val, mem' = [mem EXCEPT ![a] = v], UNCHANGED waitAddr,
         AsksAsBefore
  PROVE  Abstract!FutexNext
BY CallsSame DEF Abstract!FutexNext, Abstract!Write, Abstract!callVars

\* scan_timeouts() wakes threads whose time is up or that have a signal.
LEMMA ScanStep ==
  ASSUME IInv, NEW q \in InSlotOrder(ScanWakes), ClearWait(Range(q), ScanReason),
         UNCHANGED mem, AsksAsBefore
  PROVE  Abstract!FutexNext
<1> DEFINE E == {s \in Slot : deadline[s] = "passed" \/ Deliverable(s) # {}}
<1>1. ScanWakes \in SUBSET Slot /\ ScanWakes \subseteq E
  BY DEF ScanWakes
<1>2. Range(q) = ScanWakes
  BY <1>1, SlotOrder
<1>3. Range(q) \in SUBSET E /\ LeaveThese(Range(q))
  BY <1>1, <1>2 DEF ClearWait, LeaveThese
<1>4. Abstract!GiveUp
  BY <1>3, CallsSame DEF Abstract!GiveUp, Abstract!Leave, LeaveThese, Abstract!callVars
<1> QED BY <1>4 DEF Abstract!FutexNext

\* futex_wake() takes min(n, all) of the waiters.
LEMMA WakeStep ==
  ASSUME IInv, NEW a \in Addr, NEW n \in 1 .. MaxThreads + 1, FutexWake(a, n),
         UNCHANGED mem, AsksAsBefore
  PROVE  Abstract!FutexNext
<1> DEFINE W == {s \in Slot : state[s] = "BLOCKED" /\ waitAddr[s] = a}
<1>1. W = Abstract!Waiters(a) /\ W \in SUBSET Slot
  BY AddrAssumption DEF Abstract!Waiters, IInv, BlockedIsParked
<1>2. PICK q \in InSlotOrder(W) :
        ClearWait(Range(SubSeq(q, 1, IF n < Len(q) THEN n ELSE Len(q))), LAMBDA s : "SIGNAL")
  BY DEF FutexWake
<1>3. n \in Nat /\ Cardinality(Slot) = MaxThreads + 1 /\ IsFiniteSet(Slot)
  BY MaxThreadsAssumption, FS_Interval DEF Slot
<1>4. /\ q \in Seq(Slot) /\ IsInjective(q) /\ Range(q) = W
      /\ Len(q) = Cardinality(W) /\ Len(q) \in Nat
  <2>1. q \in Seq(Slot) /\ IsInjective(q) /\ Range(q) = W
    BY <1>1, SlotOrder
  <2>2. IsFiniteSet(W) /\ Cardinality(W) \in Nat
    BY <1>1, <1>3, FS_Subset, FS_CardinalityType
  <2>3. DOMAIN q = 1 .. Cardinality(W)
    BY DEF InSlotOrder
  <2>4. Len(q) = Cardinality(W)
    <3> DEFINE c == Cardinality(W)
    <3>1. 1 .. Len(q) = 1 .. c /\ Len(q) \in Nat /\ c \in Nat
      BY <2>1, <2>2, <2>3, LenProperties
    <3> HIDE DEF c
    <3>2. \A i \in Nat : i \in 1 .. Len(q) <=> i \in 1 .. c
      BY <3>1
    <3>3. Len(q) <= c /\ c <= Len(q)
      BY <3>1, <3>2
    <3> QED BY <3>1, <3>3 DEF c
  <2> QED BY <2>1, <2>2, <2>4
<1> DEFINE m == IF n < Len(q) THEN n ELSE Len(q)
           S == Range(SubSeq(q, 1, m))
<1>5. m \in Nat /\ m <= Len(q)
  BY <1>3, <1>4
<1>6. S \subseteq W /\ IsInjective(SubSeq(q, 1, m)) /\ SubSeq(q, 1, m) \in Seq(Slot)
  BY <1>1, <1>5, SlotOrderPrefix
<1>7. ASSUME Cardinality(W) <= n PROVE S = W
  <2>1. m = Len(q)
    BY <1>3, <1>4, <1>7
  <2>2. SubSeq(q, 1, m) = q
    BY <1>4, <2>1, SubSeqFull
  <2>3. S = W
    BY <1>4, <2>2
  <2> QED BY <2>3
<1>8. ASSUME ~ (Cardinality(W) <= n) PROVE Cardinality(S) = n
  <2>1. m = n
    BY <1>3, <1>4, <1>8
  <2>2. Cardinality(S) = n
    <3> DEFINE w == SubSeq(q, 1, m)
    <3>1. Len(w) = m /\ w \in Seq(Slot) /\ IsInjective(w)
      <4>1. \A i \in 1 .. m : q[i] \in Slot
        BY <1>4, <1>5, ElementOfSeq
      <4>2. Len(w) = IF 1 <= m THEN m - 1 + 1 ELSE 0
        BY <1>5, <4>1, SubSeqProperties
      <4> QED BY <1>5, <1>6, <4>2
    <3>2. DOMAIN w = 1 .. m
      BY <3>1, LenProperties
    <3> HIDE DEF w, m
    <3>3. w \in [1 .. m -> Range(w)] /\ \A y \in Range(w) : \E i \in 1 .. m : w[i] = y
      BY <3>1, <3>2, LenProperties DEF Range
    <3>4. ExistsBijection(1 .. m, Range(w))
      BY <3>1, <3>3 DEF ExistsBijection, Bijection, Injection, Surjection
    <3>5. IsFiniteSet(1 .. m) /\ Cardinality(1 .. m) = m
      BY <1>5, FS_Interval
    <3>6. Cardinality(Range(w)) = m
      BY <3>4, <3>5, FS_Bijection
    <3> QED BY <2>1, <3>6 DEF w
  <2> QED BY <2>2
<1>9. IF Cardinality(W) <= n THEN S = W ELSE Cardinality(S) = n
  BY <1>7, <1>8
<1>10. LeaveThese(S)
  BY <1>2 DEF ClearWait, LeaveThese
<1> HIDE DEF W, S
<1>11. Abstract!Wake(a, n)
  BY <1>1, <1>6, <1>9, <1>10, SameCardinality, CallsSame
     DEF LeaveThese, Abstract!Wake, Abstract!Leave, Abstract!callVars
<1> QED BY <1>3, <1>11, SameCardinality DEF Abstract!FutexNext

\* A thread leaves the stretch between the call and the park.
LEMMA CallDecided ==
  ASSUME IInv, NEW s \in Slot, Asking(s), pc' = [pc EXCEPT ![s] = "park"]
                                          \/ pc' = [pc EXCEPT ![s] = "user"],
         UNCHANGED arg
  PROVE  Abstract!Decided(s) /\ Asked[s] = arg[s].addr /\ Expected[s] = arg[s].val
<1>1. arg[s].addr \in Addr /\ pc \in [Slot -> Pcs]
  BY DEF IInv, TypeOK, FutexArgs, Asking
<1>2. Asked[s] = arg[s].addr /\ Expected[s] = arg[s].val
  BY DEF Asked, Expected
<1>3. Asked' = [Asked EXCEPT ![s] = NoAddr] /\ Expected' = [Expected EXCEPT ![s] = 0]
  BY <1>1 DEF Asked, Expected, Asking
<1> QED BY <1>1, <1>2, <1>3, AddrAssumption DEF Abstract!Decided

\* The park of futex_wait() is one step with the second test of the word.
LEMMA ParkStep ==
  ASSUME IInv, NEW s \in Slot, FutexPark(s)
  PROVE  Abstract!FutexNext
<1> USE DEF FutexPark, Goto
<1>1. /\ Abstract!Decided(s) /\ Asked[s] = arg[s].addr /\ Expected[s] = arg[s].val
      /\ UNCHANGED mem
  BY CallDecided DEF Asking
<1>2. CASE mem[arg[s].addr] # arg[s].val
  <2>1. Abstract!Refuse(s)
    BY <1>1, <1>2 DEF Abstract!Refuse, waitVars
  <2> QED BY <2>1 DEF Abstract!FutexNext
<1>3. CASE mem[arg[s].addr] = arg[s].val
  <2>1. Abstract!Wait(s)
    BY <1>1, <1>3 DEF Abstract!Wait
  <2> QED BY <2>1 DEF Abstract!FutexNext
<1> QED BY <1>2, <1>3

\* futex_wait() gives up before the park only for a signal.
LEMMA SignalTestStep ==
  ASSUME IInv, NEW s \in Slot, FutexSignalTest(s)
  PROVE  Abstract!FutexNext
<1> USE DEF FutexSignalTest, Goto, waitVars
<1>1. CASE Deliverable(s) = {}
  <2>1. pc' = [pc EXCEPT ![s] = "fw_lock"] /\ pc[s] = "fw_sig"
    BY <1>1
  <2>2. UNCHANGED <<Asked, Expected>>
    BY <2>1 DEF Asked, Expected, Asking, IInv, TypeOK
  <2>3. Abstract!Environment
    BY <2>2 DEF Abstract!Environment, Abstract!callVars
  <2> QED BY <2>3 DEF Abstract!FutexNext
<1>2. CASE Deliverable(s) # {}
  <2>1. Abstract!Decided(s) /\ UNCHANGED <<mem, waitAddr>>
    BY <1>2, CallDecided DEF Asking
  <2>2. Abstract!Refuse(s)
    BY <1>2, <2>1 DEF Abstract!Refuse
  <2> QED BY <2>2 DEF Abstract!FutexNext
<1> QED BY <1>1, <1>2

\* The call itself.
LEMMA CallStep ==
  ASSUME IInv, NEW s \in Slot, NEW a \in Addr, NEW v \in Val, NEW timed \in BOOLEAN,
         CallFutexWait(s, a, v, timed)
  PROVE  Abstract!FutexNext
<1> USE DEF CallFutexWait, Goto, waitVars, InUser
<1>1. CASE active /\ mem[a] = v
  <2>1. Asked[s] = NoAddr /\ waitAddr[s] = NoAddr
    BY DEF Asked, Asking, IInv, BlockedIsParked, ParkPcs
  <2>2. pc'[s] = "fw_sig" /\ arg'[s].addr = a /\ arg'[s].val = v
    BY <1>1 DEF IInv, TypeOK
  <2>3. \A u \in Slot \ {s} : pc'[u] = pc[u] /\ arg'[u] = arg[u]
    BY <1>1 DEF IInv, TypeOK
  <2>4. Asked' = [Asked EXCEPT ![s] = a] /\ Expected' = [Expected EXCEPT ![s] = v]
    BY <2>2, <2>3 DEF Asked, Expected, Asking
  <2>5. Abstract!Call(s, a, v)
    BY <2>1, <2>4 DEF Abstract!Call
  <2> QED BY <2>5 DEF Abstract!FutexNext
<1>2. CASE ~ (active /\ mem[a] = v)
  BY <1>2, QuietStep DEF AsksAsBefore
<1> QED BY <1>1, <1>2

LEMMA ShimStepImplements ==
  ASSUME IInv, NEW s \in Slot, ShimStep(s)
  PROVE  Abstract!FutexNext
<1> USE DEF Goto
<1>t. pc \in [Slot -> Pcs] /\ arg \in [Slot -> Args]
  BY DEF IInv, TypeOK
<1>1. CASE FutexSignalTest(s)
  BY <1>1, SignalTestStep
<1>2. CASE Unpark(s) \/ (\E sig \in Sig : RaisePending(s, sig))
  <2>1. UNCHANGED <<mem, waitAddr>> /\ AsksAsBefore
    BY <1>t, <1>2 DEF Unpark, RaisePending, waitVars, AsksAsBefore, Asking
  <2> QED BY <2>1, QuietStep
<1>3. CASE CloneReady(s)
  <2>1. arg[s].slot \in Slot /\ pc[arg[s].slot] = "none"
    BY <1>3 DEF CloneReady, IInv, CloneTargets, SlotInUse, Idle, Workers
  <2>2. UNCHANGED <<mem, waitAddr>> /\ AsksAsBefore
    BY <1>t, <1>3, <2>1 DEF CloneReady, waitVars, AsksAsBefore, Asking
  <2> QED BY <2>2, QuietStep
<1>4. CASE ExitSwitch(s) \/ ParkSwitch(s)
  <2>1. UNCHANGED <<mem, waitAddr>> /\ AsksAsBefore
    BY <1>t, <1>4 DEF ExitSwitch, ParkSwitch, waitVars, AsksAsBefore, Asking
  <2> QED BY <2>1, QuietStep
<1>5. CASE FutexPark(s)
  BY <1>5, ParkStep
<1>6. CASE SleepPark(s)
  <2>1. state[s] # "BLOCKED" /\ waitAddr' = [waitAddr EXCEPT ![s] = NoAddr] /\ UNCHANGED mem
    BY <1>6 DEF SleepPark, IInv, BlockedIsParked, ParkPcs, ExitPcs
  <2>2. AsksAsBefore
    BY <1>t, <1>6 DEF SleepPark, AsksAsBefore, Asking
  <2> QED BY <2>1, <2>2, NullStore, QuietStep
<1>7. CASE ParkIdle(s) \/ ExitIdle(s)
  <2>1. AsksAsBefore
    BY <1>t, <1>7 DEF ParkIdle, ExitIdle, AsksAsBefore, Asking
  <2> QED BY <1>7, <2>1, ScanStep DEF ParkIdle, ExitIdle, ScanTimeouts
<1>8. CASE ExitClearCtid(s)
  <2>1. ctid[s] \in Addr /\ mem' = [mem EXCEPT ![ctid[s]] = 0] /\ UNCHANGED waitAddr
    BY <1>8 DEF ExitClearCtid, IInv, TypeOK, Exiting, ExitPcs, waitVars
  <2>2. AsksAsBefore
    BY <1>t, <1>8 DEF ExitClearCtid, AsksAsBefore, Asking
  <2> QED BY <2>1, <2>2, ValAssumption, StoreStep
<1>9. CASE ExitWake(s)
  <2>1. ctid[s] \in Addr /\ 1 \in 1 .. MaxThreads + 1 /\ FutexWake(ctid[s], 1) /\ UNCHANGED mem
    BY <1>9, MaxThreadsAssumption DEF ExitWake, IInv, TypeOK, Exiting, ExitPcs
  <2>2. AsksAsBefore
    BY <1>t, <1>9 DEF ExitWake, AsksAsBefore, Asking
  <2> QED BY <2>1, <2>2, WakeStep
<1> QED BY <1>1, <1>2, <1>3, <1>4, <1>5, <1>6, <1>7, <1>8, <1>9 DEF ShimStep

LEMMA ClientCallImplements ==
  ASSUME IInv, NEW s \in Slot, ClientCall(s)
  PROVE  Abstract!FutexNext
<1> USE DEF Goto, InUser
<1>t. pc \in [Slot -> Pcs] /\ arg \in [Slot -> Args]
  BY DEF IInv, TypeOK
<1>1. ASSUME NEW a \in Addr, NEW v \in Val, NEW timed \in BOOLEAN,
             CallFutexWait(s, a, v, timed)
      PROVE  Abstract!FutexNext
  BY <1>1, CallStep
<1>2. ASSUME NEW a \in Addr, NEW v \in Val, UserWrite(s, a, v)
      PROVE  Abstract!FutexNext
  BY <1>2, StoreStep DEF UserWrite, waitVars, AsksAsBefore
<1>3. ASSUME NEW a \in Addr, NEW n \in 1 .. MaxThreads + 1, CallFutexWake(s, a, n)
      PROVE  Abstract!FutexNext
  BY <1>3, WakeStep DEF CallFutexWake, AsksAsBefore
<1>4. CASE CallSleep(s) \/ CallYield(s) \/ (\E B \in SUBSET Sig : CallSetMask(s, B))
             \/ TkillUnderLock(s)
  <2>1. UNCHANGED <<mem, waitAddr>>
    BY <1>4 DEF CallSleep, CallYield, CallSetMask, TkillUnderLock, CallTkill, waitVars
  <2>2. AsksAsBefore
    BY <1>t, <1>4 DEF CallSleep, CallYield, CallSetMask, TkillUnderLock, CallTkill,
                      AsksAsBefore, Asking
  <2> QED BY <2>1, <2>2, QuietStep
<1>5. CASE CloneUnderLock(s)
  <2>1. PICK c \in Addr : CallClone(s, c)
    BY <1>5 DEF CloneUnderLock
  <2>2. AsksAsBefore
    BY <1>t, <2>1 DEF CallClone, AsksAsBefore, Asking
  <2>3. CASE UNCHANGED waitVars
    BY <2>1, <2>2, <2>3, QuietStep DEF CallClone, waitVars
  <2>4. CASE ~ UNCHANGED waitVars
    <3>1. PICK t \in FreeSlots : waitAddr' = [waitAddr EXCEPT ![t] = NoAddr]
      BY <2>1, <2>4 DEF CallClone
    <3>2. t \in Slot /\ state[t] # "BLOCKED" /\ UNCHANGED mem
      BY <2>1, <3>1 DEF CallClone, FreeSlots, Workers
    <3> QED BY <2>2, <3>1, <3>2, NullStore, QuietStep
  <2> QED BY <2>3, <2>4
<1>6. CASE ExitSignalsBlocked(s)
  <2>1. state[s] # "BLOCKED" /\ waitAddr' = [waitAddr EXCEPT ![s] = NoAddr] /\ UNCHANGED mem
    BY <1>6 DEF ExitSignalsBlocked, CallExit, InUser, IInv, BlockedIsParked, ParkPcs, ExitPcs
  <2>2. AsksAsBefore
    BY <1>t, <1>6 DEF ExitSignalsBlocked, CallExit, AsksAsBefore, Asking
  <2> QED BY <2>1, <2>2, NullStore, QuietStep
<1> QED BY <1>1, <1>2, <1>3, <1>4, <1>5, <1>6 DEF ClientCall

\* The scheduler implements the abstract wait sets: the step that parks is the
\* step that tests the word, so no wake is lost in between, and a wake is
\* never spent on a thread that has already left.
THEOREM RefinesFutex ==
  ASSUME Sig \subseteq AppSig
  PROVE  Spec => ImplementsFutex
<1>1. Init => Abstract!FutexInit
  BY DEF Init, Abstract!FutexInit, Deliverable, Asked, Expected, Asking
<1>2. IInv /\ [Next]_vars => [Abstract!FutexNext]_(Abstract!futexVars)
  <2> SUFFICES ASSUME IInv, [Next]_vars PROVE [Abstract!FutexNext]_(Abstract!futexVars)
    OBVIOUS
  <2>1. CASE UNCHANGED vars
    BY <2>1 DEF vars, schedVars, waitVars, sigVars, Deliverable, Asked, Expected, Asking,
                Abstract!futexVars, Abstract!callVars
  <2>2. CASE Tick
    BY <2>2, ScanStep DEF Tick, AsksAsBefore
  <2>3. ASSUME NEW s \in Slot, TimePasses(s) PROVE Abstract!FutexNext
    BY <2>3, QuietStep DEF TimePasses, AsksAsBefore
  <2>4. ASSUME NEW s \in Slot, ShimStep(s) PROVE Abstract!FutexNext
    BY <2>4, ShimStepImplements
  <2>5. ASSUME NEW s \in Slot, ClientCall(s) PROVE Abstract!FutexNext
    BY <2>5, ClientCallImplements
  <2> QED BY <2>1, <2>2, <2>3, <2>4, <2>5 DEF Next
<1> QED BY Inductive, <1>1, <1>2, PTL DEF Spec, ImplementsFutex, Abstract!FutexSpec

=============================================================================
