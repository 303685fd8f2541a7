------------------------------ MODULE Console ------------------------------
(***************************************************************************)
(* The waits of port/posix_shim.c, by one thread of several: read() and    *)
(* readv() of the console, which spin on b_input(); poll() and select(),   *)
(* which look at their descriptors every millisecond; and nanosleep().     *)
(* They meet in stdin_peek, the byte poll() takes from the console to      *)
(* learn that there is one, in sig_eintr, which handlers set and only the  *)
(* console's read() takes, and in thread_shim_sleep_until().               *)
(*                                                                         *)
(* The bytes typed are numbered, so that the console's buffer is a range.  *)
(* Of the descriptors there are fd 0 and one socket, whose readiness is    *)
(* net_shim_poll()'s (Sockets): here the network makes it ready, and       *)
(* another thread may close it.  A tick may preempt this thread between    *)
(* any two steps and run a handler on it; of Signals is left whether a     *)
(* deliverable signal is pending and that its handler may set sig_eintr.   *)
(* Handlers and other threads leave the console alone.                     *)
(***************************************************************************)
EXTENDS Integers, Sequences

CONSTANTS
  MaxTyped,    \* bound: bytes typed in all
  IovLens      \* bound: the buffer lengths of the program's read()s and readv()s

ASSUME ConsoleAssumption == MaxTyped \in Nat /\ IovLens \subseteq Seq(Nat) \ {<<>>}

VARIABLES
  where,       \* where the thread is
  op,          \* the call it is in
  stdin,       \* std_target[0]
  typed,       \* bytes typed so far
  taken,       \* how many of them b_input() has given out
  peek,        \* stdin_peek, 0 for -1
  got,         \* the bytes the program has read
  iov,         \* the buffers still to be filled, lengths only
  n,           \* sys_read()'s count
  v,           \* take_eintr()'s local
  wanted,      \* the descriptors a poll() or select() asks about
  timeout,     \* "zero", "timed" or "never"
  expired,     \* the call's deadline has passed
  woken,       \* wake_reason while parked
  sock,        \* the socket: "quiet", "ready" or "closed"
  active,      \* g_active
  signal,      \* sig_pending & ~sig_blocked is not empty
  eintr        \* sig_eintr

inputVars == <<stdin, typed, taken, peek, got>>
callVars  == <<op, iov, n, v, wanted, timeout, expired, woken>>
otherVars == <<sock, active, signal>>
consoleVars == <<where, inputVars, callVars, otherVars, eintr>>

TypeOK ==
  /\ where \in {"user", "rd", "spin", "load", "store", "drain", "scan", "time",
                "test", "park", "parked"}
  /\ op \in {"none", "read", "poll", "select", "sleep"}
  /\ stdin \in {"console", "devnull"}
  /\ typed \in 0 .. MaxTyped /\ taken \in 0 .. typed /\ peek \in 0 .. taken
  /\ Len(got) <= taken
  /\ woken \in {"NONE", "INTR", "TIMEOUT"}
  /\ wanted \subseteq {"stdin", "sock"} /\ timeout \in {"zero", "timed", "never"}
  /\ sock \in {"quiet", "ready", "closed"}
  /\ {expired, v, active, signal, eintr} \subseteq BOOLEAN

ConsoleInit ==
  /\ where = "user" /\ op = "none"
  /\ stdin = "console"
  /\ typed = 0 /\ taken = 0 /\ peek = 0 /\ got = <<>>
  /\ iov = <<>> /\ n = 0 /\ v = FALSE
  /\ wanted = {} /\ timeout = "never" /\ expired = FALSE /\ woken = "NONE"
  /\ sock = "quiet"
  /\ active = FALSE /\ signal = FALSE /\ eintr = FALSE

-----------------------------------------------------------------------------
(* Helpers *)

Waiting == taken < typed     \* b_input() has a byte

Goto(l) == where' = l
Stay == UNCHANGED callVars

\* the call is over, and its locals are gone
Return ==
  /\ where' = "user" /\ op' = "none"
  /\ iov' = <<>> /\ n' = 0 /\ v' = FALSE
  /\ wanted' = {} /\ timeout' = "never" /\ expired' = FALSE /\ woken' = "NONE"

\* p[n++] = c
Store(c) == got' = Append(got, c) /\ n' = n + 1

\* p[n++] = b_input()
StoreInput == Store(taken + 1) /\ taken' = taken + 1

-----------------------------------------------------------------------------
(* dup3() onto fd 0, read() and readv() of it *)

Dup3(target) ==
  /\ where = "user"
  /\ stdin' = target
  /\ UNCHANGED <<where, callVars, otherVars, typed, taken, peek, got, eintr>>

\* /dev/null is at its end at once.
CallRead(lens) ==
  /\ where = "user"
  /\ IF stdin = "devnull" THEN UNCHANGED <<where, op, iov>>
                          ELSE where' = "rd" /\ op' = "read" /\ iov' = lens
  /\ UNCHANGED <<inputVars, otherVars, n, v, wanted, timeout, expired, woken, eintr>>

\* The byte poll() has taken comes first; an empty buffer asks for nothing.
ReadFirst ==
  /\ where = "rd"
  /\ \/ Head(iov) = 0 /\ Goto("drain") /\ UNCHANGED <<peek, got, n>>
     \/ /\ Head(iov) > 0 /\ peek # 0
        /\ Store(peek) /\ peek' = 0
        /\ Goto("drain")
     \/ Head(iov) > 0 /\ peek = 0 /\ Goto("spin") /\ UNCHANGED <<peek, got, n>>
  /\ UNCHANGED <<otherVars, eintr, stdin, typed, taken, op, iov, v, wanted, timeout,
                 expired, woken>>

\* Block for a byte: b_input(), and between two tries take_eintr().
Spin ==
  /\ where = "spin"
  /\ IF Waiting THEN StoreInput /\ Goto("drain")
                ELSE Goto("load") /\ UNCHANGED <<got, n, taken>>
  /\ UNCHANGED <<otherVars, eintr, stdin, typed, peek, op, iov, v, wanted,
                 timeout, expired, woken>>

\* thread_shim_take_eintr() reads sig_eintr ...
TakeLoad ==
  /\ where = "load"
  /\ v' = eintr /\ Goto("store")
  /\ UNCHANGED <<inputVars, otherVars, eintr, op, iov, n, wanted, timeout, expired, woken>>

\* Mutant of TakeStore: read() does not look at what take_eintr() returns
TakeStoreIgnored ==
  /\ where = "store"
  /\ eintr' = FALSE
  /\ Goto("spin") /\ Stay
  /\ UNCHANGED <<inputVars, otherVars>>

\* ... and clears it, one instruction later; read() returns -EINTR.
TakeStore ==
  /\ where = "store"
  /\ eintr' = FALSE
  /\ IF v THEN Return ELSE Goto("spin") /\ Stay
  /\ UNCHANGED <<inputVars, otherVars>>

\* Take what else is there without waiting; a full buffer leads to the next.
Drain ==
  /\ where = "drain"
  /\ \/ /\ n < Head(iov) /\ Waiting
        /\ StoreInput
        /\ UNCHANGED <<where, op, iov, v, wanted, timeout, expired, woken>>
     \/ /\ n = Head(iov) /\ Len(iov) > 1
        /\ Goto("rd") /\ iov' = Tail(iov) /\ n' = 0
        /\ UNCHANGED <<got, taken, op, v, wanted, timeout, expired, woken>>
     \/ /\ (n < Head(iov) /\ ~Waiting) \/ (n = Head(iov) /\ Len(iov) = 1)
        /\ Return
        /\ UNCHANGED <<got, taken>>
  /\ UNCHANGED <<otherVars, eintr, stdin, typed, peek>>

-----------------------------------------------------------------------------
(* poll(), select() and nanosleep() *)

\* select() refuses a descriptor that is not open.
CallPoll(call, fds, wait) ==
  /\ where = "user"
  /\ call = "select" => ~("sock" \in fds /\ sock = "closed")
  /\ where' = "scan" /\ op' = call /\ wanted' = fds /\ timeout' = wait
  /\ UNCHANGED <<inputVars, otherVars, eintr, iov, n, v, expired, woken>>

\* Mutant of Readable: what is there replaces what was taken before
ReadableOverwrites ==
  IF Waiting THEN peek' = taken + 1 /\ taken' = taken + 1
             ELSE UNCHANGED <<peek, taken>>

\* stdin_readable()
Readable ==
  IF peek = 0 /\ Waiting THEN peek' = taken + 1 /\ taken' = taken + 1
                         ELSE UNCHANGED <<peek, taken>>

\* what fd_revents() says of fd 0
StdinCounts == stdin = "devnull" \/ peek' # 0

\* of the socket: poll() reports a closed one, select() takes no notice
SockCounts == sock = "ready" \/ (sock = "closed" /\ op = "poll")

\* poll_scan() or select_scan(), after net_shim_pump()
Scan ==
  /\ where = "scan"
  /\ LET asks == "stdin" \in wanted
         found == (asks /\ StdinCounts) \/ ("sock" \in wanted /\ SockCounts)
     IN /\ IF asks /\ stdin = "console" THEN Readable ELSE UNCHANGED <<peek, taken>>
        /\ IF found \/ timeout = "zero" THEN Return ELSE Goto("time") /\ Stay
  /\ UNCHANGED <<otherVars, eintr, stdin, typed, got>>

\* Mutant of TimeIsUp: the deadline is not looked at
TimeIsUpNever == FALSE

TimeIsUp == timeout = "timed" /\ expired

\* poll_wait() looks at the time, and so does the loop of nanosleep().
LookAtTime ==
  /\ where = "time"
  /\ IF TimeIsUp THEN Return ELSE Goto("test") /\ Stay
  /\ UNCHANGED <<inputVars, otherVars, eintr>>

\* to a point in time, that may be past
CallNanosleep ==
  /\ where = "user"
  /\ where' = "time" /\ op' = "sleep" /\ timeout' = "timed" /\ expired' \in BOOLEAN
  /\ UNCHANGED <<inputVars, otherVars, eintr, iov, n, v, wanted, woken>>

\* the next round: of nanosleep() after its net_poll(), or of poll()
NextRound == Goto(IF op = "sleep" THEN "time" ELSE "scan")

\* thread_shim_sleep_until(): a signal that could be delivered ends the call.
\* The interval may be over before it begins; without threads there is nobody
\* to yield to.
SleepTest ==
  /\ where = "test"
  /\ IF active /\ signal THEN Return
     ELSE Stay /\ (NextRound \/ (active /\ Goto("park")))
  /\ UNCHANGED <<inputVars, otherVars, eintr>>

SleepPark ==
  /\ where = "park"
  /\ Goto("parked") /\ woken' = "NONE"
  /\ UNCHANGED <<inputVars, otherVars, eintr, op, iov, n, v, wanted, timeout, expired>>

\* scan_timeouts(), in this thread's idle loop or anybody's tick
ScanTimeouts ==
  /\ where = "parked" /\ woken = "NONE"
  /\ woken' = IF signal THEN "INTR" ELSE "TIMEOUT"
  /\ UNCHANGED <<where, inputVars, otherVars, eintr, op, iov, n, v, wanted, timeout, expired>>

\* reschedule(0) comes back: -EINTR, or the interval is over.
Unpark ==
  /\ where = "parked" /\ woken # "NONE"
  /\ IF woken = "INTR" THEN Return
     ELSE NextRound /\ woken' = "NONE"
          /\ UNCHANGED <<op, iov, n, v, wanted, timeout, expired>>
  /\ UNCHANGED <<inputVars, otherVars, eintr>>

-----------------------------------------------------------------------------
(* The rest of the world *)

Type ==
  /\ typed < MaxTyped /\ typed' = typed + 1
  /\ UNCHANGED <<where, callVars, otherVars, eintr, stdin, taken, peek, got>>

SockReady ==
  /\ sock = "quiet" /\ sock' = "ready"
  /\ UNCHANGED <<where, inputVars, callVars, active, signal, eintr>>

OtherCloses ==
  /\ active /\ sock # "closed" /\ sock' = "closed"
  /\ UNCHANGED <<where, inputVars, callVars, active, signal, eintr>>

TimePasses ==
  /\ timeout = "timed" /\ ~expired /\ expired' = TRUE
  /\ UNCHANGED <<where, inputVars, otherVars, eintr, op, iov, n, v, wanted, timeout, woken>>

\* a tkill(), by this thread or another
Raise ==
  /\ active \/ where = "user"
  /\ active' = TRUE /\ signal' = TRUE
  /\ UNCHANGED <<where, inputVars, callVars, sock, eintr>>

\* A tick delivers the signal: its handler sets sig_eintr unless SA_RESTART.
HandlerRuns ==
  /\ active /\ signal
  /\ signal' = FALSE
  /\ eintr' \in {eintr, TRUE}
  /\ UNCHANGED <<where, inputVars, callVars, sock, active>>

-----------------------------------------------------------------------------
(* The specification *)

Call ==
  \/ \E target \in {"console", "devnull"} : Dup3(target)
  \/ \E lens \in IovLens : CallRead(lens)
  \/ \E call \in {"poll", "select"}, fds \in SUBSET {"stdin", "sock"},
        wait \in {"zero", "timed", "never"} : CallPoll(call, fds, wait)
  \/ CallNanosleep

OwnStep ==
  \/ ReadFirst \/ Spin \/ TakeLoad \/ TakeStore \/ Drain
  \/ Scan \/ LookAtTime \/ SleepTest \/ SleepPark \/ Unpark

World == Type \/ SockReady \/ OtherCloses \/ TimePasses \/ Raise \/ HandlerRuns

ConsoleNext == Call \/ OwnStep \/ ScanTimeouts \/ World

ConsoleSpec == ConsoleInit /\ [][ConsoleNext]_consoleVars

\* The thread goes on with its call whenever it has the CPU, ticks scan the
\* parked threads, and time passes.  Nobody need type or send anything.
ConsoleFairSpec ==
  /\ ConsoleSpec
  /\ WF_consoleVars(OwnStep) /\ WF_consoleVars(ScanTimeouts) /\ WF_consoleVars(TimePasses)

-----------------------------------------------------------------------------
(* Properties *)

\* What was typed reaches the program whole and in order, whichever of poll(),
\* select() and read() takes it from the console.
InputInOrder ==
  got \o (IF peek = 0 THEN <<>> ELSE <<peek>>) = [i \in 1 .. taken |-> i]

\* A poll(), select() or nanosleep() with a deadline ends, and one that asks
\* about something ready does too, unless another thread takes that away: a
\* select() goes on waiting for a socket that was closed under it.
AsksReady ==
  \/ "stdin" \in wanted /\ (stdin = "devnull" \/ peek # 0 \/ Waiting)
  \/ "sock" \in wanted /\ SockCounts
ClosedUnderSelect == op = "select" /\ "sock" \in wanted /\ sock = "closed"
WaitEnds ==
  /\ timeout = "timed" ~> where = "user"
  /\ AsksReady ~> (where = "user" \/ ClosedUnderSelect)

\* A read() that finds sig_eintr set when it next looks returns.  (One that a
\* handler interrupts between TakeLoad and TakeStore does not.)
InterruptEndsRead == where \in {"spin", "load"} /\ eintr ~> where = "user"

=============================================================================
