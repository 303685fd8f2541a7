----------------------------- MODULE NetProofs -----------------------------
(***************************************************************************)
(* Proofs about Net, for any command lines, names, descriptors and number  *)
(* of TLS connections: no name lookup returns what is left of one that is  *)
(* over, every DNS server is the one with the best claim, and TLS loses no *)
(* descriptor; and about Console, the calls that wait for the network or   *)
(* the user: input reaches the program whole and in order, however much is *)
(* typed and whatever buffers it is read into.                             *)
(* The four have an inductive invariant each.                              *)
(***************************************************************************)
EXTENDS Net, Console, TLAPS

-----------------------------------------------------------------------------
(* Name lookups *)

\* lwIP works on nothing but the query waited for and those given up before it
\* was sent, and what has been written to the static dns_wait while somebody
\* waits is about one of these.
LookupInv ==
  /\ w \in [done : BOOLEAN, ok : BOOLEAN, addr : Names \cup {NoName}]
  /\ pc \in {"idle", "test", "poll"}
  /\ asking \subseteq {name} \cup earlier
  /\ pc # "idle" /\ w.ok => w.addr \in {name} \cup earlier
  /\ AnswerNotStale

LEMMA LookupInit == NetInit => LookupInv
BY DEF NetInit, Init, Cleared, LookupInv, AnswerNotStale

LEMMA LookupStep ==
  ASSUME LookupInv, [NetNext]_allVars
  PROVE  LookupInv'
<1> USE DEF LookupInv, AnswerNotStale
<1>1. CASE UNCHANGED vars
  BY <1>1 DEF vars
<1>2. CASE \E d \in Names : Lookup(d)
  BY <1>2, NamesAssumption DEF Lookup, Resolve, Prepared, Cleared
<1>3. CASE ResolveLoop
  BY <1>3 DEF ResolveLoop, Test, PollReturns
<1>4. CASE LookupWorld
  <2>1. CASE LwIP
    <3>1. PICK d \in Names : Answer(d) \/ GiveUp(d)
      BY <2>1 DEF LwIP
    <3>2. /\ d \in {name} \cup earlier /\ asking' \subseteq asking
          /\ UNCHANGED <<pc, name, result, earlier>>
      BY <2>1, <3>1 DEF LwIP, Answer, GiveUp
    <3>3. CASE Answer(d)
      BY <3>2, <3>3, NamesAssumption DEF Answer, OnFound
    <3>4. CASE GiveUp(d)
      BY <3>2, <3>4 DEF GiveUp, OnFound
    <3> QED BY <3>1, <3>3, <3>4
  <2>2. CASE \E d \in Names : Expire(d)
    BY <2>2 DEF Expire
  <2> QED BY <1>4, <2>1, <2>2 DEF LookupWorld
<1>5. CASE BringUp \/ DhcpClient
  BY <1>1, <1>5 DEF BringUp, EnsureReady, NetInitCall, WaitTest, WaitPolled,
                    DhcpClient, DhcpAck, DhcpLost
<1>6. CASE TlsSocket \/ TlsConnected \/ TlsShake \/ CallLookup \/ TlsConnect
             \/ \E i \in ConnIx : TlsClose(i)
  BY <1>1, <1>6 DEF TlsSocket, TlsConnected, TlsShake, CallLookup, TlsConnect, TlsClose
<1> QED BY <1>1, <1>2, <1>3, <1>4, <1>5, <1>6 DEF NetNext, CallStep, allVars

\* Whatever lwIP answers, forgets and calls back late, no lookup returns an
\* address left over from a query that was over when it began: with no query
\* given up before, it returns the right one or fails.
THEOREM LookupsRight == NetSpec => []AnswerNotStale
<1>1. LookupInv => AnswerNotStale
  BY DEF LookupInv
<1>2. LookupInv /\ [NetNext]_allVars => LookupInv'
  BY LookupStep
<1> QED BY LookupInit, <1>1, <1>2, PTL DEF NetSpec

-----------------------------------------------------------------------------
(* DNS servers *)

Claim(i) == IF HasStatic THEN IF i \in StaticServers THEN "static" ELSE "unset"
            ELSE IF i \in leased THEN "lease" ELSE "unset"

\* Before the fallback, a server is there exactly if somebody gave it; after
\* it, those nobody gave are the public ones.  Nothing is leased to a host with
\* a static address.
ServerInv ==
  /\ server \in [{0, 1} -> {"unset", "static", "lease", "fallback"}]
  /\ up \in {"never", "init", "wait", "poll", "ready"}
  /\ late => up = "ready"
  /\ up \in {"never", "init"} => server = Unset /\ leased = {} /\ addr = "none"
  /\ HasStatic => leased = {}
  /\ up \in {"wait", "poll"} => \A i \in {0, 1} : server[i] = Claim(i)
  /\ up = "ready" /\ ~late =>
       \A i \in {0, 1} : server[i] = IF Claim(i) = "unset" THEN "fallback" ELSE Claim(i)

LEMMA ServerInit == NetInit => ServerInv
BY DEF NetInit, ServerInv, Unset

LEMMA CmdlineStays ==
  ASSUME cmdline' = cmdline
  PROVE  /\ HasStatic' = HasStatic
         /\ StaticServers' = StaticServers
         /\ leased' = leased => \A i : Claim(i)' = Claim(i)
<1>1. HasStatic' = HasStatic
  BY DEF HasStatic, IpFields, IpParams
<1>2. StaticServers' = StaticServers
  BY DEF StaticServers, IpFields, IpParams
<1> QED BY <1>1, <1>2 DEF Claim

LEMMA ServerStep ==
  ASSUME ServerInv, [NetNext]_allVars
  PROVE  ServerInv'
<1> USE DEF ServerInv
<1>1. CASE UNCHANGED netVars
  <2>1. /\ HasStatic' = HasStatic /\ \A i : Claim(i)' = Claim(i)
        /\ UNCHANGED <<server, up, late, leased, addr>>
    BY <1>1, CmdlineStays DEF netVars
  <2> QED BY <2>1 DEF Unset
<1>2. CASE EnsureReady
  BY <1>2, CmdlineStays DEF EnsureReady, Unset
<1>3. CASE NetInitCall
  <2>1. /\ HasStatic' = HasStatic /\ StaticServers' = StaticServers
        /\ \A i : Claim(i)' = Claim(i)
    BY <1>3, CmdlineStays DEF NetInitCall
  <2> QED BY <1>3, <2>1 DEF NetInitCall, Claim, Unset
<1>4. CASE WaitTest
  <2>1. HasStatic' = HasStatic /\ \A i : Claim(i)' = Claim(i)
    BY <1>4, CmdlineStays DEF WaitTest
  <2> QED BY <1>4, <2>1 DEF WaitTest, Fallback
<1>5. CASE WaitPolled
  <2>1. HasStatic' = HasStatic /\ \A i : Claim(i)' = Claim(i)
    BY <1>5, CmdlineStays DEF WaitPolled
  <2> QED BY <1>5, <2>1 DEF WaitPolled
<1>6. CASE DhcpClient
  <2>1. CASE DhcpLost
    <3>1. HasStatic' = HasStatic /\ \A i : Claim(i)' = Claim(i)
      BY <2>1, CmdlineStays DEF DhcpLost
    <3> QED BY <2>1, <3>1 DEF DhcpLost
  <2>2. ASSUME NEW options \in {{}, {0}, {0, 1}}, DhcpAck(options)
        PROVE  ServerInv'
    <3>1. HasStatic' = HasStatic /\ ~HasStatic /\ up' = up /\ late' = late
      BY <2>2, CmdlineStays DEF DhcpAck, Dhcp
    <3>2. \A i \in {0, 1} : /\ Claim(i) = IF i \in leased THEN "lease" ELSE "unset"
                            /\ Claim(i)' = IF i \in leased' THEN "lease" ELSE "unset"
      BY <3>1 DEF Claim
    <3> QED BY <2>2, <3>1, <3>2 DEF DhcpAck, Dhcp
  <2> QED BY <1>6, <2>1, <2>2 DEF DhcpClient
<1>7. CASE ResolveLoop \/ LookupWorld \/ CallStep \/ TlsShake \/ CallLookup \/ TlsConnect
             \/ \E i \in ConnIx : TlsClose(i)
  BY <1>1, <1>7 DEF ResolveLoop, LookupWorld, CallStep, Lookup, TlsSocket, TlsConnected,
                    TlsShake, CallLookup, TlsConnect, TlsClose
<1> QED BY <1>1, <1>2, <1>3, <1>4, <1>5, <1>6, <1>7 DEF NetNext, BringUp, allVars

\* Whatever the command line says and however leases come and go, each DNS
\* server of a bring-up that ended with an address is the one with the best
\* claim to its slot.
THEOREM ServersRight == NetSpec => []ServersByClaim
<1>1. ServerInv => ServersByClaim
  BY DEF ServerInv, ServersByClaim, Claim, StaticServers
<1>2. ServerInv /\ [NetNext]_allVars => ServerInv'
  BY ServerStep
<1> QED BY ServerInit, <1>1, <1>2, PTL DEF NetSpec

-----------------------------------------------------------------------------
(* TLS connections *)

\* Beyond what the descriptors do: the slot a tls_connect() has found stays
\* free until it is taken, and the one it has taken is not the program's yet.
TlsInv ==
  /\ conns \in [ConnIx -> Fds \cup {0}]
  /\ at \in {"idle", "lookup", "name", "named", "connect", "shake"}
  /\ handed \subseteq ConnIx
  /\ at \in {"name", "named", "connect"} => slot \in ConnIx /\ conns[slot] = 0
  /\ at = "connect" => fd \in Fds /\ \A i \in ConnIx : conns[i] # fd
  /\ at = "shake" => slot \in ConnIx /\ slot \notin handed
  /\ TlsOwnsDescriptors

LEMMA TlsInit == NetInit => TlsInv
BY DEF NetInit, TlsInv, TlsOwnsDescriptors

LEMMA TlsStep ==
  ASSUME TlsInv, [NetNext]_allVars
  PROVE  TlsInv'
<1> USE DEF TlsInv
<1>1. CASE UNCHANGED tlsVars
  BY <1>1 DEF tlsVars, TlsOwnsDescriptors, ConnIx
<1>2. CASE UNCHANGED <<slot, fd, conns, handed, open>> /\ at # at'
             /\ <<at, at'>> \in {<<"idle", "lookup">>, <<"lookup", "idle">>, <<"name", "named">>}
  BY <1>2 DEF TlsOwnsDescriptors, ConnIx
<1>3. CASE TlsConnect
  <2>1. CASE UNCHANGED tlsVars
    BY <1>1, <2>1
  <2>2. CASE UNCHANGED <<at, slot, fd, conns, handed, open>>
    BY <2>2 DEF TlsOwnsDescriptors, ConnIx
  <2>3. CASE /\ at = "idle" /\ at' = "name" /\ slot' \in FreeConn
             /\ UNCHANGED <<fd, conns, handed, open>>
    <3>1. slot' \in ConnIx /\ conns[slot'] = 0
      BY <2>3 DEF FreeConn
    <3> QED BY <2>3, <3>1 DEF TlsOwnsDescriptors, ConnIx
  <2> QED BY <1>3, <2>1, <2>2, <2>3 DEF TlsConnect
<1>4. CASE TlsSocket
  BY <1>4, FdsAssumption DEF TlsSocket, TlsReturns, TlsOwnsDescriptors, ConnIx
<1>5. CASE TlsConnected
  <2>1. CASE open' = Abandoned /\ TlsReturns /\ UNCHANGED <<conns, handed>>
    <3>1. open' = {conns[i] : i \in {j \in ConnIx : conns[j] # 0}}
      BY <1>5, <2>1 DEF TlsConnected, Abandoned, TlsOwnsDescriptors
    <3> QED BY <1>5, <2>1, <3>1 DEF TlsConnected, TlsReturns, TlsOwnsDescriptors, ConnIx
  <2>2. CASE /\ conns' = [conns EXCEPT ![slot] = fd] /\ at' = "shake"
             /\ UNCHANGED <<open, slot, fd, handed>>
    <3> DEFINE Used(c) == {c[i] : i \in {j \in ConnIx : c[j] # 0}}
    <3>1. fd # 0 /\ conns'[slot] = fd /\ \A i \in ConnIx \ {slot} : conns'[i] = conns[i]
      BY <1>5, <2>2, FdsAssumption DEF TlsConnected
    <3>2. Used(conns') = Used(conns) \cup {fd}
      <4>1. Used(conns') \subseteq Used(conns) \cup {fd}
        BY <3>1
      <4>2. \A i \in ConnIx : conns[i] # 0 => conns[i] \in Used(conns')
        BY <1>5, <3>1 DEF TlsConnected
      <4>3. fd \in Used(conns')
        BY <1>5, <3>1 DEF TlsConnected
      <4> QED BY <4>1, <4>2, <4>3
    <3>3. open' = Used(conns')
      BY <1>5, <2>2, <3>2 DEF TlsConnected, TlsOwnsDescriptors
    <3>4. \A i, j \in ConnIx : conns'[i] = conns'[j] /\ conns'[i] # 0 => i = j
      BY <1>5, <3>1 DEF TlsConnected, TlsOwnsDescriptors
    <3>5. \A i \in ConnIx : conns'[i] # 0 <=> i \in handed' \/ i = slot'
      BY <1>5, <2>2, <3>1 DEF TlsConnected, TlsOwnsDescriptors
    <3>6. slot \notin handed /\ conns' \in [ConnIx -> Fds \cup {0}]
      BY <1>5, <2>2 DEF TlsConnected, TlsOwnsDescriptors
    <3> QED BY <1>5, <2>2, <3>3, <3>4, <3>5, <3>6 DEF TlsConnected, TlsOwnsDescriptors, ConnIx
  <2> QED BY <1>5, <2>1, <2>2 DEF TlsConnected
<1>6. CASE TlsShake
  <2>1. CASE Closed(slot) /\ TlsReturns /\ UNCHANGED handed
    <3>1. /\ conns'[slot] = 0 /\ conns[slot] # 0 /\ slot \in ConnIx /\ slot \notin handed
          /\ \A i \in ConnIx \ {slot} : conns'[i] = conns[i]
      BY <1>6, <2>1 DEF TlsShake, Closed, TlsOwnsDescriptors
    <3>2. open' = {conns'[i] : i \in {j \in ConnIx : conns'[j] # 0}}
      BY <1>6, <2>1, <3>1 DEF TlsShake, Closed, TlsOwnsDescriptors
    <3>3. conns' \in [ConnIx -> Fds \cup {0}]
      BY <2>1 DEF Closed
    <3> QED BY <1>6, <2>1, <3>1, <3>2, <3>3 DEF TlsShake, TlsReturns, TlsOwnsDescriptors, ConnIx
  <2>2. CASE handed' = handed \cup {slot} /\ TlsReturns /\ UNCHANGED <<conns, open>>
    <3>1. \A i \in ConnIx : conns[i] # 0 <=> i \in handed'
      BY <1>6, <2>2 DEF TlsShake, TlsOwnsDescriptors
    <3>2. open = {conns[i] : i \in {j \in ConnIx : conns[j] # 0}}
      BY <1>6 DEF TlsShake, TlsOwnsDescriptors
    <3>3. TlsOwnsDescriptors'
      BY <1>6, <2>2, <3>1, <3>2 DEF TlsReturns, TlsOwnsDescriptors, ConnIx
    <3>4. handed' \subseteq ConnIx
      BY <1>6, <2>2 DEF TlsShake
    <3> QED BY <1>6, <2>2, <3>3, <3>4 DEF TlsReturns, ConnIx
  <2>3. CASE UNCHANGED <<at, slot, fd, conns, handed, open>>
    BY <2>3 DEF TlsOwnsDescriptors, ConnIx
  <2> QED BY <1>6, <2>1, <2>2, <2>3 DEF TlsShake
<1>7. ASSUME NEW i \in ConnIx, TlsClose(i) PROVE TlsInv'
  BY <1>7, FdsAssumption DEF TlsClose, Closed, TlsOwnsDescriptors, ConnIx
<1>8. CASE \E d \in Names : Lookup(d)
  BY <1>2, <1>8 DEF Lookup
<1>9. CASE BringUp \/ DhcpClient \/ ResolveLoop \/ LookupWorld
  BY <1>1, <1>9 DEF BringUp, EnsureReady, NetInitCall, WaitTest, WaitPolled, DhcpClient,
                    DhcpAck, DhcpLost, ResolveLoop, LookupWorld
<1>10. CASE CallLookup
  BY <1>2, <1>10 DEF CallLookup
<1> QED BY <1>1, <1>3, <1>4, <1>5, <1>6, <1>7, <1>8, <1>9, <1>10 DEF NetNext, CallStep, allVars

\* However many connections there are and wherever tls_connect() fails, the
\* open descriptors are those of the connections, one each.
THEOREM TlsLosesNothing == NetSpec => []TlsOwnsDescriptors
<1>1. TlsInv => TlsOwnsDescriptors
  BY DEF TlsInv
<1>2. TlsInv /\ [NetNext]_allVars => TlsInv'
  BY TlsStep
<1> QED BY TlsInit, <1>1, <1>2, PTL DEF NetSpec

-----------------------------------------------------------------------------
(* The console's input *)

\* the first k bytes typed
Numbers(k) == [i \in 1 .. k |-> i]

LEMMA NumbersAppend ==
  ASSUME NEW k \in Nat
  PROVE  /\ Numbers(k) \in Seq(Nat)
         /\ Append(Numbers(k), k + 1) = Numbers(k + 1)
         /\ Numbers(k) \o <<k + 1>> = Numbers(k + 1)
         /\ Numbers(k) \o <<>> = Numbers(k)
BY DEF Numbers

\* The byte poll() has taken is the last taken, and the others are read.  A
\* read() that asks the console for more has handed out that byte before: it
\* is still there only if this read() wants nothing (any more).
InputInv ==
  /\ taken \in Nat /\ n \in Nat
  /\ where \in {"user", "rd"} => n = 0
  /\ where \in {"spin", "load", "store"} => peek = 0
  /\ where = "drain" => peek = 0 \/ n = Head(iov)
  /\ peek = 0 => got = Numbers(taken)
  /\ peek # 0 => taken > 0 /\ peek = taken /\ got = Numbers(taken - 1)

LEMMA InputInit == ConsoleInit => InputInv
BY DEF ConsoleInit, InputInv, Numbers

LEMMA InputRight == InputInv => InputInOrder
<1> SUFFICES ASSUME InputInv PROVE InputInOrder
  OBVIOUS
<1>1. CASE peek = 0
  BY <1>1, NumbersAppend DEF InputInv, InputInOrder, Numbers
<1>2. CASE peek # 0
  <2>1. taken - 1 \in Nat /\ taken = (taken - 1) + 1
    BY <1>2 DEF InputInv
  <2>2. Numbers(taken - 1) \o <<taken>> = Numbers(taken)
    BY <2>1, NumbersAppend
  <2> QED BY <1>2, <2>2 DEF InputInv, InputInOrder, Numbers
<1> QED BY <1>1, <1>2

\* a byte taken from the console and stored in the buffer
LEMMA StoredNext ==
  ASSUME InputInv, peek = 0, StoreInput
  PROVE  taken' \in Nat /\ n' \in Nat /\ got' = Numbers(taken')
<1>1. taken \in Nat /\ n \in Nat /\ got = Numbers(taken)
  BY DEF InputInv
<1>2. taken' = taken + 1 /\ n' = n + 1 /\ got' = Append(Numbers(taken), taken + 1)
  BY <1>1 DEF StoreInput, Store
<1>3. got' = Numbers(taken + 1)
  BY <1>1, <1>2, NumbersAppend
<1> QED BY <1>1, <1>2, <1>3

LEMMA InputStep ==
  ASSUME InputInv, [ConsoleNext]_consoleVars
  PROVE  InputInv'
<1> USE DEF InputInv
<1>1. CASE UNCHANGED <<taken, peek, got>> /\ n' \in {n, 0}
             /\ where' \notin {"rd", "spin", "load", "store", "drain"}
             /\ (where' = "user" => n' = 0)
  BY <1>1
<1>2. CASE ReadFirst
  <2>1. CASE Head(iov) > 0 /\ peek # 0 /\ Store(peek) /\ peek' = 0 /\ where' = "drain"
    <3>1. taken - 1 \in Nat /\ taken = (taken - 1) + 1
      BY <2>1
    <3>2. Append(Numbers(taken - 1), taken) = Numbers(taken)
      BY <3>1, NumbersAppend
    <3> QED BY <1>2, <2>1, <3>2 DEF ReadFirst, Store
  <2>2. CASE Head(iov) = 0 /\ where' = "drain" /\ UNCHANGED <<peek, got, n>>
    BY <1>2, <2>2 DEF ReadFirst
  <2>3. CASE peek = 0 /\ where' = "spin" /\ UNCHANGED <<peek, got, n>>
    BY <1>2, <2>3 DEF ReadFirst
  <2> QED BY <1>2, <2>1, <2>2, <2>3 DEF ReadFirst, Goto
<1>3. CASE Spin
  BY <1>3, StoredNext DEF Spin, Goto
<1>4. CASE TakeLoad
  BY <1>4 DEF TakeLoad, Goto, inputVars
<1>5. CASE TakeStore
  BY <1>5 DEF TakeStore, Goto, Stay, callVars, inputVars, Return
<1>6. CASE Drain
  <2>1. CASE n < Head(iov) /\ StoreInput /\ UNCHANGED <<where, iov, peek>>
    <3>1. peek = 0
      BY <1>6, <2>1 DEF Drain
    <3> QED BY <1>6, <2>1, <3>1, StoredNext DEF Drain
  <2>2. CASE where' = "rd" /\ n' = 0 /\ UNCHANGED <<got, taken, peek>>
    BY <2>2
  <2>3. CASE Return /\ UNCHANGED <<got, taken, peek>>
    BY <2>3 DEF Return
  <2> QED BY <1>6, <2>1, <2>2, <2>3 DEF Drain, Goto
<1>7. CASE Scan
  <2>1. /\ n' \in {n, 0} /\ where' \in {"user", "time"} /\ got' = got
        /\ where' = "user" => n' = 0
    BY <1>7 DEF Scan, Return, Goto, Stay, callVars
  <2>2. CASE UNCHANGED <<peek, taken>>
    BY <2>1, <2>2
  <2>3. CASE peek = 0 /\ peek' = taken + 1 /\ taken' = taken + 1
    BY <2>1, <2>3
  <2> QED BY <1>7, <2>2, <2>3 DEF Scan, Readable
<1>8. CASE LookAtTime \/ SleepTest \/ Unpark
  BY <1>8, <1>1 DEF LookAtTime, SleepTest, Unpark, Goto, Stay,
                    callVars, inputVars, Return, NextRound
<1>9. CASE SleepPark
  BY <1>9, <1>1 DEF SleepPark, Goto, inputVars
<1>10. CASE Call
  <2>1. where = "user" /\ UNCHANGED <<n, taken, peek, got>>
    BY <1>10 DEF Call, Dup3, CallRead, CallPoll, CallNanosleep,
                 callVars, inputVars
  <2>2. where' \in {"user", "rd", "scan", "time"} /\ (where' = "rd" => n = 0)
    BY <1>10 DEF Call, Dup3, CallRead, CallPoll, CallNanosleep
  <2> QED BY <2>1, <2>2
<1>11. CASE UNCHANGED <<where, n, iov, taken, peek, got>>
  BY <1>11
<1>12. CASE ScanTimeouts \/ World
  BY <1>11, <1>12 DEF ScanTimeouts, World, Type, SockReady,
                      OtherCloses, TimePasses, Raise, HandlerRuns,
                      callVars, inputVars
<1>13. CASE UNCHANGED consoleVars
  BY <1>11, <1>13 DEF consoleVars, callVars, inputVars
<1> QED BY <1>2, <1>3, <1>4, <1>5, <1>6, <1>7, <1>8, <1>9, <1>10, <1>12, <1>13
        DEF ConsoleNext, OwnStep

\* Whichever of poll(), select() and read() takes a byte from the console, and
\* however signals, ticks and buffers divide the calls, the program reads what
\* was typed, whole and in order.
THEOREM InputArrives == ConsoleSpec => []InputInOrder
<1>1. InputInv /\ [ConsoleNext]_consoleVars => InputInv'
  BY InputStep
<1> QED BY InputInit, InputRight, <1>1, PTL DEF ConsoleSpec

=============================================================================
