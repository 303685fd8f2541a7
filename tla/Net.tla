-------------------------------- MODULE Net --------------------------------
(***************************************************************************)
(* Bringing the network up, and what uses it first: net_glue.c, with the   *)
(* name lookups of dns_shim.c (module Dns) and the TLS connections of      *)
(* tls_shim.c on top.                                                      *)
(*                                                                         *)
(* The first call that needs the network initialises lwIP, with the        *)
(* address of the "ip=" parameter or else through DHCP, waits up to 30     *)
(* seconds for an address, and fills in the name servers nobody gave.  The *)
(* command line is a sequence of parameters, a parameter a sequence of     *)
(* fields of which only the kind is kept.  lwIP's DHCP client binds,       *)
(* renews and loses its lease while somebody is inside net_poll().         *)
(*                                                                         *)
(* One thread calls, as these files say they assume.  Of the sockets TLS   *)
(* uses there is left which descriptors are open (Sockets has the rest),   *)
(* of mbedTLS that each of its calls may fail.                             *)
(***************************************************************************)
EXTENDS Dns, Sequences

CONSTANTS
  Cmdlines,      \* the kernel command lines the program may be booted with
  TlsMaxConn,    \* TLS_MAX_CONN
  Fds            \* bound: descriptors there are for TLS connections

\* what can stand between two colons: nothing, an address a.b.c.d, 0.0.0.0,
\* something else that ip4addr_aton() reads as an address, or neither
FieldKinds == {"empty", "quad", "any", "number", "junk"}
Param == [ip : BOOLEAN, fields : Seq(FieldKinds) \ {<<>>}]

ASSUME CmdlineAssumption == Cmdlines \subseteq Seq(Param)
ASSUME TlsAssumption == TlsMaxConn \in Nat \ {0}
ASSUME FdsAssumption == 0 \notin Fds

VARIABLES
  cmdline,    \* what the host left at FC_IP_PARAM_ADDR
  up,         \* net_ensure_ready(): where it is, "ready" once net_ready is set
  addr,       \* where the netif's address is from
  leased,     \* the DNS options DHCP has had: slots of dns_setserver()
  server,     \* lwIP's two DNS servers: where each is from
  late,       \* net_wait_ready() gave up
  at,         \* the caller: where it is in tls_connect(), or in a lookup
  tlsReady,   \* s_ready of tls_shim.c
  slot, fd,   \* tls_connect()'s locals
  conns,      \* conns[]: the descriptor of each in_use slot, 0 if free
  handed,     \* the connections the program has been given and not closed
  open        \* the descriptors that are open

netVars == <<cmdline, up, addr, leased, server, late>>
tlsVars == <<at, tlsReady, slot, fd, conns, handed, open>>
allVars == <<vars, netVars, tlsVars>>

ConnIx == 1 .. TlsMaxConn

Unset == [i \in {0, 1} |-> "unset"]

NetInit ==
  /\ Init
  /\ cmdline \in Cmdlines
  /\ up = "never" /\ addr = "none" /\ leased = {} /\ server = Unset /\ late = FALSE
  /\ at = "idle" /\ tlsReady = FALSE /\ slot = 0 /\ fd = 0
  /\ conns = [i \in ConnIx |-> 0] /\ handed = {} /\ open = {}

-----------------------------------------------------------------------------
(* net_glue.c: the "ip=" parameter *)

\* the first parameter named ip, split at its first eight colons: what follows
\* them all is part of the ninth field, which then is no address
IpParams == {i \in DOMAIN cmdline : cmdline[i].ip}
IpFields ==
  LET f == cmdline[CHOOSE i \in IpParams : \A j \in IpParams : i <= j].fields
  IN IF Len(f) <= 9 THEN f ELSE [SubSeq(f, 1, 9) EXCEPT ![9] = "junk"]

Aton(field) == field \in {"quad", "any", "number"}

\* fc_parse_ip_param(): client, gateway and netmask are there
HasStatic ==
  /\ IpParams # {}
  /\ Len(IpFields) >= 4
  /\ \A i \in {1, 3, 4} : Aton(IpFields[i])

\* the DNS servers it gives: the optional eighth and ninth fields, and only in
\* the shape a.b.c.d
StaticServers == {i \in {0, 1} : i + 8 <= Len(IpFields) /\ IpFields[i + 8] = "quad"}

-----------------------------------------------------------------------------
(* net_glue.c: bring-up *)

\* net_init(): the static address is there at once, unless it is 0.0.0.0;
\* DHCP's takes time.
NetInitCall ==
  /\ up = "init"
  /\ up' = "wait"
  /\ IF HasStatic
       THEN /\ addr' = IF IpFields[1] = "any" THEN "none" ELSE "static"
            /\ server' = [i \in {0, 1} |-> IF i \in StaticServers THEN "static" ELSE "unset"]
       ELSE UNCHANGED <<addr, server>>
  /\ UNCHANGED <<vars, tlsVars, cmdline, leased, late>>

\* Mutant of Fallback: all or nothing
FallbackAllOrNothing == IF server = Unset THEN [i \in {0, 1} |-> "fallback"] ELSE server

\* dns_apply_fallback()
Fallback == [i \in {0, 1} |-> IF server[i] = "unset" THEN "fallback" ELSE server[i]]

\* while (!net_is_ready()) ... in net_wait_ready()
WaitTest ==
  /\ up = "wait"
  /\ IF addr # "none" THEN up' = "ready" /\ server' = Fallback
                      ELSE up' = "poll" /\ UNCHANGED server
  /\ UNCHANGED <<vars, tlsVars, cmdline, addr, leased, late>>

\* Mutant of WaitPolled: the time is not looked at
WaitPolledForever ==
  /\ up = "poll"
  /\ up' = "wait"
  /\ UNCHANGED <<vars, tlsVars, cmdline, addr, leased, server, late>>

\* net_poll() returns, and the time may be up: net_ready is set all the same,
\* and nobody will call net_wait_ready() again.
WaitPolled ==
  /\ up = "poll"
  /\ \/ up' = "wait" /\ UNCHANGED late
     \/ up' = "ready" /\ late' = TRUE
  /\ UNCHANGED <<vars, tlsVars, cmdline, addr, leased, server>>

Dhcp == up \notin {"never", "init"} /\ ~HasStatic

\* lwIP's DHCP client, inside net_poll(): an ACK sets the servers it names and
\* the address; a lease that is refused or runs out takes the address away.
DhcpAck(options) ==
  /\ Dhcp
  /\ addr' = "lease"
  /\ leased' = leased \cup options
  /\ server' = [i \in {0, 1} |-> IF i \in options THEN "lease" ELSE server[i]]
  /\ UNCHANGED <<vars, tlsVars, cmdline, up, late>>

DhcpLost ==
  /\ addr = "lease"
  /\ addr' = "none"
  /\ UNCHANGED <<vars, tlsVars, cmdline, up, leased, server, late>>

\* somebody is inside net_poll(): a wait of this module, of Dns, or a socket call
Polling == up = "poll" \/ (up = "ready" /\ (pc = "poll" \/ at \in {"idle", "connect", "shake"}))
DhcpClient == Polling /\ (DhcpLost \/ \E options \in {{}, {0}, {0, 1}} : DhcpAck(options))

-----------------------------------------------------------------------------
(* dns_shim.c: gethostbyname() and getaddrinfo() *)

\* net_ensure_ready() at the head of resolve(), and of socket()
EnsureReady ==
  /\ at \in {"lookup", "name"} /\ up = "never"
  /\ up' = "init"
  /\ UNCHANGED <<vars, tlsVars, cmdline, addr, leased, server, late>>

CallLookup ==
  /\ at = "idle" /\ pc = "idle"
  /\ at' = "lookup"
  /\ UNCHANGED <<vars, netVars, tlsReady, slot, fd, conns, handed, open>>

\* dns_gethostbyname() refuses at once while lwIP has no first server.
Lookup(n) ==
  /\ at \in {"lookup", "name"} /\ up = "ready"
  /\ Resolve(n)
  /\ server[0] = "unset" => pc' = "idle"
  /\ at' = IF at = "name" THEN "named" ELSE "idle"
  /\ UNCHANGED <<netVars, tlsReady, slot, fd, conns, handed, open>>

ResolveLoop == (Test \/ PollReturns) /\ UNCHANGED <<netVars, tlsVars>>

LookupWorld ==
  /\ up = "ready"
  /\ (LwIP /\ (pc = "idle" => Polling)) \/ \E n \in Names : Expire(n)
  /\ UNCHANGED <<netVars, tlsVars>>

-----------------------------------------------------------------------------
(* tls_shim.c *)

TlsReturns == at' = "idle" /\ slot' = 0 /\ fd' = 0

\* alloc_slot()
FreeConn == {i \in ConnIx : conns[i] = 0 /\ \A j \in 1 .. i - 1 : conns[j] # 0}

\* tls_connect(): the shared configuration, which may not come about and is
\* then tried again by the next call, and a slot
TlsConnect ==
  /\ at = "idle" /\ pc = "idle"
  /\ \/ ~tlsReady /\ UNCHANGED tlsVars              \* no entropy, no CA bundle
     \/ /\ tlsReady' = TRUE
        /\ IF FreeConn = {} THEN UNCHANGED <<at, slot>>
           ELSE at' = "name" /\ slot' \in FreeConn
        /\ UNCHANGED <<fd, conns, handed, open>>
  /\ UNCHANGED <<vars, netVars>>

\* ... its name lookup, then the socket ...
TlsSocket ==
  /\ at = "named" /\ pc = "idle"
  /\ \/ result = NoName /\ TlsReturns /\ UNCHANGED open
     \/ TlsReturns /\ UNCHANGED open                \* no descriptor left
     \/ /\ result # NoName
        /\ \E d \in Fds \ open : fd' = d /\ open' = open \cup {d}
        /\ at' = "connect" /\ UNCHANGED slot
  /\ UNCHANGED <<vars, netVars, tlsReady, conns, handed>>

\* Mutant of Abandoned: the descriptor is left open
AbandonedOpen == open

\* the descriptors after a connect() that failed
Abandoned == open \ {fd}

\* ... connect(), and only then the slot is taken ...
TlsConnected ==
  /\ at = "connect"
  /\ \/ open' = Abandoned /\ TlsReturns /\ UNCHANGED conns
     \/ conns' = [conns EXCEPT ![slot] = fd] /\ at' = "shake" /\ UNCHANGED <<open, slot, fd>>
  /\ UNCHANGED <<vars, netVars, tlsReady, handed>>

\* tls_close()
Closed(i) == /\ conns' = [conns EXCEPT ![i] = 0]
             /\ open' = open \ {conns[i]}

\* ... and the handshake, which verifies the peer.  A signal that ends one of
\* its recv()s or send()s makes mbedTLS want more, and the loop calls it again.
TlsShake ==
  /\ at = "shake"
  /\ \/ Closed(slot) /\ TlsReturns /\ UNCHANGED handed
     \/ handed' = handed \cup {slot} /\ TlsReturns /\ UNCHANGED <<conns, open>>
     \/ UNCHANGED <<at, slot, fd, conns, handed, open>>
  /\ UNCHANGED <<vars, netVars, tlsReady>>

TlsClose(i) ==
  /\ at = "idle" /\ i \in handed
  /\ Closed(i)
  /\ handed' = handed \ {i}
  /\ UNCHANGED <<vars, netVars, at, tlsReady, slot, fd>>

-----------------------------------------------------------------------------
(* The specification *)

BringUp == EnsureReady \/ NetInitCall \/ WaitTest \/ WaitPolled
CallStep == (\E n \in Names : Lookup(n)) \/ TlsSocket \/ TlsConnected

NetNext ==
  \/ BringUp \/ DhcpClient \/ ResolveLoop \/ LookupWorld \/ CallStep \/ TlsShake
  \/ CallLookup \/ TlsConnect \/ \E i \in ConnIx : TlsClose(i)

NetSpec == NetInit /\ [][NetNext]_allVars

\* The thread goes on with its call.  The waits for an address and for a name
\* are timed: net_poll() returns, and in the end the thirty seconds have passed.
\* connect() ends at the latest when lwIP has sent its last SYN.  Nothing is
\* assumed of DHCP, of name servers, or of the peer in a handshake.
NetFairSpec ==
  /\ NetSpec
  /\ WF_allVars(BringUp) /\ SF_allVars(WaitPolled /\ up' = "ready")
  /\ WF_allVars(ResolveLoop) /\ SF_allVars(ResolveLoop /\ pc = "poll" /\ pc' = "idle")
  /\ WF_allVars(CallStep)

-----------------------------------------------------------------------------
(* Properties *)

\* "So name resolution still works rather than silently having no DNS server
\* configured at all": when the bring-up ended with an address, both servers
\* are there, and each is the one with the best claim -- the command line's or
\* else the leases' before the public ones.  (When it gave up, a lease that
\* comes later without DNS options leaves lwIP without a server for good.)
ServersByClaim ==
  up = "ready" /\ ~late =>
    \A i \in {0, 1} :
      server[i] = IF HasStatic
                    THEN IF i + 8 <= Len(IpFields) /\ IpFields[i + 8] = "quad"
                           THEN "static" ELSE "fallback"
                    ELSE IF i \in leased THEN "lease" ELSE "fallback"

\* Whatever fails between the name and the handshake, no descriptor is lost:
\* those open are those of the connections in use, one each, and of the
\* connect() going on; and what the program holds is in use.
TlsOwnsDescriptors ==
  /\ open = {conns[i] : i \in {j \in ConnIx : conns[j] # 0}}
              \cup (IF at = "connect" THEN {fd} ELSE {})
  /\ \A i, j \in ConnIx : conns[i] = conns[j] /\ conns[i] # 0 => i = j
  /\ \A i \in ConnIx : conns[i] # 0 <=> i \in handed \/ (at = "shake" /\ i = slot)

\* A call that needs the network comes back, whatever the host and the DHCP and
\* name servers do: resolve() when its time is up at the latest, the bring-up
\* with or without an address.  Only a tls_connect() that has come as far as the
\* handshake may not: nothing bounds the recv()s of mbedTLS, nor how often
\* tls_connect() calls it again.
CallReturns == at # "idle" ~> at \in {"idle", "shake"} /\ pc = "idle"

=============================================================================
