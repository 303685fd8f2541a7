------------------------------ MODULE Sockets ------------------------------
(***************************************************************************)
(* The BSD sockets of port/net_shim.c over lwIP's raw API: the table of    *)
(* bsocks, the callbacks lwIP makes into it, and the calls that poll the   *)
(* network until what they wait for has happened.                          *)
(*                                                                         *)
(* lwIP is outside the port and is modelled as the port sees it: a pool of *)
(* control blocks with the callbacks registered on each, which may make    *)
(* any of them while some thread is inside net_poll(), and only then.      *)
(*                                                                         *)
(* Data: bytes are counted in segments, of which a receive window holds    *)
(* Window and a UDP socket's ring UdpRxqMax; ports, addresses and the      *)
(* requested timeouts are left out.  O_NONBLOCK and MSG_DONTWAIT are read  *)
(* once per call and may be changed before any call, and the time of a     *)
(* call that waits may be up at any of its checks: after net_poll() a call *)
(* whose wait is not over either gives up or sleeps.                       *)
(*                                                                         *)
(* Threads: nothing in net_shim.c is locked.  It is written for callers    *)
(* that do not race, and the module is about such callers: they hand over  *)
(* only where a call sleeps.  A tick that lands inside a call and gives    *)
(* the processor to another call is not modelled.                          *)
(***************************************************************************)
EXTENDS Integers, FiniteSets

CONSTANTS
  SockMax,     \* SOCK_MAX, and ACCEPTQ_MAX
  Threads,     \* the threads that call
  Pcbs,        \* lwIP's control blocks (bound on connections at a time)
  NoPcb,       \* NULL
  Window,      \* TCP_WND in segments
  UdpRxqMax,   \* UDP_RXQ_MAX
  SndQueueLen, \* TCP_SND_QUEUELEN
  Types,       \* bound: the types of socket the program opens
  Ops          \* bound: the waiting calls each thread makes

ASSUME SockAssumption == SockMax \in Nat \ {0}
ASSUME PcbAssumption == NoPcb \notin Pcbs
ASSUME WindowAssumption == Window \in Nat \ {0} /\ UdpRxqMax \in Nat \ {0}
ASSUME SendAssumption == SndQueueLen \in Nat \ {0}
ASSUME ProgramAssumption ==
  /\ Types \subseteq {"stream", "dgram"}
  /\ Ops \in [Threads ->
       SUBSET {"accept", "connect", "recv", "send", "pollin", "pollout"}]

Slots == 0 .. SockMax - 1
NoSlot == -1

VARIABLES
  socks,       \* socks[]
  pcb,         \* lwIP's control blocks
  thr,         \* where each thread is
  held         \* how many times the program has been given each descriptor

vars == <<socks, pcb, thr, held>>

SockStates == {"free", "closed", "connecting", "connected", "listening", "error"}

\* a zeroed bsock; q, head, tail and count are the ring acceptq[]
Zero == [state |-> "free", type |-> "stream", pcb |-> NoPcb,
         rx |-> 0, eof |-> FALSE, udp |-> 0, err |-> FALSE,
         q |-> [i \in Slots |-> 0], head |-> 0, tail |-> 0, count |-> 0]

\* a control block; buf: tcp_sndbuf() is not 0; sent: tcp_sndqueuelen()
Unused == [st |-> "none", arg |-> NoSlot, on |-> {}, wnd |-> 0,
           fin |-> FALSE, buf |-> TRUE, sent |-> 0]

Idle == [pc |-> "idle", op |-> "none", fd |-> 0, polled |-> FALSE]

TypeOK ==
  /\ socks \in [Slots ->
       [state : SockStates, type : {"stream", "dgram"}, pcb : Pcbs \cup {NoPcb},
        rx : 0 .. Window, eof : BOOLEAN, udp : 0 .. UdpRxqMax, err : BOOLEAN,
        q : [Slots -> Slots], head : Slots, tail : Slots, count : 0 .. SockMax]]
  /\ pcb \in [Pcbs ->
       [st : {"none", "fresh", "listen", "synsent", "est", "closing", "udp"},
        arg : Slots \cup {NoSlot},
        on : SUBSET {"accept", "connected", "recv", "err"},
        wnd : 0 .. Window, fin : BOOLEAN, buf : BOOLEAN, sent : 0 .. SndQueueLen]]
  /\ thr \in [Threads ->
       [pc : {"idle", "top", "net", "after", "sleep", "act"},
        op : {"none", "accept", "connect", "recv", "send", "pollin", "pollout"},
        fd : Slots, polled : BOOLEAN]]
  /\ held \in [Slots -> 0 .. 2]

Init ==
  /\ socks = [s \in Slots |-> Zero]
  /\ pcb = [p \in Pcbs |-> Unused]
  /\ thr = [t \in Threads |-> Idle]
  /\ held = [s \in Slots |-> 0]

-----------------------------------------------------------------------------
(* Helpers *)

\* what alloc_slot() returns: nothing, or the first free slot
AllocSlot == {s \in Slots : /\ socks[s].state = "free"
                            /\ \A r \in 0 .. s - 1 : socks[r].state # "free"}

Goto(t, where) == thr' = [thr EXCEPT ![t].pc = where]
Return(t) == thr' = [thr EXCEPT ![t] = Idle]

\* "No concurrent callers to race": every other thread is out of net_shim.c, or
\* asleep in it.
OthersRest(t) == \A u \in Threads : u # t => thr[u].pc \in {"idle", "sleep"}

Held(s) == held[s] > 0
Calls(t, s) == thr[t].pc = "idle" /\ Held(s)

QueueIndex(s) == {(socks[s].head + i) % SockMax : i \in 0 .. socks[s].count - 1}
Queued(s) == {socks[s].q[i] : i \in QueueIndex(s)}

-----------------------------------------------------------------------------
(* socket(), listen(), close() and the calls that never wait *)

\* the slot as reset_sock() and socket() leave it
Fresh(s, type) == [Zero EXCEPT !.type = type]

SocketCall(t) ==
  /\ thr[t].pc = "idle"
  /\ \E s \in AllocSlot, type \in Types :
       \/ \E p \in Pcbs :
            /\ pcb[p].st = "none"
            /\ pcb' = [pcb EXCEPT ![p] =
                 IF type = "dgram"
                   THEN [Unused EXCEPT !.st = "udp", !.arg = s, !.on = {"recv"}]
                   ELSE [Unused EXCEPT !.st = "fresh", !.arg = s]]
            /\ socks' = [socks EXCEPT ![s] =
                 [Fresh(s, type) EXCEPT !.state = "closed", !.pcb = p]]
            /\ held' = [held EXCEPT ![s] = 1]
       \/ /\ \A p \in Pcbs : pcb[p].st # "none"       \* -ENOMEM
          /\ socks' = [socks EXCEPT ![s] = Fresh(s, type)]
          /\ UNCHANGED <<pcb, held>>
  /\ UNCHANGED thr

\* tcp_listen_with_backlog() refuses a control block that is not CLOSED and
\* otherwise replaces it.
Listen(t, s) ==
  /\ Calls(t, s)
  /\ socks[s].type = "stream" /\ socks[s].pcb # NoPcb
  /\ pcb[socks[s].pcb].st = "fresh"
  /\ pcb' = [pcb EXCEPT ![socks[s].pcb] =
               [Unused EXCEPT !.st = "listen", !.arg = s, !.on = {"accept"}]]
  /\ socks' = [socks EXCEPT ![s].state = "listening"]
  /\ UNCHANGED <<thr, held>>

UdpConnect(t, s) ==
  /\ Calls(t, s) /\ socks[s].type = "dgram"
  /\ socks' = [socks EXCEPT ![s].state = "connected"]
  /\ UNCHANGED <<pcb, thr, held>>

\* getsockopt(SO_ERROR)
GetError(t, s) ==
  /\ Calls(t, s)
  /\ socks' = [socks EXCEPT ![s].err = FALSE]
  /\ UNCHANGED <<pcb, thr, held>>

\* Mutant of Drained: the connections nobody accepted are forgotten
DrainedNot(s) == {}

\* the queued connections close() tears down with a listener
Drained(s) == IF socks[s].state = "listening" THEN Queued(s) ELSE {}

\* Mutant of Dropped: the callbacks stay registered
DroppedKeepsCallbacks(b) ==
  IF b.st = "est" /\ b.wnd = Window THEN [b EXCEPT !.st = "closing"] ELSE Unused

\* A control block once the port lets go of it, with no argument and no
\* callbacks.  tcp_close() says goodbye to a connected peer; with data unread
\* it resets the connection instead, and what was never connected is freed.
Dropped(b) == IF b.st = "est" /\ b.wnd = Window
                THEN [b EXCEPT !.st = "closing", !.arg = NoSlot, !.on = {}]
                ELSE Unused

\* A well-behaved program does not close what another of its threads is using.
Close(t, s) ==
  /\ Calls(t, s)
  /\ \A u \in Threads : thr[u].pc # "idle" => thr[u].fd # s
  /\ LET gone == {s} \cup Drained(s) IN
     /\ pcb' = [p \in Pcbs |->
          IF \E r \in gone : socks[r].pcb = p THEN Dropped(pcb[p]) ELSE pcb[p]]
     /\ socks' = [r \in Slots |->
          IF r \notin gone THEN socks[r]
          ELSE [socks[r] EXCEPT
                  !.state = "free", !.rx = 0, !.udp = 0,
                  !.head = IF r = s THEN (@ + socks[r].count) % SockMax ELSE @,
                  !.count = IF r = s THEN 0 ELSE @]]
  /\ held' = [held EXCEPT ![s] = 0]
  /\ UNCHANGED thr

-----------------------------------------------------------------------------
(* lwIP, inside somebody's net_poll() *)

Polling == \E t \in Threads : thr[t].pc = "net"

\* Mutant of OnAccept: the connection goes to the head of the queue
OnAcceptFirst(l, s, p) ==
  LET head == (socks[l].head + SockMax - 1) % SockMax IN
  socks' = [socks EXCEPT
    ![s] = [Zero EXCEPT !.state = "connected", !.pcb = p],
    ![l].q[head] = s, ![l].head = head, ![l].count = @ + 1]

\* on_accept(): the connection gets a slot and a place in the queue
OnAccept(l, s, p) ==
  socks' = [socks EXCEPT
    ![s] = [Zero EXCEPT !.state = "connected", !.pcb = p],
    ![l].q[socks[l].tail] = s, ![l].tail = (@ + 1) % SockMax, ![l].count = @ + 1]

\* A handshake on a listener is complete.  With no slot or no room in the
\* queue on_accept() refuses, and lwIP resets the connection: nothing changes.
Incoming(l, p) ==
  /\ pcb[l].st = "listen" /\ "accept" \in pcb[l].on /\ pcb[p].st = "none"
  /\ socks[pcb[l].arg].count < SockMax
  /\ \E s \in AllocSlot :
       /\ OnAccept(pcb[l].arg, s, p)
       /\ pcb' = [pcb EXCEPT ![p] =
            [Unused EXCEPT !.st = "est", !.arg = s, !.on = {"recv", "err"},
                           !.wnd = Window]]
  /\ UNCHANGED <<thr, held>>

\* on_connected()
Connected(p) ==
  /\ pcb[p].st = "synsent"
  /\ pcb' = [pcb EXCEPT ![p].st = "est", ![p].wnd = Window]
  /\ socks' = [socks EXCEPT ![pcb[p].arg].state = "connected"]
  /\ UNCHANGED <<thr, held>>

\* on_recv(), for a segment or for the end of the stream
OnRecv(s, end) ==
  IF end THEN [socks[s] EXCEPT !.eof = TRUE] ELSE [socks[s] EXCEPT !.rx = @ + 1]

\* A segment, or the peer's FIN; without a callback lwIP takes both itself.
Receive(p, end) ==
  /\ pcb[p].st \in {"est", "closing"} /\ ~pcb[p].fin
  /\ end \/ pcb[p].wnd > 0
  /\ "recv" \in pcb[p].on
  /\ pcb' = [pcb EXCEPT ![p].fin = end, ![p].wnd = IF end THEN @ ELSE @ - 1]
  /\ socks' = [socks EXCEPT ![pcb[p].arg] = OnRecv(pcb[p].arg, end)]
  /\ UNCHANGED <<thr, held>>

\* on_udp_recv(): a datagram that finds the ring full is dropped
Datagram(p) ==
  /\ pcb[p].st = "udp" /\ "recv" \in pcb[p].on
  /\ socks[pcb[p].arg].udp < UdpRxqMax
  /\ socks' = [socks EXCEPT ![pcb[p].arg].udp = @ + 1]
  /\ UNCHANGED <<pcb, thr, held>>

\* on_err()
OnErr(s) == [socks[s] EXCEPT !.err = TRUE, !.pcb = NoPcb, !.state = "error"]

\* A refusal, a reset, or too many retransmissions: lwIP frees the control
\* block and says so.
Reset(p) ==
  /\ pcb[p].st \in {"synsent", "est", "closing"}
  /\ pcb' = [pcb EXCEPT ![p] = Unused]
  /\ socks' = IF "err" \in pcb[p].on
                THEN [socks EXCEPT ![pcb[p].arg] = OnErr(pcb[p].arg)] ELSE socks
  /\ UNCHANGED <<thr, held>>

\* The peer acknowledged some of what was sent, and maybe whole segments of it.
Acked(p) ==
  /\ pcb[p].st = "est" /\ (~pcb[p].buf \/ pcb[p].sent > 0)
  /\ \E n \in 0 .. pcb[p].sent : pcb' = [pcb EXCEPT ![p].buf = TRUE, ![p].sent = n]
  /\ UNCHANGED <<socks, thr, held>>

Network ==
  /\ Polling
  /\ \E p \in Pcbs :
       \/ \E l \in Pcbs : Incoming(l, p)
       \/ Connected(p)
       \/ \E end \in BOOLEAN : Receive(p, end)
       \/ Datagram(p)
       \/ Reset(p)
       \/ Acked(p)

-----------------------------------------------------------------------------
(* The calls that wait *)

Begin(t, op, s, where) ==
  op \in Ops[t] /\ thr' = [thr EXCEPT ![t] = [pc |-> where, op |-> op, fd |-> s, polled |-> FALSE]]

\* accept(), recv() and their relatives, and poll(), start by looking.
CallAccept(t, s) ==
  /\ Calls(t, s) /\ socks[s].type = "stream"
  /\ Begin(t, "accept", s, "top")
  /\ UNCHANGED <<socks, pcb, held>>

CallRecv(t, s) ==
  /\ Calls(t, s)
  /\ Begin(t, "recv", s, "top")
  /\ UNCHANGED <<socks, pcb, held>>

CallPoll(t, s) ==
  /\ Calls(t, s)
  /\ \E op \in {"pollin", "pollout"} : Begin(t, op, s, "net")
  /\ UNCHANGED <<socks, pcb, held>>

CallSend(t, s) ==
  /\ Calls(t, s) /\ socks[s].type = "stream"
  /\ socks[s].state \notin {"closed", "listening"}
  /\ Begin(t, "send", s, "top")
  /\ UNCHANGED <<socks, pcb, held>>

\* tcp_connect() sends the SYN, or fails on the spot.
CallConnect(t, s) ==
  /\ Calls(t, s) /\ socks[s].type = "stream"
  /\ socks[s].state = "closed" /\ socks[s].pcb # NoPcb
  /\ LET p == socks[s].pcb IN
     \/ /\ socks' = [socks EXCEPT ![s].state = "connecting"]
        /\ pcb' = [pcb EXCEPT ![p].st = "synsent", ![p].arg = s,
                              ![p].on = {"recv", "err", "connected"}]
        /\ Begin(t, "connect", s, "top")
     \/ /\ socks' = [socks EXCEPT ![s].state = "error"]
        /\ pcb' = [pcb EXCEPT ![p].arg = s, ![p].on = {"recv", "err"}]
        /\ UNCHANGED thr
  /\ UNCHANGED held

\* Mutant of RxReady: the wait does not look for the end of the stream
RxReadyNoEof(s) == s.rx > 0 \/ s.state = "error"

\* what ends tcp_wait_rx()'s wait, with data or not
RxReady(s) == s.rx > 0 \/ s.eof \/ s.state = "error"

\* what the loop of each call waits for
Ready(op, s) ==
  CASE op = "accept"  -> s.count # 0
    [] op = "connect" -> s.state # "connecting"
    [] op = "recv"    -> IF s.type = "dgram" THEN s.udp > 0 ELSE RxReady(s)
    [] OTHER          -> FALSE

\* what makes it give up without waiting
Refused(op, s) ==
  \/ op = "accept" /\ s.state # "listening"
  \/ op = "recv" /\ s.type = "stream" /\ s.state \in {"closed", "listening"}

\* bsock_write() tries unless the send buffer is full.
Tries(s) == s.pcb # NoPcb /\ pcb[s.pcb].buf

\* tcp_write() takes all of what it is given, in n segments, or ERR_MEM.
TakesAll(p, n) == pcb[p].sent + n <= SndQueueLen

\* the test at the head of the loop
Top(t) ==
  /\ thr[t].pc = "top" /\ thr[t].op # "send"
  /\ LET s == socks[thr[t].fd] IN
     \/ Ready(thr[t].op, s) /\ Goto(t, "act")
     \/ ~Ready(thr[t].op, s) /\ Refused(thr[t].op, s) /\ Return(t)
     \/ ~Ready(thr[t].op, s) /\ ~Refused(thr[t].op, s) /\ Goto(t, "net")
  /\ UNCHANGED <<socks, pcb, held>>

\* send()'s: bsock_write(), then its error, then the second miss of a call that
\* must not wait.  ERR_MEM is a miss like a full send buffer, and lwIP may be
\* out of memory at any time.
SendTop(t) ==
  /\ thr[t].pc = "top" /\ thr[t].op = "send"
  /\ LET s == socks[thr[t].fd] IN
     \/ /\ s.state # "connecting" /\ s.state # "error" /\ Tries(s)
        /\ \E n \in 1 .. SndQueueLen, buf \in BOOLEAN :
             /\ TakesAll(s.pcb, n)
             /\ pcb' = [pcb EXCEPT ![s.pcb].buf = buf, ![s.pcb].sent = @ + n]
        /\ Return(t)
     \/ /\ s.state = "error" \/ (s.state # "connecting" /\ s.pcb = NoPcb)
        /\ Return(t)
        /\ UNCHANGED pcb
     \/ /\ s.state # "error" /\ (s.state = "connecting" \/ s.pcb # NoPcb)
        /\ IF thr[t].polled THEN Return(t) ELSE Goto(t, "net")
        /\ UNCHANGED pcb
  /\ UNCHANGED <<socks, held>>

\* net_poll() has nothing more to deliver.
NetPollReturns(t) ==
  /\ thr[t].pc = "net"
  /\ Goto(t, "after")
  /\ UNCHANGED <<socks, pcb, held>>

\* Mutant of PollIn: a connection that was reset is not readable
PollInNotReset(s) ==
  IF s.type = "dgram" THEN s.udp > 0
  ELSE \/ s.state = "listening" /\ s.count > 0
       \/ s.state = "connected" /\ (s.rx > 0 \/ s.eof)

\* net_shim_poll(): POLLIN
PollIn(s) ==
  IF s.type = "dgram" THEN s.udp > 0
  ELSE \/ s.state = "listening" /\ s.count > 0
       \/ s.state = "connected" /\ (s.rx > 0 \/ s.eof)
       \/ s.state = "error"

\* POLLOUT
PollOut(s) ==
  \/ s.type = "dgram"
  \/ /\ s.state = "connected" /\ s.pcb # NoPcb
     /\ pcb[s.pcb].buf /\ pcb[s.pcb].sent < SndQueueLen
  \/ s.state \in {"error", "closed"}

\* POLLHUP, whatever was asked for; POLLERR only ever comes with it
PollHup(s) == s.type = "stream" /\ s.state \in {"error", "closed"}

Revents(op, s) ==
  PollHup(s) \/ (op = "pollin" /\ PollIn(s)) \/ (op = "pollout" /\ PollOut(s))

\* what the call looks at when net_poll() is through
Over(op, s) == IF op \in {"pollin", "pollout"} THEN Revents(op, s) ELSE Ready(op, s)

\* The test after net_poll(): the wait is over, or it is given up, or the call
\* sleeps until the next round.  send() does not look, but a send() that must
\* not wait tries once more.
After(t) ==
  /\ thr[t].pc = "after"
  /\ LET op == thr[t].op
         over == Over(op, socks[thr[t].fd])
     IN \/ over /\ op \in {"accept", "connect"} /\ Goto(t, "act")
        \/ over /\ op = "recv" /\ Goto(t, "top")
        \/ over /\ op \in {"pollin", "pollout"} /\ Return(t)
        \/ ~over /\ (Return(t) \/ Goto(t, "sleep"))
        \/ op = "send" /\ thr' = [thr EXCEPT ![t].pc = "top", ![t].polled = TRUE]
  /\ UNCHANGED <<socks, pcb, held>>

\* thread_shim_sleep_until() returns: a signal, or the next round
Sleep(t) ==
  /\ thr[t].pc = "sleep" /\ OthersRest(t)
  /\ \/ Return(t)
     \/ Goto(t, IF thr[t].op \in {"pollin", "pollout"} THEN "net" ELSE "top")
  /\ UNCHANGED <<socks, pcb, held>>

\* accept() takes the first connection of the queue, without looking again.
Accept(t) ==
  /\ thr[t].pc = "act" /\ thr[t].op = "accept"
  /\ LET l == thr[t].fd
         s == socks[l].q[socks[l].head]
     IN /\ socks' = [socks EXCEPT ![l].head = (@ + 1) % SockMax, ![l].count = @ - 1]
        /\ held' = [held EXCEPT ![s] = @ + 1]
  /\ Return(t)
  /\ UNCHANGED pcb

\* connect() reports the outcome and takes the error off the socket.
ConnectEnds(t) ==
  /\ thr[t].pc = "act" /\ thr[t].op = "connect"
  /\ socks' = [socks EXCEPT ![thr[t].fd].err =
                 IF socks[thr[t].fd].state = "connected" THEN @ ELSE FALSE]
  /\ Return(t)
  /\ UNCHANGED <<pcb, held>>

\* Mutant of Reopened: after a FIN the window is not opened any more
ReopenedBeforeEnd(p, n) == IF pcb[p].fin THEN pcb ELSE [pcb EXCEPT ![p].wnd = @ + n]

\* tcp_recved()
Reopened(p, n) == [pcb EXCEPT ![p].wnd = @ + n]

\* recv(): one datagram, or as much of what is queued as fits
Recv(t) ==
  /\ thr[t].pc = "act" /\ thr[t].op = "recv"
  /\ LET f == thr[t].fd
         s == socks[f]
     IN IF s.type = "dgram"
          THEN /\ socks' = [socks EXCEPT ![f].udp = @ - 1]
               /\ UNCHANGED pcb
          ELSE \E n \in (IF s.rx = 0 THEN {0} ELSE 1 .. s.rx) :
                 /\ socks' = [socks EXCEPT ![f].rx = @ - n]
                 /\ pcb' = IF s.pcb = NoPcb THEN pcb ELSE Reopened(s.pcb, n)
  /\ Return(t)
  /\ UNCHANGED held

\* The port's last connection block is gone from lwIP too.
Finished(p) ==
  /\ pcb[p].st = "closing"
  /\ pcb' = [pcb EXCEPT ![p] = Unused]
  /\ UNCHANGED <<socks, thr, held>>

Step(t) ==
  \/ Top(t) \/ SendTop(t) \/ NetPollReturns(t) \/ After(t) \/ Sleep(t)
  \/ Accept(t) \/ ConnectEnds(t) \/ Recv(t)

Program(t) ==
  /\ OthersRest(t)
  /\ \/ SocketCall(t)
     \/ \E s \in Slots :
          \/ Listen(t, s) \/ UdpConnect(t, s) \/ GetError(t, s) \/ Close(t, s)
          \/ CallAccept(t, s) \/ CallRecv(t, s) \/ CallPoll(t, s) \/ CallSend(t, s)
          \/ CallConnect(t, s)

Next ==
  \/ \E t \in Threads : Program(t) \/ Step(t)
  \/ Network
  \/ Polling /\ \E p \in Pcbs : Finished(p)

Spec == Init /\ [][Next]_vars

\* A thread inside a call goes on with it: net_poll() stops when the receive
\* ring is empty, and the sleep of a round ends.  What others call in the
\* meantime does not keep it from waking for ever: the scheduler passes over no
\* thread that is ready.
FairSpec == Spec /\ \A t \in Threads : WF_vars(Step(t)) /\ SF_vars(Sleep(t))

-----------------------------------------------------------------------------
(* Properties *)

\* Every slot in use has exactly one owner, the program or the queue of one
\* listener, and no descriptor the program holds is a free slot: no connection
\* is leaked when its listener closes and none is handed out twice.
SlotsOwned ==
  \A s \in Slots :
    LET places == {e \in Slots \X Slots :
                     /\ socks[e[1]].state = "listening" /\ e[2] \in QueueIndex(e[1])
                     /\ socks[e[1]].q[e[2]] = s}
    IN Cardinality(places) + held[s] = IF socks[s].state = "free" THEN 0 ELSE 1

\* The entries of a listener's ring, the one accept() takes next first
Line(l) == [i \in 1 .. socks[l].count |-> socks[l].q[(socks[l].head + (i - 1)) % SockMax]]

\* The rings implement the abstract backlog: connections are accepted in the
\* order they came in, each once, and whatever else happens to a socket, in
\* its own call or in a callback, leaves the lines as they are.
Abstract == INSTANCE Backlog WITH
  Sock <- Slots, Room <- SockMax,
  waiting <- [l \in Slots |-> Line(l)], given <- {s \in Slots : Held(s)}

ImplementsBacklog == Abstract!Spec

\* The two halves of a socket agree.  A control block's callbacks lead to the
\* slot that points back at it, so that none fires into a slot that has been
\* freed or given to somebody else; and the slot's state is the one the
\* control block is in.
PcbAgrees ==
  /\ \A p \in Pcbs : pcb[p].arg # NoSlot =>
       socks[pcb[p].arg].state # "free" /\ socks[pcb[p].arg].pcb = p
  /\ \A s \in Slots : LET k == socks[s] IN
       k.state # "free" /\ k.pcb # NoPcb =>
         /\ pcb[k.pcb].arg = s
         /\ pcb[k.pcb].st =
              IF k.type = "dgram" THEN "udp"
              ELSE CASE k.state \in {"closed", "error"} -> "fresh"
                     [] k.state = "listening" -> "listen"
                     [] k.state = "connecting" -> "synsent"
                     [] OTHER -> "est"
         /\ k.state = "connected" /\ k.type = "stream" => k.eof = pcb[k.pcb].fin
  /\ \A s \in Slots : socks[s].pcb = NoPcb => socks[s].state \in {"free", "error"}

\* What is buffered for the program and the window offered to the peer add up
\* to the whole window: a slow reader stops the sender, and reading everything
\* opens the window again.
WindowExact ==
  \A p \in Pcbs : pcb[p].st = "est" => pcb[p].wnd + socks[pcb[p].arg].rx = Window

\* poll() "mirrors exactly what the calls above would do right now".  POLLIN is
\* reported exactly when recv() or accept() would not wait and not refuse.  A
\* connected stream is reported writable exactly when there is a length that
\* send() would take, memory allowing; a longer write, which bsock_write() does
\* not split, may find the socket writable and still wait.
PollHonest ==
  \A s \in Slots : LET k == socks[s]
                       op == IF k.state = "listening" THEN "accept" ELSE "recv"
                   IN Held(s) =>
    /\ PollIn(k) <=> Ready(op, k)
    /\ k.type = "stream" /\ k.state = "connected" =>
         (PollOut(k) <=> Tries(k) /\ \E n \in 1 .. SndQueueLen : TakesAll(k.pcb, n))

\* What a call waits for has happened, whether in its own net_poll() or in that
\* of another call while this one was asleep.
Settled(t) ==
  LET s == socks[thr[t].fd]
      op == thr[t].op
  IN /\ thr[t].pc # "idle"
     /\ \/ op \in {"accept", "connect"} /\ Ready(op, s)
        \/ op = "recv" /\ (PollIn(s) \/ PollHup(s))
        \/ op \in {"pollin", "pollout"} /\ Revents(op, s)
        \/ op = "send" /\ s.state = "error"

\* Such a call ends, unless another thread is quicker and takes what it waited
\* for.
SettledCallEnds == \A t \in Threads : Settled(t) ~> ~Settled(t)

=============================================================================
