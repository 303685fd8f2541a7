--------------------------- MODULE SocketsProofs ---------------------------
(***************************************************************************)
(* Sockets keeps its tables consistent and implements Backlog, for any     *)
(* number of slots, threads and control blocks and any size of window. The *)
(* threads are those of Sockets, which hand over only where a call sleeps. *)
(***************************************************************************)
EXTENDS Sockets, TLAPS, FiniteSetTheorems, SequenceTheorems

USE SockAssumption, PcbAssumption, WindowAssumption, ProgramAssumption

-----------------------------------------------------------------------------
(* The ring acceptq[] *)

\* Indices are taken modulo SockMax, at most one lap on.
LEMMA Wrap ==
  /\ \A x \in 0 .. SockMax - 1 : x % SockMax = x
  /\ \A x \in SockMax .. 2 * SockMax - 1 : x % SockMax = x - SockMax
OBVIOUS

\* The places of a ring that starts at h and holds c entries.
Ring(h, c) == {(h + i) % SockMax : i \in 0 .. c - 1}

\* Another entry goes into a place that was not in use.
LEMMA RingGrows ==
  ASSUME NEW h \in Slots, NEW c \in 0 .. SockMax - 1
  PROVE  LET tail == (h + c) % SockMax IN
         /\ tail \in Slots /\ tail \notin Ring(h, c)
         /\ Ring(h, c + 1) = Ring(h, c) \cup {tail}
         /\ (tail + 1) % SockMax = (h + (c + 1)) % SockMax
<1>1. \A i \in 0 .. c :
        /\ h + i < SockMax => (h + i) % SockMax = h + i
        /\ h + i >= SockMax => (h + i) % SockMax = h + i - SockMax
  BY Wrap DEF Slots
<1>2. \A i \in 0 .. c - 1 : (h + i) % SockMax # (h + c) % SockMax
  BY <1>1 DEF Slots
<1>3. (h + c) % SockMax \in Slots
  BY <1>1 DEF Slots
<1>4. (((h + c) % SockMax) + 1) % SockMax = (h + (c + 1)) % SockMax
  <2>1. CASE h + c < SockMax
    BY <2>1, <1>1 DEF Slots
  <2>2. CASE h + c >= SockMax
    <3>1. ((h + c) % SockMax) + 1 = h + c - SockMax + 1 /\ h + c - SockMax + 1 \in 0 .. SockMax - 1
      BY <2>2, <1>1 DEF Slots
    <3>2. h + (c + 1) \in SockMax .. 2 * SockMax - 1
      BY <2>2 DEF Slots
    <3> QED BY <3>1, <3>2, Wrap DEF Slots
  <2> QED BY <2>1, <2>2 DEF Slots
<1>5. 0 .. (c + 1) - 1 = (0 .. c - 1) \cup {c}
  OBVIOUS
<1>6. Ring(h, c + 1) = Ring(h, c) \cup {(h + c) % SockMax}
  BY <1>5 DEF Ring
<1> QED BY <1>2, <1>3, <1>4, <1>6 DEF Ring

\* Counted from the next place on, what was the second is the first.
LEMMA RingNext ==
  ASSUME NEW h \in Slots, NEW c \in 1 .. SockMax
  PROVE  LET head == (h + 1) % SockMax IN
         /\ head \in Slots /\ head = IF h + 1 < SockMax THEN h + 1 ELSE 0
         /\ \A i \in 0 .. c - 1 : (head + i) % SockMax = (h + (i + 1)) % SockMax
<1> DEFINE head == (h + 1) % SockMax
<1>1. head \in Slots /\ head = IF h + 1 < SockMax THEN h + 1 ELSE 0
  BY Wrap DEF Slots
<1>2. \A i \in 0 .. c - 1 : (head + i) % SockMax = (h + (i + 1)) % SockMax
  <2> TAKE i \in 0 .. c - 1
  <2>1. CASE h + 1 < SockMax
    BY <2>1, <1>1 DEF Slots
  <2>2. CASE h + 1 >= SockMax
    <3> DEFINE x == h + (i + 1)
    <3>1. x \in SockMax .. 2 * SockMax - 1 /\ head + i = x - SockMax
      BY <2>2, <1>1 DEF Slots
    <3>2. x - SockMax \in 0 .. SockMax - 1
      BY <3>1
    <3> HIDE DEF x
    <3>3. (head + i) % SockMax = x % SockMax
      BY <3>1, <3>2, Wrap
    <3> QED BY <3>3 DEF x
  <2> QED BY <2>1, <2>2 DEF Slots
<1> QED BY <1>1, <1>2

\* The first entry leaves, and no other.
LEMMA RingShrinks ==
  ASSUME NEW h \in Slots, NEW c \in 1 .. SockMax
  PROVE  LET head == (h + 1) % SockMax IN
         /\ head \in Slots /\ h \in Ring(h, c)
         /\ Ring(head, c - 1) = Ring(h, c) \ {h}
         /\ (head + (c - 1)) % SockMax = (h + c) % SockMax
<1> DEFINE head == (h + 1) % SockMax
<1>1. head \in Slots /\ \A i \in 0 .. c - 1 : (head + i) % SockMax = (h + (i + 1)) % SockMax
  BY RingNext
<1>2. h = (h + 0) % SockMax /\ 0 \in 0 .. c - 1
  BY Wrap DEF Slots
<1>3. \A i \in 0 .. SockMax - 1 :
        /\ h + i < SockMax => (h + i) % SockMax = h + i
        /\ h + i >= SockMax => (h + i) % SockMax = h + i - SockMax
  BY Wrap DEF Slots
<1>4. \A i \in 1 .. c - 1 : (h + i) % SockMax # h
  BY <1>3 DEF Slots
<1> HIDE DEF head
<1>5. Ring(head, c - 1) = {(h + j) % SockMax : j \in 1 .. c - 1}
  <2>1. \A i \in 0 .. c - 2 : i + 1 \in 1 .. c - 1 /\ (head + i) % SockMax = (h + (i + 1)) % SockMax
    BY <1>1
  <2>2. \A j \in 1 .. c - 1 : j - 1 \in 0 .. c - 2 /\ (head + (j - 1)) % SockMax = (h + j) % SockMax
    <3> TAKE j \in 1 .. c - 1
    <3>1. j - 1 \in 0 .. c - 1 /\ (j - 1) + 1 = j /\ j - 1 \in 0 .. c - 2
      OBVIOUS
    <3> QED BY <3>1, <1>1
  <2>3. (c - 1) - 1 = c - 2
    OBVIOUS
  <2> QED BY <2>1, <2>2, <2>3 DEF Ring
<1>6. 0 .. c - 1 = {0} \cup (1 .. c - 1)
  OBVIOUS
<1>7. Ring(h, c) = {h} \cup {(h + j) % SockMax : j \in 1 .. c - 1}
  BY <1>2, <1>6 DEF Ring
<1>8. (head + (c - 1)) % SockMax = (h + c) % SockMax
  <2>1. c - 1 \in 0 .. c - 1 /\ (c - 1) + 1 = c
    OBVIOUS
  <2> QED BY <2>1, <1>1
<1> QED BY <1>1, <1>4, <1>5, <1>7, <1>8 DEF head

-----------------------------------------------------------------------------
(* The inductive invariant *)

\* Inside net_shim.c there is one thread, or none; the others are asleep.
OneAwake == \A t \in Threads : thr[t].pc \notin {"idle", "sleep"} => OthersRest(t)

Taken(s) == socks[s].state # "free"
InQueue(s) == \E l \in Slots : \E i \in QueueIndex(l) : socks[l].q[i] = s

\* head, tail and count describe one ring, and only a listener's holds anything.
Rings == \A s \in Slots : LET k == socks[s] IN
  /\ k.tail = (k.head + k.count) % SockMax
  /\ k.state # "listening" => k.count = 0

\* What is queued is a connection nobody has a descriptor of, queued once.
Queues ==
  /\ \A l \in Slots : \A i \in QueueIndex(l) : LET s == socks[l].q[i] IN
       held[s] = 0 /\ socks[s].state \in {"connected", "error"}
  /\ \A l, m \in Slots : \A i \in QueueIndex(l), j \in QueueIndex(m) :
       socks[l].q[i] = socks[m].q[j] => l = m /\ i = j

\* A slot in use is the program's or in a queue.
Owned == \A s \in Slots :
  /\ held[s] \in {0, 1}
  /\ held[s] = 1 => Taken(s)
  /\ Taken(s) => held[s] = 1 \/ InQueue(s)

\* PcbAgrees, for one control block and for one slot.
BlockAgrees(p) ==
  pcb[p].arg # NoSlot => Taken(pcb[p].arg) /\ socks[pcb[p].arg].pcb = p

SlotAgrees(s) == LET k == socks[s] IN
  /\ k.state # "free" /\ k.pcb # NoPcb =>
       /\ pcb[k.pcb].arg = s
       /\ pcb[k.pcb].st =
            IF k.type = "dgram" THEN "udp"
            ELSE CASE k.state \in {"closed", "error"} -> "fresh"
                   [] k.state = "listening" -> "listen"
                   [] k.state = "connecting" -> "synsent"
                   [] OTHER -> "est"
       /\ k.state = "connected" /\ k.type = "stream" => k.eof = pcb[k.pcb].fin
  /\ k.pcb = NoPcb => k.state \in {"free", "error"}

\* A control block the port has let go of has no argument and no callbacks; one
\* that carries a connection, or is making one, has both of these.
Blocks == \A p \in Pcbs : LET b == pcb[p] IN
  /\ b.st \in {"none", "closing"} <=> b.arg = NoSlot
  /\ b.st \in {"none", "closing"} => b.on = {}
  /\ b.st \in {"synsent", "est"} => {"recv", "err"} \subseteq b.on

\* Nothing arrives on a stream before it is connected.
Quiet == \A s \in Slots : LET k == socks[s] IN Taken(s) =>
  /\ k.type = "dgram" => k.state \in {"closed", "connected"}
  /\ k.type = "stream" /\ (\/ k.state \in {"closed", "connecting", "listening"}
                           \/ k.state = "error" /\ k.pcb # NoPcb)
       => k.rx = 0 /\ ~ k.eof /\ (k.pcb # NoPcb => ~ pcb[k.pcb].fin)

\* A call is on a socket the program holds, and what a call is about to take
\* is there.
Callers == \A t \in Threads : LET c == thr[t] IN c.pc # "idle" =>
  /\ held[c.fd] = 1
  /\ c.pc = "act" /\ c.op = "accept" => socks[c.fd].count > 0
  /\ c.pc = "act" /\ c.op = "recv" /\ socks[c.fd].type = "dgram" => socks[c.fd].udp > 0

IInv ==
  /\ TypeOK /\ Rings /\ Queues /\ Owned
  /\ PcbAgrees /\ Blocks /\ Quiet /\ WindowExact
  /\ Callers

Sock ==
  [state : SockStates, type : {"stream", "dgram"}, pcb : Pcbs \cup {NoPcb},
   rx : 0 .. Window, eof : BOOLEAN, udp : 0 .. UdpRxqMax, err : BOOLEAN,
   q : [Slots -> Slots], head : Slots, tail : Slots, count : 0 .. SockMax]

Block ==
  [st : {"none", "fresh", "listen", "synsent", "est", "closing", "udp"},
   arg : Slots \cup {NoSlot}, on : SUBSET {"accept", "connected", "recv", "err"},
   wnd : 0 .. Window, fin : BOOLEAN, buf : BOOLEAN, sent : 0 .. SndQueueLen]

Caller ==
  [pc : {"idle", "top", "net", "after", "sleep", "act"},
   op : {"none", "accept", "connect", "recv", "send", "pollin", "pollout"},
   fd : Slots, polled : BOOLEAN]

LEMMA TypeRanges ==
  TypeOK <=> /\ socks \in [Slots -> Sock] /\ pcb \in [Pcbs -> Block]
             /\ thr \in [Threads -> Caller] /\ held \in [Slots -> 0 .. 2]
BY DEF TypeOK, Sock, Block, Caller

LEMMA FullWindow == 0 \in 0 .. Window /\ Window \in 0 .. Window /\ 0 \in 0 .. SndQueueLen
BY WindowAssumption, SendAssumption

LEMMA NewTypes ==
  ASSUME socks' \in [Slots -> Sock], pcb' \in [Pcbs -> Block],
         thr' \in [Threads -> Caller], held' \in [Slots -> 0 .. 2]
  PROVE  TypeOK'
BY DEF TypeOK, Sock, Block, Caller

-----------------------------------------------------------------------------
(* What a step that leaves a part of the state alone keeps *)

\* Places of a ring are places of the array, and what they hold are slots.
LEMMA InRing ==
  ASSUME IInv, NEW s \in Slots
  PROVE  /\ QueueIndex(s) = Ring(socks[s].head, socks[s].count)
         /\ QueueIndex(s) \subseteq Slots
         /\ \A i \in QueueIndex(s) : socks[s].q[i] \in Slots
<1>1. socks[s].head \in Slots /\ socks[s].count \in 0 .. SockMax /\ socks[s].q \in [Slots -> Slots]
  BY TypeRanges DEF IInv, Sock
<1>2. \A x \in Nat : x % SockMax \in Slots
  BY DEF Slots
<1>3. \A h \in Slots, c \in 0 .. SockMax : \A i \in 0 .. c - 1 : h + i \in Nat
  BY DEF Slots
<1>4. QueueIndex(s) \subseteq Slots
  BY <1>1, <1>2, <1>3 DEF QueueIndex
<1> QED BY <1>1, <1>4 DEF QueueIndex, Ring

LEMMA Agree ==
  /\ PcbAgrees => (\A p \in Pcbs : BlockAgrees(p)) /\ (\A s \in Slots : SlotAgrees(s))
  /\ (\A p \in Pcbs : BlockAgrees(p)') /\ (\A s \in Slots : SlotAgrees(s)') => PcbAgrees'
BY DEF PcbAgrees, BlockAgrees, SlotAgrees, Taken

LEMMA NewRing ==
  ASSUME NEW s \in Slots
  PROVE  QueueIndex(s)' = Ring(socks'[s].head, socks'[s].count)
BY DEF QueueIndex, Ring

\* The rings and the descriptors are as before.
LEMMA QueuesStay ==
  ASSUME IInv, UNCHANGED held,
         \A s \in Slots :
           /\ socks'[s].q = socks[s].q /\ socks'[s].count = socks[s].count
           /\ socks'[s].head = socks[s].head /\ socks'[s].tail = socks[s].tail
           /\ Taken(s)' <=> Taken(s)
           /\ socks[s].state = "listening" => socks'[s].state = "listening"
           /\ held[s] = 0 /\ socks[s].state \in {"connected", "error"} =>
                socks'[s].state \in {"connected", "error"}
  PROVE  (Rings /\ Queues /\ Owned)'
<1>1. \A s \in Slots : QueueIndex(s)' = QueueIndex(s)
  BY DEF QueueIndex
<1>2. Rings'
  BY DEF IInv, Rings
<1>3. Queues'
  BY <1>1, InRing DEF IInv, Queues
<1>4. \A s \in Slots : InQueue(s)' <=> InQueue(s)
  BY <1>1 DEF InQueue
<1>5. Owned'
  BY <1>4 DEF IInv, Owned
<1> QED BY <1>2, <1>3, <1>5

\* Sockets and control blocks are tied together as before.
LEMMA LinksStay ==
  ASSUME IInv,
         \A s \in Slots :
           /\ socks'[s].state = socks[s].state /\ socks'[s].type = socks[s].type
           /\ socks'[s].pcb = socks[s].pcb /\ socks'[s].rx = socks[s].rx
           /\ socks'[s].eof = socks[s].eof,
         \A p \in Pcbs :
           /\ pcb'[p].st = pcb[p].st /\ pcb'[p].arg = pcb[p].arg
           /\ pcb'[p].on = pcb[p].on /\ pcb'[p].wnd = pcb[p].wnd
           /\ pcb'[p].fin = pcb[p].fin
  PROVE  (PcbAgrees /\ Blocks /\ Quiet /\ WindowExact)'
<1> USE TypeRanges DEF IInv
<1>1. /\ \A s \in Slots : socks[s].pcb \in Pcbs \cup {NoPcb}
      /\ \A p \in Pcbs : pcb[p].arg \in Slots \cup {NoSlot}
      /\ \A p \in Pcbs : pcb[p].st = "est" => pcb[p].arg \in Slots
  BY DEF Sock, Block, Blocks
<1>2. PcbAgrees'
  BY <1>1 DEF PcbAgrees
<1>3. Blocks'
  BY DEF Blocks
<1>4. Quiet'
  BY <1>1 DEF Quiet, Taken
<1>5. WindowExact'
  BY <1>1 DEF WindowExact
<1> QED BY <1>2, <1>3, <1>4, <1>5

\* Calls that are under way still hold their socket and find what they found.
LEMMA CallersStay ==
  ASSUME IInv, UNCHANGED thr,
         \A s \in Slots : held[s] = 1 /\ (\E t \in Threads : thr[t].pc # "idle" /\ thr[t].fd = s) =>
           /\ held'[s] = 1
           /\ socks'[s].type = socks[s].type
           /\ socks[s].count > 0 => socks'[s].count > 0
           /\ socks[s].udp > 0 => socks'[s].udp > 0
  PROVE  Callers'
<1>1. \A t \in Threads : thr[t].fd \in Slots
  BY TypeRanges DEF IInv, Caller
<1> QED BY <1>1 DEF IInv, Callers

\* A step of one thread: the others are not about to take anything.
LEMMA OtherCallersStay ==
  ASSUME IInv, NEW t \in Threads, OthersRest(t),
         \A u \in Threads : u # t => thr'[u] = thr[u],
         \A s \in Slots : held[s] = 1 => held'[s] = 1,
         LET c == thr'[t] IN c.pc # "idle" =>
           /\ held'[c.fd] = 1
           /\ c.pc = "act" /\ c.op = "accept" => socks'[c.fd].count > 0
           /\ c.pc = "act" /\ c.op = "recv" /\ socks'[c.fd].type = "dgram" =>
                socks'[c.fd].udp > 0
  PROVE  Callers'
<1>1. \A u \in Threads : thr[u].fd \in Slots
  BY TypeRanges DEF IInv, Caller
<1>2. ASSUME NEW u \in Threads, u # t, thr[u].pc # "idle"
      PROVE  held'[thr'[u].fd] = 1 /\ thr'[u].pc # "act"
  BY <1>1, <1>2 DEF IInv, Callers, OthersRest
<1> QED BY <1>2 DEF Callers

-----------------------------------------------------------------------------
(* Each step keeps the invariant: what lwIP does *)

\* Who a control block and a slot belong to.
LEMMA Tied ==
  ASSUME IInv
  PROVE  /\ \A p \in Pcbs : pcb[p].st \notin {"none", "closing"} =>
              /\ pcb[p].arg \in Slots /\ Taken(pcb[p].arg)
              /\ socks[pcb[p].arg].pcb = p
         /\ \A s \in Slots : Taken(s) /\ socks[s].pcb # NoPcb =>
              /\ socks[s].pcb \in Pcbs
              /\ pcb[socks[s].pcb].arg = s
              /\ pcb[socks[s].pcb].st \notin {"none", "closing"}
         /\ \A s \in Slots : held[s] = 1 => Taken(s)
         /\ \A s \in Slots : held[s] \in {0, 1}
<1>1. /\ \A p \in Pcbs : pcb[p].arg \in Slots \cup {NoSlot}
      /\ \A s \in Slots : socks[s].pcb \in Pcbs \cup {NoPcb}
  BY TypeRanges DEF IInv, Sock, Block
<1>2. NoSlot \notin Slots
  BY DEF Slots, NoSlot
<1> QED BY <1>1, <1>2 DEF IInv, PcbAgrees, Blocks, Owned, Taken

LEMMA ConnectedKeeps ==
  ASSUME IInv, NEW p \in Pcbs, Connected(p)
  PROVE  IInv'
<1> DEFINE s == pcb[p].arg
<1>1. /\ pcb[p].st = "synsent"
      /\ pcb' = [pcb EXCEPT ![p].st = "est", ![p].wnd = Window]
      /\ socks' = [socks EXCEPT ![s].state = "connected"]
      /\ UNCHANGED <<thr, held>>
  BY DEF Connected
<1>2. s \in Slots /\ socks[s].pcb = p /\ Taken(s) /\ pcb[p].arg = s
  BY <1>1, Tied
<1>3. socks[s].state = "connecting" /\ socks[s].type = "stream"
  BY <1>1, <1>2, TypeRanges DEF IInv, PcbAgrees, Taken, Sock, SockStates, Quiet
<1> HIDE DEF s
<1>4. TypeOK'
  <2> USE TypeRanges DEF IInv
  <2>1. socks' \in [Slots -> Sock]
    <3>1. ASSUME NEW k \in Sock PROVE [k EXCEPT !.state = "connected"] \in Sock
      BY DEF Sock, SockStates
    <3>2. socks' = [socks EXCEPT ![s] = [socks[s] EXCEPT !.state = "connected"]]
      BY <1>1
    <3> QED BY <1>2, <3>1, <3>2
  <2>2. [pcb[p] EXCEPT !.st = "est", !.wnd = Window] \in Block
    <3>1. ASSUME NEW b \in Block PROVE [b EXCEPT !.st = "est", !.wnd = Window] \in Block
      <4> HIDE DEF IInv
      <4> QED BY FullWindow DEF Block
    <3>2. pcb[p] \in Block
      OBVIOUS
    <3> HIDE DEF IInv
    <3> QED BY <3>1, <3>2
  <2>3. pcb' = [pcb EXCEPT ![p] = [pcb[p] EXCEPT !.st = "est", !.wnd = Window]]
    BY <1>1
  <2>4. pcb' \in [Pcbs -> Block]
    BY <2>2, <2>3
  <2> QED BY <1>1, <2>1, <2>4, NewTypes
<1>5. (Rings /\ Queues /\ Owned)'
  <2>1. \A r \in Slots :
           /\ socks'[r].q = socks[r].q /\ socks'[r].count = socks[r].count
           /\ socks'[r].head = socks[r].head /\ socks'[r].tail = socks[r].tail
           /\ socks'[r].state = IF r = s THEN "connected" ELSE socks[r].state
    BY <1>1, TypeRanges DEF IInv, Sock
  <2> QED BY <1>1, <1>3, <2>1, QueuesStay DEF Taken
<1>6. (PcbAgrees /\ Blocks /\ Quiet /\ WindowExact)'
  <2> USE <1>1, <1>2, <1>3, Tied, TypeRanges DEF IInv
  <2>1. PcbAgrees'
    <3>1. \A b \in Pcbs : BlockAgrees(b)'
      BY Agree, SMTT(20) DEF BlockAgrees, Taken, Sock, Block
    <3>2. ASSUME NEW r \in Slots PROVE SlotAgrees(r)'
      <4>1. CASE r = s
        BY <4>1, Agree, SMTT(20) DEF SlotAgrees, Taken, Sock, Block, Quiet
      <4>2. CASE r # s
        BY <4>2, Agree, SMTT(20) DEF SlotAgrees, Taken, Sock, Block
      <4> QED BY <4>1, <4>2
    <3> QED BY <3>1, <3>2, Agree
  <2>2. Blocks'
    BY DEF Blocks, Block
  <2>3. Quiet'
    BY DEF Quiet, Taken, Sock, Block
  <2>4. WindowExact'
    BY DEF WindowExact, Sock, Block, Quiet
  <2> QED BY <2>1, <2>2, <2>3, <2>4
<1>7. Callers'
  BY <1>1, TypeRanges, CallersStay DEF IInv, Sock
<1> QED BY <1>4, <1>5, <1>6, <1>7 DEF IInv

LEMMA ReceiveKeeps ==
  ASSUME IInv, NEW p \in Pcbs, NEW end \in BOOLEAN, Receive(p, end)
  PROVE  IInv'
<1> DEFINE s == pcb[p].arg
<1>1. /\ pcb[p].st \in {"est", "closing"} /\ "recv" \in pcb[p].on /\ ~ pcb[p].fin
      /\ end \/ pcb[p].wnd > 0
      /\ UNCHANGED <<thr, held>>
  BY DEF Receive
<1>2. /\ pcb' = [pcb EXCEPT ![p].fin = end, ![p].wnd = IF end THEN @ ELSE @ - 1]
      /\ socks' = [socks EXCEPT ![s] = OnRecv(s, end)]
  BY DEF Receive
<1>3. pcb[p].st = "est"
  BY <1>1 DEF IInv, Blocks
<1>4. s \in Slots /\ socks[s].pcb = p /\ Taken(s) /\ pcb[p].arg = s
  BY <1>3, Tied
<1>5. socks[s].state = "connected" /\ socks[s].type = "stream"
  BY <1>3, <1>4, TypeRanges DEF IInv, PcbAgrees, Taken, Sock, SockStates, Quiet
<1>6. /\ pcb[p] \in Block /\ socks[s] \in Sock
      /\ pcb[p].wnd \in 0 .. Window /\ socks[s].rx \in 0 .. Window
      /\ pcb[p].wnd + socks[s].rx = Window
  BY <1>3, <1>4, TypeRanges DEF IInv, WindowExact, Sock, Block
<1> HIDE DEF s
<1>7. PICK w \in 0 .. Window, n \in 0 .. Window :
        /\ pcb' = [pcb EXCEPT ![p] = [pcb[p] EXCEPT !.fin = end, !.wnd = w]]
        /\ socks' = [socks EXCEPT ![s] = [socks[s] EXCEPT !.eof = end, !.rx = n]]
        /\ w + n = Window
  <2>1. CASE end
    <3>1. pcb' = [pcb EXCEPT ![p] = [pcb[p] EXCEPT !.fin = end, !.wnd = pcb[p].wnd]]
      BY <1>2, <1>6, <2>1
    <3>2. socks' = [socks EXCEPT ![s] = [socks[s] EXCEPT !.eof = end, !.rx = socks[s].rx]]
      BY <1>2, <1>6, <2>1 DEF OnRecv, Sock
    <3> QED BY <1>6, <3>1, <3>2
  <2>2. CASE ~ end
    <3>1. pcb' = [pcb EXCEPT ![p] = [pcb[p] EXCEPT !.fin = end, !.wnd = pcb[p].wnd - 1]]
      BY <1>2, <1>6, <2>2
    <3>2. socks[s].eof = end
      BY <1>1, <1>4, <1>5, <2>2, TypeRanges DEF IInv, PcbAgrees, Sock, Block, Taken
    <3>3. socks' = [socks EXCEPT ![s] = [socks[s] EXCEPT !.eof = end, !.rx = socks[s].rx + 1]]
      BY <1>2, <1>6, <2>2, <3>2 DEF OnRecv, Sock
    <3>4. /\ pcb[p].wnd - 1 \in 0 .. Window /\ socks[s].rx + 1 \in 0 .. Window
          /\ (pcb[p].wnd - 1) + (socks[s].rx + 1) = Window
      BY <1>1, <1>6, <2>2
    <3> QED BY <3>1, <3>3, <3>4
  <2> QED BY <2>1, <2>2
<1>8. TypeOK'
  <2>1. socks' \in [Slots -> Sock]
    BY <1>6, <1>7, TypeRanges DEF IInv, Sock
  <2>2. [pcb[p] EXCEPT !.fin = end, !.wnd = w] \in Block
    BY <1>6 DEF Block
  <2>3. pcb' \in [Pcbs -> Block]
    BY <2>2, <1>7, TypeRanges DEF IInv
  <2> QED BY <1>1, <2>1, <2>3, NewTypes, TypeRanges DEF IInv
<1>9. (Rings /\ Queues /\ Owned)'
  <2>1. \A r \in Slots :
           /\ socks'[r].q = socks[r].q /\ socks'[r].count = socks[r].count
           /\ socks'[r].head = socks[r].head /\ socks'[r].tail = socks[r].tail
           /\ socks'[r].state = socks[r].state
    BY <1>7, TypeRanges DEF IInv, Sock
  <2> QED BY <1>1, <2>1, QueuesStay DEF Taken
<1>10. (PcbAgrees /\ Blocks /\ Quiet /\ WindowExact)'
  <2> USE <1>1, <1>3, <1>4, <1>5, <1>7, Tied, TypeRanges DEF IInv
  <2>1. PcbAgrees'
    BY SMTT(20) DEF PcbAgrees, Taken, Sock, Block
  <2>2. Blocks'
    BY DEF Blocks, Block
  <2>3. Quiet'
    BY DEF Quiet, Taken, Sock, Block
  <2>4. WindowExact'
    BY DEF WindowExact, Sock, Block, PcbAgrees
  <2> QED BY <2>1, <2>2, <2>3, <2>4
<1>11. Callers'
  BY <1>1, <1>7, TypeRanges, CallersStay DEF IInv, Sock
<1> QED BY <1>8, <1>9, <1>10, <1>11 DEF IInv

LEMMA ResetKeeps ==
  ASSUME IInv, NEW p \in Pcbs, Reset(p)
  PROVE  IInv'
<1> DEFINE s == pcb[p].arg
<1>1. /\ pcb[p].st \in {"synsent", "est", "closing"}
      /\ pcb' = [pcb EXCEPT ![p] = Unused]
      /\ UNCHANGED <<thr, held>>
  BY DEF Reset
<1>2. Unused \in Block /\ pcb[p] \in Block
  BY FullWindow, TypeRanges DEF IInv, Block, Unused
<1>3. CASE pcb[p].st = "closing"
  <2>1. UNCHANGED socks /\ pcb[p].arg = NoSlot
    BY <1>3 DEF Reset, IInv, Blocks
  <2>2. TypeOK'
    BY <1>1, <1>2, <2>1, NewTypes, TypeRanges DEF IInv
  <2>3. (Rings /\ Queues /\ Owned)'
    BY <1>1, <2>1, QueuesStay DEF Taken
  <2>4. (PcbAgrees /\ Blocks /\ Quiet /\ WindowExact)'
    <3> USE <1>1, <1>3, <2>1, Tied, TypeRanges DEF IInv
    <3>1. PcbAgrees'
      <4>1. \A b \in Pcbs : BlockAgrees(b)'
        BY Agree DEF BlockAgrees, Taken, Sock, Block, Unused
      <4>2. ASSUME NEW r \in Slots PROVE SlotAgrees(r)'
        <5>1. Taken(r) /\ socks[r].pcb # NoPcb => pcb'[socks[r].pcb] = pcb[socks[r].pcb]
          BY DEF NoSlot, Slots
        <5> QED BY <5>1, Agree DEF SlotAgrees, Taken
      <4> QED BY <4>1, <4>2, Agree
    <3>2. Blocks'
      BY DEF Blocks, Block, Unused
    <3>3. Quiet'
      BY DEF Quiet, Taken, Sock, Block, Unused
    <3>4. WindowExact'
      BY DEF WindowExact, Sock, Block, Unused
    <3> QED BY <3>1, <3>2, <3>3, <3>4
  <2>5. Callers'
    BY <1>1, <2>1, CallersStay
  <2> QED BY <2>2, <2>3, <2>4, <2>5 DEF IInv
<1>4. CASE pcb[p].st # "closing"
  <2>1. s \in Slots /\ socks[s].pcb = p /\ Taken(s) /\ pcb[p].arg = s
    BY <1>1, <1>4, Tied
  <2>2. socks[s].state \in {"connecting", "connected"} /\ socks[s].type = "stream"
    BY <1>1, <1>4, <2>1, TypeRanges DEF IInv, PcbAgrees, Taken, Sock, SockStates, Quiet
  <2>3. "err" \in pcb[p].on
    BY <1>1, <1>4 DEF IInv, Blocks
  <2>4. socks' = [socks EXCEPT ![s] = OnErr(s)]
    BY <2>3 DEF Reset
  <2>5. OnErr(s) = [socks[s] EXCEPT !.err = TRUE, !.pcb = NoPcb, !.state = "error"]
    BY DEF OnErr
  <2> HIDE DEF s
  <2>6. TypeOK'
    <3> USE TypeRanges DEF IInv
    <3>1. OnErr(s) \in Sock
      <4>1. socks[s] \in Sock
        BY <2>1
      <4>2. ASSUME NEW k \in Sock
            PROVE  [k EXCEPT !.err = TRUE, !.pcb = NoPcb, !.state = "error"] \in Sock
        BY DEF Sock, SockStates
      <4> QED BY <2>5, <4>1, <4>2
    <3>2. socks' \in [Slots -> Sock]
      BY <2>1, <2>4, <3>1
    <3> QED BY <1>1, <1>2, <3>2, NewTypes
  <2>7. (Rings /\ Queues /\ Owned)'
    <3>1. \A r \in Slots :
             /\ socks'[r].q = socks[r].q /\ socks'[r].count = socks[r].count
             /\ socks'[r].head = socks[r].head /\ socks'[r].tail = socks[r].tail
             /\ socks'[r].state = IF r = s THEN "error" ELSE socks[r].state
      BY <2>4, <2>5, TypeRanges DEF IInv, Sock
    <3> QED BY <1>1, <2>2, <3>1, QueuesStay DEF Taken
  <2>8. (PcbAgrees /\ Blocks /\ Quiet /\ WindowExact)'
    <3> USE <1>1, <2>1, <2>2, <2>4, <2>5, Tied, TypeRanges DEF IInv
    <3>1. PcbAgrees'
      <4>1. \A b \in Pcbs : BlockAgrees(b)'
        BY Agree DEF BlockAgrees, Taken, Sock, Block, Unused
      <4>2. ASSUME NEW r \in Slots PROVE SlotAgrees(r)'
        <5>1. r # s /\ Taken(r) /\ socks[r].pcb # NoPcb => pcb'[socks[r].pcb] = pcb[socks[r].pcb]
          OBVIOUS
        <5>2. r # s => socks'[r] = socks[r]
          OBVIOUS
        <5>3. socks'[s].pcb = NoPcb /\ socks'[s].state = "error"
          BY DEF Sock
        <5> QED BY <5>1, <5>2, <5>3, Agree DEF SlotAgrees, Taken
      <4> QED BY <4>1, <4>2, Agree
    <3>2. Blocks'
      BY DEF Blocks, Block, Unused
    <3>3. Quiet'
      BY DEF Quiet, Taken, Sock, Block, Unused
    <3>4. WindowExact'
      BY DEF WindowExact, Sock, Block, Unused
    <3> QED BY <3>1, <3>2, <3>3, <3>4
  <2>9. Callers'
    BY <1>1, <2>4, <2>5, TypeRanges, CallersStay DEF IInv, Sock
  <2> QED BY <2>6, <2>7, <2>8, <2>9 DEF IInv
<1> QED BY <1>3, <1>4

LEMMA DatagramKeeps ==
  ASSUME IInv, NEW p \in Pcbs, Datagram(p)
  PROVE  IInv'
<1> DEFINE s == pcb[p].arg
<1>1. /\ pcb[p].st = "udp" /\ socks[s].udp < UdpRxqMax
      /\ socks' = [socks EXCEPT ![s].udp = @ + 1]
      /\ UNCHANGED <<pcb, thr, held>>
  BY DEF Datagram
<1>2. s \in Slots
  BY <1>1, Tied
<1> HIDE DEF s
<1>3. socks[s].udp \in Nat /\ socks[s].udp + 1 \in 0 .. UdpRxqMax
  BY <1>1, <1>2, WindowAssumption, TypeRanges DEF IInv, Sock
<1>4. TypeOK'
  <2> USE TypeRanges DEF IInv
  <2>1. socks' \in [Slots -> Sock]
    BY <1>1, <1>2, <1>3 DEF Sock
  <2> QED BY <1>1, <2>1, NewTypes
<1>5. (Rings /\ Queues /\ Owned)'
  BY <1>1, TypeRanges, QueuesStay DEF IInv, Taken, Sock
<1>6. (PcbAgrees /\ Blocks /\ Quiet /\ WindowExact)'
  BY <1>1, TypeRanges, LinksStay DEF IInv, Sock
<1>7. Callers'
  BY <1>1, <1>3, TypeRanges, CallersStay DEF IInv, Sock
<1> QED BY <1>4, <1>5, <1>6, <1>7 DEF IInv

LEMMA AckedKeeps ==
  ASSUME IInv, NEW p \in Pcbs, Acked(p)
  PROVE  IInv'
<1>1. PICK n \in 0 .. pcb[p].sent : pcb' = [pcb EXCEPT ![p].buf = TRUE, ![p].sent = n]
  BY DEF Acked
<1>2. UNCHANGED <<socks, thr, held>> /\ TypeOK'
  <2> USE TypeRanges DEF IInv
  <2>1. [pcb[p] EXCEPT !.buf = TRUE, !.sent = n] \in Block
    <3>1. pcb[p] \in Block /\ n \in 0 .. SndQueueLen
      BY SendAssumption DEF Block
    <3> HIDE DEF IInv
    <3> QED BY <3>1 DEF Block
  <2>2. pcb' = [pcb EXCEPT ![p] = [pcb[p] EXCEPT !.buf = TRUE, !.sent = n]]
    BY <1>1
  <2>3. pcb' \in [Pcbs -> Block]
    BY <2>1, <2>2
  <2> QED BY <2>3, NewTypes DEF Acked
<1>3. (Rings /\ Queues /\ Owned)'
  BY <1>2, QueuesStay DEF Taken
<1>4. (PcbAgrees /\ Blocks /\ Quiet /\ WindowExact)'
  BY <1>1, <1>2, TypeRanges, LinksStay DEF IInv, Block
<1>5. Callers'
  BY <1>2, CallersStay
<1> QED BY <1>2, <1>3, <1>4, <1>5 DEF IInv

LEMMA FinishedKeeps ==
  ASSUME IInv, NEW p \in Pcbs, Finished(p)
  PROVE  IInv'
<1>1. pcb[p].st = "closing" /\ pcb[p].on = {} /\ Reset(p)
  BY DEF Finished, Reset, IInv, Blocks
<1> QED BY <1>1, ResetKeeps

-----------------------------------------------------------------------------
(* What a call does *)

\* A thread moves on and the sockets stay as they are.
LEMMA MoveKeeps ==
  ASSUME IInv, NEW t \in Threads, OthersRest(t), UNCHANGED <<socks, pcb, held>>,
         NEW c \in Caller, thr' = [thr EXCEPT ![t] = c],
         c.pc # "idle" =>
           /\ held[c.fd] = 1
           /\ c.pc = "act" /\ c.op = "accept" => socks[c.fd].count > 0
           /\ c.pc = "act" /\ c.op = "recv" /\ socks[c.fd].type = "dgram" =>
                socks[c.fd].udp > 0
  PROVE  IInv'
<1> USE TypeRanges DEF IInv
<1>1. TypeOK'
  BY NewTypes
<1>2. (Rings /\ Queues /\ Owned)'
  BY QueuesStay DEF Taken
<1>3. (PcbAgrees /\ Blocks /\ Quiet /\ WindowExact)'
  BY LinksStay
<1>4. Callers'
  BY OtherCallersStay
<1> QED BY <1>1, <1>2, <1>3, <1>4

LEMMA Returns ==
  ASSUME IInv, NEW t \in Threads, OthersRest(t), UNCHANGED <<socks, pcb, held>>, Return(t)
  PROVE  IInv'
<1>1. Idle \in Caller /\ Idle.pc = "idle"
  BY DEF Idle, Caller, Slots
<1> QED BY <1>1, MoveKeeps DEF Return

\* Only a call that takes something needs to find it.
LEMMA Goes ==
  ASSUME IInv, NEW t \in Threads, OthersRest(t), UNCHANGED <<socks, pcb, held>>,
         NEW where \in {"top", "net", "after", "sleep", "act"}, Goto(t, where),
         thr[t].pc # "idle",
         where = "act" => /\ thr[t].op \in {"accept", "connect", "recv"}
                          /\ Ready(thr[t].op, socks[thr[t].fd])
  PROVE  IInv'
<1> DEFINE c == [thr[t] EXCEPT !.pc = where]
<1>1. thr[t] \in Caller
  BY TypeRanges DEF IInv
<1>2. c \in Caller /\ c.pc = where /\ c.op = thr[t].op /\ c.fd = thr[t].fd
  BY <1>1 DEF Caller
<1>3. thr' = [thr EXCEPT ![t] = c]
  BY DEF Goto
<1>4. held[c.fd] = 1
  BY <1>2 DEF IInv, Callers
<1>5. /\ socks[c.fd].count \in 0 .. SockMax
      /\ socks[c.fd].type = "dgram" => socks[c.fd].udp \in 0 .. UdpRxqMax
  BY <1>1, <1>2, TypeRanges DEF IInv, Sock, Caller
<1>6. where = "act" /\ c.op = "accept" => socks[c.fd].count > 0
  BY <1>2, <1>5 DEF Ready
<1>7. where = "act" /\ c.op = "recv" /\ socks[c.fd].type = "dgram" => socks[c.fd].udp > 0
  BY <1>2 DEF Ready
<1> HIDE DEF c
<1> QED BY <1>2, <1>3, <1>4, <1>6, <1>7, MoveKeeps

LEMMA TopKeeps ==
  ASSUME IInv, NEW t \in Threads, OthersRest(t), Top(t)
  PROVE  IInv'
<1>1. thr[t].pc = "top" /\ UNCHANGED <<socks, pcb, held>>
  BY DEF Top
<1>2. \/ Ready(thr[t].op, socks[thr[t].fd]) /\ Goto(t, "act")
      \/ Return(t)
      \/ Goto(t, "net")
  BY DEF Top
<1>3. Ready(thr[t].op, socks[thr[t].fd]) => thr[t].op \in {"accept", "connect", "recv"}
  BY DEF Ready
<1> QED BY <1>1, <1>2, <1>3, Returns, Goes

LEMMA AfterKeeps ==
  ASSUME IInv, NEW t \in Threads, OthersRest(t), After(t)
  PROVE  IInv'
<1>1. thr[t].pc = "after" /\ UNCHANGED <<socks, pcb, held>>
  BY DEF After
<1>2. \/ /\ thr[t].op \in {"accept", "connect"} /\ Ready(thr[t].op, socks[thr[t].fd])
         /\ Goto(t, "act")
      \/ Goto(t, "top") \/ Return(t) \/ Goto(t, "sleep")
      \/ thr[t].op = "send" /\ thr' = [thr EXCEPT ![t].pc = "top", ![t].polled = TRUE]
  BY DEF After, Over
<1>3. ASSUME thr[t].op = "send", thr' = [thr EXCEPT ![t].pc = "top", ![t].polled = TRUE]
      PROVE  IInv'
  <2> DEFINE c == [thr[t] EXCEPT !.pc = "top", !.polled = TRUE]
  <2>1. thr[t] \in Caller /\ held[thr[t].fd] = 1
    BY <1>1, TypeRanges DEF IInv, Callers
  <2>2. c \in Caller /\ c.pc = "top" /\ c.fd = thr[t].fd
    BY <2>1 DEF Caller
  <2>3. thr' = [thr EXCEPT ![t] = c]
    BY <1>3, <2>1, TypeRanges DEF IInv
  <2> HIDE DEF c
  <2> QED BY <1>1, <2>1, <2>2, <2>3, MoveKeeps
<1> QED BY <1>1, <1>2, <1>3, Returns, Goes

LEMMA SleepKeeps ==
  ASSUME IInv, NEW t \in Threads, OthersRest(t), Sleep(t)
  PROVE  IInv'
<1>1. thr[t].pc = "sleep" /\ UNCHANGED <<socks, pcb, held>>
  BY DEF Sleep
<1>2. Return(t) \/ Goto(t, "net") \/ Goto(t, "top")
  BY DEF Sleep
<1> QED BY <1>1, <1>2, Returns, Goes

LEMMA NetPollReturnsKeeps ==
  ASSUME IInv, NEW t \in Threads, OthersRest(t), NetPollReturns(t)
  PROVE  IInv'
BY Goes DEF NetPollReturns

\* send() only fills a send buffer.
LEMMA SendTopKeeps ==
  ASSUME IInv, NEW t \in Threads, OthersRest(t), SendTop(t)
  PROVE  IInv'
<1> DEFINE s == socks[thr[t].fd]
<1>1. thr[t].pc = "top" /\ UNCHANGED <<socks, held>>
  BY DEF SendTop
<1>2. CASE UNCHANGED pcb
  <2>1. Return(t) \/ Goto(t, "net")
    BY DEF SendTop
  <2> QED BY <1>1, <1>2, <2>1, Returns, Goes
<1>3. ASSUME NEW n \in 1 .. SndQueueLen, NEW buf \in BOOLEAN,
             s.pcb # NoPcb, TakesAll(s.pcb, n),
             pcb' = [pcb EXCEPT ![s.pcb].buf = buf, ![s.pcb].sent = @ + n], Return(t)
      PROVE  IInv'
  <2>1. /\ s.pcb \in Pcbs
        /\ thr' = [thr EXCEPT ![t] = Idle] /\ Idle \in Caller /\ Idle.pc = "idle"
    BY <1>3, TypeRanges DEF IInv, Sock, Caller, Return, Idle, Slots
  <2> DEFINE b == [pcb[s.pcb] EXCEPT !.buf = buf, !.sent = @ + n]
  <2>2. TypeOK'
    <3> USE TypeRanges DEF IInv
    <3>1. pcb[s.pcb] \in Block
      BY <2>1
    <3>2. pcb[s.pcb].sent + n \in 0 .. SndQueueLen
      BY <1>3, <3>1, SendAssumption DEF Block, TakesAll
    <3>3. b \in Block
      BY <3>1, <3>2 DEF Block
    <3>4. pcb' = [pcb EXCEPT ![s.pcb] = b]
      BY <1>3
    <3> HIDE DEF b, s
    <3>5. pcb' \in [Pcbs -> Block]
      BY <2>1, <3>3, <3>4
    <3>6. thr' \in [Threads -> Caller]
      BY <2>1
    <3> QED BY <1>1, <3>5, <3>6, NewTypes
  <2> HIDE DEF b, s
  <2>3. (Rings /\ Queues /\ Owned)'
    BY <1>1, QueuesStay DEF Taken
  <2>4. (PcbAgrees /\ Blocks /\ Quiet /\ WindowExact)'
    BY <1>1, <1>3, TypeRanges, LinksStay DEF IInv, Block
  <2>5. Callers'
    BY <1>1, <2>1, TypeRanges, OtherCallersStay DEF IInv
  <2> QED BY <2>2, <2>3, <2>4, <2>5 DEF IInv
<1> QED BY <1>2, <1>3 DEF SendTop, Tries

LEMMA ConnectEndsKeeps ==
  ASSUME IInv, NEW t \in Threads, OthersRest(t), ConnectEnds(t)
  PROVE  IInv'
<1> DEFINE f == thr[t].fd
<1>1. /\ UNCHANGED <<pcb, held>>
      /\ thr' = [thr EXCEPT ![t] = Idle] /\ Idle \in Caller /\ Idle.pc = "idle"
      /\ f \in Slots
  BY TypeRanges DEF IInv, Caller, ConnectEnds, Return, Idle, Slots
<1>2. PICK e \in BOOLEAN : socks' = [socks EXCEPT ![f].err = e]
  BY <1>1, TypeRanges DEF IInv, ConnectEnds, Sock
<1> HIDE DEF f
<1> USE TypeRanges DEF IInv
<1>3. TypeOK'
  <2>1. [socks[f] EXCEPT !.err = e] \in Sock
    <3>1. socks[f] \in Sock
      BY <1>1
    <3> HIDE DEF IInv
    <3> QED BY <3>1 DEF Sock
  <2>2. socks' = [socks EXCEPT ![f] = [socks[f] EXCEPT !.err = e]]
    BY <1>2
  <2>3. socks' \in [Slots -> Sock]
    BY <1>1, <2>1, <2>2
  <2>4. thr' \in [Threads -> Caller]
    BY <1>1
  <2> QED BY <1>1, <2>3, <2>4, NewTypes
<1>4. (Rings /\ Queues /\ Owned)'
  BY <1>1, <1>2, QueuesStay DEF Taken, Sock
<1>5. (PcbAgrees /\ Blocks /\ Quiet /\ WindowExact)'
  BY <1>1, <1>2, LinksStay DEF Sock
<1>6. Callers'
  BY <1>1, <1>2, OtherCallersStay DEF Sock
<1> QED BY <1>3, <1>4, <1>5, <1>6

\* recv(): the datagram is there, since nobody else reads this socket.
LEMMA RecvDatagramKeeps ==
  ASSUME IInv, NEW t \in Threads, OthersRest(t), Recv(t), socks[thr[t].fd].type = "dgram"
  PROVE  IInv'
<1> DEFINE f == thr[t].fd
<1>1. /\ UNCHANGED <<pcb, held>>
      /\ thr[t].pc = "act" /\ thr[t].op = "recv"
      /\ socks' = [socks EXCEPT ![f].udp = @ - 1]
      /\ thr' = [thr EXCEPT ![t] = Idle] /\ Idle \in Caller /\ Idle.pc = "idle"
      /\ f \in Slots
  BY TypeRanges DEF IInv, Caller, Recv, Return, Idle, Slots
<1>2. socks[f].udp - 1 \in 0 .. UdpRxqMax
  BY <1>1, WindowAssumption, TypeRanges DEF IInv, Callers, Sock
<1> HIDE DEF f
<1> USE TypeRanges DEF IInv
<1>3. TypeOK'
  <2>1. socks' \in [Slots -> Sock]
    BY <1>1, <1>2 DEF Sock
  <2>2. thr' \in [Threads -> Caller]
    BY <1>1
  <2> QED BY <1>1, <2>1, <2>2, NewTypes
<1>4. (Rings /\ Queues /\ Owned)'
  BY <1>1, QueuesStay DEF Taken, Sock
<1>5. (PcbAgrees /\ Blocks /\ Quiet /\ WindowExact)'
  BY <1>1, LinksStay DEF Sock
<1>6. Callers'
  <2> QED BY <1>1, OtherCallersStay DEF Sock, f
<1> QED BY <1>3, <1>4, <1>5, <1>6

\* What is read opens the window by as much.
LEMMA Balanced ==
  ASSUME NEW a \in 0 .. Window, NEW b \in 0 .. Window, NEW m \in 0 .. Window, a + b = Window
  PROVE  (a + m) + (b - m) = Window
OBVIOUS

\* What one connection offers and holds changes, and the others' does not.
LEMMA WindowMoves ==
  ASSUME WindowExact, NEW p \in Pcbs, pcb'[p].wnd + socks'[pcb'[p].arg].rx = Window,
         \A b \in Pcbs : b # p =>
           /\ pcb'[b].st = pcb[b].st /\ pcb'[b].arg = pcb[b].arg /\ pcb'[b].wnd = pcb[b].wnd
           /\ pcb[b].st = "est" => socks'[pcb[b].arg].rx = socks[pcb[b].arg].rx
  PROVE  WindowExact'
BY DEF WindowExact

\* recv() on a stream: what is read and the window move by the same amount, and
\* without a connection nothing is read or there is no window left to open.
LEMMA RecvStreamKeeps ==
  ASSUME IInv, NEW t \in Threads, OthersRest(t), Recv(t), socks[thr[t].fd].type # "dgram"
  PROVE  IInv'
<1> DEFINE f == thr[t].fd
           p == socks[f].pcb
<1>1. /\ UNCHANGED held
      /\ thr[t].pc = "act" /\ thr[t].op = "recv"
      /\ thr' = [thr EXCEPT ![t] = Idle] /\ Idle \in Caller /\ Idle.pc = "idle"
      /\ f \in Slots
  BY TypeRanges DEF IInv, Caller, Recv, Return, Idle, Slots
<1>2. PICK n \in (IF socks[f].rx = 0 THEN {0} ELSE 1 .. socks[f].rx) :
        /\ socks' = [socks EXCEPT ![f].rx = @ - n]
        /\ pcb' = IF p = NoPcb THEN pcb ELSE Reopened(p, n)
  BY DEF Recv
<1>3. socks[f].rx \in 0 .. Window /\ n \in 0 .. Window /\ socks[f].rx - n \in 0 .. Window
  BY <1>1, <1>2, WindowAssumption, TypeRanges DEF IInv, Sock
<1>4. held[f] = 1 /\ Taken(f)
  BY <1>1, Tied DEF IInv, Callers
<1>5. p # NoPcb => p \in Pcbs /\ pcb[p].arg = f
  BY <1>1, <1>4, Tied
<1>6. p # NoPcb /\ n # 0 =>
        socks[f].state = "connected" /\ pcb[p].st = "est" /\ pcb[p].wnd + socks[f].rx = Window
  <2>1. p # NoPcb /\ n # 0 => socks[f].rx # 0
    BY <1>2
  <2>2. p # NoPcb /\ n # 0 => socks[f].state = "connected"
    BY <1>1, <1>4, <2>1, TypeRanges DEF IInv, Quiet, Sock, SockStates, Taken
  <2>3. p # NoPcb /\ n # 0 => pcb[p].st = "est"
    BY <1>1, <1>4, <2>2, Agree DEF IInv, SlotAgrees
  <2> QED BY <1>5, <2>2, <2>3 DEF IInv, WindowExact
<1>7. p # NoPcb => pcb[p].wnd \in 0 .. Window /\ pcb[p].wnd + n \in 0 .. Window
  <2>1. p # NoPcb => pcb[p] \in Block
    BY <1>5, TypeRanges DEF IInv
  <2>2. p # NoPcb => pcb[p].wnd \in 0 .. Window
    BY <2>1 DEF Block
  <2> HIDE DEF IInv
  <2> QED BY <1>3, <1>6, <2>2, WindowAssumption
<1>8. socks' = [socks EXCEPT ![f].rx = socks[f].rx - n]
  BY <1>1, <1>2, TypeRanges DEF IInv
<1> DEFINE w == pcb[p].wnd + n
<1>9. IF p = NoPcb THEN pcb' = pcb ELSE pcb' = [pcb EXCEPT ![p].wnd = w]
  BY <1>2, <1>5, TypeRanges DEF IInv, Reopened
<1>10. p # NoPcb /\ n # 0 => (pcb[p].wnd + n) + (socks[f].rx - n) = Window
  <2> DEFINE a == pcb[p].wnd
             b == socks[f].rx
  <2> SUFFICES ASSUME p # NoPcb, n # 0 PROVE (a + n) + (b - n) = Window
    OBVIOUS
  <2>1. n \in 0 .. Window /\ a \in 0 .. Window /\ b \in 0 .. Window /\ a + b = Window
    BY <1>3, <1>6, <1>7
  <2> HIDE DEF a, b
  <2> QED BY <2>1, Balanced
<1> HIDE DEF f, p, w
<1>15. n # 0 /\ p # NoPcb => WindowExact'
  <2> SUFFICES ASSUME n # 0, p # NoPcb PROVE WindowExact'
    OBVIOUS
  <2>1. p \in Pcbs /\ pcb[p].arg = f /\ f \in Slots
    BY <1>1, <1>5
  <2>2. pcb' = [pcb EXCEPT ![p].wnd = w] /\ socks' = [socks EXCEPT ![f].rx = socks[f].rx - n]
    BY <1>8, <1>9
  <2>3. WindowExact /\ socks \in [Slots -> Sock] /\ pcb \in [Pcbs -> Block]
    BY TypeRanges DEF IInv
  <2>4. \A b \in Pcbs : b # p /\ pcb[b].st = "est" => pcb[b].arg \in Slots /\ pcb[b].arg # f
    BY Tied DEF p
  <2> HIDE DEF IInv
  <2>5. pcb'[p].wnd = w /\ pcb'[p].arg = f /\ socks'[f].rx = socks[f].rx - n
    BY <2>1, <2>2, <2>3 DEF Sock, Block
  <2>6. w + (socks[f].rx - n) = Window
    BY <1>10 DEF w
  <2>7. pcb'[p].wnd + socks'[pcb'[p].arg].rx = Window
    BY <2>5, <2>6
  <2>8. \A r \in Slots : r # f => socks'[r].rx = socks[r].rx
    BY <2>2, <2>3 DEF Sock
  <2>9. \A b \in Pcbs : b # p =>
          pcb'[b].st = pcb[b].st /\ pcb'[b].arg = pcb[b].arg /\ pcb'[b].wnd = pcb[b].wnd
    BY <2>1, <2>2, <2>3 DEF Block
  <2>10. \A b \in Pcbs : b # p /\ pcb[b].st = "est" => socks'[pcb[b].arg].rx = socks[pcb[b].arg].rx
    BY <2>4, <2>8
  <2> QED BY <2>1, <2>3, <2>7, <2>9, <2>10, WindowMoves
<1> USE TypeRanges DEF IInv
<1>11. TypeOK'
  <2>1. socks' \in [Slots -> Sock]
    BY <1>1, <1>3, <1>8 DEF Sock
  <2>2. thr' \in [Threads -> Caller]
    BY <1>1
  <2>3. pcb' \in [Pcbs -> Block]
    BY <1>5, <1>7, <1>9 DEF Block, w
  <2> QED BY <1>1, <2>1, <2>2, <2>3, NewTypes
<1>12. (Rings /\ Queues /\ Owned)'
  BY <1>1, <1>8, QueuesStay DEF Taken, Sock
<1>13. (PcbAgrees /\ Blocks /\ Quiet /\ WindowExact)'
  <2>1. CASE n = 0
    <3>1. \A s \in Slots : socks'[s].rx = socks[s].rx
      BY <1>1, <1>3, <1>8, <2>1 DEF Sock
    <3>2. \A b \in Pcbs : pcb'[b].wnd = pcb[b].wnd
      BY <1>5, <1>7, <1>9, <2>1 DEF Block, w
    <3>3. \A b \in Pcbs :
            /\ pcb'[b].st = pcb[b].st /\ pcb'[b].arg = pcb[b].arg
            /\ pcb'[b].on = pcb[b].on /\ pcb'[b].fin = pcb[b].fin
      BY <1>5, <1>9 DEF Block
    <3>4. \A s \in Slots :
            /\ socks'[s].state = socks[s].state /\ socks'[s].type = socks[s].type
            /\ socks'[s].pcb = socks[s].pcb /\ socks'[s].eof = socks[s].eof
      BY <1>1, <1>8 DEF Sock
    <3> QED BY <3>1, <3>2, <3>3, <3>4, LinksStay
  <2>2. CASE n # 0 /\ p = NoPcb
    <3>1. \A b \in Pcbs : pcb[b].st = "est" => pcb[b].arg # f
      BY <2>2, Tied DEF p
    <3>2. socks[f].state = "error"
      BY <1>1, <1>4, <2>2, Agree DEF SlotAgrees, Taken, p
    <3>3. PcbAgrees'
      <4>1. \A b \in Pcbs : BlockAgrees(b)'
        BY <1>1, <1>8, <1>9, <2>2, Agree DEF BlockAgrees, Taken, Sock
      <4>2. \A r \in Slots : SlotAgrees(r)'
        BY <1>1, <1>8, <1>9, <2>2, Agree DEF SlotAgrees, Taken, Sock
      <4> QED BY <4>1, <4>2, Agree
    <3>4. Blocks'
      BY <1>9, <2>2 DEF Blocks
    <3>5. Quiet'
      BY <1>1, <1>8, <1>9, <2>2, <3>2 DEF Quiet, Taken, Sock, p
    <3>6. WindowExact'
      BY <1>1, <1>8, <1>9, <2>2, <3>1, Tied DEF WindowExact, Sock
    <3> QED BY <3>3, <3>4, <3>5, <3>6
  <2>3. CASE n # 0 /\ p # NoPcb
    <3> USE <1>1, <1>5, <1>6, <1>8, <1>9, <2>3
    <3>1. PcbAgrees'
      <4>1. \A b \in Pcbs : BlockAgrees(b)'
        BY Agree DEF BlockAgrees, Taken, Sock, Block
      <4>2. ASSUME NEW r \in Slots PROVE SlotAgrees(r)'
        <5>1. /\ socks'[r].state = socks[r].state /\ socks'[r].type = socks[r].type
              /\ socks'[r].pcb = socks[r].pcb /\ socks'[r].eof = socks[r].eof
          BY DEF Sock
        <5>2. \A b \in Pcbs : /\ pcb'[b].st = pcb[b].st /\ pcb'[b].arg = pcb[b].arg
                              /\ pcb'[b].fin = pcb[b].fin
          BY DEF Block
        <5>3. SlotAgrees(r) /\ socks[r].pcb \in Pcbs \cup {NoPcb}
          BY Agree DEF Sock
        <5> HIDE DEF IInv
        <5> QED BY <5>1, <5>2, <5>3 DEF SlotAgrees
      <4> QED BY <4>1, <4>2, Agree
    <3>2. Blocks'
      BY DEF Blocks, Block
    <3>3. Quiet'
      <4>1. \A b \in Pcbs : pcb'[b].fin = pcb[b].fin
        BY DEF Block
      <4>2. ASSUME NEW r \in Slots
            PROVE  /\ socks'[r].state = socks[r].state /\ socks'[r].type = socks[r].type
                   /\ socks'[r].pcb = socks[r].pcb /\ socks'[r].eof = socks[r].eof
                   /\ socks[r].rx = 0 => socks'[r].rx = 0
                   /\ socks[r].pcb \in Pcbs \cup {NoPcb}
        BY DEF Sock
      <4> QED BY <4>1, <4>2 DEF Quiet, Taken
    <3>4. WindowExact'
      BY <1>15
    <3> QED BY <3>1, <3>2, <3>3, <3>4
  <2> QED BY <2>1, <2>2, <2>3
<1>14. Callers'
  <2>1. \A s \in Slots :
          /\ socks'[s].type = socks[s].type /\ socks'[s].count = socks[s].count
          /\ socks'[s].udp = socks[s].udp
    BY <1>1, <1>8 DEF Sock
  <2> QED BY <1>1, <2>1, OtherCallersStay
<1> QED BY <1>11, <1>12, <1>13, <1>14

\* accept() takes what is at the head of the ring.
LEMMA AcceptKeeps ==
  ASSUME IInv, NEW t \in Threads, OthersRest(t), Accept(t)
  PROVE  IInv'
<1> DEFINE l == thr[t].fd
           h == socks[l].head
           s == socks[l].q[h]
           head == (h + 1) % SockMax
           n == socks[l].count - 1
<1>1. /\ UNCHANGED pcb
      /\ thr[t].pc = "act" /\ thr[t].op = "accept"
      /\ thr' = [thr EXCEPT ![t] = Idle] /\ Idle \in Caller /\ Idle.pc = "idle"
      /\ l \in Slots
      /\ h \in Slots /\ socks[l].count \in 1 .. SockMax /\ s \in Slots
  <2>1. UNCHANGED pcb /\ thr[t].pc = "act" /\ thr[t].op = "accept" /\ thr' = [thr EXCEPT ![t] = Idle]
    BY DEF Accept, Return
  <2>2. Idle \in Caller /\ Idle.pc = "idle"
    BY DEF Idle, Caller, Slots
  <2>3. l \in Slots /\ socks[l].count > 0
    BY <2>1, TypeRanges DEF IInv, Caller, Callers
  <2>4. h \in Slots /\ s \in Slots /\ socks[l].count \in 0 .. SockMax
    BY <2>3, TypeRanges DEF IInv, Sock
  <2> QED BY <2>1, <2>2, <2>3, <2>4
<1>2. /\ socks' = [socks EXCEPT ![l].head = head, ![l].count = n]
      /\ held' = [held EXCEPT ![s] = @ + 1]
  BY <1>1, TypeRanges DEF IInv, Accept
<1>3. /\ head \in Slots /\ h \in QueueIndex(l) /\ n \in 0 .. SockMax
      /\ Ring(head, n) = QueueIndex(l) \ {h}
      /\ (head + n) % SockMax = (h + socks[l].count) % SockMax
  <2>1. QueueIndex(l) = Ring(h, socks[l].count)
    BY <1>1, InRing
  <2>2. n \in 0 .. SockMax
    BY <1>1
  <2> QED BY <1>1, <2>1, <2>2, RingShrinks
<1>4. held[s] = 0 /\ Taken(s)
  <2>1. h \in QueueIndex(l) /\ l \in Slots
    BY <1>1, <1>3
  <2>2. Queues
    BY DEF IInv
  <2> HIDE DEF h, l
  <2> QED BY <2>1, <2>2 DEF Queues, Taken
<1> HIDE DEF l, h, s, head, n
<1> USE TypeRanges DEF IInv
<1>5. held' = [held EXCEPT ![s] = 1]
  BY <1>1, <1>2, <1>4
<1>6. TypeOK'
  <2>1. socks' \in [Slots -> Sock]
    <3>1. ASSUME NEW k \in Sock PROVE [k EXCEPT !.head = head, !.count = n] \in Sock
      BY <1>3 DEF Sock
    <3>2. socks' = [socks EXCEPT ![l] = [socks[l] EXCEPT !.head = head, !.count = n]]
      BY <1>1, <1>2
    <3> QED BY <1>1, <3>1, <3>2
  <2>2. thr' \in [Threads -> Caller]
    BY <1>1
  <2>3. held' \in [Slots -> 0 .. 2]
    BY <1>1, <1>5
  <2> QED BY <1>1, <2>1, <2>2, <2>3, NewTypes
<1>7. \A r \in Slots :
        /\ socks'[r].head = IF r = l THEN head ELSE socks[r].head
        /\ socks'[r].count = IF r = l THEN n ELSE socks[r].count
        /\ socks'[r].q = socks[r].q /\ socks'[r].tail = socks[r].tail
        /\ socks'[r].state = socks[r].state /\ socks'[r].type = socks[r].type
        /\ socks'[r].pcb = socks[r].pcb /\ socks'[r].rx = socks[r].rx
        /\ socks'[r].eof = socks[r].eof /\ socks'[r].udp = socks[r].udp
  BY <1>1, <1>2 DEF Sock
<1>8. \A r \in Slots : QueueIndex(r)' = IF r = l THEN QueueIndex(l) \ {h} ELSE QueueIndex(r)
  <2>1. ASSUME NEW r \in Slots
        PROVE  QueueIndex(r)' = IF r = l THEN QueueIndex(l) \ {h} ELSE QueueIndex(r)
    BY <1>3, <1>7, InRing, NewRing
  <2> QED BY <2>1
<1>9. Rings'
  BY <1>1, <1>3, <1>7 DEF Rings, h, n, Callers
<1>10. Queues'
  <2>1. \A r \in Slots : \A i \in QueueIndex(r) : r # l \/ i # h => socks[r].q[i] # s
    BY <1>1, <1>3 DEF Queues, s
  <2>2. \A r \in Slots : \A i \in QueueIndex(r)' : socks[r].q[i] # s /\ i \in QueueIndex(r)
    BY <1>8, <2>1
  <2> QED BY <1>5, <1>7, <2>2, InRing DEF Queues
<1>11. Owned'
  <2>1. \A r \in Slots : InQueue(r) /\ r # s => InQueue(r)'
    BY <1>1, <1>7, <1>8 DEF InQueue, s
  <2> QED BY <1>1, <1>4, <1>5, <1>7, <2>1 DEF Owned, Taken
<1>12. (PcbAgrees /\ Blocks /\ Quiet /\ WindowExact)'
  BY <1>1, <1>7, LinksStay
<1>13. Callers'
  <2>1. \A r \in Slots : held[r] = 1 => held'[r] = 1
    BY <1>1, <1>5, <1>7
  <2> QED BY <1>1, <2>1, OtherCallersStay
<1> QED BY <1>6, <1>9, <1>10, <1>11, <1>12, <1>13

-----------------------------------------------------------------------------
(* The calls that do not wait, and the start of those that do *)

LEMMA HeldIsOne ==
  ASSUME IInv, NEW t \in Threads, NEW s \in Slots, Calls(t, s)
  PROVE  thr[t].pc = "idle" /\ held[s] = 1 /\ Taken(s)
BY Tied DEF Calls, Held

\* A call that has to wait starts on a socket the program holds.
LEMMA BeginKeeps ==
  ASSUME IInv, NEW t \in Threads, OthersRest(t), NEW s \in Slots, Calls(t, s),
         UNCHANGED <<socks, pcb, held>>,
         NEW op \in {"accept", "connect", "recv", "send", "pollin", "pollout"},
         NEW where \in {"top", "net"}, Begin(t, op, s, where)
  PROVE  IInv'
<1> DEFINE c == [pc |-> where, op |-> op, fd |-> s, polled |-> FALSE]
<1>1. c \in Caller /\ c.pc = where /\ c.fd = s
  BY DEF Caller
<1>2. thr' = [thr EXCEPT ![t] = c]
  BY DEF Begin
<1> HIDE DEF c
<1> QED BY <1>1, <1>2, HeldIsOne, MoveKeeps

LEMMA CallsKeep ==
  ASSUME IInv, NEW t \in Threads, OthersRest(t), NEW s \in Slots,
         CallAccept(t, s) \/ CallRecv(t, s) \/ CallPoll(t, s) \/ CallSend(t, s)
  PROVE  IInv'
BY BeginKeeps DEF CallAccept, CallRecv, CallPoll, CallSend

LEMMA GetErrorKeeps ==
  ASSUME IInv, NEW t \in Threads, NEW s \in Slots, GetError(t, s)
  PROVE  IInv'
<1> USE TypeRanges DEF IInv
<1>1. socks' = [socks EXCEPT ![s].err = FALSE] /\ UNCHANGED <<pcb, thr, held>>
  BY DEF GetError
<1>2. TypeOK'
  <2>1. ASSUME NEW k \in Sock PROVE [k EXCEPT !.err = FALSE] \in Sock
    BY DEF Sock
  <2>2. socks' \in [Slots -> Sock]
    BY <1>1, <2>1
  <2> QED BY <1>1, <2>2, NewTypes
<1>3. (Rings /\ Queues /\ Owned)'
  BY <1>1, QueuesStay DEF Taken, Sock
<1>4. (PcbAgrees /\ Blocks /\ Quiet /\ WindowExact)'
  BY <1>1, LinksStay DEF Sock
<1>5. Callers'
  BY <1>1, CallersStay DEF Sock
<1> QED BY <1>2, <1>3, <1>4, <1>5

\* One socket the program holds changes its state, and its control block with
\* it, from one that nothing has arrived on to another.
LEMMA StateStep ==
  ASSUME IInv, NEW s \in Slots, held[s] = 1, NEW state \in SockStates \ {"free"},
         socks' = [socks EXCEPT ![s].state = state], UNCHANGED held,
         socks[s].state # "listening", socks[s].pcb # NoPcb,
         NEW b \in Block, pcb' = [pcb EXCEPT ![socks[s].pcb] = b],
         socks[s].type # "dgram" => socks[s].rx = 0 /\ ~ socks[s].eof /\ ~ b.fin,
         b.arg = s, b.st \notin {"none", "closing"},
         IF socks[s].type = "dgram"
           THEN b.st = "udp" /\ state \in {"closed", "connected"}
           ELSE \/ b.st = "fresh" /\ state \in {"closed", "error"}
                \/ b.st = "listen" /\ state = "listening"
                \/ b.st = "synsent" /\ state = "connecting" /\ {"recv", "err"} \subseteq b.on,
         thr' \in [Threads -> Caller]
  PROVE  (TypeOK /\ Rings /\ Queues /\ Owned /\ PcbAgrees /\ Blocks /\ Quiet /\ WindowExact)'
<1> USE TypeRanges DEF IInv
<1> DEFINE p == socks[s].pcb
<1>1. Taken(s) /\ p \in Pcbs /\ pcb[p].arg = s
  BY Tied
<1>2. \A r \in Slots : r # s /\ Taken(r) => socks[r].pcb # p
  BY <1>1, Tied
<1>3. \A q \in Pcbs : q # p => pcb[q].arg # s
  BY <1>1, Agree DEF BlockAgrees, NoSlot, Slots
<1>4. \A r \in Slots :
        /\ socks'[r].q = socks[r].q /\ socks'[r].count = socks[r].count
        /\ socks'[r].head = socks[r].head /\ socks'[r].tail = socks[r].tail
        /\ socks'[r].type = socks[r].type /\ socks'[r].pcb = socks[r].pcb
        /\ socks'[r].rx = socks[r].rx /\ socks'[r].eof = socks[r].eof
        /\ socks'[r].state = IF r = s THEN state ELSE socks[r].state
  BY DEF Sock
<1>5. pcb'[p] = b /\ \A q \in Pcbs : q # p => pcb'[q] = pcb[q]
  BY <1>1
<1> HIDE DEF p
<1>6. TypeOK'
  <2>1. socks' \in [Slots -> Sock]
    BY DEF Sock
  <2>2. pcb' \in [Pcbs -> Block]
    BY <1>1 DEF p
  <2> QED BY <2>1, <2>2, NewTypes
<1>7. (Rings /\ Queues /\ Owned)'
  BY <1>1, <1>4, QueuesStay DEF Taken
<1>8. PcbAgrees'
  <2>1. ASSUME NEW q \in Pcbs PROVE BlockAgrees(q)'
    BY <1>1, <1>3, <1>4, <1>5, Agree DEF BlockAgrees, Taken, p, Block
  <2>2. ASSUME NEW r \in Slots PROVE SlotAgrees(r)'
    <3>1. CASE r = s
      BY <1>1, <1>4, <1>5, <3>1, Agree DEF SlotAgrees, Taken, p, Sock
    <3>2. CASE r # s
      <4>1. SlotAgrees(r) /\ socks[r].pcb \in Pcbs \cup {NoPcb}
        BY Agree DEF Sock
      <4>2. Taken(r) => socks[r].pcb # p
        BY <1>2, <3>2
      <4> QED BY <1>4, <1>5, <3>2, <4>1, <4>2 DEF SlotAgrees, Taken
    <3> QED BY <3>1, <3>2
  <2> QED BY <2>1, <2>2, Agree
<1>9. Blocks'
  BY <1>1, <1>5 DEF Blocks, NoSlot, Slots
<1>10. Quiet'
  <2>1. ASSUME NEW r \in Slots, r # s, Taken(r)
        PROVE  socks[r].pcb # NoPcb => pcb'[socks[r].pcb] = pcb[socks[r].pcb]
    BY <1>2, <1>5, <2>1, Tied
  <2> QED BY <1>1, <1>4, <1>5, <2>1 DEF Quiet, Taken, p
<1>11. WindowExact'
  <2>1. \A q \in Pcbs : pcb'[q].st = "est" => q # p /\ pcb'[q] = pcb[q] /\ pcb[q].arg \in Slots
    BY <1>1, <1>5, Tied
  <2> QED BY <1>3, <1>4, <2>1 DEF WindowExact
<1> QED BY <1>6, <1>7, <1>8, <1>9, <1>10, <1>11

\* Nothing has arrived on a stream whose control block is not connected.
LEMMA NothingYet ==
  ASSUME IInv, NEW s \in Slots, Taken(s), socks[s].type = "stream", socks[s].pcb # NoPcb,
         socks[s].state \in {"closed", "error", "connecting", "listening"}
  PROVE  socks[s].rx = 0 /\ ~ socks[s].eof /\ ~ pcb[socks[s].pcb].fin
BY DEF IInv, Quiet, Taken

LEMMA ListenKeeps ==
  ASSUME IInv, NEW t \in Threads, NEW s \in Slots, Listen(t, s)
  PROVE  IInv'
<1> DEFINE b == [Unused EXCEPT !.st = "listen", !.arg = s, !.on = {"accept"}]
<1>1. /\ socks[s].type = "stream" /\ socks[s].pcb # NoPcb
      /\ pcb[socks[s].pcb].st = "fresh"
      /\ pcb' = [pcb EXCEPT ![socks[s].pcb] = b]
      /\ socks' = [socks EXCEPT ![s].state = "listening"]
      /\ UNCHANGED <<thr, held>>
  BY DEF Listen
<1>2. held[s] = 1 /\ Taken(s)
  BY HeldIsOne DEF Listen
<1>3. socks[s].state \in {"closed", "error"}
  BY <1>1, <1>2, Agree, TypeRanges DEF IInv, SlotAgrees, Taken, Sock, SockStates
<1>4. b \in Block /\ b.st = "listen" /\ b.arg = s /\ ~ b.fin
  BY FullWindow DEF Block, Unused
<1> HIDE DEF b
<1>5. "listening" \in SockStates \ {"free"}
  BY DEF SockStates
<1>6. thr' \in [Threads -> Caller]
  BY <1>1, TypeRanges DEF IInv
<1>7. (TypeOK /\ Rings /\ Queues /\ Owned /\ PcbAgrees /\ Blocks /\ Quiet /\ WindowExact)'
  BY <1>1, <1>2, <1>3, <1>4, <1>5, <1>6, NothingYet, StateStep
<1>8. Callers'
  BY <1>1, TypeRanges, CallersStay DEF IInv, Sock
<1> QED BY <1>7, <1>8 DEF IInv

LEMMA UdpConnectKeeps ==
  ASSUME IInv, NEW t \in Threads, NEW s \in Slots, UdpConnect(t, s)
  PROVE  IInv'
<1> DEFINE p == socks[s].pcb
<1>1. /\ socks[s].type = "dgram"
      /\ socks' = [socks EXCEPT ![s].state = "connected"]
      /\ UNCHANGED <<pcb, thr, held>>
  BY DEF UdpConnect
<1>2. held[s] = 1 /\ Taken(s)
  BY HeldIsOne DEF UdpConnect
<1>3. socks[s].state \in {"closed", "connected"}
  BY <1>1, <1>2 DEF IInv, Quiet, Taken
<1>4. p # NoPcb
  BY <1>2, <1>3, Agree DEF IInv, SlotAgrees
<1>5. p \in Pcbs /\ pcb[p] \in Block /\ pcb[p].st = "udp" /\ pcb[p].arg = s
  BY <1>1, <1>2, <1>4, Agree, Tied, TypeRanges DEF IInv, SlotAgrees, Taken
<1>6. pcb' = [pcb EXCEPT ![p] = pcb[p]]
  BY <1>1, <1>5, TypeRanges DEF IInv
<1>7. "connected" \in SockStates \ {"free"}
  BY DEF SockStates
<1>8. thr' \in [Threads -> Caller]
  BY <1>1, TypeRanges DEF IInv
<1>9. (TypeOK /\ Rings /\ Queues /\ Owned /\ PcbAgrees /\ Blocks /\ Quiet /\ WindowExact)'
  BY <1>1, <1>2, <1>3, <1>4, <1>5, <1>6, <1>7, <1>8, StateStep
<1>10. Callers'
  BY <1>1, TypeRanges, CallersStay DEF IInv, Sock
<1> QED BY <1>9, <1>10 DEF IInv

\* tcp_connect() sends the SYN or fails.
LEMMA CallConnectKeeps ==
  ASSUME IInv, NEW t \in Threads, OthersRest(t), NEW s \in Slots, CallConnect(t, s)
  PROVE  IInv'
<1> DEFINE p == socks[s].pcb
           syn == [pcb[p] EXCEPT !.st = "synsent", !.arg = s, !.on = {"recv", "err", "connected"}]
           failed == [pcb[p] EXCEPT !.arg = s, !.on = {"recv", "err"}]
<1>1. held[s] = 1 /\ Taken(s) /\ thr[t].pc = "idle"
  BY HeldIsOne DEF CallConnect
<1>2. socks[s].type = "stream" /\ socks[s].state = "closed" /\ p # NoPcb /\ UNCHANGED held
  BY DEF CallConnect
<1>3. p \in Pcbs /\ pcb[p] \in Block /\ pcb[p].st = "fresh" /\ pcb[p].arg = s
  BY <1>1, <1>2, Agree, Tied, TypeRanges DEF IInv, SlotAgrees, Taken
<1>4. socks[s].rx = 0 /\ ~ socks[s].eof /\ ~ pcb[p].fin
  BY <1>1, <1>2, NothingYet
<1>5. /\ syn \in Block /\ syn.st = "synsent" /\ syn.arg = s /\ syn.fin = pcb[p].fin
      /\ syn.on = {"recv", "err", "connected"}
  BY <1>3 DEF Block
<1>6. failed \in Block /\ failed.st = "fresh" /\ failed.arg = s /\ failed.fin = pcb[p].fin
  BY <1>3 DEF Block
<1>7. \/ /\ socks' = [socks EXCEPT ![s].state = "connecting"]
         /\ pcb' = [pcb EXCEPT ![p] = syn]
         /\ Begin(t, "connect", s, "top")
      \/ /\ socks' = [socks EXCEPT ![s].state = "error"]
         /\ pcb' = [pcb EXCEPT ![p] = failed]
         /\ UNCHANGED thr
  BY <1>3, TypeRanges DEF IInv, CallConnect
<1>8. {"connecting", "error"} \subseteq SockStates \ {"free"}
  BY DEF SockStates
<1> DEFINE c == [pc |-> "top", op |-> "connect", fd |-> s, polled |-> FALSE]
<1>9. c \in Caller /\ c.pc = "top" /\ c.fd = s
  BY DEF Caller
<1>10. thr' = thr \/ thr' = [thr EXCEPT ![t] = c]
  BY <1>7 DEF Begin
<1> HIDE DEF p, syn, failed, c
<1>11. thr' \in [Threads -> Caller]
  BY <1>9, <1>10, TypeRanges DEF IInv
<1>12. (TypeOK /\ Rings /\ Queues /\ Owned /\ PcbAgrees /\ Blocks /\ Quiet /\ WindowExact)'
  <2>1. CASE /\ socks' = [socks EXCEPT ![s].state = "connecting"]
             /\ pcb' = [pcb EXCEPT ![p] = syn]
    <3>1. {"recv", "err"} \subseteq syn.on
      BY <1>5
    <3> QED BY <1>1, <1>2, <1>4, <1>5, <1>8, <1>11, <2>1, <3>1, StateStep DEF p
  <2>2. CASE /\ socks' = [socks EXCEPT ![s].state = "error"]
             /\ pcb' = [pcb EXCEPT ![p] = failed]
    BY <1>1, <1>2, <1>4, <1>6, <1>8, <1>11, <2>2, StateStep DEF p
  <2> QED BY <1>7, <2>1, <2>2
<1>13. Callers'
  <2>1. ASSUME NEW r \in Slots
        PROVE  /\ socks'[r].type = socks[r].type /\ socks'[r].count = socks[r].count
               /\ socks'[r].udp = socks[r].udp
    <3>1. socks \in [Slots -> Sock] /\ socks[r] \in Sock
      BY TypeRanges DEF IInv
    <3>2. \E z \in SockStates : socks' = [socks EXCEPT ![s].state = z]
      BY <1>7, <1>8
    <3> QED BY <3>1, <3>2 DEF Sock
  <2>2. CASE thr' = thr
    BY <1>2, <2>1, <2>2, CallersStay
  <2>3. CASE thr' = [thr EXCEPT ![t] = c]
    BY <1>1, <1>2, <1>9, <2>1, <2>3, TypeRanges, OtherCallersStay DEF IInv
  <2> QED BY <1>10, <2>2, <2>3
<1> QED BY <1>12, <1>13 DEF IInv

-----------------------------------------------------------------------------
(* A free slot is taken *)

\* Nobody has a free slot: it is in no queue, and no call is on it.
LEMMA FreeSlot ==
  ASSUME IInv, NEW s \in Slots, ~ Taken(s)
  PROVE  /\ held[s] = 0 /\ QueueIndex(s) = {}
         /\ \A l \in Slots : \A i \in QueueIndex(l) : socks[l].q[i] # s
         /\ \A p \in Pcbs : pcb[p].arg # s
<1>1. held[s] = 0
  BY DEF IInv, Owned
<1>2. socks[s].count = 0
  BY DEF IInv, Rings, Taken
<1>3. QueueIndex(s) = {}
  BY <1>2 DEF QueueIndex
<1>4. \A l \in Slots : \A i \in QueueIndex(l) : socks[l].q[i] # s
  BY DEF IInv, Queues, Taken
<1>5. \A p \in Pcbs : pcb[p].arg # s
  BY Agree DEF IInv, BlockAgrees, NoSlot, Slots
<1> QED BY <1>1, <1>3, <1>4, <1>5

\* An unused control block is no slot's.
LEMMA FreeBlock ==
  ASSUME IInv, NEW p \in Pcbs, pcb[p].st = "none"
  PROVE  \A s \in Slots : Taken(s) => socks[s].pcb # p
BY Tied

\* A free slot and an unused control block become a socket.
LEMMA FillStep ==
  ASSUME IInv, NEW s \in Slots, ~ Taken(s), NEW p \in Pcbs, pcb[p].st = "none",
         NEW b \in Block, pcb' = [pcb EXCEPT ![p] = b],
         b.arg = s, ~ b.fin,
         socks'[s].pcb = p, socks'[s].rx = 0, ~ socks'[s].eof, socks'[s].eof \in BOOLEAN,
         \/ b.st = "udp" /\ socks'[s].type = "dgram" /\ socks'[s].state = "closed"
         \/ b.st = "fresh" /\ socks'[s].type = "stream" /\ socks'[s].state = "closed"
         \/ /\ b.st = "est" /\ socks'[s].type = "stream" /\ socks'[s].state = "connected"
            /\ b.wnd = Window /\ {"recv", "err"} \subseteq b.on,
         \A r \in Slots : r # s =>
           /\ socks'[r].state = socks[r].state /\ socks'[r].type = socks[r].type
           /\ socks'[r].pcb = socks[r].pcb /\ socks'[r].rx = socks[r].rx
           /\ socks'[r].eof = socks[r].eof
  PROVE  (PcbAgrees /\ Blocks /\ Quiet /\ WindowExact)'
<1> USE TypeRanges DEF IInv
<1>1. pcb'[p] = b /\ \A q \in Pcbs : q # p => pcb'[q] = pcb[q]
  OBVIOUS
<1>2. \A q \in Pcbs : pcb[q].arg # s
  BY FreeSlot
<1>3. \A r \in Slots : Taken(r) => socks[r].pcb # p
  BY FreeBlock
<1>4. \A r \in Slots : socks[r].pcb \in Pcbs \cup {NoPcb}
  BY DEF Sock
<1>5. PcbAgrees'
  <2>1. ASSUME NEW q \in Pcbs PROVE BlockAgrees(q)'
    <3>1. CASE q = p
      BY <1>1, <3>1 DEF BlockAgrees, Taken
    <3>2. CASE q # p
      <4>1. pcb[q].arg # NoSlot => pcb[q].arg \in Slots
        BY DEF Block
      <4> QED BY <1>1, <1>2, <3>2, <4>1, Agree DEF BlockAgrees, Taken
    <3> QED BY <3>1, <3>2
  <2>2. ASSUME NEW r \in Slots PROVE SlotAgrees(r)'
    <3>1. CASE r = s
      <4>1. socks'[s].eof = FALSE /\ b.fin = FALSE
        BY DEF Block
      <4> QED BY <1>1, <3>1, <4>1 DEF SlotAgrees
    <3>2. CASE r # s
      BY <1>1, <1>3, <1>4, <3>2, Agree DEF SlotAgrees, Taken
    <3> QED BY <3>1, <3>2
  <2> QED BY <2>1, <2>2, Agree
<1>6. Blocks'
  BY <1>1 DEF Blocks, NoSlot, Slots
<1>7. Quiet'
  <2>1. ASSUME NEW r \in Slots, r # s, Taken(r)
        PROVE  socks[r].pcb # NoPcb => pcb'[socks[r].pcb] = pcb[socks[r].pcb]
    BY <1>1, <1>3, <1>4, <2>1
  <2> QED BY <1>1, <2>1 DEF Quiet, Taken
<1>8. WindowExact'
  <2>1. \A q \in Pcbs : q # p /\ pcb[q].st = "est" => pcb[q].arg \in Slots /\ pcb[q].arg # s
    BY <1>2, Tied
  <2>2. pcb'[p].st = "est" => pcb'[p].wnd + socks'[pcb'[p].arg].rx = Window
    BY <1>1, WindowAssumption
  <2> QED BY <1>1, <2>1, <2>2 DEF WindowExact
<1> QED BY <1>5, <1>6, <1>7, <1>8

\* socket() takes the first free slot, or clears it and fails.
LEMMA SocketCallKeeps ==
  ASSUME IInv, NEW t \in Threads, SocketCall(t)
  PROVE  IInv'
<1> USE TypeRanges DEF IInv
<1>1. PICK s \in AllocSlot, type \in Types :
       \/ \E p \in Pcbs :
            /\ pcb[p].st = "none"
            /\ pcb' = [pcb EXCEPT ![p] =
                 IF type = "dgram"
                   THEN [Unused EXCEPT !.st = "udp", !.arg = s, !.on = {"recv"}]
                   ELSE [Unused EXCEPT !.st = "fresh", !.arg = s]]
            /\ socks' = [socks EXCEPT ![s] =
                 [Fresh(s, type) EXCEPT !.state = "closed", !.pcb = p]]
            /\ held' = [held EXCEPT ![s] = 1]
       \/ /\ socks' = [socks EXCEPT ![s] = Fresh(s, type)]
          /\ UNCHANGED <<pcb, held>>
  BY DEF SocketCall
<1>2. s \in Slots /\ ~ Taken(s) /\ type \in {"stream", "dgram"} /\ UNCHANGED thr
  BY ProgramAssumption DEF AllocSlot, Taken, SocketCall
<1>3. /\ Zero \in Sock /\ Zero.state = "free" /\ Zero.rx = 0 /\ Zero.eof = FALSE
      /\ Zero.head = 0 /\ Zero.tail = 0 /\ Zero.count = 0
  <2>1. 0 \in Slots /\ 0 \in 0 .. SockMax /\ 0 \in 0 .. Window /\ 0 \in 0 .. UdpRxqMax
    BY SockAssumption, WindowAssumption DEF Slots
  <2> QED BY <2>1 DEF Sock, Zero, SockStates
<1>4. ASSUME NEW k \in Sock, socks' = [socks EXCEPT ![s] = k],
             k.head = 0, k.tail = 0, k.count = 0,
             IF k.state = "free" THEN UNCHANGED held ELSE held' = [held EXCEPT ![s] = 1]
      PROVE  (Rings /\ Queues /\ Owned)' /\ socks' \in [Slots -> Sock] /\ held' \in [Slots -> 0 .. 2]
             /\ Callers'
  <2>1. socks'[s] = k /\ \A r \in Slots : r # s => socks'[r] = socks[r]
    BY <1>2, <1>4
  <2>2. \A r \in Slots : QueueIndex(r)' = QueueIndex(r)
    <3>1. QueueIndex(s)' = {}
      BY <1>4, <2>1 DEF QueueIndex
    <3>2. \A r \in Slots : r # s => QueueIndex(r)' = QueueIndex(r)
      BY <2>1 DEF QueueIndex
    <3> QED BY <1>2, <3>1, <3>2, FreeSlot
  <2>3. /\ held[s] = 0 /\ QueueIndex(s) = {}
        /\ \A l \in Slots : \A i \in QueueIndex(l) : socks[l].q[i] # s
    BY <1>2, FreeSlot
  <2>4. Rings'
    BY <1>2, <1>4, <2>1, Wrap DEF Rings
  <2>5. Queues'
    <3>1. \A l \in Slots : \A i \in QueueIndex(l) :
            l # s /\ socks'[l] = socks[l] /\ socks[l].q[i] \in Slots /\ socks[l].q[i] # s
      BY <2>1, <2>3, InRing
    <3>2. \A r \in Slots : r # s => held'[r] = held[r]
      BY <1>4
    <3> QED BY <2>1, <2>2, <3>1, <3>2 DEF Queues
  <2>6. Owned'
    <3>1. ASSUME NEW r \in Slots, r # s PROVE InQueue(r) => InQueue(r)'
      BY <2>1, <2>2, <2>3, <3>1 DEF InQueue
    <3> QED BY <1>2, <1>4, <2>1, <2>3, <3>1 DEF Owned, Taken
  <2>7. Callers'
    BY <1>2, <1>4, <2>1, <2>3, CallersStay
  <2> QED BY <1>2, <1>4, <2>4, <2>5, <2>6, <2>7
<1>5. /\ Fresh(s, type) \in Sock /\ Fresh(s, type).state = "free"
      /\ Fresh(s, type).head = 0 /\ Fresh(s, type).tail = 0 /\ Fresh(s, type).count = 0
      /\ Fresh(s, type).rx = 0 /\ Fresh(s, type).eof = FALSE /\ Fresh(s, type).type = type
  BY <1>2, <1>3 DEF Fresh, Sock
<1>6. ASSUME NEW p \in Pcbs, pcb[p].st = "none",
             pcb' = [pcb EXCEPT ![p] =
                 IF type = "dgram"
                   THEN [Unused EXCEPT !.st = "udp", !.arg = s, !.on = {"recv"}]
                   ELSE [Unused EXCEPT !.st = "fresh", !.arg = s]],
             socks' = [socks EXCEPT ![s] = [Fresh(s, type) EXCEPT !.state = "closed", !.pcb = p]],
             held' = [held EXCEPT ![s] = 1]
      PROVE  IInv'
  <2> DEFINE k == [Fresh(s, type) EXCEPT !.state = "closed", !.pcb = p]
             b == IF type = "dgram"
                    THEN [Unused EXCEPT !.st = "udp", !.arg = s, !.on = {"recv"}]
                    ELSE [Unused EXCEPT !.st = "fresh", !.arg = s]
  <2>1. /\ k \in Sock /\ k.state = "closed" /\ k.pcb = p /\ k.type = type
        /\ k.head = 0 /\ k.tail = 0 /\ k.count = 0 /\ k.rx = 0 /\ k.eof = FALSE
    BY <1>5 DEF Sock, SockStates
  <2>2. /\ b \in Block /\ b.arg = s /\ ~ b.fin
        /\ b.st = IF type = "dgram" THEN "udp" ELSE "fresh"
    BY <1>2, FullWindow DEF Block, Unused
  <2> HIDE DEF k, b
  <2>3. socks' = [socks EXCEPT ![s] = k] /\ pcb' = [pcb EXCEPT ![p] = b]
    BY <1>6 DEF k, b
  <2>4. (PcbAgrees /\ Blocks /\ Quiet /\ WindowExact)'
    <3>1. socks'[s] = k /\ \A r \in Slots : r # s => socks'[r] = socks[r]
      BY <1>2, <2>3
    <3>2. \/ b.st = "udp" /\ socks'[s].type = "dgram" /\ socks'[s].state = "closed"
          \/ b.st = "fresh" /\ socks'[s].type = "stream" /\ socks'[s].state = "closed"
      BY <1>2, <2>1, <2>2, <3>1
    <3>3. /\ socks'[s].pcb = p /\ socks'[s].rx = 0 /\ ~ socks'[s].eof /\ socks'[s].eof \in BOOLEAN
      BY <2>1, <2>2, <3>1
    <3>4. \A r \in Slots : r # s =>
            /\ socks'[r].state = socks[r].state /\ socks'[r].type = socks[r].type
            /\ socks'[r].pcb = socks[r].pcb /\ socks'[r].rx = socks[r].rx
            /\ socks'[r].eof = socks[r].eof
      BY <3>1
    <3>5. b \in Block /\ b.arg = s /\ ~ b.fin /\ pcb[p].st = "none" /\ pcb' = [pcb EXCEPT ![p] = b]
      BY <1>6, <2>2, <2>3
    <3>6. s \in Slots /\ ~ Taken(s)
      BY <1>2
    <3> HIDE DEF IInv
    <3> QED BY <3>2, <3>3, <3>4, <3>5, <3>6, FillStep
  <2>5. pcb' \in [Pcbs -> Block]
    BY <2>2, <2>3
  <2> QED BY <1>2, <1>4, <1>6, <2>1, <2>3, <2>4, <2>5, NewTypes
<1>7. ASSUME socks' = [socks EXCEPT ![s] = Fresh(s, type)], UNCHANGED <<pcb, held>>
      PROVE  IInv'
  <2>1. (Rings /\ Queues /\ Owned)' /\ socks' \in [Slots -> Sock] /\ held' \in [Slots -> 0 .. 2]
        /\ Callers'
    BY <1>4, <1>5, <1>7
  <2>2. socks'[s].state = "free" /\ \A r \in Slots : r # s => socks'[r] = socks[r]
    BY <1>2, <1>5, <1>7
  <2>3. PcbAgrees'
    <3>1. ASSUME NEW q \in Pcbs PROVE BlockAgrees(q)'
      <4>1. pcb[q].arg # NoSlot => pcb[q].arg \in Slots /\ pcb[q].arg # s
        BY <1>2, FreeSlot DEF Block
      <4> QED BY <1>7, <2>2, <4>1, Agree DEF BlockAgrees, Taken
    <3>2. ASSUME NEW r \in Slots PROVE SlotAgrees(r)'
      BY <1>7, <2>2, Agree DEF SlotAgrees
    <3> QED BY <3>1, <3>2, Agree
  <2>4. Blocks'
    BY <1>7 DEF Blocks
  <2>5. Quiet'
    BY <1>7, <2>2 DEF Quiet, Taken
  <2>6. WindowExact'
    <3>1. \A q \in Pcbs : pcb[q].st = "est" => pcb[q].arg \in Slots /\ pcb[q].arg # s
      BY <1>2, FreeSlot, Tied
    <3> QED BY <1>7, <2>2, <3>1 DEF WindowExact
  <2> QED BY <1>2, <1>7, <2>1, <2>3, <2>4, <2>5, <2>6, NewTypes
<1> QED BY <1>1, <1>6, <1>7

\* on_accept() puts the connection into a free slot and into the ring.
LEMMA IncomingKeeps ==
  ASSUME IInv, NEW b \in Pcbs, NEW p \in Pcbs, Incoming(b, p)
  PROVE  IInv'
<1>1. PICK l \in Slots : l = pcb[b].arg /\ socks[l].state = "listening"
  <2>1. pcb[b].st = "listen"
    BY DEF Incoming
  <2>2. pcb[b].arg \in Slots /\ Taken(pcb[b].arg) /\ socks[pcb[b].arg].pcb = b
    BY <2>1, Tied
  <2>3. socks[pcb[b].arg].state = "listening"
    BY <2>1, <2>2, Agree, TypeRanges DEF IInv, SlotAgrees, Taken, Sock, SockStates
  <2> QED BY <2>2, <2>3
<1>2. /\ socks[l].count < SockMax /\ pcb[p].st = "none" /\ UNCHANGED <<thr, held>>
      /\ \E s \in AllocSlot :
           /\ OnAccept(l, s, p)
           /\ pcb' = [pcb EXCEPT ![p] =
                [Unused EXCEPT !.st = "est", !.arg = s, !.on = {"recv", "err"},
                               !.wnd = Window]]
  BY <1>1 DEF Incoming
<1>3. PICK s \in Slots :
        /\ ~ Taken(s) /\ OnAccept(l, s, p)
        /\ pcb' = [pcb EXCEPT ![p] =
             [Unused EXCEPT !.st = "est", !.arg = s, !.on = {"recv", "err"}, !.wnd = Window]]
  BY <1>2 DEF AllocSlot, Taken
<1> DEFINE new == [Unused EXCEPT !.st = "est", !.arg = s, !.on = {"recv", "err"}, !.wnd = Window]
           k == [Zero EXCEPT !.state = "connected", !.pcb = p]
           tail == socks[l].tail
           next == (tail + 1) % SockMax
           n == socks[l].count + 1
           q == [socks[l].q EXCEPT ![tail] = s]
           m == [socks[l] EXCEPT !.q = q, !.tail = next, !.count = n]
<1>4. l # s /\ Taken(l)
  BY <1>1, <1>3 DEF Taken
<1>5. /\ socks[l] \in Sock /\ tail \in Slots /\ socks[l].head \in Slots
      /\ socks[l].count \in 0 .. SockMax - 1 /\ socks[l].q \in [Slots -> Slots]
      /\ tail = (socks[l].head + socks[l].count) % SockMax
  BY <1>1, <1>2, SockAssumption, TypeRanges DEF IInv, Rings, Sock
<1>6. /\ next \in Slots /\ n \in 0 .. SockMax /\ tail \notin QueueIndex(l)
      /\ Ring(socks[l].head, n) = QueueIndex(l) \cup {tail}
      /\ next = (socks[l].head + n) % SockMax
  <2>1. QueueIndex(l) = Ring(socks[l].head, socks[l].count)
    BY <1>1, InRing
  <2>2. next \in Slots
    <3>1. \A x \in Slots : (x + 1) % SockMax \in Slots
      BY DEF Slots
    <3> QED BY <1>5, <3>1
  <2>3. n \in 0 .. SockMax
    BY <1>5
  <2> QED BY <1>5, <2>1, <2>2, <2>3, RingGrows
<1>7. /\ Zero \in Sock
      /\ Zero.count = 0 /\ Zero.rx = 0 /\ Zero.eof = FALSE /\ Zero.type = "stream"
      /\ Zero.head = 0 /\ Zero.tail = 0
  <2>1. 0 \in Slots /\ 0 \in 0 .. SockMax /\ 0 \in 0 .. Window /\ 0 \in 0 .. UdpRxqMax
    BY SockAssumption, WindowAssumption DEF Slots
  <2> QED BY <2>1 DEF Sock, Zero, SockStates
<1>8. /\ k \in Sock /\ k.state = "connected" /\ k.pcb = p /\ k.type = "stream"
      /\ k.head = 0 /\ k.tail = 0 /\ k.count = 0 /\ k.rx = 0 /\ k.eof = FALSE
  BY <1>7 DEF Sock, SockStates
<1>9. /\ new \in Block /\ new.arg = s /\ ~ new.fin /\ new.st = "est" /\ new.wnd = Window
      /\ new.on = {"recv", "err"}
  BY FullWindow DEF Block, Unused
<1>10. q \in [Slots -> Slots] /\ q[tail] = s /\ \A i \in Slots : i # tail => q[i] = socks[l].q[i]
  BY <1>5
<1> HIDE DEF q, k, new
<1>11. /\ m \in Sock /\ m.q = q /\ m.head = socks[l].head /\ m.tail = next /\ m.count = n
       /\ m.state = socks[l].state /\ m.type = socks[l].type /\ m.pcb = socks[l].pcb
       /\ m.rx = socks[l].rx /\ m.eof = socks[l].eof /\ m.udp = socks[l].udp
  BY <1>5, <1>6, <1>10 DEF Sock
<1>12. socks' = [[socks EXCEPT ![s] = k] EXCEPT ![l] = m]
  <2>1. socks' = [socks EXCEPT ![s] = k, ![l].q[tail] = s, ![l].tail = next, ![l].count = n]
    BY <1>3, <1>4, <1>5, TypeRanges DEF IInv, OnAccept, k
  <2>2. [socks EXCEPT ![s] = k][l] = socks[l]
    BY <1>4, TypeRanges DEF IInv
  <2> QED BY <1>4, <1>5, <2>1, <2>2, TypeRanges DEF IInv, q, Sock
<1> HIDE DEF m, n, next, tail
<1>13. /\ socks'[s] = k /\ socks'[l] = m
       /\ \A r \in Slots : r # s /\ r # l => socks'[r] = socks[r]
  BY <1>4, <1>12, TypeRanges DEF IInv
<1>14. pcb' = [pcb EXCEPT ![p] = new]
  BY <1>3 DEF new
<1>15. TypeOK'
  <2>1. socks' \in [Slots -> Sock]
    BY <1>8, <1>11, <1>12, TypeRanges DEF IInv
  <2>2. pcb' \in [Pcbs -> Block]
    BY <1>9, <1>14, TypeRanges DEF IInv
  <2> QED BY <1>2, <2>1, <2>2, NewTypes, TypeRanges DEF IInv
<1>16. /\ held[s] = 0 /\ QueueIndex(s) = {}
       /\ \A e \in Slots : \A i \in QueueIndex(e) : socks[e].q[i] # s
  BY <1>3, FreeSlot
<1>17. ASSUME NEW r \in Slots
       PROVE  QueueIndex(r)' = IF r = l THEN QueueIndex(l) \cup {tail} ELSE QueueIndex(r)
  <2>1. CASE r = l
    BY <1>6, <1>11, <1>13, <2>1, NewRing
  <2>2. CASE r = s
    <3>1. Ring(0, 0) = {}
      BY DEF Ring
    <3> QED BY <1>4, <1>8, <1>13, <1>16, <2>2, <3>1, NewRing
  <2>3. CASE r # l /\ r # s
    BY <1>13, <2>3, InRing, NewRing
  <2> QED BY <2>1, <2>2, <2>3
<1>18. \A r \in Slots : \A i \in QueueIndex(r)' :
         \/ r = l /\ i = tail /\ socks'[r].q[i] = s
         \/ i \in QueueIndex(r) /\ socks'[r].q[i] = socks[r].q[i] /\ socks[r].q[i] \in Slots
            /\ socks[r].q[i] # s
  <2> TAKE r \in Slots
  <2> TAKE i \in QueueIndex(r)'
  <2>1. CASE r = l /\ i = tail
    BY <1>10, <1>11, <1>13, <2>1
  <2>2. CASE i \in QueueIndex(r) /\ (r # l \/ i # tail)
    <3>1. i \in Slots /\ socks[r].q[i] \in Slots /\ socks[r].q[i] # s /\ r # s
      BY <1>16, <2>2, InRing
    <3> QED BY <1>10, <1>11, <1>13, <2>2, <3>1
  <2> QED BY <1>17, <2>1, <2>2
<1>19. Rings'
  <2>1. 0 = (0 + 0) % SockMax
    BY Wrap
  <2> QED BY <1>1, <1>6, <1>8, <1>11, <1>13, <2>1 DEF IInv, Rings
<1>20. Queues'
  <2>1. \A r \in Slots : Taken(r) => socks'[r].state = socks[r].state
    BY <1>3, <1>11, <1>13
  <2>2. \A r \in Slots : \A i \in QueueIndex(r) :
          held[socks[r].q[i]] = 0 /\ socks'[socks[r].q[i]].state \in {"connected", "error"}
    BY <2>1, InRing DEF IInv, Queues, Taken
  <2>3. \A r \in Slots : \A i \in QueueIndex(r)' :
          held[socks'[r].q[i]] = 0 /\ socks'[socks'[r].q[i]].state \in {"connected", "error"}
    BY <1>8, <1>13, <1>16, <1>18, <2>2
  <2>4. \A r, e \in Slots : \A i \in QueueIndex(r)', j \in QueueIndex(e)' :
          socks'[r].q[i] = socks'[e].q[j] => r = e /\ i = j
    BY <1>18 DEF IInv, Queues
  <2> QED BY <1>2, <2>3, <2>4 DEF Queues
<1>21. Owned'
  <2>1. InQueue(s)'
    BY <1>10, <1>11, <1>13, <1>17 DEF InQueue
  <2>2. ASSUME NEW r \in Slots, InQueue(r) PROVE InQueue(r)'
    <3>1. PICK e \in Slots : \E i \in QueueIndex(e) : socks[e].q[i] = r
      BY <2>2 DEF InQueue
    <3>2. PICK i \in QueueIndex(e) : socks[e].q[i] = r
      BY <3>1
    <3>3. i \in QueueIndex(e)' /\ (i # tail \/ e # l)
      BY <1>6, <1>17
    <3>4. socks'[e].q[i] = r
      BY <1>18, <3>2, <3>3
    <3> QED BY <3>3, <3>4 DEF InQueue
  <2>3. \A r \in Slots : r # s => (Taken(r)' <=> Taken(r))
    BY <1>11, <1>13 DEF Taken
  <2> QED BY <1>2, <1>16, <2>1, <2>2, <2>3 DEF IInv, Owned
<1>22. (PcbAgrees /\ Blocks /\ Quiet /\ WindowExact)'
  <2>1. \A r \in Slots : r # s =>
           /\ socks'[r].state = socks[r].state /\ socks'[r].type = socks[r].type
           /\ socks'[r].pcb = socks[r].pcb /\ socks'[r].rx = socks[r].rx
           /\ socks'[r].eof = socks[r].eof
    BY <1>11, <1>13
  <2>2. /\ socks'[s].pcb = p /\ socks'[s].rx = 0 /\ ~ socks'[s].eof /\ socks'[s].eof \in BOOLEAN
        /\ socks'[s].type = "stream" /\ socks'[s].state = "connected"
    BY <1>8, <1>13
  <2>3. /\ new.st = "est" /\ socks'[s].type = "stream" /\ socks'[s].state = "connected"
        /\ new.wnd = Window /\ {"recv", "err"} \subseteq new.on
    BY <1>9, <2>2
  <2>4. new \in Block /\ new.arg = s /\ ~ new.fin /\ pcb[p].st = "none" /\ ~ Taken(s)
    BY <1>2, <1>3, <1>9
  <2> HIDE DEF IInv
  <2> QED BY <1>14, <2>1, <2>2, <2>3, <2>4, FillStep
<1>23. Callers'
  <2>1. \A r \in Slots : held[r] = 1 =>
          /\ socks'[r].type = socks[r].type /\ socks'[r].udp = socks[r].udp
          /\ socks[r].count > 0 => socks'[r].count > 0
    BY <1>5, <1>11, <1>13, <1>16 DEF n
  <2> QED BY <1>2, <2>1, CallersStay
<1> QED BY <1>15, <1>19, <1>20, <1>21, <1>22, <1>23 DEF IInv

-----------------------------------------------------------------------------
(* close() *)

\* Everything close() lets go of was in use and had a descriptor only if it is
\* the socket itself; its control blocks are let go of with it.
LEMMA CloseKeeps ==
  ASSUME IInv, NEW t \in Threads, NEW s \in Slots, Close(t, s)
  PROVE  IInv'
<1> DEFINE gone == {s} \cup Drained(s)
           left(r) == [socks[r] EXCEPT
                         !.state = "free", !.rx = 0, !.udp = 0,
                         !.head = IF r = s THEN (@ + socks[r].count) % SockMax ELSE @,
                         !.count = IF r = s THEN 0 ELSE @]
           dropped == {p \in Pcbs : \E r \in gone : socks[r].pcb = p}
<1>1. held[s] = 1 /\ Taken(s)
  BY HeldIsOne DEF Close
<1>2. \A u \in Threads : thr[u].pc # "idle" => thr[u].fd # s
  BY DEF Close
<1>3. /\ pcb' = [p \in Pcbs |-> IF p \in dropped THEN Dropped(pcb[p]) ELSE pcb[p]]
      /\ socks' = [r \in Slots |-> IF r \notin gone THEN socks[r] ELSE left(r)]
      /\ held' = [held EXCEPT ![s] = 0]
      /\ UNCHANGED thr
  BY DEF Close
<1>4. \A r \in gone : r \in Slots /\ Taken(r) /\ (r # s => held[r] = 0 /\ InQueue(r))
  <2>1. \A r \in Drained(s) :
          r \in Slots /\ socks[r].state \in {"connected", "error"} /\ held[r] = 0 /\ InQueue(r)
    BY InRing DEF IInv, Drained, Queued, Queues, InQueue
  <2> QED BY <1>1, <2>1 DEF Taken
<1>5. \A r \in gone : r # s => socks[r].count = 0
  <2>1. \A r \in Drained(s) : socks[r].state \in {"connected", "error"} /\ r \in Slots
    BY InRing DEF IInv, Drained, Queued, Queues
  <2> QED BY <2>1 DEF IInv, Rings
<1>6. \A r \in Slots :
        /\ socks[r] \in Sock /\ socks[r].tail \in Slots
        /\ (socks[r].head + socks[r].count) % SockMax = socks[r].tail
  BY TypeRanges DEF IInv, Rings, Sock
<1>7. ASSUME NEW r \in gone
      PROVE  /\ left(r) \in Sock /\ left(r).state = "free" /\ left(r).q = socks[r].q
             /\ left(r).pcb = socks[r].pcb /\ left(r).tail = socks[r].tail
             /\ left(r).count = 0
             /\ left(r).head = IF r = s THEN socks[s].tail ELSE socks[r].head
  <2> DEFINE head == IF r = s THEN socks[s].tail ELSE socks[r].head
             k == socks[r]
             cleared(e) ==
               [e EXCEPT !.state = "free", !.rx = 0, !.udp = 0, !.head = head, !.count = 0]
  <2>1. k \in Sock /\ head \in Slots /\ 0 \in 0 .. Window /\ 0 \in 0 .. UdpRxqMax
        /\ 0 \in 0 .. SockMax
    BY <1>4, <1>6, FullWindow, WindowAssumption, SockAssumption DEF Sock
  <2>2. left(r) = cleared(k)
    BY <1>4, <1>5, <1>6
  <2> HIDE DEF head, left, k
  <2>3. ASSUME NEW e \in Sock
        PROVE  /\ cleared(e) \in Sock /\ cleared(e).state = "free" /\ cleared(e).q = e.q
               /\ cleared(e).pcb = e.pcb /\ cleared(e).tail = e.tail
               /\ cleared(e).count = 0 /\ cleared(e).head = head
    BY <2>1 DEF Sock, SockStates
  <2> HIDE DEF cleared
  <2>4. /\ left(r) \in Sock /\ left(r).state = "free" /\ left(r).q = k.q /\ left(r).pcb = k.pcb
        /\ left(r).tail = k.tail /\ left(r).count = 0 /\ left(r).head = head
    BY <2>1, <2>2, <2>3
  <2> QED BY <2>4 DEF head, k
<1> HIDE DEF left
<1>8. \A r \in Slots :
        /\ r \in gone => socks'[r] = left(r)
        /\ r \notin gone => socks'[r] = socks[r]
  BY <1>3
<1>9. \A p \in Pcbs : Dropped(pcb[p]) \in Block
      /\ Dropped(pcb[p]).arg = NoSlot /\ Dropped(pcb[p]).on = {}
      /\ Dropped(pcb[p]).st \in {"none", "closing"}
  <2>1. ASSUME NEW e \in Block
        PROVE  [e EXCEPT !.st = "closing", !.arg = NoSlot, !.on = {}] \in Block
    BY DEF Block
  <2>2. Unused \in Block
    BY FullWindow DEF Block, Unused
  <2>3. ASSUME NEW e \in Block
        PROVE  /\ Dropped(e) \in Block /\ Dropped(e).arg = NoSlot /\ Dropped(e).on = {}
               /\ Dropped(e).st \in {"none", "closing"}
    <3>1. CASE e.st = "est" /\ e.wnd = Window
      BY <2>1, <3>1 DEF Dropped, Block
    <3>2. CASE ~ (e.st = "est" /\ e.wnd = Window)
      BY <2>2, <3>2 DEF Dropped, Unused
    <3> QED BY <3>1, <3>2
  <2> QED BY <2>3, TypeRanges DEF IInv
<1>10. \A p \in Pcbs :
         /\ p \in dropped => pcb'[p] = Dropped(pcb[p])
         /\ p \notin dropped => pcb'[p] = pcb[p]
  BY <1>3
<1>11. \A p \in Pcbs : pcb[p].arg # NoSlot /\ p \notin dropped => pcb[p].arg \in Slots \ gone
  BY Agree, TypeRanges DEF IInv, BlockAgrees, Block
<1>12. \A r \in Slots \ gone : Taken(r) /\ socks[r].pcb # NoPcb =>
         socks[r].pcb \in Pcbs /\ socks[r].pcb \notin dropped
  BY <1>4, Tied
<1> HIDE DEF gone, dropped
<1>13. TypeOK'
  <2>1. socks' \in [Slots -> Sock]
    BY <1>3, <1>6, <1>7
  <2>2. pcb' \in [Pcbs -> Block]
    BY <1>3, <1>9, TypeRanges DEF IInv
  <2>3. held' \in [Slots -> 0 .. 2] /\ thr' \in [Threads -> Caller]
    BY <1>3, TypeRanges DEF IInv
  <2> QED BY <2>1, <2>2, <2>3, NewTypes
<1>14. ASSUME NEW r \in Slots
       PROVE  /\ r = s => QueueIndex(r)' = {}
              /\ r # s => QueueIndex(r)' = QueueIndex(r)
  <2>1. Ring(socks[s].tail, 0) = {}
    BY DEF Ring
  <2>2. CASE r \in gone
    <3>1. r # s => socks[r].count = 0
      BY <1>5, <2>2
    <3> QED BY <1>7, <1>8, <2>1, <2>2, <3>1, InRing, NewRing
  <2>3. CASE r \notin gone
    <3>1. r # s
      BY <2>3 DEF gone
    <3> QED BY <1>8, <2>3, <3>1, InRing, NewRing
  <2> QED BY <2>2, <2>3
<1>15. Rings'
  <2>1. ASSUME NEW r \in gone
        PROVE  (left(r).head + left(r).count) % SockMax = left(r).tail
    <3>1. CASE r = s
      <4>1. left(r).head = socks[s].tail /\ left(r).tail = socks[s].tail /\ left(r).count = 0
        BY <1>7, <3>1
      <4>2. \A x \in Slots : (x + 0) % SockMax = x
        BY Wrap DEF Slots
      <4> QED BY <1>6, <4>1, <4>2
    <3>2. CASE r # s
      BY <1>4, <1>5, <1>6, <1>7, <3>2
    <3> QED BY <3>1, <3>2
  <2>2. ASSUME NEW r \in Slots
        PROVE  /\ socks'[r].tail = (socks'[r].head + socks'[r].count) % SockMax
               /\ socks'[r].state # "listening" => socks'[r].count = 0
    BY <1>6, <1>7, <1>8, <2>1 DEF IInv, Rings
  <2> QED BY <2>2 DEF Rings
<1>16. \A l \in Slots : l # s => \A i \in QueueIndex(l) :
         socks'[l].q[i] = socks[l].q[i] /\ socks[l].q[i] \in Slots /\ socks[l].q[i] \notin gone
  <2> SUFFICES ASSUME NEW l \in Slots, l # s, NEW i \in QueueIndex(l)
               PROVE  socks'[l].q[i] = socks[l].q[i] /\ socks[l].q[i] \in Slots
                      /\ socks[l].q[i] \notin gone
    OBVIOUS
  <2>1. socks'[l].q = socks[l].q
    BY <1>7, <1>8
  <2>2. socks[l].q[i] # s
    BY <1>1 DEF IInv, Queues
  <2>3. socks[l].q[i] \notin Drained(s)
    BY DEF IInv, Queues, Drained, Queued
  <2> QED BY <2>1, <2>2, <2>3, InRing DEF gone
<1>17. Queues'
  <2>1. \A l \in Slots : \A i \in QueueIndex(l)' :
          /\ l # s /\ i \in QueueIndex(l) /\ socks'[l].q[i] = socks[l].q[i]
          /\ socks[l].q[i] \in Slots /\ socks[l].q[i] \notin gone
    BY <1>14, <1>16
  <2>2. \A r \in Slots : r \notin gone => held'[r] = held[r] /\ socks'[r] = socks[r]
    BY <1>3, <1>8, TypeRanges DEF IInv, gone
  <2> QED BY <2>1, <2>2 DEF IInv, Queues
<1>18. Owned'
  <2>1. \A r \in Slots : r \in gone => ~ Taken(r)' /\ held'[r] = 0
    BY <1>3, <1>4, <1>7, <1>8, TypeRanges DEF IInv, Taken
  <2>2. ASSUME NEW r \in Slots, r \notin gone
        PROVE  (Taken(r)' <=> Taken(r)) /\ held'[r] = held[r]
    BY <1>3, <1>8, <2>2, TypeRanges DEF IInv, Taken, gone
  <2>3. ASSUME NEW r \in Slots, r \notin gone, InQueue(r)
        PROVE  InQueue(r)'
    <3>1. PICK l \in Slots : \E i \in QueueIndex(l) : socks[l].q[i] = r
      BY <2>3 DEF InQueue
    <3>2. PICK i \in QueueIndex(l) : socks[l].q[i] = r
      BY <3>1
    <3>3. l # s
      <4>1. l = s => r \in Queued(s)
        BY <3>2 DEF Queued
      <4>2. l = s => socks[s].state = "listening"
        BY <3>2 DEF IInv, Rings, QueueIndex
      <4> QED BY <2>3, <4>1, <4>2 DEF gone, Drained
    <3> QED BY <1>14, <1>16, <3>2, <3>3 DEF InQueue
  <2> QED BY <2>1, <2>2, <2>3 DEF IInv, Owned
<1>19. (PcbAgrees /\ Blocks /\ Quiet /\ WindowExact)'
  <2>1. PcbAgrees'
    <3>1. ASSUME NEW p \in Pcbs PROVE BlockAgrees(p)'
      BY <1>8, <1>9, <1>10, <1>11, Agree DEF IInv, BlockAgrees, Taken
    <3>2. ASSUME NEW r \in Slots PROVE SlotAgrees(r)'
      <4>1. CASE r \in gone
        BY <1>7, <1>8, <4>1 DEF SlotAgrees
      <4>2. CASE r \notin gone
        BY <1>8, <1>10, <1>12, <4>2, Agree DEF IInv, SlotAgrees, Taken
      <4> QED BY <4>1, <4>2
    <3> QED BY <3>1, <3>2, Agree
  <2>2. Blocks'
    BY <1>9, <1>10 DEF IInv, Blocks
  <2>3. Quiet'
    <3>1. ASSUME NEW r \in Slots, Taken(r)'
          PROVE  r \notin gone
      BY <1>7, <1>8, <3>1 DEF Taken
    <3> QED BY <1>8, <1>10, <1>12, <3>1 DEF IInv, Quiet, Taken
  <2>4. WindowExact'
    <3>1. \A p \in Pcbs : pcb'[p].st = "est" => p \notin dropped /\ pcb[p].st = "est"
      BY <1>9, <1>10
    <3>2. \A p \in Pcbs : pcb'[p].st = "est" => pcb[p].arg \in Slots \ gone
      BY <1>11, <3>1, Tied DEF NoSlot, Slots
    <3> QED BY <1>8, <1>10, <3>1, <3>2 DEF IInv, WindowExact
  <2> QED BY <2>1, <2>2, <2>3, <2>4
<1>20. Callers'
  <2>1. ASSUME NEW r \in Slots, held[r] = 1, NEW u \in Threads, thr[u].pc # "idle", thr[u].fd = r
        PROVE  r \notin gone /\ r # s
    BY <1>2, <1>4, <2>1
  <2> QED BY <1>3, <1>8, <2>1, TypeRanges, CallersStay DEF IInv
<1> QED BY <1>13, <1>15, <1>17, <1>18, <1>19, <1>20 DEF IInv

-----------------------------------------------------------------------------
(* The theorems *)

LEMMA InitIInv == Init => IInv
<1> SUFFICES ASSUME Init PROVE IInv
  OBVIOUS
<1>1. 0 \in Slots /\ 0 \in 0 .. SockMax /\ 0 \in 0 .. Window /\ 0 \in 0 .. UdpRxqMax
  BY SockAssumption, WindowAssumption DEF Slots
<1>2. Zero \in Sock /\ Unused \in Block /\ Idle \in Caller
  BY <1>1, FullWindow DEF Sock, Block, Caller, Zero, Unused, Idle, SockStates
<1>3. TypeOK
  BY <1>2, TypeRanges DEF Init
<1>4. \A s \in Slots : socks[s] = Zero /\ held[s] = 0 /\ QueueIndex(s) = {}
  BY DEF Init, QueueIndex, Zero
<1>5. Rings /\ Queues /\ Owned
  <2>1. (0 + 0) % SockMax = 0
    BY Wrap
  <2> QED BY <1>4, <2>1 DEF Rings, Queues, Owned, Taken, Zero
<1>6. PcbAgrees /\ Blocks /\ Quiet /\ WindowExact
  BY DEF Init, PcbAgrees, Blocks, Quiet, WindowExact, Taken, Zero, Unused
<1>7. Callers
  BY DEF Init, Callers, Idle
<1> QED BY <1>3, <1>5, <1>6, <1>7 DEF IInv

LEMMA StutterKeeps ==
  ASSUME IInv, UNCHANGED vars
  PROVE  IInv'
<1> USE DEF vars
<1>1. TypeOK'
  BY DEF IInv, TypeOK
<1>2. (Rings /\ Queues /\ Owned)'
  BY QueuesStay DEF Taken
<1>3. (PcbAgrees /\ Blocks /\ Quiet /\ WindowExact)'
  BY LinksStay
<1>4. Callers'
  BY CallersStay
<1> QED BY <1>1, <1>2, <1>3, <1>4 DEF IInv

\* A thread moves nobody but itself.
LEMMA OwnMoves ==
  ASSUME IInv, NEW t \in Threads, Program(t) \/ Step(t)
  PROVE  \A u \in Threads : u # t => thr'[u] = thr[u]
<1>1. thr \in [Threads -> Caller]
  BY TypeRanges DEF IInv
<1>2. \/ UNCHANGED thr
      \/ \E c : thr' = [thr EXCEPT ![t] = c]
  <2>1. CASE Program(t)
    BY <2>1 DEF Program, SocketCall, Listen, UdpConnect, GetError, Close, CallAccept, CallRecv,
                CallPoll, CallSend, CallConnect, Begin
  <2>2. CASE Step(t)
    <3>1. \/ Return(t) \/ \E where : Goto(t, where)
          \/ thr' = [thr EXCEPT ![t].pc = "top", ![t].polled = TRUE]
      BY <2>2 DEF Step, Top, SendTop, NetPollReturns, After, Sleep, Accept, ConnectEnds, Recv
    <3> QED BY <3>1 DEF Return, Goto
  <2> QED BY <2>1, <2>2
<1> QED BY <1>1, <1>2

\* A step of the program or inside a call is made while the others rest.
LEMMA OthersAtRest ==
  ASSUME OneAwake, NEW t \in Threads, Program(t) \/ Step(t)
  PROVE  OthersRest(t)
<1>1. Step(t) => thr[t].pc \notin {"idle", "sleep"} \/ OthersRest(t)
  BY DEF Step, Top, SendTop, NetPollReturns, After, Sleep, Accept, ConnectEnds, Recv
<1> QED BY <1>1 DEF OneAwake, Program

LEMMA StepKeeps ==
  ASSUME IInv, OneAwake, [Next]_vars
  PROVE  IInv' /\ OneAwake'
<1>1. ASSUME NEW t \in Threads, Program(t) PROVE IInv'
  <2>1. CASE SocketCall(t)
    BY <2>1, SocketCallKeeps
  <2>2. ASSUME NEW s \in Slots,
               Listen(t, s) \/ UdpConnect(t, s) \/ GetError(t, s) \/ Close(t, s)
        PROVE  IInv'
    BY <2>2, ListenKeeps, UdpConnectKeeps, GetErrorKeeps, CloseKeeps
  <2>3. ASSUME NEW s \in Slots,
               \/ CallAccept(t, s) \/ CallRecv(t, s) \/ CallPoll(t, s) \/ CallSend(t, s)
               \/ CallConnect(t, s)
        PROVE  IInv'
    BY <1>1, <2>3, OthersAtRest, CallsKeep, CallConnectKeeps
  <2> QED BY <1>1, <2>1, <2>2, <2>3 DEF Program
<1>2. ASSUME NEW t \in Threads, Step(t) PROVE IInv'
  <2>1. OthersRest(t)
    BY <1>2, OthersAtRest
  <2> QED BY <1>2, <2>1, TopKeeps, SendTopKeeps, NetPollReturnsKeeps, AfterKeeps, SleepKeeps,
             AcceptKeeps, ConnectEndsKeeps, RecvDatagramKeeps, RecvStreamKeeps DEF Step
<1>3. ASSUME NEW p \in Pcbs, \/ \E b \in Pcbs : Incoming(b, p)
                             \/ Connected(p)
                             \/ \E end \in BOOLEAN : Receive(p, end)
                             \/ Datagram(p) \/ Reset(p) \/ Acked(p) \/ Finished(p)
      PROVE  IInv' /\ UNCHANGED thr
  <2>1. UNCHANGED thr
    BY <1>3 DEF Incoming, Connected, Receive, Datagram, Reset, Acked, Finished
  <2> QED BY <1>3, <2>1, IncomingKeeps, ConnectedKeeps, ReceiveKeeps, DatagramKeeps, ResetKeeps,
             AckedKeeps, FinishedKeeps
<1>4. ASSUME NEW t \in Threads, Program(t) \/ Step(t) PROVE OneAwake'
  <2>1. OthersRest(t) /\ \A u \in Threads : u # t => thr'[u] = thr[u]
    BY <1>4, OthersAtRest, OwnMoves
  <2> QED BY <2>1 DEF OneAwake, OthersRest
<1>5. UNCHANGED thr => OneAwake'
  BY DEF OneAwake, OthersRest
<1> QED BY <1>1, <1>2, <1>3, <1>4, <1>5, StutterKeeps DEF Next, Network, vars

\* The invariant holds in every behaviour, and there is never more than one
\* thread awake inside net_shim.c.
THEOREM Inductive == Spec => [](IInv /\ OneAwake)
<1>1. Init => OneAwake
  BY DEF Init, OneAwake, Idle
<1>2. IInv /\ OneAwake /\ [Next]_vars => (IInv /\ OneAwake)'
  BY StepKeeps
<1> QED BY InitIInv, <1>1, <1>2, PTL DEF Spec

\* Every variable stays in its type: no count falls below zero or grows past
\* its ring, and the offered window never exceeds the whole.
THEOREM TypeCorrect == Spec => []TypeOK
<1>1. IInv => TypeOK
  BY DEF IInv
<1> QED BY Inductive, <1>1, PTL

\* lwIP's control blocks and the slots of socks[] agree: no callback of a
\* connection leads into a slot that close() has freed or socket() has given to
\* somebody else.
THEOREM PcbsAgree == Spec => []PcbAgrees
<1>1. IInv => PcbAgrees
  BY DEF IInv
<1> QED BY Inductive, <1>1, PTL

\* Every segment on_recv() queues closes the window by one and every one recv()
\* copies out opens it by one, across resets, partial reads and the end of the
\* stream.
THEOREM WindowKept == Spec => []WindowExact
<1>1. IInv => WindowExact
  BY DEF IInv
<1> QED BY Inductive, <1>1, PTL

\* net_shim_poll() reports a socket readable exactly when accept() or recv()
\* would not wait, and a connected stream writable exactly when there is a
\* length of which send() would take all.
THEOREM PollTells == Spec => []PollHonest
<1>1. ASSUME IInv, NEW s \in Slots, Held(s)
      PROVE  LET k == socks[s]
                 op == IF k.state = "listening" THEN "accept" ELSE "recv"
             IN PollIn(k) <=> Ready(op, k)
  <2>1. Taken(s)
    BY <1>1, Tied DEF Held
  <2>2. socks[s].count \in 0 .. SockMax /\ socks[s].rx \in 0 .. Window
        /\ socks[s].state \in SockStates /\ socks[s].type \in {"stream", "dgram"}
    BY <1>1, TypeRanges DEF IInv, Sock
  <2>3. CASE socks[s].type = "dgram"
    BY <1>1, <2>1, <2>3 DEF IInv, Quiet, PollIn, Ready
  <2>4. CASE socks[s].state = "listening"
    BY <1>1, <2>1, <2>2, <2>4 DEF IInv, Quiet, PollIn, Ready
  <2>5. CASE socks[s].type = "stream" /\ socks[s].state # "listening"
    BY <1>1, <2>1, <2>2, <2>5 DEF IInv, Quiet, PollIn, Ready, RxReady, Taken, SockStates
  <2> QED BY <2>2, <2>3, <2>4, <2>5
<1>2. ASSUME IInv, NEW s \in Slots, socks[s].type = "stream", socks[s].state = "connected"
      PROVE  PollOut(socks[s]) <=>
               Tries(socks[s]) /\ \E n \in 1 .. SndQueueLen : TakesAll(socks[s].pcb, n)
  <2> DEFINE p == socks[s].pcb
  <2>1. p # NoPcb => pcb[p].sent \in 0 .. SndQueueLen
    BY <1>2, TypeRanges DEF IInv, Sock, Block
  <2>2. PollOut(socks[s]) <=> p # NoPcb /\ pcb[p].buf /\ pcb[p].sent < SndQueueLen
    BY <1>2 DEF PollOut
  <2> HIDE DEF p
  <2>3. p # NoPcb => (pcb[p].sent < SndQueueLen <=> \E n \in 1 .. SndQueueLen : TakesAll(p, n))
    <3>1. p # NoPcb /\ pcb[p].sent < SndQueueLen => 1 \in 1 .. SndQueueLen /\ TakesAll(p, 1)
      BY <2>1, SendAssumption DEF TakesAll
    <3>2. ASSUME p # NoPcb, NEW n \in 1 .. SndQueueLen, TakesAll(p, n)
          PROVE  pcb[p].sent < SndQueueLen
      BY <2>1, <3>2, SendAssumption DEF TakesAll
    <3> QED BY <3>1, <3>2
  <2> QED BY <2>2, <2>3 DEF Tries, p
<1>3. IInv => PollHonest
  BY <1>1, <1>2 DEF PollHonest
<1> QED BY Inductive, <1>3, PTL

\* The slots in use are shared out between the program and the rings of its
\* listeners: close() of a listener leaks none of the connections nobody
\* accepted, and accept() hands none out twice.
THEOREM SlotsShared == Spec => []SlotsOwned
<1>1. ASSUME IInv, NEW s \in Slots
      PROVE  Cardinality({e \in Slots \X Slots :
                     /\ socks[e[1]].state = "listening" /\ e[2] \in QueueIndex(e[1])
                     /\ socks[e[1]].q[e[2]] = s}) + held[s]
               = IF socks[s].state = "free" THEN 0 ELSE 1
  <2> DEFINE places == {e \in Slots \X Slots :
                     /\ socks[e[1]].state = "listening" /\ e[2] \in QueueIndex(e[1])
                     /\ socks[e[1]].q[e[2]] = s}
  <2>1. held[s] \in {0, 1}
    BY <1>1, Tied
  <2>2. CASE InQueue(s)
    <3>1. PICK l \in Slots : \E i \in QueueIndex(l) : socks[l].q[i] = s
      BY <2>2 DEF InQueue
    <3>2. PICK i \in QueueIndex(l) : socks[l].q[i] = s
      BY <3>1
    <3>3. socks[l].state = "listening" /\ i \in Slots
      <4>1. QueueIndex(l) # {} => socks[l].count # 0
        BY DEF QueueIndex
      <4> QED BY <1>1, <3>2, <4>1, InRing DEF IInv, Rings
    <3>4. <<l, i>> \in places
      BY <3>2, <3>3
    <3>5. \A e \in places : e = <<l, i>>
      BY <1>1, <3>2 DEF IInv, Queues
    <3>6. places = {<<l, i>>}
      BY <3>4, <3>5
    <3>7. held[s] = 0 /\ socks[s].state # "free"
      BY <1>1, <3>2 DEF IInv, Queues
    <3>8. Cardinality(places) = 1
      BY <3>6, FS_Singleton
    <3> QED BY <3>7, <3>8
  <2>3. CASE ~ InQueue(s)
    <3>1. places = {}
      BY <2>3 DEF InQueue
    <3>2. Cardinality(places) = 0
      BY <3>1, FS_EmptySet
    <3>3. held[s] = 1 <=> socks[s].state # "free"
      BY <1>1, <2>1, <2>3 DEF IInv, Owned, Taken
    <3> QED BY <2>1, <3>2, <3>3
  <2> QED BY <2>2, <2>3
<1>2. IInv => SlotsOwned
  BY <1>1 DEF SlotsOwned
<1> QED BY Inductive, <1>2, PTL

-----------------------------------------------------------------------------
(* The rings implement the abstract backlog *)

\* What a ring holds, from its head on
RingSeq(q, h, c) == [i \in 1 .. c |-> q[(h + (i - 1)) % SockMax]]

LEMMA RingPlaces ==
  ASSUME NEW h \in Slots, NEW c \in 0 .. SockMax
  PROVE  \A i \in 1 .. c : (h + (i - 1)) % SockMax \in Ring(h, c) \cap Slots
<1>1. \A i \in 1 .. c : i - 1 \in 0 .. c - 1 /\ h + (i - 1) \in Nat
  BY DEF Slots
<1>2. \A x \in Nat : x % SockMax \in Slots
  BY DEF Slots
<1> QED BY <1>1, <1>2 DEF Ring

LEMMA RingSeqIs ==
  ASSUME NEW q \in [Slots -> Slots], NEW h \in Slots, NEW c \in 0 .. SockMax
  PROVE  /\ RingSeq(q, h, c) \in Seq(Slots) /\ Len(RingSeq(q, h, c)) = c
         /\ \A i \in 1 .. c : RingSeq(q, h, c)[i] = q[(h + (i - 1)) % SockMax]
<1>1. RingSeq(q, h, c) \in [1 .. c -> Slots]
  BY RingPlaces DEF RingSeq
<1>2. c \in Nat
  OBVIOUS
<1>3. RingSeq(q, h, c) \in Seq(Slots) /\ Len(RingSeq(q, h, c)) = c
  BY <1>1, <1>2
<1> QED BY <1>3 DEF RingSeq

\* p is q with s at place i.
Puts(p, q, i, s) ==
  p \in [Slots -> Slots] /\ p[i] = s /\ \A j \in Slots : j # i => p[j] = q[j]

\* With s at its tail a ring that starts at h and holds c entries has one more.
TailAppends(q, h, c, s) ==
  \A p : Puts(p, q, (h + c) % SockMax, s) => RingSeq(p, h, c + 1) = Append(RingSeq(q, h, c), s)

\* on_accept() puts the newcomer last.
LEMMA RingAppends ==
  ASSUME NEW q \in [Slots -> Slots], NEW h \in Slots, NEW c \in 0 .. SockMax - 1, NEW s \in Slots
  PROVE  TailAppends(q, h, c, s)
<1> SUFFICES ASSUME NEW p, Puts(p, q, (h + c) % SockMax, s)
             PROVE  RingSeq(p, h, c + 1) = Append(RingSeq(q, h, c), s)
  BY DEF TailAppends
<1> DEFINE tail == (h + c) % SockMax
           old == RingSeq(q, h, c)
           new == RingSeq(p, h, c + 1)
<1>1. tail \in Slots /\ tail \notin Ring(h, c)
  BY RingGrows
<1>2. p \in [Slots -> Slots] /\ p[tail] = s /\ \A i \in Slots : i # tail => p[i] = q[i]
  BY DEF Puts
<1>3. c \in 0 .. SockMax /\ c + 1 \in 0 .. SockMax
  OBVIOUS
<1>4. \A x \in Ring(h, c) : x \in Slots
  <2>1. \A x \in Nat : x % SockMax \in Slots
    BY DEF Slots
  <2>2. \A i \in 0 .. c - 1 : h + i \in Nat
    BY DEF Slots
  <2> QED BY <2>1, <2>2 DEF Ring
<1>5. /\ old \in Seq(Slots) /\ Len(old) = c
      /\ \A i \in 1 .. c : old[i] = q[(h + (i - 1)) % SockMax]
  BY <1>3, RingSeqIs
<1>6. /\ new \in Seq(Slots) /\ Len(new) = c + 1
      /\ \A i \in 1 .. c + 1 : new[i] = p[(h + (i - 1)) % SockMax]
  <2> DEFINE n == c + 1
  <2>1. n \in 0 .. SockMax
    BY <1>3
  <2> HIDE DEF n
  <2>2. /\ RingSeq(p, h, n) \in Seq(Slots) /\ Len(RingSeq(p, h, n)) = n
        /\ \A i \in 1 .. n : RingSeq(p, h, n)[i] = p[(h + (i - 1)) % SockMax]
    BY <1>2, <2>1, RingSeqIs
  <2> QED BY <2>2 DEF n
<1>7. new[c + 1] = s
  <2>1. c + 1 \in 1 .. c + 1 /\ (c + 1) - 1 = c
    OBVIOUS
  <2> QED BY <1>2, <1>6, <2>1
<1>8. \A i \in 1 .. c : new[i] = old[i]
  <2> TAKE i \in 1 .. c
  <2>1. i \in 1 .. c + 1
    OBVIOUS
  <2>2. (h + (i - 1)) % SockMax \in Slots /\ (h + (i - 1)) % SockMax # tail
    BY <1>1, <1>3, <1>4, RingPlaces
  <2> HIDE DEF tail
  <2> QED BY <1>2, <1>5, <1>6, <2>1, <2>2
<1> HIDE DEF tail, old, new
<1>9. /\ Append(old, s) \in Seq(Slots) /\ Len(Append(old, s)) = c + 1
      /\ Append(old, s)[c + 1] = s /\ \A i \in 1 .. c : Append(old, s)[i] = old[i]
  BY <1>5, AppendProperties
<1>10. \A i \in 1 .. c + 1 : new[i] = Append(old, s)[i]
  <2>1. \A i \in 1 .. c + 1 : i \in 1 .. c \/ i = c + 1
    OBVIOUS
  <2> QED BY <1>7, <1>8, <1>9, <2>1
<1>11. new = Append(old, s)
  BY <1>6, <1>9, <1>10, SeqEqual
<1> QED BY <1>11 DEF new, old, tail

\* accept() takes the first.
LEMMA RingTail ==
  ASSUME NEW q \in [Slots -> Slots], NEW h \in Slots, NEW c \in 1 .. SockMax
  PROVE  /\ RingSeq(q, h, c) # <<>> /\ Head(RingSeq(q, h, c)) = q[h]
         /\ RingSeq(q, (h + 1) % SockMax, c - 1) = Tail(RingSeq(q, h, c))
<1> DEFINE head == (h + 1) % SockMax
           old == RingSeq(q, h, c)
           new == RingSeq(q, head, c - 1)
<1>1. head \in Slots /\ \A i \in 0 .. c - 1 : (head + i) % SockMax = (h + (i + 1)) % SockMax
  BY RingShrinks, RingNext
<1>2. c \in 0 .. SockMax /\ c - 1 \in 0 .. SockMax /\ 1 \in 1 .. c
  OBVIOUS
<1> HIDE DEF head
<1>3. /\ old \in Seq(Slots) /\ Len(old) = c
      /\ \A i \in 1 .. c : old[i] = q[(h + (i - 1)) % SockMax]
  BY <1>2, RingSeqIs
<1>4. /\ new \in Seq(Slots) /\ Len(new) = c - 1
      /\ \A i \in 1 .. c - 1 : new[i] = q[(head + (i - 1)) % SockMax]
  <2> DEFINE n == c - 1
  <2>1. n \in 0 .. SockMax
    BY <1>2
  <2> HIDE DEF n
  <2>2. /\ RingSeq(q, head, n) \in Seq(Slots) /\ Len(RingSeq(q, head, n)) = n
        /\ \A i \in 1 .. n : RingSeq(q, head, n)[i] = q[(head + (i - 1)) % SockMax]
    BY <1>1, <2>1, RingSeqIs
  <2> QED BY <2>2 DEF n
<1> HIDE DEF old, new
<1>5. old # <<>>
  BY <1>2, <1>3
<1>6. Head(old) = q[h]
  <2>1. (h + (1 - 1)) % SockMax = h
    <3>1. h + (1 - 1) = h /\ h \in 0 .. SockMax - 1
      BY DEF Slots
    <3> QED BY <3>1, Wrap
  <2>2. Head(old) = old[1]
    BY <1>3, <1>5
  <2> QED BY <1>2, <1>3, <2>1, <2>2
<1>7. /\ Tail(old) \in Seq(Slots) /\ Len(Tail(old)) = c - 1
      /\ \A i \in 1 .. c - 1 : Tail(old)[i] = old[i + 1]
  BY <1>3, <1>5, HeadTailProperties
<1>8. \A i \in 1 .. c - 1 : new[i] = Tail(old)[i]
  <2> TAKE i \in 1 .. c - 1
  <2>1. i - 1 \in 0 .. c - 1 /\ (i - 1) + 1 = i /\ i + 1 \in 1 .. c /\ (i + 1) - 1 = i
    OBVIOUS
  <2>2. (head + (i - 1)) % SockMax = (h + i) % SockMax
    BY <1>1, <2>1
  <2>3. old[i + 1] = q[(h + i) % SockMax]
    BY <1>3, <2>1
  <2> QED BY <1>4, <1>7, <2>2, <2>3
<1>9. new = Tail(old)
  BY <1>4, <1>7, <1>8, SeqEqual
<1> QED BY <1>5, <1>6, <1>9 DEF new, old, head

\* What the abstract backlog sees of the state: the lines, and who has what
Lines == [l \in Slots |-> RingSeq(socks[l].q, socks[l].head, socks[l].count)]
Given == {s \in Slots : held[s] > 0}

LEMMA Seen ==
  /\ Lines = [l \in Slots |-> Line(l)] /\ Given = {s \in Slots : Held(s)}
  /\ Lines' = [l \in Slots |-> Line(l)]' /\ Given' = {s \in Slots : Held(s)}'
BY DEF Lines, Given, RingSeq, Line, Held

LEMMA RingTypes ==
  ASSUME IInv, NEW l \in Slots
  PROVE  /\ socks[l] \in Sock /\ socks[l].q \in [Slots -> Slots] /\ socks[l].head \in Slots
         /\ socks[l].count \in 0 .. SockMax
         /\ socks[l].tail = (socks[l].head + socks[l].count) % SockMax
BY TypeRanges DEF IInv, Sock, Rings

\* The line of slot l is as it was, or empty as it was.
LineStays(l) ==
  /\ socks'[l].count = socks[l].count
  /\ socks[l].count # 0 => socks'[l].q = socks[l].q /\ socks'[l].head = socks[l].head

LEMMA LineStaysSame ==
  ASSUME NEW l \in Slots, LineStays(l)
  PROVE  RingSeq(socks'[l].q, socks'[l].head, socks'[l].count)
           = RingSeq(socks[l].q, socks[l].head, socks[l].count)
<1>1. CASE socks[l].count = 0
  BY <1>1 DEF LineStays, RingSeq
<1>2. CASE socks[l].count # 0
  BY <1>2 DEF LineStays
<1> QED BY <1>1, <1>2

\* A slot that is free is new to the backlog.
LEMMA FreeIsNew ==
  ASSUME IInv, NEW s \in Slots, ~ Taken(s)
  PROVE  s \notin Given /\ Abstract!IsNew(s)
<1>1. held[s] = 0 /\ \A l \in Slots : \A i \in QueueIndex(l) : socks[l].q[i] # s
  BY FreeSlot
<1>2. socks[s].count = 0
  BY DEF IInv, Rings, Taken
<1>3. Lines[s] = <<>>
  BY <1>2 DEF Lines, RingSeq
<1>4. ASSUME NEW l \in Slots PROVE s \notin {Lines[l][i] : i \in 1 .. Len(Lines[l])}
  <2>1. QueueIndex(l) = Ring(socks[l].head, socks[l].count)
    BY InRing
  <2> DEFINE q == socks[l].q
             h == socks[l].head
             c == socks[l].count
  <2>2. q \in [Slots -> Slots] /\ h \in Slots /\ c \in 0 .. SockMax /\ Lines[l] = RingSeq(q, h, c)
    BY RingTypes DEF Lines
  <2>3. \A j \in Ring(h, c) : q[j] # s
    BY <1>1, <2>1
  <2> HIDE DEF q, h, c
  <2>4. Len(Lines[l]) = c /\ \A i \in 1 .. c : Lines[l][i] = q[(h + (i - 1)) % SockMax]
    <3>1. /\ Len(RingSeq(q, h, c)) = c
          /\ \A i \in 1 .. c : RingSeq(q, h, c)[i] = q[(h + (i - 1)) % SockMax]
      BY <2>2, RingSeqIs
    <3> QED BY <2>2, <3>1
  <2>5. \A i \in 1 .. c : Lines[l][i] # s
    BY <2>2, <2>3, <2>4, RingPlaces
  <2> QED BY <2>4, <2>5
<1> QED BY <1>1, <1>3, <1>4, Seen DEF Abstract!IsNew, Abstract!InLine, Given

\* Nothing the backlog sees changes.
LEMMA Unseen ==
  ASSUME \A l \in Slots : LineStays(l), UNCHANGED held
  PROVE  UNCHANGED Abstract!vars
<1>1. Lines' = Lines
  BY LineStaysSame DEF Lines
<1>2. Given' = Given
  BY DEF Given
<1> QED BY <1>1, <1>2, Seen DEF Abstract!vars

LEMMA SocketCallImplements ==
  ASSUME IInv, NEW t \in Threads, SocketCall(t)
  PROVE  [Abstract!Next]_(Abstract!vars)
<1>1. PICK s \in AllocSlot, type \in Types :
       \/ \E p \in Pcbs :
            /\ socks' = [socks EXCEPT ![s] =
                 [Fresh(s, type) EXCEPT !.state = "closed", !.pcb = p]]
            /\ held' = [held EXCEPT ![s] = 1]
       \/ /\ socks' = [socks EXCEPT ![s] = Fresh(s, type)]
          /\ UNCHANGED held
  BY DEF SocketCall
<1>2. s \in Slots /\ ~ Taken(s) /\ socks[s].count = 0
  BY DEF AllocSlot, Taken, IInv, Rings
<1>3. /\ socks'[s].count = 0 /\ \A l \in Slots : l # s => socks'[l] = socks[l]
      /\ held' = [held EXCEPT ![s] = 1] \/ UNCHANGED held
  <2>1. /\ Fresh(s, type).count = 0
        /\ \A p \in Pcbs : [Fresh(s, type) EXCEPT !.state = "closed", !.pcb = p].count = 0
    BY DEF Fresh, Zero
  <2>2. \E k : k.count = 0 /\ socks' = [socks EXCEPT ![s] = k]
    BY <1>1, <2>1
  <2> QED BY <1>1, <1>2, <2>2, TypeRanges DEF IInv
<1>4. \A l \in Slots : LineStays(l)
  BY <1>2, <1>3 DEF LineStays
<1>5. CASE UNCHANGED held
  BY <1>4, <1>5, Unseen
<1>6. CASE held' = [held EXCEPT ![s] = 1]
  <2>1. Lines' = Lines
    BY <1>4, LineStaysSame DEF Lines
  <2>2. Given' = Given \cup {s}
    BY <1>2, <1>6, TypeRanges DEF IInv, Given
  <2>3. s \in Slots \ Given /\ Abstract!IsNew(s)
    BY <1>2, FreeIsNew
  <2>4. Abstract!Open(s)
    BY <2>1, <2>2, <2>3, Seen DEF Abstract!Open
  <2> QED BY <2>3, <2>4, Seen DEF Abstract!Next
<1> QED BY <1>3, <1>5, <1>6

LEMMA CloseImplements ==
  ASSUME IInv, NEW t \in Threads, NEW s \in Slots, Close(t, s)
  PROVE  Abstract!Next
<1> DEFINE gone == {s} \cup Drained(s)
<1>1. held[s] = 1
  BY HeldIsOne DEF Close
<1>2. /\ \A r \in Slots : r \notin gone => socks'[r] = socks[r]
      /\ socks'[s].count = 0
      /\ \A r \in Slots : r # s => socks'[r].count = socks[r].count
      /\ held' = [held EXCEPT ![s] = 0]
  <2> DEFINE left(r) == [socks[r] EXCEPT
                           !.state = "free", !.rx = 0, !.udp = 0,
                           !.head = IF r = s THEN (@ + socks[r].count) % SockMax ELSE @,
                           !.count = IF r = s THEN 0 ELSE @]
  <2>1. /\ socks' = [r \in Slots |-> IF r \notin gone THEN socks[r] ELSE left(r)]
        /\ held' = [held EXCEPT ![s] = 0]
    BY DEF Close
  <2>2. \A r \in Slots : left(r).count = IF r = s THEN 0 ELSE socks[r].count
    BY RingTypes DEF Sock
  <2> HIDE DEF left
  <2> QED BY <2>1, <2>2
<1>3. \A r \in gone : r # s => socks[r].count = 0
  <2>1. \A r \in Drained(s) : socks[r].state \in {"connected", "error"} /\ r \in Slots
    BY InRing DEF IInv, Drained, Queued, Queues
  <2> QED BY <2>1 DEF IInv, Rings
<1>4. \A r \in Slots : r # s => LineStays(r)
  BY <1>2, <1>3 DEF LineStays
<1>5. Lines' = [Lines EXCEPT ![s] = <<>>]
  <2>1. RingSeq(socks'[s].q, socks'[s].head, socks'[s].count) = <<>>
    BY <1>2 DEF RingSeq
  <2>2. \A r \in Slots : r # s => RingSeq(socks'[r].q, socks'[r].head, socks'[r].count)
                                    = RingSeq(socks[r].q, socks[r].head, socks[r].count)
    BY <1>4, LineStaysSame
  <2> QED BY <2>1, <2>2 DEF Lines
<1>6. Given' = Given \ {s} /\ s \in Given
  BY <1>1, <1>2, TypeRanges DEF IInv, Given
<1>7. Abstract!Close(s)
  BY <1>5, <1>6, Seen DEF Abstract!Close
<1> QED BY <1>6, <1>7, Seen DEF Abstract!Next

LEMMA IncomingImplements ==
  ASSUME IInv, NEW b \in Pcbs, NEW p \in Pcbs, Incoming(b, p)
  PROVE  Abstract!Next
<1>1. PICK l \in Slots : l = pcb[b].arg /\ socks[l].state = "listening"
  <2>1. pcb[b].st = "listen"
    BY DEF Incoming
  <2>2. pcb[b].arg \in Slots /\ Taken(pcb[b].arg) /\ socks[pcb[b].arg].pcb = b
    BY <2>1, Tied
  <2>3. socks[pcb[b].arg].state = "listening"
    BY <2>1, <2>2, Agree, TypeRanges DEF IInv, SlotAgrees, Taken, Sock, SockStates
  <2> QED BY <2>2, <2>3
<1>2. PICK s \in Slots : ~ Taken(s) /\ OnAccept(l, s, p)
  BY <1>1 DEF Incoming, AllocSlot, Taken
<1>3. socks[l].count < SockMax /\ UNCHANGED held
  BY <1>1 DEF Incoming
<1> DEFINE h == socks[l].head
           c == socks[l].count
           tail == (h + c) % SockMax
<1>4. l # s /\ socks[s].count = 0
  BY <1>1, <1>2 DEF Taken, IInv, Rings
<1>5. /\ h \in Slots /\ c \in 0 .. SockMax - 1 /\ socks[l].q \in [Slots -> Slots]
      /\ socks[l] \in Sock /\ socks[l].tail = tail
  <2>1. /\ h \in Slots /\ c \in 0 .. SockMax /\ socks[l].q \in [Slots -> Slots]
        /\ socks[l] \in Sock /\ socks[l].tail = tail
    BY RingTypes
  <2> QED BY <1>3, <2>1
<1>6. /\ socks'[l].q = [socks[l].q EXCEPT ![tail] = s] /\ socks'[l].head = h
      /\ socks'[l].count = c + 1 /\ socks'[s].count = 0
      /\ \A r \in Slots : r # l /\ r # s => socks'[r] = socks[r]
  <2>1. Zero.count = 0
    BY DEF Zero
  <2>2. socks \in [Slots -> Sock]
    BY TypeRanges DEF IInv
  <2>3. socks' = [socks EXCEPT ![s] = [Zero EXCEPT !.state = "connected", !.pcb = p],
                  ![l].q[tail] = s, ![l].tail = (tail + 1) % SockMax, ![l].count = c + 1]
    BY <1>2, <1>4, <1>5, <2>2 DEF OnAccept
  <2> QED BY <1>4, <1>5, <2>1, <2>2, <2>3, SMTT(20) DEF Sock
<1>7. Lines' = [Lines EXCEPT ![l] = Append(@, s)]
  <2>1. \A r \in Slots : r # l => LineStays(r)
    BY <1>4, <1>6 DEF LineStays
  <2>2. \A r \in Slots : r # l => RingSeq(socks'[r].q, socks'[r].head, socks'[r].count)
                                    = RingSeq(socks[r].q, socks[r].head, socks[r].count)
    BY <2>1, LineStaysSame
  <2>3. RingSeq(socks'[l].q, socks'[l].head, socks'[l].count)
          = Append(RingSeq(socks[l].q, socks[l].head, socks[l].count), s)
    <3> DEFINE q == socks[l].q
               new == socks'[l].q
    <3>1. q \in [Slots -> Slots] /\ h \in Slots /\ c \in 0 .. SockMax - 1
      BY <1>5
    <3>2. new = [q EXCEPT ![(h + c) % SockMax] = s]
      BY <1>5, <1>6
    <3> HIDE DEF q, new, h, c
    <3>3. Puts(new, q, (h + c) % SockMax, s)
      BY <3>1, <3>2, RingGrows DEF Puts
    <3>4. TailAppends(q, h, c, s)
      BY <3>1, RingAppends
    <3>5. RingSeq(new, h, c + 1) = Append(RingSeq(q, h, c), s)
      BY <3>3, <3>4 DEF TailAppends
    <3> QED BY <1>6, <3>5 DEF q, new, h, c
  <2> QED BY <2>2, <2>3 DEF Lines
<1>8. Given' = Given /\ l \in Given
  <2>1. ~ InQueue(l)
    BY <1>1 DEF IInv, Queues, InQueue
  <2> QED BY <1>1, <1>3, <2>1 DEF IInv, Owned, Taken, Given
<1>9. s \in Slots \ Given /\ Abstract!IsNew(s)
  BY <1>2, FreeIsNew
<1>10. Len(Lines[l]) < SockMax
  <2> DEFINE q == socks[l].q
  <2>1. Lines[l] = RingSeq(q, h, c) /\ c \in 0 .. SockMax /\ c < SockMax
    BY <1>3, <1>5 DEF Lines
  <2> HIDE DEF q, h, c
  <2> QED BY <1>5, <2>1, RingSeqIs DEF q
<1>11. Abstract!Arrive(l, s)
  BY <1>7, <1>8, <1>9, <1>10, Seen DEF Abstract!Arrive
<1> QED BY <1>8, <1>9, <1>11, Seen DEF Abstract!Next

LEMMA AcceptImplements ==
  ASSUME IInv, NEW t \in Threads, Accept(t)
  PROVE  Abstract!Next
<1> DEFINE l == thr[t].fd
           h == socks[l].head
           c == socks[l].count
           s == socks[l].q[h]
<1>1. l \in Slots /\ held[l] = 1 /\ socks[l].count > 0
  BY TypeRanges DEF Accept, IInv, Caller, Callers
<1>2. /\ h \in Slots /\ c \in 1 .. SockMax /\ socks[l].q \in [Slots -> Slots] /\ s \in Slots
      /\ socks[l] \in Sock
  <2>1. /\ h \in Slots /\ c \in 0 .. SockMax /\ socks[l].q \in [Slots -> Slots]
        /\ socks[l] \in Sock
    BY <1>1, RingTypes
  <2> QED BY <1>1, <2>1
<1>3. /\ socks'[l].q = socks[l].q /\ socks'[l].head = (h + 1) % SockMax /\ socks'[l].count = c - 1
      /\ \A r \in Slots : r # l => socks'[r] = socks[r]
  BY <1>1, <1>2, TypeRanges DEF IInv, Accept, Sock
<1>4. held' = [held EXCEPT ![s] = held[s] + 1] /\ held[s] + 1 > 0
  <2>1. held' = [held EXCEPT ![s] = @ + 1]
    BY DEF Accept
  <2>2. held[s] \in 0 .. 2
    BY <1>2, TypeRanges DEF IInv
  <2> HIDE DEF s
  <2> QED BY <1>2, <2>1, <2>2, TypeRanges DEF IInv
<1> HIDE DEF l
<1>5. /\ Lines[l] # <<>> /\ Head(Lines[l]) = s
      /\ RingSeq(socks'[l].q, socks'[l].head, socks'[l].count) = Tail(Lines[l])
  <2>1. Lines[l] = RingSeq(socks[l].q, h, c)
    BY <1>1 DEF Lines
  <2>2. /\ RingSeq(socks[l].q, h, c) # <<>> /\ Head(RingSeq(socks[l].q, h, c)) = s
        /\ RingSeq(socks[l].q, (h + 1) % SockMax, c - 1) = Tail(RingSeq(socks[l].q, h, c))
    <3> DEFINE q == socks[l].q
    <3>1. q \in [Slots -> Slots] /\ h \in Slots /\ c \in 1 .. SockMax
      BY <1>2
    <3> HIDE DEF q, h, c
    <3> QED BY <3>1, RingTail DEF q
  <2> QED BY <1>3, <2>1, <2>2
<1>6. Lines' = [Lines EXCEPT ![l] = Tail(@)]
  <2>1. \A r \in Slots : r # l => RingSeq(socks'[r].q, socks'[r].head, socks'[r].count)
                                    = RingSeq(socks[r].q, socks[r].head, socks[r].count)
    BY <1>3
  <2> QED BY <1>1, <1>5, <2>1 DEF Lines
<1>7. Given' = Given \cup {Head(Lines[l])} /\ l \in Given
  BY <1>1, <1>2, <1>4, <1>5, TypeRanges DEF IInv, Given
<1>8. Abstract!Take(l)
  BY <1>5, <1>6, <1>7, Seen DEF Abstract!Take
<1> QED BY <1>7, <1>8, Seen DEF Abstract!Next

\* Every other step leaves the lines and the descriptors as they are.
LEMMA OthersUnseen ==
  ASSUME IInv,
         \/ \E t \in Threads :
              \/ \E s \in Slots :
                   \/ Listen(t, s) \/ UdpConnect(t, s) \/ GetError(t, s) \/ CallConnect(t, s)
                   \/ CallAccept(t, s) \/ CallRecv(t, s) \/ CallPoll(t, s) \/ CallSend(t, s)
              \/ Top(t) \/ SendTop(t) \/ NetPollReturns(t) \/ After(t) \/ Sleep(t)
              \/ ConnectEnds(t) \/ Recv(t)
         \/ \E p \in Pcbs :
              \/ Connected(p) \/ (\E end \in BOOLEAN : Receive(p, end))
              \/ Datagram(p) \/ Reset(p) \/ Acked(p) \/ Finished(p)
  PROVE  UNCHANGED Abstract!vars
<1> DEFINE Same == (\A l \in Slots : LineStays(l)) /\ UNCHANGED held
<1>1. socks \in [Slots -> Sock]
  BY TypeRanges DEF IInv
<1>2. CASE \/ \E t \in Threads :
              \/ \E s \in Slots : \/ CallAccept(t, s) \/ CallRecv(t, s)
                                 \/ CallPoll(t, s) \/ CallSend(t, s)
              \/ Top(t) \/ SendTop(t) \/ NetPollReturns(t) \/ After(t) \/ Sleep(t)
           \/ \E p \in Pcbs : Acked(p) \/ Finished(p)
  <2>1. UNCHANGED <<socks, held>>
    BY <1>2 DEF CallAccept, CallRecv, CallPoll, CallSend, Top, SendTop, NetPollReturns, After,
                Sleep, Acked, Finished
  <2> QED BY <2>1, Unseen DEF LineStays
<1>3. ASSUME NEW t \in Threads, NEW s \in Slots, Listen(t, s) \/ UdpConnect(t, s) \/ GetError(t, s)
      PROVE  Same
  <2>1. CASE Listen(t, s) \/ UdpConnect(t, s)
    <3>1. UNCHANGED held /\ \E state : socks' = [socks EXCEPT ![s].state = state]
      BY <2>1 DEF Listen, UdpConnect
    <3> QED BY <1>1, <3>1 DEF LineStays, Sock
  <2>2. CASE GetError(t, s)
    BY <1>1, <2>2 DEF GetError, LineStays, Sock
  <2> QED BY <1>3, <2>1, <2>2
<1>4. ASSUME NEW t \in Threads, NEW s \in Slots, CallConnect(t, s)
      PROVE  Same
  <2>1. UNCHANGED held /\ \E state : socks' = [socks EXCEPT ![s].state = state]
    BY <1>4 DEF CallConnect
  <2> QED BY <1>1, <2>1 DEF LineStays, Sock
<1>5. ASSUME NEW t \in Threads, ConnectEnds(t)
      PROVE  Same
  <2> DEFINE f == thr[t].fd
  <2>1. UNCHANGED held /\ \E err : socks' = [socks EXCEPT ![f].err = err]
    BY <1>5 DEF ConnectEnds
  <2>2. f \in Slots
    BY TypeRanges DEF IInv, Caller
  <2> HIDE DEF f
  <2> QED BY <1>1, <2>1, <2>2 DEF LineStays, Sock
<1>6. ASSUME NEW t \in Threads, Recv(t)
      PROVE  Same
  <2> DEFINE f == thr[t].fd
  <2>1. UNCHANGED held /\ \E n : \/ socks' = [socks EXCEPT ![f].udp = n]
                                \/ socks' = [socks EXCEPT ![f].rx = n]
    BY <1>1, <1>6 DEF Recv
  <2>2. f \in Slots
    BY TypeRanges DEF IInv, Caller
  <2> HIDE DEF f
  <2> QED BY <1>1, <2>1, <2>2 DEF LineStays, Sock
<1>7. ASSUME NEW p \in Pcbs, Connected(p) PROVE Same
  BY <1>1, <1>7 DEF Connected, LineStays, Sock
<1>8. ASSUME NEW p \in Pcbs, NEW end \in BOOLEAN, Receive(p, end) PROVE Same
  <2> DEFINE s == pcb[p].arg
  <2>1. UNCHANGED held /\ socks' = [socks EXCEPT ![s] = OnRecv(s, end)]
    BY <1>8 DEF Receive
  <2>2. s \in Slots => /\ OnRecv(s, end).q = socks[s].q /\ OnRecv(s, end).head = socks[s].head
                       /\ OnRecv(s, end).count = socks[s].count
    BY <1>1 DEF OnRecv, Sock
  <2> HIDE DEF s
  <2> QED BY <1>1, <2>1, <2>2 DEF LineStays
<1>9. ASSUME NEW p \in Pcbs, Datagram(p) PROVE Same
  <2> DEFINE s == pcb[p].arg
  <2>1. UNCHANGED held /\ \E n : socks' = [socks EXCEPT ![s].udp = n]
    BY <1>9 DEF Datagram
  <2> HIDE DEF s
  <2> QED BY <1>1, <2>1 DEF LineStays, Sock
<1>10. ASSUME NEW p \in Pcbs, Reset(p) PROVE Same
  <2> DEFINE s == pcb[p].arg
  <2>1. UNCHANGED held /\ (UNCHANGED socks \/ socks' = [socks EXCEPT ![s] = OnErr(s)])
    BY <1>10 DEF Reset
  <2>2. s \in Slots => /\ OnErr(s).q = socks[s].q /\ OnErr(s).head = socks[s].head
                       /\ OnErr(s).count = socks[s].count
    BY <1>1 DEF OnErr, Sock
  <2> HIDE DEF s
  <2> QED BY <1>1, <2>1, <2>2 DEF LineStays
<1> HIDE DEF Same
<1>11. Same => UNCHANGED Abstract!vars
  BY Unseen DEF Same
<1> QED BY <1>2, <1>3, <1>4, <1>5, <1>6, <1>7, <1>8, <1>9, <1>10, <1>11

LEMMA StepImplements ==
  ASSUME IInv, [Next]_vars
  PROVE  [Abstract!Next]_(Abstract!vars)
<1>1. ASSUME NEW t \in Threads, Program(t) PROVE [Abstract!Next]_(Abstract!vars)
  BY <1>1, SocketCallImplements, CloseImplements, OthersUnseen DEF Program
<1>2. ASSUME NEW t \in Threads, Step(t) PROVE [Abstract!Next]_(Abstract!vars)
  BY <1>2, AcceptImplements, OthersUnseen DEF Step
<1>3. ASSUME NEW p \in Pcbs, \/ \E b \in Pcbs : Incoming(b, p)
                             \/ Connected(p)
                             \/ \E end \in BOOLEAN : Receive(p, end)
                             \/ Datagram(p) \/ Reset(p) \/ Acked(p) \/ Finished(p)
      PROVE  [Abstract!Next]_(Abstract!vars)
  BY <1>3, IncomingImplements, OthersUnseen
<1>4. CASE UNCHANGED vars
  <2>1. \A l \in Slots : LineStays(l)
    BY <1>4 DEF vars, LineStays
  <2> QED BY <1>4, <2>1, Unseen DEF vars
<1> QED BY <1>1, <1>2, <1>3, <1>4 DEF Next, Network

LEMMA InitImplements == Init => Abstract!Init
<1> SUFFICES ASSUME Init PROVE Abstract!Init
  OBVIOUS
<1>1. Lines = [l \in Slots |-> <<>>] /\ Given = {}
  BY DEF Init, Lines, Given, Zero, RingSeq
<1> QED BY <1>1, Seen DEF Abstract!Init

\* The rings, states, control blocks and callbacks implement the backlog: the
\* connections to a listener wait in line, the first is accepted first, and
\* each once, whatever else the program, its peers and lwIP do meanwhile.
THEOREM RefinesBacklog == Spec => ImplementsBacklog
<1>1. IInv /\ [Next]_vars => [Abstract!Next]_(Abstract!vars)
  BY StepImplements
<1> QED BY Inductive, InitImplements, <1>1, PTL DEF Spec, ImplementsBacklog, Abstract!Spec

=============================================================================
