-------------------------------- MODULE Dns --------------------------------
(***************************************************************************)
(* resolve() of port/dns_shim.c: a query handed to lwIP, and a loop that   *)
(* polls the network until lwIP calls back or 30 seconds have passed.  The *)
(* callback writes into one static dns_wait, whichever query it is for.    *)
(*                                                                         *)
(* A name stands for its own address.  lwIP is outside the port: it caches *)
(* the answers it gets, forgets them when they expire, and calls back once *)
(* for each query, inside net_poll(), with the address or with NULL.       *)
(***************************************************************************)
EXTENDS Naturals

CONSTANTS
  Names,
  NoName    \* no address

ASSUME NamesAssumption == NoName \notin Names

VARIABLES
  w,        \* the static struct dns_wait
  asking,   \* the names of lwIP's queries in progress
  cache,    \* the names lwIP has an address for
  pc, name, \* the caller: where it is, and what it asks for
  result,   \* what the last resolve() returned, NoName for -1
  earlier   \* history: the queries others had left to lwIP when it began

vars == <<w, asking, cache, pc, name, result, earlier>>

\* w after its memset()
Cleared == [done |-> FALSE, ok |-> FALSE, addr |-> NoName]

Init ==
  /\ w = Cleared
  /\ asking = {} /\ cache = {}
  /\ pc = "idle" /\ name = NoName /\ result = NoName /\ earlier = {}

\* Mutant of Prepared: what the last callback wrote is still there
PreparedNot == w

\* w when the query goes out
Prepared == Cleared

\* dns_gethostbyname() has the address, refuses, or queues a query.
Resolve(n) ==
  /\ pc = "idle"
  /\ w' = Prepared
  /\ name' = n /\ earlier' = asking
  /\ \/ /\ n \in cache
        /\ result' = n
        /\ UNCHANGED <<asking, pc>>
     \/ /\ n \notin cache
        /\ result' = NoName
        /\ UNCHANGED <<asking, pc>>
     \/ /\ n \notin cache
        /\ asking' = asking \cup {n}
        /\ pc' = "test"
        /\ UNCHANGED result
  /\ UNCHANGED cache

\* while (!w.done) ...
Test ==
  /\ pc = "test"
  /\ IF w.done
       THEN pc' = "idle" /\ result' = (IF w.ok THEN w.addr ELSE NoName)
       ELSE pc' = "poll" /\ UNCHANGED result
  /\ UNCHANGED <<w, asking, cache, name, earlier>>

\* on_found()
OnFound(addr) ==
  IF addr # NoName THEN [done |-> TRUE, ok |-> TRUE, addr |-> addr]
                   ELSE [w EXCEPT !.done = TRUE]

Answer(n) ==
  /\ n \in asking
  /\ asking' = asking \ {n}
  /\ cache' = cache \cup {n}
  /\ w' = OnFound(n)

GiveUp(n) ==
  /\ n \in asking
  /\ asking' = asking \ {n}
  /\ w' = OnFound(NoName)
  /\ UNCHANGED cache

\* lwIP calls back inside net_poll(); so it does inside any other net_poll()
\* of the program while nobody resolves.
LwIP ==
  /\ pc \in {"poll", "idle"}
  /\ \E n \in Names : Answer(n) \/ GiveUp(n)
  /\ UNCHANGED <<pc, name, result, earlier>>

Expire(n) ==
  /\ n \in cache
  /\ cache' = cache \ {n}
  /\ UNCHANGED <<w, asking, pc, name, result, earlier>>

\* net_poll() returns; only then does the loop look at the time, and a query
\* that takes longer is left to lwIP.
PollReturns ==
  /\ pc = "poll"
  /\ \/ pc' = "test" /\ UNCHANGED result
     \/ pc' = "idle" /\ result' = NoName
  /\ UNCHANGED <<w, asking, cache, name, earlier>>

Next ==
  \/ \E n \in Names : Resolve(n) \/ Expire(n)
  \/ Test \/ LwIP \/ PollReturns

Spec == Init /\ [][Next]_vars

-----------------------------------------------------------------------------
(* Properties *)

\* The address resolve() returns is never one that was left over from a lookup
\* that is over: it is that of the name it was asked for, or of one whose query
\* an earlier resolve() had given up and lwIP had not.  Without such a query it
\* is the right one.  (With one it may be the wrong one: "a late callback just
\* harmlessly writes into memory nobody's reading anymore" is not so while the
\* next resolve() waits on the same dns_wait.)
AnswerNotStale ==
  pc = "idle" /\ result # NoName => result = name \/ result \in earlier

=============================================================================
