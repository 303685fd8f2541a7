------------------------------ MODULE Backlog ------------------------------
(***************************************************************************)
(* What the sockets of port/net_shim.c promise a server, without rings,    *)
(* states or control blocks: each connection to a listener waits in line   *)
(* until an accept() hands it to the program or the listener is closed; it *)
(* is handed out once, and those that came first are handed out first.     *)
(***************************************************************************)
EXTENDS Sequences, Naturals

CONSTANTS
  Sock,   \* what a descriptor can stand for
  Room    \* how many connections wait for one listener

VARIABLES
  waiting,   \* the connections in line for each listener
  given      \* what the program has a descriptor of

vars == <<waiting, given>>

InLine(l) == {waiting[l][i] : i \in 1 .. Len(waiting[l])}

\* It is in no line, and nothing is in line for it.
IsNew(s) == waiting[s] = <<>> /\ \A l \in Sock : s \notin InLine(l)

Init == waiting = [l \in Sock |-> <<>>] /\ given = {}

\* socket()
Open(s) ==
  /\ given' = given \cup {s}
  /\ IsNew(s)
  /\ UNCHANGED waiting

\* A client's connection to a listener is complete, and there is room for it.
Arrive(l, s) ==
  /\ UNCHANGED given
  /\ Len(waiting[l]) < Room /\ waiting' = [waiting EXCEPT ![l] = Append(@, s)]
  /\ IsNew(s)

\* accept() hands out the first in line.
Take(l) ==
  /\ waiting[l] # <<>>
  /\ given' = given \cup {Head(waiting[l])}
  /\ waiting' = [waiting EXCEPT ![l] = Tail(@)]

\* close(): whoever is in line for it is turned away.
Close(s) ==
  /\ given' = given \ {s}
  /\ waiting' = [waiting EXCEPT ![s] = <<>>]

Next ==
  \/ \E s \in Sock \ given : Open(s) \/ \E l \in given : Arrive(l, s)
  \/ \E s \in given : Take(s) \/ Close(s)

Spec == Init /\ [][Next]_vars

=============================================================================
