----------------------------- MODULE MCSockets -----------------------------
(* Sockets for TLC: the calls the threads make, and for the run that checks *)
(* safety only, threads and lwIP's control blocks that are interchangeable. *)
EXTENDS Sockets, TLC

\* the workers of a server
Acceptors == [t \in Threads |-> {"accept"}]

\* one thread that makes every call, and others that poll
Client == CHOOSE t \in Threads : TRUE
Everything == [t \in Threads |->
  IF t = Client THEN {"accept", "connect", "recv", "send", "pollout"} ELSE {"pollin"}]

Symmetry == Permutations(Pcbs) \cup Permutations(Threads)
=============================================================================
