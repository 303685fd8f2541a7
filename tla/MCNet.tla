------------------------------- MODULE MCNet -------------------------------
(* The command lines TLC checks Net with. *)
EXTENDS Net

Other == [ip |-> FALSE, fields |-> <<"junk">>]
Ip(fields) == [ip |-> TRUE, fields |-> fields]
Base(client) == <<client, "empty", "quad", "quad">>
Named(f, d) == Base("quad") \o <<"junk", "junk", "junk">> \o f \o d

\* none; a static address; one without a client; two parameters; and name
\* servers of every kind, with and without more fields behind them
MCCmdlines ==
  {<<Other>>, <<Other, Ip(Base("quad"))>>, <<Ip(Base("empty")), Other>>, <<Ip(Base("any"))>>,
   <<Ip(<<"quad", "empty", "quad">>)>>, <<Ip(Base("junk")), Ip(Base("quad"))>>}
  \cup {<<Other, Ip(Named(<<f>>, d))>> : f \in FieldKinds, d \in {<<>>, <<"quad">>, <<"quad", "junk">>}}
=============================================================================
