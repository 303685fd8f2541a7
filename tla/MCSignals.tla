----------------------------- MODULE MCSignals -----------------------------
(* The dispositions TLC checks Signals with. *)
EXTENDS Signals

Fn(mask, flags) == [handler |-> "fn", mask |-> mask, flags |-> flags]

\* handlers that end waits or restart them, one of them for one time only and
\* with everything blocked, one that may be entered again, and SIG_IGN
MCDispositions ==
  [g \in Sig |-> IF g = SigKill THEN {}
                 ELSE IF g \in Ignorable
                        THEN {Fn({}, {}), Fn({}, {"NODEFER", "RESTART"})}
                        ELSE {Fn({9, 17}, {"RESTART", "RESETHAND"}),
                              [Default EXCEPT !.handler = "ign"]}]
=============================================================================
