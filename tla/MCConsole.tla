----------------------------- MODULE MCConsole -----------------------------
(* The buffers of the program TLC checks Console with. *)
EXTENDS Console

\* a read() of two bytes, and two readv()s: as musl's stdio calls it for one
\* character, and into two buffers of one byte
MCIovLens == {<<2>>, <<0, 1>>, <<1, 1>>}
=============================================================================
