-------------------------- MODULE MCOnlineAdmission --------------------------
(* Three minutes of one symbol, one of them also as an unfinished bar and  *)
(* as another reading from the historical source, and a newer one only the *)
(* historical source has; one minute of another symbol.  A window of two   *)
(* and a queue of one: a bar can be evicted, replaced, dropped, repeated,  *)
(* late and filled in.                                                     *)
EXTENDS OnlineAdmission

CONSTANTS a, b, live, recovery

MCSymbols == {a, b}
MCProducers == {live, recovery}
Of(s, m, kind, reading) == [symbol |-> s, minute |-> m, kind |-> kind, reading |-> reading]
MCLiveBars == {Of(a, m, "bar", 1) : m \in 1..3} \union {Of(a, 2, "update", 2), Of(b, 1, "bar", 1)}
MCFilledBars == {Of(a, 2, "filled", 3), Of(a, 4, "filled", 1)}
=============================================================================
