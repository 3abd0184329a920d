----------------------------- MODULE MCModelHost -----------------------------
(* Queues of one place: the second bar that waits is the one that is lost. *)
(* Four loads: sessions that break and are recovered; the same with slow   *)
(* pongs and failing pings, before the host subscribes; a gap fill that is *)
(* requested while the session holds; and a session that holds for a       *)
(* minute more with everything the host does.  In the others the host at   *)
(* most takes bars from its path.                                          *)
EXTENDS ModelHost

CONSTANTS recovery, request

VARIABLE load

MCFillers == {recovery, request}
MCReadings == {1, 2}

LoadInit == ModelInit /\ load \in {"outages", "pongs", "request", "bars"}

Before(minute) == newest' < minute /\ workerAt' = "idle" /\ ~disc'

LoadNext ==
  /\ ModelNext /\ UNCHANGED load
  /\ \/ load = "outages" /\ Before(3) /\ UNCHANGED <<slowPong, missing, requests, inbox>>
     \/ load = "pongs" /\ Before(2) /\ UNCHANGED <<requests, inbox, subscribed>>
     \/ load = "request" /\ Before(3) /\ UNCHANGED reportVars
     \/ load = "bars" /\ UNCHANGED <<reportVars, requests>>

LoadSpec ==
  /\ LoadInit /\ [][LoadNext]_<<load, modelVars>>
  /\ FeedFairness
  /\ load = "bars" => HostFairness
LoadLossReachesHost == load = "bars" => LossReachesHost
=============================================================================
