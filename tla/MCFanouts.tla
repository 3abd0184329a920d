------------------------------ MODULE MCFanouts ------------------------------
(* The two lossy fan-outs of the repository, the evidence bus of DSE_JEH   *)
(* and the transition hub of the feed satellite.  They never meet: a       *)
(* behaviour of this specification is one of the one or of the other.      *)
EXTENDS EvidenceBus, StageTransition

CONSTANTS source, main, run, recovery, ingestion, observe, infer, none, s1, s2

VARIABLE fanout

MCBusPublishers == {source, main}
MCStreams == {s1, s2}
MCReporters == {run, recovery}
MCKeys == {ingestion}
MCStageStates == {observe, infer}
MCSubscribers == {s1}

\* The two states of the stage are alike, so it starts in the first.
FanoutInit ==
  /\ BusInit /\ StageInit
  /\ fact = [k \in Keys |-> observe]
  /\ fanout \in {"bus", "hub"}

FanoutNext ==
  \/ fanout = "bus" /\ BusNext /\ UNCHANGED <<fanout, transitionVars>>
  \/ fanout = "hub" /\ StageNext /\ UNCHANGED <<fanout, busVars>>

\* Only the hub promises to catch up.
FanoutSpec ==
  /\ FanoutInit /\ [][FanoutNext]_<<fanout, busVars, transitionVars>>
  /\ fanout = "hub" => StageFairness
FanoutHubCatchesUp == fanout = "hub" => HubCatchesUp
=============================================================================
