------------------------------ MODULE ModelHost ------------------------------
(***************************************************************************)
(* The model host behind the ingestion pipeline, for one symbol: the       *)
(* dispatcher that takes bars from the model path into the worker's inbox  *)
(* and watches the path's status, and the worker that gates a bar, lets    *)
(* the volume engine commit it, and then commits the adaptive and the      *)
(* pricing engine together or neither.                                     *)
(***************************************************************************)
EXTENDS FeedIngestion, SequencesExt

CONSTANT Inbox  \* capacity of the worker's inbox

ASSUME HostAssumption == Inbox \in Nat \ {0}

VARIABLES
  inbox,
  disc,          \* worker.disc
  workerAt,      \* "idle", "volume" or "step"
  inHand,        \* the minute the worker handles, 0 when idle
  lastAccepted,
  volDisc,       \* the volume engine is latched
  volumeCommits, \* history: minutes the volume engine committed, in order
  jointCommits   \* history: minutes adaptive and pricing committed, in order

engineVars == <<lastAccepted, volDisc, volumeCommits, jointCommits>>
hostVars == <<inbox, disc, workerAt, inHand, engineVars>>
modelVars == <<feedVars, hostVars>>

\* What the host leaves alone in the pipeline.
feedBesidesQueue == <<sourceVars, runVars, breaker, fillVars, window, subscribed,
                      modelLast, modelDisc, delivered, historyVars>>

HostInit ==
  /\ inbox = <<>> /\ disc = FALSE /\ workerAt = "idle" /\ inHand = 0
  /\ lastAccepted = 0 /\ volDisc = FALSE
  /\ volumeCommits = <<>> /\ jointCommits = <<>>

\* Host.Run, concurrently with Pipeline.Run.
SubscribeModelBars ==
  /\ ~subscribed
  /\ subscribed' = TRUE
  /\ UNCHANGED <<hostVars, sourceVars, runVars, breaker, fillVars, window, modelQueue,
                 modelLast, modelDisc, delivered, historyVars, lost>>

\* dispatch: a bar that finds no room in the inbox latches the worker.
Dispatch ==
  /\ modelQueue # <<>>
  /\ modelQueue' = Tail(modelQueue)
  /\ \/ disc /\ UNCHANGED <<inbox, disc, lost>>
     \/ /\ ~disc /\ Len(inbox) < Inbox
        /\ inbox' = Append(inbox, Head(modelQueue))
        /\ UNCHANGED <<disc, lost>>
     \/ /\ ~disc /\ Len(inbox) >= Inbox
        /\ disc' = TRUE /\ lost' = lost \union {Head(modelQueue)}
        /\ UNCHANGED inbox
  /\ UNCHANGED <<feedBesidesQueue, workerAt, inHand, engineVars>>

\* Faulty variant: the path's status counts while the worker is behind it.
PathIsBrokenAhead == modelDisc /\ modelLast > lastAccepted

PathIsBroken == modelDisc

\* After a dispatch, and on every tick.
RefreshPathStatus ==
  /\ PathIsBroken /\ ~disc
  /\ disc' = TRUE
  /\ UNCHANGED <<feedVars, inbox, workerAt, inHand, engineVars>>

\* handle, up to the volume engine.  Readiness reads breaker, window and clock
\* at different moments and shares its answer with the pipeline's goroutines,
\* so beyond the two bars it wants it can say either; the deadline may pass.
\* The latch for a proven missing bar asks an inspector Pipeline does not have.
Gate(m) == Cardinality({n \in Minutes : window[n] # NoBar}) >= 2 /\ m > lastAccepted

HandleBar ==
  /\ workerAt = "idle" /\ inbox # <<>>
  /\ inbox' = Tail(inbox)
  /\ \/ UNCHANGED <<workerAt, inHand>>
     \/ /\ ~disc /\ Gate(Head(inbox))
        /\ workerAt' = "volume" /\ inHand' = Head(inbox)
  /\ UNCHANGED <<feedVars, disc, engineVars>>

\* processVolume: a failure latches the volume engine alone.
ProcessVolume ==
  /\ workerAt = "volume"
  /\ workerAt' = "step"
  /\ \/ ~volDisc /\ volumeCommits' = Append(volumeCommits, inHand) /\ UNCHANGED volDisc
     \/ volDisc' = TRUE /\ UNCHANGED volumeCommits
  /\ UNCHANGED <<feedVars, inbox, disc, inHand, lastAccepted, jointCommits>>

\* Both engines commit, or neither: an error or the deadline skips the bar, a
\* panic latches the worker.
StepEngines ==
  /\ workerAt = "step"
  /\ workerAt' = "idle" /\ inHand' = 0
  /\ \/ /\ jointCommits' = Append(jointCommits, inHand)
        /\ lastAccepted' = inHand
        /\ UNCHANGED disc
     \/ disc' \in {disc, TRUE} /\ UNCHANGED <<jointCommits, lastAccepted>>
  /\ UNCHANGED <<feedVars, inbox, volDisc, volumeCommits>>

Work == HandleBar \/ ProcessVolume \/ StepEngines

HostNext == SubscribeModelBars \/ Dispatch \/ RefreshPathStatus \/ Work

ModelInit == FeedInit /\ HostInit
ModelNext == HostNext \/ (FeedNext /\ UNCHANGED hostVars)

\* Dispatcher and worker wait for nothing but their channels; the dispatcher
\* polls the path's status every 50 ms.
HostFairness ==
  /\ WF_modelVars(Dispatch) /\ WF_modelVars(RefreshPathStatus) /\ WF_modelVars(Work)

ModelSpec == ModelInit /\ [][ModelNext]_modelVars /\ FeedFairness /\ HostFairness
-----------------------------------------------------------------------------
(* Properties.                                                             *)

Ascending(s) == \A i, j \in 1..Len(s) : i < j => s[i] < s[j]

\* The volume engine is recursive and commits ahead of the others, before the
\* bar counts as accepted: still it never takes a minute twice nor backwards,
\* not even one whose joint step failed and that is corrected later
\* (fanoutModel's order, since handle compares with joint commits only).
VolumeIsCausal == Ascending(volumeCommits)

\* No engine goes on past a bar that was lost to a full queue, though the loss
\* is noticed in another goroutine than the one that commits (fanoutModel,
\* dispatch and handle).
NoCommitPastLoss ==
  \A l \in lost : \A c \in ToSet(volumeCommits) \union ToSet(jointCommits) : c < l

\* A loss on the path reaches the worker, also when no bar follows it
\* (refreshPathStatus).
LossReachesHost == modelDisc ~> disc

=============================================================================
