---------------------------- MODULE ApplicationRun ----------------------------
(***************************************************************************)
(* app.Application around the pipeline: the main goroutine starts the      *)
(* reservoir, launches the source, waits in its select for cancellation,   *)
(* for the source's result or for a gRPC failure, and shuts down.  The     *)
(* source goroutine replays bars into Process meanwhile; nothing makes one *)
(* wait for the other.                                                     *)
(***************************************************************************)
EXTENDS DynamicPipeline

CONSTANTS ReplayPosition,   \* the repository's sort: symbol by symbol
          RemainRunning,    \* config.RemainRunning
          MaxStreams        \* bound: evidence subscriptions open at a time

ASSUME ApplicationAssumption ==
  /\ ReplayPosition \in [Symbols -> Nat]
  /\ RemainRunning \in BOOLEAN
  /\ MaxStreams \in Nat

VARIABLES lifecycle,   \* runtime.State's lifecycle status
          main,        \* where Application.Run stands
          source,      \* "off", "running", or the result in sourceErrors
          replayed,    \* sort position of the symbol replayed last
          cancelled,   \* the run's context is done
          streams      \* open SubscribeRuntimeEvidence calls

applicationVars == <<lifecycle, main, source, replayed, cancelled, streams>>
vars == <<pipelineVars, applicationVars>>

Init ==
  /\ PipelineInit
  /\ lifecycle = "STARTING"
  /\ main = "listening"
  /\ source = "off"
  /\ replayed = 0
  /\ cancelled = FALSE
  /\ streams = 0

Alive == main # "returned"

\* Writes made under the run's context fail once it is done, except those that
\* were already under way; EndReservoir writes under a context of its own.
ContextWriteResults == IF cancelled THEN BOOLEAN ELSE WriteResults

-----------------------------------------------------------------------------
\* The main goroutine.
Listen(ok) ==
  /\ main = "listening"
  /\ IF ok THEN lifecycle' = "RUNNING" /\ main' = "starting"
           ELSE lifecycle' = "FAILED" /\ main' = "returned"
  /\ UNCHANGED <<pipelineVars, source, replayed, cancelled, streams>>

StartRun(ok) ==
  /\ main = "starting"
  /\ StartReservoir(ok)
  /\ IF Acknowledged(ok)
     THEN main' = "select" /\ source' = "running"
     ELSE main' = "shutdown" /\ source' = source
  /\ UNCHANGED <<lifecycle, replayed, cancelled, streams>>

\* Pipeline.EndReservoir: a second call after a success does nothing.
EndOnce(ok) == IF started /\ ~ended THEN EndReservoir(ok) ELSE UNCHANGED pipelineVars
EndSucceeds(ok) == started /\ ~ended => Acknowledged(ok)

\* Faulty variant: a run whose source has already returned ignores cancellation.
SelectCancelledWhileSourceRuns ==
  /\ main = "select" /\ cancelled /\ source # "taken"
  /\ main' = "shutdown"
  /\ UNCHANGED <<pipelineVars, lifecycle, source, replayed, cancelled, streams>>

SelectCancelled ==
  /\ main = "select" /\ cancelled
  /\ main' = "shutdown"
  /\ UNCHANGED <<pipelineVars, lifecycle, source, replayed, cancelled, streams>>

\* Faulty variant: the reservoir is ended only when the source completed.
SelectSourceResultEndingOnSuccess(ok) ==
  /\ main = "select" /\ source \in {"completed", "error"}
  /\ IF source = "completed" THEN EndOnce(ok) ELSE UNCHANGED pipelineVars
  /\ source' = "taken"
  /\ lifecycle' = IF source = "error" THEN "DEGRADED" ELSE lifecycle
  /\ main' = IF RemainRunning THEN "select" ELSE "shutdown"
  /\ UNCHANGED <<replayed, cancelled, streams>>

SelectSourceResult(ok) ==
  /\ main = "select" /\ source \in {"completed", "error"}
  /\ EndOnce(ok)
  /\ source' = "taken"
  /\ lifecycle' = IF EndSucceeds(ok) /\ source = "error" THEN "DEGRADED" ELSE lifecycle
  /\ main' = IF EndSucceeds(ok) /\ RemainRunning THEN "select" ELSE "shutdown"
  /\ UNCHANGED <<replayed, cancelled, streams>>

\* A gRPC failure returns at once: no shutdown, no RUN_END.
SelectServeError ==
  /\ main = "select"
  /\ lifecycle' = "FAILED"
  /\ main' = "returned"
  /\ UNCHANGED <<pipelineVars, source, replayed, cancelled, streams>>

\* Faulty variant: shutdown leaves the reservoir open.
DrainWithoutRunEnd(ok) ==
  /\ main = "shutdown"
  /\ lifecycle' = "DRAINING"
  /\ main' = "stopping"
  /\ UNCHANGED <<pipelineVars, source, replayed, cancelled, streams>>

\* shutdown: STOPPING, DRAINING, EndReservoir (its error is only logged) ...
Drain(ok) ==
  /\ main = "shutdown"
  /\ EndOnce(ok)
  /\ lifecycle' = "DRAINING"
  /\ main' = "stopping"
  /\ UNCHANGED <<source, replayed, cancelled, streams>>

\* ... GracefulStop, which waits for every open stream; then the writers are
\* closed and Run returns, which ends the process and the source with it.
Stop ==
  /\ main = "stopping" /\ streams = 0
  /\ lifecycle' = "STOPPED"
  /\ main' = "returned"
  /\ UNCHANGED <<pipelineVars, source, replayed, cancelled, streams>>

-----------------------------------------------------------------------------
\* The source goroutine.  Neither its loop nor Process asks whether the context
\* is done; only the writes they make do.
EmitBar ==
  /\ Alive /\ source = "running"
  /\ \E s \in Symbols, phase \in Phases, close \in Prices, ok \in ContextWriteResults :
       /\ ReplayPosition[s] >= replayed
       /\ replayed' = ReplayPosition[s]
       /\ ReceiveBar(s, phase, close, ok)
  /\ UNCHANGED <<lifecycle, main, source, cancelled, streams>>

ProcessBar ==
  /\ Alive
  /\ \E ok \in ContextWriteResults : ProcessStep(ok)
  /\ UNCHANGED applicationVars

\* What the source puts in sourceErrors: Process's error or none, or the error
\* of a repository that cannot be read or holds nothing, before the first bar.
\* An error that wraps context.Canceled is handled as a completion.
SourceResults ==
  IF worker.pc = "failed" THEN {"error"} \cup (IF cancelled THEN {"completed"} ELSE {})
  ELSE IF received = 0 THEN {"error", "completed"}
  ELSE {"completed"}

\* Faulty variant: the source returns without waiting for Process.
SourceReturnsEarly ==
  /\ Alive /\ source = "running"
  /\ source' \in SourceResults
  /\ UNCHANGED <<pipelineVars, lifecycle, main, replayed, cancelled, streams>>

\* The replay is exhausted, could not be read, or Process returned an error.
SourceReturns ==
  /\ Alive /\ source = "running"
  /\ worker.pc \in {"idle", "failed"}
  /\ source' \in SourceResults
  /\ UNCHANGED <<pipelineVars, lifecycle, main, replayed, cancelled, streams>>

-----------------------------------------------------------------------------
\* The surroundings: a signal or the stop file, and evidence subscribers.
Cancel ==
  /\ Alive /\ ~cancelled
  /\ cancelled' = TRUE
  /\ UNCHANGED <<pipelineVars, lifecycle, main, source, replayed, streams>>

OpenStream ==
  /\ main \in {"starting", "select", "shutdown"} /\ streams < MaxStreams
  /\ streams' = streams + 1
  /\ UNCHANGED <<pipelineVars, lifecycle, main, source, replayed, cancelled>>

CloseStream ==
  /\ Alive /\ streams > 0
  /\ streams' = streams - 1
  /\ UNCHANGED <<pipelineVars, lifecycle, main, source, replayed, cancelled>>

MainStep ==
  \/ \E ok \in BOOLEAN : Listen(ok)
  \/ \E ok \in ContextWriteResults : StartRun(ok)
  \/ \E ok \in WriteResults : SelectSourceResult(ok) \/ Drain(ok)
  \/ SelectCancelled
  \/ Stop

Returned == main = "returned" /\ UNCHANGED vars

Next ==
  \/ MainStep
  \/ SelectServeError
  \/ EmitBar \/ ProcessBar \/ SourceReturns
  \/ Cancel \/ OpenStream \/ CloseStream
  \/ Returned

Spec == Init /\ [][Next]_vars

\* Both goroutines are scheduled; bars, cancellation, gRPC failures and
\* subscriptions are not promised to happen.
Fairness == WF_vars(MainStep) /\ WF_vars(ProcessBar) /\ WF_vars(SourceReturns)

FairSpec == Spec /\ Fairness

\* In addition every subscriber eventually hangs up.
PatientSpec == FairSpec /\ WF_vars(CloseStream)

-----------------------------------------------------------------------------
\* RUN_END can no longer be stored: memory reuses the number of a document the
\* store kept without acknowledging it.
RunEndRefused == Len(ledger) > sequence /\ ~closing.stored

\* With a store that fails only writes whose context was cancelled, every run
\* that stops in order has stored its RUN_END, at whatever point of whatever bar
\* it was cancelled or failed; a cancelled flow that was stored all the same is
\* the one exception (application.go:201-226, 249-280).
OrderlyStopStoresRunEnd == lifecycle = "STOPPED" /\ started => closing.stored \/ RunEndRefused

\* With a store that works, the RUN_END of a run nobody cancelled accounts for
\* every confirmed fill: the source has returned before the reservoir is ended
\* (application.go:209-213).
RunEndCoversConfirmedFills ==
  closing.stored /\ ~cancelled => \A s \in Symbols : ~Unrecorded(s)

\* What the design promises of any stop: accepted work is drained before it.
AcceptedWorkDrained == lifecycle = "STOPPED" => worker.pc \notin {"act", "record"}

\* A cancelled run comes to an end.
CancelledRunEnds == cancelled ~> ~Alive

\* What the runtime report promises of shutdown: it reaches STOPPED.
ShutdownReachesStopped == main = "shutdown" ~> lifecycle = "STOPPED"

\* Once the source has returned, the run's totals get stored, with the same
\* exception and unless the gRPC server failed first (application.go:204-213).
SourceResultLeadsToRunEnd ==
  source \in {"completed", "error"} ~> closing.stored \/ RunEndRefused \/ lifecycle = "FAILED"
=============================================================================
