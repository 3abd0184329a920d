---------------------------- MODULE DynamicPipeline ----------------------------
(***************************************************************************)
(* app.Pipeline in its OFFLINE configuration: Process takes one bar at a   *)
(* time through phase, eligibility, Dynamic Execution and the actions it   *)
(* orders, against the symbol's account and the common CapitalReservoir.   *)
(*                                                                         *)
(* Process runs on the source goroutine; StartReservoir and EndReservoir   *)
(* run on the main one.  They meet only at the reservoir's mutex, so the   *)
(* worker's steps below end exactly where Process takes that mutex: Mark,  *)
(* AllocationCapacity and RecordExecution.  Evidence publication and the   *)
(* counters change nothing here and are left out; every stored trace or    *)
(* phase record may fail and then ends the bar with an error.              *)
(*                                                                         *)
(* A bar reaches ReceiveBar only when admission accepted it.  Symbols may  *)
(* arrive in any order: Process has no expectation of one.                 *)
(***************************************************************************)
EXTENDS CapitalReservoir, PhasePolicy, SymbolAccount

CONSTANTS Phases,          \* angles the solver may produce
          AllocationPct,   \* in percent
          Risk,            \* in percent
          EligibilityBar,  \* analytical.ProductionEligibilityBar
          WriteResults,    \* {TRUE}: every write succeeds; BOOLEAN: any may fail
          MaxBars          \* bound: bars received in one run

ASSUME PipelineAssumption ==
  /\ Phases \subseteq 0..(FullCircle - 1)
  /\ AllocationPct \in 0..100
  /\ Risk \in 0..100
  /\ EligibilityBar \in Nat \ {0}
  /\ WriteResults \subseteq BOOLEAN
  /\ MaxBars \in Nat
  /\ 0..InitialSymbolCapital \subseteq Quantities

VARIABLES entities,   \* pipelineEntity: retained phase and strategy state, and the
                      \*   contiguous valid bars, counted up to EligibilityBar
          accounts,   \* pipelineEntity.account
          worker,     \* where Process stands with the current bar
          received    \* bars received so far

processVars == <<entities, accounts, worker, received>>
pipelineVars == <<processVars, reservoirVars>>

NoPhase == -1   \* pipelineEntity.priorPhase = nil
NoState == "UNSPECIFIED"
NoFill == [action |-> "NONE", quantity |-> 0, price |-> 0, cause |-> NoCause]

Idle == [pc |-> "idle", symbol |-> NoSymbol, close |-> 0, pending |-> <<>>, fill |-> NoFill]

NewEntity == [bars |-> 0, priorPhase |-> NoPhase, initialized |-> FALSE, state |-> NoState]

PipelineInit ==
  /\ ReservoirInit
  /\ entities = [s \in Symbols |-> NewEntity]
  /\ accounts = [s \in Symbols |-> NewAccount(InitialSymbolCapital)]
  /\ worker = Idle
  /\ received = 0

-----------------------------------------------------------------------------
\* Process returns an error: the source stops and no further bar is taken.
Fail == worker' = [worker EXCEPT !.pc = "failed"]
FailBar(s, close) == worker' = [Idle EXCEPT !.pc = "failed", !.symbol = s, !.close = close]

\* The outcomes the action loop reacts to.
ActionOutcomes == {"HOP_ON_ALLOCATE", "ENTER_HOLD_AND_TRAIL", "HOP_OFF_LIQUIDATE"}

\* SelectSeq of those, as a recursive function, which TLAPS can open.
ActingAmong(outcomes) ==
  LET kept[n \in 0..Len(outcomes)] ==
        IF n = 0 THEN <<>>
        ELSE IF outcomes[n] \in ActionOutcomes THEN Append(kept[n - 1], outcomes[n])
        ELSE kept[n - 1]
  IN  kept[Len(outcomes)]

\* Faulty variants of the action loop: every outcome is taken for an action; a
\* bar without an action is not checked against the stop; only the first action
\* of a bar is carried out.
DutiesOfEveryOutcome(outcomes, state) == outcomes
DutiesWithoutTrailing(outcomes, state) == ActingAmong(outcomes)
FirstDutyOnly(outcomes, state) ==
  LET acting == ActingAmong(outcomes)
  IN  IF acting = <<>> /\ state = "HOLD_AND_TRAIL" THEN <<"ENTER_HOLD_AND_TRAIL">>
      ELSE SelectSeq(acting, LAMBDA o : o = Head(acting))

\* A bar without any of them in HOLD_AND_TRAIL trails the stop once at the end,
\* by the same call.
Duties(outcomes, state) ==
  LET acting == ActingAmong(outcomes)
  IN  IF acting = <<>> /\ state = "HOLD_AND_TRAIL" THEN <<"ENTER_HOLD_AND_TRAIL">> ELSE acting

\* Process up to the end of Dynamic Execution, and processDynamic up to its
\* action loop.  ok is the fate of the phase record and of traces 1 to 4; the
\* record goes to a file, whose writes no context cancels.
ReceiveBar(s, phase, close, ok) ==
  LET entity   == entities[s]
      bars     == IF entity.bars < EligibilityBar THEN entity.bars + 1 ELSE entity.bars
      eligible == bars >= EligibilityBar
      delta    == ShortestCircularDisplacement(entity.priorPhase, phase)
      result   == EvaluateDynamicExecution(DeriveBoundaryFacts(phase, delta), entity.state)
      counted  == [entity EXCEPT !.bars = bars]
      phased   == [counted EXCEPT !.priorPhase = phase]
  IN  /\ worker.pc = "idle"
      /\ started
      /\ received < MaxBars
      /\ received' = received + 1
      /\ Mark(s, close)
      /\ accounts' = accounts
      /\ \/ /\ ~eligible
            /\ ok \in WriteResults
            /\ entities' = [entities EXCEPT ![s] = counted]
            /\ IF ok THEN worker' = worker ELSE FailBar(s, close)
         \/ /\ eligible /\ ~entity.initialized
            /\ ok \in WriteResults
            /\ entities' = [entities EXCEPT ![s] =
                 IF ok THEN [phased EXCEPT !.initialized = TRUE, !.state = StateForPhase(phase)]
                       ELSE phased]
            /\ IF ok THEN worker' = worker ELSE FailBar(s, close)
         \/ /\ eligible /\ entity.initialized
            /\ entities' = [entities EXCEPT ![s] = [phased EXCEPT !.state = result.state]]
            /\ IF ok THEN worker' = [Idle EXCEPT !.pc = "act", !.symbol = s, !.close = close,
                                      !.pending = Duties(result.outcomes, result.state)]
                     ELSE FailBar(s, close)
         \/ /\ eligible /\ entity.initialized
            /\ ok = FALSE /\ ok \in WriteResults
            /\ entities' = [entities EXCEPT ![s] = phased]
            /\ FailBar(s, close)

-----------------------------------------------------------------------------
account == accounts[worker.symbol]
SetAccount(a) == accounts' = [accounts EXCEPT ![worker.symbol] = a]
Done == worker' = [worker EXCEPT !.pending = Tail(@)]

\* execute: traces 5 and 6, the executor's fill, ApplyConfirmed, trace 7.  The
\* confirmed fill is on the account before trace 7 is stored, and reaches the
\* reservoir only after it.
Execute(a, action, quantity, cause, ok) ==
  LET price == worker.close
      fill  == [action |-> action, quantity |-> quantity, price |-> price, cause |-> cause]
  IN  \/ /\ ok = FALSE \/ ~Applicable(a, action, quantity, price)
         /\ SetAccount(a)
         /\ Fail
      \/ /\ Applicable(a, action, quantity, price)
         /\ SetAccount(ApplyConfirmed(a, action, quantity, price))
         /\ worker' = [worker EXCEPT !.pc = IF ok THEN "record" ELSE "failed", !.fill = fill]

Acting(duty) == worker.pc = "act" /\ worker.pending # <<>> /\ Head(worker.pending) = duty

\* A duty that ends with one trace and no execution.
TraceOnly(ok) == IF ok THEN Done ELSE Fail

Allocate(ok) ==
  /\ Acting("HOP_ON_ALLOCATE")
  /\ UNCHANGED <<entities, received, reservoirVars>>
  /\ LET basis    == AllocationCapacity(InitialSymbolCapital)
         quantity == SizeAllocation(basis, AllocationPct, worker.close)
     IN  \/ /\ account.activeQuantity # 0
            /\ TraceOnly(ok) /\ accounts' = accounts
         \/ /\ account.activeQuantity = 0 /\ worker.close = 0
            /\ Fail /\ accounts' = accounts
         \/ /\ account.activeQuantity = 0 /\ worker.close # 0
            /\ IF quantity = 0 THEN TraceOnly(ok) /\ accounts' = accounts
                               ELSE Execute(account, "ALLOCATE", quantity, "HOP_ON", ok)

HoldOrSafetyLiquidate(ok) ==
  /\ Acting("ENTER_HOLD_AND_TRAIL")
  /\ UNCHANGED <<entities, received, reservoirVars>>
  /\ LET peak    == TrailingPeak(account.peakPrice, worker.close)
         trailed == [account EXCEPT !.peakPrice = peak]
     IN  \/ /\ account.activeQuantity = 0
            /\ Done /\ accounts' = accounts
         \/ /\ account.activeQuantity # 0 /\ worker.close = 0
            /\ Fail /\ accounts' = accounts
         \/ /\ account.activeQuantity # 0 /\ worker.close # 0
            /\ IF AtOrBelowStop(worker.close, peak, Risk)
               THEN Execute(trailed, "LIQUIDATE", account.activeQuantity, "SAFETY_LIQUIDATION", ok)
               ELSE TraceOnly(ok) /\ SetAccount(trailed)

Liquidate(ok) ==
  /\ Acting("HOP_OFF_LIQUIDATE")
  /\ UNCHANGED <<entities, received, reservoirVars>>
  /\ \/ /\ account.activeQuantity = 0
        /\ Done /\ accounts' = accounts
     \/ /\ account.activeQuantity # 0
        /\ Execute(account, "LIQUIDATE", account.activeQuantity, "HOP_OFF", ok)

\* Faulty variant: a refused or failed record is not treated as an error.
RecordIgnoringErrors(ok) ==
  /\ worker.pc = "record"
  /\ RecordExecution(worker.symbol, worker.fill.action, worker.fill.quantity,
                     worker.fill.price, worker.fill.cause, ok)
  /\ worker' = [worker EXCEPT !.pc = "act", !.pending = Tail(@), !.fill = NoFill]
  /\ UNCHANGED <<entities, accounts, received>>

\* The end of execute: the reservoir records the confirmed fill, or refuses it.
Record(ok) ==
  /\ worker.pc = "record"
  /\ LET fill     == worker.fill
         recorded == Recordable(fill.action, fill.quantity, fill.price, fill.cause) /\ Acknowledged(ok)
     IN  /\ RecordExecution(worker.symbol, fill.action, fill.quantity, fill.price, fill.cause, ok)
         /\ IF recorded
            THEN worker' = [worker EXCEPT !.pc = "act", !.pending = Tail(@), !.fill = NoFill]
            ELSE Fail
  /\ UNCHANGED <<entities, accounts, received>>

\* After the loop: the capital result is valued and traced (trace 8).
Settle(ok) ==
  /\ worker.pc = "act" /\ worker.pending = <<>>
  /\ IF ok /\ (account.activeQuantity = 0 \/ worker.close # 0) THEN worker' = Idle ELSE Fail
  /\ UNCHANGED <<entities, accounts, received, reservoirVars>>

ProcessStep(ok) ==
  \/ Allocate(ok)
  \/ HoldOrSafetyLiquidate(ok)
  \/ Liquidate(ok)
  \/ Record(ok)
  \/ Settle(ok)

\* The pipeline's reservoirStarted and reservoirEnded flags are set exactly
\* where the reservoir's own started and ended are.
StartReservoir(ok) == Start(ok) /\ UNCHANGED processVars
EndReservoir(ok) == started /\ ~ended /\ End(ok) /\ UNCHANGED processVars
\* The run is over: nothing more is received and RUN_END is stored.
Finished ==
  /\ ended
  /\ worker.pc = "failed" \/ (worker.pc = "idle" /\ received = MaxBars)
  /\ UNCHANGED pipelineVars

PipelineStep(ok) ==
  \/ StartReservoir(ok)
  \/ \E s \in Symbols, phase \in Phases, close \in Prices : ReceiveBar(s, phase, close, ok)
  \/ ProcessStep(ok)
  \/ EndReservoir(ok)

PipelineNext == (\E ok \in WriteResults : PipelineStep(ok)) \/ Finished

\* The main goroutine may end the reservoir at any point of the run.
PipelineSpec == PipelineInit /\ [][PipelineNext]_pipelineVars

-----------------------------------------------------------------------------
Accounts ==
  [ startingCapital    : {InitialSymbolCapital},
    availableCapital   : Nat,
    cashRemaining      : Nat,
    activeQuantity     : Nat,
    entryPrice         : Nat,
    peakPrice          : Nat,
    cumulativeRealized : Int ]

Entities ==
  [ bars        : 0..EligibilityBar,
    priorPhase  : Phases \cup {NoPhase},
    initialized : BOOLEAN,
    state       : DynamicExecutionStates \cup {NoState} ]

Workers ==
  [ pc      : {"idle", "act", "record", "failed"},
    symbol  : Symbols \cup {NoSymbol},
    close   : Prices \cup {0},
    pending : Seq(ActionOutcomes),
    fill    : [ action   : Actions \cup {"NONE"},
                quantity : Nat,
                price    : Nat,
                cause    : Causes \cup {NoCause} ] ]

PipelineTypeOK ==
  /\ ReservoirTypeOK
  /\ entities \in [Symbols -> Entities]
  /\ accounts \in [Symbols -> Accounts]
  /\ worker \in Workers
  /\ worker.pc # "idle" => worker.symbol \in Symbols
  /\ received \in 0..MaxBars

\* A confirmed fill is on the account and not (or not yet) in the reservoir.
Unrecorded(s) == worker.symbol = s /\ worker.fill # NoFill

\* The two bookkeepings of a position agree, symbol by symbol, unless the fill
\* between them is the one in flight or the one a failure cut off: the account
\* is changed at pipeline.go:281 and the reservoir at :300, and either may be
\* refused or fail on its own.
AccountsMatchReservoir ==
  \A s \in Symbols :
    Unrecorded(s) \/ /\ accounts[s].activeQuantity = positions[s].quantity
                     /\ accounts[s].entryPrice = positions[s].entryPrice

\* Realised profit likewise: the reservoir's total is the sum of the accounts'.
RealizedProfitAgrees ==
  (\A s \in Symbols : ~Unrecorded(s)) =>
    realizedPnL = SumFunction([s \in Symbols |-> accounts[s].cumulativeRealized])

\* A confirmed purchase still fits the common cash when it reaches the
\* reservoir, although it was sized against it several steps and two failing
\* writes earlier: "confirmed allocation exceeds reservoir cash"
\* (capital_reservoir.go:160) is never the reason a fill goes unrecorded.
ConfirmedPurchaseIsAffordable ==
  worker.pc = "record" /\ worker.fill.action = "ALLOCATE" =>
    worker.fill.quantity * worker.fill.price <= cash

Quiescent(s) == entities[s].initialized /\ (worker.pc = "idle" \/ worker.symbol # s)

\* Between bars, a symbol in LIQUIDATE holds nothing, whatever mixture of
\* forward, reverse and two-boundary transitions led there (pipeline.go:188-198).
FlatInLiquidate ==
  \A s \in Symbols :
    Quiescent(s) /\ entities[s].state = "LIQUIDATE" => accounts[s].activeQuantity = 0

\* Between bars, a position held in HOLD_AND_TRAIL closed its last bar above
\* the stop of its own high-water mark: every bar in that state was checked
\* once, whichever outcome it carried (pipeline.go:176-205, 231-250).
HeldAboveStop ==
  \A s \in Symbols :
    LET a == accounts[s]
    IN  Quiescent(s) /\ entities[s].state = "HOLD_AND_TRAIL" /\ a.activeQuantity # 0 =>
          /\ a.peakPrice >= positions[s].markPrice
          /\ a.peakPrice >= a.entryPrice
          /\ ~AtOrBelowStop(positions[s].markPrice, a.peakPrice, Risk)

\* The pipeline never asks the reservoir for anything outside what the
\* reservoir's own guarantees rest on: no purchase of a held symbol, no sale of
\* another quantity than the one held (capital_reservoir.go:193-199 overwrites
\* and deletes positions unchecked).
HonoursReservoirContract == [][ReservoirStep]_reservoirVars
=============================================================================
