--------------------------- MODULE CapitalReservoir ---------------------------
(***************************************************************************)
(* execution.CapitalReservoir: the run's cash, the positions bought from   *)
(* it, and the event documents it stores, one per movement of capital.     *)
(* Every operation holds the mutex throughout, so each is one action.  The *)
(* store may lose a write, or keep it and lose the acknowledgement; either *)
(* way the operation returns an error and memory stays as it was.          *)
(*                                                                         *)
(* Money, prices and quantities are naturals (the code uses float64 for    *)
(* the first two): rounding is not modelled.                               *)
(***************************************************************************)
EXTENDS Integers, Sequences, FiniteSets, Functions

CONSTANTS Symbols,               \* the symbols of the run
          NoSymbol,              \* the symbol of RUN_START and RUN_END
          SymbolCount,           \* GovernedReservoirSymbolCount
          InitialSymbolCapital,  \* RunParameters.StartingCapital
          Quantities, Prices,    \* what callers may pass, zero included
          MaxSequence            \* bound: documents acknowledged in one run

ASSUME ReservoirAssumption ==
  /\ Quantities \subseteq Nat
  /\ Prices \subseteq Nat
  /\ MaxSequence \in Nat
  /\ IsFiniteSet(Symbols)
  /\ NoSymbol \notin Symbols
  /\ SymbolCount \in Nat \ {0}
  /\ InitialSymbolCapital \in Nat \ {0}

InitialReservoir == SymbolCount * InitialSymbolCapital

VARIABLES cash, realizedPnL, sequence, started, ended, positions,
          ledger,   \* external: the stored documents, oldest first
          closing   \* external: the totals of the stored RUN_END document

memory == <<cash, realizedPnL, sequence, started, ended, positions>>
store == <<ledger, closing>>
reservoirVars == <<cash, realizedPnL, sequence, started, ended, positions, ledger, closing>>

\* A symbol absent from the Go map reads as its zero value.
NoPosition == [quantity |-> 0, entryPrice |-> 0, markPrice |-> 0]
NoClosing == [stored |-> FALSE]

ReservoirInit ==
  /\ cash = InitialReservoir
  /\ realizedPnL = 0
  /\ sequence = 0
  /\ started = FALSE
  /\ ended = FALSE
  /\ positions = [s \in Symbols |-> NoPosition]
  /\ ledger = <<>>
  /\ closing = NoClosing

EventTypes == {"RUN_START", "OUTFLOW", "INFLOW", "RUN_END"}
Actions == {"ALLOCATE", "LIQUIDATE"}
Causes == {"HOP_ON", "HOP_OFF", "SAFETY_LIQUIDATION"}
NoCause == "NONE"

-----------------------------------------------------------------------------
\* Faulty variant: the collection has no unique index.
NoUniqueIndex == TRUE

\* The unique index on (pipeline_run_id, event_sequence).
StoredSequences == {ledger[i].eventSequence : i \in DOMAIN ledger}
NextSequenceFree == sequence + 1 \notin StoredSequences

\* ok = FALSE: the call to the store fails, whether or not it was carried out.
\* The caller sees success only of a write that worked and met no duplicate.
Acknowledged(ok) == ok /\ NextSequenceFree

\* One Write of a document numbered sequence + 1.
Persist(event, ok) ==
  \/ NextSequenceFree /\ ledger' = Append(ledger, event)
  \/ ~Acknowledged(ok) /\ ledger' = ledger

BaseEvent(eventType) ==
  [ eventType           |-> eventType,
    eventSequence       |-> sequence + 1,
    symbol              |-> NoSymbol,
    cause               |-> NoCause,
    quantity            |-> 0,
    executionPrice      |-> 0,
    reservoirBefore     |-> cash,
    reservoirAfter      |-> cash,
    activeQuantityAfter |-> 0 ]

Start(ok) ==
  /\ ~started
  /\ Persist(BaseEvent("RUN_START"), ok)
  /\ started' = Acknowledged(ok)
  /\ sequence' = IF Acknowledged(ok) THEN sequence + 1 ELSE sequence
  /\ UNCHANGED <<cash, realizedPnL, ended, positions, closing>>

\* Faulty variant: a purchase is not checked against the cash.
RecordableUncapped(action, quantity, price, cause) ==
  /\ started /\ ~ended
  /\ quantity > 0 /\ price > 0
  /\ action = "ALLOCATE" => cause = "HOP_ON"
  /\ action = "LIQUIDATE" => cause \in {"HOP_OFF", "SAFETY_LIQUIDATION"}

\* The checks RecordExecution makes before it builds the document.
Recordable(action, quantity, price, cause) ==
  /\ started /\ ~ended
  /\ quantity > 0 /\ price > 0
  /\ action = "ALLOCATE" => cause = "HOP_ON" /\ quantity * price <= cash
  /\ action = "LIQUIDATE" => cause \in {"HOP_OFF", "SAFETY_LIQUIDATION"}

FlowEvent(s, action, quantity, price, cause) ==
  [ BaseEvent(IF action = "ALLOCATE" THEN "OUTFLOW" ELSE "INFLOW") EXCEPT
      !.symbol = s,
      !.cause = cause,
      !.quantity = quantity,
      !.executionPrice = price,
      !.reservoirAfter = IF action = "ALLOCATE" THEN cash - quantity * price
                                                ELSE cash + quantity * price,
      !.activeQuantityAfter = IF action = "ALLOCATE" THEN quantity ELSE 0 ]

\* Faulty variant: profit is realised against the last mark, not the entry.
ApplyFlowAgainstMark(s, action, quantity, price, event) ==
  /\ cash' = event.reservoirAfter
  /\ sequence' = event.eventSequence
  /\ positions' = [positions EXCEPT ![s] =
        IF action = "ALLOCATE" THEN [quantity |-> quantity, entryPrice |-> price, markPrice |-> price]
                               ELSE NoPosition]
  /\ realizedPnL' = IF action = "ALLOCATE" THEN realizedPnL
                    ELSE realizedPnL + quantity * (price - positions[s].markPrice)

\* Faulty variant: a sale leaves the position in the map.
ApplyFlowKeepingPosition(s, action, quantity, price, event) ==
  /\ cash' = event.reservoirAfter
  /\ sequence' = event.eventSequence
  /\ IF action = "ALLOCATE"
     THEN /\ positions' = [positions EXCEPT ![s] =
                [quantity |-> quantity, entryPrice |-> price, markPrice |-> price]]
          /\ realizedPnL' = realizedPnL
     ELSE /\ positions' = positions
          /\ realizedPnL' = realizedPnL + quantity * (price - positions[s].entryPrice)

ApplyFlow(s, action, quantity, price, event) ==
  /\ cash' = event.reservoirAfter
  /\ sequence' = event.eventSequence
  /\ IF action = "ALLOCATE"
     THEN /\ positions' = [positions EXCEPT ![s] =
                [quantity |-> quantity, entryPrice |-> price, markPrice |-> price]]
          /\ realizedPnL' = realizedPnL
     ELSE /\ positions' = [positions EXCEPT ![s] = NoPosition]
          /\ realizedPnL' = realizedPnL + quantity * (price - positions[s].entryPrice)

RecordExecution(s, action, quantity, price, cause, ok) ==
  \/ /\ Recordable(action, quantity, price, cause)
     /\ LET event == FlowEvent(s, action, quantity, price, cause)
        IN  /\ Persist(event, ok)
            /\ IF Acknowledged(ok)
               THEN ApplyFlow(s, action, quantity, price, event)
               ELSE UNCHANGED <<cash, sequence, positions, realizedPnL>>
     /\ UNCHANGED <<started, ended, closing>>
  \/ /\ ~Recordable(action, quantity, price, cause)
     /\ UNCHANGED reservoirVars

Mark(s, price) ==
  /\ positions' = IF positions[s].quantity # 0 /\ price > 0
                  THEN [positions EXCEPT ![s].markPrice = price]
                  ELSE positions
  /\ UNCHANGED <<cash, realizedPnL, sequence, started, ended, store>>

Invested == SumFunction([s \in Symbols |-> positions[s].quantity * positions[s].entryPrice])
Deployed == SumFunction([s \in Symbols |-> positions[s].quantity * positions[s].markPrice])
Unrealized ==
  SumFunction([s \in Symbols |->
    positions[s].quantity * (positions[s].markPrice - positions[s].entryPrice)])

\* Faulty variant: open positions are valued at their entry price.
TotalsAtEntry ==
  [ stored          |-> TRUE,
    reservoirCash   |-> cash,
    totalDeployed   |-> Invested,
    realizedPnL     |-> realizedPnL,
    unrealizedPnL   |-> Unrealized,
    totalPnL        |-> cash + Invested - InitialReservoir,
    activePositions |-> Cardinality({s \in Symbols : positions[s].quantity # 0}) ]

Totals ==
  [ stored          |-> TRUE,
    reservoirCash   |-> cash,
    totalDeployed   |-> Deployed,
    realizedPnL     |-> realizedPnL,
    unrealizedPnL   |-> Unrealized,
    totalPnL        |-> cash + Deployed - InitialReservoir,
    activePositions |-> Cardinality({s \in Symbols : positions[s].quantity # 0}) ]

End(ok) ==
  \/ /\ started /\ ~ended
     /\ Persist(BaseEvent("RUN_END"), ok)
     /\ closing' = IF ledger' = ledger THEN closing ELSE Totals
     /\ sequence' = IF Acknowledged(ok) THEN sequence + 1 ELSE sequence
     /\ ended' = Acknowledged(ok)
     /\ UNCHANGED <<cash, realizedPnL, started, positions>>
  \/ /\ ~started \/ ended
     /\ UNCHANGED reservoirVars

\* Faulty variant: an allocation is sized by the symbol's ceiling alone.
CapacityIgnoringCash(symbolCeiling) == symbolCeiling

AllocationCapacity(symbolCeiling) == IF symbolCeiling < cash THEN symbolCeiling ELSE cash

-----------------------------------------------------------------------------
\* What the reservoir relies on its caller for and does not check itself: a
\* symbol is bought only while it is flat and sold only in full.
Allocation(s, quantity, price, ok) ==
  /\ positions[s].quantity = 0
  /\ RecordExecution(s, "ALLOCATE", quantity, price, "HOP_ON", ok)

Liquidation(s, price, cause, ok) ==
  /\ positions[s].quantity # 0
  /\ RecordExecution(s, "LIQUIDATE", positions[s].quantity, price, cause, ok)

ReservoirStep ==
  \/ \E ok \in BOOLEAN : Start(ok)
  \/ \E s \in Symbols, q \in Quantities, p \in Prices, ok \in BOOLEAN : Allocation(s, q, p, ok)
  \/ \E s \in Symbols, p \in Prices, c \in Causes, ok \in BOOLEAN : Liquidation(s, p, c, ok)
  \/ \E s \in Symbols, p \in Prices : Mark(s, p)
  \/ \E ok \in BOOLEAN : End(ok)

ReservoirNext == ReservoirStep /\ sequence' <= MaxSequence

ReservoirSpec == ReservoirInit /\ [][ReservoirNext]_reservoirVars

-----------------------------------------------------------------------------
LedgerDocuments ==
  [ eventType           : EventTypes,
    eventSequence       : Nat,
    symbol              : Symbols \cup {NoSymbol},
    cause               : Causes \cup {NoCause},
    quantity            : Nat,
    executionPrice      : Nat,
    reservoirBefore     : Nat,
    reservoirAfter      : Nat,
    activeQuantityAfter : Nat ]

ReservoirTypeOK ==
  /\ cash \in Nat
  /\ realizedPnL \in Int
  /\ sequence \in Nat
  /\ started \in BOOLEAN
  /\ ended \in BOOLEAN
  /\ positions \in [Symbols -> [quantity : Nat, entryPrice : Nat, markPrice : Nat]]
  /\ ledger \in Seq(LedgerDocuments)

\* Every unit of cash that left went into a position at its entry price, and
\* every unit gained or lost is in realizedPnL, through any order of purchases,
\* sales, marks and failed writes (RecordExecution, capital_reservoir.go:130-201).
CashConservation == cash + Invested = InitialReservoir + realizedPnL

\* The abstract ledger over this module's documents.
Replay == INSTANCE RunLedger

\* The reservoir implements the replay ledger: whatever writes fail or lose
\* their acknowledgement, the stored documents chain, each symbol's flows
\* alternate in full, and nothing follows RUN_END (persist and its callers,
\* capital_reservoir.go:112-242).
LedgerSpec == Replay!Spec

\* Every symbol is held in memory as a replay of the stored flows holds it.
PositionsReplayed ==
  \A s \in Symbols :
    IF positions[s].quantity = 0 THEN Replay!HoldsNothing(s)
                                 ELSE Replay!Holds(s, positions[s].quantity)

\* Memory agrees with what a replay of the stored documents yields, except for
\* at most one document that was stored without being acknowledged; from then
\* on the store refuses every write, because memory reuses the sequence number
\* (baseEvent, capital_reservoir.go:318-337).
MemoryTracksLedger ==
  \/ /\ Len(ledger) = sequence
     /\ cash = Replay!Balance
     /\ started <=> Replay!Opened
     /\ ended <=> Replay!Closed
     /\ PositionsReplayed
  \/ /\ Len(ledger) = sequence + 1
     /\ ledger[Len(ledger)].reservoirBefore = cash

\* Profit according to the stored flows alone: what sales brought in minus what
\* the purchases they closed had cost.
Sold(i) == ledger[i].eventType = "OUTFLOW" /\
           \E j \in DOMAIN ledger : j > i /\ ledger[j].symbol = ledger[i].symbol
FlowAmounts == [i \in DOMAIN ledger |-> ledger[i].quantity * ledger[i].executionPrice]
RealizedByReplay ==
  SumFunctionOnSet(FlowAmounts, {i \in DOMAIN ledger : ledger[i].eventType = "INFLOW"})
  - SumFunctionOnSet(FlowAmounts, {i \in DOMAIN ledger : Sold(i)})

\* The totals stored with RUN_END are those of a replay of the flows stored
\* before it, and its profit splits into realised and unrealised (End,
\* capital_reservoir.go:214-242).
RunEndReconciles ==
  closing.stored =>
    /\ Replay!Closed
    /\ closing.reservoirCash = Replay!Balance
    /\ closing.realizedPnL = RealizedByReplay
    /\ closing.totalPnL = closing.realizedPnL + closing.unrealizedPnL
    /\ closing.activePositions = Cardinality({s \in Symbols : ~Replay!HoldsNothing(s)})

=============================================================================
