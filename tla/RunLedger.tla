------------------------------ MODULE RunLedger ------------------------------
(***************************************************************************)
(* What the collection capital_reservoir_events promises to whoever        *)
(* replays it: one RUN_START first, then flows that chain from the balance *)
(* of the document before them, each symbol bought only when the ledger    *)
(* shows it flat and sold only in full, and at most one RUN_END, last.     *)
(*                                                                         *)
(* There is no memory, no writer and no failure here: the only state is    *)
(* the stored documents.                                                   *)
(***************************************************************************)
EXTENDS Integers, Sequences

CONSTANTS Symbols, NoSymbol, InitialReservoir,
          Quantities, Prices   \* what a run may trade

VARIABLE ledger

EventTypes == {"RUN_START", "OUTFLOW", "INFLOW", "RUN_END"}
Causes == {"HOP_ON", "HOP_OFF", "SAFETY_LIQUIDATION"}
NoCause == "NONE"

Balance == IF ledger = <<>> THEN InitialReservoir ELSE ledger[Len(ledger)].reservoirAfter

Opened == ledger # <<>>

Closed == \E i \in DOMAIN ledger : ledger[i].eventType = "RUN_END"

\* Document i is the latest one about symbol s.
LatestFlow(i, s) ==
  /\ i \in DOMAIN ledger
  /\ ledger[i].symbol = s
  /\ \A j \in DOMAIN ledger : j > i => ledger[j].symbol # s

\* Replaying the ledger leaves symbol s without a position, or with quantity q.
HoldsNothing(s) == \A i \in DOMAIN ledger : LatestFlow(i, s) => ledger[i].activeQuantityAfter = 0
Holds(s, q) == \E i \in DOMAIN ledger : LatestFlow(i, s) /\ ledger[i].activeQuantityAfter = q

Document(eventType, symbol, cause, quantity, price, after, activeAfter) ==
  [ eventType           |-> eventType,
    eventSequence       |-> Len(ledger) + 1,
    symbol              |-> symbol,
    cause               |-> cause,
    quantity            |-> quantity,
    executionPrice      |-> price,
    reservoirBefore     |-> Balance,
    reservoirAfter      |-> after,
    activeQuantityAfter |-> activeAfter ]

Init == ledger = <<>>

RunStart ==
  /\ ~Opened
  /\ ledger' = <<Document("RUN_START", NoSymbol, NoCause, 0, 0, Balance, 0)>>

Outflow(s, q, p) ==
  /\ Opened /\ ~Closed
  /\ HoldsNothing(s)
  /\ q * p <= Balance
  /\ ledger' = Append(ledger, Document("OUTFLOW", s, "HOP_ON", q, p, Balance - q * p, q))

Inflow(s, q, p, cause) ==
  /\ Opened /\ ~Closed
  /\ Holds(s, q)
  /\ cause \in Causes \ {"HOP_ON"}
  /\ ledger' = Append(ledger, Document("INFLOW", s, cause, q, p, Balance + q * p, 0))

RunEnd ==
  /\ Opened /\ ~Closed
  /\ ledger' = Append(ledger, Document("RUN_END", NoSymbol, NoCause, 0, 0, Balance, 0))

Next ==
  \/ RunStart
  \/ \E s \in Symbols, q \in Quantities \ {0}, p \in Prices \ {0} : Outflow(s, q, p)
  \/ \E s \in Symbols, q \in Quantities \ {0}, p \in Prices \ {0}, c \in Causes : Inflow(s, q, p, c)
  \/ RunEnd

Spec == Init /\ [][Next]_ledger
=============================================================================
