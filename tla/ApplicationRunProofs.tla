------------------------- MODULE ApplicationRunProofs -------------------------
(***************************************************************************)
(* Theorems about the pipeline and the application run around it.          *)
(*                                                                         *)
(* DynamicPipeline: whatever the phases, closes and failing writes, and    *)
(* wherever RUN_END falls, the accounts and the reservoir agree on every   *)
(* position and on the profit, a confirmed purchase is affordable, and the *)
(* reservoir is only asked for what its own theorems rest on, so that they *)
(* hold of it inside the pipeline as well.  The books need nothing of what *)
(* Dynamic Execution decides: PipelineInv and ProfitInv hold for every     *)
(* sequence of duties.  What a bar leaves a symbol with rests on it:       *)
(* PhaseInv ties the duties still to be done to the state they were        *)
(* derived with.                                                           *)
(*                                                                         *)
(* ApplicationRun: seen from the pipeline, a run only takes pipeline       *)
(* steps, so the pipeline's theorems carry over, cancelled or not.  With a *)
(* store that works, every orderly stop of a started run has stored its    *)
(* RUN_END, and the RUN_END of a run nobody cancelled contains every       *)
(* confirmed fill.                                                         *)
(***************************************************************************)
EXTENDS ApplicationRun, CapitalReservoirProofs, PhasePolicyProofs

-----------------------------------------------------------------------------
\* The inductive invariant.

\* The worker is a record of five fields; its duties are not constrained.
WorkerShaped ==
  /\ worker = [ pc |-> worker.pc, symbol |-> worker.symbol, close |-> worker.close,
                pending |-> worker.pending, fill |-> worker.fill ]
  /\ worker.pc \in {"idle", "act", "record", "failed"}
  /\ worker.pc # "idle" => worker.symbol \in Symbols /\ worker.close \in Prices

\* What is known of a fill the account has and the reservoir has not.
Confirmed ==
  /\ worker.fill.price \in Prices \ {0}
  /\ worker.fill.quantity # 0
  /\ \/ /\ worker.fill.action = "ALLOCATE"
        /\ worker.fill.cause = "HOP_ON"
        /\ worker.fill.quantity \in Quantities
        /\ worker.fill.quantity * worker.fill.price <= cash
        /\ positions[worker.symbol].quantity = 0
        /\ account.activeQuantity = worker.fill.quantity
        /\ account.entryPrice = worker.fill.price
     \/ /\ worker.fill.action = "LIQUIDATE"
        /\ worker.fill.cause \in Causes \ {"HOP_ON"}
        /\ worker.fill.quantity = positions[worker.symbol].quantity
        /\ account.activeQuantity = 0
        /\ account.entryPrice = 0

\* A fill is in flight exactly while the worker is about to record it, or was
\* cut off by a failure.
FillsConfirmed ==
  /\ worker.fill # NoFill => worker.pc \in {"record", "failed"} /\ Confirmed
  /\ worker.pc = "record" => worker.fill # NoFill

PipelineInv ==
  /\ ReservoirInv
  /\ accounts \in [Symbols -> Accounts]
  /\ WorkerShaped
  /\ FillsConfirmed
  /\ AccountsMatchReservoir

-----------------------------------------------------------------------------
\* Sizing and the account.

\* Whole shares never cost more than the part of the basis they are sized from.
LEMMA AllocationWithinBasis ==
  ASSUME NEW basis \in Nat, NEW price \in Nat, price # 0,
         AllocationPct \in 0..100
  PROVE  /\ SizeAllocation(basis, AllocationPct, price) \in Nat
         /\ SizeAllocation(basis, AllocationPct, price) * price <= basis
         /\ SizeAllocation(basis, AllocationPct, price) <= basis
<1> DEFINE budget == basis * AllocationPct
           unit == 100 * price
           quantity == budget \div unit
           cost == quantity * price
<1>1. /\ unit \in Nat /\ unit > 0
      /\ budget \in Nat
  BY NaturalProduct
<1>2. budget <= 100 * basis
  BY ONLY AllocationPct \in 0..100, basis \in Nat
<1>3. quantity \in Nat /\ quantity * unit <= budget
  <2> HIDE DEF budget, unit
  <2> QED  BY <1>1
<1>4. cost \in Nat
  <2> HIDE DEF quantity
  <2> QED  BY <1>3, NaturalProduct
<1>5. quantity * unit = 100 * cost
  <2> HIDE DEF quantity
  <2> QED  BY <1>3
<1>6. cost <= basis
  <2> HIDE DEF cost, quantity, budget, unit
  <2> QED  BY <1>1, <1>2, <1>3, <1>4, <1>5
<1>7. quantity <= cost
  <2> HIDE DEF quantity
  <2> QED  BY <1>3
<1> QED
  BY <1>3, <1>4, <1>6, <1>7 DEF SizeAllocation

\* A confirmed fill leaves an account behind whose cash is not negative, with
\* the bought quantity at its price, or with nothing.
LEMMA ApplyConfirmedType ==
  ASSUME NEW a \in Accounts, NEW action \in Actions, NEW quantity \in Nat, NEW price \in Nat,
         Applicable(a, action, quantity, price)
  PROVE  LET b == ApplyConfirmed(a, action, quantity, price)
         IN  /\ b \in Accounts
             /\ b.activeQuantity = IF action = "ALLOCATE" THEN quantity ELSE 0
             /\ b.entryPrice = IF action = "ALLOCATE" THEN price ELSE 0
<1> DEFINE cost == quantity * price
<1>1. cost \in Nat
  BY NaturalProduct
<1>2. CASE action = "ALLOCATE"
  <2>1. cost <= a.startingCapital
    BY <1>2 DEF Applicable
  <2>2. a.startingCapital \in Nat /\ a.startingCapital = InitialSymbolCapital
    BY ReservoirAssumption DEF Accounts
  <2>3. a.startingCapital - cost \in Nat
    <3> HIDE DEF cost
    <3> QED  BY <1>1, <2>1, <2>2
  <2>4. ApplyConfirmed(a, action, quantity, price) =
          [ a EXCEPT !.availableCapital = a.startingCapital,
                     !.activeQuantity = quantity,
                     !.entryPrice = price,
                     !.peakPrice = price,
                     !.cashRemaining = a.startingCapital - cost ]
    BY <1>2 DEF ApplyConfirmed
  <2> HIDE DEF cost
  <2> QED
    BY <1>2, <2>2, <2>3, <2>4 DEF Accounts
<1>3. CASE action # "ALLOCATE"
  <2> DEFINE ending == a.cashRemaining + cost
             profit == (price - a.entryPrice) * quantity
  <2>1. ending \in Nat
    <3> HIDE DEF cost
    <3> QED  BY <1>1 DEF Accounts
  <2>2. /\ a.entryPrice \in Nat
        /\ a.cumulativeRealized \in Int
    BY DEF Accounts
  <2>3. profit \in Int
    BY <2>2
  <2>4. a.cumulativeRealized + profit \in Int
    <3> HIDE DEF profit
    <3> QED  BY <2>2, <2>3
  <2>5. ApplyConfirmed(a, action, quantity, price) =
          [ startingCapital    |-> a.startingCapital,
            availableCapital   |-> ending,
            cashRemaining      |-> ending,
            activeQuantity     |-> 0,
            entryPrice         |-> 0,
            peakPrice          |-> 0,
            cumulativeRealized |-> a.cumulativeRealized + profit ]
    <3>1. ApplyConfirmed(a, action, quantity, price) =
            [ a EXCEPT !.availableCapital = ending,
                       !.cashRemaining = ending,
                       !.cumulativeRealized = a.cumulativeRealized + profit,
                       !.activeQuantity = 0,
                       !.entryPrice = 0,
                       !.peakPrice = 0 ]
      BY <1>3 DEF ApplyConfirmed, Accounts
    <3> HIDE DEF ending, profit
    <3> QED
      BY <3>1 DEF Accounts
  <2>6. a.startingCapital = InitialSymbolCapital
    BY DEF Accounts
  <2> HIDE DEF ending, profit
  <2> QED
    BY <1>3, <2>1, <2>4, <2>5, <2>6 DEF Accounts
<1> QED
  BY <1>2, <1>3

-----------------------------------------------------------------------------
\* Steps of the reservoir that main takes, and those of the worker.

LEMMA FillIsReal == \A fill : fill.action \in Actions => fill # NoFill
BY DEF NoFill, Actions

LEMMA NothingInFlight ==
  ASSUME PipelineInv, worker.pc \in {"idle", "act"}
  PROVE  /\ worker.fill = NoFill
         /\ \A s \in Symbols : /\ accounts[s].activeQuantity = positions[s].quantity
                              /\ accounts[s].entryPrice = positions[s].entryPrice
BY DEF PipelineInv, FillsConfirmed, AccountsMatchReservoir, Unrecorded

\* Main's operations touch neither cash nor positions, nor anything of Process.
LEMMA CashAndPositionsKept ==
  ASSUME PipelineInv, ReservoirInv', UNCHANGED <<cash, positions, accounts, worker>>
  PROVE  PipelineInv'
<1>1. WorkerShaped'
  BY DEF PipelineInv, WorkerShaped
<1>2. FillsConfirmed'
  BY DEF PipelineInv, FillsConfirmed, Confirmed, account
<1>3. AccountsMatchReservoir'
  BY DEF PipelineInv, AccountsMatchReservoir, Unrecorded
<1> QED
  BY <1>1, <1>2, <1>3 DEF PipelineInv

LEMMA StartReservoirInv ==
  ASSUME PipelineInv, NEW ok \in BOOLEAN, StartReservoir(ok)
  PROVE  PipelineInv'
<1>1. ReservoirInv'
  BY StartInv DEF PipelineInv, StartReservoir
<1> QED
  BY <1>1, CashAndPositionsKept DEF StartReservoir, Start, processVars

LEMMA EndReservoirInv ==
  ASSUME PipelineInv, NEW ok \in BOOLEAN, EndReservoir(ok)
  PROVE  PipelineInv'
<1>1. ReservoirInv'
  BY EndInv DEF PipelineInv, EndReservoir
<1> QED
  BY <1>1, CashAndPositionsKept DEF EndReservoir, End, processVars, reservoirVars

\* What ReceiveBar does, Dynamic Execution's decisions left open.
LEMMA ReceiveBarOutcome ==
  ASSUME NEW s \in Symbols, NEW phase \in Phases, NEW close \in Prices, NEW ok \in BOOLEAN,
         ReceiveBar(s, phase, close, ok)
  PROVE  /\ worker.pc = "idle"
         /\ Mark(s, close)
         /\ accounts' = accounts
         /\ \/ worker' = worker
            \/ \E pc \in {"act", "failed"} : \E pending :
                 worker' = [ pc |-> pc, symbol |-> s, close |-> close,
                             pending |-> pending, fill |-> NoFill ]
BY DEF ReceiveBar, FailBar, Idle

LEMMA ReceiveBarInv ==
  ASSUME PipelineInv,
         NEW s \in Symbols, NEW phase \in Phases, NEW close \in Prices, NEW ok \in BOOLEAN,
         ReceiveBar(s, phase, close, ok)
  PROVE  PipelineInv'
<1>1. /\ worker.pc = "idle"
      /\ Mark(s, close)
      /\ accounts' = accounts
  BY ReceiveBarOutcome
<1>2. ReservoirInv'
  BY <1>1, MarkInv DEF PipelineInv
<1>3. /\ worker.fill = NoFill
      /\ \A t \in Symbols : /\ accounts[t].activeQuantity = positions[t].quantity
                           /\ accounts[t].entryPrice = positions[t].entryPrice
  BY <1>1, NothingInFlight
<1>4. \A t \in Symbols : /\ positions'[t].quantity = positions[t].quantity
                        /\ positions'[t].entryPrice = positions[t].entryPrice
  BY <1>1 DEF Mark, PipelineInv, ReservoirInv, ReservoirTypeOK
<1>5. AccountsMatchReservoir'
  BY <1>1, <1>3, <1>4 DEF AccountsMatchReservoir
<1>6. WorkerShaped' /\ worker'.fill = NoFill /\ worker'.pc # "record"
  BY <1>1, <1>3, ReceiveBarOutcome DEF PipelineInv, WorkerShaped
<1>7. FillsConfirmed'
  BY <1>6 DEF FillsConfirmed
<1> QED
  BY <1>1, <1>2, <1>5, <1>6, <1>7 DEF PipelineInv

\* A worker step that leaves the reservoir alone and no fill in flight, and at
\* most moves the peak of the account.
LEMMA NoExecutionInv ==
  ASSUME PipelineInv, worker.pc = "act", UNCHANGED reservoirVars,
         NEW a \in Accounts,
         a.activeQuantity = account.activeQuantity,
         a.entryPrice = account.entryPrice,
         SetAccount(a),
         \/ worker' = Idle
         \/ Fail
         \/ Done
  PROVE  PipelineInv'
<1>1. ReservoirInv' /\ UNCHANGED <<cash, positions>>
  BY StutterInv DEF PipelineInv, reservoirVars
<1>2. /\ worker.fill = NoFill
      /\ \A t \in Symbols : /\ accounts[t].activeQuantity = positions[t].quantity
                           /\ accounts[t].entryPrice = positions[t].entryPrice
  BY NothingInFlight
<1>3. accounts' \in [Symbols -> Accounts]
  BY DEF SetAccount, PipelineInv
<1>4. AccountsMatchReservoir'
  BY <1>1, <1>2 DEF AccountsMatchReservoir, SetAccount, account, PipelineInv, WorkerShaped
<1>5. WorkerShaped' /\ worker'.fill = NoFill /\ worker'.pc # "record"
  BY <1>2 DEF PipelineInv, WorkerShaped, Fail, Done, Idle
<1>6. FillsConfirmed'
  BY <1>5 DEF FillsConfirmed
<1> QED
  BY <1>1, <1>3, <1>4, <1>5, <1>6 DEF PipelineInv

\* An execution puts the fill on the account and in flight, or fails.
LEMMA ExecuteInv ==
  ASSUME PipelineInv, worker.pc = "act", UNCHANGED reservoirVars,
         NEW a \in Accounts,
         a.activeQuantity = account.activeQuantity,
         a.entryPrice = account.entryPrice,
         NEW action \in Actions, NEW quantity \in Nat, NEW cause \in Causes, NEW ok \in BOOLEAN,
         action = "ALLOCATE" => /\ cause = "HOP_ON"
                                /\ account.activeQuantity = 0
                                /\ quantity \in Quantities
                                /\ quantity * worker.close <= cash,
         action = "LIQUIDATE" => cause # "HOP_ON" /\ quantity = account.activeQuantity,
         quantity # 0,
         Execute(a, action, quantity, cause, ok)
  PROVE  PipelineInv'
<1> DEFINE fill == [action |-> action, quantity |-> quantity, price |-> worker.close, cause |-> cause]
<1>1. CASE SetAccount(a) /\ Fail
  BY <1>1, NoExecutionInv
<1>2. CASE /\ Applicable(a, action, quantity, worker.close)
           /\ SetAccount(ApplyConfirmed(a, action, quantity, worker.close))
           /\ worker' = [worker EXCEPT !.pc = IF ok THEN "record" ELSE "failed", !.fill = fill]
  <2>1. PICK price \in Prices \ {0} : price = worker.close
    BY <1>2 DEF PipelineInv, WorkerShaped, Applicable
  <2>2. PICK s \in Symbols : s = worker.symbol
    BY DEF PipelineInv, WorkerShaped
  <2>3. PICK b \in Accounts :
          /\ b = ApplyConfirmed(a, action, quantity, price)
          /\ b.activeQuantity = IF action = "ALLOCATE" THEN quantity ELSE 0
          /\ b.entryPrice = IF action = "ALLOCATE" THEN price ELSE 0
    BY <1>2, <2>1, ApplyConfirmedType, ReservoirAssumption
  <2>4. accounts' = [accounts EXCEPT ![s] = b]
    BY <1>2, <2>1, <2>2, <2>3 DEF SetAccount
  <2>5. ReservoirInv' /\ UNCHANGED <<cash, positions>>
    BY StutterInv DEF PipelineInv, reservoirVars
  <2>6. accounts' \in [Symbols -> Accounts]
    BY <2>4 DEF PipelineInv
  <2>7. /\ WorkerShaped'
        /\ worker'.pc \in {"record", "failed"}
        /\ worker'.symbol = s
        /\ worker'.fill = [action |-> action, quantity |-> quantity, price |-> price, cause |-> cause]
    BY <1>2, <2>1, <2>2 DEF PipelineInv, WorkerShaped
  <2>8. worker'.fill # NoFill
    BY <2>7, FillIsReal
  <2>9. \A t \in Symbols : /\ accounts[t].activeQuantity = positions[t].quantity
                          /\ accounts[t].entryPrice = positions[t].entryPrice
    BY NothingInFlight
  <2>10. accounts'[s] = b /\ \A t \in Symbols \ {s} : accounts'[t] = accounts[t]
    BY <2>4 DEF PipelineInv
  <2>11. AccountsMatchReservoir'
    BY <2>5, <2>7, <2>8, <2>9, <2>10 DEF AccountsMatchReservoir, Unrecorded
  <2>12. Confirmed'
    <3>1. CASE action = "ALLOCATE"
      BY <2>1, <2>2, <2>3, <2>5, <2>7, <2>9, <2>10, <3>1 DEF Confirmed, account
    <3>2. CASE action = "LIQUIDATE"
      BY <2>1, <2>2, <2>3, <2>5, <2>7, <2>9, <2>10, <3>2 DEF Confirmed, account
    <3> QED
      BY <3>1, <3>2 DEF Actions
  <2> QED
    BY <2>5, <2>6, <2>7, <2>8, <2>11, <2>12 DEF PipelineInv, FillsConfirmed
<1> QED
  BY <1>1, <1>2 DEF Execute

\* The fill in flight is what the reservoir's theorems ask of its caller.
LEMMA RecordHonours ==
  ASSUME PipelineInv, NEW ok \in BOOLEAN, Record(ok)
  PROVE  ReservoirStep
<1>1. worker.symbol \in Symbols /\ worker.fill # NoFill
  BY DEF Record, PipelineInv, WorkerShaped, FillsConfirmed
<1>2. Confirmed
  BY <1>1 DEF PipelineInv, FillsConfirmed
<1>3. RecordExecution(worker.symbol, worker.fill.action, worker.fill.quantity,
                      worker.fill.price, worker.fill.cause, ok)
  BY DEF Record
<1>4. CASE worker.fill.action = "ALLOCATE"
  <2>1. Allocation(worker.symbol, worker.fill.quantity, worker.fill.price, ok)
    BY <1>2, <1>3, <1>4 DEF Confirmed, Allocation
  <2> QED
    BY <1>1, <1>2, <1>4, <2>1 DEF Confirmed, ReservoirStep
<1>5. CASE worker.fill.action = "LIQUIDATE"
  <2>1. Liquidation(worker.symbol, worker.fill.price, worker.fill.cause, ok)
    BY <1>2, <1>3, <1>5 DEF Confirmed, Liquidation
  <2> QED
    BY <1>1, <1>2, <1>5, <2>1 DEF Confirmed, ReservoirStep
<1> QED
  BY <1>2, <1>4, <1>5 DEF Confirmed

LEMMA RecordInv ==
  ASSUME PipelineInv, NEW ok \in BOOLEAN, Record(ok)
  PROVE  PipelineInv'
<1>1. ReservoirInv'
  BY RecordHonours, StepInv DEF PipelineInv
<1>2. PICK s \in Symbols : s = worker.symbol
  BY DEF Record, PipelineInv, WorkerShaped
<1>3. PICK fill : /\ s = worker.symbol /\ fill = worker.fill
                  /\ fill # NoFill /\ worker.pc = "record"
  BY <1>2 DEF Record, PipelineInv, WorkerShaped, FillsConfirmed
<1>4. Confirmed
  BY <1>3 DEF PipelineInv, FillsConfirmed
<1>5. RecordExecution(s, fill.action, fill.quantity, fill.price, fill.cause, ok)
  BY <1>3 DEF Record
<1>6. accounts' = accounts
  BY DEF Record
<1>7. CASE Recordable(fill.action, fill.quantity, fill.price, fill.cause) /\ Acknowledged(ok)
  <2>1. PICK event : ApplyFlow(s, fill.action, fill.quantity, fill.price, event)
    BY <1>5, <1>7 DEF RecordExecution
  <2>2. worker' = [worker EXCEPT !.pc = "act", !.pending = Tail(@), !.fill = NoFill]
    BY <1>3, <1>7 DEF Record
  <2>3. WorkerShaped' /\ worker'.pc = "act" /\ worker'.fill = NoFill
    BY <1>3, <2>2 DEF PipelineInv, WorkerShaped
  <2>4. \A t \in Symbols \ {s} : positions'[t] = positions[t]
    BY <2>1 DEF ApplyFlow, PipelineInv, ReservoirInv, ReservoirTypeOK
  <2>5. /\ positions'[s].quantity = IF fill.action = "ALLOCATE" THEN fill.quantity ELSE 0
        /\ positions'[s].entryPrice = IF fill.action = "ALLOCATE" THEN fill.price ELSE 0
    BY <2>1 DEF ApplyFlow, NoPosition, PipelineInv, ReservoirInv, ReservoirTypeOK
  <2>6. /\ accounts[s].activeQuantity = IF fill.action = "ALLOCATE" THEN fill.quantity ELSE 0
        /\ accounts[s].entryPrice = IF fill.action = "ALLOCATE" THEN fill.price ELSE 0
    BY <1>3, <1>4 DEF Confirmed, account
  <2>7. \A t \in Symbols \ {s} : /\ accounts[t].activeQuantity = positions[t].quantity
                                /\ accounts[t].entryPrice = positions[t].entryPrice
    BY <1>3 DEF PipelineInv, AccountsMatchReservoir, Unrecorded
  <2>8. AccountsMatchReservoir'
    BY <1>6, <2>4, <2>5, <2>6, <2>7 DEF AccountsMatchReservoir
  <2> QED
    BY <1>1, <1>6, <2>3, <2>8 DEF PipelineInv, FillsConfirmed
<1>8. CASE ~(Recordable(fill.action, fill.quantity, fill.price, fill.cause) /\ Acknowledged(ok))
  <2>1. UNCHANGED <<cash, positions>>
    BY <1>5, <1>8 DEF RecordExecution, reservoirVars
  <2>2. worker' = [worker EXCEPT !.pc = "failed"]
    BY <1>3, <1>8 DEF Record, Fail
  <2>3. /\ WorkerShaped'
        /\ worker'.pc = "failed"
        /\ worker'.symbol = s
        /\ worker'.fill = fill
    BY <1>3, <2>2 DEF PipelineInv, WorkerShaped
  <2>4. Confirmed'
    BY <1>3, <1>4, <1>6, <2>1, <2>3 DEF Confirmed, account
  <2>5. AccountsMatchReservoir'
    BY <1>3, <1>6, <2>1, <2>3 DEF PipelineInv, AccountsMatchReservoir, Unrecorded
  <2> QED
    BY <1>1, <1>6, <2>3, <2>4, <2>5 DEF PipelineInv, FillsConfirmed
<1> QED
  BY <1>7, <1>8

\* The account of the bar's symbol, as a value.
LEMMA CurrentAccount ==
  ASSUME PipelineInv, worker.pc = "act"
  PROVE  /\ account \in Accounts
         /\ account.activeQuantity \in Nat /\ account.peakPrice \in Nat
         /\ worker.close \in Prices /\ worker.close \in Nat
         /\ cash \in Nat
         /\ accounts' = accounts => SetAccount(account)
<1>1. worker.symbol \in Symbols /\ worker.close \in Prices
  BY DEF PipelineInv, WorkerShaped
<1>2. account \in Accounts
  BY <1>1 DEF PipelineInv, account
<1>3. accounts' = accounts => SetAccount(account)
  BY <1>1 DEF PipelineInv, SetAccount, account
<1> QED
  BY <1>1, <1>2, <1>3, ReservoirAssumption DEF Accounts, PipelineInv, ReservoirInv, ReservoirTypeOK

\* A duty that leaves the account as it was.
LEMMA AccountKeptInv ==
  ASSUME PipelineInv, worker.pc = "act", UNCHANGED reservoirVars, accounts' = accounts,
         \/ worker' = Idle
         \/ Fail
         \/ Done
  PROVE  PipelineInv'
<1>1. PICK a \in Accounts : a = account
  BY CurrentAccount
<1> QED
  BY <1>1, CurrentAccount, NoExecutionInv

LEMMA AllocateInv ==
  ASSUME PipelineInv, NEW ok \in BOOLEAN, Allocate(ok)
  PROVE  PipelineInv'
<1>1. worker.pc = "act" /\ UNCHANGED reservoirVars
  BY DEF Allocate, Acting
<1>2. PICK a \in Accounts : a = account
  BY <1>1, CurrentAccount
<1>3. PICK basis \in Nat : basis = AllocationCapacity(InitialSymbolCapital)
  BY <1>1, CurrentAccount, ReservoirAssumption DEF AllocationCapacity
<1>4. basis <= cash /\ basis <= InitialSymbolCapital
  BY <1>1, <1>3, CurrentAccount, ReservoirAssumption DEF AllocationCapacity
<1>5. PICK price \in Nat : price = worker.close
  BY <1>1, CurrentAccount
<1> DEFINE quantity == SizeAllocation(basis, AllocationPct, price)
<1>6. CASE accounts' = accounts /\ (Fail \/ Done)
  BY <1>1, <1>6, AccountKeptInv
<1>7. CASE /\ a.activeQuantity = 0 /\ price # 0 /\ quantity # 0
           /\ Execute(a, "ALLOCATE", quantity, "HOP_ON", ok)
  <2>1. /\ quantity \in Nat
        /\ quantity * price <= basis
        /\ quantity <= basis
    BY <1>7, AllocationWithinBasis, PipelineAssumption
  <2> HIDE DEF quantity
  <2>2. quantity \in 0..InitialSymbolCapital
    BY <1>4, <2>1, ReservoirAssumption
  <2>3. quantity * price <= cash
    <3>1. quantity * price \in Nat
      BY <2>1, NaturalProduct
    <3> QED
      BY <1>1, <1>4, <2>1, <3>1, CurrentAccount
  <2>4. "ALLOCATE" \in Actions /\ "HOP_ON" \in Causes
    BY DEF Actions, Causes
  <2>5. quantity \in Quantities
    BY <2>2, PipelineAssumption
  <2> QED
    BY <1>1, <1>2, <1>5, <1>7, <2>1, <2>3, <2>4, <2>5, ExecuteInv
<1> QED
  BY <1>2, <1>3, <1>5, <1>6, <1>7 DEF Allocate, TraceOnly

LEMMA HoldOrSafetyLiquidateInv ==
  ASSUME PipelineInv, NEW ok \in BOOLEAN, HoldOrSafetyLiquidate(ok)
  PROVE  PipelineInv'
<1>1. worker.pc = "act" /\ UNCHANGED reservoirVars
  BY DEF HoldOrSafetyLiquidate, Acting
<1>2. PICK peak \in Nat : peak = TrailingPeak(account.peakPrice, worker.close)
  BY <1>1, CurrentAccount DEF TrailingPeak
<1>3. PICK a \in Accounts :
        /\ a = [account EXCEPT !.peakPrice = peak]
        /\ a.activeQuantity = account.activeQuantity
        /\ a.entryPrice = account.entryPrice
  <2>1. account \in Accounts
    BY <1>1, CurrentAccount
  <2>2. /\ [account EXCEPT !.peakPrice = peak] \in Accounts
        /\ [account EXCEPT !.peakPrice = peak].activeQuantity = account.activeQuantity
        /\ [account EXCEPT !.peakPrice = peak].entryPrice = account.entryPrice
    BY <2>1 DEF Accounts
  <2> QED
    BY <2>2
<1>4. PICK quantity \in Nat : quantity = account.activeQuantity
  BY <1>1, CurrentAccount
<1>5. CASE accounts' = accounts /\ (Fail \/ Done)
  BY <1>1, <1>5, AccountKeptInv
<1>6. CASE SetAccount(a) /\ (Fail \/ Done)
  BY <1>1, <1>3, <1>6, NoExecutionInv
<1>7. CASE quantity # 0 /\ Execute(a, "LIQUIDATE", quantity, "SAFETY_LIQUIDATION", ok)
  <2>1. "LIQUIDATE" \in Actions /\ "SAFETY_LIQUIDATION" \in Causes
    BY DEF Actions, Causes
  <2> QED
    BY <1>1, <1>3, <1>4, <1>7, <2>1, ExecuteInv
<1> QED
  BY <1>2, <1>3, <1>4, <1>5, <1>6, <1>7 DEF HoldOrSafetyLiquidate, TraceOnly

LEMMA LiquidateInv ==
  ASSUME PipelineInv, NEW ok \in BOOLEAN, Liquidate(ok)
  PROVE  PipelineInv'
<1>1. worker.pc = "act" /\ UNCHANGED reservoirVars
  BY DEF Liquidate, Acting
<1>2. PICK a \in Accounts, quantity \in Nat : a = account /\ quantity = account.activeQuantity
  BY <1>1, CurrentAccount
<1>3. CASE accounts' = accounts /\ Done
  BY <1>1, <1>3, AccountKeptInv
<1>4. CASE quantity # 0 /\ Execute(a, "LIQUIDATE", quantity, "HOP_OFF", ok)
  <2>1. "LIQUIDATE" \in Actions /\ "HOP_OFF" \in Causes
    BY DEF Actions, Causes
  <2> QED
    BY <1>1, <1>2, <1>4, <2>1, ExecuteInv
<1> QED
  BY <1>2, <1>3, <1>4 DEF Liquidate

LEMMA SettleInv ==
  ASSUME PipelineInv, NEW ok \in BOOLEAN, Settle(ok)
  PROVE  PipelineInv'
BY AccountKeptInv DEF Settle

-----------------------------------------------------------------------------
\* One step of Process, and one of the pipeline.

LEMMA ProcessStepInv ==
  ASSUME PipelineInv, NEW ok \in BOOLEAN, ProcessStep(ok)
  PROVE  PipelineInv' /\ (ReservoirStep \/ UNCHANGED reservoirVars)
<1>1. CASE Allocate(ok)
  BY <1>1, AllocateInv DEF Allocate
<1>2. CASE HoldOrSafetyLiquidate(ok)
  BY <1>2, HoldOrSafetyLiquidateInv DEF HoldOrSafetyLiquidate
<1>3. CASE Liquidate(ok)
  BY <1>3, LiquidateInv DEF Liquidate
<1>4. CASE Record(ok)
  BY <1>4, RecordInv, RecordHonours
<1>5. CASE Settle(ok)
  BY <1>5, SettleInv DEF Settle
<1> QED
  BY <1>1, <1>2, <1>3, <1>4, <1>5 DEF ProcessStep

LEMMA PipelineStepInv ==
  ASSUME PipelineInv, NEW ok \in BOOLEAN, PipelineStep(ok)
  PROVE  PipelineInv' /\ (ReservoirStep \/ UNCHANGED reservoirVars)
<1>1. CASE StartReservoir(ok)
  BY <1>1, StartReservoirInv DEF StartReservoir, ReservoirStep
<1>2. CASE \E s \in Symbols, phase \in Phases, close \in Prices : ReceiveBar(s, phase, close, ok)
  BY <1>2, ReceiveBarInv, ReceiveBarOutcome DEF ReservoirStep
<1>3. CASE ProcessStep(ok)
  BY <1>3, ProcessStepInv
<1>4. CASE EndReservoir(ok)
  BY <1>4, EndReservoirInv DEF EndReservoir, ReservoirStep
<1> QED
  BY <1>1, <1>2, <1>3, <1>4 DEF PipelineStep

LEMMA PipelineStutterInv ==
  ASSUME PipelineInv, UNCHANGED pipelineVars
  PROVE  PipelineInv'
<1>1. ReservoirInv'
  BY StutterInv DEF PipelineInv, pipelineVars
<1> QED
  BY <1>1, CashAndPositionsKept DEF pipelineVars, processVars, reservoirVars

LEMMA PipelineInitInv == PipelineInit => PipelineInv
<1> SUFFICES ASSUME PipelineInit PROVE PipelineInv
  OBVIOUS
<1>1. ReservoirInv
  BY InitInv DEF PipelineInit
<1>2. NewAccount(InitialSymbolCapital) \in Accounts
  BY ReservoirAssumption DEF NewAccount, Accounts
<1>3. AccountsMatchReservoir
  BY DEF PipelineInit, ReservoirInit, NewAccount, NoPosition, AccountsMatchReservoir
<1> QED
  BY <1>1, <1>2, <1>3 DEF PipelineInit, Idle, PipelineInv, WorkerShaped, FillsConfirmed

LEMMA PipelineInductive ==
  PipelineInv /\ [PipelineNext]_pipelineVars =>
    PipelineInv' /\ [ReservoirStep]_reservoirVars
<1> SUFFICES ASSUME PipelineInv, [PipelineNext]_pipelineVars
             PROVE  PipelineInv' /\ [ReservoirStep]_reservoirVars
  OBVIOUS
<1>1. CASE \E ok \in WriteResults : PipelineStep(ok)
  BY <1>1, PipelineStepInv, PipelineAssumption
<1>2. CASE UNCHANGED pipelineVars
  BY <1>2, PipelineStutterInv DEF pipelineVars
<1> QED
  BY <1>1, <1>2 DEF PipelineNext, Finished

LEMMA PipelineInvariant == PipelineSpec => []PipelineInv
BY PipelineInitInv, PipelineInductive, PTL DEF PipelineSpec

-----------------------------------------------------------------------------
\* Realised profit.

Profits == [s \in Symbols |-> accounts[s].cumulativeRealized]

\* What a sale in flight has put on the account and not yet into the reservoir.
InFlight ==
  IF worker.fill.action = "LIQUIDATE"
  THEN worker.fill.quantity * (worker.fill.price - positions[worker.symbol].entryPrice)
  ELSE 0

ProfitInv == SumFunction(Profits) = realizedPnL + InFlight

LEMMA NothingInFlightProfit ==
  ASSUME worker.fill = NoFill
  PROVE  InFlight = 0
BY DEF InFlight, NoFill

LEMMA ProfitKept ==
  ASSUME ProfitInv, realizedPnL' = realizedPnL, InFlight' = InFlight,
         \A s \in Symbols : accounts'[s].cumulativeRealized = accounts[s].cumulativeRealized
  PROVE  ProfitInv'
<1>1. Profits' = Profits
  BY DEF Profits
<1> QED
  BY <1>1 DEF ProfitInv

\* Main's operations and the worker's that leave no fill in flight.
LEMMA UntouchedProfit ==
  ASSUME ProfitInv, UNCHANGED <<realizedPnL, positions, accounts, worker>>
  PROVE  ProfitInv'
BY ProfitKept DEF InFlight

LEMMA NoFillProfit ==
  ASSUME ProfitInv, UNCHANGED realizedPnL, worker.fill = NoFill, worker'.fill = NoFill,
         \A s \in Symbols : accounts'[s].cumulativeRealized = accounts[s].cumulativeRealized
  PROVE  ProfitInv'
<1>1. InFlight = 0 /\ InFlight' = 0
  BY DEF InFlight, NoFill
<1> QED
  BY <1>1, ProfitKept

LEMMA AppliedProfit ==
  ASSUME NEW a \in Accounts, NEW action \in Actions, NEW quantity \in Nat, NEW price \in Nat
  PROVE  ApplyConfirmed(a, action, quantity, price).cumulativeRealized =
           IF action = "ALLOCATE" THEN a.cumulativeRealized
           ELSE a.cumulativeRealized + (price - a.entryPrice) * quantity
BY DEF ApplyConfirmed, Accounts

\* An account whose peak alone moved.
LEMMA NoExecutionProfit ==
  ASSUME PipelineInv, ProfitInv, worker.pc = "act", UNCHANGED reservoirVars,
         NEW a, a.cumulativeRealized = account.cumulativeRealized,
         SetAccount(a),
         \/ worker' = Idle
         \/ Fail
         \/ Done
  PROVE  ProfitInv'
<1>1. worker.fill = NoFill /\ worker'.fill = NoFill
  BY NothingInFlight DEF Fail, Done, Idle, PipelineInv, WorkerShaped
<1>2. \A s \in Symbols : accounts'[s].cumulativeRealized = accounts[s].cumulativeRealized
  BY DEF SetAccount, account, PipelineInv
<1> QED
  BY <1>1, <1>2, NoFillProfit DEF reservoirVars

LEMMA ExecuteProfit ==
  ASSUME PipelineInv, PipelineInv', ProfitInv, worker.pc = "act", UNCHANGED reservoirVars,
         NEW a \in Accounts,
         a.entryPrice = account.entryPrice,
         a.cumulativeRealized = account.cumulativeRealized,
         NEW action \in Actions, NEW quantity \in Nat, NEW cause \in Causes, NEW ok \in BOOLEAN,
         Execute(a, action, quantity, cause, ok)
  PROVE  ProfitInv'
<1> DEFINE fill == [action |-> action, quantity |-> quantity, price |-> worker.close, cause |-> cause]
<1>1. CASE SetAccount(a) /\ Fail
  BY <1>1, NoExecutionProfit
<1>2. CASE /\ SetAccount(ApplyConfirmed(a, action, quantity, worker.close))
           /\ worker' = [worker EXCEPT !.pc = IF ok THEN "record" ELSE "failed", !.fill = fill]
  <2>1. PICK price \in Nat, s \in Symbols : price = worker.close /\ s = worker.symbol
    BY ReservoirAssumption DEF PipelineInv, WorkerShaped
  <2>2. PICK b : /\ b = ApplyConfirmed(a, action, quantity, price)
                 /\ b.cumulativeRealized =
                      IF action = "ALLOCATE" THEN a.cumulativeRealized
                      ELSE a.cumulativeRealized + (price - a.entryPrice) * quantity
    BY <2>1, AppliedProfit
  <2>3. accounts'[s] = b /\ \A t \in Symbols \ {s} : accounts'[t] = accounts[t]
    BY <1>2, <2>1, <2>2 DEF SetAccount, PipelineInv
  <2>4. /\ worker'.symbol = s
        /\ worker'.fill = [action |-> action, quantity |-> quantity, price |-> price, cause |-> cause]
    BY <1>2, <2>1 DEF PipelineInv, WorkerShaped
  <2>5. InFlight = 0 /\ a.entryPrice = positions[s].entryPrice
    BY <2>1, NothingInFlight, NothingInFlightProfit DEF account
  <2>6. UNCHANGED <<positions, realizedPnL>>
    BY DEF reservoirVars
  <2>7. CASE action = "ALLOCATE"
    <3>1. InFlight' = 0
      BY <2>4, <2>7 DEF InFlight
    <3>2. \A t \in Symbols : accounts'[t].cumulativeRealized = accounts[t].cumulativeRealized
      BY <2>1, <2>2, <2>3, <2>7 DEF account
    <3> QED
      BY <2>5, <2>6, <3>1, <3>2, ProfitKept
  <2>8. CASE action = "LIQUIDATE"
    <3>1. PICK profit \in Int : profit = (price - a.entryPrice) * quantity
      BY DEF Accounts
    <3>2. InFlight' = profit
      <4>1. InFlight' = quantity * (price - positions[s].entryPrice)
        BY <2>4, <2>6, <2>8 DEF InFlight
      <4>2. a.entryPrice \in Int
        BY DEF Accounts
      <4> QED
        BY <2>5, <3>1, <4>1, <4>2
    <3>3. accounts'[s].cumulativeRealized = accounts[s].cumulativeRealized + profit
      BY <2>1, <2>2, <2>3, <2>8, <3>1 DEF account
    <3>4. PICK before, after : before = Profits /\ after = Profits'
      OBVIOUS
    <3>5. \A t \in Symbols : /\ before[t] = accounts[t].cumulativeRealized
                            /\ after[t] = accounts'[t].cumulativeRealized
                            /\ before[t] \in Int /\ after[t] \in Int
      BY <3>4 DEF Profits, PipelineInv, Accounts
    <3>6. SumFunctionOnSet(after, Symbols) = SumFunctionOnSet(before, Symbols) - before[s] + after[s]
      <4>1. \A t \in Symbols \ {s} : after[t] = before[t]
        BY <2>3, <3>5
      <4> QED
        BY <3>5, <4>1, SumChange, ReservoirAssumption
    <3>7. SumFunctionOnSet(before, Symbols) \in Int
      BY <3>5, SumInt, ReservoirAssumption
    <3>8. SumFunctionOnSet(after, Symbols) = SumFunctionOnSet(before, Symbols) + profit
      BY <3>1, <3>3, <3>5, <3>6, <3>7
    <3>9. DOMAIN before = Symbols /\ DOMAIN after = Symbols
      BY <3>4 DEF Profits
    <3>10. /\ SumFunction(Profits) = SumFunctionOnSet(before, Symbols)
           /\ SumFunction(Profits)' = SumFunctionOnSet(after, Symbols)
      BY <3>4, <3>9 DEF SumFunction
    <3>11. realizedPnL \in Int
      BY DEF PipelineInv, ReservoirInv, ReservoirTypeOK
    <3> QED
      BY <2>5, <2>6, <3>1, <3>2, <3>8, <3>10, <3>11 DEF ProfitInv
  <2> QED
    BY <2>7, <2>8 DEF Actions
<1> QED
  BY <1>1, <1>2 DEF Execute

LEMMA RecordProfit ==
  ASSUME PipelineInv, PipelineInv', ProfitInv, NEW ok \in BOOLEAN, Record(ok)
  PROVE  ProfitInv'
<1>0. PICK s \in Symbols : \E fill :
        s = worker.symbol /\ fill = worker.fill /\ fill # NoFill /\ worker.pc = "record"
  BY DEF Record, PipelineInv, WorkerShaped, FillsConfirmed
<1>1. PICK fill :
        s = worker.symbol /\ fill = worker.fill /\ fill # NoFill /\ worker.pc = "record"
  BY <1>0
<1>2. Confirmed
  BY <1>1 DEF PipelineInv, FillsConfirmed
<1>3. /\ RecordExecution(s, fill.action, fill.quantity, fill.price, fill.cause, ok)
      /\ accounts' = accounts
  BY <1>1 DEF Record
<1>4. CASE Recordable(fill.action, fill.quantity, fill.price, fill.cause) /\ Acknowledged(ok)
  <2>1. PICK event : ApplyFlow(s, fill.action, fill.quantity, fill.price, event)
    BY <1>3, <1>4 DEF RecordExecution
  <2>2. worker' = [worker EXCEPT !.pc = "act", !.pending = Tail(@), !.fill = NoFill]
    BY <1>1, <1>4 DEF Record
  <2>3. worker'.fill = NoFill
    BY <2>2 DEF PipelineInv, WorkerShaped
  <2>4. InFlight' = 0
    BY <2>3 DEF InFlight, NoFill
  <2>5. Profits' = Profits
    BY <1>3 DEF Profits
  <2>6. realizedPnL' = realizedPnL + InFlight
    <3>1. CASE fill.action = "ALLOCATE"
      BY <1>1, <2>1, <3>1 DEF ApplyFlow, InFlight, PipelineInv, ReservoirInv, ReservoirTypeOK
    <3>2. CASE fill.action = "LIQUIDATE"
      BY <1>1, <2>1, <3>2 DEF ApplyFlow, InFlight
    <3> QED
      BY <1>1, <1>2, <3>1, <3>2 DEF Confirmed
  <2>7. realizedPnL' \in Int
    BY DEF PipelineInv, ReservoirInv, ReservoirTypeOK
  <2> QED
    BY <2>4, <2>5, <2>6, <2>7 DEF ProfitInv
<1>5. CASE ~(Recordable(fill.action, fill.quantity, fill.price, fill.cause) /\ Acknowledged(ok))
  <2>1. UNCHANGED <<realizedPnL, positions>>
    BY <1>3, <1>5 DEF RecordExecution, reservoirVars
  <2>2. worker' = [worker EXCEPT !.pc = "failed"]
    BY <1>1, <1>5 DEF Record, Fail
  <2>3. worker'.fill = worker.fill /\ worker'.symbol = worker.symbol
    BY <2>2 DEF PipelineInv, WorkerShaped
  <2>4. InFlight' = InFlight
    BY <2>1, <2>3 DEF InFlight
  <2> QED
    BY <1>3, <2>1, <2>4, ProfitKept
<1> QED
  BY <1>4, <1>5

LEMMA ProcessStepProfit ==
  ASSUME PipelineInv, PipelineInv', ProfitInv, NEW ok \in BOOLEAN, ProcessStep(ok)
  PROVE  ProfitInv'
<1>1. CASE Record(ok)
  BY <1>1, RecordProfit
<1>2. CASE ~Record(ok)
  <2>1. worker.pc = "act" /\ UNCHANGED reservoirVars
    BY <1>2 DEF ProcessStep, Allocate, HoldOrSafetyLiquidate, Liquidate, Settle, Acting
  <2>2. PICK a \in Accounts : a = account
    BY <2>1, CurrentAccount
  <2>3. CASE accounts' = accounts /\ (Fail \/ Done \/ worker' = Idle)
    BY <2>1, <2>2, <2>3, CurrentAccount, NoExecutionProfit
  <2>4. CASE Allocate(ok)
    <3>1. PICK basis \in Nat : basis = AllocationCapacity(InitialSymbolCapital)
      BY <2>1, CurrentAccount, ReservoirAssumption DEF AllocationCapacity
    <3>2. PICK price \in Nat : price = worker.close
      BY <2>1, CurrentAccount
    <3> DEFINE quantity == SizeAllocation(basis, AllocationPct, price)
    <3>3. CASE price # 0 /\ Execute(account, "ALLOCATE", quantity, "HOP_ON", ok)
      <4>1. quantity \in Nat
        BY <3>3, AllocationWithinBasis, PipelineAssumption
      <4>2. "ALLOCATE" \in Actions /\ "HOP_ON" \in Causes
        BY DEF Actions, Causes
      <4> HIDE DEF quantity
      <4> QED
        BY <2>1, <2>2, <3>3, <4>1, <4>2, ExecuteProfit
    <3> QED
      BY <2>3, <2>4, <3>1, <3>2, <3>3 DEF Allocate, TraceOnly
  <2>5. CASE HoldOrSafetyLiquidate(ok)
    <3>1. PICK peak \in Nat : peak = TrailingPeak(account.peakPrice, worker.close)
      BY <2>1, CurrentAccount DEF TrailingPeak
    <3>2. PICK trailed \in Accounts :
            /\ trailed = [account EXCEPT !.peakPrice = peak]
            /\ trailed.entryPrice = account.entryPrice
            /\ trailed.cumulativeRealized = account.cumulativeRealized
      <4>1. /\ [a EXCEPT !.peakPrice = peak] \in Accounts
            /\ [a EXCEPT !.peakPrice = peak].entryPrice = a.entryPrice
            /\ [a EXCEPT !.peakPrice = peak].cumulativeRealized = a.cumulativeRealized
        BY DEF Accounts
      <4> QED
        BY <2>2, <4>1
    <3>3. CASE SetAccount(trailed) /\ (Fail \/ Done)
      BY <2>1, <3>2, <3>3, NoExecutionProfit
    <3>4. CASE Execute(trailed, "LIQUIDATE", account.activeQuantity, "SAFETY_LIQUIDATION", ok)
      <4>1. /\ account.activeQuantity \in Nat
            /\ "LIQUIDATE" \in Actions /\ "SAFETY_LIQUIDATION" \in Causes
        BY <2>1, CurrentAccount DEF Actions, Causes
      <4> QED
        BY <2>1, <3>2, <3>4, <4>1, ExecuteProfit
    <3> QED
      BY <2>3, <2>5, <3>1, <3>2, <3>3, <3>4 DEF HoldOrSafetyLiquidate, TraceOnly
  <2>6. CASE Liquidate(ok)
    <3>1. CASE Execute(account, "LIQUIDATE", account.activeQuantity, "HOP_OFF", ok)
      <4>1. /\ account.activeQuantity \in Nat
            /\ "LIQUIDATE" \in Actions /\ "HOP_OFF" \in Causes
        BY <2>1, CurrentAccount DEF Actions, Causes
      <4> QED
        BY <2>1, <2>2, <3>1, <4>1, ExecuteProfit
    <3> QED
      BY <2>3, <2>6, <3>1 DEF Liquidate
  <2>7. CASE Settle(ok)
    BY <2>3, <2>7 DEF Settle
  <2> QED
    BY <1>2, <2>4, <2>5, <2>6, <2>7 DEF ProcessStep
<1> QED
  BY <1>1, <1>2

LEMMA PipelineStepProfit ==
  ASSUME PipelineInv, PipelineInv', ProfitInv, NEW ok \in BOOLEAN, PipelineStep(ok)
  PROVE  ProfitInv'
<1>1. CASE StartReservoir(ok) \/ EndReservoir(ok)
  BY <1>1, UntouchedProfit DEF StartReservoir, Start, EndReservoir, End, processVars, reservoirVars
<1>2. CASE \E s \in Symbols, phase \in Phases, close \in Prices : ReceiveBar(s, phase, close, ok)
  <2>1. worker.pc = "idle" /\ accounts' = accounts /\ UNCHANGED realizedPnL
    BY <1>2, ReceiveBarOutcome DEF Mark
  <2>2. worker.fill = NoFill
    BY <2>1, NothingInFlight
  <2>3. worker'.fill = NoFill
    BY <1>2, <2>2, ReceiveBarOutcome
  <2> QED
    BY <2>1, <2>2, <2>3, NoFillProfit
<1>3. CASE ProcessStep(ok)
  BY <1>3, ProcessStepProfit
<1> QED
  BY <1>1, <1>2, <1>3 DEF PipelineStep

LEMMA InitProfit == PipelineInit => ProfitInv
<1> SUFFICES ASSUME PipelineInit PROVE ProfitInv
  OBVIOUS
<1>1. \A s \in Symbols : Profits[s] = 0
  BY DEF PipelineInit, NewAccount, Profits
<1>2. DOMAIN Profits = Symbols
  BY DEF Profits
<1>3. SumFunction(Profits) = 0
  BY <1>1, <1>2, SumOfZeros, ReservoirAssumption DEF SumFunction
<1> QED
  BY <1>3 DEF PipelineInit, ReservoirInit, Idle, NoFill, InFlight, ProfitInv

-----------------------------------------------------------------------------
\* Every invariant of the reservoir's money inside the pipeline.

BooksInv == PipelineInv /\ MoneyInv /\ ProfitInv

LEMMA BooksStep ==
  ASSUME BooksInv, NEW ok \in BOOLEAN, PipelineStep(ok)
  PROVE  BooksInv'
<1>1. PipelineInv' /\ (ReservoirStep \/ UNCHANGED reservoirVars)
  BY PipelineStepInv DEF BooksInv
<1>2. MoneyInv'
  BY <1>1, StepMoney, StutterMoney DEF BooksInv, PipelineInv
<1>3. ProfitInv'
  BY <1>1, PipelineStepProfit DEF BooksInv
<1> QED
  BY <1>1, <1>2, <1>3 DEF BooksInv

LEMMA BooksStutter ==
  ASSUME BooksInv, UNCHANGED pipelineVars
  PROVE  BooksInv'
<1>1. UNCHANGED reservoirVars /\ UNCHANGED <<realizedPnL, positions, accounts, worker>>
  BY DEF pipelineVars, processVars, reservoirVars
<1>2. PipelineInv'
  BY PipelineStutterInv DEF BooksInv
<1>3. MoneyInv'
  BY <1>1, StutterMoney DEF BooksInv, PipelineInv
<1>4. ProfitInv'
  BY <1>1, UntouchedProfit DEF BooksInv
<1> QED
  BY <1>2, <1>3, <1>4 DEF BooksInv

LEMMA BooksInit == PipelineInit => BooksInv
BY PipelineInitInv, InitMoney, InitProfit DEF PipelineInit, BooksInv

LEMMA BooksInvariant == PipelineSpec => []BooksInv
<1>1. BooksInv /\ [PipelineNext]_pipelineVars => BooksInv'
  BY BooksStep, BooksStutter, PipelineAssumption DEF PipelineNext, Finished
<1> QED
  BY <1>1, BooksInit, PTL DEF PipelineSpec

LEMMA ProfitsAgree == BooksInv => RealizedProfitAgrees
<1> SUFFICES ASSUME BooksInv, \A s \in Symbols : ~Unrecorded(s)
             PROVE  realizedPnL = SumFunction(Profits)
  BY DEF RealizedProfitAgrees, Profits
<1>1. worker.fill = NoFill
  BY DEF BooksInv, PipelineInv, WorkerShaped, FillsConfirmed, Unrecorded
<1> QED
  BY <1>1, NothingInFlightProfit DEF BooksInv, ProfitInv, PipelineInv, ReservoirInv, ReservoirTypeOK

-----------------------------------------------------------------------------
\* The duties of a bar.

\* What the recursive definition in ActingAmong stands for.
Selects(kept, outcomes, last) ==
  /\ kept[0] = <<>>
  /\ \A n \in 1..last :
       kept[n] = IF outcomes[n] \in ActionOutcomes THEN Append(kept[n - 1], outcomes[n])
                 ELSE kept[n - 1]

LEMMA SelectionExists ==
  ASSUME NEW outcomes, NEW last \in Nat
  PROVE  \E kept : Selects(kept, outcomes, last)
<1> DEFINE Bad == {n \in 0..last : ~ \E kept : Selects(kept, outcomes, n)}
<1>1. SUFFICES ASSUME Bad # {} PROVE FALSE
  OBVIOUS
<1>2. PICK n \in Bad : \A m \in Bad : n <= m
  <2>1. Bad \in SUBSET (0..last)
    OBVIOUS
  <2> HIDE DEF Bad
  <2> QED  BY <1>1, <2>1, LeastNumber
<1>3. n # 0
  <2> DEFINE none == [m \in {0} |-> <<>>]
  <2>1. Selects(none, outcomes, 0)
    BY DEF Selects
  <2> QED
    BY <1>2, <2>1
<1>4. n - 1 \in 0..last /\ n - 1 \notin Bad
  BY <1>2, <1>3
<1>5. PICK before : Selects(before, outcomes, n - 1)
  BY <1>4
<1> DEFINE next == IF outcomes[n] \in ActionOutcomes THEN Append(before[n - 1], outcomes[n])
                   ELSE before[n - 1]
           kept == [m \in 0..n |-> IF m = n THEN next ELSE before[m]]
<1>6. kept[n] = next /\ \A m \in 0..(n - 1) : kept[m] = before[m]
  <2> HIDE DEF next
  <2> QED  BY <1>2
<1> HIDE DEF kept
<1>7. Selects(kept, outcomes, n)
  <2>1. kept[0] = <<>>
    BY <1>2, <1>3, <1>5, <1>6 DEF Selects
  <2>2. ASSUME NEW m \in 1..n
        PROVE  kept[m] = IF outcomes[m] \in ActionOutcomes
                         THEN Append(kept[m - 1], outcomes[m]) ELSE kept[m - 1]
    <3>1. kept[m - 1] = before[m - 1]
      BY <1>2, <1>6
    <3>2. CASE m = n
      BY <1>6, <3>1, <3>2
    <3>3. CASE m # n
      <4>1. m \in 1..(n - 1) /\ kept[m] = before[m]
        BY <1>2, <1>6, <3>3
      <4> QED
        BY <1>5, <3>1, <4>1 DEF Selects
    <3> QED
      BY <3>2, <3>3
  <2> QED
    BY <2>1, <2>2 DEF Selects
<1> QED
  BY <1>2, <1>7

LEMMA ActingSelected ==
  ASSUME NEW outcomes \in Seq(PolicyOutcomes)
  PROVE  \E kept : Selects(kept, outcomes, Len(outcomes)) /\ ActingAmong(outcomes) = kept[Len(outcomes)]
<1> DEFINE last == Len(outcomes)
           Table(kept) ==
             kept = [n \in 0..last |->
                       IF n = 0 THEN <<>>
                       ELSE IF outcomes[n] \in ActionOutcomes THEN Append(kept[n - 1], outcomes[n])
                       ELSE kept[n - 1]]
           chosen == CHOOSE kept : Table(kept)
<1>1. last \in Nat
  OBVIOUS
<1>2. ActingAmong(outcomes) = chosen[last]
  BY DEF ActingAmong
<1> HIDE DEF last
<1>3. PICK kept : Selects(kept, outcomes, last)
  BY <1>1, SelectionExists
<1>4. Table([n \in 0..last |-> kept[n]])
  BY <1>1, <1>3 DEF Selects
<1>5. Table(chosen)
  <2> HIDE DEF Table
  <2> QED  BY <1>4
<1> HIDE DEF chosen
<1> DEFINE value(n) == IF n = 0 THEN <<>>
                       ELSE IF outcomes[n] \in ActionOutcomes THEN Append(chosen[n - 1], outcomes[n])
                       ELSE chosen[n - 1]
<1>6. chosen = [n \in 0..last |-> value(n)]
  BY <1>5
<1>7. \A n \in 0..last : chosen[n] = value(n)
  <2> HIDE DEF value
  <2> QED  BY <1>6
<1>8. Selects(chosen, outcomes, last)
  BY <1>1, <1>7 DEF Selects
<1> QED
  BY <1>2, <1>8 DEF last

\* Whatever is selected is an action; nothing is when no outcome is one; an
\* action at the end of the outcomes is at the end of the selection.
LEMMA ActingProperties ==
  ASSUME NEW outcomes \in Seq(PolicyOutcomes)
  PROVE  LET acting == ActingAmong(outcomes)
             n      == Len(outcomes)
         IN  /\ acting \in Seq(ActionOutcomes)
             /\ (\A k \in 1..n : outcomes[k] \notin ActionOutcomes) => acting = <<>>
             /\ n # 0 /\ outcomes[n] \in ActionOutcomes =>
                  acting # <<>> /\ acting[Len(acting)] = outcomes[n]
<1> DEFINE n == Len(outcomes)
<1>1. n \in Nat
  OBVIOUS
<1>2. PICK kept : Selects(kept, outcomes, n) /\ ActingAmong(outcomes) = kept[n]
  BY ActingSelected
<1> HIDE DEF n
<1>3. \A k \in 0..n : kept[k] \in Seq(ActionOutcomes)
  <2> DEFINE Bad == {k \in 0..n : kept[k] \notin Seq(ActionOutcomes)}
  <2>1. SUFFICES ASSUME Bad # {} PROVE FALSE
    OBVIOUS
  <2>2. PICK k \in Bad : \A m \in Bad : k <= m
    <3>1. Bad \in SUBSET (0..n)
      OBVIOUS
    <3> HIDE DEF Bad
    <3> QED  BY <1>1, <2>1, <3>1, LeastNumber
  <2>3. k # 0
    <3>1. kept[0] = <<>> /\ <<>> \in Seq(ActionOutcomes)
      BY <1>2 DEF Selects
    <3> QED
      BY <2>2, <3>1
  <2>4. k - 1 \in 0..n /\ kept[k - 1] \in Seq(ActionOutcomes)
    BY <1>1, <2>2, <2>3
  <2>5. kept[k] = IF outcomes[k] \in ActionOutcomes THEN Append(kept[k - 1], outcomes[k])
                  ELSE kept[k - 1]
    BY <1>1, <1>2, <2>2, <2>3 DEF Selects
  <2>6. kept[k] \in Seq(ActionOutcomes)
    BY <2>4, <2>5
  <2> QED
    BY <2>2, <2>6
<1>4. ASSUME \A k \in 1..n : outcomes[k] \notin ActionOutcomes
      PROVE  \A k \in 0..n : kept[k] = <<>>
  <2> DEFINE Bad == {k \in 0..n : kept[k] # <<>>}
  <2>1. SUFFICES ASSUME Bad # {} PROVE FALSE
    OBVIOUS
  <2>2. PICK k \in Bad : \A m \in Bad : k <= m
    <3>1. Bad \in SUBSET (0..n)
      OBVIOUS
    <3> HIDE DEF Bad
    <3> QED  BY <1>1, <2>1, <3>1, LeastNumber
  <2>3. k # 0
    BY <1>2, <2>2 DEF Selects
  <2>4. k - 1 \in 0..n /\ kept[k - 1] = <<>>
    BY <1>1, <2>2, <2>3
  <2> QED
    BY <1>1, <1>2, <1>4, <2>2, <2>3, <2>4 DEF Selects
<1>5. ASSUME n # 0, outcomes[n] \in ActionOutcomes
      PROVE  kept[n] # <<>> /\ kept[n][Len(kept[n])] = outcomes[n]
  <2>1. PICK before \in Seq(ActionOutcomes) : before = kept[n - 1]
    BY <1>1, <1>3, <1>5
  <2>2. kept[n] = Append(before, outcomes[n])
    <3>1. n \in 1..n
      BY <1>1, <1>5
    <3>2. kept[n] = Append(kept[n - 1], outcomes[n])
      BY <1>2, <1>5, <3>1 DEF Selects
    <3> QED
      BY <2>1, <3>2
  <2> QED
    BY <1>5, <2>2
<1> QED
  BY <1>1, <1>2, <1>3, <1>4, <1>5 DEF n

\* A bar that ends in LIQUIDATE without a duty began there; every other bar's
\* last duty is the one its state calls for.
LEMMA DutiesEnd ==
  ASSUME NEW currentDegrees \in Int, NEW delta \in Int, NEW priorState \in DynamicExecutionStates
  PROVE  LET result == EvaluateDynamicExecution(DeriveBoundaryFacts(currentDegrees, delta), priorState)
             duties == Duties(result.outcomes, result.state)
         IN  /\ duties \in Seq(ActionOutcomes)
             /\ result.state \in DynamicExecutionStates
             /\ result.state = "LIQUIDATE" =>
                  IF duties = <<>> THEN priorState = "LIQUIDATE"
                  ELSE duties[Len(duties)] = "HOP_OFF_LIQUIDATE"
             /\ result.state = "HOLD_AND_TRAIL" =>
                  duties # <<>> /\ duties[Len(duties)] = "ENTER_HOLD_AND_TRAIL"
<1>1. PICK outcomes, state :
        /\ [outcomes |-> outcomes, state |-> state] =
             EvaluateDynamicExecution(DeriveBoundaryFacts(currentDegrees, delta), priorState)
        /\ outcomes \in Seq(PolicyOutcomes)
        /\ state \in DynamicExecutionStates
        /\ \/ /\ \A k \in 1..Len(outcomes) : outcomes[k] = "NO_TRANSITION"
              /\ state = priorState
           \/ /\ Len(outcomes) # 0
              /\ state = "LIQUIDATE" => outcomes[Len(outcomes)] = "HOP_OFF_LIQUIDATE"
              /\ state = "HOLD_AND_TRAIL" => outcomes[Len(outcomes)] = "ENTER_HOLD_AND_TRAIL"
  <2> DEFINE result == EvaluateDynamicExecution(DeriveBoundaryFacts(currentDegrees, delta), priorState)
  <2>1. result = [outcomes |-> result.outcomes, state |-> result.state]
    BY DEF EvaluateDynamicExecution
  <2>2. /\ result.outcomes \in Seq(PolicyOutcomes)
        /\ result.state \in DynamicExecutionStates
        /\ \/ /\ \A k \in 1..Len(result.outcomes) : result.outcomes[k] = "NO_TRANSITION"
              /\ result.state = priorState
           \/ /\ Len(result.outcomes) # 0
              /\ result.state = "LIQUIDATE" =>
                   result.outcomes[Len(result.outcomes)] = "HOP_OFF_LIQUIDATE"
              /\ result.state = "HOLD_AND_TRAIL" =>
                   result.outcomes[Len(result.outcomes)] = "ENTER_HOLD_AND_TRAIL"
    BY LastOutcomeDecides
  <2> HIDE DEF result
  <2> QED
    BY <2>1, <2>2 DEF result
<1>2. PICK acting \in Seq(ActionOutcomes) :
        /\ acting = ActingAmong(outcomes)
        /\ (\A k \in 1..Len(outcomes) : outcomes[k] \notin ActionOutcomes) => acting = <<>>
        /\ Len(outcomes) # 0 /\ outcomes[Len(outcomes)] \in ActionOutcomes =>
             acting # <<>> /\ acting[Len(acting)] = outcomes[Len(outcomes)]
  BY <1>1, ActingProperties
<1> DEFINE duties == Duties(outcomes, state)
<1>3. duties = IF acting = <<>> /\ state = "HOLD_AND_TRAIL" THEN <<"ENTER_HOLD_AND_TRAIL">> ELSE acting
  BY <1>2 DEF Duties
<1> HIDE DEF duties
<1>4. "NO_TRANSITION" \notin ActionOutcomes /\ "ENTER_HOLD_AND_TRAIL" \in ActionOutcomes
      /\ "HOP_OFF_LIQUIDATE" \in ActionOutcomes
  BY DEF ActionOutcomes
<1>5. /\ duties \in Seq(ActionOutcomes)
      /\ state = "LIQUIDATE" => IF duties = <<>> THEN priorState = "LIQUIDATE"
                                ELSE duties[Len(duties)] = "HOP_OFF_LIQUIDATE"
      /\ state = "HOLD_AND_TRAIL" => duties # <<>> /\ duties[Len(duties)] = "ENTER_HOLD_AND_TRAIL"
  <2>1. CASE acting = <<>> /\ state = "HOLD_AND_TRAIL"
    BY <1>3, <1>4, <2>1
  <2>2. CASE ~(acting = <<>> /\ state = "HOLD_AND_TRAIL")
    <3>1. duties = acting
      BY <1>3, <2>2
    <3>2. CASE (\A k \in 1..Len(outcomes) : outcomes[k] = "NO_TRANSITION") /\ state = priorState
      BY <1>2, <1>4, <2>2, <3>1, <3>2
    <3>3. CASE /\ Len(outcomes) # 0
               /\ state = "LIQUIDATE" => outcomes[Len(outcomes)] = "HOP_OFF_LIQUIDATE"
               /\ state = "HOLD_AND_TRAIL" => outcomes[Len(outcomes)] = "ENTER_HOLD_AND_TRAIL"
      BY <1>2, <1>4, <2>2, <3>1, <3>3
    <3> QED
      BY <1>1, <3>2, <3>3
  <2> QED
    BY <2>1, <2>2
<1>6. /\ EvaluateDynamicExecution(DeriveBoundaryFacts(currentDegrees, delta), priorState).outcomes = outcomes
      /\ EvaluateDynamicExecution(DeriveBoundaryFacts(currentDegrees, delta), priorState).state = state
  BY <1>1
<1> QED
  BY <1>1, <1>5, <1>6 DEF duties

-----------------------------------------------------------------------------
\* State, duties and position of a symbol: the inductive invariant.

\* The position of account a closed at mark and was left above its stop.
AboveStop(a, mark) ==
  /\ a.peakPrice >= mark
  /\ a.peakPrice >= a.entryPrice
  /\ ~AtOrBelowStop(mark, a.peakPrice, Risk)

\* What FlatInLiquidate and HeldAboveStop say of one symbol.
Settled(s) ==
  /\ entities[s].state = "LIQUIDATE" => accounts[s].activeQuantity = 0
  /\ entities[s].state = "HOLD_AND_TRAIL" /\ accounts[s].activeQuantity # 0 =>
       AboveStop(accounts[s], positions[s].markPrice)

\* A symbol trades only once it is initialised, which keeps it eligible.
Sound(s) ==
  /\ IF entities[s].initialized
     THEN /\ entities[s].bars = EligibilityBar
          /\ entities[s].priorPhase \in Phases
          /\ entities[s].state \in DynamicExecutionStates
     ELSE accounts[s].activeQuantity = 0
  /\ accounts[s].activeQuantity # 0 => accounts[s].peakPrice >= accounts[s].entryPrice

\* The duties left are led by the state they were derived with: the last of them
\* is the one that settles the symbol, and once it is done the symbol is settled
\* at the close of the bar, at which a position is marked.
DutiesFit ==
  LET s      == worker.symbol
      duties == worker.pending
      state  == entities[s].state
  IN  /\ entities[s].initialized
      /\ IF duties = <<>>
         THEN /\ state = "LIQUIDATE" => accounts[s].activeQuantity = 0
              /\ state = "HOLD_AND_TRAIL" /\ accounts[s].activeQuantity # 0 =>
                   AboveStop(accounts[s], worker.close)
         ELSE /\ state = "LIQUIDATE" => duties[Len(duties)] = "HOP_OFF_LIQUIDATE"
              /\ state = "HOLD_AND_TRAIL" => duties[Len(duties)] = "ENTER_HOLD_AND_TRAIL"
      /\ worker.pc = "act" /\ worker.close # 0 /\ positions[s].quantity # 0 =>
           positions[s].markPrice = worker.close
      /\ worker.pc = "record" =>
           /\ duties # <<>>
           /\ worker.fill.price = worker.close
           /\ worker.fill.action = "ALLOCATE" <=> Head(duties) = "HOP_ON_ALLOCATE"

PhaseInv ==
  /\ entities \in [Symbols -> Entities]
  /\ worker \in Workers
  /\ received \in 0..MaxBars
  /\ \A s \in Symbols : Sound(s)
  /\ \A s \in Symbols : Quiescent(s) => Settled(s)
  /\ worker.pc \in {"act", "record"} => DutiesFit

LEMMA PhaseInvImplies ==
  ASSUME PipelineInv, PhaseInv
  PROVE  PipelineTypeOK /\ FlatInLiquidate /\ HeldAboveStop
<1>1. PipelineTypeOK
  BY DEF PipelineInv, PhaseInv, WorkerShaped, ReservoirInv, PipelineTypeOK
<1>2. FlatInLiquidate
  BY DEF PhaseInv, Settled, FlatInLiquidate
<1>3. HeldAboveStop
  BY DEF PhaseInv, Settled, AboveStop, HeldAboveStop
<1> QED
  BY <1>1, <1>2, <1>3

-----------------------------------------------------------------------------
\* Its steps.

\* Main's operations.
LEMMA UntouchedPhase ==
  ASSUME PhaseInv, UNCHANGED <<processVars, positions>>
  PROVE  PhaseInv'
<1>1. UNCHANGED <<entities, accounts, worker, received, positions>>
  BY DEF processVars
<1>2. \A s \in Symbols : Sound(s)'
  BY <1>1 DEF PhaseInv, Sound
<1>3. \A s \in Symbols : Quiescent(s)' => Settled(s)'
  BY <1>1 DEF PhaseInv, Quiescent, Settled
<1>4. worker'.pc \in {"act", "record"} => DutiesFit'
  BY <1>1 DEF PhaseInv, DutiesFit
<1> QED
  BY <1>1, <1>2, <1>3, <1>4 DEF PhaseInv

LEMMA Displacement ==
  ASSUME NEW prior \in Phases, NEW phase \in Phases
  PROVE  ShortestCircularDisplacement(prior, phase) \in Int /\ phase \in Int
BY PipelineAssumption DEF ShortestCircularDisplacement, FullCircle

\* A bar of a symbol that is not initialised ends at once or fails; one of a
\* symbol that is leaves the worker at its duties, or fails.
LEMMA ReceiveBarCases ==
  ASSUME PhaseInv, NEW s \in Symbols, NEW phase \in Phases, NEW close \in Prices, NEW ok \in BOOLEAN,
         ReceiveBar(s, phase, close, ok)
  PROVE  LET entity == entities[s]
             result == EvaluateDynamicExecution(
                         DeriveBoundaryFacts(phase, ShortestCircularDisplacement(entity.priorPhase, phase)),
                         entity.state)
             failed == worker' = [ pc |-> "failed", symbol |-> s, close |-> close,
                                   pending |-> <<>>, fill |-> NoFill ]
         IN  \E after \in Entities :
               /\ entities' = [entities EXCEPT ![s] = after]
               /\ after.initialized =>
                    /\ after.bars = EligibilityBar
                    /\ after.priorPhase \in Phases
                    /\ after.state \in DynamicExecutionStates
               /\ \/ ~entity.initialized /\ (worker' = worker \/ failed)
                  \/ entity.initialized /\ after.initialized /\ failed
                  \/ /\ entity.initialized /\ after.initialized
                     /\ after.state = result.state
                     /\ worker' = [ pc |-> "act", symbol |-> s, close |-> close,
                                    pending |-> Duties(result.outcomes, result.state),
                                    fill |-> NoFill ]
<1> DEFINE entity  == entities[s]
           bars    == IF entity.bars < EligibilityBar THEN entity.bars + 1 ELSE entity.bars
           result  == EvaluateDynamicExecution(
                        DeriveBoundaryFacts(phase, ShortestCircularDisplacement(entity.priorPhase, phase)),
                        entity.state)
           counted == [entity EXCEPT !.bars = bars]
           phased  == [counted EXCEPT !.priorPhase = phase]
           failed  == worker' = [ pc |-> "failed", symbol |-> s, close |-> close,
                                  pending |-> <<>>, fill |-> NoFill ]
<1>1. /\ entity \in Entities
      /\ entity.bars \in 0..EligibilityBar
      /\ entity.initialized => /\ entity.bars = EligibilityBar
                               /\ entity.priorPhase \in Phases
                               /\ entity.state \in DynamicExecutionStates
  BY DEF PhaseInv, Sound, Entities
<1>2. bars \in 0..EligibilityBar /\ (entity.initialized => bars = EligibilityBar)
  <2> HIDE DEF entity
  <2> QED  BY <1>1, PipelineAssumption
<1>3. FailBar(s, close) => failed
  BY DEF FailBar, Idle
<1>4. counted = [ bars |-> bars, priorPhase |-> entity.priorPhase,
                  initialized |-> entity.initialized, state |-> entity.state ]
  <2> HIDE DEF entity, bars
  <2> QED  BY <1>1 DEF Entities
<1>5. phased = [ bars |-> bars, priorPhase |-> phase,
                 initialized |-> entity.initialized, state |-> entity.state ]
  <2> HIDE DEF entity, bars, counted
  <2> QED  BY <1>4
<1>6. \/ /\ bars < EligibilityBar
         /\ entities' = [entities EXCEPT ![s] = counted]
         /\ worker' = worker \/ failed
      \/ /\ bars >= EligibilityBar /\ ~entity.initialized
         /\ \/ /\ entities' = [entities EXCEPT ![s] =
                    [phased EXCEPT !.initialized = TRUE, !.state = StateForPhase(phase)]]
               /\ worker' = worker
            \/ entities' = [entities EXCEPT ![s] = phased] /\ failed
      \/ /\ bars >= EligibilityBar /\ entity.initialized
         /\ entities' = [entities EXCEPT ![s] = [phased EXCEPT !.state = result.state]]
         /\ \/ failed
            \/ worker' = [ pc |-> "act", symbol |-> s, close |-> close,
                           pending |-> Duties(result.outcomes, result.state),
                           fill |-> NoFill ]
      \/ /\ bars >= EligibilityBar /\ entity.initialized
         /\ entities' = [entities EXCEPT ![s] = phased] /\ failed
  <2>1. PICK eligible \in BOOLEAN : eligible <=> bars >= EligibilityBar
    OBVIOUS
  <2>2. ~eligible <=> bars < EligibilityBar
    <3> HIDE DEF bars
    <3> QED  BY <1>2, <2>1, PipelineAssumption
  <2> HIDE DEF failed
  <2> QED
    BY <1>3, <2>1, <2>2 DEF ReceiveBar, Idle
<1> HIDE DEF result, entity, bars, counted, phased, failed
<1>7. CASE /\ bars < EligibilityBar
           /\ entities' = [entities EXCEPT ![s] = counted]
           /\ worker' = worker \/ failed
  <2>1. ~entity.initialized
    BY <1>2, <1>7, PipelineAssumption
  <2>2. counted \in Entities /\ ~counted.initialized
    BY <1>1, <1>2, <1>4, <2>1 DEF Entities
  <2> QED
    BY <1>7, <2>1, <2>2 DEF entity, failed
<1>8. CASE bars >= EligibilityBar /\ ~entity.initialized
  <2>1. bars = EligibilityBar
    BY <1>2, <1>8, PipelineAssumption
  <2>2. phased \in Entities /\ ~phased.initialized
    BY <1>1, <1>2, <1>5, <1>8 DEF Entities
  <2>3. StateForPhase(phase) \in DynamicExecutionStates
    BY DEF StateForPhase, DynamicExecutionStates
  <2> DEFINE entered == [phased EXCEPT !.initialized = TRUE, !.state = StateForPhase(phase)]
  <2>4. entered = [ bars |-> bars, priorPhase |-> phase,
                    initialized |-> TRUE, state |-> StateForPhase(phase) ]
    <3>1. entered = [[ bars |-> bars, priorPhase |-> phase,
                       initialized |-> entity.initialized, state |-> entity.state ]
                       EXCEPT !.initialized = TRUE, !.state = StateForPhase(phase)]
      BY <1>5
    <3> HIDE DEF entered
    <3> QED  BY <3>1
  <2>5. \/ entities' = [entities EXCEPT ![s] = entered] /\ worker' = worker
        \/ entities' = [entities EXCEPT ![s] = phased] /\ failed
    <3>1. ~(bars < EligibilityBar)
      BY <2>1, PipelineAssumption
    <3> QED
      BY <1>6, <1>8, <3>1
  <2> HIDE DEF entered
  <2>6. /\ entered \in Entities
        /\ entered.bars = EligibilityBar
        /\ entered.priorPhase \in Phases
        /\ entered.state \in DynamicExecutionStates
    BY <1>2, <2>1, <2>3, <2>4 DEF Entities
  <2>7. CASE entities' = [entities EXCEPT ![s] = entered] /\ worker' = worker
    BY <1>8, <2>6, <2>7 DEF entity
  <2>8. CASE entities' = [entities EXCEPT ![s] = phased] /\ failed
    BY <1>8, <2>2, <2>8 DEF entity, failed
  <2> QED
    BY <2>7, <2>8, <2>5
<1>9. CASE bars >= EligibilityBar /\ entity.initialized
  <2>1. bars = EligibilityBar
    BY <1>2, <1>9
  <2>2. /\ phased \in Entities
        /\ phased.initialized
        /\ phased.bars = EligibilityBar
        /\ phased.priorPhase \in Phases
        /\ phased.state \in DynamicExecutionStates
    BY <1>1, <1>2, <1>5, <1>9, <2>1 DEF Entities
  <2>3. result.state \in DynamicExecutionStates
    BY <1>1, <1>9, Displacement, DutiesEnd DEF result
  <2> DEFINE moved == [phased EXCEPT !.state = result.state]
  <2>4. moved = [ bars |-> bars, priorPhase |-> phase,
                  initialized |-> entity.initialized, state |-> result.state ]
    BY <1>5
  <2>5. \/ entities' = [entities EXCEPT ![s] = phased] /\ failed
        \/ entities' = [entities EXCEPT ![s] = moved] /\ failed
        \/ /\ entities' = [entities EXCEPT ![s] = moved]
           /\ worker' = [ pc |-> "act", symbol |-> s, close |-> close,
                          pending |-> Duties(result.outcomes, result.state), fill |-> NoFill ]
    <3>1. ~(bars < EligibilityBar)
      BY <2>1, PipelineAssumption
    <3> QED
      BY <1>6, <1>9, <3>1
  <2> HIDE DEF moved
  <2>6. /\ moved \in Entities
        /\ moved.initialized
        /\ moved.bars = EligibilityBar
        /\ moved.priorPhase \in Phases
        /\ moved.state = result.state
    BY <1>2, <1>9, <2>1, <2>3, <2>4 DEF Entities
  <2>7. CASE entities' = [entities EXCEPT ![s] = phased] /\ failed
    BY <1>9, <2>2, <2>7 DEF entity, failed
  <2>8. CASE entities' = [entities EXCEPT ![s] = moved] /\ failed
    BY <1>9, <2>3, <2>6, <2>8 DEF entity, failed
  <2>9. CASE /\ entities' = [entities EXCEPT ![s] = moved]
             /\ worker' = [ pc |-> "act", symbol |-> s, close |-> close,
                            pending |-> Duties(result.outcomes, result.state), fill |-> NoFill ]
    BY <1>9, <2>3, <2>6, <2>9 DEF entity, result
  <2> QED
    BY <2>7, <2>8, <2>9, <2>5
<1> QED
  BY <1>6, <1>7, <1>8, <1>9

\* Tail leaves the last duty where it was, unless it was the only one.
LEMMA TailOfDuties ==
  ASSUME NEW duties \in Seq(ActionOutcomes), duties # <<>>
  PROVE  /\ Tail(duties) \in Seq(ActionOutcomes)
         /\ IF Tail(duties) = <<>> THEN Head(duties) = duties[Len(duties)]
            ELSE Tail(duties)[Len(Tail(duties))] = duties[Len(duties)]
<1>1. Len(duties) \in Nat \ {0}
  OBVIOUS
<1>2. PICK rest : /\ rest = Tail(duties) /\ rest \in Seq(ActionOutcomes)
                  /\ Len(rest) = Len(duties) - 1
                  /\ \A i \in 1..(Len(duties) - 1) : rest[i] = duties[i + 1]
  <2>1. Tail(duties) \in Seq(ActionOutcomes) /\ Len(Tail(duties)) = Len(duties) - 1
    OBVIOUS
  <2>2. \A i \in 1..(Len(duties) - 1) : Tail(duties)[i] = duties[i + 1]
    OBVIOUS
  <2> QED
    BY <2>1, <2>2
<1>3. CASE Len(duties) = 1
  <2>1. rest = <<>> /\ Head(duties) = duties[1]
    BY <1>2, <1>3
  <2> QED
    BY <1>2, <1>3, <2>1
<1>4. CASE Len(duties) # 1
  <2>1. Len(rest) \in 1..(Len(duties) - 1) /\ rest # <<>>
    BY <1>1, <1>2, <1>4
  <2>2. rest[Len(rest)] = duties[Len(duties)]
    BY <1>1, <1>2, <2>1
  <2> QED
    BY <1>2, <2>1, <2>2
<1> QED
  BY <1>3, <1>4

\* A symbol whose bar it is not stays as it was.
LEMMA OtherSymbols ==
  ASSUME PhaseInv, NEW s \in Symbols,
         \A t \in Symbols \ {s} : /\ entities'[t] = entities[t]
                                  /\ accounts'[t] = accounts[t]
                                  /\ positions'[t] = positions[t],
         worker.pc = "idle" \/ worker.symbol = s
  PROVE  \A t \in Symbols \ {s} : Sound(t)' /\ (entities[t].initialized => Settled(t)')
<1> SUFFICES ASSUME NEW t \in Symbols \ {s}
             PROVE  Sound(t)' /\ (entities[t].initialized => Settled(t)')
  OBVIOUS
<1>1. entities'[t] = entities[t] /\ accounts'[t] = accounts[t] /\ positions'[t] = positions[t]
  OBVIOUS
<1>2. Sound(t) /\ (entities[t].initialized => Settled(t))
  BY DEF PhaseInv, Quiescent
<1> QED
  BY <1>1, <1>2 DEF Sound, Settled

LEMMA ReceiveBarPhase ==
  ASSUME PipelineInv, PipelineInv', PhaseInv,
         NEW s \in Symbols, NEW phase \in Phases, NEW close \in Prices, NEW ok \in BOOLEAN,
         ReceiveBar(s, phase, close, ok)
  PROVE  PhaseInv'
<1> DEFINE result == EvaluateDynamicExecution(
                       DeriveBoundaryFacts(phase,
                         ShortestCircularDisplacement(entities[s].priorPhase, phase)),
                       entities[s].state)
           duties == Duties(result.outcomes, result.state)
           failed == worker' = [ pc |-> "failed", symbol |-> s, close |-> close,
                                 pending |-> <<>>, fill |-> NoFill ]
           acting == worker' = [ pc |-> "act", symbol |-> s, close |-> close,
                                 pending |-> duties, fill |-> NoFill ]
<1>1. PICK after \in Entities :
        /\ entities' = [entities EXCEPT ![s] = after]
        /\ after.initialized => /\ after.bars = EligibilityBar
                                /\ after.priorPhase \in Phases
                                /\ after.state \in DynamicExecutionStates
        /\ \/ ~entities[s].initialized /\ (worker' = worker \/ failed)
           \/ entities[s].initialized /\ after.initialized /\ failed
           \/ /\ entities[s].initialized /\ after.initialized
              /\ after.state = result.state
              /\ acting
  BY ReceiveBarCases
<1>2. /\ worker.pc = "idle"
      /\ Mark(s, close)
      /\ accounts' = accounts
      /\ received' = received + 1 /\ received < MaxBars
  BY ReceiveBarOutcome DEF ReceiveBar
<1>3. /\ Sound(s)
      /\ entities[s].initialized => Settled(s)
      /\ accounts[s].activeQuantity = positions[s].quantity
      /\ accounts[s].activeQuantity \in Nat
      /\ close \in Nat
  BY <1>2, NothingInFlight, ReservoirAssumption DEF PhaseInv, PipelineInv, Quiescent, Accounts
<1>4. entities' \in [Symbols -> Entities] /\ received' \in 0..MaxBars
  BY <1>1, <1>2, PipelineAssumption DEF PhaseInv
<1>5. entities'[s] = after /\ \A t \in Symbols \ {s} : entities'[t] = entities[t]
  BY <1>1 DEF PhaseInv
<1>6. \A t \in Symbols \ {s} : positions'[t] = positions[t]
  BY <1>2 DEF Mark, PipelineInv, ReservoirInv, ReservoirTypeOK
<1>7. /\ positions'[s].quantity = positions[s].quantity
      /\ positions[s].quantity # 0 /\ close # 0 => positions'[s].markPrice = close
  BY <1>2, <1>3 DEF Mark, PipelineInv, ReservoirInv, ReservoirTypeOK
<1>8. \A t \in Symbols \ {s} : Sound(t)' /\ (entities[t].initialized => Settled(t)')
  BY <1>2, <1>5, <1>6, OtherSymbols
<1>9. \/ worker' = worker /\ ~entities[s].initialized
      \/ worker'.pc \in {"failed", "act"} /\ worker'.symbol = s
  BY <1>1
<1>10. Sound(s)'
  <2>1. after.initialized \/ accounts[s].activeQuantity = 0
    BY <1>1, <1>3 DEF Sound
  <2>2. accounts[s].activeQuantity # 0 => accounts[s].peakPrice >= accounts[s].entryPrice
    BY <1>3 DEF Sound
  <2> HIDE DEF failed, acting
  <2>3. after.initialized => /\ after.bars = EligibilityBar
                             /\ after.priorPhase \in Phases
                             /\ after.state \in DynamicExecutionStates
    BY <1>1
  <2>4. ~after.initialized => accounts[s].activeQuantity = 0
    BY <2>1
  <2> QED
    BY <1>2, <1>5, <2>2, <2>3, <2>4 DEF Sound
<1>11. \A t \in Symbols : Quiescent(t)' => Settled(t)'
  <2> SUFFICES ASSUME NEW t \in Symbols, Quiescent(t)' PROVE Settled(t)'
    OBVIOUS
  <2>1. CASE t # s
    BY <1>5, <1>8, <2>1 DEF Quiescent
  <2>2. CASE t = s
    <3>1. ~entities[s].initialized
      BY <1>9, <2>2 DEF Quiescent
    <3>2. accounts'[s].activeQuantity = 0
      BY <1>2, <1>3, <3>1 DEF Sound
    <3> QED
      BY <2>2, <3>2 DEF Settled
  <2> QED
    BY <2>1, <2>2
<1>12. /\ worker' \in Workers
       /\ worker'.pc \in {"act", "record"} => DutiesFit'
  <2>1. s \in Symbols \cup {NoSymbol} /\ close \in Prices \cup {0} /\ NoFill.quantity = 0
        /\ "NONE" \in Actions \cup {"NONE"} /\ NoCause \in Causes \cup {NoCause} /\ 0 \in Nat
    BY DEF NoFill
  <2>2. CASE worker' = worker
    BY <1>2, <2>2 DEF PhaseInv
  <2>3. CASE failed
    <3>1. <<>> \in Seq(ActionOutcomes)
      OBVIOUS
    <3> QED
      BY <2>1, <2>3, <3>1 DEF Workers, NoFill
  <2>4. CASE entities[s].initialized /\ after.initialized /\ after.state = result.state /\ acting
    <3>1. /\ duties \in Seq(ActionOutcomes)
          /\ result.state = "LIQUIDATE" =>
               IF duties = <<>> THEN entities[s].state = "LIQUIDATE"
               ELSE duties[Len(duties)] = "HOP_OFF_LIQUIDATE"
          /\ result.state = "HOLD_AND_TRAIL" =>
               duties # <<>> /\ duties[Len(duties)] = "ENTER_HOLD_AND_TRAIL"
      BY <1>3, <2>4, Displacement, DutiesEnd DEF Sound
    <3>2. entities[s].state = "LIQUIDATE" => accounts[s].activeQuantity = 0
      BY <1>3, <2>4 DEF Settled
    <3> HIDE DEF duties, result
    <3>3. worker' \in Workers
      BY <2>1, <2>4, <3>1 DEF Workers, NoFill
    <3>4. /\ worker'.pc = "act" /\ worker'.symbol = s /\ worker'.close = close
          /\ worker'.pending = duties
          /\ entities'[s].state = result.state /\ entities'[s].initialized
      BY <1>5, <2>4
    <3>5. DutiesFit'
      BY <1>2, <1>7, <3>1, <3>2, <3>4 DEF DutiesFit
    <3> QED
      BY <3>3, <3>5
  <2> QED
    BY <1>1, <2>2, <2>3, <2>4
<1>13. \A t \in Symbols : Sound(t)'
  BY <1>8, <1>10
<1> QED
  BY <1>4, <1>11, <1>12, <1>13 DEF PhaseInv

\* A step of the worker that goes on with its bar or fails.
LEMMA BarGoesOn ==
  ASSUME PhaseInv, NEW s \in Symbols, worker.pc # "idle", worker.symbol = s,
         entities' = entities, received' = received,
         worker' \in Workers, worker'.pc # "idle", worker'.symbol = s,
         \A t \in Symbols \ {s} : accounts'[t] = accounts[t] /\ positions'[t] = positions[t],
         worker.pc \in {"act", "record"},
         accounts'[s].activeQuantity # 0 => accounts'[s].peakPrice >= accounts'[s].entryPrice,
         worker'.pc \in {"act", "record"} => DutiesFit'
  PROVE  PhaseInv'
<1>1. \A t \in Symbols \ {s} : Sound(t)' /\ (entities[t].initialized => Settled(t)')
  BY OtherSymbols
<1>2. Sound(s)'
  BY DEF PhaseInv, Sound, DutiesFit
<1>3. \A t \in Symbols : Quiescent(t)' => Settled(t)'
  BY <1>1 DEF Quiescent
<1> QED
  BY <1>1, <1>2, <1>3 DEF PhaseInv

\* What is known of the bar's symbol before one of the worker's steps.
LEMMA CurrentBar ==
  ASSUME PipelineInv, PhaseInv, worker.pc \in {"act", "record"}
  PROVE  /\ worker.symbol \in Symbols
         /\ DutiesFit
         /\ worker.pending \in Seq(ActionOutcomes)
         /\ worker = [ pc |-> worker.pc, symbol |-> worker.symbol, close |-> worker.close,
                       pending |-> worker.pending, fill |-> worker.fill ]
         /\ worker.fill \in [ action : Actions \cup {"NONE"}, quantity : Nat, price : Nat,
                              cause : Causes \cup {NoCause} ]
         /\ worker.close \in Prices /\ worker.close \in Nat
         /\ account \in Accounts /\ account = accounts[worker.symbol]
BY ReservoirAssumption DEF PipelineInv, PhaseInv, WorkerShaped, Workers, account

\* A duty that is done without an execution: the account is as it was, or its
\* peak is, and the rest of the duties fits.
LEMMA DonePhase ==
  ASSUME PipelineInv, PhaseInv, worker.pc = "act", worker.pending # <<>>, Done,
         UNCHANGED <<entities, received, reservoirVars>>,
         NEW a \in Accounts, SetAccount(a),
         a.activeQuantity = account.activeQuantity,
         a.activeQuantity # 0 => a.peakPrice >= a.entryPrice,
         Head(worker.pending) = "HOP_OFF_LIQUIDATE" => a.activeQuantity = 0,
         Head(worker.pending) = "ENTER_HOLD_AND_TRAIL" =>
           a.activeQuantity = 0 \/ AboveStop(a, worker.close)
  PROVE  PhaseInv'
<1>1. PICK s \in Symbols, duties \in Seq(ActionOutcomes), rest \in Seq(ActionOutcomes) :
        /\ s = worker.symbol /\ duties = worker.pending /\ duties # <<>> /\ rest = Tail(duties)
        /\ IF rest = <<>> THEN Head(duties) = duties[Len(duties)]
           ELSE rest[Len(rest)] = duties[Len(duties)]
  <2>1. PICK s \in Symbols, duties \in Seq(ActionOutcomes) :
          s = worker.symbol /\ duties = worker.pending /\ duties # <<>>
    BY CurrentBar
  <2>2. PICK rest \in Seq(ActionOutcomes) :
          /\ rest = Tail(duties)
          /\ IF rest = <<>> THEN Head(duties) = duties[Len(duties)]
             ELSE rest[Len(rest)] = duties[Len(duties)]
    BY <2>1, TailOfDuties
  <2> QED
    BY <2>1, <2>2
<1>2. /\ worker' = [ pc |-> "act", symbol |-> s, close |-> worker.close,
                     pending |-> rest, fill |-> worker.fill ]
      /\ worker' \in Workers
  <2>1. worker = [ pc |-> "act", symbol |-> s, close |-> worker.close,
                   pending |-> duties, fill |-> worker.fill ]
    BY <1>1, CurrentBar
  <2>2. worker' = [ pc |-> "act", symbol |-> s, close |-> worker.close,
                    pending |-> rest, fill |-> worker.fill ]
    BY <1>1, <2>1 DEF Done
  <2> QED
    BY <1>1, <2>2, CurrentBar DEF Workers
<1>3. accounts'[s] = a /\ \A t \in Symbols \ {s} : accounts'[t] = accounts[t]
  BY <1>1 DEF SetAccount, PipelineInv
<1>4. UNCHANGED positions /\ DutiesFit
  BY CurrentBar DEF reservoirVars
<1>5. accounts[s].activeQuantity = a.activeQuantity
  BY <1>1, CurrentBar
<1>6. DutiesFit'
  BY <1>1, <1>2, <1>3, <1>4, <1>5 DEF DutiesFit
<1> QED
  BY <1>1, <1>2, <1>3, <1>4, <1>6, BarGoesOn

LEMMA FailPhase ==
  ASSUME PipelineInv, PhaseInv, worker.pc \in {"act", "record"}, Fail,
         UNCHANGED <<entities, received, positions>>,
         NEW a \in Accounts, SetAccount(a),
         a.activeQuantity # 0 => a.peakPrice >= a.entryPrice
  PROVE  PhaseInv'
<1>1. PICK s \in Symbols : s = worker.symbol
  BY CurrentBar
<1>2. /\ worker' = [ pc |-> "failed", symbol |-> s, close |-> worker.close,
                     pending |-> worker.pending, fill |-> worker.fill ]
      /\ worker' \in Workers
  <2>1. worker' = [ pc |-> "failed", symbol |-> s, close |-> worker.close,
                    pending |-> worker.pending, fill |-> worker.fill ]
    BY <1>1, CurrentBar DEF Fail
  <2> QED
    BY <1>1, <2>1, CurrentBar DEF Workers
<1>3. accounts'[s] = a /\ \A t \in Symbols \ {s} : accounts'[t] = accounts[t]
  BY <1>1 DEF SetAccount, PipelineInv
<1> QED
  BY <1>1, <1>2, <1>3, BarGoesOn

\* The account as the account it is set to.
LEMMA AccountKept ==
  ASSUME PipelineInv, PhaseInv, worker.pc \in {"act", "record"}
  PROVE  /\ account \in Accounts
         /\ account.activeQuantity # 0 => account.peakPrice >= account.entryPrice
         /\ accounts' = accounts => SetAccount(account)
<1>1. PICK s \in Symbols : s = worker.symbol /\ account = accounts[s] /\ account \in Accounts
  BY CurrentBar
<1>2. Sound(s)
  BY DEF PhaseInv
<1>3. accounts' = accounts => SetAccount(account)
  BY <1>1 DEF PipelineInv, SetAccount, account
<1> QED
  BY <1>1, <1>2, <1>3 DEF Sound

LEMMA AppliedPeak ==
  ASSUME NEW a \in Accounts, NEW action \in Actions, NEW quantity \in Nat, NEW price \in Nat,
         NEW b \in Accounts, b = ApplyConfirmed(a, action, quantity, price)
  PROVE  b.activeQuantity # 0 => b.peakPrice >= b.entryPrice
<1>1. CASE action = "ALLOCATE"
  <2>1. b.peakPrice = price /\ b.entryPrice = price
    BY <1>1 DEF ApplyConfirmed, Accounts
  <2> QED
    BY <2>1
<1>2. CASE action # "ALLOCATE"
  <2>1. b.activeQuantity = 0
    BY <1>2 DEF ApplyConfirmed, Accounts
  <2> QED
    BY <2>1
<1> QED
  BY <1>1, <1>2

LEMMA ExecutePhase ==
  ASSUME PipelineInv, PhaseInv, worker.pc = "act", worker.pending # <<>>,
         UNCHANGED <<entities, received, reservoirVars>>,
         NEW a \in Accounts,
         a.activeQuantity # 0 => a.peakPrice >= a.entryPrice,
         NEW action \in Actions, NEW quantity \in Nat, NEW cause \in Causes, NEW ok \in BOOLEAN,
         action = "ALLOCATE" <=> Head(worker.pending) = "HOP_ON_ALLOCATE",
         Execute(a, action, quantity, cause, ok)
  PROVE  PhaseInv'
<1> DEFINE fill == [action |-> action, quantity |-> quantity, price |-> worker.close, cause |-> cause]
<1>1. CASE SetAccount(a) /\ Fail
  BY <1>1, FailPhase DEF reservoirVars
<1>2. CASE /\ Applicable(a, action, quantity, worker.close)
           /\ SetAccount(ApplyConfirmed(a, action, quantity, worker.close))
           /\ worker' = [worker EXCEPT !.pc = IF ok THEN "record" ELSE "failed", !.fill = fill]
  <2>1. PICK s \in Symbols, price \in Nat, duties \in Seq(ActionOutcomes) :
          /\ s = worker.symbol /\ price = worker.close /\ price \in Prices
          /\ duties = worker.pending /\ duties # <<>>
    BY CurrentBar
  <2>2. PICK b \in Accounts :
          /\ b = ApplyConfirmed(a, action, quantity, price)
          /\ b.activeQuantity # 0 => b.peakPrice >= b.entryPrice
    BY <1>2, <2>1, ApplyConfirmedType, AppliedPeak
  <2>3. accounts'[s] = b /\ \A t \in Symbols \ {s} : accounts'[t] = accounts[t]
    BY <1>2, <2>1, <2>2 DEF SetAccount, PipelineInv
  <2>4. PICK pc \in {"record", "failed"} :
          worker' = [ pc |-> pc, symbol |-> s, close |-> price, pending |-> duties,
                      fill |-> [action |-> action, quantity |-> quantity,
                                price |-> price, cause |-> cause] ]
    <3>1. worker = [ pc |-> "act", symbol |-> s, close |-> price, pending |-> duties,
                     fill |-> worker.fill ]
      BY <2>1, CurrentBar
    <3> QED
      BY <1>2, <2>1, <3>1
  <2>5. worker' \in Workers
    BY <2>1, <2>4 DEF Workers
  <2>6. UNCHANGED positions /\ DutiesFit
    BY CurrentBar DEF reservoirVars
  <2>7. worker'.pc = "record" => DutiesFit'
    BY <2>1, <2>3, <2>4, <2>6 DEF DutiesFit
  <2> QED
    BY <2>1, <2>2, <2>3, <2>4, <2>5, <2>6, <2>7, BarGoesOn
<1> QED
  BY <1>1, <1>2 DEF Execute

LEMMA RecordPhase ==
  ASSUME PipelineInv, PipelineInv', PhaseInv, NEW ok \in BOOLEAN, Record(ok)
  PROVE  PhaseInv'
<1>1. worker.pc = "record" /\ UNCHANGED <<entities, accounts, received>>
  BY DEF Record
<1> DEFINE fill == worker.fill
<1>2. PICK s \in Symbols, duties \in Seq(ActionOutcomes), rest \in Seq(ActionOutcomes) :
        /\ s = worker.symbol /\ fill # NoFill
        /\ duties = worker.pending /\ duties # <<>> /\ rest = Tail(duties)
        /\ IF rest = <<>> THEN Head(duties) = duties[Len(duties)]
           ELSE rest[Len(rest)] = duties[Len(duties)]
  <2>1. worker.pending # <<>> /\ worker.fill # NoFill
    BY <1>1, CurrentBar DEF DutiesFit, PipelineInv, FillsConfirmed
  <2>2. PICK s \in Symbols, duties \in Seq(ActionOutcomes) :
          s = worker.symbol /\ duties = worker.pending /\ duties # <<>>
    BY <1>1, <2>1, CurrentBar
  <2>3. PICK rest \in Seq(ActionOutcomes) :
          /\ rest = Tail(duties)
          /\ IF rest = <<>> THEN Head(duties) = duties[Len(duties)]
             ELSE rest[Len(rest)] = duties[Len(duties)]
    BY <2>2, TailOfDuties
  <2> QED
    BY <2>1, <2>2, <2>3
<1>3. Confirmed /\ DutiesFit
  BY <1>1, <1>2, CurrentBar DEF PipelineInv, FillsConfirmed
<1>4. RecordExecution(s, fill.action, fill.quantity, fill.price, fill.cause, ok)
  BY <1>2 DEF Record
<1>5. CASE Recordable(fill.action, fill.quantity, fill.price, fill.cause) /\ Acknowledged(ok)
  <2>1. PICK event : ApplyFlow(s, fill.action, fill.quantity, fill.price, event)
    BY <1>4, <1>5 DEF RecordExecution
  <2>2. worker' = [ pc |-> "act", symbol |-> s, close |-> worker.close,
                    pending |-> rest, fill |-> NoFill ]
    <3>1. worker = [ pc |-> "record", symbol |-> s, close |-> worker.close,
                     pending |-> duties, fill |-> fill ]
      BY <1>1, <1>2, CurrentBar
    <3>2. worker' = [worker EXCEPT !.pc = "act", !.pending = Tail(@), !.fill = NoFill]
      BY <1>2, <1>5 DEF Record
    <3> QED
      BY <1>2, <3>1, <3>2
  <2>3. worker' \in Workers
    <3>1. NoFill \in [ action : Actions \cup {"NONE"}, quantity : Nat, price : Nat,
                       cause : Causes \cup {NoCause} ]
      BY DEF NoFill
    <3> QED
      BY <1>1, <2>2, <3>1, CurrentBar DEF Workers
  <2>4. \A t \in Symbols \ {s} : positions'[t] = positions[t]
    BY <2>1 DEF ApplyFlow, PipelineInv, ReservoirInv, ReservoirTypeOK
  <2>5. positions'[s].quantity # 0 => positions'[s].markPrice = worker.close
    <3>1. fill.price = worker.close
      BY <1>1, <1>2, <1>3 DEF DutiesFit
    <3>2. positions \in [Symbols -> [quantity : Nat, entryPrice : Nat, markPrice : Nat]]
      BY DEF PipelineInv, ReservoirInv, ReservoirTypeOK
    <3>3. CASE fill.action = "ALLOCATE"
      BY <2>1, <3>1, <3>2, <3>3 DEF ApplyFlow
    <3>4. CASE fill.action # "ALLOCATE"
      BY <2>1, <3>2, <3>4 DEF ApplyFlow, NoPosition
    <3> QED
      BY <3>3, <3>4
  <2>6. Head(duties) # "HOP_ON_ALLOCATE" => accounts[s].activeQuantity = 0
    BY <1>1, <1>2, <1>3 DEF Confirmed, DutiesFit, account
  <2>7. DutiesFit'
    BY <1>1, <1>2, <1>3, <2>2, <2>5, <2>6 DEF DutiesFit
  <2>8. accounts[s].activeQuantity # 0 => accounts[s].peakPrice >= accounts[s].entryPrice
    BY DEF PhaseInv, Sound
  <2> QED
    BY <1>1, <1>2, <2>2, <2>3, <2>4, <2>7, <2>8, BarGoesOn
<1>6. CASE ~(Recordable(fill.action, fill.quantity, fill.price, fill.cause) /\ Acknowledged(ok))
  <2>1. UNCHANGED positions
    BY <1>4, <1>6 DEF RecordExecution, reservoirVars
  <2>2. Fail
    BY <1>2, <1>6 DEF Record
  <2>3. PICK a \in Accounts : /\ a = account /\ SetAccount(a)
                              /\ a.activeQuantity # 0 => a.peakPrice >= a.entryPrice
    BY <1>1, AccountKept
  <2> QED
    BY <1>1, <2>1, <2>2, <2>3, FailPhase
<1> QED
  BY <1>5, <1>6

LEMMA SettlePhase ==
  ASSUME PipelineInv, PipelineInv', PhaseInv, NEW ok \in BOOLEAN, Settle(ok)
  PROVE  PhaseInv'
<1>1. worker.pc = "act" /\ worker.pending = <<>>
      /\ UNCHANGED <<entities, accounts, received, reservoirVars>>
  BY DEF Settle
<1>2. UNCHANGED positions
  BY <1>1 DEF reservoirVars
<1>3. CASE Fail
  <2>1. PICK a \in Accounts : /\ a = account /\ SetAccount(a)
                              /\ a.activeQuantity # 0 => a.peakPrice >= a.entryPrice
    BY <1>1, AccountKept
  <2> QED
    BY <1>1, <1>2, <1>3, <2>1, FailPhase
<1>4. CASE worker' = Idle /\ (account.activeQuantity = 0 \/ worker.close # 0)
  <2>1. PICK s \in Symbols : /\ s = worker.symbol
                             /\ accounts[s].activeQuantity = 0 \/ worker.close # 0
    BY <1>1, <1>4, CurrentBar
  <2>2. accounts[s].activeQuantity = positions[s].quantity
    BY <1>1, NothingInFlight
  <2>3. Settled(s)
    BY <1>1, <2>1, <2>2, CurrentBar DEF DutiesFit, Settled
  <2>4. \A t \in Symbols : Settled(t) \/ ~entities[t].initialized
    BY <2>1, <2>3 DEF PhaseInv, Quiescent
  <2>5. \A t \in Symbols : Quiescent(t)' => Settled(t)'
    BY <1>1, <1>2, <2>4 DEF Quiescent, Settled
  <2>6. \A t \in Symbols : Sound(t)'
    BY <1>1 DEF PhaseInv, Sound
  <2>7. worker' \in Workers
    <3>1. NoFill \in [ action : Actions \cup {"NONE"}, quantity : Nat, price : Nat,
                       cause : Causes \cup {NoCause} ]
      BY DEF NoFill
    <3>2. <<>> \in Seq(ActionOutcomes)
      OBVIOUS
    <3> QED
      BY <1>4, <3>1, <3>2 DEF Workers, Idle
  <2> QED
    BY <1>1, <1>4, <2>5, <2>6, <2>7 DEF PhaseInv, Idle
<1> QED
  BY <1>3, <1>4 DEF Settle

LEMMA ProcessStepPhase ==
  ASSUME PipelineInv, PipelineInv', PhaseInv, NEW ok \in BOOLEAN, ProcessStep(ok)
  PROVE  PhaseInv'
<1>1. ASSUME worker.pc = "act"
      PROVE  \E a \in Accounts :
               /\ a = account /\ account.activeQuantity \in Nat
               /\ account.peakPrice \in Nat /\ account.entryPrice \in Nat
               /\ a.activeQuantity # 0 => a.peakPrice >= a.entryPrice
               /\ accounts' = accounts => SetAccount(a)
               /\ worker.close \in Nat
  BY <1>1, AccountKept, CurrentBar DEF Accounts
<1>2. CASE Allocate(ok)
  <2>1. /\ worker.pc = "act" /\ worker.pending # <<>>
        /\ Head(worker.pending) = "HOP_ON_ALLOCATE"
        /\ UNCHANGED <<entities, received, reservoirVars>>
    BY <1>2 DEF Allocate, Acting
  <2> DEFINE quantity == SizeAllocation(AllocationCapacity(InitialSymbolCapital),
                                        AllocationPct, worker.close)
  <2>2. CASE Done /\ accounts' = accounts
    BY <1>1, <2>1, <2>2, DonePhase
  <2>3. CASE Fail /\ accounts' = accounts
    BY <1>1, <2>1, <2>3, FailPhase DEF reservoirVars
  <2>4. CASE /\ worker.close # 0
             /\ Execute(account, "ALLOCATE", quantity, "HOP_ON", ok)
    <3>1. quantity \in Nat
      <4>1. PICK basis \in Nat : basis = AllocationCapacity(InitialSymbolCapital)
        BY <2>1, CurrentAccount, ReservoirAssumption DEF AllocationCapacity
      <4> QED
        BY <1>1, <2>1, <2>4, <4>1, AllocationWithinBasis, PipelineAssumption
    <3>2. "ALLOCATE" \in Actions /\ "HOP_ON" \in Causes
      BY DEF Actions, Causes
    <3> HIDE DEF quantity
    <3> QED
      BY <1>1, <2>1, <2>4, <3>1, <3>2, ExecutePhase
  <2> QED
    BY <1>2, <2>2, <2>3, <2>4 DEF Allocate, TraceOnly
<1>3. CASE HoldOrSafetyLiquidate(ok)
  <2>1. /\ worker.pc = "act" /\ worker.pending # <<>>
        /\ Head(worker.pending) = "ENTER_HOLD_AND_TRAIL"
        /\ UNCHANGED <<entities, received, reservoirVars>>
    BY <1>3 DEF HoldOrSafetyLiquidate, Acting
  <2>2. CASE /\ accounts' = accounts
             /\ Fail \/ (account.activeQuantity = 0 /\ Done)
    <3>1. CASE Fail
      BY <1>1, <2>1, <2>2, <3>1, FailPhase DEF reservoirVars
    <3>2. CASE account.activeQuantity = 0 /\ Done
      BY <1>1, <2>1, <2>2, <3>2, DonePhase
    <3> QED
      BY <2>2, <3>1, <3>2
  <2>3. PICK peak \in Nat : /\ peak = TrailingPeak(account.peakPrice, worker.close)
                            /\ peak >= worker.close /\ peak >= account.peakPrice
    BY <1>1, <2>1 DEF TrailingPeak
  <2>4. PICK trailed \in Accounts :
          /\ trailed = [account EXCEPT !.peakPrice = peak]
          /\ trailed.activeQuantity = account.activeQuantity
          /\ trailed.peakPrice = peak
          /\ trailed.entryPrice = account.entryPrice
          /\ trailed.activeQuantity # 0 => peak >= trailed.entryPrice
    <3> DEFINE after == [account EXCEPT !.peakPrice = peak]
    <3>1. /\ after \in Accounts
          /\ after.activeQuantity = account.activeQuantity
          /\ after.peakPrice = peak
          /\ after.entryPrice = account.entryPrice
      BY <1>1, <2>1 DEF Accounts
    <3>2. account.activeQuantity # 0 => peak >= account.entryPrice
      BY <1>1, <2>1, <2>3
    <3>3. after.activeQuantity # 0 => peak >= after.entryPrice
      BY <3>1, <3>2
    <3>4. after = [account EXCEPT !.peakPrice = peak]
      OBVIOUS
    <3> HIDE DEF after
    <3> QED
      BY <3>1, <3>3, <3>4
  <2>5. CASE AtOrBelowStop(worker.close, peak, Risk)
             /\ Execute(trailed, "LIQUIDATE", account.activeQuantity, "SAFETY_LIQUIDATION", ok)
    <3>1. "LIQUIDATE" \in Actions /\ "SAFETY_LIQUIDATION" \in Causes
      BY DEF Actions, Causes
    <3> QED
      BY <1>1, <2>1, <2>4, <2>5, <3>1, ExecutePhase
  <2>6. CASE ~AtOrBelowStop(worker.close, peak, Risk) /\ SetAccount(trailed) /\ Fail
    BY <2>1, <2>4, <2>6, FailPhase DEF reservoirVars
  <2>7. CASE ~AtOrBelowStop(worker.close, peak, Risk) /\ SetAccount(trailed) /\ Done
    <3>1. trailed.activeQuantity = 0 \/ AboveStop(trailed, worker.close)
      BY <2>3, <2>4, <2>7 DEF AboveStop
    <3> QED
      BY <2>1, <2>4, <2>7, <3>1, DonePhase
  <2> QED
    BY <1>3, <2>2, <2>3, <2>4, <2>5, <2>6, <2>7 DEF HoldOrSafetyLiquidate, TraceOnly
<1>4. CASE Liquidate(ok)
  <2>1. /\ worker.pc = "act" /\ worker.pending # <<>>
        /\ Head(worker.pending) = "HOP_OFF_LIQUIDATE"
        /\ UNCHANGED <<entities, received, reservoirVars>>
    BY <1>4 DEF Liquidate, Acting
  <2>2. CASE account.activeQuantity = 0 /\ Done /\ accounts' = accounts
    BY <1>1, <2>1, <2>2, DonePhase
  <2>3. CASE Execute(account, "LIQUIDATE", account.activeQuantity, "HOP_OFF", ok)
    <3>1. "LIQUIDATE" \in Actions /\ "HOP_OFF" \in Causes
      BY DEF Actions, Causes
    <3> QED
      BY <1>1, <2>1, <2>3, <3>1, ExecutePhase
  <2> QED
    BY <1>4, <2>2, <2>3 DEF Liquidate
<1>5. CASE Record(ok)
  BY <1>5, RecordPhase
<1>6. CASE Settle(ok)
  BY <1>6, SettlePhase
<1> QED
  BY <1>2, <1>3, <1>4, <1>5, <1>6 DEF ProcessStep

LEMMA PipelineStepPhase ==
  ASSUME PipelineInv, PipelineInv', PhaseInv, NEW ok \in BOOLEAN, PipelineStep(ok)
  PROVE  PhaseInv'
<1>1. CASE StartReservoir(ok)
  BY <1>1, UntouchedPhase DEF StartReservoir, Start
<1>2. CASE EndReservoir(ok)
  BY <1>2, UntouchedPhase DEF EndReservoir, End, reservoirVars
<1>3. CASE \E s \in Symbols, phase \in Phases, close \in Prices : ReceiveBar(s, phase, close, ok)
  BY <1>3, ReceiveBarPhase
<1>4. CASE ProcessStep(ok)
  BY <1>4, ProcessStepPhase
<1> QED
  BY <1>1, <1>2, <1>3, <1>4 DEF PipelineStep

LEMMA InitPhase == PipelineInit => PhaseInv
<1> SUFFICES ASSUME PipelineInit PROVE PhaseInv
  OBVIOUS
<1>1. entities \in [Symbols -> Entities] /\ \A s \in Symbols : ~entities[s].initialized
  <2>1. NewEntity \in Entities /\ ~NewEntity.initialized
    BY PipelineAssumption DEF NewEntity, Entities
  <2> QED
    BY <2>1 DEF PipelineInit
<1>2. \A s \in Symbols : accounts[s].activeQuantity = 0
  BY DEF PipelineInit, NewAccount
<1>3. worker \in Workers /\ worker.pc = "idle"
  <2>1. NoFill \in [ action : Actions \cup {"NONE"}, quantity : Nat, price : Nat,
                     cause : Causes \cup {NoCause} ]
    BY DEF NoFill
  <2>2. <<>> \in Seq(ActionOutcomes)
    OBVIOUS
  <2> QED
    BY <2>1, <2>2 DEF PipelineInit, Idle, Workers
<1>4. received \in 0..MaxBars
  BY PipelineAssumption DEF PipelineInit
<1> QED
  BY <1>1, <1>2, <1>3, <1>4 DEF PhaseInv, Sound, Quiescent

LEMMA PhaseInvariant == PipelineSpec => [](PipelineInv /\ PhaseInv)
<1>1. PipelineInit => PhaseInv
  BY InitPhase
<1>2. PipelineInv /\ PipelineInv' /\ PhaseInv /\ [PipelineNext]_pipelineVars => PhaseInv'
  <2> SUFFICES ASSUME PipelineInv, PipelineInv', PhaseInv, [PipelineNext]_pipelineVars
               PROVE  PhaseInv'
    OBVIOUS
  <2>1. CASE \E ok \in WriteResults : PipelineStep(ok)
    BY <2>1, PipelineStepPhase, PipelineAssumption
  <2>2. CASE UNCHANGED pipelineVars
    BY <2>2, UntouchedPhase DEF pipelineVars, reservoirVars
  <2> QED
    BY <2>1, <2>2 DEF PipelineNext, Finished
<1> QED
  BY <1>1, <1>2, PipelineInvariant, PTL DEF PipelineSpec

-----------------------------------------------------------------------------
\* Account and reservoir agree on every position, except for a fill that is
\* between the two, for any number of symbols and any failing writes
\* (pipeline.go:281-300).
THEOREM BookkeepingsAgree == PipelineSpec => []AccountsMatchReservoir
BY PipelineInvariant, PTL DEF PipelineInv

\* A confirmed purchase is never refused for want of cash: sized by whole shares
\* from the smaller of ceiling and cash (pipeline.go:217-222, finance.go:48), it
\* still fits when it reaches the reservoir.
THEOREM PurchasesStayAffordable == PipelineSpec => []ConfirmedPurchaseIsAffordable
<1>1. PipelineInv => ConfirmedPurchaseIsAffordable
  BY DEF PipelineInv, FillsConfirmed, Confirmed, ConfirmedPurchaseIsAffordable
<1> QED
  BY <1>1, PipelineInvariant, PTL

\* The pipeline only ever asks the reservoir to buy a flat symbol or to sell all
\* of what is held, which the reservoir itself does not check
\* (capital_reservoir.go:193-199).
THEOREM ContractHonoured == PipelineSpec => HonoursReservoirContract
BY PipelineInvariant, PipelineInductive, PTL DEF PipelineSpec, HonoursReservoirContract

\* The capital the pipeline moves is conserved and its RUN_END totals are those
\* of a replay of the stored flows, as for any caller that honours the contract
\* (capital_reservoir.go:130-242).
THEOREM PipelineConservesCash == PipelineSpec => []CashConservation
BY BooksInvariant, PTL DEF BooksInv, MoneyInv

THEOREM PipelineRunEndReconciles == PipelineSpec => []RunEndReconciles
BY BooksInvariant, PTL DEF BooksInv, MoneyInv

\* The profit the reservoir has realised is the sum of what the accounts have,
\* except while a sale is on the account and not, or never, in the reservoir
\* (account.go:71 and capital_reservoir.go:196-199 compute it separately).
THEOREM ProfitsAlwaysAgree == PipelineSpec => []RealizedProfitAgrees
BY BooksInvariant, ProfitsAgree, PTL

\* Everything keeps its shape: the retained phase and state, the accounts, and
\* the duties and the fill of the bar at hand.
THEOREM PipelineTypes == PipelineSpec => []PipelineTypeOK
BY PhaseInvariant, PhaseInvImplies, PTL

\* Between bars a symbol whose strategy is in LIQUIDATE holds nothing, whatever
\* phases led there: the last outcome of a bar that entered LIQUIDATE is the one
\* that sells (pipeline.go:188-198).
THEOREM FlatWhileInLiquidate == PipelineSpec => []FlatInLiquidate
BY PhaseInvariant, PhaseInvImplies, PTL

\* Between bars a position in HOLD_AND_TRAIL is above the stop of its own peak
\* at the close it was last marked at (pipeline.go:176-205, 231-250).
THEOREM AlwaysHeldAboveStop == PipelineSpec => []HeldAboveStop
BY PhaseInvariant, PhaseInvImplies, PTL

\* So the documents a pipeline run stores are those of a replay ledger too.
THEOREM PipelineImplementsLedger == PipelineSpec => LedgerSpec
<1>1. PipelineInit => Replay!Init
  BY InitRefines DEF PipelineInit
<1>2. PipelineInv /\ [ReservoirStep]_reservoirVars => [Replay!Next]_ledger
  BY StepRefines DEF PipelineInv, reservoirVars
<1> QED
  BY <1>1, <1>2, PipelineInvariant, PipelineInductive, PTL
     DEF PipelineSpec, LedgerSpec, Replay!Spec

-----------------------------------------------------------------------------
(* The application run around the pipeline.                                *)

LEMMA ContextResults == ContextWriteResults \subseteq BOOLEAN /\ WriteResults \subseteq BOOLEAN
BY PipelineAssumption DEF ContextWriteResults

\* Both goroutines and their surroundings together do what the pipeline may do.
LEMMA NextIsPipelineStep ==
  ASSUME [Next]_vars
  PROVE  (\E ok \in BOOLEAN : PipelineStep(ok)) \/ UNCHANGED pipelineVars
<1>1. CASE \E ok \in BOOLEAN : Listen(ok)
  BY <1>1 DEF Listen
<1>2. CASE \E ok \in ContextWriteResults : StartRun(ok)
  BY <1>2, ContextResults DEF StartRun, PipelineStep
<1>3. CASE \E ok \in WriteResults : SelectSourceResult(ok)
  BY <1>3, ContextResults DEF SelectSourceResult, EndOnce, PipelineStep
<1>4. CASE \E ok \in WriteResults : Drain(ok)
  BY <1>4, ContextResults DEF Drain, EndOnce, PipelineStep
<1>5. CASE EmitBar
  BY <1>5, ContextResults DEF EmitBar, PipelineStep
<1>6. CASE ProcessBar
  BY <1>6, ContextResults DEF ProcessBar, PipelineStep
<1>7. CASE SelectCancelled \/ Stop \/ SelectServeError \/ SourceReturns
  BY <1>7 DEF SelectCancelled, Stop, SelectServeError, SourceReturns
<1>8. CASE Cancel \/ OpenStream \/ CloseStream \/ Returned \/ UNCHANGED vars
  BY <1>8 DEF Cancel, OpenStream, CloseStream, Returned, vars
<1> QED
  BY <1>1, <1>2, <1>3, <1>4, <1>5, <1>6, <1>7, <1>8 DEF Next, MainStep

LEMMA RunInductive ==
  PipelineInv /\ [Next]_vars => PipelineInv' /\ [ReservoirStep]_reservoirVars
<1>1. UNCHANGED pipelineVars => UNCHANGED reservoirVars
  BY DEF pipelineVars
<1> QED
  BY <1>1, NextIsPipelineStep, PipelineStepInv, PipelineStutterInv

LEMMA RunInvariant == Spec => []PipelineInv
<1>1. Init => PipelineInv
  BY PipelineInitInv DEF Init
<1> QED
  BY <1>1, RunInductive, PTL DEF Spec

\* The invariants of the books and of the symbols' states carry over, too.
LEMMA RunStepKeeps ==
  BooksInv /\ PhaseInv /\ [Next]_vars => BooksInv' /\ PhaseInv'
<1> SUFFICES ASSUME BooksInv, PhaseInv, [Next]_vars PROVE BooksInv' /\ PhaseInv'
  OBVIOUS
<1>1. PipelineInv /\ (PipelineInv')
  BY RunInductive DEF BooksInv
<1>2. CASE \E ok \in BOOLEAN : PipelineStep(ok)
  BY <1>1, <1>2, BooksStep, PipelineStepPhase
<1>3. CASE UNCHANGED pipelineVars
  <2>1. UNCHANGED <<processVars, positions>>
    BY <1>3 DEF pipelineVars, reservoirVars
  <2> QED
    BY <1>3, <2>1, BooksStutter, UntouchedPhase
<1> QED
  BY <1>2, <1>3, NextIsPipelineStep

LEMMA RunKeepsInvariants == Spec => [](BooksInv /\ PhaseInv)
<1>1. Init => BooksInv /\ PhaseInv
  BY BooksInit, InitPhase DEF Init
<1> QED
  BY <1>1, RunStepKeeps, PTL DEF Spec

\* The two bookkeepings agree in every application run (pipeline.go:281-300),
\* RUN_END, cancellation and failing writes included.
THEOREM RunKeepsBooks == Spec => []AccountsMatchReservoir
BY RunInvariant, PTL DEF PipelineInv

\* No cash is made or lost in an application run, and what RUN_END says of it is
\* what its documents say (capital_reservoir.go:130-242), although main may end
\* the reservoir in the middle of a bar.
THEOREM RunConservesCash == Spec => []CashConservation
BY RunKeepsInvariants, PTL DEF BooksInv, MoneyInv

THEOREM RunEndTotalsReconcile == Spec => []RunEndReconciles
BY RunKeepsInvariants, PTL DEF BooksInv, MoneyInv

\* However a run is cancelled or fails, between bars no symbol in LIQUIDATE holds
\* anything and every position in HOLD_AND_TRAIL is above its stop
\* (pipeline.go:176-250): cancellation never splits a bar's duties unnoticed.
THEOREM RunKeepsSymbolsSettled == Spec => [](FlatInLiquidate /\ HeldAboveStop)
<1>1. BooksInv /\ PhaseInv => FlatInLiquidate /\ HeldAboveStop
  BY PhaseInvImplies DEF BooksInv
<1> QED
  BY <1>1, RunKeepsInvariants, PTL

\* The application, too, only asks the reservoir for what it relies on
\* (capital_reservoir.go:193-199) ...
THEOREM RunHonoursContract == Spec => HonoursReservoirContract
BY RunInvariant, RunInductive, PTL DEF Spec, HonoursReservoirContract

\* ... so what it stores is a replay ledger, however it is cancelled or fails
\* (capital_reservoir.go:112-242).
THEOREM RunImplementsLedger == Spec => LedgerSpec
<1>1. Init => Replay!Init
  BY InitRefines DEF Init, PipelineInit
<1>2. PipelineInv /\ [ReservoirStep]_reservoirVars => [Replay!Next]_ledger
  BY StepRefines DEF PipelineInv, reservoirVars
<1> QED
  BY <1>1, <1>2, RunInvariant, RunInductive, PTL DEF Spec, LedgerSpec, Replay!Spec

-----------------------------------------------------------------------------
\* The stored RUN_END against the reservoir's ended flag.

ClosingTracked ==
  /\ ended => closing.stored
  /\ closing.stored => ended \/ Len(ledger) > sequence

\* Once the store is ahead of memory, it stays ahead, and RUN_END stays stored.
LEMMA ClosingStep ==
  ASSUME ReservoirInv, ClosingTracked, [ReservoirStep]_reservoirVars
  PROVE  /\ ClosingTracked'
         /\ closing.stored => closing'.stored
         /\ Len(ledger) > sequence => Len(ledger') > sequence'
<1> USE DEF ClosingTracked
<1>1. Len(ledger) \in Nat /\ sequence \in Nat
  BY DEF ReservoirInv, ReservoirTypeOK
<1>2. CASE \E ok \in BOOLEAN : Start(ok)
  <2>1. PICK ok \in BOOLEAN : Start(ok)
    BY <1>2
  <2>2. Persist(BaseEvent("RUN_START"), ok) /\ ended' = ended /\ closing' = closing
    BY <2>1 DEF Start
  <2>3. CASE Len(ledger) = sequence
    BY <1>1, <2>2, <2>3
  <2>4. CASE ledger' = ledger /\ ~Acknowledged(ok)
    BY <2>1, <2>2, <2>4 DEF Start
  <2> QED
    BY <2>2, <2>3, <2>4, WriteOutcome
<1>3. CASE \E ok \in BOOLEAN : End(ok)
  <2>1. PICK ok \in BOOLEAN : End(ok)
    BY <1>3
  <2>2. CASE UNCHANGED reservoirVars
    BY <2>2 DEF reservoirVars
  <2>3. CASE /\ ~ended
             /\ Persist(BaseEvent("RUN_END"), ok)
             /\ closing' = IF ledger' = ledger THEN closing ELSE Totals
             /\ sequence' = IF Acknowledged(ok) THEN sequence + 1 ELSE sequence
             /\ ended' = Acknowledged(ok)
    <3>1. CASE Len(ledger) = sequence /\ ledger' = Append(ledger, BaseEvent("RUN_END"))
      <4>1. Len(ledger') = Len(ledger) + 1
        BY <3>1 DEF ReservoirInv, ReservoirTypeOK
      <4>2. closing'.stored
        BY <1>1, <2>3, <4>1 DEF Totals
      <4> QED
        BY <1>1, <2>3, <3>1, <4>1, <4>2
    <3>2. CASE ledger' = ledger /\ ~Acknowledged(ok)
      BY <2>3, <3>2
    <3> QED
      BY <2>3, <3>1, <3>2, WriteOutcome
  <2> QED
    BY <2>1, <2>2, <2>3 DEF End
<1>4. CASE \E s, action, quantity, price, cause : \E ok \in BOOLEAN :
             RecordExecution(s, action, quantity, price, cause, ok)
  <2>1. PICK s, action, quantity, price, cause : \E ok \in BOOLEAN :
               RecordExecution(s, action, quantity, price, cause, ok)
    BY <1>4
  <2>2. PICK ok \in BOOLEAN : RecordExecution(s, action, quantity, price, cause, ok)
    BY <2>1
  <2>3. CASE UNCHANGED reservoirVars
    BY <2>3 DEF reservoirVars
  <2>4. CASE /\ Persist(FlowEvent(s, action, quantity, price, cause), ok)
             /\ Acknowledged(ok) \/ UNCHANGED sequence
             /\ ended' = ended /\ closing' = closing
    BY <1>1, <2>4, WriteOutcome
  <2> QED
    BY <2>2, <2>3, <2>4 DEF RecordExecution
<1>5. CASE \E s \in Symbols, p \in Prices : Mark(s, p)
  BY <1>5 DEF Mark, store
<1>6. CASE UNCHANGED reservoirVars
  BY <1>6 DEF reservoirVars
<1> QED
  BY <1>2, <1>3, <1>4, <1>5, <1>6 DEF ReservoirStep, Allocation, Liquidation

LEMMA ClosingNext ==
  ASSUME PipelineInv, ClosingTracked, [Next]_vars
  PROVE  /\ ClosingTracked'
         /\ closing.stored => closing'.stored
         /\ Len(ledger) > sequence => Len(ledger') > sequence'
BY RunInductive, ClosingStep DEF PipelineInv

LEMMA ClosingInit == Init => ClosingTracked
BY DEF Init, PipelineInit, ReservoirInit, NoClosing, ClosingTracked

-----------------------------------------------------------------------------
\* An orderly stop.

\* Main has been through shutdown's EndReservoir.
PastRunEnd == main = "stopping" \/ lifecycle = "STOPPED"

StopInv ==
  /\ lifecycle = "STOPPED" => main = "returned"
  /\ PastRunEnd /\ started => closing.stored \/ Len(ledger) > sequence

\* Only main starts the reservoir, and only before its select.
LEMMA StartedByMain ==
  ASSUME PipelineInv, [Next]_vars, PastRunEnd, lifecycle = "STOPPED" => main = "returned"
  PROVE  started' = started
<1>1. main \notin {"starting", "select", "shutdown", "listening"}
  BY DEF PastRunEnd
<1>2. CASE EmitBar
  BY <1>2 DEF EmitBar, ReceiveBar, Mark
<1>3. CASE ProcessBar
  BY <1>3 DEF ProcessBar, ProcessStep, Allocate, HoldOrSafetyLiquidate, Liquidate, Record, Settle,
              RecordExecution, reservoirVars
<1>4. CASE UNCHANGED pipelineVars
  BY <1>4 DEF pipelineVars, reservoirVars
<1> QED
  BY <1>1, <1>2, <1>3, <1>4
     DEF Next, MainStep, Listen, StartRun, SelectSourceResult, Drain, SelectCancelled, Stop,
         SelectServeError, SourceReturns, Cancel, OpenStream, CloseStream, Returned, vars

\* A store that is not ahead of memory takes the next write.
LEMMA NextWriteFree ==
  ASSUME ReservoirInv, Len(ledger) = sequence
  PROVE  NextSequenceFree
<1>1. /\ DOMAIN ledger = 1..sequence
      /\ sequence \in Nat
  BY DEF ReservoirInv, ReservoirTypeOK
<1>2. \A i \in 1..sequence : ledger[i].eventSequence = i
  BY <1>1 DEF ReservoirInv, LedgerNumbered
<1> QED
  BY <1>1, <1>2 DEF NextSequenceFree, StoredSequences

LEMMA WriteWorks ==
  ASSUME ReservoirInv, Len(ledger) = sequence, NEW event \in LedgerDocuments, Persist(event, TRUE)
  PROVE  Acknowledged(TRUE) /\ Len(ledger') = sequence + 1
<1>1. Acknowledged(TRUE)
  BY NextWriteFree DEF Acknowledged
<1>2. ledger' = Append(ledger, event)
  BY <1>1 DEF Persist
<1>3. Len(ledger') = Len(ledger) + 1
  BY <1>2 DEF ReservoirInv, ReservoirTypeOK
<1> QED
  BY <1>1, <1>3

\* shutdown's EndReservoir stores RUN_END, unless it already is stored or the
\* store is ahead of memory.
LEMMA DrainEnds ==
  ASSUME PipelineInv, ClosingTracked, Drain(TRUE), started'
  PROVE  closing'.stored \/ Len(ledger') > sequence'
<1>1. CASE started /\ ~ended /\ End(TRUE)
  <2>1. /\ Persist(BaseEvent("RUN_END"), TRUE)
        /\ closing' = IF ledger' = ledger THEN closing ELSE Totals
        /\ sequence' = IF Acknowledged(TRUE) THEN sequence + 1 ELSE sequence
    BY <1>1 DEF End
  <2>2. Len(ledger) \in Nat /\ sequence \in Nat /\ ledger \in Seq(LedgerDocuments)
    BY DEF PipelineInv, ReservoirInv, ReservoirTypeOK
  <2>3. CASE Len(ledger) = sequence /\ ledger' = Append(ledger, BaseEvent("RUN_END"))
    <3>1. Len(ledger') = Len(ledger) + 1
      BY <2>2, <2>3
    <3>2. ledger' # ledger
      BY <2>2, <3>1
    <3>3. closing' = Totals
      BY <2>1, <3>2
    <3> QED
      BY <3>3 DEF Totals
  <2>4. CASE ledger' = ledger /\ ~Acknowledged(TRUE)
    <3>1. ~NextSequenceFree
      BY <2>4 DEF Acknowledged
    <3>2. Len(ledger) # sequence
      BY <3>1, NextWriteFree DEF PipelineInv
    <3>3. Len(ledger) > sequence
      BY <2>2, <3>2 DEF PipelineInv, ReservoirInv, MemoryTracksLedger
    <3> QED
      BY <2>1, <2>4, <3>3
  <2> QED
    BY <2>1, <2>3, <2>4, WriteOutcome DEF PipelineInv
<1>2. CASE (~started \/ ended) /\ UNCHANGED pipelineVars
  BY <1>2 DEF ClosingTracked, pipelineVars, reservoirVars
<1> QED
  BY <1>1, <1>2 DEF Drain, EndOnce, EndReservoir

LEMMA StopInductive ==
  ASSUME WriteResults = {TRUE}, PipelineInv, ClosingTracked, StopInv, [Next]_vars
  PROVE  StopInv'
<1>1. CASE PastRunEnd
  <2>1. started' = started
    BY <1>1, StartedByMain DEF StopInv
  <2>2. started => closing'.stored \/ Len(ledger') > sequence'
    BY <1>1, ClosingNext DEF StopInv
  <2>3. (lifecycle = "STOPPED" => main = "returned")'
    BY <1>1 DEF StopInv, PastRunEnd, Next, MainStep, Listen, StartRun, SelectSourceResult, Drain,
       SelectCancelled, Stop, SelectServeError, EmitBar, ProcessBar, SourceReturns, Cancel,
       OpenStream, CloseStream, Returned, vars, applicationVars
  <2> QED
    BY <2>1, <2>2, <2>3 DEF StopInv
<1>2. CASE \E ok \in WriteResults : Drain(ok)
  <2>1. Drain(TRUE)
    BY <1>2
  <2>2. lifecycle' = "DRAINING"
    BY <2>1 DEF Drain
  <2> QED
    BY <2>1, <2>2, DrainEnds DEF StopInv
<1>3. CASE ~PastRunEnd /\ ~(\E ok \in WriteResults : Drain(ok))
  <2>1. ~PastRunEnd'
    BY <1>3 DEF PastRunEnd, Next, MainStep, Listen, StartRun, SelectSourceResult, SelectCancelled,
       Stop, SelectServeError, EmitBar, ProcessBar, SourceReturns, Cancel,
       OpenStream, CloseStream, Returned, vars, applicationVars
  <2> QED
    BY <2>1 DEF StopInv, PastRunEnd
<1> QED
  BY <1>1, <1>2, <1>3

\* With a store that fails only writes under a cancelled context, a run that was
\* started and stops in order has stored its RUN_END, whatever bar and whatever
\* step of it the stop fell into (application.go:249-258).
THEOREM OrderlyStopEnds ==
  ASSUME WriteResults = {TRUE}
  PROVE  Spec => []OrderlyStopStoresRunEnd
<1>1. Init => StopInv
  BY DEF Init, StopInv, PastRunEnd
<1>2. PipelineInv /\ ClosingTracked /\ StopInv /\ [Next]_vars => ClosingTracked' /\ StopInv'
  BY StopInductive, ClosingNext
<1>3. StopInv => OrderlyStopStoresRunEnd
  BY DEF StopInv, PastRunEnd, OrderlyStopStoresRunEnd, RunEndRefused
<1> QED
  BY <1>1, <1>2, <1>3, ClosingInit, RunInvariant, PTL DEF Spec

-----------------------------------------------------------------------------
\* A run nobody has cancelled yet, with a store that works.

UncancelledInv ==
  ~cancelled =>
    /\ Len(ledger) = sequence
    /\ ended => started /\ source = "taken"
    /\ source # "off" => started
    /\ main = "shutdown" => ended
    /\ worker.pc \in {"act", "record"} => source = "running"
    /\ worker.fill # NoFill => worker.pc = "record"

\* Process with writes that work: a confirmed fill is always recorded.
LEMMA FaultlessProcess ==
  ASSUME PipelineInv, ProcessStep(TRUE),
         Len(ledger) = sequence, started, ~ended,
         worker.fill # NoFill => worker.pc = "record"
  PROVE  /\ Len(ledger') = sequence'
         /\ UNCHANGED <<started, ended>>
         /\ worker.pc \in {"act", "record"}
         /\ worker'.fill # NoFill => worker'.pc = "record"
<1>1. CASE Record(TRUE)
  <2>1. Confirmed
    BY <1>1 DEF Record, PipelineInv, FillsConfirmed
  <2>2. /\ worker.fill.quantity \in Nat \ {0} /\ worker.fill.price \in Nat \ {0}
        /\ worker.symbol \in Symbols
    BY <1>1, <2>1, ReservoirAssumption
       DEF Confirmed, Record, PipelineInv, WorkerShaped, ReservoirInv, ReservoirTypeOK
  <2>3. Recordable(worker.fill.action, worker.fill.quantity, worker.fill.price, worker.fill.cause)
    BY <2>1, <2>2 DEF Confirmed, Recordable, Causes
  <2>4. PICK event :
          /\ Persist(event, TRUE)
          /\ Acknowledged(TRUE) => sequence' = event.eventSequence
          /\ event = FlowEvent(worker.symbol, worker.fill.action, worker.fill.quantity,
                               worker.fill.price, worker.fill.cause)
          /\ UNCHANGED <<started, ended>>
    BY <1>1, <2>3 DEF Record, RecordExecution, ApplyFlow
  <2>5. worker.fill.action \in Actions /\ worker.fill.cause \in Causes
    BY <2>1 DEF Confirmed, Actions, Causes
  <2>6. event \in LedgerDocuments
    BY <2>2, <2>3, <2>4, <2>5, FlowEventType DEF PipelineInv, ReservoirInv
  <2>7. Acknowledged(TRUE) /\ Len(ledger') = sequence + 1
    BY <2>4, <2>6, WriteWorks DEF PipelineInv
  <2>8. event.eventSequence = sequence + 1
    BY <2>4, <2>5, FlowEventFields
  <2>9. worker' = [worker EXCEPT !.pc = "act", !.pending = Tail(@), !.fill = NoFill]
    BY <1>1, <2>3, <2>7 DEF Record
  <2>10. worker'.fill = NoFill
    BY <2>9 DEF PipelineInv, WorkerShaped
  <2> QED
    BY <1>1, <2>4, <2>7, <2>8, <2>10 DEF Record
<1>2. CASE Allocate(TRUE) \/ HoldOrSafetyLiquidate(TRUE) \/ Liquidate(TRUE) \/ Settle(TRUE)
  <2>1. UNCHANGED reservoirVars /\ worker.pc = "act"
    BY <1>2 DEF Allocate, HoldOrSafetyLiquidate, Liquidate, Settle, Acting
  <2>2. \/ worker' = Idle
        \/ Fail
        \/ Done
        \/ \E fill : worker' = [worker EXCEPT !.pc = "record", !.fill = fill]
    BY <1>2 DEF Allocate, HoldOrSafetyLiquidate, Liquidate, Settle, Execute, TraceOnly
  <2>3. worker.fill = NoFill
    BY <2>1, NothingInFlight
  <2>4. CASE worker' = Idle \/ Fail \/ Done
    <3>1. worker'.fill = NoFill
      BY <2>3, <2>4 DEF Idle, Fail, Done, PipelineInv, WorkerShaped
    <3> QED
      BY <2>1, <3>1 DEF reservoirVars
  <2>5. CASE \E fill : worker' = [worker EXCEPT !.pc = "record", !.fill = fill]
    <3>1. worker'.pc = "record"
      BY <2>5 DEF PipelineInv, WorkerShaped
    <3> QED
      BY <2>1, <3>1 DEF reservoirVars
  <2> QED
    BY <2>2, <2>4, <2>5
<1> QED
  BY <1>1, <1>2 DEF ProcessStep

LEMMA UncancelledInductive ==
  ASSUME WriteResults = {TRUE}, PipelineInv, UncancelledInv, [Next]_vars
  PROVE  UncancelledInv'
<1> SUFFICES ASSUME ~cancelled' PROVE UncancelledInv'
  BY DEF UncancelledInv
<1>1. ~cancelled
  BY DEF Next, MainStep, Listen, StartRun, SelectSourceResult, SelectCancelled, Drain,
     Stop, SelectServeError, EmitBar, ProcessBar, SourceReturns, Cancel,
     OpenStream, CloseStream, Returned, vars, applicationVars
<1>2. /\ Len(ledger) = sequence
      /\ ended => started /\ source = "taken"
      /\ source # "off" => started
      /\ main = "shutdown" => ended
      /\ worker.pc \in {"act", "record"} => source = "running"
      /\ worker.fill # NoFill => worker.pc = "record"
  BY <1>1 DEF UncancelledInv
<1>3. ContextWriteResults = {TRUE}
  BY <1>1 DEF ContextWriteResults
<1>4. CASE StartRun(TRUE)
  <2>1. /\ ~started
        /\ Persist(BaseEvent("RUN_START"), TRUE)
        /\ started' = Acknowledged(TRUE)
        /\ sequence' = IF Acknowledged(TRUE) THEN sequence + 1 ELSE sequence
        /\ UNCHANGED <<ended, worker>>
    BY <1>4 DEF StartRun, StartReservoir, Start, processVars
  <2>2. Acknowledged(TRUE) /\ Len(ledger') = sequence + 1
    BY <1>2, <2>1, BaseEventType, WriteWorks DEF EventTypes, PipelineInv, ReservoirInv
  <2>3. main' = "select" /\ source' = "running"
    BY <1>4, <2>2 DEF StartRun
  <2> QED
    BY <1>2, <2>1, <2>2, <2>3 DEF UncancelledInv
<1>5. CASE SelectSourceResult(TRUE)
  <2>1. started /\ ~ended /\ source' = "taken" /\ source # "running"
    BY <1>2, <1>5 DEF SelectSourceResult
  <2>2. End(TRUE) /\ UNCHANGED worker
    BY <1>5, <2>1 DEF SelectSourceResult, EndOnce, EndReservoir, processVars
  <2>3. /\ Persist(BaseEvent("RUN_END"), TRUE)
        /\ sequence' = IF Acknowledged(TRUE) THEN sequence + 1 ELSE sequence
        /\ ended' = Acknowledged(TRUE)
        /\ started' = started
    BY <2>1, <2>2 DEF End
  <2>4. Acknowledged(TRUE) /\ Len(ledger') = sequence + 1
    BY <1>2, <2>3, BaseEventType, WriteWorks DEF EventTypes, PipelineInv, ReservoirInv
  <2> QED
    BY <1>2, <2>1, <2>2, <2>3, <2>4 DEF UncancelledInv
<1>6. CASE EmitBar
  <2>1. PICK s \in Symbols, phase \in Phases, close \in Prices : ReceiveBar(s, phase, close, TRUE)
    BY <1>3, <1>6 DEF EmitBar
  <2>2. UNCHANGED <<ledger, sequence, started, ended>>
    BY <2>1, ReceiveBarOutcome DEF Mark, store
  <2>3. worker.fill = NoFill
    BY <2>1, ReceiveBarOutcome, NothingInFlight
  <2>4. worker'.fill = NoFill
    <3>1. \/ worker' = worker
          \/ \E pc, pending :
               worker' = [ pc |-> pc, symbol |-> s, close |-> close,
                           pending |-> pending, fill |-> NoFill ]
      BY <2>1, ReceiveBarOutcome
    <3> QED
      BY <2>3, <3>1
  <2>5. source = "running" /\ UNCHANGED <<source, main>>
    BY <1>6 DEF EmitBar
  <2> QED
    BY <1>2, <2>2, <2>4, <2>5 DEF UncancelledInv
<1>7. CASE ProcessBar
  <2>1. ProcessStep(TRUE) /\ UNCHANGED <<source, main>>
    BY <1>3, <1>7 DEF ProcessBar, applicationVars
  <2>2. worker.pc \in {"act", "record"}
    BY <2>1 DEF ProcessStep, Allocate, HoldOrSafetyLiquidate, Liquidate, Record, Settle, Acting
  <2>3. source = "running" /\ started /\ ~ended
    BY <1>2, <2>2
  <2>4. /\ Len(ledger') = sequence'
        /\ UNCHANGED <<started, ended>>
        /\ worker'.fill # NoFill => worker'.pc = "record"
    BY <1>2, <2>1, <2>3, FaultlessProcess
  <2> QED
    BY <1>2, <2>1, <2>3, <2>4 DEF UncancelledInv
<1>8. CASE SourceReturns
  <2>1. /\ source = "running" /\ worker.pc \notin {"act", "record"}
        /\ source' # "off"
        /\ UNCHANGED <<pipelineVars, main>>
    BY <1>8 DEF SourceReturns, SourceResults
  <2> QED
    BY <1>2, <2>1 DEF UncancelledInv, pipelineVars, processVars, reservoirVars
<1>9. CASE \/ \E ok \in BOOLEAN : Listen(ok)
           \/ Drain(TRUE)
           \/ Stop \/ SelectServeError \/ OpenStream \/ CloseStream \/ Returned \/ UNCHANGED vars
  <2>1. UNCHANGED pipelineVars
    BY <1>2, <1>9 DEF Listen, Drain, EndOnce, Stop, SelectServeError, OpenStream, CloseStream,
       Returned, vars
  <2>2. source' = source /\ (main' = "shutdown" => main = "shutdown")
    BY <1>9 DEF Listen, Drain, Stop, SelectServeError, OpenStream, CloseStream,
       Returned, vars, applicationVars
  <2> QED
    BY <1>2, <2>1, <2>2 DEF UncancelledInv, pipelineVars, processVars, reservoirVars
<1>10. ~SelectCancelled /\ ~Cancel
  BY <1>1 DEF SelectCancelled, Cancel
<1> QED
  BY <1>3, <1>4, <1>5, <1>6, <1>7, <1>8, <1>9, <1>10 DEF Next, MainStep

\* With a store that works, the RUN_END of a run nobody cancelled is stored only
\* after the source has returned, and no confirmed fill is missing from it
\* (application.go:209-213).
THEOREM RunEndIsComplete ==
  ASSUME WriteResults = {TRUE}
  PROVE  Spec => []RunEndCoversConfirmedFills
<1>1. Init => UncancelledInv
  BY DEF Init, PipelineInit, ReservoirInit, Idle, UncancelledInv
<1>2. PipelineInv /\ ClosingTracked /\ UncancelledInv /\ [Next]_vars =>
        ClosingTracked' /\ UncancelledInv'
  BY UncancelledInductive, ClosingNext
<1>3. PipelineInv /\ ClosingTracked /\ UncancelledInv => RunEndCoversConfirmedFills
  <2> SUFFICES ASSUME PipelineInv, ClosingTracked, UncancelledInv, closing.stored, ~cancelled
               PROVE  worker.fill = NoFill
    BY DEF RunEndCoversConfirmedFills, Unrecorded
  <2>1. ended
    BY DEF ClosingTracked, UncancelledInv, PipelineInv, ReservoirInv, ReservoirTypeOK
  <2>2. worker.pc # "record"
    BY <2>1 DEF UncancelledInv
  <2> QED
    BY <2>2 DEF UncancelledInv
<1> QED
  BY <1>1, <1>2, <1>3, ClosingInit, RunInvariant, PTL DEF Spec
=============================================================================
