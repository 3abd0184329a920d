---------------------------- MODULE SymbolAccount ----------------------------
(***************************************************************************)
(* execution.Account and the formulas of finance.go: what one symbol's     *)
(* account looks like before and after a confirmed fill, how many shares   *)
(* an allocation buys, and where the trailing stop lies.                   *)
(*                                                                         *)
(* Capital and prices are naturals, percentages whole percents; the floor  *)
(* of a division and the comparison with the stop are kept, floating-point *)
(* rounding is not.                                                        *)
(***************************************************************************)
EXTENDS Integers

NewAccount(startingCapital) ==
  [ startingCapital    |-> startingCapital,
    availableCapital   |-> startingCapital,
    cashRemaining      |-> startingCapital,
    activeQuantity     |-> 0,
    entryPrice         |-> 0,
    peakPrice          |-> 0,
    cumulativeRealized |-> 0 ]

\* Whole shares only: math.Floor(available * pct / price).
SizeAllocation(availableCapital, allocationPct, price) ==
  (availableCapital * allocationPct) \div (100 * price)

TrailingPeak(previousPeak, price) == IF price > previousPeak THEN price ELSE previousPeak

\* price <= peak * (1 - risk)
AtOrBelowStop(price, peak, risk) == 100 * price <= peak * (100 - risk)

\* The checks ApplyConfirmed makes on a FILLED event of its own instruction.
Applicable(account, action, quantity, price) ==
  /\ price > 0
  /\ action = "ALLOCATE" => /\ account.activeQuantity = 0
                            /\ quantity * price <= account.startingCapital
  /\ action = "LIQUIDATE" => quantity # 0 /\ quantity = account.activeQuantity

\* Faulty variant: realised profit is replaced instead of accumulated.
ApplyConfirmedReplacingProfit(account, action, quantity, price) ==
  IF action = "ALLOCATE"
  THEN [ account EXCEPT
           !.availableCapital = account.startingCapital,
           !.activeQuantity = quantity,
           !.entryPrice = price,
           !.peakPrice = price,
           !.cashRemaining = account.startingCapital - quantity * price ]
  ELSE [ NewAccount(account.startingCapital) EXCEPT
           !.availableCapital = account.cashRemaining + quantity * price,
           !.cashRemaining = account.cashRemaining + quantity * price,
           !.cumulativeRealized = (price - account.entryPrice) * quantity ]

\* Faulty variant: a liquidation leaves the active quantity on the account.
ApplyConfirmedKeepingQuantity(account, action, quantity, price) ==
  IF action = "ALLOCATE"
  THEN [ account EXCEPT
           !.availableCapital = account.startingCapital,
           !.activeQuantity = quantity,
           !.entryPrice = price,
           !.peakPrice = price,
           !.cashRemaining = account.startingCapital - quantity * price ]
  ELSE [ account EXCEPT
           !.availableCapital = account.cashRemaining + quantity * price,
           !.cashRemaining = account.cashRemaining + quantity * price,
           !.cumulativeRealized = @ + (price - account.entryPrice) * quantity ]

ApplyConfirmed(account, action, quantity, price) ==
  IF action = "ALLOCATE"
  THEN [ account EXCEPT
           !.availableCapital = account.startingCapital,
           !.activeQuantity = quantity,
           !.entryPrice = price,
           !.peakPrice = price,
           !.cashRemaining = account.startingCapital - quantity * price ]
  ELSE LET endingCapital == account.cashRemaining + quantity * price
       IN  [ account EXCEPT
               !.availableCapital = endingCapital,
               !.cashRemaining = endingCapital,
               !.cumulativeRealized = @ + (price - account.entryPrice) * quantity,
               !.activeQuantity = 0,
               !.entryPrice = 0,
               !.peakPrice = 0 ]
=============================================================================
