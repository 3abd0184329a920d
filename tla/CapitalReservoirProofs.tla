------------------------ MODULE CapitalReservoirProofs ------------------------
(***************************************************************************)
(* Theorems about CapitalReservoir: for any symbols, capital, quantities   *)
(* and prices, and whatever writes fail or lose their acknowledgement, the *)
(* variables keep their types, memory tracks the stored documents, the     *)
(* documents are those of a RunLedger, cash is conserved, and the totals   *)
(* of RUN_END are those of a replay.                                       *)
(***************************************************************************)
EXTENDS CapitalReservoir, FiniteSetTheorems, WellFoundedInduction, TLAPS

-----------------------------------------------------------------------------
\* Sums over finite sets.

\* What takes the place of induction: were a claim about the subsets of a finite
\* set false, it would be false of one and true of all that one's strict subsets.
LEMMA MinimalSubset ==
  ASSUME NEW S, IsFiniteSet(S), NEW Bad \in SUBSET SUBSET S, Bad # {}
  PROVE  \E T \in Bad : \A U \in SUBSET T : U # T => U \notin Bad
<1>1. IsWellFoundedOn(StrictSubsetOrdering(S), SUBSET S)
  BY FS_StrictSubsetOrderingWellFounded, FS_FiniteSubsetsOfFinite
<1>2. PICK T \in Bad : \A U \in Bad : <<U, T>> \notin StrictSubsetOrdering(S)
  BY <1>1, WFMin
<1> QED
  BY <1>2 DEF StrictSubsetOrdering

\* SumFunctionOnSet takes the elements in the order of CHOOSE; a table holds the
\* sums over all subsets.
Picked(T) == CHOOSE x \in T : TRUE
Others(T) == T \ {Picked(T)}
IsTable(g, f, S) ==
  g = [T \in SUBSET S |-> IF T = {} THEN 0 ELSE f[Picked(T)] + g[Others(T)]]

LEMMA RestIsSmaller ==
  ASSUME NEW T, T # {}
  PROVE  Picked(T) \in T /\ Others(T) \in SUBSET T /\ Others(T) # T
BY DEF Picked, Others

LEMMA TableValue ==
  ASSUME NEW f, NEW S, NEW g, IsTable(g, f, S), NEW T \in SUBSET S
  PROVE  g[T] = IF T = {} THEN 0 ELSE f[Picked(T)] + g[Others(T)]
<1>1. g = [U \in SUBSET S |-> IF U = {} THEN 0 ELSE f[Picked(U)] + g[Others(U)]]
  BY DEF IsTable
<1> DEFINE value(U) == IF U = {} THEN 0 ELSE f[Picked(U)] + g[Others(U)]
<1>2. [U \in SUBSET S |-> value(U)][T] = value(T)
  OBVIOUS
<1> QED
  BY <1>1, <1>2

\* The equation of a table has one solution, on subsets of S as on S itself.
LEMMA TablesAgree ==
  ASSUME NEW f, NEW S, IsFiniteSet(S), NEW R \in SUBSET S,
         NEW g, IsTable(g, f, S), NEW h, IsTable(h, f, R),
         NEW T \in SUBSET R
  PROVE  g[T] = h[T]
<1> DEFINE Bad == {U \in SUBSET R : g[U] # h[U]}
<1>1. SUFFICES Bad = {}
  OBVIOUS
<1>2. SUFFICES ASSUME Bad # {} PROVE FALSE
  OBVIOUS
<1>3. IsFiniteSet(R)
  BY FS_Subset
<1>4. PICK U \in Bad : \A V \in SUBSET U : V # U => V \notin Bad
  <2> HIDE DEF Bad
  <2>1. Bad \in SUBSET SUBSET R
    BY DEF Bad
  <2> QED  BY <1>2, <1>3, <2>1, MinimalSubset
<1>5. /\ g[U] = IF U = {} THEN 0 ELSE f[Picked(U)] + g[Others(U)]
      /\ h[U] = IF U = {} THEN 0 ELSE f[Picked(U)] + h[Others(U)]
  BY TableValue
<1>6. U # {} /\ Others(U) \in SUBSET R
  BY <1>5, RestIsSmaller
<1>7. g[Others(U)] = h[Others(U)]
  BY <1>4, <1>6, RestIsSmaller
<1> QED
  BY <1>4, <1>5, <1>7

\* And it has one at all.
LEMMA TableExists ==
  ASSUME NEW f, NEW S, IsFiniteSet(S)
  PROVE  \E g : IsTable(g, f, S)
<1> DEFINE Bad == {T \in SUBSET S : ~ \E g : IsTable(g, f, T)}
<1>1. SUFFICES ASSUME Bad # {} PROVE FALSE
  OBVIOUS
<1>2. PICK T \in Bad : \A U \in SUBSET T : U # T => U \notin Bad
  <2>1. Bad \in SUBSET SUBSET S
    OBVIOUS
  <2> HIDE DEF Bad
  <2> QED  BY <1>1, <2>1, MinimalSubset
<1> DEFINE tableOf(U) == CHOOSE g : IsTable(g, f, U)
           value(U) == IF U = {} THEN 0 ELSE f[Picked(U)] + tableOf(Others(U))[Others(U)]
           table == [U \in SUBSET T |-> value(U)]
<1>3. \A U \in SUBSET T : U # T => IsTable(tableOf(U), f, U)
  BY <1>2
<1>4. ASSUME NEW U \in SUBSET T, U # {}
      PROVE  table[Others(U)] = tableOf(Others(U))[Others(U)]
  <2> DEFINE R == Others(U)
  <2>1. R \in SUBSET T /\ R # T /\ IsFiniteSet(R)
    BY <1>4, RestIsSmaller, FS_Subset
  <2>2. IsTable(tableOf(R), f, R)
    BY <1>3, <2>1
  <2> HIDE DEF R, tableOf
  <2>3. tableOf(R)[R] = IF R = {} THEN 0 ELSE f[Picked(R)] + tableOf(R)[Others(R)]
    BY <2>2, TableValue
  <2>4. table[R] = IF R = {} THEN 0 ELSE f[Picked(R)] + tableOf(Others(R))[Others(R)]
    BY <2>1
  <2>5. CASE R = {}
    BY <2>3, <2>4, <2>5 DEF R
  <2>6. CASE R # {}
    <3>1. Others(R) \in SUBSET R /\ Others(R) # T /\ Others(R) \in SUBSET T
      BY <2>1, <2>6, RestIsSmaller
    <3>2. IsTable(tableOf(Others(R)), f, Others(R))
      BY <1>3, <3>1 DEF tableOf
    <3>3. tableOf(R)[Others(R)] = tableOf(Others(R))[Others(R)]
      BY <2>1, <2>2, <3>1, <3>2, TablesAgree
    <3> QED
      BY <2>3, <2>4, <2>6, <3>3 DEF R
  <2> QED
    BY <2>5, <2>6
<1>5. IsTable(table, f, T)
  <2> HIDE DEF tableOf
  <2>1. \A U \in SUBSET T : value(U) = IF U = {} THEN 0 ELSE f[Picked(U)] + table[Others(U)]
    <3> HIDE DEF table
    <3> QED  BY <1>4
  <2> HIDE DEF value
  <2>2. table = [U \in SUBSET T |-> IF U = {} THEN 0 ELSE f[Picked(U)] + table[Others(U)]]
    BY <2>1
  <2> QED
    BY <2>2 DEF IsTable
<1> QED
  BY <1>2, <1>5

LEMMA SumByTable ==
  ASSUME NEW f, NEW S, IsFiniteSet(S)
  PROVE  \E g : IsTable(g, f, S) /\ SumFunctionOnSet(f, S) = g[S]
<1>1. PICK h : IsTable(h, f, S)
  BY TableExists
<1> QED
  BY <1>1 DEF SumFunctionOnSet, FoldFunctionOnSet, MapThenFoldSet, IsTable, Picked, Others

\* The equation the recursive definition stands for.
LEMMA SumDef ==
  ASSUME NEW f, NEW S, IsFiniteSet(S)
  PROVE  SumFunctionOnSet(f, S) = IF S = {} THEN 0 ELSE f[Picked(S)] + SumFunctionOnSet(f, Others(S))
<1>1. PICK g : IsTable(g, f, S) /\ SumFunctionOnSet(f, S) = g[S]
  BY SumByTable
<1>2. g[S] = IF S = {} THEN 0 ELSE f[Picked(S)] + g[Others(S)]
  BY <1>1, TableValue
<1>3. CASE S # {}
  <2>1. IsFiniteSet(Others(S)) /\ Others(S) \in SUBSET S
    BY <1>3, RestIsSmaller, FS_Subset
  <2>2. PICK h : IsTable(h, f, Others(S)) /\ SumFunctionOnSet(f, Others(S)) = h[Others(S)]
    BY <2>1, SumByTable
  <2>3. g[Others(S)] = h[Others(S)]
    BY <1>1, <2>1, <2>2, TablesAgree
  <2> QED
    BY <1>1, <1>2, <2>2, <2>3
<1> QED
  BY <1>1, <1>2, <1>3

\* The hypotheses of the lemmas on sums, named so that the provers match them whole.
IntsOn(f, S) == \A s \in S : f[s] \in Int
AddsUp(f, g, h, S) == \A s \in S : f[s] \in Int /\ g[s] \in Int /\ h[s] = f[s] + g[s]

LEMMA SumInt ==
  ASSUME NEW S, IsFiniteSet(S), NEW f, \A s \in S : f[s] \in Int
  PROVE  SumFunctionOnSet(f, S) \in Int
<1> DEFINE Bad == {T \in SUBSET S : SumFunctionOnSet(f, T) \notin Int}
<1>1. SUFFICES ASSUME Bad # {} PROVE FALSE
  OBVIOUS
<1>2. PICK T \in Bad : \A U \in SUBSET T : U # T => U \notin Bad
  <2>1. Bad \in SUBSET SUBSET S
    OBVIOUS
  <2> HIDE DEF Bad
  <2> QED  BY <1>1, <2>1, MinimalSubset
<1>3. SumFunctionOnSet(f, T) =
        IF T = {} THEN 0 ELSE f[Picked(T)] + SumFunctionOnSet(f, Others(T))
  BY <1>2, SumDef, FS_Subset
<1>4. T # {}
  BY <1>2, <1>3
<1>5. SumFunctionOnSet(f, Others(T)) \in Int /\ f[Picked(T)] \in Int
  BY <1>2, <1>4, RestIsSmaller
<1> QED
  BY <1>2, <1>3, <1>4, <1>5

\* Any element may be taken first.
LEMMA SumRemove ==
  ASSUME NEW S, IsFiniteSet(S), NEW f, IntsOn(f, S), NEW x \in S
  PROVE  SumFunctionOnSet(f, S) = f[x] + SumFunctionOnSet(f, S \ {x})
<1> DEFINE sum(T) == SumFunctionOnSet(f, T)
           Bad == {T \in SUBSET S : \E e \in T : sum(T) # f[e] + sum(T \ {e})}
<1>1. SUFFICES ASSUME Bad # {} PROVE FALSE
  OBVIOUS
<1>2. PICK T \in Bad : \A U \in SUBSET T : U # T => U \notin Bad
  <2>1. Bad \in SUBSET SUBSET S
    OBVIOUS
  <2> HIDE DEF Bad
  <2> QED  BY <1>1, <2>1, MinimalSubset
<1>3. PICK e \in T : sum(T) # f[e] + sum(T \ {e})
  BY <1>2
<1>4. \A U \in SUBSET S : IsFiniteSet(U) /\ sum(U) \in Int
  BY SumInt, FS_Subset DEF IntsOn
<1>5. T # {} /\ Picked(T) \in T
  BY <1>3, RestIsSmaller
<1>6. sum(T) = f[Picked(T)] + sum(T \ {Picked(T)})
  BY <1>2, <1>4, <1>5, SumDef DEF Others
<1>7. e # Picked(T)
  BY <1>3, <1>6
<1> DEFINE both == (T \ {e}) \ {Picked(T)}
<1>8. both = (T \ {Picked(T)}) \ {e}
  OBVIOUS
<1>9. sum(T \ {e}) = f[Picked(T)] + sum(both)
  <2>1. T \ {e} \in SUBSET S /\ T \ {e} \in SUBSET T /\ T \ {e} # T /\ Picked(T) \in T \ {e}
    BY <1>5, <1>7
  <2>2. T \ {e} \notin Bad
    BY <1>2, <2>1
  <2> HIDE DEF sum
  <2> QED  BY <2>1, <2>2
<1>10. sum(T \ {Picked(T)}) = f[e] + sum(both)
  <2>1. /\ T \ {Picked(T)} \in SUBSET S /\ T \ {Picked(T)} \in SUBSET T
        /\ T \ {Picked(T)} # T /\ e \in T \ {Picked(T)}
    BY <1>5, <1>7
  <2>2. T \ {Picked(T)} \notin Bad
    BY <1>2, <2>1
  <2> HIDE DEF sum, both
  <2> QED  BY <1>8, <2>1, <2>2
<1>11. f[e] \in Int /\ f[Picked(T)] \in Int /\ sum(both) \in Int
  <2>1. both \in SUBSET S
    BY <1>2
  <2> HIDE DEF sum, both
  <2> QED  BY <1>2, <1>3, <1>4, <1>5, <2>1 DEF IntsOn
<1> HIDE DEF sum, both, Bad
<1> QED
  BY <1>3, <1>6, <1>9, <1>10, <1>11

\* A sum depends on the values at the summed places only.
LEMMA SumSame ==
  ASSUME NEW S, IsFiniteSet(S), NEW f, NEW g, \A s \in S : f[s] \in Int /\ g[s] = f[s]
  PROVE  SumFunctionOnSet(g, S) = SumFunctionOnSet(f, S)
<1> DEFINE Bad == {T \in SUBSET S : SumFunctionOnSet(g, T) # SumFunctionOnSet(f, T)}
<1>1. SUFFICES ASSUME Bad # {} PROVE FALSE
  OBVIOUS
<1>2. PICK T \in Bad : \A U \in SUBSET T : U # T => U \notin Bad
  <2>1. Bad \in SUBSET SUBSET S
    OBVIOUS
  <2> HIDE DEF Bad
  <2> QED  BY <1>1, <2>1, MinimalSubset
<1>3. /\ SumFunctionOnSet(f, T) =
           IF T = {} THEN 0 ELSE f[Picked(T)] + SumFunctionOnSet(f, Others(T))
      /\ SumFunctionOnSet(g, T) =
           IF T = {} THEN 0 ELSE g[Picked(T)] + SumFunctionOnSet(g, Others(T))
  BY <1>2, SumDef, FS_Subset
<1>4. T # {}
  BY <1>2, <1>3
<1>5. SumFunctionOnSet(g, Others(T)) = SumFunctionOnSet(f, Others(T)) /\ g[Picked(T)] = f[Picked(T)]
  BY <1>2, <1>4, RestIsSmaller
<1> QED
  BY <1>2, <1>3, <1>4, <1>5

\* A change at one place changes the sum by as much.
LEMMA SumChange ==
  ASSUME NEW S, IsFiniteSet(S), NEW x \in S, NEW f, NEW g,
         \A s \in S : f[s] \in Int /\ g[s] \in Int,
         \A s \in S \ {x} : g[s] = f[s]
  PROVE  SumFunctionOnSet(g, S) = SumFunctionOnSet(f, S) - f[x] + g[x]
<1> DEFINE others == SumFunctionOnSet(f, S \ {x})
<1>1. IsFiniteSet(S \ {x})
  BY FS_Subset
<1>2. SumFunctionOnSet(f, S) = f[x] + others /\ SumFunctionOnSet(g, S) = g[x] + SumFunctionOnSet(g, S \ {x})
  BY SumRemove DEF IntsOn
<1>3. SumFunctionOnSet(g, S \ {x}) = others
  BY <1>1, SumSame
<1>4. others \in Int /\ f[x] \in Int /\ g[x] \in Int
  BY <1>1, SumInt
<1> HIDE DEF others
<1> QED
  BY <1>2, <1>3, <1>4

\* Sums add up place by place.
LEMMA SumAdd ==
  ASSUME NEW S, IsFiniteSet(S), NEW f, NEW g, NEW h, AddsUp(f, g, h, S)
  PROVE  SumFunctionOnSet(h, S) = SumFunctionOnSet(f, S) + SumFunctionOnSet(g, S)
<1> DEFINE Bad == {T \in SUBSET S : SumFunctionOnSet(h, T) #
                                    SumFunctionOnSet(f, T) + SumFunctionOnSet(g, T)}
<1>1. SUFFICES ASSUME Bad # {} PROVE FALSE
  OBVIOUS
<1>2. PICK T \in Bad : \A U \in SUBSET T : U # T => U \notin Bad
  <2>1. Bad \in SUBSET SUBSET S
    OBVIOUS
  <2> HIDE DEF Bad
  <2> QED  BY <1>1, <2>1, MinimalSubset
<1>3. /\ SumFunctionOnSet(f, T) =
           IF T = {} THEN 0 ELSE f[Picked(T)] + SumFunctionOnSet(f, Others(T))
      /\ SumFunctionOnSet(g, T) =
           IF T = {} THEN 0 ELSE g[Picked(T)] + SumFunctionOnSet(g, Others(T))
      /\ SumFunctionOnSet(h, T) =
           IF T = {} THEN 0 ELSE h[Picked(T)] + SumFunctionOnSet(h, Others(T))
  BY <1>2, SumDef, FS_Subset
<1>4. T # {}
  BY <1>2, <1>3
<1>5. /\ SumFunctionOnSet(h, Others(T)) = SumFunctionOnSet(f, Others(T)) + SumFunctionOnSet(g, Others(T))
      /\ f[Picked(T)] \in Int /\ g[Picked(T)] \in Int /\ h[Picked(T)] = f[Picked(T)] + g[Picked(T)]
  BY <1>2, <1>4, RestIsSmaller DEF AddsUp
<1>6. SumFunctionOnSet(f, Others(T)) \in Int /\ SumFunctionOnSet(g, Others(T)) \in Int
  BY <1>2, <1>4, RestIsSmaller, SumInt, FS_Subset DEF AddsUp
<1> QED
  BY <1>2, <1>3, <1>4, <1>5, <1>6

LEMMA SumOfZeros ==
  ASSUME NEW S, IsFiniteSet(S), NEW f, \A s \in S : f[s] = 0
  PROVE  SumFunctionOnSet(f, S) = 0
<1>0. AddsUp(f, f, f, S)
  BY DEF AddsUp
<1>1. SumFunctionOnSet(f, S) = SumFunctionOnSet(f, S) + SumFunctionOnSet(f, S)
  BY <1>0, SumAdd
<1>2. SumFunctionOnSet(f, S) \in Int
  <2>1. \A s \in S : f[s] \in Int
    OBVIOUS
  <2> QED
    BY <2>1, SumInt
<1>3. PICK total : total = SumFunctionOnSet(f, S)
  OBVIOUS
<1>4. total \in Int /\ total = total + total
  BY ONLY <1>1, <1>2, <1>3
<1>5. total = 0
  BY ONLY <1>4
<1> QED
  BY ONLY <1>3, <1>5

-----------------------------------------------------------------------------
\* The documents the reservoir builds.

LEMMA InitialReservoirNat == InitialReservoir \in Nat
BY ReservoirAssumption DEF InitialReservoir

LEMMA BaseEventType ==
  ASSUME ReservoirTypeOK, NEW eventType \in EventTypes
  PROVE  BaseEvent(eventType) \in LedgerDocuments
BY DEF ReservoirTypeOK, BaseEvent, LedgerDocuments

\* What RecordExecution writes, field by field.
LEMMA FlowEventFields ==
  ASSUME NEW s, NEW action \in Actions, NEW quantity, NEW price, NEW cause
  PROVE  FlowEvent(s, action, quantity, price, cause) =
           [ eventType           |-> IF action = "ALLOCATE" THEN "OUTFLOW" ELSE "INFLOW",
             eventSequence       |-> sequence + 1,
             symbol              |-> s,
             cause               |-> cause,
             quantity            |-> quantity,
             executionPrice      |-> price,
             reservoirBefore     |-> cash,
             reservoirAfter      |-> IF action = "ALLOCATE" THEN cash - quantity * price
                                                            ELSE cash + quantity * price,
             activeQuantityAfter |-> IF action = "ALLOCATE" THEN quantity ELSE 0 ]
<1> DEFINE base == BaseEvent(IF action = "ALLOCATE" THEN "OUTFLOW" ELSE "INFLOW")
<1>1. base = [ eventType           |-> IF action = "ALLOCATE" THEN "OUTFLOW" ELSE "INFLOW",
               eventSequence       |-> sequence + 1,
               symbol              |-> NoSymbol,
               cause               |-> NoCause,
               quantity            |-> 0,
               executionPrice      |-> 0,
               reservoirBefore     |-> cash,
               reservoirAfter      |-> cash,
               activeQuantityAfter |-> 0 ]
  BY DEF BaseEvent
<1> HIDE DEF base
<1>2. FlowEvent(s, action, quantity, price, cause) =
        [ base EXCEPT
            !.symbol = s,
            !.cause = cause,
            !.quantity = quantity,
            !.executionPrice = price,
            !.reservoirAfter = IF action = "ALLOCATE" THEN cash - quantity * price
                                                      ELSE cash + quantity * price,
            !.activeQuantityAfter = IF action = "ALLOCATE" THEN quantity ELSE 0 ]
  BY DEF FlowEvent, base
<1> QED
  BY <1>1, <1>2

LEMMA NaturalProduct == \A m, n \in Nat : m * n \in Nat
OBVIOUS

\* A document that passed Recordable never shows a negative balance.
LEMMA FlowEventType ==
  ASSUME ReservoirTypeOK,
         NEW s \in Symbols, NEW action \in Actions,
         NEW quantity \in Nat, NEW price \in Nat, NEW cause \in Causes,
         Recordable(action, quantity, price, cause)
  PROVE  FlowEvent(s, action, quantity, price, cause) \in LedgerDocuments
<1> DEFINE cost == quantity * price
<1>1. cost \in Nat
  BY NaturalProduct
<1>2. action = "ALLOCATE" => cost <= cash
  BY DEF Recordable
<1>3. /\ action = "ALLOCATE" => cash - cost \in Nat
      /\ cash + cost \in Nat
  <2> HIDE DEF cost
  <2> QED  BY <1>1, <1>2 DEF ReservoirTypeOK
<1>4. (IF action = "ALLOCATE" THEN cash - quantity * price ELSE cash + quantity * price) \in Nat
  BY <1>3
<1>5. (IF action = "ALLOCATE" THEN "OUTFLOW" ELSE "INFLOW") \in EventTypes
  BY DEF EventTypes
<1>6. /\ sequence + 1 \in Nat
      /\ cash \in Nat
  BY DEF ReservoirTypeOK
<1> HIDE DEF cost
<1> QED
  BY <1>4, <1>5, <1>6, FlowEventFields DEF LedgerDocuments

\* One write leaves the ledger alone or appends one document.
LEMMA PersistType ==
  ASSUME ReservoirTypeOK, NEW event \in LedgerDocuments, NEW ok \in BOOLEAN,
         Persist(event, ok)
  PROVE  ledger' \in Seq(LedgerDocuments)
<1>1. ledger \in Seq(LedgerDocuments)
  BY DEF ReservoirTypeOK
<1> QED
  BY <1>1 DEF Persist

-----------------------------------------------------------------------------
\* Type correctness, one lemma per operation.

LEMMA StartType ==
  ASSUME ReservoirTypeOK, NEW ok \in BOOLEAN, Start(ok)
  PROVE  ReservoirTypeOK'
<1>1. ledger' \in Seq(LedgerDocuments)
  BY PersistType, BaseEventType DEF Start, EventTypes
<1>2. Acknowledged(ok) \in BOOLEAN
  BY DEF Acknowledged, NextSequenceFree
<1> QED
  BY <1>1, <1>2 DEF Start, ReservoirTypeOK

LEMMA EndType ==
  ASSUME ReservoirTypeOK, NEW ok \in BOOLEAN, End(ok)
  PROVE  ReservoirTypeOK'
<1>1. CASE /\ Persist(BaseEvent("RUN_END"), ok)
           /\ sequence' = IF Acknowledged(ok) THEN sequence + 1 ELSE sequence
           /\ ended' = Acknowledged(ok)
           /\ UNCHANGED <<cash, realizedPnL, started, positions>>
  <2>1. ledger' \in Seq(LedgerDocuments)
    BY <1>1, PersistType, BaseEventType DEF EventTypes
  <2>2. Acknowledged(ok) \in BOOLEAN
    BY DEF Acknowledged, NextSequenceFree
  <2> QED
    BY <1>1, <2>1, <2>2 DEF ReservoirTypeOK
<1>2. CASE UNCHANGED reservoirVars
  BY <1>2 DEF reservoirVars, ReservoirTypeOK
<1> QED
  BY <1>1, <1>2 DEF End

LEMMA MarkType ==
  ASSUME ReservoirTypeOK, NEW s \in Symbols, NEW price \in Prices, Mark(s, price)
  PROVE  ReservoirTypeOK'
BY ReservoirAssumption DEF Mark, store, ReservoirTypeOK

\* The position and the profit ApplyFlow leaves behind.
LEMMA ApplyFlowType ==
  ASSUME ReservoirTypeOK,
         NEW s \in Symbols, NEW action \in Actions, NEW quantity \in Nat, NEW price \in Nat,
         NEW event \in LedgerDocuments,
         ApplyFlow(s, action, quantity, price, event)
  PROVE  /\ cash' \in Nat
         /\ sequence' \in Nat
         /\ realizedPnL' \in Int
         /\ positions' \in [Symbols -> [quantity : Nat, entryPrice : Nat, markPrice : Nat]]
<1>1. /\ event.reservoirAfter \in Nat
      /\ event.eventSequence \in Nat
  BY DEF LedgerDocuments
<1>2. positions[s].entryPrice \in Nat
  BY DEF ReservoirTypeOK
<1>3. quantity * (price - positions[s].entryPrice) \in Int
  BY <1>2
<1>4. realizedPnL' \in Int
  BY <1>3 DEF ApplyFlow, ReservoirTypeOK
<1>5. positions' \in [Symbols -> [quantity : Nat, entryPrice : Nat, markPrice : Nat]]
  <2>1. /\ [quantity |-> quantity, entryPrice |-> price, markPrice |-> price]
              \in [quantity : Nat, entryPrice : Nat, markPrice : Nat]
        /\ NoPosition \in [quantity : Nat, entryPrice : Nat, markPrice : Nat]
    BY DEF NoPosition
  <2>2. CASE action = "ALLOCATE"
    BY <2>1, <2>2 DEF ApplyFlow, ReservoirTypeOK
  <2>3. CASE action # "ALLOCATE"
    BY <2>1, <2>3 DEF ApplyFlow, ReservoirTypeOK
  <2> QED
    BY <2>2, <2>3
<1> QED
  BY <1>1, <1>4, <1>5 DEF ApplyFlow

LEMMA RecordExecutionType ==
  ASSUME ReservoirTypeOK,
         NEW s \in Symbols, NEW action \in Actions, NEW quantity \in Nat, NEW price \in Nat,
         NEW cause \in Causes, NEW ok \in BOOLEAN,
         RecordExecution(s, action, quantity, price, cause, ok)
  PROVE  ReservoirTypeOK'
<1> DEFINE event == FlowEvent(s, action, quantity, price, cause)
<1>1. CASE /\ Recordable(action, quantity, price, cause)
           /\ Persist(event, ok)
           /\ IF Acknowledged(ok) THEN ApplyFlow(s, action, quantity, price, event)
                                  ELSE UNCHANGED <<cash, sequence, positions, realizedPnL>>
           /\ UNCHANGED <<started, ended, closing>>
  <2>1. event \in LedgerDocuments
    BY <1>1, FlowEventType
  <2> HIDE DEF event
  <2>2. ledger' \in Seq(LedgerDocuments)
    BY <1>1, <2>1, PersistType
  <2>3. CASE Acknowledged(ok)
    BY <1>1, <2>1, <2>2, <2>3, ApplyFlowType DEF ReservoirTypeOK
  <2>4. CASE ~Acknowledged(ok)
    BY <1>1, <2>2, <2>4 DEF ReservoirTypeOK
  <2> QED
    BY <2>3, <2>4
<1>2. CASE UNCHANGED reservoirVars
  BY <1>2 DEF reservoirVars, ReservoirTypeOK
<1> QED
  BY <1>1, <1>2 DEF RecordExecution

LEMMA StepType ==
  ASSUME ReservoirTypeOK, ReservoirStep
  PROVE  ReservoirTypeOK'
<1>1. CASE \E ok \in BOOLEAN : Start(ok)
  BY <1>1, StartType
<1>2. CASE \E s \in Symbols, q \in Quantities, p \in Prices, ok \in BOOLEAN : Allocation(s, q, p, ok)
  <2>1. PICK s \in Symbols, q \in Quantities, p \in Prices, ok \in BOOLEAN :
          RecordExecution(s, "ALLOCATE", q, p, "HOP_ON", ok)
    BY <1>2 DEF Allocation
  <2>2. /\ q \in Nat /\ p \in Nat
        /\ "ALLOCATE" \in Actions /\ "HOP_ON" \in Causes
    BY ReservoirAssumption DEF Actions, Causes
  <2> QED
    BY <2>1, <2>2, RecordExecutionType
<1>3. CASE \E s \in Symbols, p \in Prices, c \in Causes, ok \in BOOLEAN : Liquidation(s, p, c, ok)
  <2>1. PICK s \in Symbols, p \in Prices, c \in Causes, ok \in BOOLEAN :
          Liquidation(s, p, c, ok)
    BY <1>3
  <2>2. PICK q \in Nat : q = positions[s].quantity
    BY DEF ReservoirTypeOK
  <2>3. /\ p \in Nat
        /\ "LIQUIDATE" \in Actions
    BY ReservoirAssumption DEF Actions
  <2>4. RecordExecution(s, "LIQUIDATE", q, p, c, ok)
    BY <2>1, <2>2 DEF Liquidation
  <2> QED
    BY <2>3, <2>4, RecordExecutionType
<1>4. CASE \E s \in Symbols, p \in Prices : Mark(s, p)
  BY <1>4, MarkType
<1>5. CASE \E ok \in BOOLEAN : End(ok)
  BY <1>5, EndType
<1> QED
  BY <1>1, <1>2, <1>3, <1>4, <1>5 DEF ReservoirStep

LEMMA InitType == ReservoirInit => ReservoirTypeOK
<1>1. NoPosition \in [quantity : Nat, entryPrice : Nat, markPrice : Nat]
  BY DEF NoPosition
<1>2. ReservoirInit => ledger \in Seq(LedgerDocuments)
  BY DEF ReservoirInit
<1>3. ReservoirInit => positions \in [Symbols -> [quantity : Nat, entryPrice : Nat, markPrice : Nat]]
  BY <1>1 DEF ReservoirInit
<1>4. ReservoirInit => cash \in Nat /\ realizedPnL \in Int /\ sequence \in Nat
  BY InitialReservoirNat DEF ReservoirInit
<1>5. ReservoirInit => started \in BOOLEAN /\ ended \in BOOLEAN
  BY DEF ReservoirInit
<1> QED
  BY <1>2, <1>3, <1>4, <1>5 DEF ReservoirTypeOK

\* The reservoir's variables keep their types; above all its cash never goes
\* below zero, whatever is bought at whatever price and whichever writes fail
\* (the check at capital_reservoir.go:159).
THEOREM ReservoirTypeCorrect == ReservoirSpec => []ReservoirTypeOK
<1>1. ReservoirTypeOK /\ [ReservoirNext]_reservoirVars => ReservoirTypeOK'
  <2> SUFFICES ASSUME ReservoirTypeOK, [ReservoirNext]_reservoirVars
               PROVE  ReservoirTypeOK'
    OBVIOUS
  <2>1. CASE ReservoirNext
    BY <2>1, StepType DEF ReservoirNext
  <2>2. CASE UNCHANGED reservoirVars
    BY <2>2 DEF reservoirVars, ReservoirTypeOK
  <2> QED
    BY <2>1, <2>2
<1> QED
  BY InitType, <1>1, PTL DEF ReservoirSpec

-----------------------------------------------------------------------------
\* Memory against the stored documents.

\* The numbers of the stored documents are their positions.
LedgerNumbered == \A i \in DOMAIN ledger : ledger[i].eventSequence = i

\* A position has the size of some purchase.
PositionsTradable == \A s \in Symbols : positions[s].quantity \in Quantities \cup {0}

ReservoirInv ==
  /\ ReservoirTypeOK
  /\ MemoryTracksLedger
  /\ LedgerNumbered
  /\ PositionsTradable

\* A write either extends a ledger as long as memory believes, or changes
\* nothing and is not acknowledged.
LEMMA WriteOutcome ==
  ASSUME ReservoirInv, NEW event, NEW ok \in BOOLEAN, Persist(event, ok)
  PROVE  \/ /\ Len(ledger) = sequence
            /\ ledger' = Append(ledger, event)
            /\ Acknowledged(ok) <=> ok
         \/ /\ ledger' = ledger
            /\ ~Acknowledged(ok)
<1>1. /\ DOMAIN ledger = 1..Len(ledger)
      /\ Len(ledger) \in Nat
      /\ sequence \in Nat
  BY DEF ReservoirInv, ReservoirTypeOK
<1>2. StoredSequences = 1..Len(ledger)
  BY <1>1 DEF ReservoirInv, LedgerNumbered, StoredSequences
<1>3. Len(ledger) = sequence \/ Len(ledger) = sequence + 1
  BY DEF ReservoirInv, MemoryTracksLedger
<1>4. CASE Len(ledger) = sequence
  <2>1. sequence + 1 \notin 1..Len(ledger)
    BY <1>1, <1>4
  <2>2. NextSequenceFree
    BY <1>2, <2>1 DEF NextSequenceFree
  <2> QED
    BY <1>4, <2>2 DEF Persist, Acknowledged
<1>5. CASE Len(ledger) = sequence + 1
  <2>1. sequence + 1 \in 1..Len(ledger)
    BY <1>1, <1>5
  <2>2. ~NextSequenceFree
    BY <1>2, <2>1 DEF NextSequenceFree
  <2> QED
    BY <2>2 DEF Persist, Acknowledged
<1> QED
  BY <1>3, <1>4, <1>5

\* What a replay sees of a document appended to the ledger.
LEMMA AppendedDocument ==
  ASSUME ReservoirInv, NEW event \in LedgerDocuments,
         event.eventSequence = Len(ledger) + 1,
         ledger' = Append(ledger, event)
  PROVE  /\ LedgerNumbered'
         /\ Len(ledger') = Len(ledger) + 1
         /\ ledger'[Len(ledger')] = event
         /\ Replay!Balance' = event.reservoirAfter
         /\ Replay!Opened'
         /\ Replay!Closed' <=> (Replay!Closed \/ event.eventType = "RUN_END")
         /\ \A s : event.symbol # s =>
              /\ Replay!HoldsNothing(s)' <=> Replay!HoldsNothing(s)
              /\ \A q : Replay!Holds(s, q)' <=> Replay!Holds(s, q)
         /\ /\ Replay!HoldsNothing(event.symbol)' <=> event.activeQuantityAfter = 0
            /\ Replay!Holds(event.symbol, event.activeQuantityAfter)'
<1> DEFINE n == Len(ledger)
<1>1. /\ ledger \in Seq(LedgerDocuments)
      /\ n \in Nat
      /\ DOMAIN ledger = 1..n
  BY DEF ReservoirInv, ReservoirTypeOK
<1>2. /\ Len(ledger') = n + 1
      /\ DOMAIN ledger' = 1..(n + 1)
      /\ ledger'[n + 1] = event
      /\ \A i \in 1..n : ledger'[i] = ledger[i]
  BY <1>1
<1> HIDE DEF n
<1>3. LedgerNumbered'
  BY <1>1, <1>2 DEF LedgerNumbered, ReservoirInv, n
<1>4. /\ Replay!Balance' = event.reservoirAfter
      /\ Replay!Opened'
  BY <1>1, <1>2 DEF Replay!Balance, Replay!Opened
<1>5. Replay!Closed' <=> (Replay!Closed \/ event.eventType = "RUN_END")
  BY <1>1, <1>2 DEF Replay!Closed
<1>6. \A s, i : Replay!LatestFlow(i, s)' <=>
                  IF event.symbol = s THEN i = n + 1 ELSE Replay!LatestFlow(i, s)
  BY <1>1, <1>2 DEF Replay!LatestFlow
<1>7. \A s, i : Replay!LatestFlow(i, s) => i \in 1..n
  BY <1>1 DEF Replay!LatestFlow
<1>8. \A s : event.symbol # s =>
        /\ Replay!HoldsNothing(s)' <=> Replay!HoldsNothing(s)
        /\ \A q : Replay!Holds(s, q)' <=> Replay!Holds(s, q)
  BY <1>1, <1>2, <1>6, <1>7 DEF Replay!HoldsNothing, Replay!Holds
<1>9. /\ Replay!HoldsNothing(event.symbol)' <=> event.activeQuantityAfter = 0
      /\ Replay!Holds(event.symbol, event.activeQuantityAfter)'
  BY <1>1, <1>2, <1>6 DEF Replay!HoldsNothing, Replay!Holds
<1> QED
  BY <1>2, <1>3, <1>4, <1>5, <1>8, <1>9 DEF n

LEMMA PositionsReplayedNow ==
  \A s \in Symbols : \A q : PositionsReplayed /\ q = positions[s].quantity =>
    IF q = 0 THEN Replay!HoldsNothing(s) ELSE Replay!Holds(s, q)
BY DEF PositionsReplayed

LEMMA PositionsReplayedNext ==
  ASSUME \A s \in Symbols : \A q : q = positions'[s].quantity =>
           IF q = 0 THEN Replay!HoldsNothing(s)' ELSE Replay!Holds(s, q)'
  PROVE  PositionsReplayed'
BY DEF PositionsReplayed, Replay!HoldsNothing, Replay!Holds

\* An unchanged ledger and unchanged memory replay to the same thing.
LEMMA NothingStored ==
  ASSUME ReservoirInv, ReservoirTypeOK',
         UNCHANGED <<cash, sequence, started, ended, ledger>>,
         \A s \in Symbols : positions'[s].quantity = positions[s].quantity
  PROVE  ReservoirInv'
<1>1. PositionsTradable'
  BY DEF ReservoirInv, PositionsTradable
<1>2. LedgerNumbered'
  BY DEF ReservoirInv, LedgerNumbered
<1>3. /\ Replay!Balance' = Replay!Balance
      /\ Replay!Opened' <=> Replay!Opened
      /\ Replay!Closed' <=> Replay!Closed
  BY DEF Replay!Balance, Replay!Opened, Replay!Closed
<1>4. \A s, q : /\ Replay!HoldsNothing(s)' <=> Replay!HoldsNothing(s)
                /\ Replay!Holds(s, q)' <=> Replay!Holds(s, q)
  BY DEF Replay!HoldsNothing, Replay!Holds, Replay!LatestFlow
<1>5. PositionsReplayed => PositionsReplayed'
  BY <1>4, PositionsReplayedNow, PositionsReplayedNext
<1>6. MemoryTracksLedger'
  BY <1>3, <1>5 DEF ReservoirInv, MemoryTracksLedger
<1> QED
  BY <1>1, <1>2, <1>6 DEF ReservoirInv

\* A document that was stored without being acknowledged: memory stays one behind.
LEMMA StoredUnacknowledged ==
  ASSUME ReservoirInv, ReservoirTypeOK', NEW event \in LedgerDocuments,
         Len(ledger) = sequence,
         event.eventSequence = sequence + 1,
         event.reservoirBefore = cash,
         ledger' = Append(ledger, event),
         UNCHANGED <<cash, sequence, positions>>
  PROVE  ReservoirInv'
<1>1. /\ LedgerNumbered'
      /\ Len(ledger') = Len(ledger) + 1
      /\ ledger'[Len(ledger')] = event
  BY AppendedDocument
<1>2. PositionsTradable'
  BY DEF ReservoirInv, PositionsTradable
<1>3. MemoryTracksLedger'
  BY <1>1 DEF MemoryTracksLedger
<1> QED
  BY <1>1, <1>2, <1>3 DEF ReservoirInv

\* A stored and acknowledged RUN_START or RUN_END: it is about no symbol.
LEMMA StoredMarker ==
  ASSUME ReservoirInv, ReservoirTypeOK', NEW event \in LedgerDocuments,
         Len(ledger) = sequence,
         event.eventSequence = sequence + 1,
         event.reservoirAfter = cash,
         event.symbol = NoSymbol,
         ledger' = Append(ledger, event),
         sequence' = sequence + 1,
         started' = TRUE,
         ended' <=> Replay!Closed \/ event.eventType = "RUN_END",
         UNCHANGED <<cash, positions>>
  PROVE  ReservoirInv'
<1>1. PositionsTradable'
  BY DEF ReservoirInv, PositionsTradable
<1>2. \A s \in Symbols : event.symbol # s
  BY ReservoirAssumption
<1>3. /\ LedgerNumbered'
      /\ Len(ledger') = sequence'
      /\ Replay!Balance' = cash'
      /\ Replay!Opened' <=> started'
      /\ Replay!Closed' <=> ended'
      /\ \A s \in Symbols :
           /\ Replay!HoldsNothing(s)' <=> Replay!HoldsNothing(s)
           /\ \A q : Replay!Holds(s, q)' <=> Replay!Holds(s, q)
  BY <1>2, AppendedDocument
<1>4. PositionsReplayed
  BY DEF ReservoirInv, ReservoirTypeOK, MemoryTracksLedger
<1>5. PositionsReplayed'
  BY <1>3, <1>4, PositionsReplayedNow, PositionsReplayedNext
<1>6. (ended <=> Replay!Closed)'
  BY <1>3 DEF ReservoirTypeOK, Replay!Closed
<1>7. MemoryTracksLedger'
  BY <1>3, <1>5, <1>6 DEF MemoryTracksLedger
<1> QED
  BY <1>1, <1>3, <1>7 DEF ReservoirInv

\* A stored and acknowledged flow: the symbol's position becomes the document's
\* active quantity, every other symbol's stays.
LEMMA StoredFlow ==
  ASSUME ReservoirInv, ReservoirTypeOK', NEW event \in LedgerDocuments,
         Len(ledger) = sequence,
         event.eventSequence = sequence + 1,
         event.symbol \in Symbols,
         event.activeQuantityAfter \in Quantities \cup {0},
         event.eventType # "RUN_END",
         ledger' = Append(ledger, event),
         sequence' = sequence + 1,
         cash' = event.reservoirAfter,
         started = TRUE,
         positions'[event.symbol].quantity = event.activeQuantityAfter,
         \A s \in Symbols : s # event.symbol => positions'[s] = positions[s],
         UNCHANGED <<started, ended>>
  PROVE  ReservoirInv'
<1> DEFINE t == event.symbol
<1>1. PositionsTradable'
  BY DEF ReservoirInv, PositionsTradable
<1>2. /\ LedgerNumbered'
      /\ Len(ledger') = sequence'
      /\ Replay!Balance' = cash'
      /\ Replay!Opened' <=> started'
      /\ Replay!Closed' <=> Replay!Closed
      /\ \A s : t # s =>
           /\ Replay!HoldsNothing(s)' <=> Replay!HoldsNothing(s)
           /\ \A q : Replay!Holds(s, q)' <=> Replay!Holds(s, q)
      /\ Replay!HoldsNothing(t)' <=> event.activeQuantityAfter = 0
      /\ Replay!Holds(t, event.activeQuantityAfter)'
  BY AppendedDocument
<1>3. PositionsReplayed /\ (ended <=> Replay!Closed)
  BY DEF ReservoirInv, ReservoirTypeOK, MemoryTracksLedger
<1>4. PositionsReplayed'
  <2>1. ASSUME NEW s \in Symbols, NEW q, q = positions'[s].quantity
        PROVE  IF q = 0 THEN Replay!HoldsNothing(s)' ELSE Replay!Holds(s, q)'
    <3>1. CASE s = t
      BY <1>2, <2>1, <3>1
    <3>2. CASE s # t
      BY <1>2, <1>3, <2>1, <3>2, PositionsReplayedNow
    <3> QED
      BY <3>1, <3>2
  <2> QED
    BY <2>1, PositionsReplayedNext
<1>5. (ended <=> Replay!Closed)'
  BY <1>2, <1>3 DEF Replay!Closed
<1>6. MemoryTracksLedger'
  BY <1>2, <1>4, <1>5 DEF MemoryTracksLedger
<1> QED
  BY <1>1, <1>2, <1>6 DEF ReservoirInv

-----------------------------------------------------------------------------
\* One lemma per operation: the invariant survives it.

LEMMA StartInv ==
  ASSUME ReservoirInv, NEW ok \in BOOLEAN, Start(ok)
  PROVE  ReservoirInv'
<1> DEFINE event == BaseEvent("RUN_START")
<1>1. ReservoirTypeOK'
  BY StartType DEF ReservoirInv
<1>2. event \in LedgerDocuments
  BY BaseEventType DEF ReservoirInv, EventTypes
<1>3. /\ event.eventType = "RUN_START"
      /\ event.eventSequence = sequence + 1
      /\ event.symbol = NoSymbol
      /\ event.reservoirBefore = cash
      /\ event.reservoirAfter = cash
  BY DEF BaseEvent
<1>4. Persist(event, ok)
  BY DEF Start
<1> HIDE DEF event
<1>5. CASE ledger' = ledger /\ ~Acknowledged(ok)
  <2>1. ~started /\ ~started'
    BY <1>5 DEF Start
  <2>2. started \in BOOLEAN /\ started' \in BOOLEAN
    BY <1>1 DEF ReservoirInv, ReservoirTypeOK
  <2>3. started' = started
    BY <2>1, <2>2
  <2> QED
    BY <1>1, <1>5, <2>3, NothingStored DEF Start
<1>6. CASE Len(ledger) = sequence /\ ledger' = Append(ledger, event) /\ ~Acknowledged(ok)
  BY <1>1, <1>2, <1>3, <1>6, StoredUnacknowledged DEF Start
<1>7. CASE Len(ledger) = sequence /\ ledger' = Append(ledger, event) /\ Acknowledged(ok)
  <2>1. (ended <=> Replay!Closed) /\ ended' = ended
    BY <1>7 DEF Start, ReservoirInv, ReservoirTypeOK, MemoryTracksLedger
  <2>2. ended' <=> Replay!Closed \/ event.eventType = "RUN_END"
    BY <1>3, <2>1
  <2>3. /\ sequence' = sequence + 1
        /\ started' = TRUE
        /\ UNCHANGED <<cash, positions>>
    BY <1>1, <1>7 DEF Start, ReservoirTypeOK
  <2> QED
    BY <1>1, <1>2, <1>3, <1>7, <2>2, <2>3, StoredMarker
<1> QED
  BY <1>4, <1>5, <1>6, <1>7, WriteOutcome

LEMMA EndInv ==
  ASSUME ReservoirInv, NEW ok \in BOOLEAN, End(ok)
  PROVE  ReservoirInv'
<1> DEFINE event == BaseEvent("RUN_END")
<1>1. ReservoirTypeOK'
  BY EndType DEF ReservoirInv
<1>2. event \in LedgerDocuments
  BY BaseEventType DEF ReservoirInv, EventTypes
<1>3. /\ event.eventType = "RUN_END"
      /\ event.eventSequence = sequence + 1
      /\ event.symbol = NoSymbol
      /\ event.reservoirBefore = cash
      /\ event.reservoirAfter = cash
  BY DEF BaseEvent
<1>4. CASE UNCHANGED reservoirVars
  BY <1>1, <1>4, NothingStored DEF reservoirVars
<1>5. CASE /\ started /\ ~ended
           /\ Persist(event, ok)
           /\ sequence' = IF Acknowledged(ok) THEN sequence + 1 ELSE sequence
           /\ ended' = Acknowledged(ok)
           /\ UNCHANGED <<cash, realizedPnL, started, positions>>
  <2> HIDE DEF event
  <2>1. CASE ledger' = ledger /\ ~Acknowledged(ok)
    <3>1. ~ended /\ ~ended'
      BY <1>5, <2>1
    <3>2. ended \in BOOLEAN /\ ended' \in BOOLEAN
      BY <1>1 DEF ReservoirInv, ReservoirTypeOK
    <3>3. ended' = ended
      BY <3>1, <3>2
    <3> QED
      BY <1>1, <1>5, <2>1, <3>3, NothingStored
  <2>2. CASE Len(ledger) = sequence /\ ledger' = Append(ledger, event) /\ ~Acknowledged(ok)
    BY <1>1, <1>2, <1>3, <1>5, <2>2, StoredUnacknowledged
  <2>3. CASE Len(ledger) = sequence /\ ledger' = Append(ledger, event) /\ Acknowledged(ok)
    <3>1. started' = TRUE
      BY <1>5 DEF ReservoirInv, ReservoirTypeOK
    <3>2. ended' <=> Replay!Closed \/ event.eventType = "RUN_END"
      BY <1>3, <1>5, <2>3
    <3> QED
      BY <1>1, <1>2, <1>3, <1>5, <2>3, <3>1, <3>2, StoredMarker
  <2> QED
    BY <1>5, <2>1, <2>2, <2>3, WriteOutcome
<1> QED
  BY <1>4, <1>5 DEF End

LEMMA MarkInv ==
  ASSUME ReservoirInv, NEW s \in Symbols, NEW price \in Prices, Mark(s, price)
  PROVE  ReservoirInv'
<1>1. ReservoirTypeOK'
  BY MarkType DEF ReservoirInv
<1>2. \A t \in Symbols : positions'[t].quantity = positions[t].quantity
  BY DEF Mark, ReservoirInv, ReservoirTypeOK
<1> QED
  BY <1>1, <1>2, NothingStored DEF Mark, store

\* RecordExecution as the reservoir's caller uses it: a purchase of a flat
\* symbol, or a sale of all that is held.
LEMMA RecordExecutionInv ==
  ASSUME ReservoirInv,
         NEW s \in Symbols, NEW action \in Actions, NEW quantity \in Quantities, NEW price \in Prices,
         NEW cause \in Causes, NEW ok \in BOOLEAN,
         RecordExecution(s, action, quantity, price, cause, ok)
  PROVE  ReservoirInv'
<1> DEFINE event == FlowEvent(s, action, quantity, price, cause)
<1>1. quantity \in Nat /\ price \in Nat
  BY ReservoirAssumption
<1>2. ReservoirTypeOK'
  BY <1>1, RecordExecutionType DEF ReservoirInv
<1>3. CASE UNCHANGED reservoirVars
  BY <1>2, <1>3, NothingStored DEF reservoirVars
<1>4. CASE /\ Recordable(action, quantity, price, cause)
           /\ Persist(event, ok)
           /\ IF Acknowledged(ok) THEN ApplyFlow(s, action, quantity, price, event)
                                  ELSE UNCHANGED <<cash, sequence, positions, realizedPnL>>
           /\ UNCHANGED <<started, ended, closing>>
  <2>1. event \in LedgerDocuments
    BY <1>1, <1>4, FlowEventType DEF ReservoirInv
  <2>2. /\ event.eventType # "RUN_END"
        /\ event.eventSequence = sequence + 1
        /\ event.symbol = s
        /\ event.reservoirBefore = cash
        /\ event.activeQuantityAfter = IF action = "ALLOCATE" THEN quantity ELSE 0
    BY FlowEventFields
  <2>3. started = TRUE
    BY <1>4 DEF Recordable, ReservoirInv, ReservoirTypeOK
  <2> HIDE DEF event
  <2>4. CASE ledger' = ledger /\ ~Acknowledged(ok)
    BY <1>2, <1>4, <2>4, NothingStored
  <2>5. CASE Len(ledger) = sequence /\ ledger' = Append(ledger, event) /\ ~Acknowledged(ok)
    BY <1>2, <1>4, <2>1, <2>2, <2>5, StoredUnacknowledged
  <2>6. CASE Len(ledger) = sequence /\ ledger' = Append(ledger, event) /\ Acknowledged(ok)
    <3>1. ApplyFlow(s, action, quantity, price, event)
      BY <1>4, <2>6
    <3>2. positions'[s].quantity = IF action = "ALLOCATE" THEN quantity ELSE 0
      BY <3>1 DEF ApplyFlow, NoPosition, ReservoirInv, ReservoirTypeOK
    <3>3. \A t \in Symbols : t # s => positions'[t] = positions[t]
      BY <3>1 DEF ApplyFlow, ReservoirInv, ReservoirTypeOK
    <3>4. cash' = event.reservoirAfter /\ sequence' = sequence + 1
      BY <3>1, <2>2 DEF ApplyFlow
    <3> QED
      BY <1>2, <1>4, <2>1, <2>2, <2>3, <2>6, <3>2, <3>3, <3>4, StoredFlow
  <2> QED
    BY <1>4, <2>4, <2>5, <2>6, WriteOutcome
<1> QED
  BY <1>3, <1>4 DEF RecordExecution

\* What a sale passes on: a held quantity is one that was bought.
LEMMA HeldQuantity ==
  ASSUME ReservoirInv, NEW s \in Symbols, positions[s].quantity # 0
  PROVE  positions[s].quantity \in Quantities \ {0}
BY DEF ReservoirInv, PositionsTradable

LEMMA StepInv ==
  ASSUME ReservoirInv, ReservoirStep
  PROVE  ReservoirInv'
<1>1. CASE \E ok \in BOOLEAN : Start(ok)
  BY <1>1, StartInv
<1>2. CASE \E s \in Symbols, q \in Quantities, p \in Prices, ok \in BOOLEAN : Allocation(s, q, p, ok)
  <2>1. PICK s \in Symbols, q \in Quantities, p \in Prices, ok \in BOOLEAN :
          RecordExecution(s, "ALLOCATE", q, p, "HOP_ON", ok)
    BY <1>2 DEF Allocation
  <2>2. "ALLOCATE" \in Actions /\ "HOP_ON" \in Causes
    BY DEF Actions, Causes
  <2> QED
    BY <2>1, <2>2, RecordExecutionInv
<1>3. CASE \E s \in Symbols, p \in Prices, c \in Causes, ok \in BOOLEAN : Liquidation(s, p, c, ok)
  <2>1. PICK s \in Symbols, p \in Prices, c \in Causes, ok \in BOOLEAN : Liquidation(s, p, c, ok)
    BY <1>3
  <2>2. PICK q \in Quantities : q = positions[s].quantity
    BY <2>1, HeldQuantity DEF Liquidation
  <2>3. RecordExecution(s, "LIQUIDATE", q, p, c, ok)
    BY <2>1, <2>2 DEF Liquidation
  <2>4. "LIQUIDATE" \in Actions
    BY DEF Actions
  <2> QED
    BY <2>3, <2>4, RecordExecutionInv
<1>4. CASE \E s \in Symbols, p \in Prices : Mark(s, p)
  BY <1>4, MarkInv
<1>5. CASE \E ok \in BOOLEAN : End(ok)
  BY <1>5, EndInv
<1> QED
  BY <1>1, <1>2, <1>3, <1>4, <1>5 DEF ReservoirStep

LEMMA InitInv == ReservoirInit => ReservoirInv
<1> SUFFICES ASSUME ReservoirInit PROVE ReservoirInv
  OBVIOUS
<1>1. PositionsReplayed
  BY DEF ReservoirInit, NoPosition, PositionsReplayed, Replay!HoldsNothing, Replay!LatestFlow
<1>2. /\ cash = Replay!Balance
      /\ started <=> Replay!Opened
      /\ ended <=> Replay!Closed
  BY DEF ReservoirInit, Replay!Balance, Replay!Opened, Replay!Closed
<1>3. Len(ledger) = sequence
  BY DEF ReservoirInit
<1>4. MemoryTracksLedger
  BY <1>1, <1>2, <1>3 DEF MemoryTracksLedger
<1>5. LedgerNumbered /\ PositionsTradable
  BY DEF ReservoirInit, NoPosition, LedgerNumbered, PositionsTradable
<1> QED
  BY <1>4, <1>5, InitType DEF ReservoirInv

LEMMA StutterInv ==
  ASSUME ReservoirInv, UNCHANGED reservoirVars
  PROVE  ReservoirInv'
<1>1. ReservoirTypeOK'
  BY DEF reservoirVars, ReservoirInv, ReservoirTypeOK
<1> QED
  BY <1>1, NothingStored DEF reservoirVars

LEMMA ReservoirInvariant == ReservoirSpec => []ReservoirInv
<1>1. ReservoirInv /\ [ReservoirNext]_reservoirVars => ReservoirInv'
  <2> SUFFICES ASSUME ReservoirInv, [ReservoirNext]_reservoirVars
               PROVE  ReservoirInv'
    OBVIOUS
  <2> QED
    BY StepInv, StutterInv DEF ReservoirNext
<1> QED
  BY InitInv, <1>1, PTL DEF ReservoirSpec

\* Memory agrees with a replay of the stored documents, except for one document
\* that was stored without being acknowledged (persist, capital_reservoir.go:326-337).
THEOREM MemoryAlwaysTracksLedger == ReservoirSpec => []MemoryTracksLedger
BY ReservoirInvariant, PTL DEF ReservoirInv

\* While the ledger is as long as memory believes, a replay agrees with memory.
LEMMA MemoryIsReplay ==
  ASSUME ReservoirInv, Len(ledger) = sequence
  PROVE  /\ cash = Replay!Balance
         /\ started <=> Replay!Opened
         /\ ended <=> Replay!Closed
         /\ PositionsReplayed
BY DEF ReservoirInv, ReservoirTypeOK, MemoryTracksLedger

-----------------------------------------------------------------------------
\* Cash against positions and profit.

\* What symbol t has cost: money that left the cash and is to come back.
Cost(t) == positions[t].quantity * positions[t].entryPrice

LEMMA CostNat ==
  ASSUME ReservoirTypeOK
  PROVE  /\ \A t \in Symbols : Cost(t) \in Nat
         /\ Invested \in Int
<1>1. \A t \in Symbols : Cost(t) \in Nat
  BY NaturalProduct DEF ReservoirTypeOK, Cost
<1> DEFINE costs == [t \in Symbols |-> Cost(t)]
<1>2. Invested = SumFunctionOnSet(costs, Symbols)
  BY DEF Invested, SumFunction, Cost
<1>3. SumFunctionOnSet(costs, Symbols) \in Int
  <2>1. \A t \in Symbols : costs[t] \in Int
    BY <1>1
  <2> HIDE DEF costs
  <2> QED  BY <2>1, SumInt, ReservoirAssumption
<1> QED
  BY <1>1, <1>2, <1>3

\* A step that touches one position changes what is invested by its cost.
LEMMA InvestedChanges ==
  ASSUME ReservoirTypeOK, ReservoirTypeOK', NEW s \in Symbols,
         \A t \in Symbols \ {s} : Cost(t)' = Cost(t)
  PROVE  Invested' = Invested - Cost(s) + Cost(s)'
<1> DEFINE costs == [t \in Symbols |-> Cost(t)]
           costsNext == [t \in Symbols |-> Cost(t)']
<1>1. /\ Invested = SumFunctionOnSet(costs, Symbols)
      /\ Invested' = SumFunctionOnSet(costsNext, Symbols)
  BY DEF Invested, SumFunction, Cost
<1>2. \A t \in Symbols : costs[t] = Cost(t) /\ costsNext[t] = Cost(t)'
  OBVIOUS
<1>3. \A t \in Symbols : Cost(t) \in Int /\ Cost(t)' \in Int
  <2>1. \A t \in Symbols : Cost(t) \in Nat
    BY CostNat
  <2>2. \A t \in Symbols : Cost(t)' \in Nat
    BY NaturalProduct DEF ReservoirTypeOK, Cost
  <2> QED  BY <2>1, <2>2
<1> HIDE DEF costs, costsNext
<1>4. SumFunctionOnSet(costsNext, Symbols) = SumFunctionOnSet(costs, Symbols) - costs[s] + costsNext[s]
  BY <1>2, <1>3, SumChange, ReservoirAssumption
<1> QED
  BY <1>1, <1>2, <1>4

\* Marks and writes that fail move no money.
LEMMA NothingMoved ==
  ASSUME ReservoirTypeOK, ReservoirTypeOK', CashConservation, UNCHANGED <<cash, realizedPnL>>,
         \A t \in Symbols : /\ positions'[t].quantity = positions[t].quantity
                            /\ positions'[t].entryPrice = positions[t].entryPrice
  PROVE  CashConservation'
<1>1. Invested' = Invested
  BY DEF Invested
<1> QED
  BY <1>1 DEF CashConservation, InitialReservoir

\* What RecordExecution does when its document is acknowledged, and otherwise.
LEMMA RecordedOrNot ==
  ASSUME NEW s, NEW action, NEW quantity, NEW price, NEW cause, NEW ok,
         RecordExecution(s, action, quantity, price, cause, ok)
  PROVE  \/ UNCHANGED <<cash, sequence, positions, realizedPnL>>
         \/ /\ Recordable(action, quantity, price, cause)
            /\ Acknowledged(ok)
            /\ ApplyFlow(s, action, quantity, price, FlowEvent(s, action, quantity, price, cause))
BY DEF RecordExecution, reservoirVars

LEMMA RecordExecutionConserves ==
  ASSUME ReservoirTypeOK, ReservoirTypeOK', CashConservation,
         NEW s \in Symbols, NEW action \in Actions, NEW quantity \in Nat, NEW price \in Nat,
         NEW cause \in Causes, NEW ok \in BOOLEAN,
         positions[s].quantity = IF action = "ALLOCATE" THEN 0 ELSE quantity,
         RecordExecution(s, action, quantity, price, cause, ok)
  PROVE  CashConservation'
<1> DEFINE event == FlowEvent(s, action, quantity, price, cause)
           amount == quantity * price
<1>1. CASE UNCHANGED <<cash, sequence, positions, realizedPnL>>
  BY <1>1, NothingMoved
<1>2. CASE ApplyFlow(s, action, quantity, price, event)
  <2>1. \A t \in Symbols \ {s} : positions'[t] = positions[t]
    BY <1>2 DEF ApplyFlow, ReservoirTypeOK
  <2>2. Invested' = Invested - Cost(s) + Cost(s)'
    <3>1. \A t \in Symbols \ {s} : Cost(t)' = Cost(t)
      BY <2>1 DEF Cost
    <3> QED  BY <3>1, InvestedChanges
  <2>3. /\ Cost(s) \in Nat /\ Invested \in Int /\ amount \in Nat
        /\ cash \in Int /\ realizedPnL \in Int /\ InitialReservoir \in Nat
    BY CostNat, NaturalProduct, InitialReservoirNat DEF ReservoirTypeOK
  <2>4. cash' = IF action = "ALLOCATE" THEN cash - amount ELSE cash + amount
    BY <1>2, FlowEventFields DEF ApplyFlow
  <2>5. CASE action = "ALLOCATE"
    <3>1. positions'[s] = [quantity |-> quantity, entryPrice |-> price, markPrice |-> price]
      BY <1>2, <2>5 DEF ApplyFlow, ReservoirTypeOK
    <3>2. Cost(s)' = amount
      BY <3>1 DEF Cost
    <3>3. Cost(s) = 0
      BY <2>5 DEF Cost, ReservoirTypeOK
    <3>4. realizedPnL' = realizedPnL /\ cash' = cash - amount
      BY <1>2, <2>4, <2>5 DEF ApplyFlow
    <3> HIDE DEF amount
    <3> QED
      BY <2>2, <2>3, <3>2, <3>3, <3>4 DEF CashConservation, InitialReservoir
  <2>6. CASE action # "ALLOCATE"
    <3>1. positions'[s] = NoPosition
      BY <1>2, <2>6 DEF ApplyFlow, ReservoirTypeOK
    <3>2. Cost(s)' = 0
      BY <3>1 DEF Cost, NoPosition
    <3>3. Cost(s) = quantity * positions[s].entryPrice
      BY <2>6 DEF Cost
    <3>4. realizedPnL' = realizedPnL + quantity * (price - positions[s].entryPrice)
      BY <1>2, <2>6 DEF ApplyFlow
    <3>5. quantity * (price - positions[s].entryPrice) = amount - Cost(s)
      BY <3>3 DEF ReservoirTypeOK
    <3>6. realizedPnL' = realizedPnL + (amount - Cost(s)) /\ cash' = cash + amount
      BY <2>4, <2>6, <3>4, <3>5
    <3> HIDE DEF amount
    <3> QED
      BY <2>2, <2>3, <3>2, <3>6 DEF CashConservation, InitialReservoir
  <2> QED
    BY <2>5, <2>6
<1> QED
  BY <1>1, <1>2, RecordedOrNot

LEMMA StepConserves ==
  ASSUME ReservoirTypeOK, ReservoirTypeOK', CashConservation, ReservoirStep
  PROVE  CashConservation'
<1>1. CASE \E ok \in BOOLEAN : Start(ok)
  BY <1>1, NothingMoved DEF Start
<1>2. CASE \E s \in Symbols, q \in Quantities, p \in Prices, ok \in BOOLEAN : Allocation(s, q, p, ok)
  <2>1. PICK s \in Symbols, q \in Quantities, p \in Prices, ok \in BOOLEAN :
          positions[s].quantity = 0 /\ RecordExecution(s, "ALLOCATE", q, p, "HOP_ON", ok)
    BY <1>2 DEF Allocation
  <2>2. /\ q \in Nat /\ p \in Nat
        /\ "ALLOCATE" \in Actions /\ "HOP_ON" \in Causes
    BY ReservoirAssumption DEF Actions, Causes
  <2> QED
    BY <2>1, <2>2, RecordExecutionConserves
<1>3. CASE \E s \in Symbols, p \in Prices, c \in Causes, ok \in BOOLEAN : Liquidation(s, p, c, ok)
  <2>1. PICK s \in Symbols, p \in Prices, c \in Causes, ok \in BOOLEAN : Liquidation(s, p, c, ok)
    BY <1>3
  <2>2. PICK q \in Nat : q = positions[s].quantity
    BY DEF ReservoirTypeOK
  <2>3. p \in Nat /\ "LIQUIDATE" \in Actions
    BY ReservoirAssumption DEF Actions
  <2>4. RecordExecution(s, "LIQUIDATE", q, p, c, ok)
    BY <2>1, <2>2 DEF Liquidation
  <2> QED
    BY <2>2, <2>3, <2>4, RecordExecutionConserves
<1>4. CASE \E s \in Symbols, p \in Prices : Mark(s, p)
  <2>1. PICK s \in Symbols, p \in Prices : Mark(s, p)
    BY <1>4
  <2>2. /\ UNCHANGED <<cash, realizedPnL>>
        /\ \A t \in Symbols : /\ positions'[t].quantity = positions[t].quantity
                              /\ positions'[t].entryPrice = positions[t].entryPrice
    BY <2>1 DEF Mark, ReservoirTypeOK
  <2> QED
    BY <2>2, NothingMoved
<1>5. CASE \E ok \in BOOLEAN : End(ok)
  BY <1>5, NothingMoved DEF End, reservoirVars
<1> QED
  BY <1>1, <1>2, <1>3, <1>4, <1>5 DEF ReservoirStep

LEMMA InitConserves == ReservoirInit => CashConservation
<1> SUFFICES ASSUME ReservoirInit PROVE CashConservation
  OBVIOUS
<1> DEFINE costs == [t \in Symbols |-> Cost(t)]
<1>1. Invested = SumFunctionOnSet(costs, Symbols)
  BY DEF Invested, SumFunction, Cost
<1>2. \A t \in Symbols : costs[t] = 0
  BY DEF ReservoirInit, NoPosition, Cost
<1> HIDE DEF costs
<1>3. Invested = 0
  BY <1>1, <1>2, SumOfZeros, ReservoirAssumption
<1> QED
  BY <1>3, InitialReservoirNat DEF ReservoirInit, CashConservation

-----------------------------------------------------------------------------
\* Realised profit against the stored flows.

Inflows == {i \in DOMAIN ledger : ledger[i].eventType = "INFLOW"}
SoldPurchases == {i \in DOMAIN ledger : Sold(i)}

\* A purchase of s the ledger shows no later flow of.
OpenPurchase(i, s) ==
  /\ ledger[i].eventType = "OUTFLOW"
  /\ ledger[i].symbol = s
  /\ ~Sold(i)

\* The ledger shows one open purchase of every held symbol, at its cost, and
\* none of the others; what the sales made is in realizedPnL.
FlowsMatchMemory ==
  /\ realizedPnL = RealizedByReplay
  /\ \A i \in DOMAIN ledger : ledger[i].eventType = "OUTFLOW" => ledger[i].symbol \in Symbols
  /\ \A s \in Symbols :
       IF positions[s].quantity = 0
       THEN \A i \in DOMAIN ledger : ~OpenPurchase(i, s)
       ELSE \E i \in DOMAIN ledger :
              /\ OpenPurchase(i, s)
              /\ FlowAmounts[i] = Cost(s)
              /\ \A j \in DOMAIN ledger : OpenPurchase(j, s) => j = i

MoneyInv ==
  /\ CashConservation
  /\ Len(ledger) = sequence => FlowsMatchMemory
  /\ RunEndReconciles

LEMMA FlowAmountsNat ==
  ASSUME ReservoirTypeOK
  PROVE  /\ DOMAIN FlowAmounts = DOMAIN ledger
         /\ \A i \in DOMAIN ledger : FlowAmounts[i] \in Nat
         /\ IsFiniteSet(DOMAIN ledger)
<1>1. ledger \in Seq(LedgerDocuments) /\ DOMAIN ledger = 1..Len(ledger) /\ Len(ledger) \in Nat
  BY DEF ReservoirTypeOK
<1>2. \A i \in DOMAIN ledger : ledger[i].quantity \in Nat /\ ledger[i].executionPrice \in Nat
  <2>1. \A i \in DOMAIN ledger : ledger[i] \in LedgerDocuments
    BY <1>1
  <2> QED  BY <2>1 DEF LedgerDocuments
<1>3. \A i \in DOMAIN ledger : ledger[i].quantity * ledger[i].executionPrice \in Nat
  BY <1>2, NaturalProduct
<1>4. IsFiniteSet(1..Len(ledger))
  BY <1>1, FS_Interval
<1> QED
  BY <1>1, <1>3, <1>4 DEF FlowAmounts

LEMMA FlowSumInt ==
  ASSUME ReservoirTypeOK, NEW I \in SUBSET DOMAIN ledger
  PROVE  SumFunctionOnSet(FlowAmounts, I) \in Int /\ IsFiniteSet(I)
<1>1. IsFiniteSet(I)
  BY FlowAmountsNat, FS_Subset
<1>2. \A i \in I : FlowAmounts[i] \in Int
  BY FlowAmountsNat
<1> QED
  BY <1>1, <1>2, SumInt

\* What a document adds to the flows: its own amount, and a later flow of its
\* symbol.
LEMMA AppendedFlow ==
  ASSUME ReservoirTypeOK, NEW event \in LedgerDocuments, ledger' = Append(ledger, event),
         NEW last, last = Len(ledger) + 1
  PROVE  /\ DOMAIN ledger' = DOMAIN ledger \union {last}
         /\ last \notin DOMAIN ledger
         /\ ledger'[last] = event
         /\ \A i \in DOMAIN ledger : ledger'[i] = ledger[i]
         /\ FlowAmounts'[last] = event.quantity * event.executionPrice
         /\ ~Sold(last)'
         /\ \A i \in DOMAIN ledger :
              Sold(i)' <=> \/ Sold(i)
                           \/ ledger[i].eventType = "OUTFLOW" /\ ledger[i].symbol = event.symbol
         /\ \A I \in SUBSET DOMAIN ledger :
              SumFunctionOnSet(FlowAmounts, I)' = SumFunctionOnSet(FlowAmounts, I)
<1>1. PICK n \in Nat : /\ n = Len(ledger) /\ last = n + 1
                      /\ DOMAIN ledger = 1..n /\ ledger \in Seq(LedgerDocuments)
  BY DEF ReservoirTypeOK
<1>2. /\ DOMAIN ledger' = 1..last
      /\ ledger'[last] = event
      /\ \A i \in 1..n : ledger'[i] = ledger[i]
  BY <1>1
<1>3. 1..last = 1..n \union {last} /\ last \notin 1..n
  BY <1>1
<1>4. FlowAmounts'[last] = event.quantity * event.executionPrice
  BY <1>2, <1>3 DEF FlowAmounts
<1>5. \A i \in 1..n : FlowAmounts'[i] = FlowAmounts[i]
  BY <1>1, <1>2, <1>3 DEF FlowAmounts
<1>6. ~Sold(last)'
  <2>1. \A j \in 1..last : ~(j > last)
    BY <1>1
  <2> QED  BY <1>2, <2>1 DEF Sold
<1>7. ASSUME NEW i \in 1..n
      PROVE  Sold(i)' <=> \/ Sold(i)
                          \/ ledger[i].eventType = "OUTFLOW" /\ ledger[i].symbol = event.symbol
  <2>1. last > i /\ i \in 1..last
    BY <1>1, <1>7
  <2> QED
    BY <1>1, <1>2, <1>3, <2>1 DEF Sold
<1>8. ASSUME NEW I \in SUBSET (1..n)
      PROVE  SumFunctionOnSet(FlowAmounts, I)' = SumFunctionOnSet(FlowAmounts, I)
  <2>1. I \in SUBSET DOMAIN ledger
    BY <1>1
  <2>2. IsFiniteSet(I)
    BY <2>1, FlowSumInt
  <2>3. \A i \in I : FlowAmounts[i] \in Int
    BY <2>1, FlowAmountsNat
  <2>4. SumFunctionOnSet(FlowAmounts', I) = SumFunctionOnSet(FlowAmounts, I)
    BY <1>5, <2>2, <2>3, SumSame
  <2> QED
    BY <2>4
<1> QED
  BY <1>1, <1>2, <1>3, <1>4, <1>5, <1>6, <1>7, <1>8

\* A document that is no flow leaves the replayed flows as they were.
LEMMA MarkerReplayed ==
  ASSUME ReservoirTypeOK, FlowsMatchMemory,
         NEW event \in LedgerDocuments, event.eventType \in {"RUN_START", "RUN_END"},
         event.symbol = NoSymbol, ledger' = Append(ledger, event),
         UNCHANGED <<realizedPnL, positions>>
  PROVE  FlowsMatchMemory'
<1> PICK new : new = Len(ledger) + 1
  OBVIOUS
<1>1. /\ DOMAIN ledger' = DOMAIN ledger \union {new}
      /\ new \notin DOMAIN ledger
      /\ ledger'[new] = event
      /\ \A i \in DOMAIN ledger : ledger'[i] = ledger[i]
      /\ ~Sold(new)'
      /\ \A i \in DOMAIN ledger :
           Sold(i)' <=> \/ Sold(i)
                        \/ ledger[i].eventType = "OUTFLOW" /\ ledger[i].symbol = event.symbol
  BY AppendedFlow
<1>2. \A I \in SUBSET DOMAIN ledger :
        SumFunctionOnSet(FlowAmounts, I)' = SumFunctionOnSet(FlowAmounts, I)
  BY AppendedFlow
<1>3. \A i \in DOMAIN ledger : Sold(i)' <=> Sold(i)
  BY <1>1, ReservoirAssumption DEF FlowsMatchMemory
<1>4. Inflows' = Inflows /\ SoldPurchases' = SoldPurchases
  BY <1>1, <1>3 DEF Inflows, SoldPurchases
<1>5. RealizedByReplay' = RealizedByReplay
  <2>1. Inflows \in SUBSET DOMAIN ledger /\ SoldPurchases \in SUBSET DOMAIN ledger
    BY DEF Inflows, SoldPurchases
  <2>2. /\ SumFunctionOnSet(FlowAmounts', Inflows) = SumFunctionOnSet(FlowAmounts, Inflows)
        /\ SumFunctionOnSet(FlowAmounts', SoldPurchases) = SumFunctionOnSet(FlowAmounts, SoldPurchases)
    BY <1>2, <2>1
  <2> QED
    BY <1>4, <2>2 DEF RealizedByReplay, Inflows, SoldPurchases
<1>6. ASSUME NEW s \in Symbols
      PROVE  /\ \A i \in DOMAIN ledger : OpenPurchase(i, s)' <=> OpenPurchase(i, s)
             /\ ~OpenPurchase(new, s)'
  BY <1>1, <1>3 DEF OpenPurchase
<1>7. \A i \in DOMAIN ledger : FlowAmounts'[i] = FlowAmounts[i]
  BY <1>1 DEF FlowAmounts
<1>8. \A s : Cost(s)' = Cost(s)
  BY DEF Cost
<1>9. \A i \in DOMAIN ledger' : ledger'[i].eventType = "OUTFLOW" => ledger'[i].symbol \in Symbols
  BY <1>1 DEF FlowsMatchMemory
<1>10. ASSUME NEW s \in Symbols, positions[s].quantity = 0
       PROVE  \A i \in DOMAIN ledger' : ~OpenPurchase(i, s)'
  BY <1>1, <1>6, <1>10 DEF FlowsMatchMemory
<1>11. ASSUME NEW s \in Symbols, positions[s].quantity # 0
       PROVE  \E i \in DOMAIN ledger' :
                /\ OpenPurchase(i, s)'
                /\ FlowAmounts'[i] = Cost(s)'
                /\ \A j \in DOMAIN ledger' : OpenPurchase(j, s)' => j = i
  <2>1. PICK i \in DOMAIN ledger :
          /\ OpenPurchase(i, s)
          /\ FlowAmounts[i] = Cost(s)
          /\ \A j \in DOMAIN ledger : OpenPurchase(j, s) => j = i
    BY <1>11 DEF FlowsMatchMemory
  <2>2. OpenPurchase(i, s)' /\ FlowAmounts'[i] = Cost(s)'
    BY <1>6, <1>7, <1>8, <2>1
  <2> QED
    BY <1>1, <1>6, <2>1, <2>2
<1> QED
  BY <1>5, <1>9, <1>10, <1>11 DEF FlowsMatchMemory

\* The flows of the other symbols are not disturbed by a flow of s.
LEMMA OthersReplayed ==
  ASSUME ReservoirTypeOK, FlowsMatchMemory,
         NEW s \in Symbols, NEW event \in LedgerDocuments, event.symbol = s,
         ledger' = Append(ledger, event),
         NEW t \in Symbols, t # s, positions'[t] = positions[t]
  PROVE  IF positions'[t].quantity = 0
         THEN \A i \in DOMAIN ledger' : ~OpenPurchase(i, t)'
         ELSE \E i \in DOMAIN ledger' :
                /\ OpenPurchase(i, t)'
                /\ FlowAmounts'[i] = Cost(t)'
                /\ \A j \in DOMAIN ledger' : OpenPurchase(j, t)' => j = i
<1> PICK new : new = Len(ledger) + 1
  OBVIOUS
<1>1. /\ DOMAIN ledger' = DOMAIN ledger \union {new}
      /\ new \notin DOMAIN ledger
      /\ ledger'[new] = event
      /\ \A i \in DOMAIN ledger : ledger'[i] = ledger[i]
      /\ \A i \in DOMAIN ledger :
           Sold(i)' <=> \/ Sold(i)
                        \/ ledger[i].eventType = "OUTFLOW" /\ ledger[i].symbol = event.symbol
  BY AppendedFlow
<1>2. /\ \A i \in DOMAIN ledger : OpenPurchase(i, t)' <=> OpenPurchase(i, t)
      /\ ~OpenPurchase(new, t)'
  BY <1>1 DEF OpenPurchase
<1>3. \A i \in DOMAIN ledger : FlowAmounts'[i] = FlowAmounts[i]
  BY <1>1 DEF FlowAmounts
<1>4. Cost(t)' = Cost(t)
  BY DEF Cost
<1>5. CASE positions[t].quantity = 0
  BY <1>1, <1>2, <1>5 DEF FlowsMatchMemory
<1>6. CASE positions[t].quantity # 0
  <2>1. PICK i \in DOMAIN ledger :
          /\ OpenPurchase(i, t)
          /\ FlowAmounts[i] = Cost(t)
          /\ \A j \in DOMAIN ledger : OpenPurchase(j, t) => j = i
    BY <1>6 DEF FlowsMatchMemory
  <2> QED
    BY <1>1, <1>2, <1>3, <1>4, <1>6, <2>1
<1> QED
  BY <1>5, <1>6

\* A purchase is the only open one of its symbol.
LEMMA PurchaseReplayed ==
  ASSUME ReservoirTypeOK, ReservoirTypeOK', FlowsMatchMemory,
         NEW s \in Symbols, NEW event \in LedgerDocuments,
         event.eventType = "OUTFLOW", event.symbol = s, ledger' = Append(ledger, event),
         positions[s].quantity = 0, positions'[s].quantity # 0,
         Cost(s)' = event.quantity * event.executionPrice,
         \A t \in Symbols : t # s => positions'[t] = positions[t],
         realizedPnL' = realizedPnL
  PROVE  FlowsMatchMemory'
<1> PICK new : new = Len(ledger) + 1
  OBVIOUS
<1>1. /\ DOMAIN ledger' = DOMAIN ledger \union {new}
      /\ new \notin DOMAIN ledger
      /\ ledger'[new] = event
      /\ \A i \in DOMAIN ledger : ledger'[i] = ledger[i]
      /\ FlowAmounts'[new] = event.quantity * event.executionPrice
      /\ ~Sold(new)'
      /\ \A i \in DOMAIN ledger :
           Sold(i)' <=> \/ Sold(i)
                        \/ ledger[i].eventType = "OUTFLOW" /\ ledger[i].symbol = event.symbol
  BY AppendedFlow
<1>2. \A I \in SUBSET DOMAIN ledger :
        SumFunctionOnSet(FlowAmounts, I)' = SumFunctionOnSet(FlowAmounts, I)
  BY AppendedFlow
<1>3. \A i \in DOMAIN ledger : ~OpenPurchase(i, s)
  BY DEF FlowsMatchMemory
<1>4. \A i \in DOMAIN ledger : Sold(i)' <=> Sold(i)
  BY <1>1, <1>3 DEF OpenPurchase
<1>5. Inflows' = Inflows /\ SoldPurchases' = SoldPurchases
  BY <1>1, <1>4 DEF Inflows, SoldPurchases
<1>6. RealizedByReplay' = RealizedByReplay
  <2>1. Inflows \in SUBSET DOMAIN ledger /\ SoldPurchases \in SUBSET DOMAIN ledger
    BY DEF Inflows, SoldPurchases
  <2>2. /\ SumFunctionOnSet(FlowAmounts', Inflows) = SumFunctionOnSet(FlowAmounts, Inflows)
        /\ SumFunctionOnSet(FlowAmounts', SoldPurchases) = SumFunctionOnSet(FlowAmounts, SoldPurchases)
    BY <1>2, <2>1
  <2> QED
    BY <1>5, <2>2 DEF RealizedByReplay, Inflows, SoldPurchases
<1>7. /\ OpenPurchase(new, s)'
      /\ \A i \in DOMAIN ledger : ~OpenPurchase(i, s)'
  BY <1>1, <1>3, <1>4 DEF OpenPurchase
<1>8. \E i \in DOMAIN ledger' :
        /\ OpenPurchase(i, s)'
        /\ FlowAmounts'[i] = Cost(s)'
        /\ \A j \in DOMAIN ledger' : OpenPurchase(j, s)' => j = i
  BY <1>1, <1>7
<1>9. \A i \in DOMAIN ledger' : ledger'[i].eventType = "OUTFLOW" => ledger'[i].symbol \in Symbols
  BY <1>1 DEF FlowsMatchMemory
<1>10. ASSUME NEW t \in Symbols
       PROVE  IF positions'[t].quantity = 0
              THEN \A i \in DOMAIN ledger' : ~OpenPurchase(i, t)'
              ELSE \E i \in DOMAIN ledger' :
                     /\ OpenPurchase(i, t)'
                     /\ FlowAmounts'[i] = Cost(t)'
                     /\ \A j \in DOMAIN ledger' : OpenPurchase(j, t)' => j = i
  <2>1. CASE t = s
    BY <1>8, <2>1
  <2>2. CASE t # s
    BY <2>2, OthersReplayed
  <2> QED
    BY <2>1, <2>2
<1> QED
  BY <1>6, <1>9, <1>10 DEF FlowsMatchMemory

\* A sale closes the open purchase of its symbol and realises the difference.
LEMMA SaleReplayed ==
  ASSUME ReservoirTypeOK, ReservoirTypeOK', FlowsMatchMemory,
         NEW s \in Symbols, NEW event \in LedgerDocuments,
         event.eventType = "INFLOW", event.symbol = s, ledger' = Append(ledger, event),
         positions[s].quantity # 0, positions'[s].quantity = 0,
         \A t \in Symbols : t # s => positions'[t] = positions[t],
         NEW amount \in Nat, amount = event.quantity * event.executionPrice,
         realizedPnL' = realizedPnL + (amount - Cost(s))
  PROVE  FlowsMatchMemory'
<1> PICK new : new = Len(ledger) + 1
  OBVIOUS
<1>1. /\ DOMAIN ledger' = DOMAIN ledger \union {new}
      /\ new \notin DOMAIN ledger
      /\ ledger'[new] = event
      /\ \A i \in DOMAIN ledger : ledger'[i] = ledger[i]
      /\ FlowAmounts'[new] = amount
      /\ ~Sold(new)'
      /\ \A i \in DOMAIN ledger :
           Sold(i)' <=> \/ Sold(i)
                        \/ ledger[i].eventType = "OUTFLOW" /\ ledger[i].symbol = event.symbol
  BY AppendedFlow
<1>2. \A I \in SUBSET DOMAIN ledger :
        SumFunctionOnSet(FlowAmounts, I)' = SumFunctionOnSet(FlowAmounts, I)
  BY AppendedFlow
<1>3. PICK i \in DOMAIN ledger :
        /\ OpenPurchase(i, s)
        /\ FlowAmounts[i] = Cost(s)
        /\ \A j \in DOMAIN ledger : OpenPurchase(j, s) => j = i
  BY DEF FlowsMatchMemory
<1>4. i \notin SoldPurchases /\ SoldPurchases' = SoldPurchases \union {i}
  BY <1>1, <1>3 DEF SoldPurchases, OpenPurchase
<1>5. new \notin Inflows /\ Inflows' = Inflows \union {new}
  BY <1>1 DEF Inflows
<1> DEFINE sum(I) == SumFunctionOnSet(FlowAmounts, I)
           sumNext(I) == SumFunctionOnSet(FlowAmounts', I)
<1>6. \A I \in SUBSET DOMAIN ledger : sumNext(I) = sum(I) /\ sum(I) \in Int
  BY <1>2, FlowSumInt
<1>7. \A j \in DOMAIN ledger' : FlowAmounts'[j] \in Int
  <2>1. \A j \in DOMAIN ledger : FlowAmounts'[j] = FlowAmounts[j] /\ FlowAmounts[j] \in Nat
    BY <1>1, FlowAmountsNat DEF FlowAmounts
  <2> QED
    BY <1>1, <2>1
<1>8. IsFiniteSet(DOMAIN ledger')
  BY <1>1, FlowAmountsNat, FS_AddElement
<1>9. sumNext(Inflows') = amount + sumNext(Inflows)
  <2>1. PICK after, J : after = FlowAmounts' /\ J = Inflows'
    OBVIOUS
  <2>2. J \subseteq DOMAIN ledger' /\ new \in J /\ J \ {new} = Inflows
    BY <1>5, <2>1 DEF Inflows
  <2>3. IsFiniteSet(J) /\ IntsOn(after, J)
    BY <1>7, <1>8, <2>1, <2>2, FS_Subset DEF IntsOn
  <2>4. SumFunctionOnSet(after, J) = after[new] + SumFunctionOnSet(after, J \ {new})
    BY <2>2, <2>3, SumRemove
  <2> QED
    BY <1>1, <2>1, <2>2, <2>4
<1>10. sumNext(SoldPurchases') = Cost(s) + sumNext(SoldPurchases)
  <2>1. PICK after, J : after = FlowAmounts' /\ J = SoldPurchases'
    OBVIOUS
  <2>2. J \subseteq DOMAIN ledger' /\ i \in J /\ J \ {i} = SoldPurchases
    BY <1>4, <2>1 DEF SoldPurchases
  <2>3. IsFiniteSet(J) /\ IntsOn(after, J)
    BY <1>7, <1>8, <2>1, <2>2, FS_Subset DEF IntsOn
  <2>4. SumFunctionOnSet(after, J) = after[i] + SumFunctionOnSet(after, J \ {i})
    BY <2>2, <2>3, SumRemove
  <2>5. FlowAmounts'[i] = FlowAmounts[i]
    BY <1>1, <1>3 DEF FlowAmounts
  <2> QED
    BY <1>3, <2>1, <2>2, <2>4, <2>5
<1>11. RealizedByReplay' = RealizedByReplay + (amount - Cost(s))
  <2>1. Inflows \in SUBSET DOMAIN ledger /\ SoldPurchases \in SUBSET DOMAIN ledger
    BY DEF Inflows, SoldPurchases
  <2>2. /\ RealizedByReplay = sum(Inflows) - sum(SoldPurchases)
        /\ RealizedByReplay' = sumNext(Inflows') - sumNext(SoldPurchases')
    BY DEF RealizedByReplay, Inflows, SoldPurchases
  <2>3. Cost(s) \in Nat
    BY CostNat
  <2> HIDE DEF sum, sumNext
  <2> QED
    BY <1>6, <1>9, <1>10, <2>1, <2>2, <2>3
<1>12. realizedPnL' = RealizedByReplay'
  BY <1>11 DEF FlowsMatchMemory
<1>13. \A j \in DOMAIN ledger' : ledger'[j].eventType = "OUTFLOW" => ledger'[j].symbol \in Symbols
  BY <1>1 DEF FlowsMatchMemory
<1>14. \A j \in DOMAIN ledger' : ~OpenPurchase(j, s)'
  BY <1>1 DEF OpenPurchase
<1>15. ASSUME NEW t \in Symbols
       PROVE  IF positions'[t].quantity = 0
              THEN \A j \in DOMAIN ledger' : ~OpenPurchase(j, t)'
              ELSE \E k \in DOMAIN ledger' :
                     /\ OpenPurchase(k, t)'
                     /\ FlowAmounts'[k] = Cost(t)'
                     /\ \A j \in DOMAIN ledger' : OpenPurchase(j, t)' => j = k
  <2>1. CASE t = s
    BY <1>14, <2>1
  <2>2. CASE t # s
    BY <2>2, OthersReplayed
  <2> QED
    BY <2>1, <2>2
<1> QED
  BY <1>12, <1>13, <1>15 DEF FlowsMatchMemory

LEMMA LedgerKept ==
  ASSUME ledger' = ledger, closing' = closing, RunEndReconciles
  PROVE  RunEndReconciles'
BY DEF RunEndReconciles, RealizedByReplay, FlowAmounts, Sold, Replay!Closed, Replay!Balance,
       Replay!HoldsNothing, Replay!LatestFlow

\* A run that can still write has not stored RUN_END.
LEMMA NotClosed ==
  ASSUME ReservoirInv, RunEndReconciles, Len(ledger) = sequence, ~started \/ ~ended
  PROVE  ~closing.stored
<1>1. /\ started <=> Replay!Opened
      /\ ended <=> Replay!Closed
  BY MemoryIsReplay
<1>2. Replay!Closed => Replay!Opened
  BY DEF Replay!Closed, Replay!Opened
<1> QED
  BY <1>1, <1>2 DEF RunEndReconciles

LEMMA NothingStoredMoney ==
  ASSUME ReservoirTypeOK, ReservoirTypeOK', MoneyInv, CashConservation',
         UNCHANGED <<realizedPnL, sequence, store>>,
         \A t \in Symbols : /\ positions'[t].quantity = positions[t].quantity
                            /\ positions'[t].entryPrice = positions[t].entryPrice
  PROVE  MoneyInv'
<1>1. RunEndReconciles'
  BY LedgerKept DEF MoneyInv, store
<1>2. ASSUME Len(ledger)' = sequence'
      PROVE  FlowsMatchMemory'
  <2>1. FlowsMatchMemory
    BY <1>2 DEF MoneyInv, store
  <2>2. RealizedByReplay' = RealizedByReplay
    BY DEF RealizedByReplay, FlowAmounts, Sold, store
  <2>3. \A s \in Symbols : Cost(s)' = Cost(s)
    BY DEF Cost
  <2>4. \A i, s : OpenPurchase(i, s)' <=> OpenPurchase(i, s)
    BY DEF OpenPurchase, Sold, store
  <2>5. FlowAmounts' = FlowAmounts /\ ledger' = ledger
    BY DEF FlowAmounts, store
  <2> QED
    BY <2>1, <2>2, <2>3, <2>4, <2>5 DEF FlowsMatchMemory
<1> QED
  BY <1>1, <1>2 DEF MoneyInv

\* A document that is stored but not acknowledged leaves memory one behind, and
\* nothing is said of the flows from then on.
LEMMA UnacknowledgedMoney ==
  ASSUME ReservoirInv, RunEndReconciles, Len(ledger) = sequence, ~started \/ ~ended,
         CashConservation', NEW event \in LedgerDocuments, ledger' = Append(ledger, event),
         closing' = closing, sequence' = sequence
  PROVE  MoneyInv'
<1>1. Len(ledger') = Len(ledger) + 1 /\ Len(ledger) \in Nat
  BY DEF ReservoirInv, ReservoirTypeOK
<1>2. ~closing.stored
  BY NotClosed
<1> QED
  BY <1>1, <1>2 DEF MoneyInv, RunEndReconciles

LEMMA StartMoney ==
  ASSUME ReservoirInv, ReservoirTypeOK', MoneyInv, CashConservation',
         NEW ok \in BOOLEAN, Start(ok)
  PROVE  MoneyInv'
<1> DEFINE event == BaseEvent("RUN_START")
<1>1. /\ Persist(event, ok)
      /\ ~started
      /\ sequence' = IF Acknowledged(ok) THEN sequence + 1 ELSE sequence
      /\ UNCHANGED <<cash, realizedPnL, positions, closing>>
  BY DEF Start
<1>2. /\ event \in LedgerDocuments
      /\ event.eventType = "RUN_START"
      /\ event.symbol = NoSymbol
  BY BaseEventType DEF ReservoirInv, EventTypes, BaseEvent
<1> HIDE DEF event
<1>3. CASE ledger' = ledger /\ ~Acknowledged(ok)
  BY <1>1, <1>3, NothingStoredMoney DEF ReservoirInv, store
<1>4. CASE Len(ledger) = sequence /\ ledger' = Append(ledger, event)
  <2>1. CASE ~Acknowledged(ok)
    BY <1>1, <1>2, <1>4, <2>1, UnacknowledgedMoney DEF MoneyInv
  <2>2. CASE Acknowledged(ok)
    <3>1. FlowsMatchMemory'
      BY <1>1, <1>2, <1>4, MarkerReplayed DEF ReservoirInv, MoneyInv
    <3>2. ~closing'.stored
      BY <1>1, <1>4, NotClosed DEF MoneyInv
    <3> QED
      BY <3>1, <3>2 DEF MoneyInv, RunEndReconciles
  <2> QED
    BY <2>1, <2>2
<1> QED
  BY <1>1, <1>3, <1>4, WriteOutcome

\* What the open positions are worth is what they cost and what they gained.
LEMMA DeployedSplits ==
  ASSUME ReservoirTypeOK
  PROVE  /\ Deployed = Invested + Unrealized
         /\ Invested \in Int /\ Unrealized \in Int
<1> DEFINE costs == [s \in Symbols |-> positions[s].quantity * positions[s].entryPrice]
           values == [s \in Symbols |-> positions[s].quantity * positions[s].markPrice]
           gains == [s \in Symbols |->
                       positions[s].quantity * (positions[s].markPrice - positions[s].entryPrice)]
<1>1. \A s \in Symbols : costs[s] \in Int /\ gains[s] \in Int /\ values[s] = costs[s] + gains[s]
  BY DEF ReservoirTypeOK
<1>2. /\ Invested = SumFunctionOnSet(costs, Symbols)
      /\ Deployed = SumFunctionOnSet(values, Symbols)
      /\ Unrealized = SumFunctionOnSet(gains, Symbols)
  BY DEF Invested, Deployed, Unrealized, SumFunction
<1> HIDE DEF costs, values, gains
<1>3. IsFiniteSet(Symbols)
  BY ReservoirAssumption
<1>4. SumFunctionOnSet(values, Symbols) =
        SumFunctionOnSet(costs, Symbols) + SumFunctionOnSet(gains, Symbols)
  BY <1>1, <1>3, SumAdd DEF AddsUp
<1>5. SumFunctionOnSet(costs, Symbols) \in Int /\ SumFunctionOnSet(gains, Symbols) \in Int
  BY <1>1, <1>3, SumInt
<1> QED
  BY <1>2, <1>4, <1>5

\* The totals taken when RUN_END is stored are those of the documents before it.
LEMMA TotalsReconcile ==
  ASSUME ReservoirInv, CashConservation, FlowsMatchMemory, FlowsMatchMemory',
         Len(ledger) = sequence, realizedPnL' = realizedPnL,
         NEW event \in LedgerDocuments, event.eventSequence = sequence + 1,
         event.eventType = "RUN_END", event.symbol = NoSymbol, event.reservoirAfter = cash,
         ledger' = Append(ledger, event), closing' = Totals
  PROVE  RunEndReconciles'
<1>1. /\ Replay!Closed'
      /\ Replay!Balance' = cash
      /\ \A s \in Symbols : Replay!HoldsNothing(s)' <=> Replay!HoldsNothing(s)
  <2>1. \A s \in Symbols : event.symbol # s
    BY ReservoirAssumption
  <2> QED
    BY <2>1, AppendedDocument
<1>2. closing'.realizedPnL = RealizedByReplay'
  BY DEF Totals, FlowsMatchMemory
<1>3. closing'.totalPnL = closing'.realizedPnL + closing'.unrealizedPnL
  <2>1. cash \in Int /\ realizedPnL \in Int /\ InitialReservoir \in Nat
    BY InitialReservoirNat DEF ReservoirInv, ReservoirTypeOK
  <2>2. /\ Deployed = Invested + Unrealized
        /\ Invested \in Int /\ Unrealized \in Int
    BY DeployedSplits DEF ReservoirInv
  <2>3. cash + Deployed - InitialReservoir = realizedPnL + Unrealized
    BY <2>1, <2>2 DEF CashConservation
  <2> QED
    BY <2>3 DEF Totals
<1>4. \A s \in Symbols : positions[s].quantity # 0 <=> ~Replay!HoldsNothing(s)'
  <2>1. PositionsReplayed
    BY MemoryIsReplay
  <2>2. \A s \in Symbols : positions[s].quantity # 0 => ~Replay!HoldsNothing(s)
    <3>1. \A s, q : Replay!Holds(s, q) /\ q # 0 => ~Replay!HoldsNothing(s)
      BY DEF Replay!Holds, Replay!HoldsNothing
    <3> QED
      BY <2>1, <3>1 DEF PositionsReplayed
  <2> QED
    BY <1>1, <2>1, <2>2 DEF PositionsReplayed
<1>5. closing'.activePositions = Cardinality({s \in Symbols : ~Replay!HoldsNothing(s)'})
  <2>1. {s \in Symbols : positions[s].quantity # 0} = {s \in Symbols : ~Replay!HoldsNothing(s)'}
    BY <1>4
  <2> QED
    BY <2>1 DEF Totals
<1>6. closing'.reservoirCash = Replay!Balance'
  BY <1>1 DEF Totals
<1> QED
  BY <1>1, <1>2, <1>3, <1>5, <1>6 DEF RunEndReconciles

LEMMA EndMoney ==
  ASSUME ReservoirInv, ReservoirTypeOK', MoneyInv, CashConservation',
         NEW ok \in BOOLEAN, End(ok)
  PROVE  MoneyInv'
<1> DEFINE event == BaseEvent("RUN_END")
<1>1. /\ event \in LedgerDocuments
      /\ event.eventType = "RUN_END"
      /\ event.eventSequence = sequence + 1
      /\ event.symbol = NoSymbol
      /\ event.reservoirAfter = cash
  BY BaseEventType DEF ReservoirInv, EventTypes, BaseEvent
<1>2. CASE UNCHANGED reservoirVars
  BY <1>2, NothingStoredMoney DEF ReservoirInv, reservoirVars, store
<1>3. CASE /\ started /\ ~ended
           /\ Persist(event, ok)
           /\ closing' = IF ledger' = ledger THEN closing ELSE Totals
           /\ sequence' = IF Acknowledged(ok) THEN sequence + 1 ELSE sequence
           /\ UNCHANGED <<cash, realizedPnL, started, positions>>
  <2> HIDE DEF event
  <2>1. CASE ledger' = ledger /\ ~Acknowledged(ok)
    BY <1>3, <2>1, NothingStoredMoney DEF ReservoirInv, store
  <2>2. CASE Len(ledger) = sequence /\ ledger' = Append(ledger, event)
    <3>1. FlowsMatchMemory
      BY <2>2 DEF MoneyInv
    <3>2. FlowsMatchMemory'
      BY <1>1, <1>3, <2>2, <3>1, MarkerReplayed DEF ReservoirInv
    <3>3. ledger' # ledger
      BY <2>2 DEF ReservoirInv, ReservoirTypeOK
    <3>4. RunEndReconciles'
      BY <1>1, <1>3, <2>2, <3>1, <3>2, <3>3, TotalsReconcile DEF MoneyInv
    <3> QED
      BY <3>2, <3>4 DEF MoneyInv
  <2> QED
    BY <1>3, <2>1, <2>2, WriteOutcome
<1> QED
  BY <1>2, <1>3 DEF End

\* A recorded fill: memory and the replayed flows move together.
LEMMA RecordExecutionMoney ==
  ASSUME ReservoirInv, ReservoirTypeOK', MoneyInv, CashConservation',
         NEW s \in Symbols, NEW action \in Actions, NEW quantity \in Nat, NEW price \in Nat,
         NEW cause \in Causes, NEW ok \in BOOLEAN,
         positions[s].quantity = IF action = "ALLOCATE" THEN 0 ELSE quantity,
         RecordExecution(s, action, quantity, price, cause, ok)
  PROVE  MoneyInv'
<1> DEFINE event == FlowEvent(s, action, quantity, price, cause)
           amount == quantity * price
<1>1. CASE UNCHANGED reservoirVars
  BY <1>1, NothingStoredMoney DEF ReservoirInv, reservoirVars, store
<1>2. CASE /\ Recordable(action, quantity, price, cause)
           /\ Persist(event, ok)
           /\ IF Acknowledged(ok) THEN ApplyFlow(s, action, quantity, price, event)
                                  ELSE UNCHANGED <<cash, sequence, positions, realizedPnL>>
           /\ UNCHANGED <<started, ended, closing>>
  <2>1. event \in LedgerDocuments
    BY <1>2, FlowEventType DEF ReservoirInv
  <2>2. /\ event.eventType = IF action = "ALLOCATE" THEN "OUTFLOW" ELSE "INFLOW"
        /\ event.symbol = s
        /\ event.quantity = quantity /\ event.executionPrice = price
    BY FlowEventFields
  <2>3. ~ended /\ quantity # 0
    BY <1>2 DEF Recordable
  <2> HIDE DEF event
  <2>4. CASE ledger' = ledger /\ ~Acknowledged(ok)
    BY <1>2, <2>4, NothingStoredMoney DEF ReservoirInv, store
  <2>5. CASE Len(ledger) = sequence /\ ledger' = Append(ledger, event) /\ ~Acknowledged(ok)
    BY <1>2, <2>1, <2>3, <2>5, UnacknowledgedMoney DEF MoneyInv
  <2>6. CASE Len(ledger) = sequence /\ ledger' = Append(ledger, event) /\ Acknowledged(ok)
    <3>1. ApplyFlow(s, action, quantity, price, event)
      BY <1>2, <2>6
    <3>2. \A t \in Symbols : t # s => positions'[t] = positions[t]
      BY <3>1 DEF ApplyFlow, ReservoirInv, ReservoirTypeOK
    <3>3. FlowsMatchMemory
      BY <2>6 DEF MoneyInv
    <3>4. ~closing'.stored
      BY <1>2, <2>3, <2>6, NotClosed DEF MoneyInv
    <3>5. CASE action = "ALLOCATE"
      <4>1. positions'[s] = [quantity |-> quantity, entryPrice |-> price, markPrice |-> price]
        BY <3>1, <3>5 DEF ApplyFlow, ReservoirInv, ReservoirTypeOK
      <4>2. /\ Cost(s)' = event.quantity * event.executionPrice
            /\ positions'[s].quantity # 0
        BY <2>2, <2>3, <4>1 DEF Cost
      <4>3. realizedPnL' = realizedPnL /\ positions[s].quantity = 0
        BY <3>1, <3>5 DEF ApplyFlow
      <4>4. event.eventType = "OUTFLOW"
        BY <2>2, <3>5
      <4> QED
        BY <2>1, <2>2, <2>6, <3>2, <3>3, <3>4, <4>2, <4>3, <4>4, PurchaseReplayed
           DEF MoneyInv, RunEndReconciles, ReservoirInv
    <3>6. CASE action # "ALLOCATE"
      <4>1. positions'[s] = NoPosition
        BY <3>1, <3>6 DEF ApplyFlow, ReservoirInv, ReservoirTypeOK
      <4>2. positions'[s].quantity = 0 /\ positions[s].quantity # 0
        BY <2>3, <3>6, <4>1 DEF NoPosition
      <4>3. realizedPnL' = realizedPnL + quantity * (price - positions[s].entryPrice)
        BY <3>1, <3>6 DEF ApplyFlow
      <4>4. quantity * (price - positions[s].entryPrice) = amount - Cost(s)
        BY <3>6 DEF Cost, ReservoirInv, ReservoirTypeOK
      <4>5. amount \in Nat /\ amount = event.quantity * event.executionPrice
        BY <2>2, NaturalProduct
      <4>6. realizedPnL' = realizedPnL + (amount - Cost(s))
        BY <4>3, <4>4
      <4>7. event.eventType = "INFLOW"
        BY <2>2, <3>6
      <4> HIDE DEF amount
      <4>8. FlowsMatchMemory'
        BY <2>1, <2>2, <2>6, <3>2, <3>3, <4>2, <4>5, <4>6, <4>7, SaleReplayed DEF ReservoirInv
      <4> QED
        BY <3>4, <4>8 DEF MoneyInv, RunEndReconciles
    <3> QED
      BY <3>5, <3>6
  <2> QED
    BY <1>2, <2>4, <2>5, <2>6, WriteOutcome
<1> QED
  BY <1>1, <1>2 DEF RecordExecution

LEMMA StepMoney ==
  ASSUME ReservoirInv, MoneyInv, ReservoirStep
  PROVE  MoneyInv'
<1>1. ReservoirTypeOK /\ ReservoirTypeOK' /\ CashConservation'
  BY StepType, StepConserves DEF ReservoirInv, MoneyInv
<1>2. CASE \E ok \in BOOLEAN : Start(ok)
  BY <1>1, <1>2, StartMoney
<1>3. CASE \E s \in Symbols, q \in Quantities, p \in Prices, ok \in BOOLEAN : Allocation(s, q, p, ok)
  <2>1. PICK s \in Symbols, q \in Quantities, p \in Prices, ok \in BOOLEAN :
          positions[s].quantity = 0 /\ RecordExecution(s, "ALLOCATE", q, p, "HOP_ON", ok)
    BY <1>3 DEF Allocation
  <2>2. /\ q \in Nat /\ p \in Nat
        /\ "ALLOCATE" \in Actions /\ "HOP_ON" \in Causes
    BY ReservoirAssumption DEF Actions, Causes
  <2> QED
    BY <1>1, <2>1, <2>2, RecordExecutionMoney
<1>4. CASE \E s \in Symbols, p \in Prices, c \in Causes, ok \in BOOLEAN : Liquidation(s, p, c, ok)
  <2>1. PICK s \in Symbols, p \in Prices, c \in Causes, ok \in BOOLEAN : Liquidation(s, p, c, ok)
    BY <1>4
  <2>2. PICK q \in Nat : q = positions[s].quantity
    BY <1>1 DEF ReservoirTypeOK
  <2>3. p \in Nat /\ "LIQUIDATE" \in Actions
    BY ReservoirAssumption DEF Actions
  <2>4. RecordExecution(s, "LIQUIDATE", q, p, c, ok)
    BY <2>1, <2>2 DEF Liquidation
  <2> QED
    BY <1>1, <2>2, <2>3, <2>4, RecordExecutionMoney
<1>5. CASE \E s \in Symbols, p \in Prices : Mark(s, p)
  <2>1. PICK s \in Symbols, p \in Prices : Mark(s, p)
    BY <1>5
  <2>2. /\ UNCHANGED <<realizedPnL, sequence, store>>
        /\ \A t \in Symbols : /\ positions'[t].quantity = positions[t].quantity
                              /\ positions'[t].entryPrice = positions[t].entryPrice
    BY <1>1, <2>1 DEF Mark, ReservoirTypeOK
  <2> QED
    BY <1>1, <2>2, NothingStoredMoney
<1>6. CASE \E ok \in BOOLEAN : End(ok)
  BY <1>1, <1>6, EndMoney
<1> QED
  BY <1>2, <1>3, <1>4, <1>5, <1>6 DEF ReservoirStep

LEMMA InitMoney == ReservoirInit => MoneyInv
<1> SUFFICES ASSUME ReservoirInit PROVE MoneyInv
  OBVIOUS
<1>1. DOMAIN ledger = {}
  BY DEF ReservoirInit
<1>2. RealizedByReplay = 0
  <2>1. Inflows = {} /\ SoldPurchases = {}
    BY <1>1 DEF Inflows, SoldPurchases
  <2>2. SumFunctionOnSet(FlowAmounts, {}) = 0
    BY SumOfZeros, FS_EmptySet
  <2> QED
    BY <2>1, <2>2 DEF RealizedByReplay, Inflows, SoldPurchases
<1>3. FlowsMatchMemory
  BY <1>1, <1>2 DEF ReservoirInit, NoPosition, FlowsMatchMemory
<1>4. RunEndReconciles
  BY DEF ReservoirInit, NoClosing, RunEndReconciles
<1> QED
  BY <1>3, <1>4, InitConserves DEF MoneyInv

LEMMA StutterMoney ==
  ASSUME ReservoirInv, MoneyInv, UNCHANGED reservoirVars
  PROVE  MoneyInv'
<1>1. ReservoirTypeOK /\ ReservoirTypeOK'
  BY StutterInv DEF ReservoirInv
<1>2. CashConservation'
  BY <1>1, NothingMoved DEF MoneyInv, reservoirVars
<1> QED
  BY <1>1, <1>2, NothingStoredMoney DEF reservoirVars, store

LEMMA MoneyInvariant == ReservoirSpec => []MoneyInv
<1>1. ReservoirInv /\ MoneyInv /\ [ReservoirNext]_reservoirVars => MoneyInv'
  <2> SUFFICES ASSUME ReservoirInv, MoneyInv, [ReservoirNext]_reservoirVars
               PROVE  MoneyInv'
    OBVIOUS
  <2> QED
    BY StepMoney, StutterMoney DEF ReservoirNext
<1> QED
  BY InitMoney, <1>1, ReservoirInvariant, PTL DEF ReservoirSpec

\* No money is made or lost by bookkeeping: for any number of symbols and any
\* order of purchases, sales, marks and failed writes, cash and what the open
\* positions cost are the initial reservoir and the realised profit
\* (RecordExecution, capital_reservoir.go:130-201).
THEOREM CashIsConserved == ReservoirSpec => []CashConservation
BY MoneyInvariant, PTL DEF MoneyInv

\* Whoever replays the stored documents of a run that has ended computes the
\* cash, the realised profit and the number of positions its RUN_END document
\* states, and the profit it states splits into realised and unrealised, also
\* when the RUN_END was stored without being acknowledged (End,
\* capital_reservoir.go:214-242).
THEOREM RunEndAlwaysReconciles == ReservoirSpec => []RunEndReconciles
BY MoneyInvariant, PTL DEF MoneyInv

-----------------------------------------------------------------------------
\* Refinement: what a step does to the ledger, the replay ledger allows.

LEMMA StartRefines ==
  ASSUME ReservoirInv, NEW ok \in BOOLEAN, Start(ok)
  PROVE  [Replay!Next]_ledger
<1>1. Persist(BaseEvent("RUN_START"), ok)
  BY DEF Start
<1>2. CASE Len(ledger) = sequence /\ ledger' = Append(ledger, BaseEvent("RUN_START"))
  <2>1. ~Replay!Opened /\ cash = Replay!Balance
    BY <1>2, MemoryIsReplay DEF Start
  <2>2. ledger = <<>>
    BY <2>1 DEF Replay!Opened
  <2>3. ledger' = <<BaseEvent("RUN_START")>>
    BY <1>2, <2>2
  <2>4. BaseEvent("RUN_START") = Replay!Document("RUN_START", NoSymbol, NoCause, 0, 0, cash, 0)
    BY <1>2, <2>1 DEF BaseEvent, Replay!Document
  <2>5. Replay!RunStart
    BY <2>1, <2>3, <2>4 DEF Replay!RunStart, NoCause, Replay!NoCause
  <2> QED
    BY <2>5 DEF Replay!Next
<1> QED
  BY <1>1, <1>2, WriteOutcome

LEMMA EndRefines ==
  ASSUME ReservoirInv, NEW ok \in BOOLEAN, End(ok)
  PROVE  [Replay!Next]_ledger
<1>1. CASE UNCHANGED reservoirVars
  BY <1>1 DEF reservoirVars
<1>2. CASE started /\ ~ended /\ Persist(BaseEvent("RUN_END"), ok)
  <2>1. CASE Len(ledger) = sequence /\ ledger' = Append(ledger, BaseEvent("RUN_END"))
    <3>1. Replay!Opened /\ ~Replay!Closed /\ cash = Replay!Balance
      BY <1>2, <2>1, MemoryIsReplay
    <3>2. BaseEvent("RUN_END") = Replay!Document("RUN_END", NoSymbol, NoCause, 0, 0, cash, 0)
      BY <2>1, <3>1 DEF BaseEvent, Replay!Document
    <3>3. Replay!RunEnd
      BY <2>1, <3>1, <3>2 DEF Replay!RunEnd, NoCause, Replay!NoCause
    <3> QED
      BY <3>3 DEF Replay!Next
  <2> QED
    BY <1>2, <2>1, WriteOutcome
<1> QED
  BY <1>1, <1>2 DEF End

LEMMA AllocationRefines ==
  ASSUME ReservoirInv, NEW s \in Symbols, NEW q \in Quantities, NEW p \in Prices,
         NEW ok \in BOOLEAN, Allocation(s, q, p, ok)
  PROVE  [Replay!Next]_ledger
<1> DEFINE event == FlowEvent(s, "ALLOCATE", q, p, "HOP_ON")
<1>1. CASE UNCHANGED reservoirVars
  BY <1>1 DEF reservoirVars
<1>2. CASE Recordable("ALLOCATE", q, p, "HOP_ON") /\ Persist(event, ok)
  <2>1. CASE Len(ledger) = sequence /\ ledger' = Append(ledger, event)
    <3>1. Replay!Opened /\ ~Replay!Closed /\ cash = Replay!Balance
      BY <1>2, <2>1, MemoryIsReplay DEF Recordable
    <3>2. Replay!HoldsNothing(s)
      BY <2>1, MemoryIsReplay DEF PositionsReplayed, Allocation
    <3>3. /\ q \in Quantities \ {0} /\ p \in Prices \ {0}
          /\ q * p <= cash
      BY <1>2 DEF Recordable
    <3>4. "ALLOCATE" \in Actions
      BY DEF Actions
    <3>5. event = Replay!Document("OUTFLOW", s, "HOP_ON", q, p, cash - q * p, q)
      BY <2>1, <3>1, <3>4, FlowEventFields DEF Replay!Document
    <3> HIDE DEF event
    <3>6. Replay!Outflow(s, q, p)
      BY <2>1, <3>1, <3>2, <3>3, <3>5 DEF Replay!Outflow
    <3> QED
      BY <3>3, <3>6 DEF Replay!Next
  <2> QED
    BY <1>2, <2>1, WriteOutcome
<1> QED
  BY <1>1, <1>2 DEF Allocation, RecordExecution

LEMMA LiquidationRefines ==
  ASSUME ReservoirInv, NEW s \in Symbols, NEW p \in Prices, NEW c \in Causes,
         NEW ok \in BOOLEAN, Liquidation(s, p, c, ok)
  PROVE  [Replay!Next]_ledger
<1> DEFINE q == positions[s].quantity
           event == FlowEvent(s, "LIQUIDATE", q, p, c)
<1>1. CASE UNCHANGED reservoirVars
  BY <1>1 DEF reservoirVars
<1>2. CASE Recordable("LIQUIDATE", q, p, c) /\ Persist(event, ok)
  <2>1. CASE Len(ledger) = sequence /\ ledger' = Append(ledger, event)
    <3>1. Replay!Opened /\ ~Replay!Closed /\ cash = Replay!Balance
      BY <1>2, <2>1, MemoryIsReplay DEF Recordable
    <3>2. Replay!Holds(s, q)
      BY <2>1, MemoryIsReplay DEF PositionsReplayed, Liquidation
    <3>3. /\ q \in Quantities \ {0} /\ p \in Prices \ {0}
          /\ c \in Causes \ {"HOP_ON"}
      BY <1>2, HeldQuantity DEF Recordable, Liquidation
    <3>4. "LIQUIDATE" \in Actions
      BY DEF Actions
    <3>5. event = Replay!Document("INFLOW", s, c, q, p, cash + q * p, 0)
      BY <2>1, <3>1, <3>4, FlowEventFields DEF Replay!Document
    <3> HIDE DEF event, q
    <3>6. Replay!Inflow(s, q, p, c)
      BY <2>1, <3>1, <3>2, <3>3, <3>5 DEF Replay!Inflow, Causes, Replay!Causes
    <3> QED
      BY <3>3, <3>6 DEF Replay!Next, Causes, Replay!Causes
  <2> QED
    BY <1>2, <2>1, WriteOutcome
<1> QED
  BY <1>1, <1>2 DEF Liquidation, RecordExecution

LEMMA StepRefines ==
  ASSUME ReservoirInv, ReservoirStep
  PROVE  [Replay!Next]_ledger
<1>1. CASE \E ok \in BOOLEAN : Start(ok)
  BY <1>1, StartRefines
<1>2. CASE \E s \in Symbols, q \in Quantities, p \in Prices, ok \in BOOLEAN : Allocation(s, q, p, ok)
  BY <1>2, AllocationRefines
<1>3. CASE \E s \in Symbols, p \in Prices, c \in Causes, ok \in BOOLEAN : Liquidation(s, p, c, ok)
  BY <1>3, LiquidationRefines
<1>4. CASE \E s \in Symbols, p \in Prices : Mark(s, p)
  BY <1>4 DEF Mark, store
<1>5. CASE \E ok \in BOOLEAN : End(ok)
  BY <1>5, EndRefines
<1> QED
  BY <1>1, <1>2, <1>3, <1>4, <1>5 DEF ReservoirStep

LEMMA InitRefines == ReservoirInit => Replay!Init
BY DEF ReservoirInit, Replay!Init

\* The reservoir implements the replay ledger: every run's stored documents are
\* RUN_START, flows that chain and alternate in full, and at most one RUN_END at
\* the end, whatever writes fail or lose their acknowledgement.
THEOREM ReservoirImplementsLedger == ReservoirSpec => LedgerSpec
<1>1. ReservoirInv /\ [ReservoirNext]_reservoirVars => [Replay!Next]_ledger
  BY StepRefines DEF ReservoirNext, reservoirVars
<1> QED
  BY InitRefines, <1>1, ReservoirInvariant, PTL DEF ReservoirSpec, LedgerSpec, Replay!Spec
=============================================================================
