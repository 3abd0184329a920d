--------------------------- MODULE ModelHostProofs ---------------------------
(***************************************************************************)
(* Theorems about the way of a bar through ingestion and model host.  Two  *)
(* invariants carry them.  PathInv: the minutes in queue, inbox, hand and  *)
(* commits ascend from one end of the path to the other, and a minute that *)
(* was lost lies ahead of all that can still be committed.  OfferInv: what *)
(* the window holds from the live source has been offered to the path, or  *)
(* is about to be.                                                         *)
(***************************************************************************)
EXTENDS ModelHost, TLAPS

LiveBars == {b \in Bar : ~b.backfilled}
FilledBars == {b \in Bar : b.backfilled}

FeedTypeInv ==
  /\ incoming \in Seq(LiveBars)
  /\ runAt = "fanout" => runBar[1] \in LiveBars
  /\ fetched \in [Fillers -> Seq(FilledBars)]
  /\ window \in [Minutes -> Bar \union {NoBar}]
  /\ modelLast \in Nat /\ modelDisc \in BOOLEAN

HostTypeInv ==
  /\ {modelQueue, inbox, volumeCommits, jointCommits} \subseteq Seq(Nat)
  /\ inHand \in Nat /\ lost \subseteq Nat /\ disc \in BOOLEAN
  /\ workerAt \in {"idle", "volume", "step"}

\* The minutes that wait for the worker.
Waiting == ToSet(inbox) \union ToSet(modelQueue)
Commits == ToSet(volumeCommits) \union ToSet(jointCommits)

PathAscends ==
  /\ Ascending(modelQueue) /\ Ascending(inbox) /\ Ascending(volumeCommits)
  /\ \A i \in ToSet(inbox) : \A q \in ToSet(modelQueue) : i < q
  /\ \A n \in Waiting : n <= modelLast
  /\ workerAt # "idle" => inHand <= modelLast /\ \A n \in Waiting : inHand < n
  /\ \A c \in Commits :
       /\ c <= modelLast
       /\ workerAt = "volume" => c < inHand
       /\ \A n \in Waiting : c < n

LossIsAhead ==
  \A l \in lost :
    /\ \A n \in ToSet(inbox) \union Commits : n < l
    /\ workerAt # "idle" => inHand < l
    /\ disc \/ (modelDisc /\ \A q \in ToSet(modelQueue) : q < l)

PathInv == FeedTypeInv /\ HostTypeInv /\ PathAscends /\ LossIsAhead

-----------------------------------------------------------------------------
(* Sequences of minutes.                                                   *)

LEMMA AppendedMinute ==
  ASSUME NEW s \in Seq(Nat), NEW m \in Nat
  PROVE  /\ Append(s, m) \in Seq(Nat) /\ ToSet(Append(s, m)) = ToSet(s) \union {m}
         /\ Ascending(s) /\ (\A n \in ToSet(s) : n < m) => Ascending(Append(s, m))
<1> DEFINE t == Append(s, m)
<1>1. /\ t \in Seq(Nat) /\ Len(s) \in Nat /\ Len(t) = Len(s) + 1
      /\ t[Len(s) + 1] = m /\ \A i \in 1..Len(s) : t[i] = s[i]
  OBVIOUS
<1> HIDE DEF t
<1>2. \A i \in 1..Len(t) : i \in 1..Len(s) \/ i = Len(s) + 1
  BY <1>1
<1>3. \A i \in 1..(Len(s) + 1) : i \in 1..Len(t)
  BY <1>1
<1>4. DOMAIN s = 1..Len(s) /\ DOMAIN t = 1..Len(t)
  BY <1>1
<1>5. ToSet(t) = ToSet(s) \union {m}
  <2>1. ASSUME NEW x \in ToSet(t) PROVE x \in ToSet(s) \union {m}
    BY <1>1, <1>2, <1>4 DEF ToSet
  <2>2. ASSUME NEW x \in ToSet(s) PROVE x \in ToSet(t)
    BY <1>1, <1>3, <1>4 DEF ToSet
  <2>3. m \in ToSet(t)
    BY <1>1, <1>3, <1>4 DEF ToSet
  <2> QED BY <2>1, <2>2, <2>3
<1>6. ASSUME Ascending(s), \A n \in ToSet(s) : n < m PROVE Ascending(t)
  <2> SUFFICES ASSUME NEW i \in 1..Len(t), NEW j \in 1..Len(t), i < j PROVE t[i] < t[j]
    BY DEF Ascending
  <2>1. i \in 1..Len(s)
    BY <1>1
  <2>2. CASE j \in 1..Len(s)
    BY <1>1, <1>6, <2>1, <2>2 DEF Ascending
  <2>3. CASE j = Len(s) + 1
    BY <1>1, <1>4, <1>6, <2>1, <2>3 DEF ToSet
  <2> QED BY <1>2, <2>2, <2>3
<1> QED BY <1>1, <1>5, <1>6 DEF t

LEMMA TakenMinute ==
  ASSUME NEW s \in Seq(Nat), s # <<>>
  PROVE  /\ Tail(s) \in Seq(Nat) /\ Head(s) \in Nat /\ Head(s) \in ToSet(s)
         /\ ToSet(Tail(s)) \subseteq ToSet(s)
         /\ Ascending(s) => Ascending(Tail(s)) /\ \A n \in ToSet(Tail(s)) : Head(s) < n
<1> DEFINE t == Tail(s)
<1>1. /\ t \in Seq(Nat) /\ Len(s) \in Nat /\ Len(s) >= 1 /\ Len(t) = Len(s) - 1
      /\ Head(s) = s[1] /\ \A i \in 1..Len(t) : t[i] = s[i + 1]
      /\ Head(s) \in Nat
  OBVIOUS
<1> HIDE DEF t
<1>2. DOMAIN s = 1..Len(s) /\ DOMAIN t = 1..Len(t)
  BY <1>1
<1>3. \A i \in 1..Len(t) : i + 1 \in 1..Len(s) /\ 1 < i + 1
  BY <1>1
<1>4. 1 \in 1..Len(s) /\ Head(s) \in ToSet(s)
  BY <1>1, <1>2 DEF ToSet
<1>5. ToSet(t) \subseteq ToSet(s)
  <2> SUFFICES ASSUME NEW i \in 1..Len(t) PROVE t[i] \in ToSet(s)
    BY <1>2 DEF ToSet
  <2>1. t[i] = s[i + 1] /\ i + 1 \in DOMAIN s
    BY <1>1, <1>2, <1>3
  <2> QED BY <2>1 DEF ToSet
<1>6. ASSUME Ascending(s) PROVE Ascending(t) /\ \A n \in ToSet(t) : Head(s) < n
  <2>1. ASSUME NEW i \in 1..Len(t), NEW j \in 1..Len(t), i < j PROVE t[i] < t[j]
    <3>1. i + 1 \in 1..Len(s) /\ j + 1 \in 1..Len(s) /\ i + 1 < j + 1
      BY <1>1, <2>1
    <3> QED BY <1>1, <1>6, <3>1 DEF Ascending
  <2>2. ASSUME NEW n \in ToSet(t) PROVE Head(s) < n
    BY <1>1, <1>2, <1>3, <1>4, <1>6 DEF ToSet, Ascending
  <2> QED BY <2>1, <2>2 DEF Ascending
<1> QED BY <1>1, <1>4, <1>5, <1>6 DEF t

-----------------------------------------------------------------------------
(* The pipeline's side.                                                    *)

LEMMA ModelInitTypes == ModelInit => FeedTypeInv /\ HostTypeInv
<1> SUFFICES ASSUME ModelInit PROVE FeedTypeInv /\ HostTypeInv
  OBVIOUS
<1>1. incoming \in Seq(LiveBars) /\ fetched \in [Fillers -> Seq(FilledBars)]
  BY DEF ModelInit, FeedInit
<1>2. FeedTypeInv
  BY <1>1 DEF ModelInit, FeedInit, FeedTypeInv
<1>3. /\ modelQueue = <<>> /\ inbox = <<>> /\ volumeCommits = <<>> /\ jointCommits = <<>>
      /\ inHand = 0 /\ lost = {} /\ disc = FALSE /\ workerAt = "idle"
  BY DEF ModelInit, FeedInit, HostInit
<1>4. HostTypeInv
  <2>1. {modelQueue, inbox, volumeCommits, jointCommits} \subseteq Seq(Nat)
    BY <1>3
  <2> QED BY <1>3, <2>1 DEF HostTypeInv
<1> QED BY <1>2, <1>4

LEMMA LiveBarTypes ==
  ASSUME FeedTypeInv, NEW m \in Minutes, LiveBar(m)
  PROVE  FeedTypeInv'
<1>1. PICK reading \in Readings :
        incoming' = Append(incoming, [minute |-> m, reading |-> reading, backfilled |-> FALSE])
  BY DEF LiveBar
<1>2. [minute |-> m, reading |-> reading, backfilled |-> FALSE] \in LiveBars
  BY DEF LiveBars, Bar
<1>3. incoming' \in Seq(LiveBars)
  BY <1>1, <1>2 DEF FeedTypeInv
<1> QED BY <1>3 DEF FeedTypeInv, LiveBar, fillVars, pathVars

LEMMA RunAcceptsTypes ==
  ASSUME FeedTypeInv, RunAccepts
  PROVE  FeedTypeInv'
<1>1. Head(incoming) \in LiveBars /\ incoming' \in Seq(LiveBars)
  BY DEF FeedTypeInv, RunAccepts
<1>2. Head(incoming) \in Bar /\ Head(incoming).minute \in Minutes
  BY <1>1 DEF LiveBars, Bar
<1>3. window' \in [Minutes -> Bar \union {NoBar}]
  BY <1>2 DEF FeedTypeInv, RunAccepts
<1>4. runAt' = "fanout" => runBar'[1] \in LiveBars
  BY <1>1 DEF FeedTypeInv, RunAccepts
<1> QED BY <1>1, <1>3, <1>4 DEF FeedTypeInv, RunAccepts, fillVars, pathVars

\* What fanoutModel does to the path: nothing, the bar is appended, or it is
\* lost and the path marked.
LEMMA FanoutModelCases ==
  ASSUME FeedTypeInv, HostTypeInv, NEW bar \in Bar, FanoutModel(bar)
  PROVE  \/ UNCHANGED <<modelQueue, modelLast, modelDisc, delivered, lost>>
         \/ /\ ~modelDisc /\ modelLast < bar.minute
            /\ modelQueue' = Append(modelQueue, bar.minute)
            /\ modelLast' = bar.minute /\ delivered' = delivered \union {bar.minute}
            /\ UNCHANGED <<modelDisc, lost>>
         \/ /\ modelLast < bar.minute
            /\ modelDisc' = TRUE /\ lost' = lost \union {bar.minute}
            /\ UNCHANGED <<modelQueue, modelLast, delivered>>
<1>1. bar.minute \in Nat /\ modelLast \in Nat
  BY FeedAssumption DEF Bar, Minutes, FeedTypeInv
<1> QED BY <1>1 DEF FanoutModel

LEMMA RunFansOutTypes ==
  ASSUME FeedTypeInv, HostTypeInv, RunFansOut
  PROVE  FeedTypeInv' /\ runBar[1] \in LiveBars /\ runBar[1] \in Bar /\ runBar[1].minute \in Nat
<1>1. runBar[1] \in LiveBars /\ runBar[1] \in Bar /\ runBar[1].minute \in Nat
  BY FeedAssumption DEF FeedTypeInv, RunFansOut, LiveBars, Bar, Minutes
<1>2. FanoutModel(runBar[1])
  BY DEF RunFansOut
<1>3. modelLast' \in Nat /\ modelDisc' \in BOOLEAN
  BY <1>1, <1>2, FanoutModelCases DEF FeedTypeInv
<1> QED BY <1>1, <1>3 DEF FeedTypeInv, RunFansOut, fillVars

LEMMA FillTypes ==
  ASSUME FeedTypeInv, NEW f \in Fillers, Fills(f)
  PROVE  FeedTypeInv'
<1>1. CASE MarksRecovering(f) \/ FetchFails(f) \/ MarksHealthy(f)
  BY <1>1 DEF FeedTypeInv, MarksRecovering, FetchFails, MarksHealthy, runVars, pathVars
<1>2. CASE Fetches(f)
  <2>1. PICK from \in Minutes, reading \in Readings : \E to \in (from - 1)..LastMinute :
          fetched' = [fetched EXCEPT ![f] =
            [i \in 1..(to - from + 1) |->
               [minute |-> from + i - 1, reading |-> reading, backfilled |-> TRUE]]]
    BY <1>2 DEF Fetches
  <2>2. PICK to \in (from - 1)..LastMinute :
          fetched' = [fetched EXCEPT ![f] =
            [i \in 1..(to - from + 1) |->
               [minute |-> from + i - 1, reading |-> reading, backfilled |-> TRUE]]]
    BY <2>1
  <2>3. from \in Nat /\ from >= 1 /\ LastMinute \in Nat /\ to \in Int
        /\ from - 1 <= to /\ to <= LastMinute
    BY FeedAssumption DEF Minutes
  <2>4. to - from + 1 \in Nat
    BY <2>3
  <2>5. ASSUME NEW i \in 1..(to - from + 1)
        PROVE  [minute |-> from + i - 1, reading |-> reading, backfilled |-> TRUE] \in FilledBars
    <3>1. from + i - 1 \in Minutes
      BY <2>3 DEF Minutes
    <3> QED BY <3>1 DEF FilledBars, Bar
  <2>6. [i \in 1..(to - from + 1) |->
           [minute |-> from + i - 1, reading |-> reading, backfilled |-> TRUE]] \in Seq(FilledBars)
    BY <2>4, <2>5
  <2>7. fetched' \in [Fillers -> Seq(FilledBars)]
    BY <2>2, <2>6 DEF FeedTypeInv
  <2> QED BY <1>2, <2>7 DEF FeedTypeInv, Fetches, runVars, pathVars
<1>3. CASE AddsFetched(f)
  <2>1. Head(fetched[f]) \in FilledBars /\ Tail(fetched[f]) \in Seq(FilledBars)
    BY <1>3 DEF FeedTypeInv, AddsFetched
  <2>2. Head(fetched[f]) \in Bar /\ Head(fetched[f]).minute \in Minutes
    BY <2>1 DEF FilledBars, Bar
  <2>3. fetched' \in [Fillers -> Seq(FilledBars)] /\ window' \in [Minutes -> Bar \union {NoBar}]
    BY <1>3, <2>1, <2>2 DEF FeedTypeInv, AddsFetched
  <2> QED BY <1>3, <2>3 DEF FeedTypeInv, AddsFetched, runVars, pathVars
<1> QED BY <1>1, <1>2, <1>3 DEF Fills

\* Every step keeps the types of the pipeline's side.
LEMMA FeedTypesStep ==
  ASSUME FeedTypeInv, HostTypeInv, FeedNext
  PROVE  FeedTypeInv'
<1>1. CASE HealthChanges \/ Reports \/ RunObserves \/ RunTicks
  BY <1>1 DEF FeedTypeInv, HealthChanges, Reports, RunObserves, RunTicks, runVars, fillVars, pathVars
<1>2. ASSUME NEW f \in Fillers, TriggerGapFill(f) PROVE FeedTypeInv'
  BY <1>2 DEF FeedTypeInv, TriggerGapFill, runVars, pathVars
<1> QED
  BY <1>1, <1>2, LiveBarTypes, RunAcceptsTypes, RunFansOutTypes, FillTypes
     DEF FeedNext, RunGoroutine

\* Only fanoutModel touches the path's queue from this side.
LEMMA FeedStepPath ==
  ASSUME FeedNext
  PROVE  UNCHANGED <<pathVars, lost>> \/ RunFansOut
<1>1. ASSUME NEW f \in Fillers, TriggerGapFill(f) \/ Fills(f) PROVE UNCHANGED <<pathVars, lost>>
  BY <1>1 DEF TriggerGapFill, Fills, MarksRecovering, FetchFails, Fetches, AddsFetched,
     MarksHealthy
<1>2. ASSUME NEW m \in Minutes, LiveBar(m) PROVE UNCHANGED <<pathVars, lost>>
  BY <1>2 DEF LiveBar
<1>3. CASE HealthChanges \/ Reports \/ RunAccepts \/ RunObserves \/ RunTicks
  BY <1>3 DEF HealthChanges, Reports, RunAccepts, RunObserves, RunTicks
<1> QED BY <1>1, <1>2, <1>3 DEF FeedNext, RunGoroutine

-----------------------------------------------------------------------------
(* The invariant of the path.                                              *)

LEMMA PathQuiet ==
  ASSUME PathInv, FeedTypeInv', UNCHANGED <<modelQueue, modelLast, modelDisc, lost, hostVars>>
  PROVE  PathInv'
BY DEF PathInv, HostTypeInv, PathAscends, LossIsAhead, Waiting, Commits, hostVars, engineVars

LEMMA FanoutPath ==
  ASSUME PathInv, RunFansOut, UNCHANGED hostVars
  PROVE  PathInv'
<1> DEFINE m == runBar[1].minute
<1>1. FeedTypeInv' /\ runBar[1] \in Bar /\ m \in Nat /\ modelLast \in Nat
      /\ FanoutModel(runBar[1]) /\ modelQueue \in Seq(Nat)
  BY RunFansOutTypes DEF PathInv, FeedTypeInv, HostTypeInv, RunFansOut
<1>2. CASE UNCHANGED <<modelQueue, modelLast, modelDisc, delivered, lost>>
  BY <1>1, <1>2, PathQuiet DEF RunFansOut
<1>3. CASE /\ ~modelDisc /\ modelLast < m
           /\ modelQueue' = Append(modelQueue, m) /\ modelLast' = m
           /\ UNCHANGED <<modelDisc, lost>>
  <2> HIDE DEF m
  <2>1. /\ modelQueue' \in Seq(Nat) /\ ToSet(modelQueue') = ToSet(modelQueue) \union {m}
        /\ Ascending(modelQueue')
    <3>1. \A n \in ToSet(modelQueue) : n \in Nat /\ n < m
      <4>1. \A n \in ToSet(modelQueue) : n \in Nat /\ n <= modelLast
        BY <1>1 DEF PathInv, PathAscends, Waiting, ToSet
      <4> QED BY <1>1, <1>3, <4>1
    <3> QED BY <1>1, <1>3, <3>1, AppendedMinute DEF PathInv, PathAscends
  <2>2. UNCHANGED <<inbox, disc, workerAt, inHand, volumeCommits, jointCommits>>
    BY DEF hostVars, engineVars
  <2>3. ToSet(inbox) \subseteq Nat /\ Commits \subseteq Nat /\ ToSet(modelQueue) \subseteq Nat
    BY DEF PathInv, HostTypeInv, Commits, ToSet
  <2>4. HostTypeInv'
    BY <1>3, <2>1, <2>2 DEF PathInv, HostTypeInv
  <2>5. PathAscends'
    <3> USE DEF PathInv, PathAscends, Waiting
    <3>1. \A i \in ToSet(inbox) : \A q \in ToSet(modelQueue') : i < q
      BY <1>1, <1>3, <2>1, <2>3
    <3>2. Waiting' = Waiting \union {m}
      BY <2>1, <2>2
    <3>3. \A n \in Waiting' : n <= modelLast'
      BY <1>1, <1>3, <2>3, <3>2
    <3>4. inHand \in Nat
      BY DEF HostTypeInv
    <3>5. workerAt # "idle" => inHand <= modelLast' /\ \A n \in Waiting' : inHand < n
      BY <1>1, <1>3, <2>3, <3>2, <3>4
    <3>6. \A c \in Commits : c <= modelLast' /\ \A n \in Waiting' : c < n
      BY <1>1, <1>3, <2>3, <3>2
    <3>7. Commits' = Commits
      BY <2>2 DEF Commits
    <3> QED BY <2>1, <2>2, <3>1, <3>3, <3>5, <3>6, <3>7
  <2>6. LossIsAhead'
    BY <1>3, <2>2 DEF PathInv, LossIsAhead, Commits
  <2> QED BY <1>1, <2>4, <2>5, <2>6 DEF PathInv
<1>4. CASE /\ modelLast < m
           /\ modelDisc' = TRUE /\ lost' = lost \union {m}
           /\ UNCHANGED <<modelQueue, modelLast>>
  <2> HIDE DEF m
  <2>1. UNCHANGED <<inbox, disc, workerAt, inHand, volumeCommits, jointCommits, Commits, Waiting>>
    BY <1>4 DEF hostVars, engineVars, Commits, Waiting
  <2>2. HostTypeInv'
    BY <1>1, <1>4, <2>1 DEF PathInv, HostTypeInv
  <2>3. PathAscends'
    BY <1>4, <2>1 DEF PathInv, PathAscends, Waiting, Commits
  <2>4. LossIsAhead'
    <3> SUFFICES ASSUME NEW l \in lost \union {m}
                 PROVE  /\ \A n \in ToSet(inbox) \union Commits : n < l
                        /\ workerAt # "idle" => inHand < l
                        /\ disc \/ \A q \in ToSet(modelQueue) : q < l
      BY <1>4, <2>1 DEF LossIsAhead
    <3>1. CASE l \in lost
      BY <3>1 DEF PathInv, LossIsAhead
    <3>2. CASE l = m
      <4>1. ToSet(inbox) \union Commits \union ToSet(modelQueue) \subseteq Nat /\ inHand \in Nat
        BY DEF PathInv, HostTypeInv, Commits, ToSet
      <4>2. /\ \A n \in ToSet(inbox) \union Commits \union ToSet(modelQueue) : n <= modelLast
            /\ workerAt # "idle" => inHand <= modelLast
        BY DEF PathInv, PathAscends, Waiting
      <4> QED BY <1>1, <1>4, <3>2, <4>1, <4>2
    <3> QED BY <3>1, <3>2
  <2> QED BY <1>1, <2>2, <2>3, <2>4 DEF PathInv
<1> QED BY <1>1, <1>2, <1>3, <1>4, FanoutModelCases DEF PathInv

LEMMA DispatchPath ==
  ASSUME PathInv, Dispatch
  PROVE  PathInv'
<1> DEFINE q == Head(modelQueue)
<1>1. /\ modelQueue' \in Seq(Nat) /\ q \in Nat /\ q \in ToSet(modelQueue)
      /\ ToSet(modelQueue') \subseteq ToSet(modelQueue)
      /\ Ascending(modelQueue') /\ \A n \in ToSet(modelQueue') : q < n
  BY TakenMinute DEF PathInv, HostTypeInv, PathAscends, Dispatch
<1>2. UNCHANGED <<modelLast, modelDisc, workerAt, inHand, volumeCommits, jointCommits, Commits>>
  BY DEF Dispatch, feedBesidesQueue, engineVars, Commits
<1>3. FeedTypeInv'
  BY DEF PathInv, FeedTypeInv, Dispatch, feedBesidesQueue, runVars, fillVars
<1>4. ToSet(inbox) \subseteq Nat /\ Commits \subseteq Nat /\ ToSet(modelQueue) \subseteq Nat
      /\ inHand \in Nat
  BY DEF PathInv, HostTypeInv, Commits, ToSet
<1> HIDE DEF q
<1>5. CASE disc /\ UNCHANGED <<inbox, disc, lost>>
  <2>1. HostTypeInv'
    BY <1>1, <1>2, <1>5 DEF PathInv, HostTypeInv
  <2>2. PathAscends'
    BY <1>1, <1>2, <1>5 DEF PathInv, PathAscends, Waiting
  <2>3. LossIsAhead'
    BY <1>1, <1>2, <1>5 DEF PathInv, LossIsAhead
  <2> QED BY <1>3, <2>1, <2>2, <2>3 DEF PathInv
<1>6. CASE ~disc /\ inbox' = Append(inbox, q) /\ UNCHANGED <<disc, lost>>
  <2>1. /\ inbox' \in Seq(Nat) /\ ToSet(inbox') = ToSet(inbox) \union {q} /\ Ascending(inbox')
    BY <1>1, <1>6, AppendedMinute DEF PathInv, HostTypeInv, PathAscends
  <2>2. HostTypeInv'
    BY <1>1, <1>2, <1>6, <2>1 DEF PathInv, HostTypeInv
  <2>3. Waiting' \subseteq Waiting
    BY <1>1, <2>1 DEF Waiting
  <2>4. PathAscends'
    <3>1. \A i \in ToSet(inbox') : \A n \in ToSet(modelQueue') : i < n
      BY <1>1, <2>1 DEF PathInv, PathAscends
    <3> QED BY <1>1, <1>2, <2>1, <2>3, <3>1 DEF PathInv, PathAscends
  <2>5. LossIsAhead'
    BY <1>1, <1>2, <1>6, <2>1 DEF PathInv, LossIsAhead
  <2> QED BY <1>3, <2>2, <2>4, <2>5 DEF PathInv
<1>7. CASE ~disc /\ disc' = TRUE /\ lost' = lost \union {q} /\ UNCHANGED inbox
  <2>1. HostTypeInv'
    BY <1>1, <1>2, <1>7 DEF PathInv, HostTypeInv
  <2>2. PathAscends'
    BY <1>1, <1>2, <1>7 DEF PathInv, PathAscends, Waiting
  <2>3. (\A n \in ToSet(inbox) \union Commits : n < q) /\ (workerAt # "idle" => inHand < q)
    BY <1>1 DEF PathInv, PathAscends, Waiting
  <2>4. LossIsAhead'
    BY <1>2, <1>7, <2>3 DEF PathInv, LossIsAhead
  <2> QED BY <1>3, <2>1, <2>2, <2>4 DEF PathInv
<1> QED BY <1>5, <1>6, <1>7 DEF Dispatch, q

LEMMA RefreshPath ==
  ASSUME PathInv, RefreshPathStatus
  PROVE  PathInv'
<1>1. /\ UNCHANGED <<modelQueue, modelLast, modelDisc, lost, inbox, workerAt, inHand,
                     volumeCommits, jointCommits, Commits, Waiting>>
      /\ disc' = TRUE
  BY DEF RefreshPathStatus, feedVars, pathVars, engineVars, Commits, Waiting
<1>2. FeedTypeInv'
  BY DEF PathInv, FeedTypeInv, RefreshPathStatus, feedVars, runVars, fillVars, pathVars
<1>3. HostTypeInv' /\ PathAscends' /\ LossIsAhead'
  BY <1>1 DEF PathInv, HostTypeInv, PathAscends, LossIsAhead, Waiting
<1> QED BY <1>2, <1>3 DEF PathInv

\* A bar is taken in hand, or skipped: both leave the rest of the path ahead.
LEMMA HandlePath ==
  ASSUME PathInv, HandleBar
  PROVE  PathInv'
<1> DEFINE n == Head(inbox)
<1>1. /\ inbox' \in Seq(Nat) /\ n \in Nat /\ n \in ToSet(inbox)
      /\ ToSet(inbox') \subseteq ToSet(inbox)
      /\ Ascending(inbox') /\ \A i \in ToSet(inbox') : n < i
  BY TakenMinute DEF PathInv, HostTypeInv, PathAscends, HandleBar
<1>2. UNCHANGED <<modelQueue, modelLast, modelDisc, lost, disc, volumeCommits, jointCommits, Commits>>
  BY DEF HandleBar, feedVars, pathVars, engineVars, Commits
<1>3. FeedTypeInv'
  BY DEF PathInv, FeedTypeInv, HandleBar, feedVars, runVars, fillVars, pathVars
<1>4. /\ workerAt = "idle"
      /\ UNCHANGED <<workerAt, inHand>> \/ (workerAt' = "volume" /\ inHand' = n)
  BY DEF HandleBar
<1> HIDE DEF n
<1>5. HostTypeInv'
  BY <1>1, <1>2, <1>4 DEF PathInv, HostTypeInv
<1>6. Waiting' \subseteq Waiting /\ n \in Waiting
  BY <1>1, <1>2 DEF Waiting
<1>7. PathAscends'
  <2>1. \A w \in Waiting' : n < w
    BY <1>1, <1>2 DEF PathInv, PathAscends, Waiting
  <2>2. workerAt' # "idle" => inHand' = n
    BY <1>4
  <2>3. workerAt' # "idle" => inHand' <= modelLast' /\ \A w \in Waiting' : inHand' < w
    BY <1>2, <1>6, <2>1, <2>2 DEF PathInv, PathAscends
  <2>4. \A c \in Commits : c <= modelLast /\ c < n /\ \A w \in Waiting' : c < w
    BY <1>6 DEF PathInv, PathAscends
  <2> QED BY <1>1, <1>2, <1>6, <2>2, <2>3, <2>4 DEF PathInv, PathAscends
<1>8. LossIsAhead'
  BY <1>1, <1>2, <1>4 DEF PathInv, LossIsAhead
<1> QED BY <1>3, <1>5, <1>7, <1>8 DEF PathInv

LEMMA VolumePath ==
  ASSUME PathInv, ProcessVolume
  PROVE  PathInv'
<1>1. /\ UNCHANGED <<modelQueue, modelLast, modelDisc, lost, disc, inbox, inHand,
                     jointCommits, Waiting>>
      /\ workerAt = "volume" /\ workerAt' = "step"
  BY DEF ProcessVolume, feedVars, pathVars, Waiting
<1>2. FeedTypeInv'
  BY DEF PathInv, FeedTypeInv, ProcessVolume, feedVars, runVars, fillVars, pathVars
<1>3. CASE UNCHANGED volumeCommits
  <2>1. UNCHANGED Commits
    BY <1>1, <1>3 DEF Commits
  <2>2. HostTypeInv'
    BY <1>1, <1>3 DEF PathInv, HostTypeInv
  <2>3. PathAscends' /\ LossIsAhead'
    BY <1>1, <1>3, <2>1 DEF PathInv, PathAscends, LossIsAhead, Waiting
  <2> QED BY <1>2, <2>2, <2>3 DEF PathInv
<1>4. CASE volumeCommits' = Append(volumeCommits, inHand)
  <2>1. \A c \in ToSet(volumeCommits) : c < inHand
    BY <1>1 DEF PathInv, PathAscends, Commits
  <2>2. /\ volumeCommits' \in Seq(Nat) /\ Ascending(volumeCommits')
        /\ ToSet(volumeCommits') = ToSet(volumeCommits) \union {inHand}
    BY <1>4, <2>1, AppendedMinute DEF PathInv, HostTypeInv, PathAscends
  <2>3. Commits' = Commits \union {inHand}
    BY <1>1, <2>2 DEF Commits
  <2>4. HostTypeInv'
    BY <1>1, <2>2 DEF PathInv, HostTypeInv
  <2>5. PathAscends'
    BY <1>1, <2>2, <2>3 DEF PathInv, PathAscends, Waiting
  <2>6. LossIsAhead'
    BY <1>1, <2>3 DEF PathInv, LossIsAhead
  <2> QED BY <1>2, <2>4, <2>5, <2>6 DEF PathInv
<1> QED BY <1>3, <1>4 DEF ProcessVolume

LEMMA StepPath ==
  ASSUME PathInv, StepEngines
  PROVE  PathInv'
<1>1. /\ UNCHANGED <<modelQueue, modelLast, modelDisc, lost, inbox, volumeCommits, Waiting>>
      /\ workerAt = "step" /\ workerAt' = "idle" /\ inHand' = 0
      /\ disc' \in {disc, TRUE}
  BY DEF StepEngines, feedVars, pathVars, Waiting
<1>2. FeedTypeInv'
  BY DEF PathInv, FeedTypeInv, StepEngines, feedVars, runVars, fillVars, pathVars
<1>3. /\ jointCommits' \in Seq(Nat)
      /\ ToSet(jointCommits') \subseteq ToSet(jointCommits) \union {inHand}
  <2>1. jointCommits \in Seq(Nat) /\ inHand \in Nat
    BY DEF PathInv, HostTypeInv
  <2>2. \/ jointCommits' = Append(jointCommits, inHand)
        \/ jointCommits' = jointCommits
    BY DEF StepEngines
  <2>3. CASE jointCommits' = Append(jointCommits, inHand)
    BY <2>1, <2>3, AppendedMinute
  <2>4. CASE jointCommits' = jointCommits
    BY <2>1, <2>4
  <2> QED BY <2>2, <2>3, <2>4
<1>4. Commits' \subseteq Commits \union {inHand}
  BY <1>1, <1>3 DEF Commits
<1>5. HostTypeInv'
  BY <1>1, <1>3 DEF PathInv, HostTypeInv
<1>6. PathAscends'
  <2>1. \A c \in Commits \union {inHand} : c <= modelLast /\ \A n \in Waiting : c < n
    BY <1>1 DEF PathInv, PathAscends
  <2> QED BY <1>1, <1>4, <2>1 DEF PathInv, PathAscends, Waiting
<1>7. LossIsAhead'
  <2>1. \A l \in lost : \A n \in ToSet(inbox) \union Commits \union {inHand} : n < l
    BY <1>1 DEF PathInv, LossIsAhead
  <2>2. disc => disc'
    BY <1>1 DEF PathInv, HostTypeInv
  <2>3. \A l \in lost : disc' \/ (modelDisc /\ \A q \in ToSet(modelQueue) : q < l)
    BY <2>2 DEF PathInv, LossIsAhead
  <2> QED BY <1>1, <1>4, <2>1, <2>3 DEF LossIsAhead
<1> QED BY <1>2, <1>5, <1>6, <1>7 DEF PathInv

LEMMA PathInitInv == ModelInit => PathInv
<1> SUFFICES ASSUME ModelInit PROVE PathInv
  OBVIOUS
<1>1. /\ modelQueue = <<>> /\ inbox = <<>> /\ volumeCommits = <<>> /\ jointCommits = <<>>
      /\ lost = {} /\ workerAt = "idle"
  BY DEF ModelInit, FeedInit, HostInit
<1>2. Waiting = {} /\ Commits = {}
  BY <1>1 DEF Waiting, Commits, ToSet
<1>3. PathAscends /\ LossIsAhead
  BY <1>1, <1>2 DEF PathAscends, LossIsAhead, Ascending, ToSet
<1> QED BY <1>3, ModelInitTypes DEF PathInv

LEMMA PathStepInv ==
  ASSUME PathInv, [ModelNext]_modelVars
  PROVE  PathInv'
<1>1. CASE FeedNext /\ UNCHANGED hostVars
  <2>1. FeedTypeInv'
    BY <1>1, FeedTypesStep DEF PathInv
  <2> QED BY <1>1, <2>1, FeedStepPath, FanoutPath, PathQuiet DEF pathVars
<1>2. CASE SubscribeModelBars \/ UNCHANGED modelVars
  <2>1. FeedTypeInv'
    BY <1>2 DEF PathInv, FeedTypeInv, SubscribeModelBars, modelVars, feedVars, runVars,
       fillVars, pathVars
  <2> QED BY <1>2, <2>1, PathQuiet DEF SubscribeModelBars, modelVars, feedVars, pathVars
<1>3. CASE Dispatch \/ RefreshPathStatus \/ Work
  BY <1>3, DispatchPath, RefreshPath, HandlePath, VolumePath, StepPath DEF Work
<1> QED BY <1>1, <1>2, <1>3 DEF ModelNext, HostNext

LEMMA PathInvariant == ModelSpec => []PathInv
BY PathInitInv, PathStepInv, PTL DEF ModelSpec

\* The volume engine takes its minutes forwards only, although its commits run
\* ahead of the check (host.go's handle and processVolume, fanoutModel's order).
THEOREM VolumeStaysCausal == ModelSpec => []VolumeIsCausal
<1>1. PathInv => VolumeIsCausal
  BY DEF PathInv, PathAscends, VolumeIsCausal
<1> QED BY <1>1, PathInvariant, PTL

\* Whichever queue was full, nothing behind the lost bar is ever committed
\* (fanoutModel, dispatch, refreshPathStatus and handle).
THEOREM NothingPastALoss == ModelSpec => []NoCommitPastLoss
<1>1. PathInv => NoCommitPastLoss
  BY DEF PathInv, LossIsAhead, Commits, NoCommitPastLoss
<1> QED BY <1>1, PathInvariant, PTL

-----------------------------------------------------------------------------
(* What was offered to the path.                                           *)

\* The path's last minute was delivered, and a live bar in the window has been
\* through Run or is in its hand.
OfferInv ==
  /\ modelLast = 0 \/ modelLast \in delivered
  /\ \A m \in Minutes : window[m] # NoBar /\ ~window[m].backfilled =>
       m \in processed \/ (runAt = "fanout" /\ runBar[1].minute = m)
  /\ MissesAreExplained

LEMMA MissQuiet ==
  ASSUME OfferInv,
         UNCHANGED <<modelLast, modelDisc, delivered, window, processed, excused, runAt, runBar>>
  PROVE  OfferInv'
BY DEF OfferInv, MissesAreExplained

LEMMA AcceptsMiss ==
  ASSUME FeedTypeInv, OfferInv, RunAccepts
  PROVE  OfferInv'
<1> DEFINE bar == Head(incoming)
           m == bar.minute
<1>1. bar \in LiveBars /\ bar \in Bar /\ m \in Minutes /\ ~bar.backfilled /\ runAt = "select"
  BY DEF FeedTypeInv, RunAccepts, LiveBars, Bar
<1>2. UNCHANGED <<modelLast, modelDisc, delivered>>
  BY DEF RunAccepts, pathVars
<1>3. CASE /\ window' = [window EXCEPT ![m] = bar]
           /\ runAt' = "fanout" /\ runBar' = <<bar>> /\ UNCHANGED historyVars
  <2>1. \A k \in Minutes : window'[k] = IF k = m THEN bar ELSE window[k]
    BY <1>3 DEF FeedTypeInv
  <2> HIDE DEF bar, m
  <2>2. runBar'[1].minute = m
    BY <1>3 DEF m
  <2> QED BY <1>1, <1>2, <1>3, <2>1, <2>2 DEF OfferInv, MissesAreExplained, historyVars
<1>4. CASE /\ ~Adds(bar) /\ runAt' = "observe" /\ UNCHANGED window
           /\ processed' = processed \union {m}
           /\ excused' = IF window[m].backfilled /\ window[m].reading = bar.reading
                         THEN excused \union {m} ELSE excused
  <2>1. window[m] # NoBar /\ window[m].reading = bar.reading
    BY <1>1, <1>4 DEF Adds, ShouldReplace, SameGeneration
  <2>2. m \in processed \/ m \in excused'
    BY <1>1, <1>4, <2>1 DEF OfferInv
  <2> HIDE DEF bar, m
  <2>3. MissesAreExplained'
    BY <1>2, <1>4, <2>2 DEF OfferInv, MissesAreExplained
  <2> QED BY <1>1, <1>2, <1>4, <2>3 DEF OfferInv
<1> QED BY <1>3, <1>4 DEF RunAccepts

LEMMA FansOutMiss ==
  ASSUME FeedTypeInv, HostTypeInv, OfferInv, RunFansOut
  PROVE  OfferInv'
<1> DEFINE bar == runBar[1]
           m == bar.minute
<1>1. bar \in Bar /\ m \in Minutes /\ m \in Nat /\ m >= 1 /\ ~bar.backfilled
  BY FeedAssumption, RunFansOutTypes DEF LiveBars, Bar, Minutes
<1>2. /\ FanoutModel(bar) /\ processed' = processed \union {m} /\ UNCHANGED window
      /\ excused' = IF subscribed THEN excused ELSE excused \union {m}
      /\ runAt = "fanout" /\ runAt' = "observe"
  BY DEF RunFansOut
<1>3. modelLast \in Nat /\ modelDisc \in BOOLEAN
  BY DEF FeedTypeInv
<1>4. delivered \subseteq delivered' /\ (modelDisc => modelDisc')
      /\ (modelLast' = 0 \/ modelLast' \in delivered')
  <2>1. modelLast = 0 \/ modelLast \in delivered
    BY DEF OfferInv
  <2>2. \/ UNCHANGED <<modelQueue, modelLast, modelDisc, delivered, lost>>
        \/ modelLast' = m /\ delivered' = delivered \union {m} /\ UNCHANGED modelDisc
        \/ modelDisc' = TRUE /\ UNCHANGED <<modelLast, delivered>>
    BY <1>1, <1>2, FanoutModelCases
  <2> HIDE DEF bar, m
  <2>3. CASE modelLast' = m /\ delivered' = delivered \union {m} /\ UNCHANGED modelDisc
    BY <2>3
  <2>4. CASE UNCHANGED <<modelQueue, modelLast, modelDisc, delivered, lost>>
    BY <2>1, <2>4
  <2>5. CASE modelDisc' = TRUE /\ UNCHANGED <<modelLast, delivered>>
    BY <2>1, <2>5
  <2> QED BY <2>2, <2>3, <2>4, <2>5
<1>5. \/ m \in delivered' \/ modelDisc' \/ m \in excused'
      \/ \E d \in delivered' : d > m
  <2>1. CASE ~subscribed
    BY <1>2, <2>1
  <2>2. CASE modelDisc
    BY <1>4, <2>2
  <2>3. CASE m <= modelLast
    <3>1. modelLast \in delivered'
      BY <1>1, <1>3, <1>4, <2>3 DEF OfferInv
    <3> QED BY <1>1, <1>3, <2>3, <3>1
  <2>4. CASE subscribed /\ ~modelDisc /\ ~(m <= modelLast)
    BY <1>1, <1>2, <2>4 DEF FanoutModel
  <2> QED BY <2>1, <2>2, <2>3, <2>4
<1> HIDE DEF bar, m
<1>6. MissesAreExplained'
  BY <1>2, <1>4, <1>5 DEF OfferInv, MissesAreExplained
<1> QED BY <1>1, <1>2, <1>4, <1>6 DEF OfferInv, bar, m

\* A filler only writes bars that are marked as backfilled.
LEMMA FillMiss ==
  ASSUME FeedTypeInv, OfferInv, NEW f \in Fillers, Fills(f)
  PROVE  OfferInv'
<1>1. CASE MarksRecovering(f) \/ FetchFails(f) \/ Fetches(f) \/ MarksHealthy(f)
  BY <1>1, MissQuiet DEF MarksRecovering, FetchFails, Fetches, MarksHealthy, runVars,
     pathVars, historyVars
<1>2. CASE AddsFetched(f)
  <2> DEFINE bar == Head(fetched[f])
  <2>1. bar \in FilledBars /\ bar.minute \in Minutes /\ bar.backfilled
    <3>1. bar \in FilledBars
      BY <1>2 DEF FeedTypeInv, AddsFetched
    <3> HIDE DEF bar
    <3> QED BY <3>1 DEF FilledBars, Bar
  <2>2. window' = window \/ window' = [window EXCEPT ![bar.minute] = bar]
    BY <1>2 DEF AddsFetched
  <2>3. UNCHANGED <<modelLast, modelDisc, delivered, processed, excused, runAt, runBar>>
    BY <1>2 DEF AddsFetched, runVars, pathVars, historyVars
  <2> HIDE DEF bar
  <2>4. \A m \in Minutes : window'[m] = window[m] \/ window'[m] = bar
    BY <2>1, <2>2 DEF FeedTypeInv
  <2> QED BY <2>1, <2>3, <2>4 DEF OfferInv, MissesAreExplained
<1> QED BY <1>1, <1>2 DEF Fills

LEMMA MissStepInv ==
  ASSUME PathInv, OfferInv, [ModelNext]_modelVars
  PROVE  OfferInv'
<1> USE DEF PathInv
<1>1. ASSUME NEW m \in Minutes, LiveBar(m) PROVE OfferInv'
  BY <1>1, MissQuiet DEF LiveBar, pathVars, historyVars
<1>2. ASSUME NEW f \in Fillers, TriggerGapFill(f) PROVE OfferInv'
  BY <1>2, MissQuiet DEF TriggerGapFill, runVars, pathVars, historyVars
<1>3. CASE HealthChanges \/ Reports \/ RunTicks
  BY <1>3, MissQuiet DEF HealthChanges, Reports, RunTicks, runVars, pathVars, historyVars
<1>4. CASE RunObserves
  BY <1>4 DEF RunObserves, OfferInv, MissesAreExplained, pathVars, historyVars
<1>5. CASE FeedNext
  BY <1>1, <1>2, <1>3, <1>4, <1>5, AcceptsMiss, FansOutMiss, FillMiss DEF FeedNext, RunGoroutine
<1>6. CASE HostNext
  BY <1>6, MissQuiet DEF HostNext, SubscribeModelBars, Dispatch, RefreshPathStatus, Work,
     HandleBar, ProcessVolume, StepEngines, feedBesidesQueue, feedVars, runVars, pathVars,
     historyVars
<1>7. CASE UNCHANGED modelVars
  BY <1>7, MissQuiet DEF modelVars, feedVars, runVars, pathVars, historyVars
<1> QED BY <1>5, <1>6, <1>7 DEF ModelNext

LEMMA MissInitInv == ModelInit => OfferInv
BY DEF ModelInit, FeedInit, OfferInv, MissesAreExplained

\* No bar of the live source passes the models unnoticed: what Run is through
\* with was offered to the path, or the path is marked, or one of the three
\* exceptions holds (WindowStore.Add, fanoutModel, GapFill).
THEOREM NoUnexplainedMiss == ModelSpec => []MissesAreExplained
<1>1. OfferInv => MissesAreExplained
  BY DEF OfferInv
<1> QED BY <1>1, PathInvariant, MissInitInv, MissStepInv, PTL DEF ModelSpec
=============================================================================
