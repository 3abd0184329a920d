-------------------------- MODULE BarCollectorProofs --------------------------
(***************************************************************************)
(* Theorems about the bar collector for any number of partitions, stages   *)
(* and batches of any size: both stores of a partition follow its numbered *)
(* observations as a log (ObservationLog).  What carries the promise is    *)
(* that the batch, the stages and the hands of the goroutines between them *)
(* are consecutive slices of the log, as long as no push was refused, and  *)
(* that a refused push ends the slices and never cuts one out.  Then the   *)
(* numbers: a file explains itself, what a run has lost its critical       *)
(* counter tells, and a replay of the documents admits all of them.        *)
(***************************************************************************)
EXTENDS OfflineReplay, SequenceTheorems, FiniteSetTheorems, WellFoundedInduction, TLAPS

-----------------------------------------------------------------------------
(* Slices of a log.                                                        *)

Slice(s, l, from, to) ==
  /\ from \in Nat /\ to \in Nat /\ from <= to /\ to <= Len(l)
  /\ Len(s) = to - from
  /\ \A i \in 1..Len(s) : s[i] = l[from + i]

\* A slice stays one when the log grows.
LEMMA SliceGrows ==
  ASSUME NEW S, NEW l \in Seq(S), NEW x \in S, NEW s \in Seq(S), NEW a, NEW b, Slice(s, l, a, b)
  PROVE  Slice(s, Append(l, x), a, b)
<1>1. Len(Append(l, x)) = Len(l) + 1 /\ \A i \in 1..Len(l) : Append(l, x)[i] = l[i]
  OBVIOUS
<1>2. ASSUME NEW i \in 1..Len(s) PROVE a + i \in 1..Len(l)
  BY DEF Slice
<1> HIDE DEF Slice
<1> DEFINE m == Append(l, x)
<1> HIDE DEF m
<1>3. Len(m) = Len(l) + 1 /\ \A i \in 1..Len(l) : m[i] = l[i]
  BY <1>1 DEF m
<1>4. Slice(s, m, a, b)
  BY <1>2, <1>3, SMTT(30) DEF Slice
<1> QED BY <1>4 DEF m

\* The front of a slice can be taken off.
LEMMA SliceTaken ==
  ASSUME NEW S, NEW l \in Seq(S), NEW s \in Seq(S), NEW a, NEW b, Slice(s, l, a, b), s # <<>>
  PROVE  /\ Slice(<<Head(s)>>, l, a, a + 1) /\ Slice(Tail(s), l, a + 1, b)
         /\ Head(s) = l[a + 1] /\ a + 1 \in 1..Len(l)
<1>1. Len(s) >= 1 /\ Head(s) = s[1] /\ Len(Tail(s)) = Len(s) - 1
  OBVIOUS
<1>2. \A i \in 1..Len(Tail(s)) : Tail(s)[i] = s[i + 1] /\ i + 1 \in 1..Len(s)
  BY <1>1
<1> DEFINE t == Tail(s)
           u == <<Head(s)>>
<1>3. Len(u) = 1 /\ u[1] = s[1]
  BY <1>1
<1> HIDE DEF t, u
<1>4. Slice(u, l, a, a + 1)
  BY <1>1, <1>3 DEF Slice
<1>5. Slice(t, l, a + 1, b)
  BY <1>1, <1>2 DEF Slice, t
<1> QED BY <1>1, <1>4, <1>5 DEF Slice, t, u

LEMMA ConcatParts ==
  ASSUME NEW S, NEW s \in Seq(S), NEW t \in Seq(S)
  PROVE  /\ s \o t \in Seq(S) /\ Len(s \o t) = Len(s) + Len(t)
         /\ \A i \in 1..Len(s) : (s \o t)[i] = s[i]
         /\ \A i \in Len(s) + 1..Len(s) + Len(t) : (s \o t)[i] = t[i - Len(s)]
OBVIOUS

\* Two slices that touch are one.
LEMMA SlicesJoin ==
  ASSUME NEW S, NEW l \in Seq(S), NEW s \in Seq(S), NEW t \in Seq(S), NEW a, NEW b, NEW c,
         Slice(s, l, a, b), Slice(t, l, b, c)
  PROVE  s \o t \in Seq(S) /\ Slice(s \o t, l, a, c)
<1>1. /\ s \o t \in Seq(S) /\ Len(s \o t) = Len(s) + Len(t)
      /\ \A i \in 1..Len(s) : (s \o t)[i] = s[i]
      /\ \A i \in Len(s) + 1..Len(s) + Len(t) : (s \o t)[i] = t[i - Len(s)]
  BY ConcatParts
<1> DEFINE u == s \o t
<1> HIDE DEF u
<1>4. Slice(u, l, a, c)
  BY <1>1 DEF Slice, u
<1> QED BY <1>1, <1>4 DEF u

LEMMA EmptySlice ==
  ASSUME NEW S, NEW l \in Seq(S), NEW n \in 0..Len(l)
  PROVE  Slice(<<>>, l, n, n)
BY DEF Slice

LEMMA EmptyIsNoWay ==
  ASSUME NEW l, NEW a, NEW b, Slice(<<>>, l, a, b)
  PROVE  a = b
BY DEF Slice

-----------------------------------------------------------------------------
(* What a store that follows the log holds.                                *)

First(l, n) == {l[i] : i \in 1..n}

\* How far the store is when k entries are written to one that is at j.
Further(j, k) == IF j >= k THEN j ELSE k

LEMMA ConcatSet ==
  ASSUME NEW S, NEW f \in Seq(S), NEW t \in Seq(S)
  PROVE  ToSet(f \o t) = ToSet(f) \union ToSet(t)
<1> DEFINE g == f \o t
<1>1. g \in Seq(S) /\ Len(g) = Len(f) + Len(t)
      /\ (\A i \in 1..Len(f) : g[i] = f[i])
      /\ (\A i \in Len(f) + 1..Len(f) + Len(t) : g[i] = t[i - Len(f)])
  BY ConcatParts
<1> HIDE DEF g
<1>2. \A i \in 1..Len(t) : g[Len(f) + i] = t[i] /\ Len(f) + i \in 1..Len(g)
  <2> TAKE i \in 1..Len(t)
  <2>1. Len(f) \in Nat /\ Len(t) \in Nat
    OBVIOUS
  <2> DEFINE n == Len(f) + i
  <2>2. n \in Len(f) + 1..Len(f) + Len(t) /\ n - Len(f) = i /\ n \in 1..Len(f) + Len(t)
    BY <2>1
  <2> HIDE DEF n
  <2>3. g[n] = t[i] /\ n \in 1..Len(g)
    BY <1>1, <2>2
  <2> QED BY <2>3 DEF n
<1>3. \A i \in 1..Len(f) : g[i] = f[i] /\ i \in 1..Len(g)
  BY <1>1
<1>4. \A i \in 1..Len(g) : (i \in 1..Len(f) /\ g[i] = f[i])
                           \/ (i - Len(f) \in 1..Len(t) /\ g[i] = t[i - Len(f)])
  <2> TAKE i \in 1..Len(g)
  <2>1. Len(f) \in Nat /\ Len(t) \in Nat
    OBVIOUS
  <2>2. CASE i \in 1..Len(f)
    BY <1>1, <2>2
  <2>3. CASE i \notin 1..Len(f)
    <3>1. i \in Len(f) + 1..Len(f) + Len(t) /\ i - Len(f) \in 1..Len(t)
      BY <1>1, <2>1, <2>3
    <3> QED BY <1>1, <3>1
  <2> QED BY <2>2, <2>3
<1>5. DOMAIN f = 1..Len(f) /\ DOMAIN t = 1..Len(t) /\ DOMAIN g = 1..Len(g)
  BY <1>1
<1>6. ASSUME NEW x \in ToSet(g) PROVE x \in ToSet(f) \union ToSet(t)
  BY <1>4, <1>5, <1>6 DEF ToSet
<1>7. ASSUME NEW x \in ToSet(f) PROVE x \in ToSet(g)
  BY <1>3, <1>5, <1>7 DEF ToSet
<1>8. ASSUME NEW x \in ToSet(t) PROVE x \in ToSet(g)
  BY <1>2, <1>5, <1>8 DEF ToSet
<1> QED BY <1>6, <1>7, <1>8 DEF g

\* Writing a batch, or its first k entries, to a store that already holds the
\* first j of them.
LEMMA WrittenSlice ==
  ASSUME NEW S, NEW l \in Seq(S), NEW s \in Seq(S), NEW a, NEW b, Slice(s, l, a, b),
         NEW f \in Seq(S), NEW j \in 0..Len(s), ToSet(f) = First(l, a + j), NEW k \in 0..Len(s)
  PROVE  ToSet(f \o SubSeq(s, 1, k)) = First(l, a + Further(j, k))
<1> DEFINE t == SubSeq(s, 1, k)
           m == Further(j, k)
<1>1. t \in Seq(S) /\ Len(t) = k /\ \A i \in 1..k : t[i] = s[i]
  OBVIOUS
<1> HIDE DEF t
<1>2. ToSet(f \o t) = ToSet(f) \union ToSet(t)
  BY <1>1, ConcatSet
<1>3. ToSet(t) = {l[i] : i \in a + 1..a + k}
  <2>1. \A i \in 1..k : t[i] = l[a + i] /\ a + i \in a + 1..a + k
    BY <1>1, SMTT(30) DEF Slice
  <2>2. \A i \in a + 1..a + k : i - a \in 1..k /\ l[i] = t[i - a]
    BY <1>1 DEF Slice
  <2>3. DOMAIN t = 1..k
    BY <1>1
  <2>4. a \in Nat /\ k \in Nat
    BY DEF Slice
  <2>5. ToSet(t) = {t[i] : i \in 1..k}
    BY <2>3 DEF ToSet
  <2>6. ASSUME NEW i \in 1..k PROVE t[i] \in {l[n] : n \in a + 1..a + k}
    BY <2>1
  <2>7. ASSUME NEW n \in a + 1..a + k PROVE l[n] \in {t[i] : i \in 1..k}
    BY <2>2
  <2> QED BY <2>5, <2>6, <2>7
<1>4. 1..a + m = 1..a + j \union (a + 1..a + k)
  BY DEF Slice, Further
<1>5. First(l, a + m) = First(l, a + j) \union {l[i] : i \in a + 1..a + k}
  BY <1>4 DEF First
<1> QED BY <1>2, <1>3, <1>5 DEF t

LEMMA FirstOfLonger ==
  ASSUME NEW S, NEW l \in Seq(S), NEW x \in S, NEW n \in 0..Len(l)
  PROVE  First(Append(l, x), n) = First(l, n)
<1>1. \A i \in 1..n : Append(l, x)[i] = l[i]
  OBVIOUS
<1> QED BY <1>1 DEF First

-----------------------------------------------------------------------------
(* The invariant of a partition.                                           *)

Routed(p) == {o \in Observation : o.symbol \in Symbols /\ PartitionOf[o.symbol] = p}

ArrivalTypeInv ==
  /\ inHand \in [Readers -> Seq(Observation)] /\ ingest \in Seq(Observation)
  /\ DOMAIN ingress = Partitions /\ \A p \in Partitions : ingress[p] \in Seq(Routed(p))

StageTypeInv ==
  /\ nextNo \in [Symbols -> Nat] /\ lastTime \in [Symbols -> Nat]
  /\ log \in [Partitions -> Seq(Numbered)] /\ numbering \in [Partitions -> Seq(Numbered)]
  /\ ready \in [Partitions -> Seq(Numbered)] /\ moving \in [Partitions -> Seq(Numbered)]
  /\ persist \in [Partitions -> Seq(Numbered)] /\ batch \in [Partitions -> Seq(Numbered)]
  /\ jsonl \in [Partitions -> Seq(Numbered)] /\ mongo \in [Partitions -> Seq(Numbered)]
  /\ readyClosed \in [Partitions -> BOOLEAN] /\ persistClosed \in [Partitions -> BOOLEAN]
  /\ writer \in [Partitions -> {"collect", "jsonl", "mongo", "ended"}]
  /\ persisted \in [Partitions -> Nat]

\* From the batch, whose first entry is number w + 1 of the log, up to the
\* observation that is being numbered: consecutive slices, each stage only as
\* long as the loops behind it have not ended on a refused push.
Entering(p, r) == readyClosed[p] \/ Slice(numbering[p], log[p], r, Len(log[p]))
Moving(p, q, v, r) ==
  Slice(moving[p], log[p], q, v) /\ Slice(ready[p], log[p], v, r) /\ Entering(p, r)
Passing(p, q) == persistClosed[p] \/ \E v, r \in Nat : Moving(p, q, v, r)
Slices(p, w, b, q) ==
  Slice(batch[p], log[p], w, b) /\ Slice(persist[p], log[p], b, q) /\ Passing(p, q)
InLine(p, w) == \E b, q \in Nat : Slices(p, w, b, q)

\* The file holds everything before the batch and its first j entries, Mongo
\* everything before the batch and at most as many.
MongoHolds(p, w, m) ==
  /\ ToSet(mongo[p]) = First(log[p], w + m)
  /\ writer[p] = "jsonl" => m = 0
Written(p, w, j) ==
  /\ ToSet(jsonl[p]) = First(log[p], w + j)
  /\ writer[p] = "collect" => j = 0
  /\ writer[p] = "mongo" => j = Len(batch[p])
  /\ IF MongoEnabled THEN \E m \in 0..j : MongoHolds(p, w, m)
     ELSE mongo[p] = <<>> /\ writer[p] # "mongo"
Acknowledged(p, w) ==
  persisted[p] <= w + (IF writer[p] \in {"mongo", "ended"} THEN Len(batch[p]) ELSE 0)

PartitionInv(p) ==
  /\ readyClosed[p] => numbering[p] = <<>>
  /\ persistClosed[p] => moving[p] = <<>>
  /\ Len(batch[p]) <= FlushCount /\ (writer[p] = "collect" => Len(batch[p]) < FlushCount)
  /\ \E w \in Nat : /\ InLine(p, w)
                    /\ \E j \in 0..Len(batch[p]) : Written(p, w, j)
                    /\ Acknowledged(p, w)

CollectorInv ==
  ArrivalTypeInv /\ StageTypeInv /\ \A p \in Partitions : PartitionInv(p)

LEMMA CollectorInitInv == CollectorInit => CollectorInv
<1> SUFFICES ASSUME CollectorInit PROVE CollectorInv
  OBVIOUS
<1>1. ArrivalTypeInv /\ StageTypeInv
  BY DEF CollectorInit, ArrivalTypeInv, StageTypeInv
<1>2. ASSUME NEW p \in Partitions PROVE PartitionInv(p)
  <2>1. Slice(<<>>, <<>>, 0, 0) /\ ToSet(<<>>) = First(<<>>, 0)
    BY DEF Slice, ToSet, First
  <2>2. Slices(p, 0, 0, 0) /\ Written(p, 0, 0) /\ Acknowledged(p, 0)
    BY <2>1 DEF CollectorInit, Slices, Passing, Moving, Entering, Written, MongoHolds,
       Acknowledged
  <2> QED BY <2>2, CollectorAssumption DEF CollectorInit, PartitionInv, InLine
<1> QED BY <1>1, <1>2 DEF CollectorInv

\* What a partition's invariant looks at.
lineVars(p) ==
  <<log[p], numbering[p], ready[p], moving[p], persist[p], batch[p], jsonl[p], mongo[p],
    readyClosed[p], persistClosed[p], writer[p], persisted[p]>>

storedVars(p) == <<log[p], batch[p], jsonl[p], mongo[p], writer[p], persisted[p]>>

LEMMA StoredQuiet ==
  ASSUME NEW p \in Partitions, UNCHANGED storedVars(p), NEW w
  PROVE  /\ \A j : Written(p, w, j)' <=> Written(p, w, j)
         /\ Acknowledged(p, w)' <=> Acknowledged(p, w)
<1>1. ASSUME NEW j PROVE Written(p, w, j)' <=> Written(p, w, j)
  <2>1. \A m : MongoHolds(p, w, m)' <=> MongoHolds(p, w, m)
    BY DEF MongoHolds, storedVars
  <2> QED BY <2>1 DEF Written, storedVars
<1>2. Acknowledged(p, w)' <=> Acknowledged(p, w)
  BY DEF Acknowledged, storedVars
<1> QED BY <1>1, <1>2

LEMMA LineQuiet ==
  ASSUME NEW p \in Partitions, PartitionInv(p), UNCHANGED lineVars(p)
  PROVE  PartitionInv(p)'
<1> USE DEF lineVars
<1>1. ASSUME NEW q \in Nat PROVE Passing(p, q)' <=> Passing(p, q)
  <2>1. \A v, r \in Nat : Moving(p, q, v, r)' <=> Moving(p, q, v, r)
    BY DEF Moving, Entering
  <2> QED BY <2>1 DEF Passing
<1>2. ASSUME NEW w \in Nat PROVE InLine(p, w)' <=> InLine(p, w)
  <2>1. \A b, q \in Nat : Slices(p, w, b, q)' <=> Slices(p, w, b, q)
    BY <1>1 DEF Slices
  <2> QED BY <2>1 DEF InLine
<1>3. UNCHANGED storedVars(p)
  BY DEF storedVars
<1> QED BY <1>2, <1>3, StoredQuiet DEF PartitionInv

-----------------------------------------------------------------------------
(* The stream and the engine: no goroutine of a partition is touched.      *)

LEMMA OutsideQuiet ==
  ASSUME Stream \/ EngineRun
  PROVE  UNCHANGED insideVars
<1>1. CASE Stream
  BY <1>1 DEF Stream, StartSession, ServerAnswers, SessionEnds, SourceReturns, ReaderReceives,
     ReaderSends, ReaderEnds, partitionVars
<1>2. CASE EngineRun
  BY <1>2 DEF EngineRun, CancelRun, StopDispatching, DispatchLive, JoinSource,
     DispatchDrained, CloseIngress, JoinPartitions, partitionVars
<1> QED BY <1>1, <1>2

\* dispatch puts an observation into the partition of its symbol.
LEMMA DispatchTypes ==
  ASSUME ArrivalTypeInv, ingest # <<>>, NEW refused, Dispatch(Head(ingest), refused)
  PROVE  /\ DOMAIN ingress' = Partitions
         /\ \A p \in Partitions : ingress'[p] \in Seq(Routed(p))
<1> DEFINE o == Head(ingest)
<1>1. o \in Observation
  BY DEF ArrivalTypeInv
<1>2. CASE UNCHANGED ingress
  BY <1>2 DEF ArrivalTypeInv
<1>3. CASE /\ o.symbol \in Symbols
           /\ ingress' = [ingress EXCEPT ![PartitionOf[o.symbol]] = Append(@, o)]
  <2> DEFINE p == PartitionOf[o.symbol]
  <2>1. p \in Partitions /\ o \in Routed(p)
    BY <1>1, <1>3, CollectorAssumption DEF Routed
  <2> HIDE DEF p, o
  <2>2. ingress' = [ingress EXCEPT ![p] = Append(@, o)]
    BY <1>3 DEF p
  <2>3. Append(ingress[p], o) \in Seq(Routed(p))
    BY <2>1 DEF ArrivalTypeInv
  <2> QED BY <2>1, <2>2, <2>3 DEF ArrivalTypeInv
<1> QED BY <1>2, <1>3 DEF Dispatch

LEMMA OutsideTypes ==
  ASSUME ArrivalTypeInv, Stream \/ EngineRun
  PROVE  ArrivalTypeInv'
<1>1. CASE StartSession \/ SessionEnds \/ SourceReturns \/ \E r \in Readers : ServerAnswers(r)
  <2>1. UNCHANGED <<inHand, ingest, ingress>>
    BY <1>1 DEF StartSession, ServerAnswers, SessionEnds, SourceReturns, streamVars, engineVars,
       partitionVars
  <2> QED BY <2>1 DEF ArrivalTypeInv
<1>2. ASSUME NEW r \in Readers, ReaderReceives(r) PROVE ArrivalTypeInv'
  BY <1>2 DEF ArrivalTypeInv, ReaderReceives, engineVars, partitionVars
<1>3. ASSUME NEW r \in Readers, ReaderSends(r) PROVE ArrivalTypeInv'
  <2>1. ingest \o inHand[r] \in Seq(Observation)
    BY ConcatParts DEF ArrivalTypeInv
  <2>2. UNCHANGED ingress
    BY <1>3 DEF ReaderSends, partitionVars
  <2>3. \/ ingest' = ingest /\ inHand' = inHand
        \/ ingest' = ingest \o inHand[r] /\ inHand' = [inHand EXCEPT ![r] = <<>>]
    BY <1>3, Zenon DEF ReaderSends
  <2>4. [inHand EXCEPT ![r] = <<>>] \in [Readers -> Seq(Observation)]
    BY DEF ArrivalTypeInv
  <2> QED BY <2>1, <2>2, <2>3, <2>4 DEF ArrivalTypeInv
<1>4. ASSUME NEW r \in Readers, ReaderEnds(r) PROVE ArrivalTypeInv'
  BY <1>4 DEF ArrivalTypeInv, ReaderEnds, engineVars, partitionVars
<1>5. CASE CancelRun \/ StopDispatching \/ JoinSource \/ JoinPartitions \/ CloseIngress
  BY <1>5 DEF ArrivalTypeInv, CancelRun, StopDispatching, JoinSource, JoinPartitions,
     CloseIngress, streamVars, partitionVars
<1>6. CASE DispatchLive \/ DispatchDrained
  <2>1. ingest # <<>> /\ ingest' = Tail(ingest) /\ UNCHANGED inHand
        /\ \E refused \in BOOLEAN : Dispatch(Head(ingest), refused)
    BY <1>6 DEF DispatchLive, DispatchDrained, streamVars
  <2>2. ingest' \in Seq(Observation)
    BY <2>1 DEF ArrivalTypeInv
  <2> QED BY <2>1, <2>2, DispatchTypes DEF ArrivalTypeInv
<1> QED BY <1>1, <1>2, <1>3, <1>4, <1>5, <1>6 DEF Stream, EngineRun

LEMMA OutsideInv ==
  ASSUME CollectorInv, Stream \/ EngineRun
  PROVE  CollectorInv' /\ UNCHANGED <<log, jsonl, mongo>>
<1>1. UNCHANGED insideVars
  BY OutsideQuiet
<1>2. ArrivalTypeInv'
  BY OutsideTypes DEF CollectorInv
<1>3. StageTypeInv'
  BY <1>1 DEF CollectorInv, StageTypeInv, insideVars, numberVars, readyVars, persistVars,
     writeVars
<1>4. ASSUME NEW p \in Partitions PROVE PartitionInv(p)'
  BY <1>1, LineQuiet DEF CollectorInv, lineVars, insideVars, numberVars, readyVars,
     persistVars, writeVars
<1> QED BY <1>1, <1>2, <1>3, <1>4 DEF CollectorInv, insideVars, numberVars, writeVars

-----------------------------------------------------------------------------
(* The goroutines of one partition leave the others alone.                 *)

LEMMA OthersQuiet ==
  ASSUME StageTypeInv, NEW p \in Partitions, NEW q \in Partitions, q # p,
         SequenceLoop(p) \/ TransferLoop(p) \/ PersistLoop(p)
  PROVE  UNCHANGED lineVars(q)
<1> USE DEF StageTypeInv, lineVars, OutsideWritingUnchanged, outerVars, numberVars, readyVars,
            persistVars, writeVars
<1>1. CASE SequenceLoop(p)
  BY <1>1 DEF SequenceLoop, SequencePop, SequencePush, SequenceEnds
<1>2. CASE TransferLoop(p)
  BY <1>2 DEF TransferLoop, TransferPop, TransferPush, TransferEnds
<1>3. CASE PersistReceive(p) \/ PersistFlush(p) \/ PersistEnds(p) \/ WriteJsonl(p)
  BY <1>3 DEF PersistReceive, PersistFlush, PersistEnds, WriteJsonl
<1>4. CASE JsonlFails(p) \/ WriteMongo(p) \/ MongoFails(p)
  BY <1>4 DEF JsonlFails, WriteMongo, MongoFails
<1> QED BY <1>1, <1>2, <1>3, <1>4 DEF PersistLoop

-----------------------------------------------------------------------------
(* sequenceLoop.                                                           *)

LEMMA PoppedTypes ==
  ASSUME ArrivalTypeInv, StageTypeInv, NEW p \in Partitions, SequencePop(p)
  PROVE  /\ ArrivalTypeInv' /\ StageTypeInv'
         /\ Number(Head(ingress[p])) \in Numbered
<1> DEFINE o == Head(ingress[p])
           e == Number(o)
<1>1. /\ o \in Routed(p) /\ Tail(ingress[p]) \in Seq(Routed(p))
  BY DEF ArrivalTypeInv, SequencePop
<1>2. o.symbol \in Symbols /\ o.time \in Times /\ o.time \in Nat /\ o.payload \in Payloads
  BY <1>1, CollectorAssumption DEF Routed
<1>3. e \in Numbered
  BY <1>2, SMTT(30) DEF Number, Numbered, StageTypeInv
<1>4. /\ nextNo' = [nextNo EXCEPT ![o.symbol] = @ + 1]
      /\ lastTime' = [lastTime EXCEPT ![o.symbol] = o.time]
      /\ numbering' = [numbering EXCEPT ![p] = <<e>>]
      /\ log' = [log EXCEPT ![p] = Append(@, e)]
      /\ ingress' = [ingress EXCEPT ![p] = Tail(@)]
      /\ UNCHANGED <<inHand, ingest, ready, moving, persist, batch, jsonl, mongo, readyClosed,
                     persistClosed, writer, persisted>>
  BY DEF SequencePop, outerVars, streamVars, engineVars, readyVars, persistVars, writeVars
<1> HIDE DEF o, e
<1>5. ArrivalTypeInv'
  BY <1>1, <1>4 DEF ArrivalTypeInv
<1>6. nextNo' \in [Symbols -> Nat] /\ lastTime' \in [Symbols -> Nat]
  BY <1>2, <1>4, SMTT(30) DEF StageTypeInv
<1>7. <<e>> \in Seq(Numbered) /\ Append(log[p], e) \in Seq(Numbered)
  BY <1>3 DEF StageTypeInv
<1>8. numbering' \in [Partitions -> Seq(Numbered)] /\ log' \in [Partitions -> Seq(Numbered)]
  BY <1>4, <1>7 DEF StageTypeInv
<1>9. StageTypeInv'
  BY <1>4, <1>6, <1>8 DEF StageTypeInv
<1> QED BY <1>3, <1>5, <1>9 DEF e, o

\* The log grows at its end: the slices stay where they are, and what is being
\* numbered is the new end.
LEMMA PoppedInv ==
  ASSUME CollectorInv, NEW p \in Partitions, SequencePop(p)
  PROVE  PartitionInv(p)'
<1> DEFINE e == Number(Head(ingress[p]))
           l == log[p]
<1>1. e \in Numbered /\ l \in Seq(Numbered) /\ StageTypeInv'
  BY PoppedTypes DEF CollectorInv, StageTypeInv
<1>2. /\ log'[p] = Append(l, e) /\ numbering'[p] = <<e>>
      /\ ~readyClosed[p] /\ numbering[p] = <<>>
      /\ UNCHANGED <<ready, moving, persist, batch, jsonl, mongo, readyClosed, persistClosed,
                     writer, persisted>>
  BY DEF SequencePop, CollectorInv, StageTypeInv, readyVars, persistVars, writeVars
<1> DEFINE n == Append(l, e)
<1>3. /\ Len(n) = Len(l) + 1 /\ n[Len(l) + 1] = e /\ Len(l) \in Nat
      /\ \A i \in 1..Len(l) : n[i] = l[i]
  BY <1>1
<1>4. ASSUME NEW t \in Seq(Numbered), NEW a, NEW b, Slice(t, l, a, b) PROVE Slice(t, n, a, b)
  BY <1>1, <1>4, SliceGrows
<1>5. ASSUME NEW k \in 0..Len(l) PROVE First(n, k) = First(l, k)
  BY <1>1, <1>5, FirstOfLonger
<1> HIDE DEF n, e
<1>6. PICK w, b, q \in Nat, j \in 0..Len(batch[p]) :
        Slices(p, w, b, q) /\ Written(p, w, j) /\ Acknowledged(p, w)
  BY DEF CollectorInv, PartitionInv, InLine
<1>7. w + Len(batch[p]) <= Len(l) /\ Len(batch[p]) \in Nat
  BY <1>6 DEF Slices, Slice
<1>8. log'[p] = n
  BY <1>2 DEF n
<1>9. ASSUME NEW v \in Nat, NEW r \in Nat, Moving(p, q, v, r) PROVE Moving(p, q, v, r)'
  <2>1. Slice(moving[p], n, q, v) /\ Slice(ready[p], n, v, r)
    BY <1>4, <1>9 DEF Moving, CollectorInv, StageTypeInv
  <2>2. r = Len(l)
    BY <1>2, <1>9, EmptyIsNoWay DEF Moving, Entering
  <2>3. Slice(<<e>>, n, r, Len(n))
    BY <1>3, <2>2 DEF Slice
  <2> QED BY <1>2, <1>8, <2>1, <2>3 DEF Moving, Entering
<1>10. Slices(p, w, b, q)'
  <2>1. Slice(batch[p], n, w, b) /\ Slice(persist[p], n, b, q)
    BY <1>4, <1>6 DEF Slices, CollectorInv, StageTypeInv
  <2>2. Passing(p, q)'
    BY <1>2, <1>6, <1>9 DEF Slices, Passing
  <2> QED BY <1>2, <1>8, <2>1, <2>2 DEF Slices
<1>11. Written(p, w, j)'
  <2>1. First(n, w + j) = First(l, w + j) /\ \A m \in 0..j : First(n, w + m) = First(l, w + m)
    BY <1>5, <1>7
  <2>2. \A m \in 0..j : MongoHolds(p, w, m) => MongoHolds(p, w, m)'
    BY <1>2, <1>8, <2>1 DEF MongoHolds
  <2> QED BY <1>2, <1>6, <1>8, <2>1, <2>2 DEF Written
<1>12. Acknowledged(p, w)' <=> Acknowledged(p, w)
  BY <1>2 DEF Acknowledged
<1> QED BY <1>2, <1>6, <1>10, <1>11, <1>12 DEF CollectorInv, PartitionInv, InLine

\* What is being numbered is the end of the slices and moves into stage 2; a
\* refused push ends the slices before it.
LEMMA SequencePushInv ==
  ASSUME CollectorInv, NEW p \in Partitions, SequencePush(p) \/ SequenceEnds(p)
  PROVE  StageTypeInv' /\ PartitionInv(p)'
<1>1. /\ UNCHANGED <<nextNo, lastTime, log, moving, persist, batch, jsonl, mongo,
                     persistClosed, writer, persisted>>
      /\ numbering' = [numbering EXCEPT ![p] = <<>>]
      /\ \/ /\ numbering[p] # <<>> /\ UNCHANGED readyClosed
            /\ ready' = [ready EXCEPT ![p] = ready[p] \o numbering[p]]
         \/ /\ readyClosed' = [readyClosed EXCEPT ![p] = TRUE] /\ UNCHANGED ready
  <2>1. CASE SequencePush(p)
    BY <2>1 DEF SequencePush, persistVars, writeVars
  <2>2. CASE SequenceEnds(p)
    BY <2>2 DEF SequenceEnds, numberVars, persistVars, writeVars, CollectorInv, StageTypeInv
  <2> QED BY <2>1, <2>2
<1> DEFINE s == ready[p] \o numbering[p]
<1>2. s \in Seq(Numbered)
  BY ConcatParts DEF CollectorInv, StageTypeInv
<1>3. StageTypeInv'
  <2>1. numbering' \in [Partitions -> Seq(Numbered)] /\ readyClosed' \in [Partitions -> BOOLEAN]
    <3>1. /\ numbering' = [numbering EXCEPT ![p] = <<>>]
          /\ readyClosed' = readyClosed \/ readyClosed' = [readyClosed EXCEPT ![p] = TRUE]
      BY <1>1, Zenon
    <3>2. <<>> \in Seq(Numbered)
      OBVIOUS
    <3> QED BY <3>1, <3>2 DEF CollectorInv, StageTypeInv
  <2>2. ready' = ready \/ ready' = [ready EXCEPT ![p] = s]
    BY <1>1, Zenon
  <2> HIDE DEF s
  <2>3. ready' \in [Partitions -> Seq(Numbered)]
    BY <1>2, <2>2 DEF CollectorInv, StageTypeInv
  <2> QED BY <1>1, <2>1, <2>3 DEF CollectorInv, StageTypeInv
<1>4. PICK w, b, q \in Nat, j \in 0..Len(batch[p]) :
        Slices(p, w, b, q) /\ Written(p, w, j) /\ Acknowledged(p, w)
  BY DEF CollectorInv, PartitionInv, InLine
<1>5. /\ numbering'[p] = <<>>
      /\ \/ ~readyClosed[p] /\ ~readyClosed'[p] /\ ready'[p] = s
         \/ readyClosed'[p] /\ ready'[p] = ready[p]
  BY <1>1 DEF CollectorInv, StageTypeInv, PartitionInv
<1>6. ASSUME NEW v \in Nat, NEW r \in Nat, Moving(p, q, v, r)
      PROVE  Passing(p, q)'
  <2>1. CASE readyClosed'[p] /\ ready'[p] = ready[p]
    BY <1>1, <1>6, <2>1 DEF Passing, Moving, Entering
  <2>2. CASE ~readyClosed[p] /\ ~readyClosed'[p] /\ ready'[p] = s
    <3>1. Slice(s, log[p], v, Len(log[p])) /\ Len(log[p]) \in Nat
      BY <1>6, <2>2, SlicesJoin DEF Moving, Entering, CollectorInv, StageTypeInv
    <3>2. Slice(<<>>, log[p], Len(log[p]), Len(log[p]))
      BY <3>1 DEF Slice
    <3>3. Moving(p, q, v, Len(log[p]))'
      BY <1>1, <1>5, <1>6, <2>2, <3>1, <3>2 DEF Moving, Entering
    <3> QED BY <3>1, <3>3 DEF Passing
  <2> QED BY <1>5, <2>1, <2>2
<1>7. Slices(p, w, b, q)'
  BY <1>1, <1>4, <1>6 DEF Slices, Passing
<1>8. UNCHANGED storedVars(p)
  BY <1>1 DEF storedVars
<1> QED BY <1>1, <1>3, <1>4, <1>5, <1>7, <1>8, StoredQuiet DEF CollectorInv, PartitionInv, InLine

-----------------------------------------------------------------------------
(* transferLoop.                                                           *)

LEMMA TransferPopInv ==
  ASSUME CollectorInv, NEW p \in Partitions, TransferPop(p)
  PROVE  StageTypeInv' /\ PartitionInv(p)'
<1>1. /\ UNCHANGED <<nextNo, lastTime, log, numbering, persist, batch, jsonl, mongo,
                     readyClosed, persistClosed, writer, persisted>>
      /\ ~persistClosed[p] /\ moving[p] = <<>> /\ ready[p] # <<>>
      /\ moving' = [moving EXCEPT ![p] = <<Head(ready[p])>>]
      /\ ready' = [ready EXCEPT ![p] = Tail(@)]
  BY DEF TransferPop, numberVars, persistVars, writeVars
<1>2. <<Head(ready[p])>> \in Seq(Numbered) /\ Tail(ready[p]) \in Seq(Numbered)
  BY <1>1 DEF CollectorInv, StageTypeInv
<1>3. StageTypeInv'
  BY <1>1, <1>2 DEF CollectorInv, StageTypeInv
<1>4. PICK w, b, q \in Nat, j \in 0..Len(batch[p]) :
        Slices(p, w, b, q) /\ Written(p, w, j) /\ Acknowledged(p, w)
  BY DEF CollectorInv, PartitionInv, InLine
<1>5. moving'[p] = <<Head(ready[p])>> /\ ready'[p] = Tail(ready[p])
  BY <1>1 DEF CollectorInv, StageTypeInv
<1>6. PICK v, r \in Nat : Moving(p, q, v, r)
  BY <1>1, <1>4 DEF Slices, Passing
<1>7. q = v
  BY <1>1, <1>6, EmptyIsNoWay DEF Moving
<1>8. Slice(<<Head(ready[p])>>, log[p], q, q + 1) /\ Slice(Tail(ready[p]), log[p], q + 1, r)
  BY <1>1, <1>6, <1>7, SliceTaken DEF Moving, CollectorInv, StageTypeInv
<1>9. Moving(p, q, q + 1, r)'
  BY <1>1, <1>5, <1>6, <1>8 DEF Moving, Entering
<1>10. Slices(p, w, b, q)'
  BY <1>1, <1>4, <1>9 DEF Slices, Passing
<1>11. UNCHANGED storedVars(p)
  BY <1>1 DEF storedVars
<1> QED BY <1>1, <1>3, <1>4, <1>10, <1>11, StoredQuiet DEF CollectorInv, PartitionInv, InLine

LEMMA TransferPushInv ==
  ASSUME CollectorInv, NEW p \in Partitions, TransferPush(p) \/ TransferEnds(p)
  PROVE  StageTypeInv' /\ PartitionInv(p)'
<1>1. /\ UNCHANGED <<nextNo, lastTime, log, numbering, ready, batch, jsonl, mongo,
                     readyClosed, writer, persisted>>
      /\ moving' = [moving EXCEPT ![p] = <<>>]
      /\ \/ /\ moving[p] # <<>> /\ UNCHANGED persistClosed
            /\ persist' = [persist EXCEPT ![p] = persist[p] \o moving[p]]
         \/ /\ persistClosed' = [persistClosed EXCEPT ![p] = TRUE] /\ UNCHANGED persist
  <2>1. CASE TransferPush(p)
    BY <2>1 DEF TransferPush, numberVars, writeVars
  <2>2. CASE TransferEnds(p)
    BY <2>2 DEF TransferEnds, numberVars, readyVars, writeVars, CollectorInv, StageTypeInv
  <2> QED BY <2>1, <2>2
<1> DEFINE s == persist[p] \o moving[p]
<1>2. s \in Seq(Numbered)
  BY ConcatParts DEF CollectorInv, StageTypeInv
<1>3. StageTypeInv'
  <2>1. moving' \in [Partitions -> Seq(Numbered)] /\ persistClosed' \in [Partitions -> BOOLEAN]
    <3>1. /\ moving' = [moving EXCEPT ![p] = <<>>]
          /\ persistClosed' = persistClosed \/ persistClosed' = [persistClosed EXCEPT ![p] = TRUE]
      BY <1>1, Zenon
    <3>2. <<>> \in Seq(Numbered)
      OBVIOUS
    <3> QED BY <3>1, <3>2 DEF CollectorInv, StageTypeInv
  <2>2. persist' = persist \/ persist' = [persist EXCEPT ![p] = s]
    BY <1>1, Zenon
  <2> HIDE DEF s
  <2>3. persist' \in [Partitions -> Seq(Numbered)]
    BY <1>2, <2>2 DEF CollectorInv, StageTypeInv
  <2> QED BY <1>1, <2>1, <2>3 DEF CollectorInv, StageTypeInv
<1>4. PICK w, b, q \in Nat, j \in 0..Len(batch[p]) :
        Slices(p, w, b, q) /\ Written(p, w, j) /\ Acknowledged(p, w)
  BY DEF CollectorInv, PartitionInv, InLine
<1>5. /\ moving'[p] = <<>>
      /\ \/ ~persistClosed[p] /\ ~persistClosed'[p] /\ persist'[p] = s
         \/ persistClosed'[p] /\ persist'[p] = persist[p]
  BY <1>1 DEF CollectorInv, StageTypeInv, PartitionInv
<1>6. InLine(p, w)'
  <2>1. CASE persistClosed'[p] /\ persist'[p] = persist[p]
    <3>1. Slices(p, w, b, q)'
      BY <1>1, <1>4, <2>1 DEF Slices, Passing
    <3> QED BY <3>1 DEF InLine
  <2>2. CASE ~persistClosed[p] /\ ~persistClosed'[p] /\ persist'[p] = s
    <3>1. PICK v, r \in Nat : Moving(p, q, v, r)
      BY <1>4, <2>2 DEF Slices, Passing
    <3>2. Slice(s, log[p], b, v)
      BY <1>4, <3>1, SlicesJoin DEF Slices, Moving, CollectorInv, StageTypeInv
    <3>3. Slice(<<>>, log[p], v, v)
      BY <3>2 DEF Slice
    <3>4. Moving(p, v, v, r)'
      BY <1>1, <1>5, <3>1, <3>3 DEF Moving, Entering
    <3>5. Slices(p, w, b, v)'
      BY <1>1, <1>4, <2>2, <3>2, <3>4 DEF Slices, Passing
    <3> QED BY <3>5 DEF InLine
  <2> QED BY <1>5, <2>1, <2>2
<1>7. UNCHANGED storedVars(p)
  BY <1>1 DEF storedVars
<1> QED BY <1>1, <1>3, <1>4, <1>5, <1>6, <1>7, StoredQuiet DEF CollectorInv, PartitionInv

-----------------------------------------------------------------------------
(* persistLoop.                                                            *)

\* One write moves a store along the log by at most a batch.
Advances(l, from, to) ==
  \/ to = from
  \/ \E n \in 0..Len(l), k \in 1..FlushCount :
       n + k <= Len(l) /\ from = First(l, n) /\ to = First(l, n + k)

Stored(l, s, a, f, j, k) ==
  LET g == f \o SubSeq(s, 1, k) IN
    /\ g \in Seq(Numbered) /\ Advances(l, ToSet(f), ToSet(g))
    /\ ToSet(g) = First(l, a + Further(j, k))

LEMMA WriteAdvances ==
  ASSUME NEW l \in Seq(Numbered), NEW s \in Seq(Numbered), NEW a, NEW b, Slice(s, l, a, b),
         Len(s) <= FlushCount, NEW f \in Seq(Numbered), NEW j \in 0..Len(s),
         ToSet(f) = First(l, a + j), NEW k \in 0..Len(s)
  PROVE  Stored(l, s, a, f, j, k)
<1> DEFINE g == f \o SubSeq(s, 1, k)
           i == Further(j, k)
<1>1. g \in Seq(Numbered)
  <2>1. SubSeq(s, 1, k) \in Seq(Numbered)
    OBVIOUS
  <2> QED BY <2>1, ConcatParts
<1>2. ToSet(g) = First(l, a + i)
  BY WrittenSlice
<1> HIDE DEF g
<1>3. i = j \/ (i - j \in 1..FlushCount /\ a + j \in 0..Len(l) /\ a + j + (i - j) = a + i
                /\ a + i <= Len(l))
  BY CollectorAssumption DEF Slice, Further
<1> HIDE DEF i
<1>4. CASE i = j
  BY <1>1, <1>2, <1>4 DEF Advances, Stored, g, i
<1>5. CASE i - j \in 1..FlushCount /\ a + j \in 0..Len(l) /\ a + j + (i - j) = a + i
           /\ a + i <= Len(l)
  <2>1. Advances(l, ToSet(f), ToSet(g))
    BY <1>2, <1>5 DEF Advances
  <2> QED BY <1>1, <1>2, <2>1 DEF Stored, g, i
<1> QED BY <1>3, <1>4, <1>5

\* What a write does to the partition whose batch it stores.
Follows(p) ==
  /\ Advances(log[p], ToSet(jsonl[p]), ToSet(jsonl'[p]))
  /\ Advances(log[p], ToSet(mongo[p]), ToSet(mongo'[p]))

LEMMA PersistReceiveInv ==
  ASSUME CollectorInv, NEW p \in Partitions, PersistReceive(p)
  PROVE  StageTypeInv' /\ PartitionInv(p)'
<1>1. /\ UNCHANGED <<nextNo, lastTime, log, numbering, ready, moving, jsonl, mongo,
                     readyClosed, persistClosed, persisted>>
      /\ writer[p] = "collect" /\ persist[p] # <<>>
      /\ batch' = [batch EXCEPT ![p] = Append(@, Head(persist[p]))]
      /\ persist' = [persist EXCEPT ![p] = Tail(@)]
      /\ writer' = [writer EXCEPT ![p] = IF Len(batch[p]) + 1 >= FlushCount THEN "jsonl"
                                         ELSE "collect"]
  BY DEF PersistReceive, OutsideWritingUnchanged, numberVars, readyVars, outerVars
<1> DEFINE c == Append(batch[p], Head(persist[p]))
           t == Tail(persist[p])
<1>2. /\ Head(persist[p]) \in Numbered /\ t \in Seq(Numbered) /\ c \in Seq(Numbered)
      /\ batch[p] \in Seq(Numbered) /\ persist[p] \in Seq(Numbered) /\ log[p] \in Seq(Numbered)
  BY <1>1 DEF CollectorInv, StageTypeInv
<1>3. StageTypeInv'
  BY <1>1, <1>2 DEF CollectorInv, StageTypeInv
<1>4. PICK w, b, q \in Nat, j \in 0..Len(batch[p]) :
        Slices(p, w, b, q) /\ Written(p, w, j) /\ Acknowledged(p, w)
  BY DEF CollectorInv, PartitionInv, InLine
<1>5. j = 0
  BY <1>1, <1>4 DEF Written
<1>6. batch'[p] = c /\ persist'[p] = t
  BY <1>1 DEF CollectorInv, StageTypeInv
<1>7. Slice(<<Head(persist[p])>>, log[p], b, b + 1) /\ Slice(t, log[p], b + 1, q)
  BY <1>1, <1>2, <1>4, SliceTaken DEF Slices
<1>8. c = batch[p] \o <<Head(persist[p])>>
  BY <1>2
<1>9. Slice(c, log[p], w, b + 1)
  <2>1. <<Head(persist[p])>> \in Seq(Numbered)
    BY <1>2
  <2> HIDE DEF c
  <2> QED BY <1>2, <1>4, <1>7, <1>8, <2>1, SlicesJoin DEF Slices
<1>10. Len(c) = Len(batch[p]) + 1 /\ Len(batch[p]) \in Nat
  BY <1>2
<1> HIDE DEF c, t
<1>11. Passing(p, q)'
  BY <1>1, <1>4 DEF Slices, Passing, Moving, Entering
<1>12. Slices(p, w, b + 1, q)'
  BY <1>1, <1>6, <1>7, <1>9, <1>11 DEF Slices
<1>13. writer'[p] = IF Len(batch[p]) + 1 >= FlushCount THEN "jsonl" ELSE "collect"
  BY <1>1 DEF CollectorInv, StageTypeInv
<1>14. Written(p, w, 0)'
  <2>1. \A m \in 0..0 : MongoHolds(p, w, m) => MongoHolds(p, w, m)'
    BY <1>1 DEF MongoHolds
  <2> QED BY <1>1, <1>4, <1>5, <1>13, <2>1 DEF Written
<1>15. Acknowledged(p, w) => Acknowledged(p, w)'
  BY <1>1, <1>13 DEF Acknowledged
<1>16. Len(c) <= FlushCount /\ (writer'[p] = "collect" => Len(c) < FlushCount) /\ 0 \in 0..Len(c)
  BY <1>1, <1>10, <1>13, CollectorAssumption DEF CollectorInv, PartitionInv
<1>17. (readyClosed'[p] => numbering'[p] = <<>>) /\ (persistClosed'[p] => moving'[p] = <<>>)
  BY <1>1 DEF CollectorInv, PartitionInv
<1> QED BY <1>3, <1>4, <1>6, <1>12, <1>14, <1>15, <1>16, <1>17 DEF PartitionInv, InLine

LEMMA PersistFlushInv ==
  ASSUME CollectorInv, NEW p \in Partitions, PersistFlush(p) \/ PersistEnds(p)
  PROVE  StageTypeInv' /\ PartitionInv(p)'
<1>1. /\ UNCHANGED <<nextNo, lastTime, log, numbering, ready, moving, persist, batch, jsonl,
                     mongo, readyClosed, persistClosed, persisted>>
      /\ writer[p] = "collect"
      /\ \/ writer' = [writer EXCEPT ![p] = "jsonl"]
         \/ writer' = [writer EXCEPT ![p] = "ended"] /\ batch[p] = <<>>
  BY DEF PersistFlush, PersistEnds, OutsideWritingUnchanged, numberVars, readyVars, persistVars,
     outerVars
<1>2. StageTypeInv' /\ (writer'[p] = "jsonl" \/ (writer'[p] = "ended" /\ batch[p] = <<>>))
  BY <1>1 DEF CollectorInv, StageTypeInv
<1>3. PICK w, b, q \in Nat, j \in 0..Len(batch[p]) :
        Slices(p, w, b, q) /\ Written(p, w, j) /\ Acknowledged(p, w)
  BY DEF CollectorInv, PartitionInv, InLine
<1>4. j = 0
  BY <1>1, <1>3 DEF Written
<1>5. Slices(p, w, b, q)'
  BY <1>1, <1>3 DEF Slices, Passing, Moving, Entering
<1>6. Written(p, w, j)'
  <2>1. \A m \in 0..0 : MongoHolds(p, w, m) => MongoHolds(p, w, m)'
    BY <1>1 DEF MongoHolds
  <2> QED BY <1>1, <1>2, <1>3, <1>4, <2>1 DEF Written
<1>7. Len(batch[p]) \in Nat /\ (batch[p] = <<>> => Len(batch[p]) = 0)
  BY DEF CollectorInv, StageTypeInv
<1>8. Acknowledged(p, w) => Acknowledged(p, w)'
  BY <1>1, <1>2, <1>7 DEF Acknowledged
<1> QED BY <1>1, <1>2, <1>3, <1>5, <1>6, <1>8 DEF CollectorInv, PartitionInv, InLine

\* A write of the file.  A successful one hands the batch on to Mongo, or ends
\* it; a failed one may have left any number of its lines.
LEMMA JsonlInv ==
  ASSUME CollectorInv, NEW p \in Partitions, WriteJsonl(p) \/ JsonlFails(p)
  PROVE  StageTypeInv' /\ PartitionInv(p)' /\ Follows(p)
<1>1. /\ UNCHANGED <<nextNo, lastTime, log, numbering, ready, moving, persist, mongo,
                     readyClosed, persistClosed>>
      /\ writer[p] = "jsonl"
  BY DEF WriteJsonl, JsonlFails, OutsideWritingUnchanged, numberVars, readyVars, persistVars,
     outerVars
<1> DEFINE s == batch[p]
           f == jsonl[p]
           l == log[p]
<1>2. s \in Seq(Numbered) /\ f \in Seq(Numbered) /\ l \in Seq(Numbered) /\ Len(s) <= FlushCount
      /\ Len(s) \in Nat /\ SubSeq(s, 1, Len(s)) = s /\ persisted[p] \in Nat
  BY DEF CollectorInv, StageTypeInv, PartitionInv
<1>3. PICK w, b, q \in Nat, j \in 0..Len(s) :
        Slices(p, w, b, q) /\ Written(p, w, j) /\ Acknowledged(p, w)
  BY DEF CollectorInv, PartitionInv, InLine
<1>4. Slice(s, l, w, b) /\ ToSet(f) = First(l, w + j) /\ w + Len(s) = b
  BY <1>2, <1>3 DEF Slices, Written, Slice
<1> DEFINE g(k) == f \o SubSeq(s, 1, k)
           i(k) == Further(j, k)
<1>5. ASSUME NEW k \in 0..Len(s)
      PROVE  /\ g(k) \in Seq(Numbered) /\ Advances(l, ToSet(f), ToSet(g(k)))
             /\ ToSet(g(k)) = First(l, w + i(k)) /\ i(k) \in 0..Len(s)
  <2> HIDE DEF s, f, l
  <2>1. Stored(l, s, w, f, j, k)
    <3>1. Slice(s, l, w, b) /\ ToSet(f) = First(l, w + j) /\ j \in 0..Len(s) /\ k \in 0..Len(s)
          /\ s \in Seq(Numbered) /\ f \in Seq(Numbered) /\ l \in Seq(Numbered)
          /\ Len(s) <= FlushCount
      BY <1>2, <1>4, <1>5
    <3> HIDE DEF g, i
    <3> QED BY <3>1, WriteAdvances
  <2> QED BY <1>3, <1>5, <2>1 DEF Stored, Further
<1>6. PICK k \in 0..Len(s) :
        /\ jsonl' = [jsonl EXCEPT ![p] = g(k)]
        /\ \/ /\ k = Len(s) /\ MongoEnabled /\ UNCHANGED batch
              /\ writer' = [writer EXCEPT ![p] = "mongo"]
              /\ persisted' = [persisted EXCEPT ![p] = @ + Len(s)]
           \/ /\ k = Len(s) /\ ~MongoEnabled /\ batch' = [batch EXCEPT ![p] = <<>>]
              /\ writer' = [writer EXCEPT ![p] = "collect"]
              /\ persisted' = [persisted EXCEPT ![p] = @ + Len(s)]
           \/ UNCHANGED <<batch, writer, persisted>>
  <2>1. CASE WriteJsonl(p)
    <3>1. jsonl' = [jsonl EXCEPT ![p] = g(Len(s))] /\ Len(s) \in 0..Len(s)
      <4>1. g(Len(s)) = jsonl[p] \o batch[p]
        BY <1>2
      <4> HIDE DEF g
      <4> QED BY <1>2, <2>1, <4>1 DEF WriteJsonl
    <3>2. \/ /\ MongoEnabled /\ UNCHANGED batch
             /\ writer' = [writer EXCEPT ![p] = "mongo"]
             /\ persisted' = [persisted EXCEPT ![p] = @ + Len(s)]
          \/ /\ ~MongoEnabled /\ batch' = [batch EXCEPT ![p] = <<>>]
             /\ writer' = [writer EXCEPT ![p] = "collect"]
             /\ persisted' = [persisted EXCEPT ![p] = @ + Len(s)]
      BY <2>1, CollectorAssumption DEF WriteJsonl, CollectorInv, StageTypeInv
    <3> QED BY <3>1, <3>2
  <2>2. CASE JsonlFails(p)
    <3>1. UNCHANGED <<batch, writer, persisted>>
      BY <2>2 DEF JsonlFails
    <3>2. CASE jsonl' = [jsonl EXCEPT ![p] = @ \o batch[p]]
      <4>1. jsonl' = [jsonl EXCEPT ![p] = g(Len(s))] /\ Len(s) \in 0..Len(s)
        <5>1. g(Len(s)) = jsonl[p] \o batch[p]
          BY <1>2
        <5> HIDE DEF g
        <5> QED BY <1>2, <3>2, <5>1
      <4> QED BY <3>1, <4>1
    <3>3. CASE \E k \in 0..Len(batch[p]) - 1 :
                 jsonl' = [jsonl EXCEPT ![p] = @ \o SubSeq(batch[p], 1, k)]
      <4>1. PICK k \in 0..Len(s) - 1 : jsonl' = [jsonl EXCEPT ![p] = g(k)]
        BY <3>3
      <4>2. k \in 0..Len(s)
        BY <1>2
      <4> QED BY <3>1, <4>1, <4>2
    <3> QED BY <2>2, <3>2, <3>3 DEF JsonlFails
  <2> QED BY <2>1, <2>2
<1> DEFINE file == g(k)
           e == i(k)
<1>7. /\ file \in Seq(Numbered) /\ Advances(l, ToSet(f), ToSet(file))
      /\ ToSet(file) = First(l, w + e) /\ e \in 0..Len(s) /\ (k = Len(s) => e = Len(s))
      /\ j <= e
  BY <1>2, <1>5 DEF Further
<1>8. jsonl' = [jsonl EXCEPT ![p] = file]
  BY <1>6
<1> HIDE DEF file, e, g, i
<1>9. jsonl'[p] = file /\ mongo'[p] = mongo[p]
  BY <1>1, <1>8 DEF CollectorInv, StageTypeInv
<1>10. Follows(p)
  BY <1>7, <1>9 DEF Follows, Advances
<1>11. jsonl' \in [Partitions -> Seq(Numbered)]
  BY <1>7, <1>8 DEF CollectorInv, StageTypeInv
<1>12. StageTypeInv'
  <2>1. /\ batch' = batch \/ batch' = [batch EXCEPT ![p] = <<>>]
        /\ writer' = writer \/ \E x \in {"mongo", "collect"} : writer' = [writer EXCEPT ![p] = x]
        /\ persisted' = persisted \/ persisted' = [persisted EXCEPT ![p] = @ + Len(s)]
    BY <1>6
  <2>2. batch' \in [Partitions -> Seq(Numbered)]
    <3>1. <<>> \in Seq(Numbered) /\ (batch' = batch \/ batch' = [batch EXCEPT ![p] = <<>>])
      BY <2>1
    <3> QED BY <3>1 DEF CollectorInv, StageTypeInv
  <2>3. persisted' \in [Partitions -> Nat]
    <3>1. persisted[p] + Len(s) \in Nat
      BY <1>2
    <3> HIDE DEF s
    <3>2. persisted' = persisted \/ persisted' = [persisted EXCEPT ![p] = persisted[p] + Len(s)]
      BY <2>1
    <3> QED BY <3>1, <3>2 DEF CollectorInv, StageTypeInv
  <2>4. writer' \in [Partitions -> {"collect", "jsonl", "mongo", "ended"}]
    BY <2>1 DEF CollectorInv, StageTypeInv
  <2> QED BY <1>1, <1>11, <2>2, <2>3, <2>4 DEF CollectorInv, StageTypeInv
<1>13. (readyClosed'[p] => numbering'[p] = <<>>) /\ (persistClosed'[p] => moving'[p] = <<>>)
  BY <1>1 DEF CollectorInv, PartitionInv
<1>14. Passing(p, q)'
  BY <1>1, <1>3 DEF Slices, Passing, Moving, Entering
<1>15. CASE ~MongoEnabled /\ k = Len(s) /\ batch'[p] = <<>> /\ writer'[p] = "collect"
            /\ persisted'[p] = persisted[p] + Len(s)
  <2>1. Slices(p, b, b, q)'
    <3>1. Slice(persist[p], l, b, q)
      BY <1>3 DEF Slices
    <3>2. b \in 0..Len(l)
      BY <1>2, <1>4 DEF Slice
    <3>3. Slice(<<>>, l, b, b)
      BY <1>2, <3>2, EmptySlice
    <3> QED BY <1>1, <1>14, <1>15, <3>1, <3>3 DEF Slices
  <2>2. ToSet(file) = First(l, b + 0)
    <3>1. w + e = b /\ b + 0 = b
      BY <1>2, <1>4, <1>7, <1>15
    <3> QED BY <1>7, <3>1
  <2>3. Written(p, b, 0)'
    BY <1>1, <1>3, <1>9, <1>15, <2>2 DEF Written
  <2>4. Len(<<>>) = 0 /\ 0 < FlushCount /\ 0 <= FlushCount /\ 0 \in 0..0
    BY CollectorAssumption
  <2>5. Acknowledged(p, b)'
    <3>1. persisted'[p] = persisted[p] + Len(s) /\ persisted[p] <= w
      BY <1>1, <1>3, <1>15 DEF Acknowledged
    <3> QED BY <1>2, <1>4, <1>15, <3>1 DEF Acknowledged
  <2>6. PartitionInv(p)'
    BY <1>13, <1>15, <2>1, <2>3, <2>4, <2>5 DEF PartitionInv, InLine
  <2> QED BY <1>10, <1>12, <2>6
<1>16. CASE UNCHANGED <<batch, writer, persisted>>
            \/ (k = Len(s) /\ MongoEnabled /\ batch'[p] = s /\ writer'[p] = "mongo"
                /\ persisted'[p] = persisted[p] + Len(s))
  <2>1. batch'[p] = s /\ writer'[p] \in {"jsonl", "mongo"}
        /\ (writer'[p] = "mongo" => MongoEnabled /\ k = Len(s))
    BY <1>1, <1>16
  <2>2. Slices(p, w, b, q)'
    BY <1>1, <1>3, <1>14, <2>1 DEF Slices
  <2>3. Written(p, w, e)'
    <3>1. \A m \in 0..j : MongoHolds(p, w, m) => m \in 0..e /\ MongoHolds(p, w, m)'
      BY <1>1, <1>7 DEF MongoHolds
    <3> QED BY <1>1, <1>3, <1>7, <1>9, <2>1, <3>1 DEF Written
  <2>4. Acknowledged(p, w) => Acknowledged(p, w)'
    BY <1>1, <1>2, <1>16, <2>1 DEF Acknowledged
  <2>5. PartitionInv(p)'
    BY <1>2, <1>3, <1>7, <1>13, <2>1, <2>2, <2>3, <2>4 DEF PartitionInv, InLine
  <2> QED BY <1>10, <1>12, <2>5
<1>17. \/ UNCHANGED <<batch, writer, persisted>>
       \/ k = Len(s) /\ MongoEnabled /\ batch'[p] = s /\ writer'[p] = "mongo"
          /\ persisted'[p] = persisted[p] + Len(s)
       \/ ~MongoEnabled /\ k = Len(s) /\ batch'[p] = <<>> /\ writer'[p] = "collect"
          /\ persisted'[p] = persisted[p] + Len(s)
  BY <1>6 DEF CollectorInv, StageTypeInv
<1> QED BY <1>15, <1>16, <1>17

\* A write of Mongo.  A successful one ends the batch; a failed one may have
\* inserted any number of its documents, and may end the loop.
LEMMA MongoInv ==
  ASSUME CollectorInv, NEW p \in Partitions, WriteMongo(p) \/ MongoFails(p)
  PROVE  StageTypeInv' /\ PartitionInv(p)' /\ Follows(p)
<1>1. /\ UNCHANGED <<nextNo, lastTime, log, numbering, ready, moving, persist, jsonl,
                     readyClosed, persistClosed, persisted>>
      /\ writer[p] = "mongo"
  BY DEF WriteMongo, MongoFails, OutsideWritingUnchanged, numberVars, readyVars, persistVars,
     outerVars
<1> DEFINE s == batch[p]
           f == mongo[p]
           l == log[p]
<1>2. s \in Seq(Numbered) /\ f \in Seq(Numbered) /\ l \in Seq(Numbered) /\ Len(s) <= FlushCount
      /\ Len(s) \in Nat /\ SubSeq(s, 1, Len(s)) = s
  BY DEF CollectorInv, StageTypeInv, PartitionInv
<1>3. PICK w, b, q \in Nat, j \in 0..Len(s) :
        Slices(p, w, b, q) /\ Written(p, w, j) /\ Acknowledged(p, w)
  BY DEF CollectorInv, PartitionInv, InLine
<1>4. j = Len(s) /\ MongoEnabled /\ ToSet(jsonl[p]) = First(l, w + j)
  BY <1>1, <1>3 DEF Written
<1>5. PICK h \in 0..j : MongoHolds(p, w, h)
  BY <1>3, <1>4 DEF Written
<1>6. Slice(s, l, w, b) /\ ToSet(f) = First(l, w + h) /\ w + Len(s) = b /\ h \in 0..Len(s)
  BY <1>2, <1>3, <1>4, <1>5 DEF Slices, MongoHolds, Slice
<1> DEFINE g(k) == f \o SubSeq(s, 1, k)
           i(k) == Further(h, k)
<1>7. ASSUME NEW k \in 0..Len(s)
      PROVE  /\ g(k) \in Seq(Numbered) /\ Advances(l, ToSet(f), ToSet(g(k)))
             /\ ToSet(g(k)) = First(l, w + i(k)) /\ i(k) \in 0..Len(s)
  <2> HIDE DEF s, f, l
  <2>1. Stored(l, s, w, f, h, k)
    <3>1. Slice(s, l, w, b) /\ ToSet(f) = First(l, w + h) /\ h \in 0..Len(s) /\ k \in 0..Len(s)
          /\ s \in Seq(Numbered) /\ f \in Seq(Numbered) /\ l \in Seq(Numbered)
          /\ Len(s) <= FlushCount
      BY <1>2, <1>6, <1>7
    <3> HIDE DEF g, i
    <3> QED BY <3>1, WriteAdvances
  <2> QED BY <1>6, <1>7, <2>1 DEF Stored, Further
<1>8. PICK k \in 0..Len(s) :
        /\ mongo' = [mongo EXCEPT ![p] = g(k)]
        /\ \/ /\ k = Len(s) /\ batch' = [batch EXCEPT ![p] = <<>>]
              /\ writer' = [writer EXCEPT ![p] = "collect"]
           \/ UNCHANGED batch /\ (writer' = writer \/ writer' = [writer EXCEPT ![p] = "ended"])
  <2>1. CASE WriteMongo(p)
    <3>1. mongo' = [mongo EXCEPT ![p] = g(Len(s))] /\ Len(s) \in 0..Len(s)
      <4>1. g(Len(s)) = mongo[p] \o batch[p]
        BY <1>2
      <4> HIDE DEF g
      <4> QED BY <1>2, <2>1, <4>1 DEF WriteMongo
    <3> QED BY <2>1, <3>1 DEF WriteMongo
  <2>2. CASE MongoFails(p)
    <3>1. UNCHANGED batch
      BY <2>2 DEF MongoFails
    <3>2. PICK k \in 0..Len(batch[p]) :
            /\ mongo' = [mongo EXCEPT ![p] = @ \o SubSeq(batch[p], 1, k)]
            /\ writer' = writer \/ writer' = [writer EXCEPT ![p] = "ended"]
      BY <2>2 DEF MongoFails
    <3> QED BY <3>1, <3>2
  <2> QED BY <2>1, <2>2
<1> DEFINE file == g(k)
           e == i(k)
<1>9. /\ file \in Seq(Numbered) /\ Advances(l, ToSet(f), ToSet(file))
      /\ ToSet(file) = First(l, w + e) /\ e \in 0..Len(s) /\ (k = Len(s) => e = Len(s))
  BY <1>2, <1>7 DEF Further
<1>10. mongo' = [mongo EXCEPT ![p] = file]
  BY <1>8
<1> HIDE DEF file, e, g, i
<1>11. mongo'[p] = file /\ jsonl'[p] = jsonl[p]
  BY <1>1, <1>10 DEF CollectorInv, StageTypeInv
<1>12. Follows(p)
  BY <1>9, <1>11 DEF Follows, Advances
<1>13. StageTypeInv'
  <2>1. mongo' \in [Partitions -> Seq(Numbered)]
    BY <1>9, <1>10 DEF CollectorInv, StageTypeInv
  <2>2. batch' \in [Partitions -> Seq(Numbered)]
    <3>1. <<>> \in Seq(Numbered) /\ (batch' = batch \/ batch' = [batch EXCEPT ![p] = <<>>])
      BY <1>8
    <3> QED BY <3>1 DEF CollectorInv, StageTypeInv
  <2>3. writer' \in [Partitions -> {"collect", "jsonl", "mongo", "ended"}]
    <3>1. writer' = writer \/ \E x \in {"ended", "collect"} : writer' = [writer EXCEPT ![p] = x]
      BY <1>8
    <3> QED BY <3>1 DEF CollectorInv, StageTypeInv
  <2> QED BY <1>1, <2>1, <2>2, <2>3 DEF CollectorInv, StageTypeInv
<1>14. (readyClosed'[p] => numbering'[p] = <<>>) /\ (persistClosed'[p] => moving'[p] = <<>>)
  BY <1>1 DEF CollectorInv, PartitionInv
<1>15. Passing(p, q)'
  BY <1>1, <1>3 DEF Slices, Passing, Moving, Entering
<1>16. CASE k = Len(s) /\ batch'[p] = <<>> /\ writer'[p] = "collect"
  <2>1. Slices(p, b, b, q)'
    <3>1. Slice(persist[p], l, b, q)
      BY <1>3 DEF Slices
    <3>2. b \in 0..Len(l)
      BY <1>2, <1>6 DEF Slice
    <3>3. Slice(<<>>, l, b, b)
      BY <1>2, <3>2, EmptySlice
    <3> QED BY <1>1, <1>15, <1>16, <3>1, <3>3 DEF Slices
  <2>2. ToSet(file) = First(l, b + 0) /\ ToSet(jsonl[p]) = First(l, b + 0)
    BY <1>4, <1>6, <1>9, <1>16, SMTT(30)
  <2>3. MongoHolds(p, b, 0)' /\ 0 \in 0..0
    BY <1>1, <1>11, <1>16, <2>2 DEF MongoHolds
  <2>4. Written(p, b, 0)'
    BY <1>1, <1>4, <1>11, <1>16, <2>2, <2>3 DEF Written
  <2>5. Len(<<>>) = 0 /\ 0 < FlushCount /\ 0 <= FlushCount /\ 0 \in 0..0
    BY CollectorAssumption
  <2>6. Acknowledged(p, b)'
    <3>1. persisted[p] <= w + Len(s) /\ persisted[p] \in Nat
      BY <1>1, <1>3, <1>4 DEF Acknowledged, CollectorInv, StageTypeInv
    <3> QED BY <1>1, <1>6, <1>16, <3>1 DEF Acknowledged
  <2>7. PartitionInv(p)'
    BY <1>14, <1>16, <2>1, <2>4, <2>5, <2>6 DEF PartitionInv, InLine
  <2> QED BY <1>12, <1>13, <2>7
<1>17. CASE UNCHANGED batch /\ writer'[p] \in {"mongo", "ended"}
  <2>1. Slices(p, w, b, q)'
    BY <1>1, <1>3, <1>15, <1>17 DEF Slices
  <2>2. MongoHolds(p, w, e)' /\ e \in 0..j
    BY <1>1, <1>4, <1>9, <1>11, <1>17 DEF MongoHolds
  <2>3. Written(p, w, j)'
    BY <1>1, <1>4, <1>11, <1>17, <2>2 DEF Written
  <2>4. Acknowledged(p, w)'
    BY <1>1, <1>3, <1>4, <1>17 DEF Acknowledged
  <2>5. PartitionInv(p)'
    BY <1>2, <1>3, <1>14, <1>17, <2>1, <2>3, <2>4 DEF PartitionInv, InLine
  <2> QED BY <1>12, <1>13, <2>5
<1>18. \/ k = Len(s) /\ batch'[p] = <<>> /\ writer'[p] = "collect"
       \/ UNCHANGED batch /\ writer'[p] \in {"mongo", "ended"}
  BY <1>1, <1>8 DEF CollectorInv, StageTypeInv
<1> QED BY <1>16, <1>17, <1>18

-----------------------------------------------------------------------------
(* The invariant, and what every step does to the log and the stores.      *)

\* At most one partition changes its log or its stores in a step, and not both.
LogStep(p) ==
  /\ \A q \in Partitions \ {p} : UNCHANGED <<log[q], jsonl[q], mongo[q]>>
  /\ \/ /\ UNCHANGED <<jsonl, mongo>>
        /\ \/ UNCHANGED log
           \/ \E e \in Numbered : log' = [log EXCEPT ![p] = Append(@, e)]
     \/ UNCHANGED log /\ Follows(p)

LEMMA PartitionStep ==
  ASSUME CollectorInv, NEW p \in Partitions, SequenceLoop(p) \/ TransferLoop(p) \/ PersistLoop(p)
  PROVE  CollectorInv' /\ LogStep(p)
<1>1. ArrivalTypeInv'
  <2>1. CASE SequencePop(p)
    BY <2>1, PoppedTypes DEF CollectorInv
  <2>2. CASE SequencePush(p) \/ SequenceEnds(p) \/ TransferLoop(p)
    <3>1. UNCHANGED <<inHand, ingest, ingress>>
      BY <2>2 DEF SequencePush, SequenceEnds, TransferLoop, TransferPop, TransferPush,
         TransferEnds, outerVars, streamVars, engineVars
    <3> QED BY <3>1 DEF CollectorInv, ArrivalTypeInv
  <2>3. CASE PersistLoop(p)
    <3>1. UNCHANGED <<inHand, ingest, ingress>>
      BY <2>3 DEF PersistLoop, PersistReceive, PersistFlush, PersistEnds, WriteJsonl, JsonlFails,
         WriteMongo, MongoFails, OutsideWritingUnchanged, outerVars, streamVars, engineVars
    <3> QED BY <3>1 DEF CollectorInv, ArrivalTypeInv
  <2> QED BY <2>1, <2>2, <2>3 DEF SequenceLoop
<1>2. StageTypeInv' /\ PartitionInv(p)'
  BY PoppedTypes, PoppedInv, SequencePushInv, TransferPopInv, TransferPushInv,
     PersistReceiveInv, PersistFlushInv, JsonlInv, MongoInv
     DEF SequenceLoop, TransferLoop, PersistLoop, CollectorInv
<1>3. ASSUME NEW q \in Partitions, q # p
      PROVE  PartitionInv(q)' /\ UNCHANGED <<log[q], jsonl[q], mongo[q]>>
  <2>1. UNCHANGED lineVars(q)
    BY <1>3, OthersQuiet DEF CollectorInv
  <2> QED BY <1>3, <2>1, LineQuiet DEF CollectorInv, lineVars
<1>4. \/ UNCHANGED <<jsonl, mongo, log>>
      \/ /\ UNCHANGED <<jsonl, mongo>>
         /\ \E e \in Numbered : log' = [log EXCEPT ![p] = Append(@, e)]
      \/ UNCHANGED log /\ Follows(p)
  <2>1. CASE SequencePop(p)
    BY <2>1, PoppedTypes DEF CollectorInv, SequencePop, writeVars
  <2>2. CASE SequencePush(p) \/ SequenceEnds(p) \/ TransferLoop(p)
    BY <2>2 DEF SequencePush, SequenceEnds, TransferLoop, TransferPop, TransferPush,
       TransferEnds, numberVars, writeVars
  <2>3. CASE PersistReceive(p) \/ PersistFlush(p) \/ PersistEnds(p)
    BY <2>3 DEF PersistReceive, PersistFlush, PersistEnds, OutsideWritingUnchanged, numberVars
  <2>4. CASE WriteJsonl(p) \/ JsonlFails(p) \/ WriteMongo(p) \/ MongoFails(p)
    BY <2>4, JsonlInv, MongoInv DEF WriteJsonl, JsonlFails, WriteMongo, MongoFails,
       OutsideWritingUnchanged, numberVars
  <2> QED BY <2>1, <2>2, <2>3, <2>4 DEF SequenceLoop, PersistLoop
<1> QED BY <1>1, <1>2, <1>3, <1>4 DEF CollectorInv, LogStep

LEMMA CollectorStep ==
  ASSUME CollectorInv, [CollectorNext]_vars
  PROVE  /\ CollectorInv'
         /\ UNCHANGED <<log, jsonl, mongo>> \/ \E p \in Partitions : LogStep(p)
<1>1. CASE Stream \/ EngineRun
  BY <1>1, OutsideInv
<1>2. CASE UNCHANGED vars
  <2>1. UNCHANGED insideVars /\ UNCHANGED <<inHand, ingest, ingress>>
    BY <1>2 DEF vars, streamVars, engineVars, partitionVars
  <2>2. ArrivalTypeInv' /\ StageTypeInv'
    BY <2>1 DEF CollectorInv, ArrivalTypeInv, StageTypeInv, insideVars, numberVars, readyVars,
       persistVars, writeVars
  <2>3. ASSUME NEW p \in Partitions PROVE PartitionInv(p)'
    BY <2>1, LineQuiet DEF CollectorInv, lineVars, insideVars, numberVars, readyVars,
       persistVars, writeVars
  <2> QED BY <2>1, <2>2, <2>3 DEF CollectorInv, insideVars, numberVars, writeVars
<1>3. ASSUME NEW p \in Partitions, SequenceLoop(p) \/ TransferLoop(p) \/ PersistLoop(p)
      PROVE  CollectorInv' /\ LogStep(p)
  BY <1>3, PartitionStep
<1> QED BY <1>1, <1>2, <1>3 DEF CollectorNext

LEMMA CollectorInvariant == CollectorSpec => []CollectorInv
BY CollectorInitInv, CollectorStep, PTL DEF CollectorSpec

\* The file of every partition follows the numbered observations as a log: it
\* never has a hole and grows by at most a batch (sequenceLoop, transferLoop,
\* persistLoop and Writer.WriteBatch).
THEOREM FileFollowsNumbering == CollectorSpec => JsonlFollowsNumbering
<1> DEFINE store == [p \in Partitions |-> ToSet(jsonl[p])]
<1>1. CollectorInit => Jsonl!LogInit
  BY DEF CollectorInit, Jsonl!LogInit, ToSet
<1>2. ASSUME CollectorInv, [CollectorNext]_vars PROVE [Jsonl!LogNext]_Jsonl!logVars
  <2>1. CASE UNCHANGED <<log, jsonl, mongo>>
    BY <2>1 DEF Jsonl!logVars
  <2>2. ASSUME NEW p \in Partitions, LogStep(p) PROVE [Jsonl!LogNext]_Jsonl!logVars
    <3>1. CASE UNCHANGED <<log, jsonl>>
      BY <3>1 DEF Jsonl!logVars
    <3>2. CASE UNCHANGED jsonl /\ \E e \in Numbered : log' = [log EXCEPT ![p] = Append(@, e)]
      <4>1. PICK e \in Numbered : log' = [log EXCEPT ![p] = Append(@, e)]
        BY <3>2
      <4>2. log[p] \in Seq(Numbered) /\ log'[p] = Append(log[p], e)
        BY <1>2, <4>1 DEF CollectorInv, StageTypeInv
      <4>3. Len(log'[p]) = Len(log[p]) + 1 /\ log'[p][Len(log[p]) + 1] = e
        BY <4>2
      <4>4. store' = store
        BY <3>2
      <4>5. Jsonl!AcceptEntry(p)
        BY <4>1, <4>3, <4>4 DEF Jsonl!AcceptEntry
      <4> QED BY <4>5 DEF Jsonl!LogNext
    <3>3. CASE UNCHANGED log /\ Advances(log[p], ToSet(jsonl[p]), ToSet(jsonl'[p]))
      <4>1. \A q \in Partitions \ {p} : jsonl'[q] = jsonl[q]
        BY <2>2 DEF LogStep
      <4>2. store' = [store EXCEPT ![p] = ToSet(jsonl'[p])]
        BY <4>1
      <4>3. CASE ToSet(jsonl'[p]) = ToSet(jsonl[p])
        BY <3>3, <4>2, <4>3 DEF Jsonl!logVars
      <4>4. CASE \E n \in 0..Len(log[p]), k \in 1..FlushCount :
                   n + k <= Len(log[p]) /\ ToSet(jsonl[p]) = First(log[p], n)
                   /\ ToSet(jsonl'[p]) = First(log[p], n + k)
        <5>1. Jsonl!Persist(p)
          BY <3>3, <4>2, <4>4 DEF Jsonl!Persist, Jsonl!Prefix, First
        <5> QED BY <5>1 DEF Jsonl!LogNext
      <4> QED BY <3>3, <4>3, <4>4 DEF Advances
    <3> QED BY <2>2, <3>1, <3>2, <3>3 DEF LogStep, Follows
  <2> QED BY <1>2, <2>1, <2>2, CollectorStep
<1> QED BY <1>1, <1>2, CollectorInvariant, PTL
     DEF CollectorSpec, JsonlFollowsNumbering, Jsonl!LogSpec

\* So do the documents of Mongo, although a failed InsertMany keeps what it has
\* inserted and is repeated from its first document (persistLoop).
THEOREM DocumentsFollowNumbering == CollectorSpec => MongoFollowsNumbering
<1> DEFINE store == [p \in Partitions |-> ToSet(mongo[p])]
<1>1. CollectorInit => Mongo!LogInit
  BY DEF CollectorInit, Mongo!LogInit, ToSet
<1>2. ASSUME CollectorInv, [CollectorNext]_vars PROVE [Mongo!LogNext]_Mongo!logVars
  <2>1. CASE UNCHANGED <<log, jsonl, mongo>>
    BY <2>1 DEF Mongo!logVars
  <2>2. ASSUME NEW p \in Partitions, LogStep(p) PROVE [Mongo!LogNext]_Mongo!logVars
    <3>1. CASE UNCHANGED <<log, mongo>>
      BY <3>1 DEF Mongo!logVars
    <3>2. CASE UNCHANGED mongo /\ \E e \in Numbered : log' = [log EXCEPT ![p] = Append(@, e)]
      <4>1. PICK e \in Numbered : log' = [log EXCEPT ![p] = Append(@, e)]
        BY <3>2
      <4>2. log[p] \in Seq(Numbered) /\ log'[p] = Append(log[p], e)
        BY <1>2, <4>1 DEF CollectorInv, StageTypeInv
      <4>3. Len(log'[p]) = Len(log[p]) + 1 /\ log'[p][Len(log[p]) + 1] = e
        BY <4>2
      <4>4. store' = store
        BY <3>2
      <4>5. Mongo!AcceptEntry(p)
        BY <4>1, <4>3, <4>4 DEF Mongo!AcceptEntry
      <4> QED BY <4>5 DEF Mongo!LogNext
    <3>3. CASE UNCHANGED log /\ Advances(log[p], ToSet(mongo[p]), ToSet(mongo'[p]))
      <4>1. \A q \in Partitions \ {p} : mongo'[q] = mongo[q]
        BY <2>2 DEF LogStep
      <4>2. store' = [store EXCEPT ![p] = ToSet(mongo'[p])]
        BY <4>1
      <4>3. CASE ToSet(mongo'[p]) = ToSet(mongo[p])
        BY <3>3, <4>2, <4>3 DEF Mongo!logVars
      <4>4. CASE \E n \in 0..Len(log[p]), k \in 1..FlushCount :
                   n + k <= Len(log[p]) /\ ToSet(mongo[p]) = First(log[p], n)
                   /\ ToSet(mongo'[p]) = First(log[p], n + k)
        <5>1. Mongo!Persist(p)
          BY <3>3, <4>2, <4>4 DEF Mongo!Persist, Mongo!Prefix, First
        <5> QED BY <5>1 DEF Mongo!LogNext
      <4> QED BY <3>3, <4>3, <4>4 DEF Advances
    <3> QED BY <2>2, <3>1, <3>2, <3>3 DEF LogStep, Follows
  <2> QED BY <1>2, <2>1, <2>2, CollectorStep
<1> QED BY <1>1, <1>2, CollectorInvariant, PTL
     DEF CollectorSpec, MongoFollowsNumbering, Mongo!LogSpec

-----------------------------------------------------------------------------
(* The sequence authority.                                                 *)

\* The entries of a partition are of its symbols; their numbers ascend per
\* symbol, and together they are everything the authority has given.
NumbersAscend ==
  \A p \in Partitions : \A i \in 1..Len(log[p]) :
    /\ PartitionOf[log[p][i].symbol] = p
    /\ log[p][i].no \in 1..nextNo[log[p][i].symbol]
    /\ \A k \in 1..i - 1 :
         log[p][k].symbol = log[p][i].symbol => log[p][k].no < log[p][i].no

IsLogged(p, s, n) == \E i \in 1..Len(log[p]) : log[p][i].symbol = s /\ log[p][i].no = n
NumbersComplete == \A s \in Symbols : \A n \in 1..nextNo[s] : IsLogged(PartitionOf[s], s, n)

\* What the authority remembers is what the log says.
LastTimeIsLast ==
  /\ \A s \in Symbols : nextNo[s] = 0 => lastTime[s] = 0
  /\ \A p \in Partitions : \A i \in 1..Len(log[p]) :
       log[p][i].no = nextNo[log[p][i].symbol] => lastTime[log[p][i].symbol] = log[p][i].time

WasSeen(p, s, t, y) ==
  \E i \in 1..Len(log[p]) : log[p][i].symbol = s /\ log[p][i].time = t /\ log[p][i].payload = y
SeenIsLogged ==
  \A s \in Symbols, t \in Times, y \in Payloads :
    <<s, t, y>> \in seen <=> WasSeen(PartitionOf[s], s, t, y)

FlagsExplained ==
  \A p \in Partitions : \A i \in 1..Len(log[p]) :
    /\ log[p][i].duplicate <=>
         \E k \in 1..i - 1 : /\ log[p][k].symbol = log[p][i].symbol
                             /\ log[p][k].time = log[p][i].time
                             /\ log[p][k].payload = log[p][i].payload
    /\ log[p][i].regression <=>
         \E k \in 1..i - 1 : /\ log[p][k].symbol = log[p][i].symbol
                             /\ log[p][k].no = log[p][i].no - 1
                             /\ log[p][k].time > log[p][i].time

NumberInv ==
  NumbersAscend /\ NumbersComplete /\ LastTimeIsLast /\ SeenIsLogged /\ FlagsExplained

LEMMA NumberInitInv == CollectorInit => NumberInv
<1> SUFFICES ASSUME CollectorInit PROVE NumberInv
  OBVIOUS
<1>1. /\ \A p \in Partitions : log[p] = <<>> /\ Len(log[p]) = 0
      /\ \A s \in Symbols : nextNo[s] = 0 /\ lastTime[s] = 0
      /\ seen = {}
  BY DEF CollectorInit
<1>2. NumbersAscend /\ LastTimeIsLast /\ FlagsExplained
  BY <1>1 DEF NumbersAscend, LastTimeIsLast, FlagsExplained
<1>3. NumbersComplete
  BY <1>1 DEF NumbersComplete
<1>4. SeenIsLogged
  BY <1>1, CollectorAssumption DEF SeenIsLogged, WasSeen
<1> QED BY <1>2, <1>3, <1>4 DEF NumberInv

LEMMA NumberQuiet ==
  ASSUME NumberInv, UNCHANGED <<nextNo, lastTime, seen, log>>
  PROVE  NumberInv'
<1>1. NumbersAscend' /\ LastTimeIsLast'
  BY DEF NumberInv, NumbersAscend, LastTimeIsLast
<1>2. NumbersComplete'
  <2>1. \A p, s, n : IsLogged(p, s, n)' <=> IsLogged(p, s, n)
    BY DEF IsLogged
  <2> QED BY <2>1 DEF NumberInv, NumbersComplete
<1>3. SeenIsLogged'
  <2>1. \A p, s, t, y : WasSeen(p, s, t, y)' <=> WasSeen(p, s, t, y)
    BY DEF WasSeen
  <2> QED BY <2>1 DEF NumberInv, SeenIsLogged
<1>4. FlagsExplained'
  BY DEF NumberInv, FlagsExplained
<1> QED BY <1>1, <1>2, <1>3, <1>4 DEF NumberInv

LEMMA NumberPopped ==
  ASSUME ArrivalTypeInv, StageTypeInv, NumberInv, NEW p \in Partitions, SequencePop(p)
  PROVE  NumberInv'
<1> DEFINE o == Head(ingress[p])
           e == Number(o)
           l == log[p]
           z == Len(l) + 1
<1>1. o \in Routed(p) /\ e \in Numbered /\ l \in Seq(Numbered) /\ StageTypeInv'
  <2>1. o \in Routed(p)
    BY DEF ArrivalTypeInv, SequencePop
  <2> QED BY <2>1, PoppedTypes DEF StageTypeInv
<1>2. /\ o.symbol \in Symbols /\ o.time \in Times /\ o.time \in Nat /\ o.payload \in Payloads
      /\ PartitionOf[o.symbol] = p
  BY <1>1, CollectorAssumption DEF Routed
<1>3. /\ e.symbol = o.symbol /\ e.time = o.time /\ e.payload = o.payload
      /\ e.no = nextNo[o.symbol] + 1
      /\ e.regression <=> o.time < lastTime[o.symbol]
      /\ e.duplicate <=> <<o.symbol, o.time, o.payload>> \in seen
  BY DEF Number, DuplicateKey
<1>4. /\ nextNo' = [nextNo EXCEPT ![o.symbol] = @ + 1]
      /\ lastTime' = [lastTime EXCEPT ![o.symbol] = o.time]
      /\ seen' = seen \union {<<o.symbol, o.time, o.payload>>}
      /\ log' = [log EXCEPT ![p] = Append(@, e)]
  BY DEF SequencePop, DuplicateKey
<1> HIDE DEF o, e
<1>5. /\ Len(log'[p]) = z /\ log'[p][z] = e /\ Len(l) \in Nat
      /\ \A i \in 1..Len(l) : log'[p][i] = l[i]
  <2>1. log'[p] = Append(l, e)
    BY <1>4 DEF StageTypeInv
  <2> QED BY <1>1, <2>1
<1>6. \A q \in Partitions \ {p} : log'[q] = log[q]
  BY <1>4 DEF StageTypeInv
<1>7. /\ nextNo'[o.symbol] = nextNo[o.symbol] + 1 /\ lastTime'[o.symbol] = o.time
      /\ \A s \in Symbols \ {o.symbol} : nextNo'[s] = nextNo[s] /\ lastTime'[s] = lastTime[s]
      /\ nextNo \in [Symbols -> Nat] /\ lastTime \in [Symbols -> Nat]
  BY <1>2, <1>4 DEF StageTypeInv
<1>8. \A q \in Partitions : \A i \in 1..Len(log[q]) :
        log[q][i].symbol \in Symbols /\ log[q][i].no \in Nat /\ log[q][i].time \in Nat
  <2>1. \A q \in Partitions : \A i \in 1..Len(log[q]) : log[q][i] \in Numbered
    BY SMTT(30) DEF StageTypeInv
  <2> QED BY <2>1, CollectorAssumption DEF Numbered
<1>9. \A i \in 1..z : i = z \/ i \in 1..Len(l)
  BY <1>5
<1> HIDE DEF l, z
<1>10. \A i \in 1..Len(l) : i \in 1..z /\ i \in 1..z - 1 /\ l[i] = log[p][i]
  BY <1>5 DEF l, z
<1>17. \A s \in Symbols : /\ nextNo[s] \in Nat /\ nextNo'[s] \in Nat
                          /\ nextNo[s] <= nextNo'[s]
  BY <1>2, <1>7
<1>11. NumbersAscend'
  <2> SUFFICES ASSUME NEW q \in Partitions, NEW i \in 1..Len(log'[q])
               PROVE  /\ PartitionOf[log'[q][i].symbol] = q
                      /\ log'[q][i].no \in 1..nextNo'[log'[q][i].symbol]
                      /\ \A k \in 1..i - 1 : log'[q][k].symbol = log'[q][i].symbol
                           => log'[q][k].no < log'[q][i].no
    BY DEF NumbersAscend
  <2>1. CASE q # p
    <3>1. log'[q] = log[q] /\ i \in 1..Len(log[q])
      BY <1>6, <2>1
    <3>2. /\ PartitionOf[log[q][i].symbol] = q /\ log[q][i].symbol \in Symbols
          /\ log[q][i].no \in 1..nextNo[log[q][i].symbol]
          /\ \A k \in 1..i - 1 :
               log[q][k].symbol = log[q][i].symbol => log[q][k].no < log[q][i].no
      BY <1>8, <3>1 DEF NumberInv, NumbersAscend
    <3>3. log[q][i].no \in 1..nextNo'[log[q][i].symbol]
      BY <1>17, <3>2
    <3> QED BY <3>1, <3>2, <3>3
  <2>2. CASE q = p /\ i \in 1..Len(l)
    <3>1. \A k \in 1..i - 1 : log'[p][k] = log[p][k]
      BY <1>5, <2>2 DEF l
    <3>2. log'[p][i] = log[p][i] /\ i \in 1..Len(log[p])
      BY <1>5, <2>2 DEF l
    <3>3. /\ PartitionOf[log[p][i].symbol] = p /\ log[p][i].symbol \in Symbols
          /\ log[p][i].no \in 1..nextNo[log[p][i].symbol]
          /\ \A k \in 1..i - 1 :
               log[p][k].symbol = log[p][i].symbol => log[p][k].no < log[p][i].no
      BY <1>8, <3>2 DEF NumberInv, NumbersAscend
    <3>4. log[p][i].no \in 1..nextNo'[log[p][i].symbol]
      BY <1>17, <3>3
    <3> QED BY <2>2, <3>1, <3>2, <3>3, <3>4
  <2>3. CASE q = p /\ i = z
    <3>1. \A k \in 1..z - 1 : log'[p][k] = log[p][k] /\ k \in 1..Len(log[p])
      BY <1>5 DEF l, z
    <3>2. e.no = nextNo'[o.symbol] /\ e.no \in 1..nextNo'[o.symbol]
      BY <1>2, <1>3, <1>7
    <3>3. ASSUME NEW k \in 1..z - 1, log[p][k].symbol = o.symbol PROVE log[p][k].no < e.no
      <4>1. log[p][k].no \in 1..nextNo[o.symbol]
        BY <3>1, <3>3 DEF NumberInv, NumbersAscend
      <4> QED BY <1>2, <1>3, <1>7, <4>1
    <3> QED BY <1>2, <1>3, <1>5, <2>3, <3>1, <3>2, <3>3, SMTT(30)
  <2> QED BY <1>5, <1>9, <2>1, <2>2, <2>3
<1>12. ASSUME NEW s \in Symbols, NEW i \in 1..Len(log[PartitionOf[s]])
       PROVE  /\ i \in 1..Len(log'[PartitionOf[s]])
              /\ log'[PartitionOf[s]][i] = log[PartitionOf[s]][i]
  <2>1. PartitionOf[s] \in Partitions
    BY CollectorAssumption
  <2>2. CASE PartitionOf[s] = p
    BY <1>5, <1>10, <2>2 DEF l
  <2> QED BY <1>6, <2>1, <2>2
<1>13. NumbersComplete'
  <2> SUFFICES ASSUME NEW s \in Symbols, NEW n \in 1..nextNo'[s]
               PROVE  IsLogged(PartitionOf[s], s, n)'
    BY DEF NumbersComplete
  <2>1. CASE n \in 1..nextNo[s]
    <3>1. IsLogged(PartitionOf[s], s, n)
      BY <2>1 DEF NumberInv, NumbersComplete
    <3> QED BY <1>12, <3>1 DEF IsLogged
  <2>2. CASE n \notin 1..nextNo[s]
    <3>1. s = o.symbol /\ n = nextNo[s] + 1
      BY <1>2, <1>7, <2>2
    <3>2. z \in 1..Len(log'[p])
      BY <1>5 DEF z
    <3> QED BY <1>2, <1>3, <1>5, <3>1, <3>2 DEF IsLogged
  <2> QED BY <2>1, <2>2
<1>14. LastTimeIsLast'
  <2>1. ASSUME NEW s \in Symbols, nextNo'[s] = 0 PROVE lastTime'[s] = 0
    <3>1. s # o.symbol
      BY <1>2, <1>7, <2>1
    <3> QED BY <1>7, <2>1, <3>1 DEF NumberInv, LastTimeIsLast
  <2>2. ASSUME NEW q \in Partitions, NEW i \in 1..Len(log'[q]),
               log'[q][i].no = nextNo'[log'[q][i].symbol]
        PROVE  lastTime'[log'[q][i].symbol] = log'[q][i].time
    <3>1. CASE q = p /\ i = z
      BY <1>2, <1>3, <1>5, <1>7, <3>1
    <3>2. CASE q # p \/ i \in 1..Len(l)
      <4>1. i \in 1..Len(log[q]) /\ log'[q][i] = log[q][i]
        BY <1>5, <1>6, <3>2 DEF l
      <4>2. log[q][i].symbol \in Symbols /\ log[q][i].no <= nextNo[log[q][i].symbol]
            /\ log[q][i].no \in Nat
        BY <1>7, <1>8, <4>1 DEF NumberInv, NumbersAscend
      <4>3. log[q][i].symbol # o.symbol
        BY <1>2, <1>7, <2>2, <4>1, <4>2
      <4> QED BY <1>7, <2>2, <4>1, <4>2, <4>3 DEF NumberInv, LastTimeIsLast
    <3> QED BY <1>5, <1>9, <3>1, <3>2
  <2> QED BY <2>1, <2>2 DEF LastTimeIsLast
<1>15. SeenIsLogged'
  <2> SUFFICES ASSUME NEW s \in Symbols, NEW t \in Times, NEW y \in Payloads
               PROVE  <<s, t, y>> \in seen' <=> WasSeen(PartitionOf[s], s, t, y)'
    BY DEF SeenIsLogged
  <2>1. ASSUME <<s, t, y>> \in seen PROVE WasSeen(PartitionOf[s], s, t, y)'
    <3>1. WasSeen(PartitionOf[s], s, t, y)
      BY <2>1 DEF NumberInv, SeenIsLogged
    <3> QED BY <1>12, <3>1 DEF WasSeen
  <2>2. ASSUME s = o.symbol, t = o.time, y = o.payload PROVE WasSeen(PartitionOf[s], s, t, y)'
    <3>1. z \in 1..Len(log'[p])
      BY <1>5 DEF z
    <3> QED BY <1>2, <1>3, <1>5, <2>2, <3>1 DEF WasSeen
  <2>3. ASSUME WasSeen(PartitionOf[s], s, t, y)', <<s, t, y>> # <<o.symbol, o.time, o.payload>>
        PROVE  <<s, t, y>> \in seen
    <3>1. PartitionOf[s] \in Partitions
      BY CollectorAssumption
    <3>2. PICK i \in 1..Len(log'[PartitionOf[s]]) :
            /\ log'[PartitionOf[s]][i].symbol = s /\ log'[PartitionOf[s]][i].time = t
            /\ log'[PartitionOf[s]][i].payload = y
      BY <2>3 DEF WasSeen
    <3>3. i \in 1..Len(log[PartitionOf[s]])
          /\ log'[PartitionOf[s]][i] = log[PartitionOf[s]][i]
      <4>1. CASE PartitionOf[s] # p
        BY <1>6, <3>1, <3>2, <4>1
      <4>2. CASE PartitionOf[s] = p
        <5>1. i # z
          BY <1>3, <1>5, <2>3, <3>2, <4>2
        <5> QED BY <1>5, <1>9, <3>2, <4>2, <5>1 DEF l
      <4> QED BY <4>1, <4>2
    <3>4. WasSeen(PartitionOf[s], s, t, y)
      BY <3>2, <3>3 DEF WasSeen
    <3> QED BY <3>4 DEF NumberInv, SeenIsLogged
  <2> QED BY <1>4, <2>1, <2>2, <2>3
<1>16. FlagsExplained'
  <2> SUFFICES ASSUME NEW q \in Partitions, NEW i \in 1..Len(log'[q])
               PROVE  /\ log'[q][i].duplicate <=>
                           \E k \in 1..i - 1 : /\ log'[q][k].symbol = log'[q][i].symbol
                                               /\ log'[q][k].time = log'[q][i].time
                                               /\ log'[q][k].payload = log'[q][i].payload
                      /\ log'[q][i].regression <=>
                           \E k \in 1..i - 1 : /\ log'[q][k].symbol = log'[q][i].symbol
                                               /\ log'[q][k].no = log'[q][i].no - 1
                                               /\ log'[q][k].time > log'[q][i].time
    BY DEF FlagsExplained
  <2>1. CASE q # p \/ i \in 1..Len(l)
    <3>1. /\ i \in 1..Len(log[q]) /\ log'[q][i] = log[q][i]
          /\ \A k \in 1..i - 1 : log'[q][k] = log[q][k]
      BY <1>5, <1>6, <2>1 DEF l
    <3>2. /\ log[q][i].duplicate <=>
               \E k \in 1..i - 1 : /\ log[q][k].symbol = log[q][i].symbol
                                   /\ log[q][k].time = log[q][i].time
                                   /\ log[q][k].payload = log[q][i].payload
          /\ log[q][i].regression <=>
               \E k \in 1..i - 1 : /\ log[q][k].symbol = log[q][i].symbol
                                   /\ log[q][k].no = log[q][i].no - 1
                                   /\ log[q][k].time > log[q][i].time
      BY <3>1 DEF NumberInv, FlagsExplained
    <3> HIDE DEF l
    <3> QED BY <3>1, <3>2
  <2>2. CASE q = p /\ i = z
    <3>1. \A k \in 1..z - 1 : log'[p][k] = log[p][k] /\ k \in 1..Len(log[p])
      BY <1>5 DEF l, z
    <3>2. \A k \in 1..Len(log[p]) : k \in 1..z - 1
      BY <1>5 DEF l, z
    <3>3. e.duplicate <=> \E k \in 1..z - 1 : /\ log'[p][k].symbol = o.symbol
                                               /\ log'[p][k].time = o.time
                                               /\ log'[p][k].payload = o.payload
      <4>1. e.duplicate <=> WasSeen(p, o.symbol, o.time, o.payload)
        BY <1>2, <1>3 DEF NumberInv, SeenIsLogged
      <4> QED BY <3>1, <3>2, <4>1 DEF WasSeen
    <3>4. ASSUME e.regression
          PROVE  \E k \in 1..z - 1 : /\ log'[p][k].symbol = o.symbol
                                     /\ log'[p][k].no = nextNo[o.symbol]
                                     /\ log'[p][k].time > o.time
      <4>1. o.time < lastTime[o.symbol] /\ lastTime[o.symbol] # 0 /\ nextNo[o.symbol] \in Nat
        BY <1>2, <1>3, <1>7, <3>4
      <4>2. nextNo[o.symbol] \in 1..nextNo[o.symbol]
        BY <1>2, <4>1 DEF NumberInv, LastTimeIsLast
      <4>3. PICK k \in 1..Len(log[p]) : log[p][k].symbol = o.symbol
                                        /\ log[p][k].no = nextNo[o.symbol]
        <5>1. IsLogged(p, o.symbol, nextNo[o.symbol])
          BY <1>2, <4>2 DEF NumberInv, NumbersComplete
        <5> QED BY <5>1 DEF IsLogged
      <4>4. lastTime[o.symbol] = log[p][k].time
        BY <4>3 DEF NumberInv, LastTimeIsLast
      <4> QED BY <1>2, <1>8, <3>1, <3>2, <4>1, <4>3, <4>4
    <3>5. ASSUME NEW k \in 1..z - 1, log'[p][k].symbol = o.symbol,
                 log'[p][k].no = nextNo[o.symbol], log'[p][k].time > o.time
          PROVE  e.regression
      <4>1. lastTime[o.symbol] = log[p][k].time
        BY <3>1, <3>5 DEF NumberInv, LastTimeIsLast
      <4> QED BY <1>2, <1>3, <1>8, <3>1, <3>5, <4>1
    <3>6. e.no - 1 = nextNo[o.symbol]
      BY <1>2, <1>3, <1>7
    <3> QED BY <1>3, <1>5, <2>2, <3>3, <3>4, <3>5, <3>6
  <2> QED BY <1>5, <1>9, <2>1, <2>2
<1> QED BY <1>11, <1>13, <1>14, <1>15, <1>16 DEF NumberInv

LEMMA NumberInvariant == CollectorSpec => []NumberInv
<1>1. ASSUME CollectorInv, NumberInv, [CollectorNext]_vars PROVE NumberInv'
  <2>1. CASE Stream \/ EngineRun
    BY <1>1, <2>1, OutsideQuiet, NumberQuiet DEF insideVars, numberVars
  <2>2. ASSUME NEW p \in Partitions, SequencePop(p) PROVE NumberInv'
    BY <1>1, <2>2, NumberPopped DEF CollectorInv
  <2>3. ASSUME NEW p \in Partitions, SequencePush(p) \/ SequenceEnds(p) \/ TransferLoop(p)
        PROVE  NumberInv'
    <3>1. UNCHANGED <<nextNo, lastTime, seen, log>>
      BY <2>3 DEF SequencePush, SequenceEnds, TransferLoop, TransferPop, TransferPush,
         TransferEnds, numberVars
    <3> QED BY <1>1, <3>1, NumberQuiet
  <2>4. ASSUME NEW p \in Partitions, PersistLoop(p) PROVE NumberInv'
    <3>1. UNCHANGED <<nextNo, lastTime, seen, log>>
      BY <2>4 DEF PersistLoop, PersistReceive, PersistFlush, PersistEnds, WriteJsonl,
         JsonlFails, WriteMongo, MongoFails, OutsideWritingUnchanged, numberVars
    <3> QED BY <1>1, <3>1, NumberQuiet
  <2>5. CASE UNCHANGED vars
    BY <1>1, <2>5, NumberQuiet DEF vars, partitionVars, insideVars, numberVars
  <2> QED BY <1>1, <2>1, <2>2, <2>3, <2>4, <2>5 DEF CollectorNext, SequenceLoop
<1> QED BY <1>1, NumberInitInv, CollectorInvariant, PTL DEF CollectorSpec

LEMMA FileIsAPrefix ==
  ASSUME CollectorInv, NEW p \in Partitions
  PROVE  \E n \in 0..Len(log[p]) : ToSet(jsonl[p]) = First(log[p], n)
<1>1. PICK w, b, q \in Nat, j \in 0..Len(batch[p]) : Slices(p, w, b, q) /\ Written(p, w, j)
  BY DEF CollectorInv, PartitionInv, InLine
<1>2. Len(batch[p]) \in Nat /\ Len(log[p]) \in Nat
  BY DEF CollectorInv, StageTypeInv
<1>3. w + j \in 0..Len(log[p])
  BY <1>1, <1>2 DEF Slices, Slice
<1> QED BY <1>1, <1>3 DEF Written

\* Each line of a file is explained by the lines before it, also in a file that
\* stopped early or was repeated in part (Authority.Accept, WriteBatch).
THEOREM EveryFileExplainsItself == CollectorSpec => []FileExplainsItself
<1>1. ASSUME CollectorInv, NumberInv PROVE FileExplainsItself
  <2> SUFFICES ASSUME NEW p \in Partitions, NEW e \in ToSet(jsonl[p])
               PROVE  /\ {x.no : x \in Earlier(p, e)} = 1..(e.no - 1)
                      /\ e.duplicate <=> \E x \in Earlier(p, e) : DuplicateKey(x) = DuplicateKey(e)
                      /\ e.regression <=> \E x \in Earlier(p, e) : x.no = e.no - 1
                                                                   /\ x.time > e.time
    BY DEF FileExplainsItself
  <2> DEFINE l == log[p]
  <2>1. PICK n \in 0..Len(l) : ToSet(jsonl[p]) = First(l, n)
    BY <1>1, FileIsAPrefix
  <2>2. PICK i \in 1..n : e = l[i]
    BY <2>1 DEF First
  <2>3. Len(l) \in Nat /\ n \in Nat /\ i \in 1..Len(l) /\ \A k \in 1..n : k \in 1..Len(l)
    BY <1>1 DEF CollectorInv, StageTypeInv
  <2>4. \A k \in 1..Len(l) : l[k].symbol \in Symbols /\ l[k].no \in Nat
    <3>1. \A k \in 1..Len(l) : l[k] \in Numbered
      BY <1>1 DEF CollectorInv, StageTypeInv
    <3> QED BY <3>1 DEF Numbered
  <2>5. \A k \in 1..Len(l) :
          /\ PartitionOf[l[k].symbol] = p /\ l[k].no \in 1..nextNo[l[k].symbol]
          /\ \A h \in 1..k - 1 : l[h].symbol = l[k].symbol => l[h].no < l[k].no
    BY <1>1 DEF NumberInv, NumbersAscend
  <2>6. nextNo[e.symbol] \in Nat
    BY <1>1, <2>2, <2>3, <2>4 DEF CollectorInv, StageTypeInv
  <2> HIDE DEF l
  <2>7. ASSUME NEW k \in 1..Len(l), l[k].symbol = e.symbol
        PROVE  k \in 1..i - 1 <=> l[k].no < e.no
    <3>1. CASE k \in 1..i - 1
      BY <2>2, <2>3, <2>5, <2>7, <3>1
    <3>2. CASE k = i
      BY <2>2, <2>4, <3>2
    <3>3. CASE i \in 1..k - 1
      BY <2>2, <2>3, <2>4, <2>5, <2>7, <3>3
    <3> QED BY <2>3, <3>1, <3>2, <3>3
  <2>8. ASSUME NEW x PROVE x \in Earlier(p, e) <=> \E k \in 1..i - 1 :
                             x = l[k] /\ l[k].symbol = e.symbol
    <3>1. \A k \in 1..i - 1 : k \in 1..n /\ k \in 1..Len(l)
      BY <2>3
    <3>2. x \in Earlier(p, e) <=> \E k \in 1..n : x = l[k] /\ x.symbol = e.symbol /\ x.no < e.no
      BY <2>1 DEF Earlier, First
    <3> QED BY <2>3, <2>7, <3>1, <3>2
  <2>9. {x.no : x \in Earlier(p, e)} = 1..(e.no - 1)
    <3>1. ASSUME NEW x \in Earlier(p, e) PROVE x.no \in 1..(e.no - 1)
      <4>1. PICK k \in 1..i - 1 : x = l[k] /\ l[k].symbol = e.symbol
        BY <2>8, <3>1
      <4>2. k \in 1..Len(l)
        BY <2>3
      <4> QED BY <2>2, <2>3, <2>4, <2>5, <2>7, <4>1, <4>2
    <3>2. ASSUME NEW m \in 1..(e.no - 1) PROVE \E x \in Earlier(p, e) : x.no = m
      <4>1. e.no \in 1..nextNo[e.symbol] /\ e.symbol \in Symbols /\ PartitionOf[e.symbol] = p
        BY <2>2, <2>3, <2>4, <2>5
      <4>2. m \in 1..nextNo[e.symbol] /\ m < e.no
        BY <2>6, <4>1
      <4>3. IsLogged(p, e.symbol, m)
        BY <1>1, <4>1, <4>2 DEF NumberInv, NumbersComplete
      <4>4. PICK k \in 1..Len(l) : l[k].symbol = e.symbol /\ l[k].no = m
        BY <4>3 DEF IsLogged, l
      <4>5. k \in 1..i - 1
        BY <2>7, <4>2, <4>4
      <4> QED BY <2>8, <4>4, <4>5
    <3> QED BY <3>1, <3>2
  <2>10. /\ l[i].duplicate <=>
              \E k \in 1..i - 1 : /\ l[k].symbol = l[i].symbol
                                  /\ l[k].time = l[i].time
                                  /\ l[k].payload = l[i].payload
         /\ l[i].regression <=>
              \E k \in 1..i - 1 : /\ l[k].symbol = l[i].symbol
                                  /\ l[k].no = l[i].no - 1
                                  /\ l[k].time > l[i].time
    BY <1>1, <2>3 DEF NumberInv, FlagsExplained, l
  <2>11. e.duplicate <=> \E x \in Earlier(p, e) : DuplicateKey(x) = DuplicateKey(e)
    BY <2>2, <2>8, <2>10 DEF DuplicateKey
  <2>12. e.regression <=> \E x \in Earlier(p, e) : x.no = e.no - 1 /\ x.time > e.time
    BY <2>2, <2>8, <2>10
  <2> QED BY <2>9, <2>11, <2>12
<1> QED BY <1>1, CollectorInvariant, NumberInvariant, PTL

\* A prefix of the log has as many members as entries: no two are equal.
LEMMA EntriesDiffer ==
  ASSUME CollectorInv, NumberInv, NEW p \in Partitions, NEW n \in 0..Len(log[p])
  PROVE  Cardinality(First(log[p], n)) = n /\ IsFiniteSet(First(log[p], n))
<1> DEFINE l == log[p]
           f == [i \in 1..n |-> l[i]]
<1>1. Len(l) \in Nat /\ n \in Nat
  BY DEF CollectorInv, StageTypeInv
<1>2. \A i, k \in 1..n : k < i => l[k] # l[i]
  <2> SUFFICES ASSUME NEW i \in 1..n, NEW k \in 1..n, k < i, l[k] = l[i] PROVE FALSE
    OBVIOUS
  <2>1. i \in 1..Len(l) /\ k \in 1..i - 1
    BY <1>1
  <2>2. l[k].no < l[i].no
    BY <2>1 DEF NumberInv, NumbersAscend
  <2>3. l[i].no \in Nat
    <3>1. l[i] \in Numbered
      BY <2>1 DEF CollectorInv, StageTypeInv
    <3> QED BY <3>1 DEF Numbered
  <2> QED BY <2>2, <2>3
<1>3. \A i, k \in 1..n : i = k \/ i < k \/ k < i
  BY <1>1
<1>4. f \in Bijection(1..n, First(l, n))
  <2>1. f \in [1..n -> First(l, n)]
    BY DEF First
  <2>2. \A i, k \in 1..n : f[i] = f[k] => i = k
    BY <1>2, <1>3
  <2>3. \A x \in First(l, n) : \E i \in 1..n : f[i] = x
    BY DEF First
  <2> HIDE DEF f, l
  <2> QED BY <2>1, <2>2, <2>3 DEF Bijection, Injection, Surjection, IsInjective
<1> HIDE DEF l, f
<1>5. ExistsBijection(1..n, First(l, n))
  BY <1>4 DEF ExistsBijection
<1> QED BY <1>1, <1>5, FS_CountingElements, FS_NatBijection DEF l

\* Mongo stays within a batch of the file it trails (persistLoop takes nothing
\* new while either store still owes the batch).
THEOREM MongoTrails == CollectorSpec => []MongoTrailsByABatch
<1>1. ASSUME CollectorInv, NumberInv, MongoEnabled, NEW p \in Partitions
      PROVE  /\ ToSet(mongo[p]) \subseteq ToSet(jsonl[p])
             /\ persisted[p] <= Cardinality(ToSet(mongo[p])) + FlushCount
  <2>1. PICK w, b, q \in Nat, j \in 0..Len(batch[p]) :
          Slices(p, w, b, q) /\ Written(p, w, j) /\ Acknowledged(p, w)
    BY <1>1 DEF CollectorInv, PartitionInv, InLine
  <2>2. PICK m \in 0..j : MongoHolds(p, w, m)
    BY <1>1, <2>1 DEF Written
  <2>3. /\ Len(batch[p]) \in Nat /\ Len(log[p]) \in Nat /\ Len(batch[p]) <= FlushCount
        /\ FlushCount \in Nat /\ persisted[p] \in Nat
    BY <1>1, CollectorAssumption, SMTT(30) DEF CollectorInv, StageTypeInv, PartitionInv
  <2>4. w + Len(batch[p]) <= Len(log[p])
    BY <2>1, <2>3 DEF Slices, Slice
  <2>5. w + m \in 0..Len(log[p]) /\ m <= j /\ m \in Nat /\ j \in Nat
    BY <2>3, <2>4
  <2>6. ToSet(mongo[p]) = First(log[p], w + m) /\ ToSet(jsonl[p]) = First(log[p], w + j)
    BY <2>1, <2>2 DEF MongoHolds, Written
  <2>7. \A i \in 1..w + m : i \in 1..w + j
    BY <2>5
  <2>8. Cardinality(ToSet(mongo[p])) = w + m
    BY <1>1, <2>5, <2>6, EntriesDiffer
  <2>9. persisted[p] <= w + FlushCount
    BY <2>1, <2>3 DEF Acknowledged
  <2> QED BY <2>3, <2>5, <2>6, <2>7, <2>8, <2>9 DEF First
<1>2. CollectorInv /\ NumberInv => MongoTrailsByABatch
  BY <1>1 DEF MongoTrailsByABatch
<1> QED BY <1>2, CollectorInvariant, NumberInvariant, PTL

-----------------------------------------------------------------------------
(* The critical counter tells what was lost: as long as it is zero, every  *)
(* observation Accept took is still in one place, and a loop has ended     *)
(* only behind one that has.                                               *)

CountTypeInv ==
  /\ taken \in [Partitions -> Nat] /\ critical \in [Partitions -> Nat]
  /\ ingressClosed \in [Partitions -> BOOLEAN]

Unwritten(p) == IF writer[p] = "mongo" THEN 0 ELSE Len(batch[p])
NothingMissing(p) ==
  /\ taken[p] = Len(log[p]) + Len(ingress[p])
  /\ Len(log[p]) = persisted[p] + Unwritten(p) + Len(persist[p]) + Len(moving[p])
                   + Len(ready[p]) + Len(numbering[p])
EndedInOrder(p) ==
  /\ readyClosed[p] => ingressClosed[p] /\ ingress[p] = <<>> /\ numbering[p] = <<>>
  /\ persistClosed[p] => readyClosed[p] /\ ready[p] = <<>> /\ moving[p] = <<>>
  /\ writer[p] = "ended" => persistClosed[p] /\ persist[p] = <<>> /\ batch[p] = <<>>
AfterClosing == {"joining", "done", "panicked"}
CountInv(p) ==
  /\ critical[p] = 0 => NothingMissing(p) /\ EndedInOrder(p)
  /\ ingressClosed[p] => phase \in AfterClosing
  /\ phase = "done" => LoopsEnded(p)
LossInv == CountTypeInv /\ \A p \in Partitions : CountInv(p)

LEMMA LossInitInv == CollectorInit => LossInv
<1> SUFFICES ASSUME CollectorInit PROVE LossInv
  OBVIOUS
<1>1. CountTypeInv
  BY DEF CollectorInit, CountTypeInv
<1>2. ASSUME NEW p \in Partitions PROVE CountInv(p)
  BY DEF CollectorInit, CountInv, NothingMissing, EndedInOrder, Unwritten
<1> QED BY <1>1, <1>2 DEF LossInv

insideOf(p) ==
  <<log[p], numbering[p], ready[p], moving[p], persist[p], batch[p], readyClosed[p],
    persistClosed[p], writer[p], persisted[p]>>

\* A step of the engine or the stream: the phase moves on, or an observation
\* enters the partition, or one is refused and counted.
LEMMA CountOutside ==
  ASSUME CountTypeInv, CollectorInv, NEW p \in Partitions, CountInv(p), UNCHANGED insideOf(p),
         \/ UNCHANGED <<ingress[p], taken[p], critical[p]>>
         \/ /\ phase \in {"dispatching", "draining"} /\ UNCHANGED critical[p]
            /\ taken'[p] = taken[p] + 1 /\ Len(ingress'[p]) = Len(ingress[p]) + 1
         \/ critical'[p] = critical[p] + 1 /\ UNCHANGED <<ingress[p], taken[p]>>,
         ingressClosed'[p] = ingressClosed[p]
           \/ (ingressClosed'[p] /\ phase' = "joining" /\ UNCHANGED ingress[p]),
         ingressClosed[p] => phase' \in AfterClosing,
         phase' = "done" => LoopsEnded(p)
  PROVE  CountInv(p)'
<1>1. critical[p] \in Nat /\ Len(ingress[p]) \in Nat /\ taken[p] \in Nat /\ Len(log[p]) \in Nat
      /\ ingressClosed[p] \in BOOLEAN
  BY SMTT(30) DEF CountTypeInv, CollectorInv, ArrivalTypeInv, StageTypeInv
<1>2. critical'[p] = 0 => critical[p] = 0
  BY <1>1
<1>3. ASSUME critical'[p] = 0 PROVE NothingMissing(p)'
  <2>1. Unwritten(p)' = Unwritten(p)
    BY DEF Unwritten, insideOf
  <2>2. NothingMissing(p)
    BY <1>2, <1>3 DEF CountInv
  <2>3. taken'[p] = Len(log[p]) + Len(ingress'[p])
    <3>1. CASE UNCHANGED <<ingress[p], taken[p]>>
      BY <2>2, <3>1 DEF NothingMissing
    <3>2. CASE taken'[p] = taken[p] + 1 /\ Len(ingress'[p]) = Len(ingress[p]) + 1
      <4>1. taken[p] = Len(log[p]) + Len(ingress[p])
        BY <2>2 DEF NothingMissing
      <4> DEFINE m == Len(ingress[p])
                 n == Len(ingress'[p])
                 k == Len(log[p])
                 t == taken'[p]
      <4>2. m \in Nat /\ n = m + 1 /\ taken[p] = k + m /\ k \in Nat /\ t = taken[p] + 1
        BY <1>1, <3>2, <4>1
      <4> HIDE DEF m, n, k, t
      <4>3. t = k + n
        BY <4>2
      <4> QED BY <4>3 DEF n, k, t
    <3> QED BY <3>1, <3>2
  <2> QED BY <2>1, <2>2, <2>3 DEF NothingMissing, insideOf
<1>4. ASSUME critical'[p] = 0 PROVE EndedInOrder(p)'
  <2>1. EndedInOrder(p)
    BY <1>2, <1>4 DEF CountInv
  <2>2. ASSUME readyClosed[p] PROVE UNCHANGED ingress[p] /\ ingressClosed'[p]
    <3>1. ingressClosed[p] /\ phase \notin {"dispatching", "draining"}
      BY <2>1, <2>2 DEF EndedInOrder, CountInv, AfterClosing
    <3> QED BY <1>1, <1>4, <3>1
  <2> QED BY <2>1, <2>2 DEF EndedInOrder, insideOf
<1>5. ingressClosed'[p] => phase' \in AfterClosing
  BY DEF AfterClosing
<1>6. phase' = "done" => LoopsEnded(p)'
  BY DEF LoopsEnded, insideOf
<1> QED BY <1>3, <1>4, <1>5, <1>6 DEF CountInv

\* A step of the partition's own goroutines.
LEMMA CountInside ==
  ASSUME NEW p \in Partitions, CountInv(p), UNCHANGED <<phase, ingressClosed[p]>>,
         critical'[p] = 0 => NothingMissing(p)' /\ EndedInOrder(p)',
         LoopsEnded(p) => LoopsEnded(p)'
  PROVE  CountInv(p)'
BY DEF CountInv

LEMMA DispatchCounts ==
  ASSUME CountTypeInv, CollectorInv, ingest # <<>>, NEW refused,
         Dispatch(Head(ingest), refused), NEW p \in Partitions
  PROVE  \/ UNCHANGED <<ingress[p], taken[p], critical[p]>>
         \/ /\ UNCHANGED critical[p]
            /\ taken'[p] = taken[p] + 1 /\ Len(ingress'[p]) = Len(ingress[p]) + 1
         \/ critical'[p] = critical[p] + 1 /\ UNCHANGED <<ingress[p], taken[p]>>
<1> DEFINE o == Head(ingest)
           r == PartitionOf[o.symbol]
<1>1. DOMAIN ingress = Partitions /\ ingress[p] \in Seq(Routed(p)) /\ o \in Observation
      /\ taken \in [Partitions -> Nat] /\ critical \in [Partitions -> Nat]
  BY DEF CountTypeInv, CollectorInv, ArrivalTypeInv
<1> HIDE DEF o
<1>2. CASE UNCHANGED <<ingress, taken, critical>>
  BY <1>2
<1>3. CASE /\ ingress' = [ingress EXCEPT ![r] = Append(@, o)] /\ UNCHANGED critical
           /\ taken' = [taken EXCEPT ![r] = @ + 1] /\ o.symbol \in Symbols
  <2>1. CASE p # r
    BY <1>1, <1>3, <2>1
  <2>2. CASE p = r
    <3>1. o \in Routed(p)
      BY <1>1, <1>3, <2>2 DEF Routed
    <3>2. ingress'[p] = Append(ingress[p], o) /\ taken'[p] = taken[p] + 1
      BY <1>1, <1>3, <2>2
    <3>3. Len(Append(ingress[p], o)) = Len(ingress[p]) + 1
      BY <1>1, <3>1
    <3> QED BY <1>3, <3>2, <3>3
  <2> QED BY <2>1, <2>2
<1>4. CASE /\ critical' = [critical EXCEPT ![r] = @ + 1] /\ UNCHANGED <<ingress, taken>>
  BY <1>1, <1>4
<1> QED BY <1>2, <1>3, <1>4 DEF Dispatch, o

LEMMA DispatchCountTypes ==
  ASSUME CountTypeInv, CollectorInv, ingest # <<>>, NEW refused, Dispatch(Head(ingest), refused)
  PROVE  taken' \in [Partitions -> Nat] /\ critical' \in [Partitions -> Nat]
<1> DEFINE r == PartitionOf[Head(ingest).symbol]
<1>1. \/ taken' = taken \/ taken' = [taken EXCEPT ![r] = @ + 1]
  BY DEF Dispatch
<1>2. \/ critical' = critical \/ critical' = [critical EXCEPT ![r] = @ + 1]
  BY DEF Dispatch
<1>3. \A q \in Partitions : taken[q] + 1 \in Nat /\ critical[q] + 1 \in Nat
  BY DEF CountTypeInv
<1> HIDE DEF r
<1> QED BY <1>1, <1>2, <1>3 DEF CountTypeInv

LEMMA LossOutside ==
  ASSUME LossInv, CollectorInv, Stream \/ EngineRun
  PROVE  LossInv'
<1>1. UNCHANGED insideVars
  BY OutsideQuiet
<1>2. \A p \in Partitions : UNCHANGED insideOf(p)
  BY <1>1 DEF insideVars, numberVars, readyVars, persistVars, writeVars, insideOf
<1>3. \A p \in Partitions : ingressClosed[p] => phase \in AfterClosing
  BY DEF LossInv, CountInv
<1>4. CASE Stream
  <2>1. /\ UNCHANGED <<ingress, taken, critical, ingressClosed>>
        /\ phase' = phase \/ phase' = "panicked"
    BY <1>4 DEF Stream, StartSession, ServerAnswers, SessionEnds, SourceReturns, ReaderReceives,
       ReaderSends, ReaderEnds, partitionVars, engineVars
  <2>2. \A p \in Partitions : phase' = "done" => LoopsEnded(p)
    BY <2>1 DEF LossInv, CountInv
  <2>3. ASSUME NEW p \in Partitions PROVE CountInv(p)'
    <3>1. ingressClosed[p] => phase' \in AfterClosing
      BY <1>3, <2>1 DEF AfterClosing
    <3> QED BY <1>2, <2>1, <2>2, <3>1, CountOutside DEF LossInv
  <2> QED BY <2>1, <2>3 DEF LossInv, CountTypeInv
<1>5. CASE CancelRun \/ StopDispatching \/ JoinSource \/ JoinPartitions
  <2>1. /\ UNCHANGED <<ingress, taken, critical, ingressClosed>>
        /\ \/ /\ phase \in {"dispatching", "waiting"}
              /\ phase' \in {"dispatching", "waiting", "draining"}
           \/ phase' = "done" /\ \A p \in Partitions : LoopsEnded(p)
    BY <1>5 DEF CancelRun, StopDispatching, JoinSource, JoinPartitions, partitionVars
  <2>2. ASSUME NEW p \in Partitions PROVE CountInv(p)'
    <3>1. ingressClosed[p] => phase' \in AfterClosing
      BY <1>3, <2>1 DEF AfterClosing
    <3> QED BY <1>2, <2>1, <3>1, CountOutside DEF LossInv
  <2> QED BY <2>1, <2>2 DEF LossInv, CountTypeInv
<1>6. CASE CloseIngress
  <2>1. /\ UNCHANGED <<ingress, taken, critical>> /\ phase' = "joining"
        /\ ingressClosed' = [p \in Partitions |-> TRUE]
    BY <1>6 DEF CloseIngress
  <2>2. ASSUME NEW p \in Partitions PROVE CountInv(p)'
    BY <1>2, <2>1, CountOutside DEF LossInv, AfterClosing
  <2> QED BY <2>1, <2>2 DEF LossInv, CountTypeInv
<1>7. CASE DispatchLive \/ DispatchDrained
  <2>1. PICK refused \in BOOLEAN : Dispatch(Head(ingest), refused)
    BY <1>7 DEF DispatchLive, DispatchDrained
  <2>2. /\ ingest # <<>> /\ UNCHANGED ingressClosed /\ phase \in {"dispatching", "draining"}
        /\ phase' \in {"dispatching", "draining", "waiting"}
    BY <1>7 DEF DispatchLive, DispatchDrained
  <2>3. ASSUME NEW p \in Partitions PROVE CountInv(p)'
    <3>1. \/ UNCHANGED <<ingress[p], taken[p], critical[p]>>
          \/ /\ UNCHANGED critical[p]
             /\ taken'[p] = taken[p] + 1 /\ Len(ingress'[p]) = Len(ingress[p]) + 1
          \/ critical'[p] = critical[p] + 1 /\ UNCHANGED <<ingress[p], taken[p]>>
      BY <2>1, <2>2, DispatchCounts DEF LossInv
    <3>2. ~ingressClosed[p]
      BY <1>3, <2>2 DEF AfterClosing
    <3> QED BY <1>2, <2>2, <3>1, <3>2, CountOutside DEF LossInv
  <2> QED BY <2>1, <2>2, <2>3, DispatchCountTypes DEF LossInv, CountTypeInv
<1> QED BY <1>4, <1>5, <1>6, <1>7 DEF EngineRun

LEMMA LengthsAreNumbers ==
  ASSUME CollectorInv, NEW p \in Partitions
  PROVE  /\ Len(log[p]) \in Nat /\ Len(ingress[p]) \in Nat /\ Len(numbering[p]) \in Nat
         /\ Len(ready[p]) \in Nat /\ Len(moving[p]) \in Nat /\ Len(persist[p]) \in Nat
         /\ Len(batch[p]) \in Nat /\ persisted[p] \in Nat
         /\ numbering[p] \in Seq(Numbered) /\ ready[p] \in Seq(Numbered)
         /\ moving[p] \in Seq(Numbered) /\ persist[p] \in Seq(Numbered)
         /\ batch[p] \in Seq(Numbered) /\ log[p] \in Seq(Numbered)
         /\ ingress[p] \in Seq(Routed(p))
BY DEF CollectorInv, ArrivalTypeInv, StageTypeInv

LEMMA CountPop ==
  ASSUME LossInv, CollectorInv, NEW p \in Partitions, SequencePop(p)
  PROVE  CountInv(p)'
<1>1. /\ UNCHANGED <<phase, ingressClosed, taken, critical, ready, moving, persist, batch,
                     readyClosed, persistClosed, writer, persisted>>
      /\ ~readyClosed[p] /\ numbering[p] = <<>> /\ ingress[p] # <<>>
      /\ log'[p] = Append(log[p], Number(Head(ingress[p])))
      /\ ingress'[p] = Tail(ingress[p]) /\ numbering'[p] = <<Number(Head(ingress[p]))>>
  BY DEF SequencePop, outerVars, engineVars, readyVars, persistVars, writeVars, CollectorInv,
     ArrivalTypeInv, StageTypeInv
<1>2. Number(Head(ingress[p])) \in Numbered
  BY PoppedTypes DEF CollectorInv
<1>3. /\ Len(log'[p]) = Len(log[p]) + 1 /\ Len(ingress'[p]) = Len(ingress[p]) - 1
      /\ Len(numbering'[p]) = 1 /\ Len(numbering[p]) = 0
  BY <1>1, <1>2, LengthsAreNumbers
<1>4. ASSUME critical'[p] = 0 PROVE NothingMissing(p)' /\ EndedInOrder(p)'
  <2>1. NothingMissing(p) /\ EndedInOrder(p) /\ Unwritten(p)' = Unwritten(p)
    BY <1>1, <1>4 DEF LossInv, CountInv, Unwritten
  <2>2. Unwritten(p) \in Nat
    BY LengthsAreNumbers DEF Unwritten
  <2>3. NothingMissing(p)'
    <3>1. taken'[p] = Len(log'[p]) + Len(ingress'[p])
      <4>1. taken[p] = Len(log[p]) + Len(ingress[p])
        BY <2>1 DEF NothingMissing
      <4> DEFINE m == Len(log[p])
                 n == Len(ingress[p])
      <4>2. m \in Nat /\ n \in Nat /\ Len(log'[p]) = m + 1 /\ Len(ingress'[p]) = n - 1
            /\ taken'[p] = m + n
        BY <1>1, <1>3, <4>1, LengthsAreNumbers
      <4> HIDE DEF m, n
      <4> QED BY <4>2
    <3>2. Len(log'[p]) = persisted[p] + Unwritten(p) + Len(persist[p]) + Len(moving[p])
                         + Len(ready[p]) + Len(numbering'[p])
      <4>1. Len(log[p]) = persisted[p] + Unwritten(p) + Len(persist[p]) + Len(moving[p])
                          + Len(ready[p]) + Len(numbering[p])
        BY <2>1 DEF NothingMissing
      <4> DEFINE rest == persisted[p] + Unwritten(p)
                 s == Len(persist[p])
                 m == Len(moving[p])
                 r == Len(ready[p])
                 n == Len(numbering[p])
      <4>2. rest \in Nat /\ s \in Nat /\ m \in Nat /\ r \in Nat /\ n \in Nat
            /\ persisted[p] + Unwritten(p) = rest
            /\ Len(log'[p]) = rest + s + m + r + n + 1 /\ n = 0 /\ Len(numbering'[p]) = 1
        BY <1>3, <2>2, <4>1, LengthsAreNumbers, SMTT(30)
      <4> HIDE DEF rest, s, m, r, n
      <4>3. Len(log'[p]) = rest + s + m + r + Len(numbering'[p])
        BY <4>2
      <4> QED BY <4>3 DEF rest, s, m, r, n
    <3> QED BY <1>1, <2>1, <3>1, <3>2 DEF NothingMissing
  <2> QED BY <1>1, <2>1, <2>3 DEF EndedInOrder
<1>5. LoopsEnded(p) => LoopsEnded(p)'
  BY <1>1 DEF LoopsEnded
<1> QED BY <1>1, <1>4, <1>5, CountInside DEF LossInv

LEMMA CountSequence ==
  ASSUME LossInv, CollectorInv, NEW p \in Partitions, SequencePush(p) \/ SequenceEnds(p)
  PROVE  CountInv(p)'
<1>1. UNCHANGED <<phase, ingressClosed, taken, log, ingress, moving, persist, batch,
                  persistClosed, writer, persisted>>
  BY DEF SequencePush, SequenceEnds, outerVars, engineVars, numberVars, persistVars, writeVars
<1>2. critical[p] \in Nat /\ critical \in [Partitions -> Nat] /\ CountInv(p)
  BY DEF LossInv, CountTypeInv
<1>3. \/ /\ numbering[p] # <<>> /\ numbering'[p] = <<>> /\ ready'[p] = ready[p] \o numbering[p]
         /\ UNCHANGED <<readyClosed, critical>>
      \/ critical'[p] # 0 /\ readyClosed'[p]
      \/ /\ UNCHANGED <<numbering, ready, critical>> /\ readyClosed'[p]
         /\ numbering[p] = <<>> /\ ingress[p] = <<>> /\ ingressClosed[p]
  <2>1. CASE SequencePush(p)
    BY <1>2, <2>1 DEF SequencePush, CollectorInv, StageTypeInv
  <2>2. CASE SequenceEnds(p)
    BY <2>2 DEF SequenceEnds, numberVars, CollectorInv, StageTypeInv
  <2> QED BY <2>1, <2>2
<1>4. ASSUME critical'[p] = 0 PROVE NothingMissing(p)' /\ EndedInOrder(p)'
  <2>1. NothingMissing(p) /\ EndedInOrder(p)
    BY <1>2, <1>3, <1>4 DEF CountInv
  <2>2. Unwritten(p)' = Unwritten(p) /\ Unwritten(p) \in Nat
    BY <1>1, LengthsAreNumbers DEF Unwritten
  <2>3. CASE /\ numbering[p] # <<>> /\ numbering'[p] = <<>>
             /\ ready'[p] = ready[p] \o numbering[p] /\ UNCHANGED <<readyClosed, critical>>
    <3>1. Len(ready'[p]) = Len(ready[p]) + Len(numbering[p]) /\ Len(numbering'[p]) = 0
      BY <2>3, LengthsAreNumbers, ConcatParts
    <3>2. Len(log[p]) = persisted[p] + Unwritten(p) + Len(persist[p]) + Len(moving[p])
                        + Len(ready'[p]) + Len(numbering'[p])
      <4>1. Len(log[p]) = persisted[p] + Unwritten(p) + Len(persist[p]) + Len(moving[p])
                          + Len(ready[p]) + Len(numbering[p])
        BY <2>1 DEF NothingMissing
      <4> DEFINE rest == persisted[p] + Unwritten(p)
                 s == Len(persist[p])
                 m == Len(moving[p])
                 r == Len(ready[p])
                 n == Len(numbering[p])
      <4>2. rest \in Nat /\ s \in Nat /\ m \in Nat /\ r \in Nat /\ n \in Nat
            /\ persisted[p] + Unwritten(p) = rest
            /\ Len(log[p]) = rest + s + m + r + n
            /\ Len(ready'[p]) = r + n /\ Len(numbering'[p]) = 0
        BY <2>2, <3>1, <4>1, LengthsAreNumbers
      <4> HIDE DEF rest, s, m, r, n
      <4>3. Len(log[p]) = rest + s + m + Len(ready'[p]) + Len(numbering'[p])
        BY <4>2
      <4> QED BY <4>3 DEF rest, s, m, r, n
    <3>3. NothingMissing(p)'
      BY <1>1, <2>1, <2>2, <3>2 DEF NothingMissing
    <3>4. ~readyClosed[p] /\ ~persistClosed[p]
      BY <2>1, <2>3 DEF EndedInOrder
    <3> QED BY <1>1, <2>1, <2>3, <3>3, <3>4 DEF EndedInOrder
  <2>4. CASE /\ UNCHANGED <<numbering, ready, critical>> /\ readyClosed'[p]
             /\ numbering[p] = <<>> /\ ingress[p] = <<>> /\ ingressClosed[p]
    BY <1>1, <2>1, <2>2, <2>4 DEF NothingMissing, EndedInOrder
  <2> QED BY <1>3, <1>4, <2>3, <2>4
<1>5. LoopsEnded(p) => LoopsEnded(p)'
  BY <1>1, <1>3 DEF LoopsEnded
<1> QED BY <1>1, <1>2, <1>4, <1>5, CountInside

LEMMA CountTransfer ==
  ASSUME LossInv, CollectorInv, NEW p \in Partitions, TransferLoop(p)
  PROVE  CountInv(p)'
<1>1. UNCHANGED <<phase, ingressClosed, taken, log, ingress, numbering, batch,
                  readyClosed, writer, persisted>>
  BY DEF TransferLoop, TransferPop, TransferPush, TransferEnds, outerVars, engineVars,
     numberVars, persistVars, writeVars, readyVars
<1>2. critical[p] \in Nat /\ critical \in [Partitions -> Nat] /\ CountInv(p)
  BY DEF LossInv, CountTypeInv
<1>3. \/ /\ ~persistClosed[p] /\ moving[p] = <<>> /\ ready[p] # <<>>
         /\ moving'[p] = <<Head(ready[p])>> /\ ready'[p] = Tail(ready[p])
         /\ UNCHANGED <<persist, persistClosed, critical>>
      \/ /\ moving[p] # <<>> /\ moving'[p] = <<>> /\ persist'[p] = persist[p] \o moving[p]
         /\ UNCHANGED <<ready, persistClosed, critical>>
      \/ critical'[p] # 0 /\ persistClosed'[p]
      \/ /\ UNCHANGED <<moving, ready, persist, critical>> /\ persistClosed'[p]
         /\ moving[p] = <<>> /\ ready[p] = <<>> /\ readyClosed[p]
  <2>1. CASE TransferPop(p)
    BY <2>1 DEF TransferPop, persistVars, CollectorInv, StageTypeInv
  <2>2. CASE TransferPush(p)
    BY <1>2, <2>2 DEF TransferPush, CollectorInv, StageTypeInv
  <2>3. CASE TransferEnds(p)
    BY <2>3 DEF TransferEnds, readyVars, CollectorInv, StageTypeInv
  <2> QED BY <2>1, <2>2, <2>3 DEF TransferLoop
<1>4. ASSUME critical'[p] = 0 PROVE NothingMissing(p)' /\ EndedInOrder(p)'
  <2>1. NothingMissing(p) /\ EndedInOrder(p)
    BY <1>2, <1>3, <1>4 DEF CountInv
  <2>2. Unwritten(p)' = Unwritten(p) /\ Unwritten(p) \in Nat
    BY <1>1, LengthsAreNumbers DEF Unwritten
  <2>3. CASE /\ ~persistClosed[p] /\ moving[p] = <<>> /\ ready[p] # <<>>
             /\ moving'[p] = <<Head(ready[p])>> /\ ready'[p] = Tail(ready[p])
             /\ UNCHANGED <<persist, persistClosed, critical>>
    <3>1. Len(ready'[p]) = Len(ready[p]) - 1 /\ Len(moving'[p]) = 1 /\ Len(moving[p]) = 0
      BY <2>3, LengthsAreNumbers
    <3>2. Len(log[p]) = persisted[p] + Unwritten(p) + Len(persist[p]) + Len(moving'[p])
                        + Len(ready'[p]) + Len(numbering[p])
      <4>1. Len(log[p]) = persisted[p] + Unwritten(p) + Len(persist[p]) + Len(moving[p])
                          + Len(ready[p]) + Len(numbering[p])
        BY <2>1 DEF NothingMissing
      <4> DEFINE rest == persisted[p] + Unwritten(p)
                 s == Len(persist[p])
                 m == Len(moving[p])
                 r == Len(ready[p])
                 n == Len(numbering[p])
      <4>2. rest \in Nat /\ s \in Nat /\ m \in Nat /\ r \in Nat /\ n \in Nat
            /\ persisted[p] + Unwritten(p) = rest
            /\ Len(log[p]) = rest + s + m + r + n
            /\ Len(ready'[p]) = r - 1 /\ Len(moving'[p]) = 1 /\ m = 0
        BY <2>2, <3>1, <4>1, LengthsAreNumbers, SMTT(30)
      <4> HIDE DEF rest, s, m, r, n
      <4>3. Len(log[p]) = rest + s + Len(moving'[p]) + Len(ready'[p]) + n
        BY <4>2
      <4> QED BY <4>3 DEF rest, s, m, r, n
    <3>3. NothingMissing(p)'
      BY <1>1, <2>1, <2>2, <2>3, <3>2 DEF NothingMissing
    <3> QED BY <1>1, <2>1, <2>3, <3>3 DEF EndedInOrder
  <2>4. CASE /\ moving[p] # <<>> /\ moving'[p] = <<>> /\ persist'[p] = persist[p] \o moving[p]
             /\ UNCHANGED <<ready, persistClosed, critical>>
    <3>1. Len(persist'[p]) = Len(persist[p]) + Len(moving[p]) /\ Len(moving'[p]) = 0
      BY <2>4, LengthsAreNumbers, ConcatParts
    <3>2. Len(log[p]) = persisted[p] + Unwritten(p) + Len(persist'[p]) + Len(moving'[p])
                        + Len(ready[p]) + Len(numbering[p])
      <4>1. Len(log[p]) = persisted[p] + Unwritten(p) + Len(persist[p]) + Len(moving[p])
                          + Len(ready[p]) + Len(numbering[p])
        BY <2>1 DEF NothingMissing
      <4> DEFINE rest == persisted[p] + Unwritten(p)
                 s == Len(persist[p])
                 m == Len(moving[p])
                 r == Len(ready[p])
                 n == Len(numbering[p])
      <4>2. rest \in Nat /\ s \in Nat /\ m \in Nat /\ r \in Nat /\ n \in Nat
            /\ persisted[p] + Unwritten(p) = rest
            /\ Len(log[p]) = rest + s + m + r + n
            /\ Len(persist'[p]) = s + m /\ Len(moving'[p]) = 0
        BY <2>2, <3>1, <4>1, LengthsAreNumbers
      <4> HIDE DEF rest, s, m, r, n
      <4>3. Len(log[p]) = rest + Len(persist'[p]) + Len(moving'[p]) + r + n
        BY <4>2
      <4> QED BY <4>3 DEF rest, s, m, r, n
    <3>3. NothingMissing(p)'
      BY <1>1, <2>1, <2>2, <2>4, <3>2 DEF NothingMissing
    <3>4. ~persistClosed[p]
      BY <2>1, <2>4 DEF EndedInOrder
    <3> QED BY <1>1, <2>1, <2>4, <3>3, <3>4 DEF EndedInOrder
  <2>5. CASE /\ UNCHANGED <<moving, ready, persist, critical>> /\ persistClosed'[p]
             /\ moving[p] = <<>> /\ ready[p] = <<>> /\ readyClosed[p]
    BY <1>1, <2>1, <2>2, <2>5 DEF NothingMissing, EndedInOrder
  <2> QED BY <1>3, <1>4, <2>3, <2>4, <2>5
<1>5. LoopsEnded(p) => LoopsEnded(p)'
  BY <1>1, <1>3 DEF LoopsEnded
<1> QED BY <1>1, <1>2, <1>4, <1>5, CountInside

\* persistLoop moves observations from stage 3 through the batch into the file.
Behind(p) == persisted[p] + Unwritten(p) + Len(persist[p])

LEMMA CountPersist ==
  ASSUME LossInv, CollectorInv, NEW p \in Partitions, PersistLoop(p)
  PROVE  CountInv(p)'
<1>1. UNCHANGED <<phase, ingressClosed, taken, log, ingress, numbering, ready, moving,
                  readyClosed, persistClosed>>
  BY DEF PersistLoop, PersistReceive, PersistFlush, PersistEnds, WriteJsonl, JsonlFails,
     WriteMongo, MongoFails, OutsideWritingUnchanged, outerVars, engineVars, numberVars,
     readyVars, persistVars
<1>2. critical[p] \in Nat /\ critical \in [Partitions -> Nat] /\ CountInv(p)
      /\ writer \in [Partitions -> {"collect", "jsonl", "mongo", "ended"}]
  BY DEF LossInv, CountTypeInv, CollectorInv, StageTypeInv
<1>3. writer[p] # "ended"
  BY DEF PersistLoop, PersistReceive, PersistFlush, PersistEnds, WriteJsonl, JsonlFails,
     WriteMongo, MongoFails
<1>4. \/ critical'[p] # 0
      \/ /\ UNCHANGED critical /\ Behind(p)' = Behind(p)
         /\ writer'[p] = "ended" => persistClosed[p] /\ persist'[p] = <<>> /\ batch'[p] = <<>>
         /\ persistClosed[p] => writer'[p] \in {"collect", "jsonl", "mongo", "ended"}
  <2>1. CASE PersistReceive(p)
    <3>1. /\ UNCHANGED <<critical, persisted>> /\ writer[p] = "collect" /\ persist[p] # <<>>
          /\ batch'[p] = Append(batch[p], Head(persist[p])) /\ persist'[p] = Tail(persist[p])
          /\ writer'[p] \in {"collect", "jsonl"}
      BY <1>2, <2>1 DEF PersistReceive, CollectorInv, StageTypeInv
    <3>2. Len(batch'[p]) = Len(batch[p]) + 1 /\ Len(persist'[p]) = Len(persist[p]) - 1
      BY <3>1, LengthsAreNumbers
    <3>3. Unwritten(p)' = Len(batch[p]) + 1 /\ Unwritten(p) = Len(batch[p])
      BY <3>1, <3>2 DEF Unwritten
    <3>4. Behind(p)' = Behind(p)
      <4> DEFINE u == Len(batch[p])
                 t == Len(persist[p])
                 g == persisted[p]
      <4>1. u \in Nat /\ t \in Nat /\ g \in Nat /\ Behind(p) = g + u + t
            /\ Behind(p)' = g + (u + 1) + (t - 1)
        BY <3>1, <3>2, <3>3, LengthsAreNumbers DEF Behind
      <4> HIDE DEF u, t, g
      <4> QED BY <4>1
    <3> QED BY <3>1, <3>4
  <2>2. CASE PersistFlush(p)
    <3>1. UNCHANGED <<critical, persisted, batch, persist>> /\ writer[p] = "collect"
          /\ writer'[p] = "jsonl"
      BY <1>2, <2>2 DEF PersistFlush, persistVars
    <3> QED BY <3>1 DEF Behind, Unwritten
  <2>3. CASE PersistEnds(p)
    <3>1. UNCHANGED <<critical, persisted, batch, persist>> /\ writer[p] = "collect"
          /\ writer'[p] = "ended" /\ persistClosed[p] /\ persist[p] = <<>> /\ batch[p] = <<>>
      BY <1>2, <2>3 DEF PersistEnds, persistVars
    <3> QED BY <3>1 DEF Behind, Unwritten
  <2>4. CASE WriteJsonl(p)
    <3>1. /\ UNCHANGED <<critical, persist>> /\ writer[p] = "jsonl"
          /\ persisted'[p] = persisted[p] + Len(batch[p])
          /\ \/ writer'[p] = "mongo"
             \/ writer'[p] = "collect" /\ batch'[p] = <<>>
      BY <1>2, <2>4, CollectorAssumption DEF WriteJsonl, persistVars, CollectorInv, StageTypeInv
    <3>2. Unwritten(p)' = 0 /\ Unwritten(p) = Len(batch[p])
      BY <3>1 DEF Unwritten
    <3>3. Behind(p)' = Behind(p)
      BY <3>1, <3>2, LengthsAreNumbers DEF Behind
    <3> QED BY <3>1, <3>3
  <2>5. CASE JsonlFails(p)
    <3>1. UNCHANGED <<critical, persisted, batch, persist, writer>>
      BY <2>5 DEF JsonlFails, persistVars
    <3> QED BY <1>2, <1>3, <3>1 DEF Behind, Unwritten
  <2>6. CASE WriteMongo(p)
    <3>1. /\ UNCHANGED <<critical, persist, persisted>> /\ writer[p] = "mongo"
          /\ writer'[p] = "collect" /\ batch'[p] = <<>>
      BY <1>2, <2>6 DEF WriteMongo, persistVars, CollectorInv, StageTypeInv
    <3> QED BY <3>1 DEF Behind, Unwritten
  <2>7. CASE MongoFails(p)
    <3>1. \/ UNCHANGED <<writer, critical>> \/ critical' = [critical EXCEPT ![p] = @ + 1]
      BY <2>7 DEF MongoFails
    <3>2. UNCHANGED <<batch, persist, persisted>>
      BY <2>7 DEF MongoFails, persistVars
    <3>3. CASE UNCHANGED <<writer, critical>>
      BY <1>2, <1>3, <3>2, <3>3 DEF Behind, Unwritten
    <3>4. CASE critical' = [critical EXCEPT ![p] = @ + 1]
      BY <1>2, <3>4
    <3> QED BY <3>1, <3>3, <3>4
  <2> QED BY <2>1, <2>2, <2>3, <2>4, <2>5, <2>6, <2>7 DEF PersistLoop
<1>5. ASSUME critical'[p] = 0 PROVE NothingMissing(p)' /\ EndedInOrder(p)'
  <2>1. NothingMissing(p) /\ EndedInOrder(p) /\ Behind(p)' = Behind(p)
    BY <1>2, <1>4, <1>5 DEF CountInv
  <2>2. NothingMissing(p)'
    BY <1>1, <2>1 DEF NothingMissing, Behind
  <2> QED BY <1>1, <1>4, <1>5, <2>1, <2>2 DEF EndedInOrder
<1>6. ~LoopsEnded(p)
  BY <1>3 DEF LoopsEnded
<1> QED BY <1>1, <1>2, <1>5, <1>6, CountInside

LEMMA LossInside ==
  ASSUME LossInv, CollectorInv, NEW p \in Partitions,
         SequenceLoop(p) \/ TransferLoop(p) \/ PersistLoop(p)
  PROVE  LossInv'
<1>1. CountTypeInv'
  <2>1. UNCHANGED <<taken, ingressClosed>>
    BY DEF SequenceLoop, SequencePop, SequencePush, SequenceEnds, TransferLoop, TransferPop,
       TransferPush, TransferEnds, PersistLoop, PersistReceive, PersistFlush, PersistEnds,
       WriteJsonl, JsonlFails, WriteMongo, MongoFails, OutsideWritingUnchanged, outerVars
  <2>2. critical' = critical \/ critical' = [critical EXCEPT ![p] = @ + 1]
    BY DEF SequenceLoop, SequencePop, SequencePush, SequenceEnds, TransferLoop, TransferPop,
       TransferPush, TransferEnds, PersistLoop, PersistReceive, PersistFlush, PersistEnds,
       WriteJsonl, JsonlFails, WriteMongo, MongoFails
  <2>3. critical[p] + 1 \in Nat
    BY DEF LossInv, CountTypeInv
  <2> QED BY <2>1, <2>2, <2>3 DEF LossInv, CountTypeInv
<1>2. CountInv(p)'
  BY CountPop, CountSequence, CountTransfer, CountPersist DEF SequenceLoop
<1>3. ASSUME NEW q \in Partitions, q # p PROVE CountInv(q)'
  <2>1. UNCHANGED <<taken, ingressClosed, phase>>
    BY DEF SequenceLoop, SequencePop, SequencePush, SequenceEnds, TransferLoop, TransferPop,
       TransferPush, TransferEnds, PersistLoop, PersistReceive, PersistFlush, PersistEnds,
       WriteJsonl, JsonlFails, WriteMongo, MongoFails, OutsideWritingUnchanged, outerVars,
       engineVars
  <2>2. ingress' = ingress \/ ingress' = [ingress EXCEPT ![p] = Tail(@)]
    BY DEF SequenceLoop, SequencePop, SequencePush, SequenceEnds, TransferLoop, TransferPop,
       TransferPush, TransferEnds, PersistLoop, PersistReceive, PersistFlush, PersistEnds,
       WriteJsonl, JsonlFails, WriteMongo, MongoFails, OutsideWritingUnchanged
  <2>3. critical' = critical \/ critical' = [critical EXCEPT ![p] = @ + 1]
    BY DEF SequenceLoop, SequencePop, SequencePush, SequenceEnds, TransferLoop, TransferPop,
       TransferPush, TransferEnds, PersistLoop, PersistReceive, PersistFlush, PersistEnds,
       WriteJsonl, JsonlFails, WriteMongo, MongoFails
  <2>4. UNCHANGED <<ingress[q], critical[q]>>
    BY <1>3, <2>2, <2>3 DEF LossInv, CountTypeInv, CollectorInv, ArrivalTypeInv
  <2>5. UNCHANGED lineVars(q)
    BY <1>3, OthersQuiet DEF CollectorInv
  <2>6. CountInv(q)
    BY DEF LossInv
  <2>7. UNCHANGED insideOf(q) /\ UNCHANGED <<taken[q], ingressClosed[q], phase>>
    BY <2>1, <2>5 DEF lineVars, insideOf
  <2>8. Unwritten(q)' = Unwritten(q)
    BY <2>7 DEF Unwritten, insideOf
  <2>9. (NothingMissing(q)' <=> NothingMissing(q)) /\ (EndedInOrder(q)' <=> EndedInOrder(q))
    BY <2>4, <2>7, <2>8 DEF NothingMissing, EndedInOrder, insideOf
  <2>10. LoopsEnded(q)' <=> LoopsEnded(q)
    BY <2>7 DEF LoopsEnded, insideOf
  <2> QED BY <2>4, <2>6, <2>7, <2>9, <2>10 DEF CountInv
<1> QED BY <1>1, <1>2, <1>3 DEF LossInv

LEMMA LossInvariant == CollectorSpec => []LossInv
<1>1. ASSUME LossInv, UNCHANGED vars PROVE LossInv'
  <2>1. CountTypeInv'
    BY <1>1 DEF LossInv, CountTypeInv, vars, partitionVars
  <2>2. ASSUME NEW p \in Partitions PROVE CountInv(p)'
    <3>1. Unwritten(p)' = Unwritten(p)
      BY <1>1 DEF Unwritten, vars, partitionVars, insideVars, writeVars
    <3>2. (NothingMissing(p)' <=> NothingMissing(p)) /\ (EndedInOrder(p)' <=> EndedInOrder(p))
          /\ (LoopsEnded(p)' <=> LoopsEnded(p))
      BY <1>1, <3>1 DEF NothingMissing, EndedInOrder, LoopsEnded, vars, partitionVars,
         insideVars, numberVars, readyVars, persistVars, writeVars
    <3> QED BY <1>1, <3>2 DEF LossInv, CountInv, vars, partitionVars, engineVars
  <2> QED BY <2>1, <2>2 DEF LossInv
<1>2. ASSUME LossInv, CollectorInv, [CollectorNext]_vars PROVE LossInv'
  BY <1>1, <1>2, LossOutside, LossInside DEF CollectorNext
<1> QED BY <1>2, LossInitInv, CollectorInvariant, PTL DEF CollectorSpec

\* An ended run whose critical counter of a partition is zero has stored all
\* that Accept took for it: every loss is counted (Engine.Run's order of
\* closing and joining, and the refusals of the three loops).
THEOREM EveryLossIsCritical == CollectorSpec => []LossIsCritical
<1>1. ASSUME LossInv, CollectorInv, phase = "done", NEW p \in Partitions, critical[p] = 0
      PROVE  /\ Len(log[p]) = taken[p] /\ ToSet(jsonl[p]) = ToSet(log[p])
             /\ MongoEnabled => ToSet(mongo[p]) = ToSet(log[p])
  <2>1. NothingMissing(p) /\ EndedInOrder(p) /\ LoopsEnded(p)
    BY <1>1 DEF LossInv, CountInv
  <2>2. /\ ingress[p] = <<>> /\ numbering[p] = <<>> /\ ready[p] = <<>> /\ moving[p] = <<>>
        /\ persist[p] = <<>> /\ batch[p] = <<>> /\ writer[p] = "ended"
    BY <2>1 DEF EndedInOrder, LoopsEnded
  <2>3. Len(log[p]) = taken[p] /\ Len(log[p]) = persisted[p]
    <3>1. Unwritten(p) = 0
      BY <2>2 DEF Unwritten
    <3>2. Len(<<>>) = 0
      OBVIOUS
    <3>3. taken[p] = Len(log[p]) + 0
      BY <2>1, <2>2, <3>2 DEF NothingMissing
    <3>4. Len(log[p]) = persisted[p] + 0 + 0 + 0 + 0 + 0
      <4>1. Len(persist[p]) = 0 /\ Len(moving[p]) = 0 /\ Len(ready[p]) = 0
            /\ Len(numbering[p]) = 0
        BY <2>2, <3>2
      <4> QED BY <2>1, <3>1, <4>1, Zenon DEF NothingMissing
    <3>5. Len(log[p]) \in Nat /\ persisted[p] \in Nat
      BY LengthsAreNumbers, <1>1 DEF LossInv, CountTypeInv
    <3> QED BY <3>3, <3>4, <3>5
  <2>4. PICK w, b, q \in Nat, j \in 0..Len(batch[p]) :
          Slices(p, w, b, q) /\ Written(p, w, j) /\ Acknowledged(p, w)
    BY <1>1 DEF CollectorInv, PartitionInv, InLine
  <2>5. w = Len(log[p]) /\ j = 0
    <3>1. w <= Len(log[p]) /\ j = 0
      BY <2>2, <2>4, LengthsAreNumbers DEF Slices, Slice
    <3>2. persisted[p] <= w + 0
      BY <2>2, <2>4 DEF Acknowledged
    <3> QED BY <2>3, <3>1, <3>2, LengthsAreNumbers
  <2>6. ToSet(log[p]) = First(log[p], Len(log[p]))
    BY LengthsAreNumbers DEF ToSet, First
  <2>7. ToSet(jsonl[p]) = ToSet(log[p])
    BY <2>4, <2>5, <2>6 DEF Written
  <2>8. MongoEnabled => ToSet(mongo[p]) = ToSet(log[p])
    <3>1. MongoEnabled => MongoHolds(p, w, 0)
      BY <2>4, <2>5 DEF Written
    <3> QED BY <2>5, <2>6, <3>1 DEF MongoHolds
  <2> QED BY <2>3, <2>7, <2>8
<1>2. LossInv /\ CollectorInv => LossIsCritical
  BY <1>1 DEF LossIsCritical
<1> QED BY <1>2, LossInvariant, CollectorInvariant, PTL

-----------------------------------------------------------------------------
(* The replay of what a collection run has stored (OfflineReplay).          *)

\* Ranks of places.
Ordered(p, s) == \A i \in Places(p, s) : i \in Nat /\ mongo[p][i].no \in Nat

LEMMA PlacesCounted ==
  ASSUME NEW p \in Partitions, NEW s \in Symbols, mongo[p] \in Seq(Numbered)
  PROVE  /\ IsFiniteSet(Places(p, s)) /\ Cardinality(Places(p, s)) \in Nat
         /\ Ordered(p, s)
<1>1. Len(mongo[p]) \in Nat /\ DOMAIN mongo[p] = 1..Len(mongo[p])
  OBVIOUS
<1>2. IsFiniteSet(1..Len(mongo[p]))
  BY <1>1, FS_Interval
<1>3. Places(p, s) \in SUBSET (1..Len(mongo[p]))
  BY <1>1 DEF Places
<1>4. \A i \in 1..Len(mongo[p]) : mongo[p][i] \in Numbered
  OBVIOUS
<1>5. Ordered(p, s)
  BY <1>1, <1>3, <1>4 DEF Ordered, Numbered
<1> QED
  BY <1>2, <1>3, <1>5, FS_Subset, FS_CardinalityType

LEMMA PlaceRanked ==
  ASSUME NEW p, NEW s, IsFiniteSet(Places(p, s)), Ordered(p, s), NEW i \in Places(p, s)
  PROVE  /\ IsFiniteSet(UpToDocument(p, s, i))
         /\ Cardinality(UpToDocument(p, s, i)) \in 1..Cardinality(Places(p, s))
<1>1. /\ UpToDocument(p, s, i) \in SUBSET Places(p, s)
      /\ i \in UpToDocument(p, s, i)
  BY DEF UpToDocument, Ordered
<1>2. /\ IsFiniteSet(UpToDocument(p, s, i))
      /\ Cardinality(UpToDocument(p, s, i)) <= Cardinality(Places(p, s))
  BY <1>1, FS_Subset
<1>3. Cardinality(UpToDocument(p, s, i)) # 0
  BY <1>1, <1>2, FS_EmptySet
<1> QED
  BY <1>2, <1>3, FS_CardinalityType

\* A place with a smaller number, or of a later copy, has the smaller rank.
LEMMA RankFollowsNumber ==
  ASSUME NEW p, NEW s, IsFiniteSet(Places(p, s)), Ordered(p, s),
         NEW i \in Places(p, s), NEW k \in Places(p, s), i # k,
         mongo[p][i].no < mongo[p][k].no \/ (mongo[p][i].no = mongo[p][k].no /\ i < k)
  PROVE  Cardinality(UpToDocument(p, s, i)) < Cardinality(UpToDocument(p, s, k))
<1>1. /\ UpToDocument(p, s, i) \in SUBSET UpToDocument(p, s, k)
      /\ k \in UpToDocument(p, s, k) /\ k \notin UpToDocument(p, s, i)
  BY DEF UpToDocument, Ordered
<1>2. /\ IsFiniteSet(UpToDocument(p, s, k))
      /\ Cardinality(UpToDocument(p, s, k)) \in Nat
      /\ Cardinality(UpToDocument(p, s, i)) \in Nat
  BY PlaceRanked
<1>3. /\ Cardinality(UpToDocument(p, s, i)) <= Cardinality(UpToDocument(p, s, k))
      /\ Cardinality(UpToDocument(p, s, i)) # Cardinality(UpToDocument(p, s, k))
  BY <1>1, <1>2, FS_Subset
<1> QED
  BY <1>2, <1>3

\* Every rank is the rank of one place.
LEMMA EveryRankTaken ==
  ASSUME NEW p, NEW s, IsFiniteSet(Places(p, s)), Ordered(p, s)
  PROVE  /\ \A n \in 1..Cardinality(Places(p, s)) :
              \E i \in Places(p, s) : Cardinality(UpToDocument(p, s, i)) = n
         /\ \A i, k \in Places(p, s) :
              Cardinality(UpToDocument(p, s, i)) = Cardinality(UpToDocument(p, s, k)) => i = k
<1> DEFINE places == Places(p, s)
           n == Cardinality(places)
           rank == [i \in places |-> Cardinality(UpToDocument(p, s, i))]
<1>1. n \in Nat
  BY FS_CardinalityType
<1>2. IsFiniteSet(1..n) /\ Cardinality(1..n) = n
  <2> HIDE DEF n
  <2> QED  BY <1>1, FS_Interval
<1>3. rank \in [places -> 1..n]
  BY PlaceRanked
<1>4. \A i, k \in places :
        Cardinality(UpToDocument(p, s, i)) = Cardinality(UpToDocument(p, s, k)) => i = k
  <2> SUFFICES ASSUME NEW i \in places, NEW k \in places, i # k
               PROVE  Cardinality(UpToDocument(p, s, i)) # Cardinality(UpToDocument(p, s, k))
    OBVIOUS
  <2>1. /\ mongo[p][i].no \in Nat /\ mongo[p][k].no \in Nat /\ i \in Nat /\ k \in Nat
        /\ Cardinality(UpToDocument(p, s, i)) \in Nat
        /\ Cardinality(UpToDocument(p, s, k)) \in Nat
    BY PlaceRanked DEF Ordered
  <2>2. CASE mongo[p][i].no < mongo[p][k].no \/ (mongo[p][i].no = mongo[p][k].no /\ i < k)
    <3>1. Cardinality(UpToDocument(p, s, i)) < Cardinality(UpToDocument(p, s, k))
      BY <2>2, RankFollowsNumber
    <3> QED  BY <2>1, <3>1
  <2>3. CASE mongo[p][k].no < mongo[p][i].no \/ (mongo[p][k].no = mongo[p][i].no /\ k < i)
    <3>1. Cardinality(UpToDocument(p, s, k)) < Cardinality(UpToDocument(p, s, i))
      BY <2>3, RankFollowsNumber
    <3> QED  BY <2>1, <3>1
  <2>4. \/ mongo[p][i].no < mongo[p][k].no \/ (mongo[p][i].no = mongo[p][k].no /\ i < k)
        \/ mongo[p][k].no < mongo[p][i].no \/ (mongo[p][k].no = mongo[p][i].no /\ k < i)
    BY <2>1
  <2> QED
    BY <2>2, <2>3, <2>4
<1>5. rank \in Injection(places, 1..n)
  BY <1>3, <1>4 DEF Injection, IsInjective
<1>6. rank \in Surjection(places, 1..n)
  <2> HIDE DEF rank, places
  <2> QED  BY <1>2, <1>5, FS_Injection DEF n
<1>7. \A m \in 1..n : \E i \in places : rank[i] = m
  <2> HIDE DEF rank, places, n
  <2> QED  BY <1>6 DEF Surjection
<1> QED
  BY <1>4, <1>7

\* What ReadAll returns: the symbol's documents by number, and all of them.
NumbersNeverFall(documents) ==
  \A k \in 1..Len(documents), n \in 1..Len(documents) :
    k < n => documents[k].no <= documents[n].no
IsAt(p, s, documents, i) == \E n \in 1..Len(documents) : documents[n] = mongo[p][i]
ReadsAll(p, s, documents) ==
  /\ documents \in Seq(Numbered)
  /\ \A n \in 1..Len(documents) : \E i \in Places(p, s) : documents[n] = mongo[p][i]
  /\ \A i \in Places(p, s) : IsAt(p, s, documents, i)
  /\ NumbersNeverFall(documents)

LEMMA ReadAllReads ==
  ASSUME NEW p \in Partitions, NEW s \in Symbols, mongo[p] \in Seq(Numbered)
  PROVE  ReadsAll(p, s, ReadAll(p, s))
<1> DEFINE places == Places(p, s)
           rank(i) == Cardinality(UpToDocument(p, s, i))
           at(n) == CHOOSE i \in places : rank(i) = n
           size == Cardinality(places)
           documents == ReadAll(p, s)
<1>1. IsFiniteSet(places) /\ size \in Nat /\ Ordered(p, s)
  BY PlacesCounted
<1>2. documents = [n \in 1..size |-> mongo[p][at(n)]]
  BY DEF ReadAll
<1>3. \A n \in 1..size : at(n) \in places /\ rank(at(n)) = n
  BY <1>1, EveryRankTaken
<1>4. \A i \in places : i \in DOMAIN mongo[p] /\ mongo[p][i] \in Numbered
  BY DEF Places
<1>5. \A i \in places : rank(i) \in 1..size
  BY <1>1, PlaceRanked
<1>6. \A i, k \in places : rank(i) = rank(k) => i = k
  BY <1>1, EveryRankTaken
<1>7. \A i, k \in places : mongo[p][i].no < mongo[p][k].no => rank(i) < rank(k)
  <2>1. \A i \in places : mongo[p][i].no \in Nat
    BY <1>1 DEF Ordered
  <2> QED  BY <1>1, <2>1, RankFollowsNumber
<1>8. \A i \in places : mongo[p][i].no \in Nat
  BY <1>1 DEF Ordered
<1> HIDE DEF places, rank, at, size, documents
<1>9. Len(documents) = size /\ documents \in Seq(Numbered)
      /\ \A n \in 1..size : documents[n] = mongo[p][at(n)]
  BY <1>1, <1>2, <1>3, <1>4
<1>10. \A n \in 1..Len(documents) : \E i \in places : documents[n] = mongo[p][i]
  BY <1>3, <1>9
<1>11. \A i \in places : IsAt(p, s, documents, i)
  <2> SUFFICES ASSUME NEW i \in places PROVE IsAt(p, s, documents, i)
    OBVIOUS
  <2>1. rank(i) \in 1..size /\ at(rank(i)) = i
    BY <1>3, <1>5, <1>6
  <2> QED  BY <1>9, <2>1 DEF IsAt
<1>12. NumbersNeverFall(documents)
  <2> SUFFICES ASSUME NEW k \in 1..size, NEW n \in 1..size, k < n,
                      documents[n].no < documents[k].no
               PROVE  FALSE
    BY <1>3, <1>8, <1>9 DEF NumbersNeverFall
  <2>1. rank(at(n)) < rank(at(k))
    BY <1>3, <1>7, <1>9
  <2> QED  BY <1>3, <2>1
<1> QED
  BY <1>9, <1>10, <1>11, <1>12 DEF ReadsAll, documents, places
-----------------------------------------------------------------------------
\* Every number up to a document's own is another document's, and a number
\* belongs to one bar.
NumberStored(p, s, n) == \E i \in Places(p, s) : mongo[p][i].no = n
ContiguousStore(p, s) ==
  /\ \A i \in Places(p, s) :
       mongo[p][i].no \in Nat \ {0} /\ \A n \in 1..mongo[p][i].no : NumberStored(p, s, n)
  /\ \A i, k \in Places(p, s) : mongo[p][i].no = mongo[p][k].no => mongo[p][i] = mongo[p][k]

LEMMA DocumentsArePrefix ==
  ASSUME CollectorInv, NEW p \in Partitions
  PROVE  \E n \in 0..Len(log[p]) : ToSet(mongo[p]) = First(log[p], n)
<1>1. PICK w, b, q \in Nat, j \in 0..Len(batch[p]) : Slices(p, w, b, q) /\ Written(p, w, j)
  BY DEF CollectorInv, PartitionInv, InLine
<1>2. Len(batch[p]) \in Nat /\ Len(log[p]) \in Nat
  BY DEF CollectorInv, StageTypeInv
<1>3. w + Len(batch[p]) <= Len(log[p])
  BY <1>1, <1>2 DEF Slices, Slice
<1>4. CASE MongoEnabled
  <2>1. PICK m \in 0..j : MongoHolds(p, w, m)
    BY <1>1, <1>4 DEF Written
  <2>2. w + m \in 0..Len(log[p])
    BY <1>2, <1>3
  <2> QED  BY <2>1, <2>2 DEF MongoHolds
<1>5. CASE ~MongoEnabled
  <2>1. mongo[p] = <<>>
    BY <1>1, <1>5 DEF Written
  <2>2. ToSet(mongo[p]) = {} /\ First(log[p], 0) = {}
    BY <2>1 DEF ToSet, First
  <2> QED  BY <1>2, <2>2
<1> QED  BY <1>4, <1>5

LEMMA DocumentsContiguous ==
  ASSUME CollectorInv, NumberInv, NEW p \in Partitions, NEW s \in Symbols
  PROVE  ContiguousStore(p, s)
<1> DEFINE l == log[p]
<1>1. PICK t \in 0..Len(l) : ToSet(mongo[p]) = First(l, t)
  BY DocumentsArePrefix
<1>2. Len(l) \in Nat /\ t \in Nat /\ \A i \in 1..t : i \in 1..Len(l)
  BY DEF CollectorInv, StageTypeInv
<1>3. \A i \in 1..Len(l) : l[i].symbol \in Symbols /\ l[i].no \in Nat
  <2>1. \A i \in 1..Len(l) : l[i] \in Numbered
    BY DEF CollectorInv, StageTypeInv
  <2> QED  BY <2>1 DEF Numbered
<1>4. \A i \in 1..Len(l) :
        /\ PartitionOf[l[i].symbol] = p /\ l[i].no \in 1..nextNo[l[i].symbol]
        /\ \A h \in 1..i - 1 : l[h].symbol = l[i].symbol => l[h].no < l[i].no
  BY DEF NumberInv, NumbersAscend
<1>5. nextNo[s] \in Nat
  BY DEF CollectorInv, StageTypeInv
<1>6. \A i \in 1..t : \E x \in DOMAIN mongo[p] : mongo[p][x] = l[i]
  <2> SUFFICES ASSUME NEW i \in 1..t PROVE \E x \in DOMAIN mongo[p] : mongo[p][x] = l[i]
    OBVIOUS
  <2>1. l[i] \in ToSet(mongo[p])
    BY <1>1 DEF First
  <2> HIDE DEF l
  <2> QED  BY <2>1 DEF ToSet
<1>7. \A x \in Places(p, s) : \E i \in 1..t : mongo[p][x] = l[i] /\ l[i].symbol = s
  <2> SUFFICES ASSUME NEW x \in Places(p, s)
               PROVE  \E i \in 1..t : mongo[p][x] = l[i] /\ l[i].symbol = s
    OBVIOUS
  <2>1. mongo[p][x] \in ToSet(mongo[p]) /\ mongo[p][x].symbol = s
    BY DEF Places, ToSet
  <2>2. PICK i \in 1..t : mongo[p][x] = l[i]
    BY <1>1, <2>1 DEF First
  <2> QED  BY <2>1, <2>2
<1> HIDE DEF l
<1>8. ASSUME NEW i \in 1..Len(l), NEW k \in 1..Len(l), l[i].symbol = l[k].symbol, i < k
      PROVE  l[i].no < l[k].no
  <2>1. i \in 1..k - 1
    BY <1>2, <1>8
  <2> QED  BY <1>4, <1>8, <2>1
<1>9. ASSUME NEW x \in Places(p, s)
      PROVE  mongo[p][x].no \in Nat \ {0} /\ \A n \in 1..mongo[p][x].no : NumberStored(p, s, n)
  <2>1. PICK i \in 1..t : mongo[p][x] = l[i] /\ l[i].symbol = s
    BY <1>7
  <2>2. i \in 1..Len(l) /\ PartitionOf[s] = p /\ l[i].no \in 1..nextNo[s]
    BY <1>2, <1>4, <2>1
  <2>3. ASSUME NEW n \in 1..l[i].no PROVE NumberStored(p, s, n)
    <3>1. n \in 1..nextNo[s]
      BY <1>5, <2>2
    <3>2. PICK k \in 1..Len(l) : l[k].symbol = s /\ l[k].no = n
      BY <2>2, <3>1 DEF NumberInv, NumbersComplete, IsLogged, l
    <3>3. ~(l[i].no < l[k].no)
      BY <1>3, <2>2, <3>2
    <3>4. ~(i < k)
      BY <1>8, <2>1, <2>2, <3>2, <3>3
    <3>5. k \in 1..t
      BY <1>2, <2>1, <3>2, <3>4
    <3> QED
      BY <1>6, <3>2, <3>5 DEF NumberStored, Places
  <2> QED  BY <1>5, <2>1, <2>2, <2>3
<1>10. ASSUME NEW x \in Places(p, s), NEW y \in Places(p, s), mongo[p][x].no = mongo[p][y].no
       PROVE  mongo[p][x] = mongo[p][y]
  <2>1. PICK i \in 1..t : mongo[p][x] = l[i] /\ l[i].symbol = s
    BY <1>7
  <2>2. PICK k \in 1..t : mongo[p][y] = l[k] /\ l[k].symbol = s
    BY <1>7
  <2>3. i \in 1..Len(l) /\ k \in 1..Len(l) /\ l[i].no \in Nat /\ l[k].no \in Nat
    BY <1>2, <1>3
  <2>4. ~(i < k) /\ ~(k < i)
    BY <1>8, <1>10, <2>1, <2>2, <2>3
  <2>5. i = k
    BY <1>2, <2>4
  <2> QED  BY <2>1, <2>2, <2>5
<1> QED
  BY <1>9, <1>10 DEF ContiguousStore

\* So the sequence read steps by nothing or by one, from one, and copies are
\* next to each other.
Steps(documents) ==
  /\ Len(documents) > 0 => documents[1].no = 1
  /\ \A n \in 1..Len(documents) - 1 :
       documents[n + 1] = documents[n] \/ documents[n + 1].no = documents[n].no + 1

LEMMA ReadStepsByOne ==
  ASSUME NEW p, NEW s, NEW documents, ReadsAll(p, s, documents), ContiguousStore(p, s)
  PROVE  Steps(documents)
<1>1. Len(documents) \in Nat
  BY DEF ReadsAll
<1>2. \A n \in 1..Len(documents) : documents[n].no \in Nat \ {0}
  BY DEF ReadsAll, ContiguousStore
<1>3. ASSUME NEW n \in 1..Len(documents), NEW m \in 1..documents[n].no
      PROVE  \E k \in 1..Len(documents) : documents[k].no = m
  <2>1. PICK i \in Places(p, s) : documents[n] = mongo[p][i]
    BY DEF ReadsAll
  <2>2. NumberStored(p, s, m)
    BY <1>3, <2>1 DEF ContiguousStore
  <2>3. PICK j \in Places(p, s) : mongo[p][j].no = m
    BY <2>2 DEF NumberStored
  <2>4. IsAt(p, s, documents, j)
    BY DEF ReadsAll
  <2> QED  BY <2>3, <2>4 DEF IsAt
<1>4. \A k, n \in 1..Len(documents) : k < n => documents[k].no <= documents[n].no
  BY DEF ReadsAll, NumbersNeverFall
<1>5. \A k, n \in 1..Len(documents) : documents[k].no = documents[n].no => documents[k] = documents[n]
  BY DEF ReadsAll, ContiguousStore
<1>6. Len(documents) > 0 => documents[1].no = 1
  <2> SUFFICES ASSUME Len(documents) > 0 PROVE documents[1].no = 1
    OBVIOUS
  <2>1. 1 \in 1..Len(documents)
    BY <1>1
  <2>2. 1 \in 1..documents[1].no
    BY <1>2, <2>1
  <2>3. PICK k \in 1..Len(documents) : documents[k].no = 1
    BY <1>3, <2>1, <2>2
  <2>4. k = 1 \/ 1 < k
    BY <1>1
  <2>5. documents[1].no <= 1
    BY <1>4, <2>1, <2>3, <2>4
  <2> QED  BY <1>2, <2>1, <2>5
<1>7. ASSUME NEW n \in 1..Len(documents) - 1, documents[n + 1] # documents[n]
      PROVE  documents[n + 1].no = documents[n].no + 1
  <2>1. n \in 1..Len(documents) /\ n + 1 \in 1..Len(documents) /\ n < n + 1
    BY <1>1
  <2>2. PICK a \in Nat, z \in Nat : a = documents[n].no /\ z = documents[n + 1].no
    BY <1>2, <2>1
  <2>3. 1 <= a /\ a <= z /\ a # z
    BY <1>2, <1>4, <1>5, <1>7, <2>1, <2>2
  <2>4. a + 1 \in 1..z
    BY <2>3
  <2>5. PICK k \in 1..Len(documents) : documents[k].no = a + 1
    BY <1>3, <2>1, <2>2, <2>4
  <2>6. ~(k < n) /\ k # n
    <3>1. ~(k < n)
      BY <1>4, <2>1, <2>2, <2>5
    <3> QED  BY <2>2, <2>5, <3>1
  <2>7. k = n + 1 \/ n + 1 < k
    BY <1>1, <2>1, <2>6
  <2>8. z <= a + 1
    BY <1>4, <2>1, <2>2, <2>5, <2>7
  <2> QED  BY <2>2, <2>3, <2>8
<1> QED
  BY <1>6, <1>7 DEF Steps
-----------------------------------------------------------------------------
\* What takes the place of induction.
LEMMA LeastNumber ==
  ASSUME NEW n \in Nat, NEW S \in SUBSET (0..n), S # {}
  PROVE  \E k \in S : \A m \in S : k <= m
<1> DEFINE upTo(k) == 0..k
           W == {upTo(k) : k \in S}
<1>1. W \in SUBSET SUBSET (0..n) /\ W # {}
  <2>1. \A k \in S : upTo(k) \in SUBSET (0..n)
    OBVIOUS
  <2> HIDE DEF upTo
  <2> QED  BY <2>1
<1>2. IsWellFoundedOn(StrictSubsetOrdering(0..n), SUBSET (0..n))
  <2>1. IsFiniteSet(0..n)
    BY FS_Interval
  <2>2. PICK all : all = 0..n
    OBVIOUS
  <2>3. FiniteSubsetsOf(all) = SUBSET all
    BY <2>1, <2>2, FS_FiniteSubsetsOfFinite
  <2> QED
    BY <2>2, <2>3, FS_StrictSubsetOrderingWellFounded
<1>3. PICK T \in W : \A U \in W : <<U, T>> \notin StrictSubsetOrdering(0..n)
  <2> HIDE DEF W
  <2> QED  BY <1>1, <1>2, WFMin
<1>4. PICK k \in S : T = upTo(k)
  OBVIOUS
<1>5. \A m \in S : ~(m < k)
  <2> SUFFICES ASSUME NEW m \in S, m < k PROVE FALSE
    OBVIOUS
  <2>1. upTo(m) \in W /\ upTo(m) \subseteq upTo(k) /\ k \in upTo(k) /\ k \notin upTo(m)
    OBVIOUS
  <2> HIDE DEF W, upTo
  <2>2. <<upTo(m), upTo(k)>> \in StrictSubsetOrdering(0..n)
    BY <1>1, <1>4, <2>1 DEF StrictSubsetOrdering
  <2> QED
    BY <1>3, <1>4, <2>1, <2>2
<1> QED
  BY <1>5


\* The admission of a replayed sequence.

IsReplay(after, documents) ==
  after = [n \in 0..Len(documents) |->
             IF n = 0 THEN NewEntityState
             ELSE Admit(after[n - 1], documents[n].no, MapObservation(documents[n]))]

\* What the recursion comes to: everything read so far, each number once.
Entered(documents, n) == {Identity(documents[m].no, MapObservation(documents[m])) : m \in 1..n}
AfterReading(documents, n) ==
  IF n = 0 THEN NewEntityState
  ELSE [lastSequence |-> documents[n].no, identities |-> Entered(documents, n)]

LEMMA EnteredGrows ==
  ASSUME NEW documents, NEW n \in Nat \ {0}
  PROVE  Entered(documents, n) =
           Entered(documents, n - 1) \union {Identity(documents[n].no, MapObservation(documents[n]))}
<1>1. \A m : m \in 1..n <=> m \in 1..(n - 1) \/ m = n
  OBVIOUS
<1> QED
  BY <1>1, Zenon DEF Entered

LEMMA AdmittedNext ==
  ASSUME NEW documents \in Seq(Numbered), Steps(documents), NumbersNeverFall(documents),
         NEW n \in 1..Len(documents)
  PROVE  Admit(AfterReading(documents, n - 1), documents[n].no, MapObservation(documents[n]))
           = AfterReading(documents, n)
<1> DEFINE d == documents[n]
           state == AfterReading(documents, n - 1)
           event == MapObservation(d)
<1>1. Len(documents) \in Nat /\ n \in Nat \ {0} /\ n - 1 \in Nat
  OBVIOUS
<1>2. \A k \in 1..Len(documents) : documents[k].no \in Nat
  <2>1. \A k \in 1..Len(documents) : documents[k] \in Numbered
    OBVIOUS
  <2> QED  BY <2>1 DEF Numbered
<1>3. state.identities = Entered(documents, n - 1)
  <2>1. Entered(documents, 0) = {}
    BY DEF Entered
  <2> QED  BY <2>1 DEF AfterReading, NewEntityState
<1>4. \A m \in 1..n - 1 : m \in 1..Len(documents) /\ documents[m].no <= d.no
  BY <1>1 DEF NumbersNeverFall
<1>5. CASE n > 1 /\ documents[n - 1] = d
  <2>1. Identity(d.no, event) \in Entered(documents, n - 1)
    BY <1>1, <1>5 DEF Entered
  <2>2. SequenceTaken(state, d.no)
    BY <1>3, <2>1 DEF SequenceTaken, Identity
  <2>3. Verdict(state, d.no, event) = "DUPLICATE"
    BY <1>3, <2>1, <2>2 DEF Verdict
  <2>4. Admit(state, d.no, event) = state
    BY <2>3 DEF Admit
  <2>5. Entered(documents, n) = Entered(documents, n - 1)
    <3>1. Entered(documents, n) = Entered(documents, n - 1) \union {Identity(d.no, event)}
      BY <1>1, EnteredGrows
    <3> HIDE DEF d, event
    <3> QED  BY <2>1, <3>1
  <2>6. state = AfterReading(documents, n)
    BY <1>1, <1>5, <2>5 DEF AfterReading
  <2> QED  BY <2>4, <2>6
<1>6. CASE ~(n > 1 /\ documents[n - 1] = d)
  <2>1. d.no = state.lastSequence + 1 /\ state.lastSequence \in Nat
    <3>1. CASE n = 1
      BY <1>1, <3>1 DEF AfterReading, NewEntityState, Steps
    <3>2. CASE n > 1
      <4>1. n - 1 \in 1..Len(documents) - 1 /\ (n - 1) + 1 = n
        BY <1>1, <3>2
      <4>2. d.no = documents[n - 1].no + 1
        BY <1>6, <3>2, <4>1 DEF Steps
      <4> QED  BY <1>1, <1>2, <3>2, <4>1, <4>2 DEF AfterReading
    <3> QED  BY <1>1, <3>1, <3>2
  <2>2. \A m \in 1..n - 1 : documents[m].no # d.no
    <3>1. CASE n = 1
      BY <3>1
    <3>2. CASE n > 1
      <4>1. \A m \in 1..n - 1 : documents[m].no <= documents[n - 1].no
        BY <1>1, <1>2, <3>2 DEF NumbersNeverFall
      <4>2. documents[n - 1].no = state.lastSequence
        BY <3>2 DEF AfterReading
      <4> QED  BY <1>2, <1>4, <2>1, <4>1, <4>2
    <3> QED  BY <1>1, <3>1, <3>2
  <2>3. ~SequenceTaken(state, d.no)
    BY <1>3, <2>2 DEF SequenceTaken, Entered, Identity
  <2>4. ~EventSeen(state, event)
    BY <1>3, <2>2 DEF EventSeen, Entered, Identity, MapObservation
  <2>5. Verdict(state, d.no, event) = "ADMITTED"
    BY <2>1, <2>3, <2>4 DEF Verdict
  <2>6. Admit(state, d.no, event) =
          [lastSequence |-> d.no,
           identities |-> Entered(documents, n - 1) \union {Identity(d.no, event)}]
    BY <1>3, <2>5 DEF Admit
  <2> QED  BY <1>1, <2>6, EnteredGrows DEF AfterReading
<1> QED  BY <1>5, <1>6

LEMMA ReplayEnters ==
  ASSUME NEW documents \in Seq(Numbered), Steps(documents), NumbersNeverFall(documents),
         NEW after, IsReplay(after, documents)
  PROVE  after[Len(documents)] = AfterReading(documents, Len(documents))
<1> DEFINE size == Len(documents)
           Wrong == {n \in 0..size : after[n] # AfterReading(documents, n)}
           value(n) == IF n = 0 THEN NewEntityState
                       ELSE Admit(after[n - 1], documents[n].no, MapObservation(documents[n]))
<1>1. size \in Nat
  OBVIOUS
<1>2. \A n \in 0..size : after[n] = value(n)
  <2>1. after = [n \in 0..size |-> value(n)]
    BY DEF IsReplay
  <2> HIDE DEF value
  <2> QED  BY <2>1
<1>3. Wrong = {}
  <2> SUFFICES ASSUME Wrong # {} PROVE FALSE
    OBVIOUS
  <2>1. PICK n \in Wrong : \A m \in Wrong : n <= m
    <3>1. Wrong \in SUBSET (0..size)
      OBVIOUS
    <3> HIDE DEF Wrong, size
    <3> QED  BY <1>1, <3>1, LeastNumber
  <2>2. n \in 0..size /\ n # 0
    BY <1>1, <1>2 DEF AfterReading
  <2>3. n - 1 \in 0..size /\ n - 1 \notin Wrong /\ n \in 1..size
    BY <1>1, <2>1, <2>2
  <2>4. after[n - 1] = AfterReading(documents, n - 1)
    BY <2>3
  <2>5. after[n] = AfterReading(documents, n)
    BY <1>2, <2>2, <2>3, <2>4, AdmittedNext
  <2> QED  BY <2>1, <2>5
<1> QED  BY <1>1, <1>3

LEMMA ReplayExists ==
  ASSUME NEW documents \in Seq(Numbered), Steps(documents), NumbersNeverFall(documents)
  PROVE  \E after : IsReplay(after, documents)
<1> DEFINE size == Len(documents)
           table == [n \in 0..size |-> AfterReading(documents, n)]
           value(n) == IF n = 0 THEN NewEntityState
                       ELSE Admit(table[n - 1], documents[n].no, MapObservation(documents[n]))
<1>1. size \in Nat
  OBVIOUS
<1>2. ASSUME NEW n \in 0..size PROVE AfterReading(documents, n) = value(n)
  <2>1. CASE n = 0
    BY <2>1 DEF AfterReading
  <2>2. CASE n # 0
    <3>1. n \in 1..size /\ n - 1 \in 0..size
      BY <1>1, <2>2
    <3>2. table[n - 1] = AfterReading(documents, n - 1)
      BY <3>1
    <3> QED  BY <2>2, <3>1, <3>2, AdmittedNext
  <2> QED  BY <2>1, <2>2
<1>3. table = [n \in 0..size |-> value(n)]
  BY <1>2
<1> HIDE DEF table
<1> QED  BY <1>3 DEF IsReplay

\* A replay of whatever a collection run has stored, whole, broken off or with
\* copies of a repeated batch, admits each document: the documents of a symbol
\* are numbered from 1 without a gap (Authority.Accept, persistLoop), so Admit
\* meets either the next number or one it has just entered.
THEOREM EveryReplayAdmitsAll == CollectorSpec => []ReplayAdmitsEveryDocument
<1>1. ASSUME CollectorInv, NumberInv, NEW p \in Partitions, NEW s \in Symbols
      PROVE  {r.event : r \in Replay(p, s).identities}
               = {MapObservation(d) : d \in ToSet(ReadAll(p, s))}
  <2> DEFINE documents == ReadAll(p, s)
             after == CHOOSE table : IsReplay(table, documents)
             size == Len(documents)
  <2>1. mongo[p] \in Seq(Numbered)
    BY <1>1 DEF CollectorInv, StageTypeInv
  <2>2. ReadsAll(p, s, documents) /\ ContiguousStore(p, s)
    BY <1>1, <2>1, ReadAllReads, DocumentsContiguous
  <2>3. documents \in Seq(Numbered) /\ NumbersNeverFall(documents) /\ Steps(documents)
    <3> HIDE DEF documents
    <3> QED  BY <2>2, ReadStepsByOne DEF ReadsAll
  <2>4. Replay(p, s) = after[size]
    BY DEF Replay, IsReplay
  <2> HIDE DEF documents
  <2>5. IsReplay(after, documents)
    BY <2>3, ReplayExists
  <2>6. Replay(p, s) = AfterReading(documents, size)
    <3> HIDE DEF after
    <3> QED  BY <2>3, <2>4, <2>5, ReplayEnters
  <2>7. Replay(p, s).identities = Entered(documents, size)
    <3>1. Entered(documents, 0) = {}
      BY DEF Entered
    <3> QED  BY <2>6, <3>1 DEF AfterReading, NewEntityState
  <2>8. {r.event : r \in Entered(documents, size)} = {MapObservation(documents[m]) : m \in 1..size}
    <3>1. \A m : Identity(documents[m].no, MapObservation(documents[m])).event
                   = MapObservation(documents[m])
      BY DEF Identity
    <3> HIDE DEF size
    <3> QED  BY ONLY <3>1 DEF Entered
  <2>9. {MapObservation(d) : d \in ToSet(documents)} = {MapObservation(documents[m]) : m \in 1..size}
    <3>1. DOMAIN documents = 1..size
      BY <2>3
    <3> HIDE DEF size
    <3> QED  BY <3>1 DEF ToSet
  <2> QED  BY <2>7, <2>8, <2>9 DEF documents
<1>2. CollectorInv /\ NumberInv => ReplayAdmitsEveryDocument
  BY <1>1 DEF ReplayAdmitsEveryDocument
<1> QED  BY <1>2, CollectorInvariant, NumberInvariant, PTL
==============================================================================
