---------------------------- MODULE BarCollector ----------------------------
(***************************************************************************)
(* One collection run of the bar sequence generator: the Alpaca stream and *)
(* its reader goroutines, the engine that dispatches observations to       *)
(* partitions, the three bounded stages of a partition with the three      *)
(* goroutines between them, the sequence authority, and the two stores a   *)
(* batch is written to one after the other.  Every goroutine is a set of   *)
(* actions of its own; a channel is a bounded sequence and a closed flag.  *)
(*                                                                         *)
(* A stage never blocks a producer: Push refuses when the stage is full.   *)
(* What a refusal costs depends on who was refused, and that is what the   *)
(* properties are about.                                                   *)
(***************************************************************************)
EXTENDS Naturals, Sequences, FiniteSets, SequencesExt

CONSTANTS
  Symbols,          \* the configured symbols
  OfferedSymbols,   \* what the stream can deliver: Symbols and strangers
  Times,            \* source event times
  Payloads,         \* message types and values that tell messages of one time apart
  Observation,      \* the messages the stream can deliver
  Partitions,       \* the selected groups
  PartitionOf,      \* SymbolToPartition of the configuration
  BufferCapacity,   \* capacity of ingest and of every stage
  FlushCount,       \* observations that make a full batch
  MongoEnabled,     \* whether a Mongo store is configured
  MaxBars,          \* MaxBars of the configuration, 0 for no limit
  TargetBars,       \* TargetBarsPerSymbol of the configuration, 0 for none
  MaxObservations,  \* bound of the model: bars the stream delivers
  MaxSessions,      \* bound of the model: stream sessions
  MaxFaults         \* bound of the model: failing writes

ASSUME CollectorAssumption ==
  /\ Symbols \subseteq OfferedSymbols
  /\ Times \subseteq Nat \ {0}
  /\ Observation \subseteq [symbol : OfferedSymbols, time : Times, payload : Payloads]
  /\ PartitionOf \in [Symbols -> Partitions]
  /\ BufferCapacity \in Nat \ {0} /\ FlushCount \in Nat \ {0}
  /\ MongoEnabled \in BOOLEAN
  /\ {MaxBars, TargetBars, MaxObservations, MaxSessions, MaxFaults} \subseteq Nat

Numbered == [symbol : Symbols, time : Times, payload : Payloads, no : Nat,
             regression : BOOLEAN, duplicate : BOOLEAN]
Readers == 1..MaxSessions

VARIABLES
  delivered,    \* bars received from Alpaca so far
  session,      \* the number of the current session, 0 when there is none
  reader,       \* per session: "none", "handshake", "reading", "sending" or "gone"
  inHand,       \* per session: the observation its reader is sending
  phase,        \* where Engine.Run is
  srcCancelled, \* the context of the source is cancelled
  ingest, ingestClosed,
  arrivals, arrivalsBySymbol, unknown, droppedValid,
  nextNo, lastTime, seen,           \* the sequence authority
  ingress, ingressClosed,           \* stage 1 of each partition
  numbering, ready, readyClosed,    \* sequenceLoop's hand, stage 2
  moving, persist, persistClosed,   \* transferLoop's hand, stage 3
  batch, writer, jsonlBroken, persisted,  \* persistLoop
  jsonl, mongo,                     \* the lines and documents, in order
  critical,
  log,          \* history: the observations numbered, in order
  taken,        \* history: how many observations Accept took
  faults        \* failing writes so far

streamVars == <<delivered, session, reader, inHand>>
engineVars == <<phase, srcCancelled, ingest, ingestClosed>>
countVars  == <<arrivals, arrivalsBySymbol, unknown, droppedValid>>
numberVars == <<nextNo, lastTime, seen, numbering, log>>
readyVars  == <<ready, readyClosed, moving>>
persistVars == <<persist, persistClosed>>
writeVars  == <<batch, writer, jsonlBroken, persisted, jsonl, mongo, faults>>
storeVars == <<jsonl, mongo, faults, critical>>
insideVars == <<numberVars, readyVars, persistVars, writeVars>>
partitionVars == <<insideVars, ingress, ingressClosed, critical, taken>>
outerVars == <<streamVars, engineVars, countVars, ingressClosed, taken>>
vars == <<streamVars, engineVars, countVars, partitionVars>>

CollectorInit ==
  /\ delivered = 0 /\ session = 0
  /\ reader = [r \in Readers |-> "none"]
  /\ inHand = [r \in Readers |-> <<>>]
  /\ phase = "dispatching" /\ srcCancelled = FALSE
  /\ ingest = <<>> /\ ingestClosed = FALSE
  /\ arrivals = 0 /\ arrivalsBySymbol = [s \in Symbols |-> 0]
  /\ unknown = 0 /\ droppedValid = 0
  /\ nextNo = [s \in Symbols |-> 0] /\ lastTime = [s \in Symbols |-> 0]
  /\ seen = {}
  /\ ingress = [p \in Partitions |-> <<>>]
  /\ ingressClosed = [p \in Partitions |-> FALSE]
  /\ numbering = [p \in Partitions |-> <<>>]
  /\ ready = [p \in Partitions |-> <<>>]
  /\ readyClosed = [p \in Partitions |-> FALSE]
  /\ moving = [p \in Partitions |-> <<>>]
  /\ persist = [p \in Partitions |-> <<>>]
  /\ persistClosed = [p \in Partitions |-> FALSE]
  /\ batch = [p \in Partitions |-> <<>>]
  /\ writer = [p \in Partitions |-> "collect"]
  /\ jsonlBroken = [p \in Partitions |-> FALSE]
  /\ persisted = [p \in Partitions |-> 0]
  /\ jsonl = [p \in Partitions |-> <<>>] /\ mongo = [p \in Partitions |-> <<>>]
  /\ critical = [p \in Partitions |-> 0]
  /\ log = [p \in Partitions |-> <<>>] /\ taken = [p \in Partitions |-> 0]
  /\ faults = 0

HasRoom(channel) == Len(channel) < BufferCapacity
Running == phase # "panicked"

-----------------------------------------------------------------------------
(* The stream.  A session dials, shakes hands (authentication and          *)
(* subscription) and starts a reader; from then on it ends when cancelled, *)
(* on its reader's error or on missed heartbeats, and it does not wait for *)
(* the reader, so a reader can outlive its session.                        *)

\* The dial succeeded: a failed one leaves everything as it was.
StartSession ==
  /\ Running /\ ~srcCancelled /\ ~ingestClosed /\ session = 0
  /\ \E r \in Readers :
       /\ reader[r] = "none"
       /\ \A q \in Readers : q < r => reader[q] # "none"
       /\ session' = r
       /\ reader' = [reader EXCEPT ![r] = "handshake"]
  /\ UNCHANGED <<delivered, inHand, engineVars, countVars, partitionVars>>

\* authenticate and subscribe wait for the server's answers with neither a
\* deadline nor an eye on the context.
ServerAnswers(r) ==
  /\ Running /\ reader[r] = "handshake"
  /\ \/ reader' = [reader EXCEPT ![r] = "reading"] /\ UNCHANGED session
     \/ reader' = [reader EXCEPT ![r] = "gone"] /\ session' = 0
  /\ UNCHANGED <<delivered, inHand, engineVars, countVars, partitionVars>>

\* ReadMessage and decode: a bar, possibly the next of an array that was read
\* before the session ended.
ReaderReceives(r) ==
  /\ Running /\ reader[r] = "reading"
  /\ delivered < MaxObservations
  /\ \E o \in Observation : inHand' = [inHand EXCEPT ![r] = <<o>>]
  /\ delivered' = delivered + 1
  /\ reader' = [reader EXCEPT ![r] = "sending"]
  /\ UNCHANGED <<session, engineVars, countVars, partitionVars>>

\* The send side of the select; on a closed channel Go panics.
ReaderSends(r) ==
  /\ Running /\ reader[r] = "sending"
  /\ \/ /\ ~ingestClosed /\ HasRoom(ingest)
        /\ ingest' = ingest \o inHand[r]
        /\ inHand' = [inHand EXCEPT ![r] = <<>>]
        /\ reader' = [reader EXCEPT ![r] = "reading"]
        /\ UNCHANGED phase
     \/ /\ ingestClosed
        /\ phase' = "panicked"
        /\ UNCHANGED <<ingest, inHand, reader>>
  /\ UNCHANGED <<delivered, session, srcCancelled, ingestClosed, countVars, partitionVars>>

\* The reader returns: its context is cancelled, or its read fails.
ReaderEnds(r) ==
  /\ Running
  /\ reader[r] = "reading" \/ (reader[r] = "sending" /\ srcCancelled)
  /\ reader' = [reader EXCEPT ![r] = "gone"]
  /\ inHand' = [inHand EXCEPT ![r] = <<>>]
  /\ UNCHANGED <<delivered, session, engineVars, countVars, partitionVars>>

SessionEnds ==
  /\ Running /\ session # 0 /\ reader[session] # "handshake"
  /\ session' = 0
  /\ UNCHANGED <<delivered, reader, inHand, engineVars, countVars, partitionVars>>

\* Stream.Run returns when it is cancelled, or at once when it was given more
\* symbols than the plan allows; its goroutine then closes ingest.
SourceReturns ==
  /\ Running /\ session = 0 /\ ~ingestClosed
  /\ srcCancelled \/ \A r \in Readers : reader[r] = "none"
  /\ ingestClosed' = TRUE
  /\ UNCHANGED <<streamVars, phase, srcCancelled, ingest, countVars, partitionVars>>

-----------------------------------------------------------------------------
(* Engine.Run.                                                             *)

\* SIGNAL: the run's context is cancelled, and the source's context with it.
CancelRun ==
  /\ phase = "dispatching" /\ ~srcCancelled
  /\ srcCancelled' = TRUE
  /\ UNCHANGED <<streamVars, phase, ingest, ingestClosed, countVars, partitionVars>>

\* The select takes ctx.Done, or the deadline, or the closed channel.
StopDispatching ==
  /\ phase = "dispatching"
  /\ phase' = "waiting" /\ srcCancelled' = TRUE
  /\ UNCHANGED <<streamVars, ingest, ingestClosed, countVars, partitionVars>>

\* dispatch and Partition.Accept: an unknown symbol is counted, a known one
\* pushed into its partition's first stage, and refused is what Push could
\* not place.
Dispatch(o, refused) ==
  \/ /\ o.symbol \notin Symbols /\ ~refused
     /\ unknown' = unknown + 1
     /\ UNCHANGED <<ingress, critical, taken, droppedValid>>
  \/ /\ o.symbol \in Symbols /\ ~refused
     /\ HasRoom(ingress[PartitionOf[o.symbol]])
     /\ ingress' = [ingress EXCEPT ![PartitionOf[o.symbol]] = Append(@, o)]
     /\ taken' = [taken EXCEPT ![PartitionOf[o.symbol]] = @ + 1]
     /\ UNCHANGED <<critical, droppedValid, unknown>>
  \/ /\ o.symbol \in Symbols /\ refused
     /\ critical' = [critical EXCEPT ![PartitionOf[o.symbol]] = @ + 1]
     /\ droppedValid' = droppedValid + 1
     /\ UNCHANGED <<ingress, taken, unknown>>

\* Push's select: refused when the stage is full; when the context is
\* cancelled as well, Go may take that case even with room left.
MayRefuse(o, cancelled) ==
  o.symbol \in Symbols /\ (cancelled \/ ~HasRoom(ingress[PartitionOf[o.symbol]]))

LimitReached ==
  \/ TargetBars > 0 /\ \A s \in Symbols : arrivalsBySymbol'[s] >= TargetBars
  \/ MaxBars > 0 /\ arrivals' >= MaxBars

DispatchLive ==
  /\ phase = "dispatching" /\ ingest # <<>>
  /\ ingest' = Tail(ingest)
  /\ arrivals' = arrivals + 1
  /\ arrivalsBySymbol' =
       [s \in Symbols |-> arrivalsBySymbol[s] + (IF s = Head(ingest).symbol THEN 1 ELSE 0)]
  /\ \E refused \in {r \in BOOLEAN : r => MayRefuse(Head(ingest), srcCancelled)} :
       /\ Dispatch(Head(ingest), refused)
       /\ IF refused \/ LimitReached
          THEN phase' = "waiting" /\ srcCancelled' = TRUE
          ELSE UNCHANGED <<phase, srcCancelled>>
  /\ UNCHANGED <<streamVars, ingestClosed, ingressClosed, insideVars>>

\* srcWG.Wait returns.
JoinSource ==
  /\ phase = "waiting" /\ ingestClosed
  /\ phase' = "draining"
  /\ UNCHANGED <<streamVars, srcCancelled, ingest, ingestClosed, countVars, partitionVars>>

DispatchDrained ==
  /\ phase = "draining" /\ ingest # <<>>
  /\ ingest' = Tail(ingest)
  /\ \E refused \in {r \in BOOLEAN : r => MayRefuse(Head(ingest), FALSE)} :
       Dispatch(Head(ingest), refused)
  /\ UNCHANGED <<streamVars, phase, srcCancelled, ingestClosed, arrivals,
                 arrivalsBySymbol, ingressClosed, insideVars>>

\* Faulty variant: the partitions are not told that nothing more comes.
LeaveIngressOpen ==
  /\ phase = "draining" /\ ingest = <<>>
  /\ phase' = "joining"
  /\ UNCHANGED <<streamVars, srcCancelled, ingest, ingestClosed, countVars, partitionVars>>

CloseIngress ==
  /\ phase = "draining" /\ ingest = <<>>
  /\ phase' = "joining"
  /\ ingressClosed' = [p \in Partitions |-> TRUE]
  /\ UNCHANGED <<streamVars, srcCancelled, ingest, ingestClosed, countVars,
                 ingress, critical, taken, insideVars>>

\* Faulty variant: the wait group counts two of the three loops.
TwoLoopsEnded(p) == readyClosed[p] /\ persistClosed[p]

LoopsEnded(p) == readyClosed[p] /\ persistClosed[p] /\ writer[p] = "ended"

JoinPartitions ==
  /\ phase = "joining" /\ \A p \in Partitions : LoopsEnded(p)
  /\ phase' = "done"
  /\ UNCHANGED <<streamVars, srcCancelled, ingest, ingestClosed, countVars, partitionVars>>

-----------------------------------------------------------------------------
(* A partition's three goroutines.                                         *)

\* The payload hash covers the whole message, its type included.
DuplicateKey(o) == <<o.symbol, o.time, o.payload>>

\* Faulty variant: a repetition is looked up by symbol and time alone.
NumberByTime(o) ==
  [symbol |-> o.symbol, time |-> o.time, payload |-> o.payload,
   no |-> nextNo[o.symbol] + 1,
   regression |-> o.time < lastTime[o.symbol],
   duplicate |-> \E k \in seen : k[1] = o.symbol /\ k[2] = o.time]

\* Authority.Accept: the next number of the symbol, and the flags.
Number(o) ==
  [symbol |-> o.symbol, time |-> o.time, payload |-> o.payload,
   no |-> nextNo[o.symbol] + 1,
   regression |-> o.time < lastTime[o.symbol],
   duplicate |-> DuplicateKey(o) \in seen]

SequencePop(p) ==
  /\ Running /\ ~readyClosed[p] /\ numbering[p] = <<>> /\ ingress[p] # <<>>
  /\ LET o == Head(ingress[p]) IN
       /\ nextNo' = [nextNo EXCEPT ![o.symbol] = @ + 1]
       /\ lastTime' = [lastTime EXCEPT ![o.symbol] = o.time]
       /\ seen' = seen \union {DuplicateKey(o)}
       /\ numbering' = [numbering EXCEPT ![p] = <<Number(o)>>]
       /\ log' = [log EXCEPT ![p] = Append(@, Number(o))]
  /\ ingress' = [ingress EXCEPT ![p] = Tail(@)]
  /\ UNCHANGED <<outerVars, readyVars, persistVars, writeVars, critical>>

\* Faulty variant: the refused observation is dropped and the loop goes on.
SequencePushDropping(p) ==
  /\ Running /\ numbering[p] # <<>>
  /\ numbering' = [numbering EXCEPT ![p] = <<>>]
  /\ ready' = [ready EXCEPT ![p] = IF HasRoom(@) THEN @ \o numbering[p] ELSE @]
  /\ UNCHANGED <<outerVars, nextNo, lastTime, seen, log, moving, readyClosed,
                 critical, persistVars, writeVars, ingress>>

\* A refused push ends the loop: what it holds is given up, and so is what
\* stage 1 still holds.
SequencePush(p) ==
  /\ Running /\ numbering[p] # <<>>
  /\ numbering' = [numbering EXCEPT ![p] = <<>>]
  /\ IF HasRoom(ready[p])
     THEN /\ ready' = [ready EXCEPT ![p] = @ \o numbering[p]]
          /\ UNCHANGED <<readyClosed, critical>>
     ELSE /\ readyClosed' = [readyClosed EXCEPT ![p] = TRUE]
          /\ critical' = [critical EXCEPT ![p] = @ + 1]
          /\ UNCHANGED ready
  /\ UNCHANGED <<outerVars, nextNo, lastTime, seen, log, moving, persistVars,
                 writeVars, ingress>>

SequenceEnds(p) ==
  /\ Running /\ ~readyClosed[p] /\ numbering[p] = <<>>
  /\ ingressClosed[p] /\ ingress[p] = <<>>
  /\ readyClosed' = [readyClosed EXCEPT ![p] = TRUE]
  /\ UNCHANGED <<outerVars, numberVars, ready, moving, persistVars, writeVars,
                 ingress, critical>>

TransferPop(p) ==
  /\ Running /\ ~persistClosed[p] /\ moving[p] = <<>> /\ ready[p] # <<>>
  /\ moving' = [moving EXCEPT ![p] = <<Head(ready[p])>>]
  /\ ready' = [ready EXCEPT ![p] = Tail(@)]
  /\ UNCHANGED <<outerVars, numberVars, readyClosed, persistVars, writeVars,
                 ingress, critical>>

TransferPush(p) ==
  /\ Running /\ moving[p] # <<>>
  /\ moving' = [moving EXCEPT ![p] = <<>>]
  /\ IF HasRoom(persist[p])
     THEN /\ persist' = [persist EXCEPT ![p] = @ \o moving[p]]
          /\ UNCHANGED <<persistClosed, critical>>
     ELSE /\ persistClosed' = [persistClosed EXCEPT ![p] = TRUE]
          /\ critical' = [critical EXCEPT ![p] = @ + 1]
          /\ UNCHANGED persist
  /\ UNCHANGED <<outerVars, numberVars, ready, readyClosed, writeVars, ingress>>

TransferEnds(p) ==
  /\ Running /\ ~persistClosed[p] /\ moving[p] = <<>>
  /\ readyClosed[p] /\ ready[p] = <<>>
  /\ persistClosed' = [persistClosed EXCEPT ![p] = TRUE]
  /\ UNCHANGED <<outerVars, numberVars, readyVars, persist, writeVars, ingress,
                 critical>>

OutsideWritingUnchanged ==
  UNCHANGED <<outerVars, numberVars, readyVars, ingress>>

\* persistLoop receives; a full batch is flushed at once.
PersistReceive(p) ==
  /\ Running /\ writer[p] = "collect" /\ persist[p] # <<>>
  /\ batch' = [batch EXCEPT ![p] = Append(@, Head(persist[p]))]
  /\ persist' = [persist EXCEPT ![p] = Tail(@)]
  /\ writer' = [writer EXCEPT ![p] = IF Len(batch[p]) + 1 >= FlushCount THEN "jsonl"
                                     ELSE "collect"]
  /\ UNCHANGED <<persistClosed, jsonlBroken, persisted, jsonl, mongo, faults,
                 critical>>
  /\ OutsideWritingUnchanged

\* The ticker fires, or the channel is closed and empty: flush what there is.
PersistFlush(p) ==
  /\ Running /\ writer[p] = "collect" /\ batch[p] # <<>>
  /\ writer' = [writer EXCEPT ![p] = "jsonl"]
  /\ UNCHANGED <<batch, persistVars, jsonlBroken, persisted, jsonl, mongo, faults,
                 critical>>
  /\ OutsideWritingUnchanged

PersistEnds(p) ==
  /\ Running /\ writer[p] = "collect" /\ batch[p] = <<>>
  /\ persistClosed[p] /\ persist[p] = <<>>
  /\ writer' = [writer EXCEPT ![p] = "ended"]
  /\ UNCHANGED <<batch, persistVars, jsonlBroken, persisted, jsonl, mongo, faults,
                 critical>>
  /\ OutsideWritingUnchanged

\* Writer.WriteBatch succeeds: the lines are in the file and synced.
WriteJsonl(p) ==
  /\ Running /\ writer[p] = "jsonl" /\ ~jsonlBroken[p]
  /\ jsonl' = [jsonl EXCEPT ![p] = @ \o batch[p]]
  /\ persisted' = [persisted EXCEPT ![p] = @ + Len(batch[p])]
  /\ writer' = [writer EXCEPT ![p] = IF MongoEnabled THEN "mongo" ELSE "collect"]
  /\ batch' = [batch EXCEPT ![p] = IF MongoEnabled THEN @ ELSE <<>>]
  /\ UNCHANGED <<persistVars, jsonlBroken, mongo, faults, critical>>
  /\ OutsideWritingUnchanged

\* WriteBatch fails.  Either the lines are all in the file and only the sync
\* failed: the retry writes them again.  Or writing failed after k lines: the
\* error stays in the bufio.Writer, so every retry fails the same way.
JsonlFails(p) ==
  /\ Running /\ writer[p] = "jsonl" /\ ~jsonlBroken[p] /\ faults < MaxFaults
  /\ \/ /\ jsonl' = [jsonl EXCEPT ![p] = @ \o batch[p]]
        /\ UNCHANGED jsonlBroken
     \/ /\ \E k \in 0..Len(batch[p]) - 1 :
             jsonl' = [jsonl EXCEPT ![p] = @ \o SubSeq(batch[p], 1, k)]
        /\ jsonlBroken' = [jsonlBroken EXCEPT ![p] = TRUE]
  /\ faults' = faults + 1
  /\ UNCHANGED <<batch, writer, persistVars, persisted, mongo, critical>>
  /\ OutsideWritingUnchanged

WriteMongo(p) ==
  /\ Running /\ writer[p] = "mongo"
  /\ mongo' = [mongo EXCEPT ![p] = @ \o batch[p]]
  /\ batch' = [batch EXCEPT ![p] = <<>>]
  /\ writer' = [writer EXCEPT ![p] = "collect"]
  /\ UNCHANGED <<persistVars, jsonlBroken, persisted, jsonl, faults, critical>>
  /\ OutsideWritingUnchanged

\* Faulty variants: the batch is given up after an error; the retry resumes
\* one document too late.
MongoFailsGivingUp(p) ==
  /\ Running /\ writer[p] = "mongo" /\ faults < MaxFaults
  /\ batch' = [batch EXCEPT ![p] = <<>>]
  /\ writer' = [writer EXCEPT ![p] = "collect"]
  /\ faults' = faults + 1
  /\ UNCHANGED <<mongo, critical, persistVars, jsonlBroken, persisted, jsonl>>
  /\ OutsideWritingUnchanged
MongoFailsResuming(p) ==
  /\ Running /\ writer[p] = "mongo" /\ faults < MaxFaults
  /\ batch' = [batch EXCEPT ![p] = Tail(@)]
  /\ faults' = faults + 1
  /\ UNCHANGED <<mongo, writer, critical, persistVars, jsonlBroken, persisted,
                 jsonl>>
  /\ OutsideWritingUnchanged

\* InsertMany is ordered: it fails after k documents.  A duplicate key ends
\* persistLoop, any other error is retried with the whole batch.
MongoFails(p) ==
  /\ Running /\ writer[p] = "mongo" /\ faults < MaxFaults
  /\ \E k \in 0..Len(batch[p]) :
       /\ mongo' = [mongo EXCEPT ![p] = @ \o SubSeq(batch[p], 1, k)]
       /\ \/ UNCHANGED <<writer, critical>>
          \/ /\ k < Len(batch[p])
             /\ writer' = [writer EXCEPT ![p] = "ended"]
             /\ critical' = [critical EXCEPT ![p] = @ + 1]
  /\ faults' = faults + 1
  /\ UNCHANGED <<batch, persistVars, jsonlBroken, persisted, jsonl>>
  /\ OutsideWritingUnchanged

-----------------------------------------------------------------------------
Stream ==
  \/ StartSession \/ SessionEnds \/ SourceReturns
  \/ \E r \in Readers :
       ServerAnswers(r) \/ ReaderReceives(r) \/ ReaderSends(r) \/ ReaderEnds(r)

EngineRun ==
  \/ CancelRun \/ StopDispatching \/ DispatchLive \/ JoinSource
  \/ DispatchDrained \/ CloseIngress \/ JoinPartitions

SequenceLoop(p) == SequencePop(p) \/ SequencePush(p) \/ SequenceEnds(p)
TransferLoop(p) == TransferPop(p) \/ TransferPush(p) \/ TransferEnds(p)
PersistLoop(p) ==
  \/ PersistReceive(p) \/ PersistFlush(p) \/ PersistEnds(p)
  \/ WriteJsonl(p) \/ JsonlFails(p) \/ WriteMongo(p) \/ MongoFails(p)

CollectorNext ==
  \/ Stream \/ EngineRun
  \/ \E p \in Partitions : SequenceLoop(p) \/ TransferLoop(p) \/ PersistLoop(p)

CollectorSpec == CollectorInit /\ [][CollectorNext]_vars
-----------------------------------------------------------------------------
(* Properties.                                                             *)

CollectorTypeOK ==
  /\ delivered \in 0..MaxObservations /\ session \in {0} \union Readers
  /\ reader \in [Readers -> {"none", "handshake", "reading", "sending", "gone"}]
  /\ phase \in {"dispatching", "waiting", "draining", "joining", "done", "panicked"}
  /\ srcCancelled \in BOOLEAN /\ ingestClosed \in BOOLEAN
  /\ ingest \in Seq(Observation) /\ Len(ingest) <= BufferCapacity
  /\ {arrivals, unknown, droppedValid, faults} \subseteq Nat
  /\ arrivalsBySymbol \in [Symbols -> Nat]
  /\ nextNo \in [Symbols -> Nat] /\ lastTime \in [Symbols -> Times \union {0}]
  /\ seen \subseteq Symbols \X Times \X Payloads
  /\ writer \in [Partitions -> {"collect", "jsonl", "mongo", "ended"}]
  /\ {jsonlBroken, ingressClosed, readyClosed, persistClosed} \subseteq [Partitions -> BOOLEAN]
  /\ {persisted, critical, taken} \subseteq [Partitions -> Nat]
  /\ {numbering, ready, moving, persist, batch, jsonl, mongo, log}
       \subseteq [Partitions -> Seq(Numbered)]
  /\ \A p \in Partitions : Len(ready[p]) <= BufferCapacity /\ Len(persist[p]) <= BufferCapacity

\* The JSONL file of a partition follows the numbered observations as a log:
\* at every moment it holds a prefix of them, whatever was refused, whichever
\* write failed and was repeated (Partition.sequenceLoop, transferLoop and
\* persistLoop end on a refusal and repeat a whole batch on a failure).
Jsonl == INSTANCE ObservationLog WITH
  Entry <- Numbered, Batch <- FlushCount,
  store <- [p \in Partitions |-> ToSet(jsonl[p])]
JsonlFollowsNumbering == Jsonl!LogSpec

\* The Mongo documents of a partition follow the same log: an InsertMany that
\* fails half way, and is then repeated from its first document, makes
\* duplicates but no holes.
Mongo == INSTANCE ObservationLog WITH
  Entry <- Numbered, Batch <- FlushCount,
  store <- [p \in Partitions |-> ToSet(mongo[p])]
MongoFollowsNumbering == Mongo!LogSpec

\* Mongo is never ahead of the file, and never more than one batch behind what
\* the file was acknowledged to hold (persistLoop writes the file first and
\* takes no new observation while either store still fails).
MongoTrailsByABatch ==
  MongoEnabled => \A p \in Partitions :
    /\ ToSet(mongo[p]) \subseteq ToSet(jsonl[p])
    /\ persisted[p] <= Cardinality(ToSet(mongo[p])) + FlushCount

\* The numbers in a file are per symbol consecutive from 1, and the flags of a
\* line can be recomputed from the lines before it: duplicate when the same
\* message stands there (a corrected bar of the same time is none), regression
\* when the symbol's previous line is later (Authority.Accept is the only
\* source of both).
Earlier(p, e) == {x \in ToSet(jsonl[p]) : x.symbol = e.symbol /\ x.no < e.no}
FileExplainsItself ==
  \A p \in Partitions : \A e \in ToSet(jsonl[p]) :
    /\ {x.no : x \in Earlier(p, e)} = 1..(e.no - 1)
    /\ e.duplicate <=> \E x \in Earlier(p, e) : DuplicateKey(x) = DuplicateKey(e)
    /\ e.regression <=> \E x \in Earlier(p, e) : x.no = e.no - 1 /\ x.time > e.time

\* Whatever an ended run has lost, the critical counter of the partition tells:
\* with that counter at zero everything Accept took is in every store
\* (Engine.Run's shutdown order and the loops' final flush).
LossIsCritical ==
  phase = "done" =>
    \A p \in Partitions : critical[p] = 0 =>
      /\ Len(log[p]) = taken[p]
      /\ ToSet(jsonl[p]) = ToSet(log[p])
      /\ MongoEnabled => ToSet(mongo[p]) = ToSet(log[p])

\* What the design promises of accepted observations: persisted, or pending
\* and visible in a stage or in the batch.
Visible(p) ==
  ToSet(jsonl[p]) \union ToSet(numbering[p]) \union ToSet(ready[p]) \union
  ToSet(moving[p]) \union ToSet(persist[p]) \union ToSet(batch[p])
AcceptedStaysVisible == \A p \in Partitions : ToSet(log[p]) \subseteq Visible(p)

\* The goroutines run, timers fire, a store that failed works again, and the
\* source notices its cancellation once it is past the handshake.  Nothing is
\* asked of the server, and no session has to end that was not cancelled.
CollectorFairness ==
  /\ WF_vars(srcCancelled /\ SessionEnds) /\ WF_vars(srcCancelled /\ SourceReturns)
  /\ WF_vars(JoinSource) /\ WF_vars(DispatchDrained)
  /\ WF_vars(CloseIngress) /\ WF_vars(JoinPartitions)
  /\ \A p \in Partitions :
       /\ WF_vars(SequenceLoop(p)) /\ WF_vars(TransferLoop(p))
       /\ WF_vars(PersistReceive(p)) /\ WF_vars(PersistFlush(p)) /\ WF_vars(PersistEnds(p))
       /\ WF_vars(WriteJsonl(p)) /\ WF_vars(WriteMongo(p))

FairCollectorSpec == CollectorSpec /\ CollectorFairness

\* A shutdown that has begun ends: nobody waits for a loop that is gone or for
\* a channel nobody closes.  It takes a server that does not leave a handshake
\* unanswered for ever, since a session waits there whatever is cancelled.  The
\* exceptions are a JSONL file whose writer is broken, which is retried for
\* ever, and a reader that sends on the closed ingest channel, which brings the
\* process down.
InHandshake == session # 0 /\ reader[session] = "handshake"
ShutdownEnds ==
  []<>(~InHandshake) =>
    ((phase = "waiting") ~>
       (phase \in {"done", "panicked"} \/ \E p \in Partitions : jsonlBroken[p]))
=============================================================================
