---------------------------- MODULE FeedIngestion ----------------------------
(***************************************************************************)
(* The ingestion pipeline of the feed satellite, for one symbol: the live  *)
(* source and its queue, the loop of Pipeline.Run, the goroutines that     *)
(* fill gaps from the REST source, the window they share, the circuit      *)
(* breaker each of them writes, and the model path, which must not lose a  *)
(* bar unnoticed.  A bar is its minute, its reading (a correction has      *)
(* another one) and whether it was backfilled; every bar is final, and a   *)
(* backfilled one is never model-eligible.                                 *)
(***************************************************************************)
EXTENDS Naturals, Sequences, FiniteSets

CONSTANTS
  LastMinute,   \* bound of the model: minutes the market produces
  Readings,     \* the readings a minute's bar can have
  First,        \* the reading of a bar that was not corrected
  LiveQueue,    \* capacity of the incoming channel
  ModelQueue,   \* capacity of the model subscription
  Fillers,      \* goroutines that run GapFill
  Recovery,     \* the one among them that startRecovery starts
  MaxFlaps,     \* bound of the model: changes of the source's health
  MaxRequests   \* bound of the model: TriggerGapFill calls

ASSUME FeedAssumption ==
  /\ First \in Readings /\ Recovery \in Fillers
  /\ {LastMinute, LiveQueue, ModelQueue} \subseteq Nat \ {0}
  /\ {MaxFlaps, MaxRequests} \subseteq Nat

Minutes == 1..LastMinute
Bar == [minute : Minutes, reading : Readings, backfilled : BOOLEAN]
NoBar == [minute |-> 0, reading |-> 0, backfilled |-> FALSE]

VARIABLES
  health, flaps,         \* the live source's report: its state,
  slowPong,              \* the last pong took too long,
  missing,               \* three pings in a row could not be sent
  newest, heard,         \* latest minute it sent; all minutes it sent
  incoming,              \* Run's channel
  runAt, runBar,         \* where Run is, and the bar it holds
  breaker,               \* CircuitBreaker.state
  filling,               \* the flag startRecovery swaps
  fillerAt, fetched,     \* per filler: where it is, REST bars to add
  requests,              \* TriggerGapFill calls so far
  window,                \* WindowStore: per minute the bar it holds
  subscribed,            \* the model host has subscribed
  modelQueue, modelLast, modelDisc,  \* the model path
  delivered,             \* history: minutes put on the model path
  processed, excused,    \* history: minutes Run is through with; those of
                         \* them the path was not offered
  lost                   \* history: minutes lost to a full queue

reportVars == <<health, slowPong, missing>>
sourceVars == <<reportVars, flaps, newest, heard>>
runVars == <<incoming, runAt, runBar>>
fillVars == <<filling, fillerAt, fetched, requests>>
pathVars == <<subscribed, modelQueue, modelLast, modelDisc, delivered>>
historyVars == <<processed, excused>>
feedVars == <<sourceVars, runVars, breaker, fillVars, window, pathVars, historyVars, lost>>

\* The first session is on; the breaker has not observed it yet.
FeedInit ==
  /\ health = "healthy" /\ slowPong = FALSE /\ missing = FALSE
  /\ flaps = 0 /\ newest = 0 /\ heard = {}
  /\ incoming = <<>> /\ runAt = "select" /\ runBar = <<>>
  /\ breaker = "failed" /\ filling = FALSE /\ requests = 0
  /\ fillerAt = [f \in Fillers |-> "idle"] /\ fetched = [f \in Fillers |-> <<>>]
  /\ window = [m \in Minutes |-> NoBar]
  /\ subscribed = FALSE /\ modelQueue = <<>> /\ modelLast = 0 /\ modelDisc = FALSE /\ delivered = {}
  /\ processed = {} /\ excused = {} /\ lost = {}

-----------------------------------------------------------------------------
(* The live source: sessions that come and go.                             *)

\* The messages of a session's opening reset the pings that failed; the time of
\* the last pong stays from session to session until the next pong.
HealthChanges ==
  /\ flaps < MaxFlaps
  /\ flaps' = flaps + 1
  /\ \/ health = "recovering" /\ health' = "healthy" /\ missing' = FALSE
     \/ health = "recovering" /\ health' = "failed" /\ missing' \in {missing, FALSE}
     \/ health = "healthy" /\ health' = "failed" /\ UNCHANGED missing
     \/ health = "failed" /\ health' = "recovering" /\ UNCHANGED missing
  /\ UNCHANGED <<slowPong, newest, heard, runVars, breaker, fillVars, window, pathVars,
                 historyVars, lost>>

\* A message or a pong resets the failed pings, and a pong is slow or in time; or
\* the third ping in a row fails.  A slow pong and the third failure end the
\* session, a little later (HealthChanges); its reader may outlive it.
Reports ==
  /\ \/ /\ health = "healthy" \/ heard # {}
        /\ slowPong' \in BOOLEAN /\ missing' = FALSE
     \/ health = "healthy" /\ missing' = TRUE /\ UNCHANGED slowPong
  /\ UNCHANGED <<health, flaps, newest, heard, runVars, breaker, fillVars, window, pathVars,
                 historyVars, lost>>

\* A reader sends a bar, or the correction of one.  It may outlive its session,
\* waiting for room, and be late with a minute when the next session is on.
SecondSession == 3
LiveBar(m) ==
  /\ Len(incoming) < LiveQueue
  /\ health = "healthy" \/ heard # {}
  /\ m > newest \/ m \in heard \/ flaps >= SecondSession
  /\ \E reading \in Readings :
       /\ (reading = First) <=> (m \notin heard)
       /\ incoming' = Append(incoming, [minute |-> m, reading |-> reading, backfilled |-> FALSE])
  /\ newest' = IF m > newest THEN m ELSE newest
  /\ heard' = heard \union {m}
  /\ UNCHANGED <<reportVars, flaps, runAt, runBar, breaker, fillVars, window, pathVars,
                 historyVars, lost>>

-----------------------------------------------------------------------------
(* The window and the model path.                                          *)

\* The snapshot id of a bar covers its values and not where they come from.
SameGeneration(old, bar) == old.reading = bar.reading

\* Faulty variant: the first bar of a minute stays.
ShouldReplaceNever(old, bar) == FALSE

\* shouldReplace for final bars: a backfilled bar never replaces a live one.
ShouldReplace(old, bar) ==
  ~SameGeneration(old, bar) /\ (old.backfilled \/ ~bar.backfilled)

Adds(bar) ==
  window[bar.minute] = NoBar \/ ShouldReplace(window[bar.minute], bar)

\* Faulty variant: a bar that finds no room is dropped, and that is all.
FanoutModelDropping(bar) ==
  IF bar.backfilled \/ ~subscribed \/ modelDisc \/ bar.minute <= modelLast
  THEN UNCHANGED <<modelQueue, modelLast, modelDisc, delivered, lost>>
  ELSE IF Len(modelQueue) < ModelQueue
       THEN /\ modelQueue' = Append(modelQueue, bar.minute)
            /\ modelLast' = bar.minute /\ delivered' = delivered \union {bar.minute}
            /\ UNCHANGED <<modelDisc, lost>>
       ELSE /\ lost' = lost \union {bar.minute}
            /\ UNCHANGED <<modelQueue, modelLast, modelDisc, delivered>>

\* Faulty variant: the host alone looks at the order of the minutes.
FanoutModelUnordered(bar) ==
  IF bar.backfilled \/ ~subscribed \/ modelDisc
  THEN UNCHANGED <<modelQueue, modelLast, modelDisc, delivered, lost>>
  ELSE IF Len(modelQueue) < ModelQueue
       THEN /\ modelQueue' = Append(modelQueue, bar.minute)
            /\ modelLast' = bar.minute /\ delivered' = delivered \union {bar.minute}
            /\ UNCHANGED <<modelDisc, lost>>
       ELSE /\ modelDisc' = TRUE /\ lost' = lost \union {bar.minute}
            /\ UNCHANGED <<modelQueue, modelLast, delivered>>

\* fanoutModel: eligible bars in ascending minutes; the first that finds no
\* room marks the path discontinuous, and nothing follows it.
FanoutModel(bar) ==
  IF bar.backfilled \/ ~subscribed \/ modelDisc \/ bar.minute <= modelLast
  THEN UNCHANGED <<modelQueue, modelLast, modelDisc, delivered, lost>>
  ELSE IF Len(modelQueue) < ModelQueue
       THEN /\ modelQueue' = Append(modelQueue, bar.minute)
            /\ modelLast' = bar.minute /\ delivered' = delivered \union {bar.minute}
            /\ UNCHANGED <<modelDisc, lost>>
       ELSE /\ modelDisc' = TRUE /\ lost' = lost \union {bar.minute}
            /\ UNCHANGED <<modelQueue, modelLast, delivered>>

-----------------------------------------------------------------------------
(* Pipeline.Run.                                                           *)

\* accept, up to fanout: a live bar is taken for a sign that the feed works.
RunAccepts ==
  /\ runAt = "select" /\ incoming # <<>>
  /\ incoming' = Tail(incoming)
  /\ LET bar == Head(incoming)  m == bar.minute IN
       \/ /\ Adds(bar)
          /\ window' = [window EXCEPT ![m] = bar]
          /\ breaker' = IF breaker = "recovering" THEN "healthy" ELSE breaker
          /\ runAt' = "fanout" /\ runBar' = <<bar>>
          /\ UNCHANGED historyVars
       \/ /\ ~Adds(bar)
          /\ runAt' = "observe"
          /\ processed' = processed \union {m}
          /\ excused' = IF window[m].backfilled /\ window[m].reading = bar.reading
                        THEN excused \union {m} ELSE excused
          /\ UNCHANGED <<window, breaker, runBar>>
  /\ UNCHANGED <<sourceVars, fillVars, pathVars, lost>>

RunFansOut ==
  /\ runAt = "fanout"
  /\ FanoutModel(runBar[1])
  /\ processed' = processed \union {runBar[1].minute}
  /\ excused' = IF subscribed THEN excused ELSE excused \union {runBar[1].minute}
  /\ runAt' = "observe" /\ runBar' = <<>>
  /\ UNCHANGED <<sourceVars, incoming, breaker, fillVars, window, subscribed>>

\* Observe, whatever the breaker's state was: a slow pong and failed pings fail
\* a source that calls itself healthy, but not one that is recovering.
Observed ==
  IF health = "healthy" /\ (slowPong \/ missing) THEN "failed" ELSE health

RunObserves ==
  /\ runAt = "observe"
  /\ runAt' = "select" /\ breaker' = Observed
  /\ UNCHANGED <<sourceVars, incoming, runBar, fillVars, window, pathVars, historyVars, lost>>

\* Faulty variant: a failed feed is filled as well.
WantsRecoveryFailed(state) == state \in {"recovering", "failed"}

WantsRecovery(state) == state = "recovering"

RunTicks ==
  /\ runAt = "select"
  /\ breaker' = Observed
  /\ IF WantsRecovery(Observed) /\ ~filling
     THEN filling' = TRUE /\ fillerAt' = [fillerAt EXCEPT ![Recovery] = "start"]
     ELSE UNCHANGED <<filling, fillerAt>>
  /\ UNCHANGED <<sourceVars, runVars, fetched, requests, window, pathVars, historyVars, lost>>

-----------------------------------------------------------------------------
(* GapFill, by the recovery goroutine or for a request.                    *)

TriggerGapFill(f) ==
  /\ f # Recovery /\ fillerAt[f] = "idle" /\ requests < MaxRequests
  /\ requests' = requests + 1
  /\ fillerAt' = [fillerAt EXCEPT ![f] = "start"]
  /\ UNCHANGED <<sourceVars, runVars, breaker, filling, fetched, window, pathVars,
                 historyVars, lost>>

MarksRecovering(f) ==
  /\ fillerAt[f] = "start"
  /\ breaker' = "recovering"
  /\ fillerAt' = [fillerAt EXCEPT ![f] = "fetch"]
  /\ UNCHANGED <<sourceVars, runVars, filling, fetched, requests, window, pathVars,
                 historyVars, lost>>

\* The goroutine ends; startRecovery's clears its flag.
Ends(f) ==
  /\ fillerAt' = [fillerAt EXCEPT ![f] = "idle"]
  /\ filling' = IF f = Recovery THEN FALSE ELSE filling

\* The REST source has no bars to give, or fails: GapFill returns its error
\* and leaves the breaker as it is.
FetchFails(f) ==
  /\ fillerAt[f] = "fetch" /\ Ends(f)
  /\ UNCHANGED <<sourceVars, runVars, breaker, fetched, requests, window, pathVars,
                 historyVars, lost>>

\* The REST bars run from the window's last minute to a minute that is over,
\* which the live source may be about to send.
Fetches(f) ==
  /\ fillerAt[f] = "fetch"
  /\ \E from \in Minutes, reading \in Readings : \E to \in (from - 1)..LastMinute :
       /\ from = 1 \/ window[from] # NoBar
       /\ \A m \in (from + 1)..LastMinute : window[m] = NoBar
       /\ fetched' = [fetched EXCEPT ![f] =
            [i \in 1..(to - from + 1) |->
               [minute |-> from + i - 1, reading |-> reading, backfilled |-> TRUE]]]
  /\ fillerAt' = [fillerAt EXCEPT ![f] = "add"]
  /\ UNCHANGED <<sourceVars, runVars, breaker, filling, requests, window, pathVars,
                 historyVars, lost>>

\* A backfilled bar is not model-eligible: fanoutModel returns at once.
AddsFetched(f) ==
  /\ fillerAt[f] = "add" /\ fetched[f] # <<>>
  /\ LET bar == Head(fetched[f]) IN
       window' = IF Adds(bar) THEN [window EXCEPT ![bar.minute] = bar] ELSE window
  /\ fetched' = [fetched EXCEPT ![f] = Tail(@)]
  /\ UNCHANGED <<sourceVars, runVars, breaker, filling, fillerAt, requests, pathVars,
                 historyVars, lost>>

MarksHealthy(f) ==
  /\ fillerAt[f] = "add" /\ fetched[f] = <<>>
  /\ breaker' = "healthy" /\ Ends(f)
  /\ UNCHANGED <<sourceVars, runVars, fetched, requests, window, pathVars, historyVars, lost>>

Fills(f) ==
  MarksRecovering(f) \/ FetchFails(f) \/ Fetches(f) \/ AddsFetched(f) \/ MarksHealthy(f)

RunGoroutine == RunAccepts \/ RunFansOut \/ RunObserves

FeedNext ==
  \/ HealthChanges \/ Reports \/ \E m \in Minutes : LiveBar(m)
  \/ RunGoroutine \/ RunTicks
  \/ \E f \in Fillers : TriggerGapFill(f) \/ Fills(f)

\* Nothing in the loop or in a fill waits for ever (a REST call has a
\* deadline), and the ticker is one case of a select that is met again and
\* again.
FeedFairness ==
  /\ WF_feedVars(RunGoroutine) /\ SF_feedVars(RunTicks)
  /\ \A f \in Fillers : WF_feedVars(Fills(f))
-----------------------------------------------------------------------------
(* Properties.                                                             *)

\* A bar the live source sent and Run is through with was offered to the model
\* path or the path is marked, with three exceptions: a gap filler was faster
\* with an equal bar, the host had not subscribed, or the minute came late
\* (WindowStore.Add and fanoutModel between Run and GapFill).
MissesAreExplained ==
  \A m \in processed :
    \/ m \in delivered \/ modelDisc \/ m \in excused
    \/ \E d \in delivered : d > m

\* Whoever wrote the breaker last, the loop has the last word: once the source
\* stays healthy with its pongs in time, so does the breaker; and it stays failed
\* once the source does, or is healthy again without a pong to take the place of
\* a slow one (Observe against accept and the fillers, which write over it).
BreakerSettles ==
  /\ <>[](health = "healthy" /\ ~slowPong /\ ~missing) => <>[](breaker = "healthy")
  /\ <>[](health = "failed" \/ (health = "healthy" /\ slowPong)) => <>[](breaker = "failed")
=============================================================================
