--------------------------- MODULE StageTransition ---------------------------
(***************************************************************************)
(* The stage transition hub of the feed satellite.  A reporter (the        *)
(* ingestion loop, the recovery goroutine, a model worker) reads the state *)
(* of a stage, and calls the hub with what it read: the detector compares  *)
(* and numbers under its lock, and the publisher then offers the event to  *)
(* a snapshot of the subscribers, one after the other, holding no lock.    *)
(* Between any two of these steps another reporter, an Unsubscribe or a    *)
(* Close may come, and the state that was read may be old.                 *)
(***************************************************************************)
EXTENDS Naturals, Sequences, FiniteSets

CONSTANTS
  Reporters,         \* goroutines that call OnFeed, OnIngestion, OnDecision, ...
  Ticker,            \* the reporter that reports on every tick (Pipeline.Run)
  Keys,              \* (stage, entity) pairs
  PolledKeys,        \* the keys reported on every tick
  StageStates,       \* the categorical states of a stage
  Absent,            \* the zero StageState
  Subscribers,       \* Subscribe calls of a run
  SubscriberBuffer,  \* capacity of a subscriber's channel
  MaxChanges         \* bound of the model: changes of stage states

ASSUME StageAssumption ==
  /\ Ticker \in Reporters /\ PolledKeys \subseteq Keys
  /\ Absent \notin StageStates
  /\ SubscriberBuffer \in Nat \ {0} /\ MaxChanges \in Nat

VARIABLES
  fact, changes,        \* the states the stages are in; changes so far
  last, number,         \* Detector: last published state and its number
  reporting,            \* per reporter: "idle", "read", "considered", "sending"
  reading,              \* per reporter: the key and state it has read
  event, sendingTo,     \* per reporter: its event, subscribers not reached yet
  registered, subscribers, hubClosed,  \* Publisher: subs, all ids, closed
  channelClosed,        \* subscribers whose channel has been closed
  queue,                \* per subscriber: the events in its channel
  dropped,              \* Stats.Dropped
  panicked,             \* a send on a closed channel has ended the process
  log, handed, since    \* history: events numbered; put into each channel;
                        \* the length of log when a subscriber came

stageVars == <<fact, changes>>
detectorVars == <<last, number, log>>
reporterVars == <<reporting, reading, event, sendingTo>>
hubVars == <<registered, subscribers, hubClosed, channelClosed, since>>
channelVars == <<queue, dropped, handed, panicked>>
transitionVars == <<stageVars, detectorVars, reporterVars, hubVars, channelVars>>

StageInit ==
  /\ fact \in [Keys -> StageStates] /\ changes = 0
  /\ last = [k \in Keys |-> Absent] /\ number = [k \in Keys |-> 0]
  /\ reporting = [r \in Reporters |-> "idle"]
  /\ reading = [r \in Reporters |-> <<>>]
  /\ event = [r \in Reporters |-> 0]
  /\ sendingTo = [r \in Reporters |-> {}]
  /\ registered = {} /\ subscribers = {} /\ hubClosed = FALSE
  /\ channelClosed = {}
  /\ queue = [s \in Subscribers |-> <<>>]
  /\ dropped = 0 /\ panicked = FALSE
  /\ log = <<>> /\ handed = [s \in Subscribers |-> <<>>]
  /\ since = [s \in Subscribers |-> 0]

\* A stage changes state: health, breaker and flags, or a model outcome.
StageChanges(k) ==
  /\ ~panicked /\ changes < MaxChanges
  /\ \E x \in StageStates \ {fact[k]} : fact' = [fact EXCEPT ![k] = x]
  /\ changes' = changes + 1
  /\ UNCHANGED <<detectorVars, reporterVars, hubVars, channelVars>>

-----------------------------------------------------------------------------
(* Reporting: read, compare and number, take a snapshot, send.             *)

\* Faulty variant: a reporter that only reports what differs from the last
\* event it made itself.
ReadStateUnlessOwn(r, k) ==
  /\ ~panicked /\ reporting[r] = "idle"
  /\ ~\E n \in 1..Len(log) :
        /\ log[n].by = r /\ log[n].key = k /\ log[n].current = fact[k]
        /\ \A i \in (n + 1)..Len(log) : log[i].by # r \/ log[i].key # k
  /\ reading' = [reading EXCEPT ![r] = <<k, fact[k]>>]
  /\ reporting' = [reporting EXCEPT ![r] = "read"]
  /\ UNCHANGED <<stageVars, detectorVars, event, sendingTo, hubVars, channelVars>>

ReadState(r, k) ==
  /\ ~panicked /\ reporting[r] = "idle"
  /\ reading' = [reading EXCEPT ![r] = <<k, fact[k]>>]
  /\ reporting' = [reporting EXCEPT ![r] = "read"]
  /\ UNCHANGED <<stageVars, detectorVars, event, sendingTo, hubVars, channelVars>>

\* Faulty variant: a state is remembered only for a key that is new.
FirstRemembered(k, x) == [last EXCEPT ![k] = IF @ = Absent THEN x ELSE @]

Remembered(k, x) == [last EXCEPT ![k] = x]

\* Detector.consider under its lock: an unchanged state makes no event.
Consider(r) ==
  /\ ~panicked /\ reporting[r] = "read"
  /\ LET k == reading[r][1]  x == reading[r][2] IN
       \/ /\ x = last[k]
          /\ reporting' = [reporting EXCEPT ![r] = "idle"]
          /\ UNCHANGED <<detectorVars, event>>
       \/ /\ x # last[k]
          /\ number' = [number EXCEPT ![k] = @ + 1]
          /\ last' = Remembered(k, x)
          /\ log' = Append(log, [key |-> k, no |-> number[k] + 1,
                                 previous |-> last[k], current |-> x, by |-> r])
          /\ event' = [event EXCEPT ![r] = Len(log) + 1]
          /\ reporting' = [reporting EXCEPT ![r] = "considered"]
  /\ reading' = [reading EXCEPT ![r] = <<>>]
  /\ UNCHANGED <<stageVars, sendingTo, hubVars, channelVars>>

\* Faulty variant: what is published is the detector's newest event.
SnapshotNewest(r) ==
  /\ ~panicked /\ reporting[r] = "considered"
  /\ reporting' = [reporting EXCEPT ![r] = IF hubClosed THEN "idle" ELSE "sending"]
  /\ sendingTo' = [sendingTo EXCEPT ![r] = registered]
  /\ event' = [event EXCEPT ![r] = Len(log)]
  /\ UNCHANGED <<stageVars, detectorVars, reading, hubVars, channelVars>>

\* Publish under its lock: a closed publisher ignores the event.
Snapshot(r) ==
  /\ ~panicked /\ reporting[r] = "considered"
  /\ reporting' = [reporting EXCEPT ![r] = IF hubClosed THEN "idle" ELSE "sending"]
  /\ sendingTo' = [sendingTo EXCEPT ![r] = registered]
  /\ UNCHANGED <<stageVars, detectorVars, reading, event, hubVars, channelVars>>

\* The select with a default, subscriber by subscriber: room, no room, or a
\* channel that was closed after the snapshot.
Reaches(r, s) ==
  /\ ~panicked /\ reporting[r] = "sending" /\ s \in sendingTo[r]
  /\ sendingTo' = [sendingTo EXCEPT ![r] = @ \ {s}]
  /\ UNCHANGED <<stageVars, detectorVars, reporting, reading, event, hubVars>>

Deliver(r, s) ==
  /\ Reaches(r, s) /\ s \notin channelClosed
  /\ Len(queue[s]) < SubscriberBuffer
  /\ queue' = [queue EXCEPT ![s] = Append(@, event[r])]
  /\ handed' = [handed EXCEPT ![s] = Append(@, event[r])]
  /\ UNCHANGED <<dropped, panicked>>

\* Faulty variant: the event is lost without being counted.
DropUncounted(r, s) ==
  /\ Reaches(r, s) /\ s \notin channelClosed
  /\ Len(queue[s]) >= SubscriberBuffer
  /\ UNCHANGED channelVars

Drop(r, s) ==
  /\ Reaches(r, s) /\ s \notin channelClosed
  /\ Len(queue[s]) >= SubscriberBuffer
  /\ dropped' = dropped + 1
  /\ UNCHANGED <<queue, handed, panicked>>

SendOnClosed(r, s) ==
  /\ Reaches(r, s) /\ s \in channelClosed
  /\ panicked' = TRUE
  /\ UNCHANGED <<queue, handed, dropped>>

EndPublish(r) ==
  /\ ~panicked /\ reporting[r] = "sending" /\ sendingTo[r] = {}
  /\ reporting' = [reporting EXCEPT ![r] = "idle"]
  /\ event' = [event EXCEPT ![r] = 0]
  /\ UNCHANGED <<stageVars, detectorVars, reading, sendingTo, hubVars, channelVars>>

-----------------------------------------------------------------------------
(* Subscribers.                                                            *)

Subscribe(s) ==
  /\ ~panicked /\ s \notin subscribers
  /\ subscribers' = subscribers \union {s}
  /\ since' = [since EXCEPT ![s] = Len(log)]
  /\ IF hubClosed
     THEN channelClosed' = channelClosed \union {s} /\ UNCHANGED registered
     ELSE registered' = registered \union {s} /\ UNCHANGED channelClosed
  /\ UNCHANGED <<hubClosed, stageVars, detectorVars, reporterVars, channelVars>>

\* Diagnostic.loop takes the next event and writes it.
Take(s) ==
  /\ ~panicked /\ queue[s] # <<>>
  /\ queue' = [queue EXCEPT ![s] = Tail(@)]
  /\ UNCHANGED <<dropped, handed, panicked, stageVars, detectorVars, reporterVars, hubVars>>

\* Unsubscribe and Close forget the subscribers under the lock ...
Unsubscribe(s) ==
  /\ ~panicked /\ s \in registered
  /\ registered' = registered \ {s}
  /\ UNCHANGED <<subscribers, hubClosed, channelClosed, since, stageVars,
                 detectorVars, reporterVars, channelVars>>

CloseHub ==
  /\ ~panicked /\ ~hubClosed
  /\ hubClosed' = TRUE /\ registered' = {}
  /\ UNCHANGED <<subscribers, channelClosed, since, stageVars, detectorVars,
                 reporterVars, channelVars>>

\* ... and close their channels after it.
CloseChannel(s) ==
  /\ ~panicked /\ s \in subscribers \ (registered \union channelClosed)
  /\ channelClosed' = channelClosed \union {s}
  /\ UNCHANGED <<registered, subscribers, hubClosed, since, stageVars,
                 detectorVars, reporterVars, channelVars>>

-----------------------------------------------------------------------------
Report(r) ==
  \/ Consider(r) \/ Snapshot(r) \/ EndPublish(r)
  \/ \E s \in Subscribers : Deliver(r, s) \/ Drop(r, s) \/ SendOnClosed(r, s)

StageNext ==
  \/ \E k \in Keys : StageChanges(k)
  \/ \E r \in Reporters : Report(r) \/ \E k \in Keys : ReadState(r, k)
  \/ \E s \in Subscribers : Subscribe(s) \/ Take(s) \/ Unsubscribe(s) \/ CloseChannel(s)
  \/ CloseHub

StageSpec == StageInit /\ [][StageNext]_transitionVars

\* A call of the hub returns, since nothing in it waits; the ticker reports
\* every second.
StageFairness ==
  /\ \A r \in Reporters : WF_transitionVars(Report(r))
  /\ \A k \in PolledKeys : SF_transitionVars(ReadState(Ticker, k))
-----------------------------------------------------------------------------
(* Properties.                                                             *)

StageTypeOK ==
  /\ fact \in [Keys -> StageStates] /\ changes \in 0..MaxChanges
  /\ last \in [Keys -> StageStates \union {Absent}] /\ number \in [Keys -> Nat]
  /\ reporting \in [Reporters -> {"idle", "read", "considered", "sending"}]
  /\ event \in [Reporters -> 0..Len(log)]
  /\ sendingTo \in [Reporters -> SUBSET subscribers]
  /\ registered \subseteq subscribers /\ subscribers \subseteq Subscribers
  /\ hubClosed \in BOOLEAN /\ panicked \in BOOLEAN /\ dropped \in Nat
  /\ channelClosed \subseteq subscribers \ registered
  /\ \A s \in Subscribers : Len(queue[s]) <= SubscriberBuffer

\* The channels of the hub form a feed: events may be dropped and those of two
\* reporters may be swapped, but none comes twice and one reporter's events
\* come in the order of its calls (Publisher.Publish after Detector.consider).
TransitionFeed == INSTANCE PublishedFeed WITH
  Publisher <- Reporters, Subscriber <- Subscribers,
  issued <- [n \in 1..Len(log) |-> log[n].by], got <- handed
TransitionsAreAFeed == TransitionFeed!FeedSpec

\* What a subscriber holds of a key can be put back in order by the numbers:
\* neighbours fit together, every event is a change, and the event with the
\* latest number shows the state the detector remembers.
Held(s, k) == {e \in {log[handed[s][i]] : i \in 1..Len(handed[s])} : e.key = k}
ReconstructionMatchesDetector ==
  \A s \in Subscribers, k \in Keys : \A e \in Held(s, k) :
    /\ e.current # e.previous
    /\ \A f \in Held(s, k) : f.no = e.no + 1 => f.previous = e.current
    /\ e.no = number[k] => e.current = last[k]

\* While Dropped is zero and no Publish is under way, a subscriber that is
\* still registered was handed everything since it came.
AtRest == \A r \in Reporters : reporting[r] \in {"idle", "read"}
DroppedTellsLoss ==
  dropped = 0 /\ AtRest /\ ~panicked =>
    \A s \in registered : \A n \in (since[s] + 1)..Len(log) :
      \E i \in 1..Len(handed[s]) : handed[s][i] = n

\* Reports made from an old reading do not last: once the stages stop
\* changing, the detector's state of a polled key is the stage's.
HubCatchesUp == <>[](panicked \/ \A k \in PolledKeys : last[k] = fact[k])
=============================================================================
