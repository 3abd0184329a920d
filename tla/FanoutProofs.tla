----------------------------- MODULE FanoutProofs -----------------------------
(***************************************************************************)
(* Theorems about the two lossy fan-outs: the evidence bus and the stage   *)
(* transition hub are feeds (PublishedFeed) for any number of publishers   *)
(* and subscribers and any capacity of the channels.  The invariants say   *)
(* what carries the promise: an envelope a publisher still has to offer to *)
(* a subscriber is newer than everything that subscriber was handed of     *)
(* this publisher.                                                         *)
(***************************************************************************)
EXTENDS EvidenceBus, StageTransition, SequenceTheorems, TLAPS

LEMMA LastOrEarlier ==
  ASSUME NEW n \in Nat, NEW k \in Nat, 1 <= k, k <= n + 1
  PROVE  k \in 1..n \/ k = n + 1
OBVIOUS

-----------------------------------------------------------------------------
(* The evidence bus.                                                       *)

BusTypeInv ==
  /\ sequence \in Nat /\ issuedBy \in Seq(BusPublishers) /\ sequence = Len(issuedBy)
  /\ publishing \in [BusPublishers -> {"idle", "numbered", "sending"}]
  /\ envelope \in [BusPublishers -> Nat]
  /\ offering \in [BusPublishers -> SUBSET Streams]
  /\ received \in [Streams -> Seq(Nat)]

\* A publisher at work holds a number it has issued itself; it has subscribers
\* to reach only while it sends.
EnvelopesAreIssued ==
  \A p \in BusPublishers :
    /\ publishing[p] # "idle" =>
         envelope[p] \in 1..Len(issuedBy) /\ issuedBy[envelope[p]] = p
    /\ publishing[p] # "sending" => offering[p] = {}

ReceivedIsIssued ==
  \A s \in Streams : \A k \in 1..Len(received[s]) : received[s][k] \in 1..Len(issuedBy)

\* What p still has to offer s is newer than all s has received of p.
StillToCome(p, s) == publishing[p] = "numbered" \/ s \in offering[p]
OffersAreNewer ==
  \A p \in BusPublishers, s \in Streams : StillToCome(p, s) =>
    \A k \in 1..Len(received[s]) :
      issuedBy[received[s][k]] = p => received[s][k] < envelope[p]

ReceivedInOrder ==
  \A s \in Streams : \A j, k \in 1..Len(received[s]) :
    j < k /\ issuedBy[received[s][j]] = issuedBy[received[s][k]]
      => received[s][j] < received[s][k]

BusInv ==
  BusTypeInv /\ EnvelopesAreIssued /\ ReceivedIsIssued /\ OffersAreNewer /\ ReceivedInOrder

LEMMA BusInitInv == BusInit => BusInv
BY DEF BusInit, BusInv, BusTypeInv, EnvelopesAreIssued, ReceivedIsIssued,
       OffersAreNewer, ReceivedInOrder, StillToCome

\* Taking a number: it is larger than every number handed out before.
LEMMA TakeNumberInv ==
  ASSUME BusInv, NEW p \in BusPublishers, TakeNumber(p)
  PROVE  BusInv'
<1> USE DEF BusInv, BusTypeInv, EnvelopesAreIssued, ReceivedIsIssued, OffersAreNewer,
            ReceivedInOrder, StillToCome, TakeNumber
<1>1. /\ issuedBy' \in Seq(BusPublishers) /\ Len(issuedBy') = Len(issuedBy) + 1
      /\ issuedBy'[Len(issuedBy) + 1] = p
      /\ \A n \in 1..Len(issuedBy) : issuedBy'[n] = issuedBy[n]
  OBVIOUS
<1>2. BusTypeInv'
  BY <1>1 DEF streamVars
<1>3. EnvelopesAreIssued'
  BY <1>1
<1>4. ReceivedIsIssued'
  BY <1>1
<1>5. OffersAreNewer'
  <2> SUFFICES ASSUME NEW q \in BusPublishers, NEW s \in Streams, StillToCome(q, s)',
                      NEW k \in 1..Len(received'[s]), issuedBy'[received'[s][k]] = q
               PROVE  received'[s][k] < envelope'[q]
    OBVIOUS
  <2>1. received'[s][k] \in 1..Len(issuedBy) /\ issuedBy[received[s][k]] = q
    BY <1>1
  <2>2. CASE q = p
    BY <2>1, <2>2
  <2>3. CASE q # p
    BY <2>1, <2>3
  <2> QED BY <2>2, <2>3
<1>6. ReceivedInOrder'
  <2> SUFFICES ASSUME NEW s \in Streams, NEW j \in 1..Len(received'[s]),
                      NEW k \in 1..Len(received'[s]),
                      j < k, issuedBy'[received'[s][j]] = issuedBy'[received'[s][k]]
               PROVE  received'[s][j] < received'[s][k]
    OBVIOUS
  <2>1. received[s][j] \in 1..Len(issuedBy) /\ received[s][k] \in 1..Len(issuedBy)
    OBVIOUS
  <2> QED BY <1>1, <2>1
<1> QED BY <1>2, <1>3, <1>4, <1>5, <1>6

LEMMA ReadLockInv ==
  ASSUME BusInv, NEW p \in BusPublishers, ReadLock(p), subscribed \subseteq Streams
  PROVE  BusInv'
<1> USE DEF BusInv, BusTypeInv, ReadLock, streamVars
<1>1. BusTypeInv' /\ ReceivedIsIssued' /\ ReceivedInOrder'
  BY DEF ReceivedIsIssued, ReceivedInOrder
<1>2. EnvelopesAreIssued'
  BY DEF EnvelopesAreIssued
<1>3. OffersAreNewer'
  BY DEF OffersAreNewer, StillToCome
<1> QED BY <1>1, <1>2, <1>3

\* What is offered is newer than what s has of p, and s is then crossed off;
\* to any other publisher an envelope of p does not matter.
LEMMA OfferInv ==
  ASSUME BusInv, NEW p \in BusPublishers, NEW s \in Streams, Offer(p, s)
  PROVE  /\ BusInv'
         /\ \/ UNCHANGED received
            \/ /\ received' = [received EXCEPT ![s] = Append(@, envelope[p])]
               /\ envelope[p] \in 1..Len(issuedBy)
               /\ \A k \in 1..Len(received[s]) :
                    issuedBy[received[s][k]] = issuedBy[envelope[p]]
                      => received[s][k] < envelope[p]
<1> USE DEF BusInv, BusTypeInv, Offer, streamVars
<1>1. /\ envelope[p] \in 1..Len(issuedBy) /\ issuedBy[envelope[p]] = p
      /\ \A k \in 1..Len(received[s]) :
           issuedBy[received[s][k]] = p => received[s][k] < envelope[p]
  BY DEF EnvelopesAreIssued, OffersAreNewer, StillToCome
<1>2. CASE UNCHANGED received
  <2>1. BusTypeInv' /\ ReceivedIsIssued' /\ ReceivedInOrder'
    BY <1>2 DEF ReceivedIsIssued, ReceivedInOrder
  <2>2. EnvelopesAreIssued'
    BY <1>2 DEF EnvelopesAreIssued
  <2>3. OffersAreNewer'
    BY <1>2 DEF OffersAreNewer, StillToCome
  <2> QED BY <1>2, <2>1, <2>2, <2>3
<1>3. CASE received' = [received EXCEPT ![s] = Append(@, envelope[p])]
  <2>1. /\ received' \in [Streams -> Seq(Nat)]
        /\ Len(received'[s]) = Len(received[s]) + 1
        /\ received'[s][Len(received[s]) + 1] = envelope[p]
        /\ \A k \in 1..Len(received[s]) : received'[s][k] = received[s][k]
        /\ \A t \in Streams \ {s} : received'[t] = received[t]
    BY <1>3
  <2>2. BusTypeInv'
    BY <2>1
  <2>3. EnvelopesAreIssued'
    BY DEF EnvelopesAreIssued
  <2>4. ReceivedIsIssued'
    <3> SUFFICES ASSUME NEW t \in Streams, NEW k \in 1..Len(received'[t])
                 PROVE  received'[t][k] \in 1..Len(issuedBy)
      BY DEF ReceivedIsIssued
    <3>1. CASE t # s
      BY <2>1, <3>1 DEF ReceivedIsIssued
    <3>2. CASE t = s /\ k \in 1..Len(received[s])
      BY <2>1, <3>2 DEF ReceivedIsIssued
    <3>3. CASE t = s /\ k = Len(received[s]) + 1
      BY <1>1, <2>1, <3>3
    <3> QED BY <2>1, <3>1, <3>2, <3>3, SMTT(30)
  <2>5. OffersAreNewer'
    <3> SUFFICES ASSUME NEW q \in BusPublishers, NEW t \in Streams, StillToCome(q, t)',
                        NEW k \in 1..Len(received'[t]),
                        issuedBy[received'[t][k]] = q
                 PROVE  received'[t][k] < envelope[q]
      BY DEF OffersAreNewer
    <3>1. StillToCome(q, t) /\ (q = p => t # s)
      BY DEF StillToCome, EnvelopesAreIssued
    <3>2. CASE t # s \/ k \in 1..Len(received[s])
      BY <2>1, <3>1, <3>2 DEF OffersAreNewer
    <3>3. CASE t = s /\ k = Len(received[s]) + 1
      BY <1>1, <2>1, <3>1, <3>3
    <3> QED BY <2>1, <3>2, <3>3
  <2>6. ReceivedInOrder'
    <3> SUFFICES ASSUME NEW t \in Streams, NEW j \in 1..Len(received'[t]),
                        NEW k \in 1..Len(received'[t]),
                        j < k, issuedBy[received'[t][j]] = issuedBy[received'[t][k]]
                 PROVE  received'[t][j] < received'[t][k]
      BY DEF ReceivedInOrder
    <3>1. CASE t # s
      BY <2>1, <3>1 DEF ReceivedInOrder
    <3>2. CASE t = s
      <4>1. /\ Len(received[s]) \in Nat /\ j \in Nat /\ k \in Nat
            /\ 1 <= j /\ j < k /\ k <= Len(received[s]) + 1
        BY <2>1, <3>2
      <4>2. j \in 1..Len(received[s])
        BY <4>1
      <4>3. received'[t][j] = received[s][j]
        BY <2>1, <3>2, <4>2
      <4>4. k \in 1..Len(received[s]) \/ k = Len(received[s]) + 1
        <5>1. Len(received[s]) \in Nat
          BY <4>1
        <5>2. k \in Nat
          BY <4>1
        <5>3. 1 <= k
          BY <4>1
        <5>4. k <= Len(received[s]) + 1
          BY <4>1
        <5> QED BY <5>1, <5>2, <5>3, <5>4, LastOrEarlier
      <4>5. CASE k \in 1..Len(received[s])
        <5>1. received'[t][k] = received[s][k]
          BY <2>1, <3>2, <4>5
        <5> QED BY <3>2, <4>1, <4>2, <4>5, <4>3, <5>1 DEF ReceivedInOrder
      <4>6. CASE k = Len(received[s]) + 1
        <5>1. received'[t][k] = envelope[p]
          BY <2>1, <3>2, <4>6
        <5>2. issuedBy[received[s][j]] = p
          BY <1>1, <4>3, <5>1
        <5>3. received[s][j] < envelope[p]
          BY <1>1, <4>2, <5>2
        <5> QED BY <4>3, <5>1, <5>3
      <4> QED BY <4>5, <4>6, <4>4
    <3> QED BY <3>1, <3>2
  <2> QED BY <1>1, <1>3, <2>2, <2>3, <2>4, <2>5, <2>6
<1> QED BY <1>2, <1>3

LEMMA ReadUnlockInv ==
  ASSUME BusInv, NEW p \in BusPublishers, ReadUnlock(p)
  PROVE  BusInv'
<1> USE DEF BusInv, BusTypeInv, ReadUnlock, streamVars
<1>1. BusTypeInv' /\ ReceivedIsIssued' /\ ReceivedInOrder'
  BY DEF ReceivedIsIssued, ReceivedInOrder
<1>2. EnvelopesAreIssued'
  BY DEF EnvelopesAreIssued
<1>3. OffersAreNewer'
  BY DEF OffersAreNewer, StillToCome
<1> QED BY <1>1, <1>2, <1>3

LEMMA BusUnchangedInv ==
  ASSUME BusInv, UNCHANGED <<publisherVars, received>>
  PROVE  BusInv'
BY DEF BusInv, BusTypeInv, EnvelopesAreIssued, ReceivedIsIssued, OffersAreNewer,
       ReceivedInOrder, StillToCome, publisherVars

LEMMA BusStepInv ==
  ASSUME BusInv, subscribed \subseteq Streams, [BusNext]_busVars
  PROVE  BusInv' /\ (subscribed \subseteq Streams)'
<1>1. ASSUME NEW p \in BusPublishers, TakeNumber(p) PROVE BusInv' /\ UNCHANGED subscribed
  BY <1>1, TakeNumberInv DEF TakeNumber, streamVars
<1>2. ASSUME NEW p \in BusPublishers, ReadLock(p) PROVE BusInv' /\ UNCHANGED subscribed
  BY <1>2, ReadLockInv DEF ReadLock, streamVars
<1>3. ASSUME NEW p \in BusPublishers, ReadUnlock(p) PROVE BusInv' /\ UNCHANGED subscribed
  BY <1>3, ReadUnlockInv DEF ReadUnlock, streamVars
<1>4. ASSUME NEW p \in BusPublishers, NEW s \in Streams, Offer(p, s)
      PROVE  BusInv' /\ UNCHANGED subscribed
  BY <1>4, OfferInv DEF Offer, streamVars
<1>5. ASSUME NEW s \in Streams,
             SubscribeRuntimeEvidence(s) \/ StreamSends(s) \/ StreamEnds(s)
      PROVE  BusInv' /\ (subscribed \subseteq Streams)'
  <2>1. UNCHANGED <<publisherVars, received>>
    BY <1>5 DEF SubscribeRuntimeEvidence, StreamSends, StreamEnds
  <2>2. (subscribed \subseteq Streams)'
    BY <1>5 DEF SubscribeRuntimeEvidence, StreamSends, StreamEnds, streamVars
  <2> QED BY <2>1, <2>2, BusUnchangedInv
<1>6. CASE UNCHANGED busVars
  BY <1>6, BusUnchangedInv DEF busVars, streamVars
<1> QED BY <1>1, <1>2, <1>3, <1>4, <1>5, <1>6 DEF BusNext

LEMMA BusInvariant == BusSpec => [](BusInv /\ subscribed \subseteq Streams)
<1>1. BusInit => BusInv /\ subscribed \subseteq Streams
  BY BusInitInv DEF BusInit
<1> QED
  BY <1>1, BusStepInv, PTL DEF BusSpec

\* A step of the bus is one Issue of the feed, one Hand, or nothing.
LEMMA BusStepIsFeedStep ==
  ASSUME BusInv, [BusNext]_busVars
  PROVE  [EvidenceFeed!FeedNext]_<<issuedBy, received>>
<1>1. ASSUME NEW p \in BusPublishers, TakeNumber(p) PROVE EvidenceFeed!Issue(p)
  BY <1>1 DEF TakeNumber, EvidenceFeed!Issue
<1>2. ASSUME NEW p \in BusPublishers, NEW s \in Streams, Offer(p, s)
      PROVE  UNCHANGED <<issuedBy, received>> \/ EvidenceFeed!Hand(s, envelope[p])
  BY <1>2, OfferInv DEF Offer, EvidenceFeed!Hand, EvidenceFeed!FollowsItsPublisher
<1>3. ASSUME NEW p \in BusPublishers, NEW s \in Streams, Offer(p, s)
      PROVE  UNCHANGED <<issuedBy, received>> \/ envelope[p] \in 1..Len(issuedBy)
  BY <1>3, OfferInv DEF Offer
<1>4. ASSUME NEW p \in BusPublishers, ReadLock(p) \/ ReadUnlock(p)
      PROVE  UNCHANGED <<issuedBy, received>>
  BY <1>4 DEF ReadLock, ReadUnlock
<1>5. ASSUME NEW s \in Streams,
             SubscribeRuntimeEvidence(s) \/ StreamSends(s) \/ StreamEnds(s)
      PROVE  UNCHANGED <<issuedBy, received>>
  BY <1>5 DEF SubscribeRuntimeEvidence, StreamSends, StreamEnds, publisherVars
<1>6. CASE UNCHANGED busVars
  BY <1>6 DEF busVars, publisherVars
<1> QED
  BY <1>1, <1>2, <1>3, <1>4, <1>5, <1>6 DEF BusNext, EvidenceFeed!FeedNext

\* The evidence bus keeps the promise of a feed, whoever overtakes whom between
\* sequence.Add and mu.RLock and whatever is dropped (bus.go:29-39).
THEOREM EvidenceBusIsAFeed == BusSpec => EvidenceIsAFeed
<1>1. BusInit => EvidenceFeed!FeedInit
  BY DEF BusInit, EvidenceFeed!FeedInit
<1> QED
  BY <1>1, BusInvariant, BusStepIsFeedStep, PTL
     DEF BusSpec, EvidenceIsAFeed, EvidenceFeed!FeedSpec, EvidenceFeed!feedVars

\* No stream gets the same evidence twice: a number has one publisher, and of
\* one publisher the numbers ascend (bus.go:29-39).
EvidenceComesOnce ==
  \A s \in Streams : \A j, k \in 1..Len(received[s]) :
    j < k => received[s][j] # received[s][k]

THEOREM NoEvidenceTwice == BusSpec => []EvidenceComesOnce
<1>1. BusInv => EvidenceComesOnce
  <2> SUFFICES ASSUME BusInv, NEW s \in Streams, NEW j \in 1..Len(received[s]),
                      NEW k \in 1..Len(received[s]), j < k, received[s][j] = received[s][k]
               PROVE  FALSE
    BY DEF EvidenceComesOnce
  <2>1. received[s][j] \in Nat
    BY DEF BusInv, BusTypeInv
  <2>2. received[s][j] < received[s][k]
    BY DEF BusInv, ReceivedInOrder
  <2> QED BY <2>1, <2>2
<1> QED
  BY <1>1, BusInvariant, PTL

-----------------------------------------------------------------------------
(* The stage transition hub.                                               *)

StageEvent == [key : Keys, no : Nat, previous : StageStates \union {Absent},
               current : StageStates, by : Reporters]

HubTypeInv ==
  /\ fact \in [Keys -> StageStates]
  /\ last \in [Keys -> StageStates \union {Absent}] /\ number \in [Keys -> Nat]
  /\ log \in Seq(StageEvent)
  /\ reporting \in [Reporters -> {"idle", "read", "considered", "sending"}]
  /\ reading \in [Reporters -> {<<>>} \union (Keys \X StageStates)]
  /\ event \in [Reporters -> Nat]
  /\ sendingTo \in [Reporters -> SUBSET Subscribers]
  /\ registered \subseteq Subscribers /\ hubClosed \in BOOLEAN
  /\ handed \in [Subscribers -> Seq(Nat)] /\ since \in [Subscribers -> Nat]
  /\ dropped \in Nat /\ panicked \in BOOLEAN

\* A reporter that publishes holds an event it has had numbered itself.
EventsAreLogged ==
  \A r \in Reporters :
    /\ reporting[r] = "read" => reading[r] \in Keys \X StageStates
    /\ reporting[r] \in {"considered", "sending"} =>
         event[r] \in 1..Len(log) /\ log[event[r]].by = r

HandedIsLogged ==
  \A s \in Subscribers : \A k \in 1..Len(handed[s]) : handed[s][k] \in 1..Len(log)

StillToSend(r, s) ==
  reporting[r] = "considered" \/ (reporting[r] = "sending" /\ s \in sendingTo[r])
EventsAreNewer ==
  \A r \in Reporters, s \in Subscribers : StillToSend(r, s) =>
    \A k \in 1..Len(handed[s]) : log[handed[s][k]].by = r => handed[s][k] < event[r]

\* The events of a key are numbered to number[key], each from the state the one
\* before it led to, and the last of them shows what the detector remembers.
LogChains ==
  \A n \in 1..Len(log) :
    /\ log[n].no <= number[log[n].key]
    /\ log[n].current # log[n].previous
    /\ log[n].no = number[log[n].key] => log[n].current = last[log[n].key]
    /\ \A m \in 1..Len(log) :
         log[m].key = log[n].key /\ log[m].no = log[n].no + 1
           => log[m].previous = log[n].current

\* While nothing was dropped, every event numbered since a registered
\* subscriber came is in its channel or on its way to it.
WasHanded(s, n) == \E i \in 1..Len(handed[s]) : handed[s][i] = n
OnItsWay(s, n) == \E r \in Reporters : StillToSend(r, s) /\ event[r] = n
NothingForgotten ==
  /\ hubClosed => registered = {}
  /\ dropped = 0 /\ ~panicked =>
       \A s \in registered : \A n \in (since[s] + 1)..Len(log) :
         WasHanded(s, n) \/ OnItsWay(s, n)

HubInv ==
  /\ HubTypeInv /\ EventsAreLogged /\ HandedIsLogged /\ EventsAreNewer
  /\ LogChains /\ NothingForgotten

LEMMA HubInitInv == StageInit => HubInv
<1> SUFFICES ASSUME StageInit PROVE HubInv
  OBVIOUS
<1>1. HubTypeInv
  <2>1. log \in Seq(StageEvent) /\ handed \in [Subscribers -> Seq(Nat)]
    BY DEF StageInit
  <2>2. reading \in [Reporters -> {<<>>} \union (Keys \X StageStates)]
    BY DEF StageInit
  <2>3. sendingTo \in [Reporters -> SUBSET Subscribers]
    BY DEF StageInit
  <2> QED BY <2>1, <2>2, <2>3 DEF StageInit, HubTypeInv
<1>2. EventsAreLogged /\ HandedIsLogged
  BY DEF StageInit, EventsAreLogged, HandedIsLogged
<1>3. EventsAreNewer
  BY DEF StageInit, EventsAreNewer, StillToSend
<1>4. LogChains /\ NothingForgotten
  BY DEF StageInit, LogChains, NothingForgotten
<1> QED BY <1>1, <1>2, <1>3, <1>4 DEF HubInv

\* What leaves the log, the detector, the reporters at work and the channels'
\* history alone leaves the invariant alone.
LEMMA HubQuietInv ==
  ASSUME HubInv, HubTypeInv',
         UNCHANGED <<detectorVars, reporterVars, handed, dropped, panicked>>,
         (hubClosed => registered = {})',
         \A s \in registered' : (s \in registered /\ since'[s] = since[s])
                                \/ since'[s] = Len(log)
  PROVE  HubInv'
<1>1. EventsAreLogged' /\ HandedIsLogged'
  BY DEF HubInv, EventsAreLogged, HandedIsLogged, detectorVars, reporterVars
<1>2. EventsAreNewer'
  BY DEF HubInv, EventsAreNewer, StillToSend, detectorVars, reporterVars
<1>3. LogChains'
  BY DEF HubInv, LogChains, detectorVars
<1>4. NothingForgotten'
  <2> SUFFICES ASSUME dropped' = 0, ~panicked', NEW s \in registered',
                      NEW n \in (since'[s] + 1)..Len(log')
               PROVE  WasHanded(s, n)' \/ OnItsWay(s, n)'
    BY DEF NothingForgotten
  <2>1. Len(log) \in Nat /\ log' = log
    BY DEF HubInv, HubTypeInv, detectorVars
  <2>2. since'[s] # Len(log)
    BY <2>1
  <2>3. WasHanded(s, n) \/ OnItsWay(s, n)
    BY <2>1, <2>2 DEF HubInv, NothingForgotten
  <2> QED BY <2>3 DEF WasHanded, OnItsWay, StillToSend, reporterVars
<1> QED BY <1>1, <1>2, <1>3, <1>4 DEF HubInv

LEMMA StageChangesInv ==
  ASSUME HubInv, NEW k \in Keys, StageChanges(k)
  PROVE  HubInv'
<1>1. HubTypeInv'
  BY DEF HubInv, HubTypeInv, StageChanges, detectorVars, reporterVars, hubVars, channelVars
<1> QED
  BY <1>1, HubQuietInv DEF StageChanges, detectorVars, reporterVars, hubVars, channelVars,
     HubInv, NothingForgotten

\* A reporter that reads has nothing on its way, before and after.
LEMMA ReadStateInv ==
  ASSUME HubInv, NEW r \in Reporters, NEW k \in Keys, ReadState(r, k)
  PROVE  HubInv'
<1> USE DEF HubInv, ReadState, stageVars, detectorVars, hubVars, channelVars
<1>1. HubTypeInv'
  BY DEF HubTypeInv
<1>2. EventsAreLogged' /\ HandedIsLogged'
  BY DEF HubTypeInv, EventsAreLogged, HandedIsLogged
<1>3. \A q \in Reporters, s \in Subscribers : StillToSend(q, s)' = StillToSend(q, s)
  BY DEF HubTypeInv, StillToSend
<1>4. EventsAreNewer'
  BY <1>3 DEF EventsAreNewer
<1>5. LogChains'
  BY DEF LogChains
<1>6. NothingForgotten'
  <2> SUFFICES ASSUME dropped = 0, ~panicked, NEW s \in registered,
                      NEW n \in (since[s] + 1)..Len(log)
               PROVE  WasHanded(s, n)' \/ OnItsWay(s, n)'
    BY DEF NothingForgotten
  <2>1. WasHanded(s, n) \/ OnItsWay(s, n)
    BY DEF NothingForgotten
  <2>2. s \in Subscribers
    BY DEF HubTypeInv
  <2> QED BY <1>3, <2>1, <2>2 DEF WasHanded, OnItsWay
<1> QED BY <1>1, <1>2, <1>4, <1>5, <1>6

\* The detector sees no difference.
LEMMA UnchangedStateInv ==
  ASSUME HubInv, NEW r \in Reporters, Consider(r), UNCHANGED <<detectorVars, event>>,
         reporting' = [reporting EXCEPT ![r] = "idle"]
  PROVE  HubInv'
<1> USE DEF HubInv, Consider, stageVars, detectorVars, hubVars, channelVars
<1>1. HubTypeInv'
  BY DEF HubTypeInv
<1>2. EventsAreLogged' /\ HandedIsLogged'
  BY DEF HubTypeInv, EventsAreLogged, HandedIsLogged
<1>3. \A q \in Reporters, s \in Subscribers : StillToSend(q, s)' = StillToSend(q, s)
  BY DEF HubTypeInv, StillToSend
<1>4. EventsAreNewer'
  BY <1>3 DEF EventsAreNewer
<1>5. LogChains'
  BY DEF LogChains
<1>6. NothingForgotten'
  <2> SUFFICES ASSUME dropped = 0, ~panicked, NEW s \in registered,
                      NEW n \in (since[s] + 1)..Len(log)
               PROVE  WasHanded(s, n)' \/ OnItsWay(s, n)'
    BY DEF NothingForgotten
  <2>1. WasHanded(s, n) \/ OnItsWay(s, n)
    BY DEF NothingForgotten
  <2>2. s \in Subscribers
    BY DEF HubTypeInv
  <2> QED BY <1>3, <2>1, <2>2 DEF WasHanded, OnItsWay
<1> QED BY <1>1, <1>2, <1>4, <1>5, <1>6

\* The detector numbers an event: it is the newest of all, and it is on its way
\* to every subscriber.
LEMMA NumberedEventInv ==
  ASSUME HubInv, NEW r \in Reporters, Consider(r), NEW k \in Keys, NEW x \in StageStates,
         reading[r] = <<k, x>>, x # last[k],
         number' = [number EXCEPT ![k] = @ + 1],
         last' = [last EXCEPT ![k] = x],
         log' = Append(log, [key |-> k, no |-> number[k] + 1,
                             previous |-> last[k], current |-> x, by |-> r]),
         event' = [event EXCEPT ![r] = Len(log) + 1],
         reporting' = [reporting EXCEPT ![r] = "considered"]
  PROVE  HubInv'
<1> DEFINE new == [key |-> k, no |-> number[k] + 1, previous |-> last[k],
                   current |-> x, by |-> r]
<1> USE DEF HubInv
<1>1. UNCHANGED <<fact, changes, sendingTo, registered, subscribers, hubClosed,
                  channelClosed, since, queue, dropped, handed, panicked>>
      /\ reading' = [reading EXCEPT ![r] = <<>>] /\ reporting[r] = "read"
  BY DEF Consider, stageVars, hubVars, channelVars
<1>2. /\ Len(log) \in Nat /\ Len(log') = Len(log) + 1 /\ log'[Len(log) + 1] = new
      /\ \A n \in 1..Len(log) : log'[n] = log[n]
      /\ \A n \in 1..Len(log') : n \in 1..Len(log) \/ n = Len(log) + 1
      /\ \A n \in 1..Len(log) : n < Len(log) + 1 /\ n \in 1..Len(log')
      /\ Len(log) + 1 \in 1..Len(log')
  BY DEF HubTypeInv
<1>3. HubTypeInv'
  <2>1. new \in StageEvent
    BY DEF HubTypeInv, StageEvent
  <2>2. log' \in Seq(StageEvent)
    BY <2>1 DEF HubTypeInv
  <2> QED BY <1>1, <1>2, <2>2 DEF HubTypeInv
<1>4. EventsAreLogged'
  BY <1>1, <1>2 DEF HubTypeInv, EventsAreLogged
<1>5. HandedIsLogged'
  BY <1>1, <1>2 DEF HubTypeInv, HandedIsLogged
<1>6. EventsAreNewer'
  <2> SUFFICES ASSUME NEW q \in Reporters, NEW s \in Subscribers, StillToSend(q, s)',
                      NEW i \in 1..Len(handed[s]), log'[handed[s][i]].by = q
               PROVE  handed[s][i] < event'[q]
    BY <1>1 DEF EventsAreNewer
  <2>1. handed[s][i] \in 1..Len(log) /\ log[handed[s][i]].by = q
    BY <1>2 DEF HandedIsLogged
  <2>2. CASE q = r
    BY <1>2, <2>1, <2>2 DEF HubTypeInv
  <2>3. CASE q # r
    <3>1. StillToSend(q, s)
      BY <1>1, <2>3 DEF StillToSend, HubTypeInv
    <3> QED BY <2>1, <2>3, <3>1 DEF EventsAreNewer, HubTypeInv
  <2> QED BY <2>2, <2>3
<1>7. LogChains'
  <2> DEFINE Fits(n) ==
        /\ log'[n].no <= number'[log'[n].key]
        /\ log'[n].current # log'[n].previous
        /\ log'[n].no = number'[log'[n].key] => log'[n].current = last'[log'[n].key]
        /\ \A m \in 1..Len(log') :
             log'[m].key = log'[n].key /\ log'[m].no = log'[n].no + 1
               => log'[m].previous = log'[n].current
  <2>1. \A n \in 1..Len(log) :
          log[n].key \in Keys /\ log[n].no \in Nat /\ log[n].no <= number[log[n].key]
    <3>1. \A n \in 1..Len(log) : log[n] \in StageEvent
      BY DEF HubTypeInv
    <3> QED BY <3>1 DEF StageEvent, LogChains
  <2>2. /\ number[k] \in Nat /\ number'[k] = number[k] + 1 /\ last'[k] = x
        /\ \A c \in Keys \ {k} : number'[c] = number[c] /\ last'[c] = last[c]
    BY DEF HubTypeInv
  <2>3. ASSUME NEW n \in 1..Len(log) PROVE Fits(n)
    <3>1. log'[n] = log[n]
      BY <1>2
    <3>2. log'[n].no <= number'[log'[n].key] /\ log'[n].current # log'[n].previous
      <4>1. log[n].current # log[n].previous
        BY DEF LogChains
      <4>2. CASE log[n].key = k
        BY <2>1, <2>2, <3>1, <4>1, <4>2
      <4>3. CASE log[n].key # k
        BY <2>1, <2>2, <3>1, <4>1, <4>3
      <4> QED BY <4>2, <4>3
    <3>3. log'[n].no = number'[log'[n].key] => log'[n].current = last'[log'[n].key]
      <4>1. CASE log[n].key = k
        BY <2>1, <2>2, <3>1, <4>1
      <4>2. CASE log[n].key # k
        BY <2>1, <2>2, <3>1, <4>2 DEF LogChains
      <4> QED BY <4>1, <4>2
    <3>4. ASSUME NEW m \in 1..Len(log'), log'[m].key = log[n].key,
                 log'[m].no = log[n].no + 1
          PROVE  log'[m].previous = log[n].current
      <4>1. CASE m \in 1..Len(log)
        BY <1>2, <3>4, <4>1 DEF LogChains
      <4>2. CASE m = Len(log) + 1
        <5>1. log'[m] = new
          BY <1>2, <4>2
        <5>2. log'[m].key = k /\ log'[m].no = number[k] + 1
          BY <5>1
        <5>3. log[n].key = k /\ log[n].no = number[k]
          BY <2>1, <2>2, <3>4, <5>2
        <5> QED BY <5>1, <5>3 DEF LogChains
      <4> QED BY <1>2, <4>1, <4>2
    <3> QED BY <3>1, <3>2, <3>3, <3>4
  <2>4. Fits(Len(log) + 1)
    <3>1. ASSUME NEW m \in 1..Len(log'), log'[m].key = k, log'[m].no = number[k] + 2
          PROVE  FALSE
      <4>1. CASE m \in 1..Len(log)
        BY <1>2, <2>1, <2>2, <3>1, <4>1
      <4>2. CASE m = Len(log) + 1
        BY <1>2, <2>2, <3>1, <4>2
      <4> QED BY <1>2, <4>1, <4>2
    <3> QED BY <1>2, <2>2, <3>1
  <2> QED BY <1>2, <2>3, <2>4 DEF LogChains
<1>8. NothingForgotten'
  <2> SUFFICES ASSUME dropped = 0, ~panicked, NEW s \in registered,
                      NEW n \in (since[s] + 1)..Len(log')
               PROVE  WasHanded(s, n)' \/ OnItsWay(s, n)'
    BY <1>1 DEF NothingForgotten
  <2>1. CASE n = Len(log) + 1
    <3>1. StillToSend(r, s)' /\ event'[r] = n
      BY <2>1 DEF StillToSend, HubTypeInv
    <3> QED BY <3>1 DEF OnItsWay
  <2>2. CASE n \in (since[s] + 1)..Len(log)
    <3>1. CASE WasHanded(s, n)
      BY <1>1, <3>1 DEF WasHanded
    <3>2. CASE OnItsWay(s, n)
      <4>1. PICK q \in Reporters : StillToSend(q, s) /\ event[q] = n
        BY <3>2 DEF OnItsWay
      <4>2. q # r
        BY <1>1, <4>1 DEF StillToSend
      <4>3. StillToSend(q, s)' /\ event'[q] = n
        BY <1>1, <4>1, <4>2 DEF StillToSend, HubTypeInv
      <4> QED BY <4>3 DEF OnItsWay
    <3> QED BY <2>2, <3>1, <3>2 DEF NothingForgotten
  <2>3. since[s] \in Nat /\ n \in Nat /\ since[s] + 1 <= n /\ n <= Len(log) + 1
    BY <1>2 DEF HubTypeInv
  <2> QED BY <1>2, <2>1, <2>2, <2>3
<1> QED BY <1>3, <1>4, <1>5, <1>6, <1>7, <1>8

LEMMA ConsiderInv ==
  ASSUME HubInv, NEW r \in Reporters, Consider(r)
  PROVE  HubInv'
<1> DEFINE k == reading[r][1]
           x == reading[r][2]
<1>1. k \in Keys /\ x \in StageStates /\ reading[r] = <<k, x>>
  BY DEF HubInv, EventsAreLogged, Consider
<1>2. CASE x = last[k]
  BY <1>2, UnchangedStateInv DEF Consider
<1>3. CASE x # last[k]
  <2>1. /\ number' = [number EXCEPT ![k] = @ + 1]
        /\ last' = [last EXCEPT ![k] = x]
        /\ log' = Append(log, [key |-> k, no |-> number[k] + 1,
                               previous |-> last[k], current |-> x, by |-> r])
        /\ event' = [event EXCEPT ![r] = Len(log) + 1]
        /\ reporting' = [reporting EXCEPT ![r] = "considered"]
    BY <1>3 DEF Consider, Remembered
  <2> HIDE DEF k, x
  <2> QED BY <1>1, <1>3, <2>1, NumberedEventInv
<1> QED BY <1>2, <1>3

\* The snapshot holds every registered subscriber; a closed hub has none.
LEMMA SnapshotInv ==
  ASSUME HubInv, NEW r \in Reporters, Snapshot(r)
  PROVE  HubInv'
<1> USE DEF HubInv, Snapshot, stageVars, detectorVars, hubVars, channelVars
<1>1. HubTypeInv'
  BY DEF HubTypeInv
<1>2. EventsAreLogged' /\ HandedIsLogged'
  BY DEF HubTypeInv, EventsAreLogged, HandedIsLogged
<1>3. \A q \in Reporters, s \in Subscribers : StillToSend(q, s)' => StillToSend(q, s)
  BY DEF HubTypeInv, StillToSend
<1>4. \A q \in Reporters, s \in registered : StillToSend(q, s) => StillToSend(q, s)'
  BY DEF HubTypeInv, StillToSend, NothingForgotten
<1>5. EventsAreNewer'
  BY <1>3 DEF EventsAreNewer
<1>6. LogChains'
  BY DEF LogChains
<1>7. NothingForgotten'
  <2> SUFFICES ASSUME dropped = 0, ~panicked, NEW s \in registered,
                      NEW n \in (since[s] + 1)..Len(log)
               PROVE  WasHanded(s, n)' \/ OnItsWay(s, n)'
    BY DEF NothingForgotten
  <2>1. WasHanded(s, n) \/ OnItsWay(s, n)
    BY DEF NothingForgotten
  <2> QED BY <1>4, <2>1 DEF WasHanded, OnItsWay
<1> QED BY <1>1, <1>2, <1>5, <1>6, <1>7

\* The subscriber is crossed off and has the event.
LEMMA DeliverInv ==
  ASSUME HubInv, NEW r \in Reporters, NEW s \in Subscribers, Deliver(r, s)
  PROVE  HubInv'
<1> USE DEF HubInv, Deliver, Reaches, stageVars, detectorVars, hubVars
<1>1. /\ event[r] \in 1..Len(log) /\ log[event[r]].by = r /\ event[r] \in Nat
      /\ \A k \in 1..Len(handed[s]) : log[handed[s][k]].by = r => handed[s][k] < event[r]
  BY DEF EventsAreLogged, EventsAreNewer, StillToSend, HubTypeInv
<1>2. /\ handed' \in [Subscribers -> Seq(Nat)]
      /\ Len(handed[s]) \in Nat /\ Len(handed'[s]) = Len(handed[s]) + 1
      /\ handed'[s][Len(handed[s]) + 1] = event[r]
      /\ \A k \in 1..Len(handed[s]) : handed'[s][k] = handed[s][k]
      /\ \A k \in 1..Len(handed'[s]) : k \in 1..Len(handed[s]) \/ k = Len(handed[s]) + 1
      /\ \A k \in 1..Len(handed[s]) : k \in 1..Len(handed'[s])
      /\ Len(handed[s]) + 1 \in 1..Len(handed'[s])
      /\ \A t \in Subscribers \ {s} : handed'[t] = handed[t]
  BY <1>1 DEF HubTypeInv
<1>3. HubTypeInv'
  BY <1>2 DEF HubTypeInv
<1>4. EventsAreLogged'
  BY DEF HubTypeInv, EventsAreLogged
<1>5. HandedIsLogged'
  <2> SUFFICES ASSUME NEW t \in Subscribers, NEW k \in 1..Len(handed'[t])
               PROVE  handed'[t][k] \in 1..Len(log)
    BY DEF HandedIsLogged
  <2>1. CASE t # s
    BY <1>2, <2>1 DEF HandedIsLogged
  <2>2. CASE t = s /\ k \in 1..Len(handed[s])
    BY <1>2, <2>2 DEF HandedIsLogged
  <2>3. CASE t = s /\ k = Len(handed[s]) + 1
    BY <1>1, <1>2, <2>3
  <2> QED BY <1>2, <2>1, <2>2, <2>3
<1>6. \A q \in Reporters, t \in Subscribers :
        /\ StillToSend(q, t)' => StillToSend(q, t) /\ (q = r => t # s)
        /\ StillToSend(q, t) => StillToSend(q, t)' \/ (q = r /\ t = s)
  BY DEF HubTypeInv, StillToSend
<1>7. EventsAreNewer'
  <2> SUFFICES ASSUME NEW q \in Reporters, NEW t \in Subscribers, StillToSend(q, t)',
                      NEW k \in 1..Len(handed'[t]), log[handed'[t][k]].by = q
               PROVE  handed'[t][k] < event[q]
    BY DEF EventsAreNewer
  <2>1. StillToSend(q, t) /\ (q = r => t # s)
    BY <1>6
  <2>2. CASE t # s
    BY <1>2, <2>1, <2>2 DEF EventsAreNewer
  <2>3. CASE t = s /\ k \in 1..Len(handed[s])
    BY <1>2, <2>1, <2>3 DEF EventsAreNewer
  <2>4. CASE t = s /\ k = Len(handed[s]) + 1
    BY <1>1, <1>2, <2>1, <2>4
  <2> QED BY <1>2, <2>2, <2>3, <2>4
<1>8. LogChains'
  BY DEF LogChains
<1>9. NothingForgotten'
  <2> SUFFICES ASSUME dropped = 0, ~panicked, NEW t \in registered,
                      NEW n \in (since[t] + 1)..Len(log)
               PROVE  WasHanded(t, n)' \/ OnItsWay(t, n)'
    BY DEF NothingForgotten
  <2>1. WasHanded(t, n) \/ OnItsWay(t, n)
    BY DEF NothingForgotten
  <2>2. CASE WasHanded(t, n)
    BY <1>2, <2>2 DEF WasHanded, HubTypeInv
  <2>3. CASE t = s /\ n = event[r]
    BY <1>2, <2>3 DEF WasHanded
  <2>4. CASE OnItsWay(t, n) /\ ~(t = s /\ n = event[r])
    <3>1. PICK q \in Reporters : StillToSend(q, t) /\ event[q] = n
      BY <2>4 DEF OnItsWay
    <3>2. StillToSend(q, t)'
      BY <1>6, <2>4, <3>1 DEF HubTypeInv
    <3> QED BY <3>1, <3>2 DEF OnItsWay
  <2> QED BY <2>1, <2>2, <2>3, <2>4
<1> QED BY <1>3, <1>4, <1>5, <1>7, <1>8, <1>9

\* A lost event is counted, a send on a closed channel is the end.
LEMMA LostInv ==
  ASSUME HubInv, NEW r \in Reporters, NEW s \in Subscribers,
         Drop(r, s) \/ SendOnClosed(r, s)
  PROVE  HubInv'
<1> USE DEF HubInv, Drop, SendOnClosed, Reaches, stageVars, detectorVars, hubVars
<1>1. HubTypeInv'
  <2>1. dropped' \in Nat /\ panicked' \in BOOLEAN
    <3>1. CASE Drop(r, s)
      BY <3>1 DEF HubTypeInv
    <3>2. CASE SendOnClosed(r, s)
      BY <3>2 DEF HubTypeInv
    <3> QED BY <3>1, <3>2
  <2>2. sendingTo' \in [Reporters -> SUBSET Subscribers] /\ handed' = handed
    BY DEF HubTypeInv
  <2> QED BY <2>1, <2>2 DEF HubTypeInv
<1>2. EventsAreLogged' /\ HandedIsLogged'
  BY DEF HubTypeInv, EventsAreLogged, HandedIsLogged
<1>3. \A q \in Reporters, t \in Subscribers : StillToSend(q, t)' => StillToSend(q, t)
  BY DEF HubTypeInv, StillToSend
<1>4. EventsAreNewer'
  BY <1>3 DEF EventsAreNewer
<1>5. LogChains'
  BY DEF LogChains
<1>6. NothingForgotten'
  BY DEF NothingForgotten, HubTypeInv
<1> QED BY <1>1, <1>2, <1>4, <1>5, <1>6

LEMMA EndPublishInv ==
  ASSUME HubInv, NEW r \in Reporters, EndPublish(r)
  PROVE  HubInv'
<1> USE DEF HubInv, EndPublish, stageVars, detectorVars, hubVars, channelVars
<1>1. HubTypeInv'
  BY DEF HubTypeInv
<1>2. EventsAreLogged' /\ HandedIsLogged'
  BY DEF HubTypeInv, EventsAreLogged, HandedIsLogged
<1>3. \A q \in Reporters, s \in Subscribers :
        /\ StillToSend(q, s)' => q # r /\ StillToSend(q, s)
        /\ StillToSend(q, s) => q # r /\ StillToSend(q, s)'
  BY DEF HubTypeInv, StillToSend
<1>4. \A q \in Reporters \ {r} : event'[q] = event[q]
  BY DEF HubTypeInv
<1>5. EventsAreNewer'
  BY <1>3, <1>4 DEF EventsAreNewer
<1>6. LogChains'
  BY DEF LogChains
<1>7. NothingForgotten'
  <2> SUFFICES ASSUME dropped = 0, ~panicked, NEW s \in registered,
                      NEW n \in (since[s] + 1)..Len(log)
               PROVE  WasHanded(s, n)' \/ OnItsWay(s, n)'
    BY DEF NothingForgotten
  <2>1. WasHanded(s, n) \/ OnItsWay(s, n)
    BY DEF NothingForgotten
  <2>2. s \in Subscribers
    BY DEF HubTypeInv
  <2> QED BY <1>3, <1>4, <2>1, <2>2 DEF WasHanded, OnItsWay
<1> QED BY <1>1, <1>2, <1>5, <1>6, <1>7

LEMMA SubscriberInv ==
  ASSUME HubInv, NEW s \in Subscribers,
         Subscribe(s) \/ Take(s) \/ Unsubscribe(s) \/ CloseChannel(s)
  PROVE  HubInv'
<1> USE DEF stageVars, detectorVars, reporterVars, hubVars, channelVars
<1>1. CASE Subscribe(s)
  <2>1. HubTypeInv'
    BY <1>1 DEF HubInv, HubTypeInv, Subscribe
  <2>2. \A t \in registered' : (t \in registered /\ since'[t] = since[t])
                               \/ since'[t] = Len(log)
    BY <1>1 DEF HubInv, HubTypeInv, Subscribe
  <2>3. (hubClosed => registered = {})'
    BY <1>1 DEF HubInv, NothingForgotten, Subscribe
  <2> QED BY <1>1, <2>1, <2>2, <2>3, HubQuietInv DEF Subscribe
<1>2. CASE Take(s) \/ Unsubscribe(s) \/ CloseChannel(s)
  <2>1. HubTypeInv'
    BY <1>2 DEF HubInv, HubTypeInv, Take, Unsubscribe, CloseChannel
  <2>2. (hubClosed => registered = {})'
    BY <1>2 DEF HubInv, NothingForgotten, Take, Unsubscribe, CloseChannel
  <2> QED BY <1>2, <2>1, <2>2, HubQuietInv DEF Take, Unsubscribe, CloseChannel
<1> QED BY <1>1, <1>2

LEMMA CloseHubInv ==
  ASSUME HubInv, CloseHub
  PROVE  HubInv'
<1> USE DEF CloseHub, stageVars, detectorVars, reporterVars, channelVars
<1>1. HubTypeInv'
  BY DEF HubInv, HubTypeInv
<1> QED BY <1>1, HubQuietInv

LEMMA HubStepInv ==
  ASSUME HubInv, [StageNext]_transitionVars
  PROVE  HubInv'
<1>1. ASSUME NEW r \in Reporters, Report(r) PROVE HubInv'
  BY <1>1, ConsiderInv, SnapshotInv, EndPublishInv, DeliverInv, LostInv DEF Report
<1>2. CASE UNCHANGED transitionVars
  <2> USE DEF transitionVars, stageVars, detectorVars, reporterVars, hubVars, channelVars
  <2>1. HubTypeInv' /\ (hubClosed => registered = {})'
    BY <1>2 DEF HubInv, HubTypeInv, NothingForgotten
  <2> QED BY <1>2, <2>1, HubQuietInv
<1> QED
  BY <1>1, <1>2, StageChangesInv, ReadStateInv, SubscriberInv, CloseHubInv DEF StageNext

LEMMA HubInvariant == StageSpec => []HubInv
BY HubInitInv, HubStepInv, PTL DEF StageSpec

\* What a subscriber holds of a key can be put in order by its numbers, and the
\* latest number shows the detector's state, although events overtake each
\* other on the way (detector.go:62-98, bus.go:93-116).
THEOREM HubCanBeReconstructed == StageSpec => []ReconstructionMatchesDetector
<1>1. HubInv => ReconstructionMatchesDetector
  <2> SUFFICES ASSUME HubInv, NEW s \in Subscribers, NEW k \in Keys, NEW e \in Held(s, k)
               PROVE  /\ e.current # e.previous
                      /\ \A f \in Held(s, k) : f.no = e.no + 1 => f.previous = e.current
                      /\ e.no = number[k] => e.current = last[k]
    BY DEF ReconstructionMatchesDetector
  <2>1. \A f \in Held(s, k) : \E n \in 1..Len(log) : f = log[n] /\ log[n].key = k
    BY DEF HubInv, HandedIsLogged, Held
  <2> QED BY <2>1 DEF HubInv, LogChains
<1> QED BY <1>1, HubInvariant, PTL

\* With Dropped at zero a registered subscriber was handed everything that was
\* numbered since it came, once the reporters at work are through
\* (bus.go:93-116).
THEOREM DroppedCounterTellsLoss == StageSpec => []DroppedTellsLoss
<1>1. HubInv => DroppedTellsLoss
  <2> SUFFICES ASSUME HubInv, dropped = 0, AtRest, ~panicked, NEW s \in registered,
                      NEW n \in (since[s] + 1)..Len(log)
               PROVE  WasHanded(s, n)
    BY DEF DroppedTellsLoss, WasHanded
  <2>1. ~OnItsWay(s, n)
    BY DEF AtRest, OnItsWay, StillToSend
  <2> QED BY <2>1 DEF HubInv, NothingForgotten
<1> QED BY <1>1, HubInvariant, PTL

\* Seen through the history of its log, the hub issues when it numbers and
\* hands over when it delivers.
Authors == [n \in 1..Len(log) |-> log[n].by]

LEMMA HubStepIsFeedStep ==
  ASSUME HubInv, [StageNext]_transitionVars
  PROVE  [TransitionFeed!FeedNext]_<<Authors, handed>>
<1> USE DEF Authors
<1>1. log' = log => Authors' = Authors
  OBVIOUS
<1>2. ASSUME NEW r \in Reporters, Consider(r)
      PROVE  UNCHANGED <<Authors, handed>> \/ TransitionFeed!Issue(r)
  <2>1. CASE log' = log
    BY <1>1, <1>2, <2>1 DEF Consider, channelVars
  <2>2. CASE log' # log
    <3> DEFINE new == [key |-> reading[r][1], no |-> number[reading[r][1]] + 1,
                       previous |-> last[reading[r][1]],
                       current |-> reading[r][2], by |-> r]
    <3>1. log' = Append(log, new) /\ UNCHANGED handed
      BY <1>2, <2>2 DEF Consider, detectorVars, channelVars
    <3>2. /\ log \in Seq(StageEvent) /\ new.by = r
          /\ reading[r] \in Keys \X StageStates
      BY <1>2 DEF HubInv, HubTypeInv, EventsAreLogged, Consider
    <3>3. new \in StageEvent
      BY <3>2 DEF HubInv, HubTypeInv, StageEvent
    <3> HIDE DEF new
    <3>4. /\ Len(log) \in Nat /\ Len(log') = Len(log) + 1
          /\ log'[Len(log) + 1] = new
          /\ \A n \in 1..Len(log) : log'[n] = log[n]
      BY <3>1, <3>2, <3>3
    <3>5. Authors \in Seq(Reporters) /\ Len(Authors) = Len(log)
      <4>1. \A n \in 1..Len(log) : log[n] \in StageEvent
        BY <3>2
      <4>2. \A n \in 1..Len(log) : log[n].by \in Reporters
        BY <4>1 DEF StageEvent
      <4> QED BY <3>4, <4>2
    <3>6. /\ Authors' \in Seq(Reporters) /\ Len(Authors') = Len(log) + 1
          /\ \A n \in 1..Len(log) : Authors'[n] = log[n].by
          /\ Authors'[Len(log) + 1] = r
      <4>1. \A n \in 1..Len(log') : log'[n].by \in Reporters
        <5>1. \A n \in 1..Len(log') : log'[n] \in StageEvent
          BY <3>1, <3>2, <3>3
        <5> QED BY <5>1 DEF StageEvent
      <4>2. Authors' = [n \in 1..(Len(log) + 1) |-> log'[n].by]
        BY <3>4
      <4>3. Authors' \in Seq(Reporters) /\ Len(Authors') = Len(log) + 1
        BY <3>4, <4>1, <4>2
      <4> QED BY <3>2, <3>4, <4>2, <4>3
    <3>7. /\ Append(Authors, r) \in Seq(Reporters)
          /\ Len(Append(Authors, r)) = Len(log) + 1
          /\ \A n \in 1..Len(log) : Append(Authors, r)[n] = log[n].by
          /\ Append(Authors, r)[Len(log) + 1] = r
      <4> DEFINE a == Authors
      <4>1. \A n \in 1..Len(log) : a[n] = log[n].by
        OBVIOUS
      <4>2. a \in Seq(Reporters) /\ Len(a) = Len(log)
        BY <3>5
      <4> HIDE DEF a, Authors
      <4>3. /\ Append(a, r) \in Seq(Reporters) /\ Len(Append(a, r)) = Len(log) + 1
            /\ \A n \in 1..Len(log) : Append(a, r)[n] = a[n]
            /\ Append(a, r)[Len(log) + 1] = r
        BY <3>4, <4>2
      <4> QED BY <4>1, <4>3 DEF a
    <3>8. Authors' = Append(Authors, r)
      <4>1. \A n \in 1..(Len(log) + 1) : n \in 1..Len(log) \/ n = Len(log) + 1
        BY <3>4
      <4> HIDE DEF Authors
      <4>2. \A n \in 1..Len(Authors') : Authors'[n] = Append(Authors, r)[n]
        BY <3>6, <3>7, <4>1
      <4> QED BY <3>6, <3>7, <4>2, SeqEqual
    <3> QED BY <3>1, <3>8 DEF TransitionFeed!Issue
  <2> QED BY <2>1, <2>2
<1>3. ASSUME NEW r \in Reporters, NEW s \in Subscribers, Deliver(r, s)
      PROVE  TransitionFeed!Hand(s, event[r]) /\ event[r] \in 1..Len(Authors)
  <2>1. /\ event[r] \in 1..Len(log) /\ log[event[r]].by = r
        /\ \A k \in 1..Len(handed[s]) :
             /\ handed[s][k] \in 1..Len(log)
             /\ log[handed[s][k]].by = r => handed[s][k] < event[r]
    BY <1>3 DEF HubInv, EventsAreLogged, EventsAreNewer, HandedIsLogged, StillToSend,
       HubTypeInv, Deliver, Reaches
  <2>2. TransitionFeed!FollowsItsPublisher(s, event[r])
    BY <2>1 DEF TransitionFeed!FollowsItsPublisher
  <2>3. Len(Authors) = Len(log)
    <3>1. Len(log) \in Nat
      BY DEF HubInv, HubTypeInv
    <3> QED BY <3>1
  <2> QED BY <1>1, <1>3, <2>1, <2>2, <2>3 DEF Deliver, Reaches, detectorVars, TransitionFeed!Hand
<1>4. ASSUME NEW r \in Reporters, NEW s \in Subscribers,
             Drop(r, s) \/ SendOnClosed(r, s)
      PROVE  UNCHANGED <<log, handed>>
  BY <1>4 DEF Drop, SendOnClosed, Reaches, detectorVars
<1>5. ASSUME NEW r \in Reporters, Snapshot(r) \/ EndPublish(r)
      PROVE  UNCHANGED <<log, handed>>
  BY <1>5 DEF Snapshot, EndPublish, detectorVars, channelVars
<1>6. ASSUME NEW r \in Reporters, Report(r)
      PROVE  [TransitionFeed!FeedNext]_<<Authors, handed>>
  BY <1>1, <1>2, <1>3, <1>4, <1>5, <1>6 DEF Report, TransitionFeed!FeedNext
<1>7. ASSUME NEW r \in Reporters, NEW k \in Keys, ReadState(r, k)
      PROVE  UNCHANGED <<log, handed>>
  BY <1>7 DEF ReadState, detectorVars, channelVars
<1>8. ASSUME NEW k \in Keys, StageChanges(k)
      PROVE  UNCHANGED <<log, handed>>
  BY <1>8 DEF StageChanges, detectorVars, channelVars
<1>9. ASSUME NEW s \in Subscribers,
             Subscribe(s) \/ Take(s) \/ Unsubscribe(s) \/ CloseChannel(s)
      PROVE  UNCHANGED <<log, handed>>
  BY <1>9 DEF Subscribe, Take, Unsubscribe, CloseChannel, detectorVars, channelVars
<1>10. CASE CloseHub \/ UNCHANGED transitionVars
  BY <1>10 DEF CloseHub, transitionVars, detectorVars, channelVars
<1> HIDE DEF Authors
<1> QED
  BY <1>1, <1>6, <1>7, <1>8, <1>9, <1>10 DEF StageNext

\* The hub's channels keep the promise of a feed, although every reporter works
\* on an event, a snapshot and channels that others change (bus.go:93-116).
THEOREM TransitionHubIsAFeed == StageSpec => TransitionsAreAFeed
<1>1. StageInit => TransitionFeed!FeedInit
  <2>1. ASSUME StageInit PROVE [n \in 1..Len(log) |-> log[n].by] = <<>>
    BY <2>1 DEF StageInit
  <2> QED BY <2>1 DEF StageInit, TransitionFeed!FeedInit
<1>2. HubInv /\ [StageNext]_transitionVars
        => [TransitionFeed!FeedNext]_(TransitionFeed!feedVars)
  BY HubStepIsFeedStep DEF Authors, TransitionFeed!feedVars
<1> QED
  BY <1>1, <1>2, HubInvariant, PTL DEF StageSpec, TransitionsAreAFeed, TransitionFeed!FeedSpec
=============================================================================
