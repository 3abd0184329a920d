----------------------------- MODULE EvidenceBus -----------------------------
(***************************************************************************)
(* The runtime evidence bus of DSE_JEH and its gRPC streams.  Publish      *)
(* takes the next publication number before it takes the read lock, then   *)
(* offers the envelope to one subscriber after the other; an offer to a    *)
(* full channel is dropped without a trace.  Two goroutines publish: the   *)
(* one that runs the source and the main goroutine.                        *)
(***************************************************************************)
EXTENDS Naturals, Sequences, FiniteSets

CONSTANTS
  BusPublishers,    \* the goroutines that call Publish
  Streams,          \* the SubscribeRuntimeEvidence calls of a run
  StreamBuffer,     \* SubscriberBuffer: capacity of a subscriber's channel
  MaxPublications   \* bound of the model: publications of a run

ASSUME BusAssumption == StreamBuffer \in Nat /\ MaxPublications \in Nat

VARIABLES
  sequence,     \* the atomic counter of publications
  publishing,   \* per publisher: "idle", "numbered" or "sending"
  envelope,     \* per publisher: the number of the envelope it publishes
  offering,     \* per publisher: subscribers its loop has not reached
  subscribed,   \* the registered subscribers
  served,       \* streams whose call has been accepted
  channel,      \* per stream: the envelopes in its channel
  issuedBy,     \* history: who took each number
  received      \* history: the numbers put into each channel

publisherVars == <<sequence, publishing, envelope, offering, issuedBy>>
streamVars == <<subscribed, served>>
busVars == <<publisherVars, streamVars, channel, received>>

BusInit ==
  /\ sequence = 0
  /\ publishing = [p \in BusPublishers |-> "idle"]
  /\ envelope = [p \in BusPublishers |-> 0]
  /\ offering = [p \in BusPublishers |-> {}]
  /\ subscribed = {} /\ served = {}
  /\ channel = [s \in Streams |-> <<>>]
  /\ issuedBy = <<>>
  /\ received = [s \in Streams |-> <<>>]

\* sequence.Add(1): counting and reading in one step, before the lock.
TakeNumber(p) ==
  /\ publishing[p] = "idle" /\ sequence < MaxPublications
  /\ sequence' = sequence + 1
  /\ envelope' = [envelope EXCEPT ![p] = sequence + 1]
  /\ issuedBy' = Append(issuedBy, p)
  /\ publishing' = [publishing EXCEPT ![p] = "numbered"]
  /\ UNCHANGED <<offering, streamVars, channel, received>>

\* Faulty variant: the counter is read again when the envelope is filled in,
\* after another publisher may have counted too.
ReadLockReadingNumber(p) ==
  /\ publishing[p] = "numbered"
  /\ publishing' = [publishing EXCEPT ![p] = "sending"]
  /\ envelope' = [envelope EXCEPT ![p] = sequence]
  /\ offering' = [offering EXCEPT ![p] = subscribed]
  /\ UNCHANGED <<sequence, issuedBy, streamVars, channel, received>>

\* mu.RLock: the loop goes over the subscribers registered at this moment.
ReadLock(p) ==
  /\ publishing[p] = "numbered"
  /\ publishing' = [publishing EXCEPT ![p] = "sending"]
  /\ offering' = [offering EXCEPT ![p] = subscribed]
  /\ UNCHANGED <<sequence, envelope, issuedBy, streamVars, channel, received>>

Offer(p, s) ==
  /\ s \in offering[p]
  /\ offering' = [offering EXCEPT ![p] = @ \ {s}]
  /\ \/ /\ Len(channel[s]) < StreamBuffer
        /\ channel' = [channel EXCEPT ![s] = Append(@, envelope[p])]
        /\ received' = [received EXCEPT ![s] = Append(@, envelope[p])]
     \/ /\ Len(channel[s]) >= StreamBuffer
        /\ UNCHANGED <<channel, received>>
  /\ UNCHANGED <<sequence, publishing, envelope, issuedBy, streamVars>>

ReadUnlock(p) ==
  /\ publishing[p] = "sending" /\ offering[p] = {}
  /\ publishing' = [publishing EXCEPT ![p] = "idle"]
  /\ envelope' = [envelope EXCEPT ![p] = 0]
  /\ UNCHANGED <<sequence, offering, issuedBy, streamVars, channel, received>>

\* The write lock waits for every publisher that holds the read lock.
WriteLockFree == \A p \in BusPublishers : publishing[p] # "sending"

SubscribeRuntimeEvidence(s) ==
  /\ s \notin served /\ WriteLockFree
  /\ served' = served \union {s}
  /\ subscribed' = subscribed \union {s}
  /\ UNCHANGED <<publisherVars, channel, received>>

\* The service sends the oldest envelope on its stream.
StreamSends(s) ==
  /\ s \in subscribed /\ channel[s] # <<>>
  /\ channel' = [channel EXCEPT ![s] = Tail(@)]
  /\ UNCHANGED <<publisherVars, streamVars, received>>

\* The stream's context is done or its Send fails: what the channel still
\* holds is never sent.
StreamEnds(s) ==
  /\ s \in subscribed /\ WriteLockFree
  /\ subscribed' = subscribed \ {s}
  /\ channel' = [channel EXCEPT ![s] = <<>>]
  /\ UNCHANGED <<publisherVars, served, received>>

BusNext ==
  \/ \E p \in BusPublishers :
       TakeNumber(p) \/ ReadLock(p) \/ ReadUnlock(p) \/ \E s \in Streams : Offer(p, s)
  \/ \E s \in Streams : SubscribeRuntimeEvidence(s) \/ StreamSends(s) \/ StreamEnds(s)

BusSpec == BusInit /\ [][BusNext]_busVars
-----------------------------------------------------------------------------
(* Properties.                                                             *)

\* Two publishers can be overtaken between number and lock, and a full
\* channel makes a hole, but a stream never gets a number twice, nor the
\* evidence of one goroutine out of order (Bus.Publish).
EvidenceFeed == INSTANCE PublishedFeed WITH
  Publisher <- BusPublishers, Subscriber <- Streams, issued <- issuedBy, got <- received
EvidenceIsAFeed == EvidenceFeed!FeedSpec
=============================================================================
