--------------------------- MODULE OnlineAdmission ---------------------------
(***************************************************************************)
(* A bar's way from the feed satellite into DSE_JEH: the satellite's       *)
(* window and its bounded fan-out queue, StreamBars, which first sends the *)
(* windows and then the queue, the consumer that dials again after a       *)
(* broken stream, the mapper that numbers what it receives, and admission. *)
(*                                                                         *)
(* The window keeps one bar per minute and replaces it by a better one: an *)
(* unfinished bar by a finished one, a backfilled bar by a live one.  For  *)
(* the consumer a bar is its snapshot: symbol, minute and reading.         *)
(***************************************************************************)
EXTENDS Admission, Sequences, SequencesExt

CONSTANTS
  Symbols,       \* the symbols both sides are configured with
  LiveBars,      \* bars ("b") and updated bars ("u") the live source can bring
  FilledBars,    \* bars the historical source can bring
  Producers,     \* the satellite's goroutines that accept bars
  Live,          \* the one among them that runs the live source
  WindowLimit,   \* bars a window keeps
  Queue,         \* bars the subscription's channel holds
  FinalizedOnly, \* whether the stream request asks for finished bars only
  MaxBars,       \* MaxBars of the stream request, 0 for no limit
  Attempts       \* streams the consumer opens before it gives up

Bar == LiveBars \union FilledBars
Event(bar) == [symbol |-> bar.symbol, minute |-> bar.minute, reading |-> bar.reading]

ASSUME OnlineAssumption ==
  /\ Live \in Producers
  /\ {WindowLimit, Queue, Attempts} \subseteq Nat \ {0} /\ MaxBars \in Nat
  /\ FinalizedOnly \in BOOLEAN
  /\ \A bar \in Bar : bar.symbol \in Symbols /\ bar.minute \in Nat \ {0}
  /\ \A bar \in LiveBars : bar.kind \in {"bar", "update"}
  /\ \A bar \in FilledBars : bar.kind = "filled"

VARIABLES
  window,      \* the bars in the window, per symbol, minutes ascending
  accepting,   \* per producer: the bar it added and has not fanned out yet
  queue,       \* the subscription's channel
  link,        \* "idle", "subscribed", "live", "waiting" or "ended"
  attempt,     \* the consumer's loop counter
  toCatchUp,   \* symbols whose windows StreamBars has not read yet
  sending,     \* the rest of the window it is sending
  sent,        \* bars sent on this stream
  mapped,      \* Mapper.sequences
  admitted,    \* Admitter.entities
  rejected,    \* events not admitted, per symbol
  lossy,       \* history: symbols of which the full queue dropped a bar
  newest,      \* history: per symbol the latest minute that was accepted
  disturbed    \* history: symbols a bar of which was accepted out of order,
               \* unfinished or by another than Live since the stream began

feedSide == <<newest, window, accepting, queue, lossy, disturbed>>
streamSide == <<link, attempt, toCatchUp, sending, sent>>
admissionSide == <<mapped, admitted, rejected>>
onlineVars == <<feedSide, streamSide, admissionSide>>

OnlineInit ==
  /\ newest = [s \in Symbols |-> 0] /\ window = [s \in Symbols |-> <<>>]
  /\ accepting = [p \in Producers |-> <<>>] /\ queue = <<>>
  /\ link = "idle" /\ attempt = 0 /\ toCatchUp = {} /\ sending = <<>> /\ sent = 0
  /\ mapped = [s \in Symbols |-> 0] /\ rejected = [s \in Symbols |-> 0]
  /\ admitted = [s \in Symbols |-> NewEntityState]
  /\ lossy = {} /\ disturbed = {}

-----------------------------------------------------------------------------
(* The satellite: the window first, the subscription after it.             *)

IsFinal(bar) == bar.kind # "update"
Passes(bar) == FinalizedOnly => IsFinal(bar)

\* A live bar is complete when it is final: "u" messages are partial.
ShouldReplace(existing, incoming) ==
  /\ existing.reading # incoming.reading
  /\ ~(IsFinal(existing) /\ ~IsFinal(incoming))
  /\ ~(existing.kind = "bar" /\ incoming.kind = "filled")

\* The place of a bar whose minute is not there, and the window with it: the
\* first of too many goes, be it the new one.
FitsBehind(bars, k, bar) ==
  \A i \in DOMAIN bars : IF i <= k THEN bars[i].minute < bar.minute
                         ELSE bar.minute < bars[i].minute
Inserted(bars, k, bar) ==
  LET all == InsertAt(bars, k + 1, bar)
  IN  IF Len(all) > WindowLimit THEN Tail(all) ELSE all

\* WindowStore.Add, as far as it takes the bar.
AddToWindow(bar) ==
  LET s == bar.symbol IN
    \/ \E i \in DOMAIN window[s] :
         /\ window[s][i].minute = bar.minute /\ ShouldReplace(window[s][i], bar)
         /\ window' = [window EXCEPT ![s] = [@ EXCEPT ![i] = bar]]
    \/ \E k \in 0..Len(window[s]) :
         /\ FitsBehind(window[s], k, bar)
         /\ window' = [window EXCEPT ![s] = Inserted(@, k, bar)]

InOrder(p, bar) == p = Live /\ Passes(bar) /\ newest[bar.symbol] < bar.minute

Accept(p, bar) ==
  /\ accepting[p] = <<>>
  /\ AddToWindow(bar)
  /\ accepting' = [accepting EXCEPT ![p] = <<bar>>]
  /\ newest' = [newest EXCEPT ![bar.symbol] = IF @ < bar.minute THEN bar.minute ELSE @]
  /\ disturbed' = IF InOrder(p, bar) THEN disturbed ELSE disturbed \union {bar.symbol}
  /\ UNCHANGED <<queue, lossy, streamSide, admissionSide>>

\* The live source brings any bar at any time: minutes late or twice, when old
\* readers are still at work or a bar is updated.
AcceptLive == \E bar \in LiveBars : Accept(Live, bar)

\* GapFill by the recovery goroutine or by a request: any minute, also one that
\* was evicted, or is newer than what the live source brought.
AcceptBackfill(p) == p # Live /\ \E bar \in FilledBars : Accept(p, bar)

\* Faulty variant: the subscription is made after the windows were sent.
SubscribedWhenLive == link = "live"

\* fanout: what the stream wants is queued; a full channel gives up its oldest
\* bar for it.
Subscribed == link \in {"subscribed", "live"}
FanOut(p) ==
  /\ accepting[p] # <<>>
  /\ accepting' = [accepting EXCEPT ![p] = <<>>]
  /\ \/ ~(Subscribed /\ Passes(Head(accepting[p]))) /\ UNCHANGED <<queue, lossy>>
     \/ /\ Subscribed /\ Passes(Head(accepting[p])) /\ Len(queue) < Queue
        /\ queue' = queue \o accepting[p]
        /\ UNCHANGED lossy
     \/ /\ Subscribed /\ Passes(Head(accepting[p])) /\ Len(queue) >= Queue
        /\ queue' = Tail(queue) \o accepting[p]
        /\ lossy' = lossy \union {Head(queue).symbol}
  /\ UNCHANGED <<newest, window, disturbed, streamSide, admissionSide>>

-----------------------------------------------------------------------------
(* StreamBars and the consumer at its other end.                           *)

\* StreamBars subscribes before it reads a window.  What is not fanned out yet
\* will come to the new stream.
Pending(s) == \E p \in Producers : accepting[p] # <<>> /\ Head(accepting[p]).symbol = s
OpenStream ==
  /\ link = "idle"
  /\ link' = "subscribed" /\ toCatchUp' = Symbols /\ sending' = <<>> /\ sent' = 0
  /\ disturbed' = {s \in Symbols : Pending(s)}
  /\ UNCHANGED <<attempt, newest, window, accepting, queue, lossy, admissionSide>>

ReadWindow(s) ==
  /\ link = "subscribed" /\ sending = <<>> /\ s \in toCatchUp
  /\ sending' = window[s]
  /\ toCatchUp' = toCatchUp \ {s}
  /\ UNCHANGED <<link, attempt, sent, feedSide, admissionSide>>

CaughtUp ==
  /\ link = "subscribed" /\ sending = <<>> /\ toCatchUp = {}
  /\ link' = "live"
  /\ UNCHANGED <<attempt, toCatchUp, sending, sent, feedSide, admissionSide>>

\* Mapper.Map, then AdmitBar: the number is taken whatever comes of it.
Receive(event) ==
  LET s == event.symbol  no == mapped[s] + 1 IN
    /\ mapped' = [mapped EXCEPT ![s] = no]
    /\ admitted' = [admitted EXCEPT ![s] = Admit(@, no, event)]
    /\ rejected' = [rejected EXCEPT ![s] =
                      @ + (IF Verdict(admitted[s], no, event) = "ADMITTED" THEN 0 ELSE 1)]

\* A request with a limit ends after as many bars: the consumer sees EOF.
CountSent ==
  IF MaxBars = 0 THEN UNCHANGED <<sent, link>>
  ELSE /\ sent' = sent + 1
       /\ link' = IF sent + 1 >= MaxBars THEN "ended" ELSE link

SkipUnfinished ==
  /\ link = "subscribed" /\ sending # <<>> /\ ~Passes(Head(sending))
  /\ sending' = Tail(sending)
  /\ UNCHANGED <<link, attempt, toCatchUp, sent, feedSide, admissionSide>>

SendCatchUp ==
  /\ link = "subscribed" /\ sending # <<>> /\ Passes(Head(sending))
  /\ Receive(Event(Head(sending))) /\ CountSent
  /\ sending' = Tail(sending)
  /\ UNCHANGED <<attempt, toCatchUp, feedSide>>

\* Faulty variant: the queue is served before the windows are through.
SendLiveEarly ==
  /\ link \in {"subscribed", "live"} /\ queue # <<>>
  /\ Receive(Event(Head(queue))) /\ CountSent
  /\ queue' = Tail(queue)
  /\ UNCHANGED <<attempt, toCatchUp, sending, newest, window, accepting, lossy, disturbed>>

SendLive ==
  /\ link = "live" /\ queue # <<>>
  /\ Receive(Event(Head(queue))) /\ CountSent
  /\ queue' = Tail(queue)
  /\ UNCHANGED <<attempt, toCatchUp, sending, newest, window, accepting, lossy, disturbed>>

\* The stream cannot be opened, or breaks: what the subscription still holds
\* is gone.  The fifth failure ends the consumer.
StreamBreaks ==
  /\ link \in {"idle", "subscribed", "live"}
  /\ link' = IF attempt = Attempts - 1 THEN "ended" ELSE "waiting"
  /\ queue' = <<>> /\ sending' = <<>> /\ toCatchUp' = {}
  /\ UNCHANGED <<attempt, sent, newest, window, accepting, lossy, disturbed, admissionSide>>

BackoffEnds ==
  /\ link = "waiting"
  /\ link' = "idle" /\ attempt' = attempt + 1
  /\ UNCHANGED <<toCatchUp, sending, sent, feedSide, admissionSide>>

\* The run is cancelled, or processing a bar has failed.
ConsumerStops ==
  /\ link # "ended"
  /\ link' = "ended" /\ queue' = <<>> /\ sending' = <<>> /\ toCatchUp' = {}
  /\ UNCHANGED <<attempt, sent, newest, window, accepting, lossy, disturbed, admissionSide>>

OnlineNext ==
  \/ AcceptLive \/ \E p \in Producers : AcceptBackfill(p) \/ FanOut(p)
  \/ OpenStream \/ \E s \in Symbols : ReadWindow(s)
  \/ CaughtUp \/ SkipUnfinished \/ SendCatchUp \/ SendLive
  \/ StreamBreaks \/ BackoffEnds \/ ConsumerStops

OnlineSpec == OnlineInit /\ [][OnlineNext]_onlineVars
-----------------------------------------------------------------------------
(* Properties.                                                             *)

\* What analysis calls contiguous: the admitted events of a symbol carry the
\* numbers 1 to lastSequence, each once, and no event is admitted twice
\* (Admitter.Admit behind a mapper that never looks at its answer).
AdmissionIsContiguous ==
  \A s \in Symbols :
    /\ {r.no : r \in admitted[s].identities} = 1..admitted[s].lastSequence
    /\ \A q, r \in admitted[s].identities : q.no = r.no <=> q.event = r.event

\* One rejection silences a symbol: the mapper's next number never fits again,
\* so a bar that a reconnect repeats ends the symbol's analysis for the run
\* (Mapper.Map counts before Admit decides).
RejectionIsFinal ==
  [][\A s \in Symbols : rejected[s] > 0 => admitted'[s] = admitted[s]]_onlineVars

AdmittedMinute(s, no) ==
  (CHOOSE r \in admitted[s].identities : r.no = no).event.minute
AdmittedMinutes(s) == {r.event.minute : r \in admitted[s].identities}

\* Admission goes by number and never looks at the clock.  As long as the first
\* stream lasts, the minutes of the admitted bars of a symbol ascend all the
\* same, provided that since it began each new bar of the symbol was a finished
\* one from the live source and later than all before it, whatever was filled,
\* updated or late before (StreamBars empties the windows before it turns to
\* the queue).
FirstStreamAscends ==
  attempt = 0 => \A s \in Symbols \ disturbed :
    \A no \in 2..admitted[s].lastSequence :
      AdmittedMinute(s, no - 1) < AdmittedMinute(s, no)

\* On the same condition only a full queue makes a hole: between two admitted
\* bars of a symbol lies no bar that the stream wants and the satellite still
\* keeps (StreamBars subscribes before it reads the window).
HolesComeFromTheQueue ==
  attempt = 0 => \A s \in Symbols \ (lossy \union disturbed) :
    \A bar \in Range(window[s]) :
      Passes(bar) /\ (\E a, b \in AdmittedMinutes(s) : a < bar.minute /\ bar.minute < b) =>
        bar.minute \in AdmittedMinutes(s)
=============================================================================
