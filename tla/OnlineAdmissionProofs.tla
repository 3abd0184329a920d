------------------------ MODULE OnlineAdmissionProofs ------------------------
(***************************************************************************)
(* Theorems about the numbers of the online input.  Whatever the satellite *)
(* sends, in whatever order and how often, for any windows, queues and     *)
(* reconnects: the mapper counts, admission follows it one by one until    *)
(* the first bar it does not admit, and has lost step for ever after it.   *)
(*                                                                         *)
(* On the first stream, and where only the live source has brought bars,   *)
(* finished and in order, since it began, the admitted minutes ascend and  *)
(* only the full queue loses a bar: the inductive invariant StreamInv      *)
(* relates the window, the queue, the rest of the window that is sent and  *)
(* the admitted bars.  It needs a queue shorter than the window (2 or 16,  *)
(* and 64, in the satellite's configuration), or a queued bar may leave    *)
(* the window before a stream has read it.                                 *)
(***************************************************************************)
EXTENDS OnlineAdmission, FiniteSetTheorems, SequenceTheorems, TLAPS

\* An event is admitted under the next number, and neither it nor the number
\* was there before (Admitter.Admit).
LEMMA AdmittedIsNext ==
  ASSUME NEW state, NEW no \in Nat, NEW event, state.lastSequence \in Nat,
         Verdict(state, no, event) = "ADMITTED"
  PROVE  /\ no = state.lastSequence + 1
         /\ ~SequenceTaken(state, no) /\ ~EventSeen(state, event)
BY DEF Verdict

\* The next number is refused only to an event that was admitted before.
LEMMA NextIsAdmitted ==
  ASSUME NEW state, NEW no \in Nat, NEW event, state.lastSequence \in Nat,
         no = state.lastSequence + 1, ~SequenceTaken(state, no), ~EventSeen(state, event)
  PROVE  Verdict(state, no, event) = "ADMITTED"
BY DEF Verdict

Contiguous(state) ==
  /\ {r.no : r \in state.identities} = 1..state.lastSequence
  /\ \A q, r \in state.identities : q.no = r.no <=> q.event = r.event

LEMMA AdmitKeepsContiguous ==
  ASSUME NEW state, NEW no \in Nat, NEW event, state.lastSequence \in Nat, Contiguous(state)
  PROVE  Contiguous(Admit(state, no, event))
<1>1. CASE Verdict(state, no, event) # "ADMITTED"
  BY <1>1 DEF Admit
<1>2. CASE Verdict(state, no, event) = "ADMITTED"
  <2> DEFINE i == Identity(no, event)
             new == [lastSequence |-> no, identities |-> state.identities \union {i}]
  <2>1. Admit(state, no, event) = new
    BY <1>2 DEF Admit
  <2>2. /\ no = state.lastSequence + 1
        /\ \A r \in state.identities : r.no # no /\ r.event # event
    BY <1>2, AdmittedIsNext DEF SequenceTaken, EventSeen
  <2>3. i.no = no /\ i.event = event
    BY DEF Identity
  <2>4. new.identities = state.identities \union {i} /\ new.lastSequence = no
    OBVIOUS
  <2> HIDE DEF i, new
  <2>5. {r.no : r \in new.identities} = 1..new.lastSequence
    <3>1. {r.no : r \in new.identities} = {r.no : r \in state.identities} \union {no}
      BY <2>3, <2>4
    <3>2. 1..no = 1..state.lastSequence \union {no}
      BY <2>2
    <3> QED BY <2>4, <3>1, <3>2 DEF Contiguous
  <2>6. \A q, r \in new.identities : q.no = r.no <=> q.event = r.event
    BY <2>2, <2>3, <2>4 DEF Contiguous
  <2> QED BY <2>1, <2>5, <2>6 DEF Contiguous
<1> QED BY <1>1, <1>2

-----------------------------------------------------------------------------
(* The inductive invariant: mapper and admission are in step exactly while *)
(* nothing was rejected.                                                   *)

InStep(s) ==
  /\ mapped[s] \in Nat /\ rejected[s] \in Nat /\ admitted[s].lastSequence \in Nat
  /\ Contiguous(admitted[s])
  /\ rejected[s] = 0 => mapped[s] = admitted[s].lastSequence
  /\ rejected[s] > 0 => mapped[s] > admitted[s].lastSequence

AdmissionInv ==
  /\ mapped = [s \in Symbols |-> mapped[s]]
  /\ rejected = [s \in Symbols |-> rejected[s]]
  /\ admitted = [s \in Symbols |-> admitted[s]]
  /\ \A s \in Symbols : InStep(s)

LEMMA AdmissionInitInv == OnlineInit => AdmissionInv
<1> SUFFICES ASSUME OnlineInit PROVE AdmissionInv
  OBVIOUS
<1>1. Contiguous(NewEntityState) /\ NewEntityState.lastSequence = 0
  BY DEF Contiguous, NewEntityState
<1> QED BY <1>1 DEF OnlineInit, AdmissionInv, InStep

\* A bar is received: its own symbol is numbered and judged, no other.
LEMMA ReceiveInv ==
  ASSUME AdmissionInv, NEW bar, Receive(bar)
  PROVE  /\ AdmissionInv'
         /\ \A s \in Symbols : rejected[s] > 0 => admitted'[s] = admitted[s]
<1> DEFINE b == bar.symbol
           no == mapped[b] + 1
           verdict == Verdict(admitted[b], no, bar)
<1>1. /\ mapped' = [mapped EXCEPT ![b] = no]
      /\ admitted' = [admitted EXCEPT ![b] = Admit(@, no, bar)]
      /\ rejected' = [rejected EXCEPT ![b] = @ + (IF verdict = "ADMITTED" THEN 0 ELSE 1)]
  BY DEF Receive
<1> HIDE DEF b, no, verdict
<1>2. /\ mapped' = [s \in Symbols |-> mapped'[s]]
      /\ rejected' = [s \in Symbols |-> rejected'[s]]
      /\ admitted' = [s \in Symbols |-> admitted'[s]]
  BY <1>1 DEF AdmissionInv
<1>3. ASSUME NEW s \in Symbols, s # b
      PROVE  UNCHANGED <<mapped[s], rejected[s], admitted[s]>>
  BY <1>1, <1>3 DEF AdmissionInv
<1>4. ASSUME b \in Symbols
      PROVE  InStep(b)' /\ (rejected[b] > 0 => admitted'[b] = admitted[b])
  <2>1. /\ mapped'[b] = no /\ admitted'[b] = Admit(admitted[b], no, bar)
        /\ rejected'[b] = rejected[b] + (IF verdict = "ADMITTED" THEN 0 ELSE 1)
    BY <1>1, <1>4 DEF AdmissionInv
  <2>2. InStep(b) /\ no \in Nat /\ no = mapped[b] + 1
    BY <1>4 DEF AdmissionInv, InStep, no
  <2>3. Contiguous(admitted'[b])
    BY <2>1, <2>2, AdmitKeepsContiguous DEF InStep
  <2>4. CASE verdict = "ADMITTED"
    <3>1. no = admitted[b].lastSequence + 1
      BY <2>2, <2>4, AdmittedIsNext DEF verdict, InStep
    <3>2. rejected[b] = 0 /\ rejected'[b] = 0
      BY <2>1, <2>2, <2>4, <3>1 DEF InStep
    <3>3. admitted'[b].lastSequence = no
      BY <2>1, <2>4 DEF Admit, verdict
    <3> QED BY <2>1, <2>2, <2>3, <3>2, <3>3 DEF InStep
  <2>5. CASE verdict # "ADMITTED"
    <3>1. admitted'[b] = admitted[b] /\ rejected'[b] = rejected[b] + 1
      BY <2>1, <2>5 DEF Admit, verdict
    <3> QED BY <2>1, <2>2, <2>3, <3>1 DEF InStep
  <2> QED BY <2>4, <2>5
<1>5. \A s \in Symbols : InStep(s)'
  BY <1>3, <1>4 DEF AdmissionInv, InStep
<1> QED BY <1>2, <1>3, <1>4, <1>5 DEF AdmissionInv

\* Only StreamBars sending a bar touches mapper and admission.
LEMMA OnlyReceivingCounts ==
  ASSUME [OnlineNext]_onlineVars
  PROVE  UNCHANGED admissionSide \/ \E bar : Receive(bar)
<1>1. CASE SendCatchUp \/ SendLive
  BY <1>1 DEF SendCatchUp, SendLive
<1>2. CASE AcceptLive
  BY <1>2 DEF AcceptLive, Accept
<1>3. ASSUME NEW p \in Producers, AcceptBackfill(p) PROVE UNCHANGED admissionSide
  BY <1>3 DEF AcceptBackfill, Accept
<1>4. ASSUME NEW p \in Producers, FanOut(p) PROVE UNCHANGED admissionSide
  BY <1>4 DEF FanOut
<1>5. ASSUME NEW s \in Symbols, ReadWindow(s) PROVE UNCHANGED admissionSide
  BY <1>5 DEF ReadWindow
<1>6. CASE OpenStream \/ CaughtUp \/ SkipUnfinished \/ StreamBreaks \/ BackoffEnds
              \/ ConsumerStops
  BY <1>6 DEF OpenStream, CaughtUp, SkipUnfinished, StreamBreaks, BackoffEnds, ConsumerStops
<1>7. CASE UNCHANGED onlineVars
  BY <1>7 DEF onlineVars
<1> QED
  BY <1>1, <1>2, <1>3, <1>4, <1>5, <1>6, <1>7 DEF OnlineNext

LEMMA OnlineStepInv ==
  ASSUME AdmissionInv, [OnlineNext]_onlineVars
  PROVE  /\ AdmissionInv'
         /\ \A s \in Symbols : rejected[s] > 0 => admitted'[s] = admitted[s]
<1>1. CASE UNCHANGED admissionSide
  BY <1>1 DEF AdmissionInv, InStep, admissionSide
<1>2. CASE \E bar : Receive(bar)
  BY <1>2, ReceiveInv
<1> QED BY <1>1, <1>2, OnlyReceivingCounts

LEMMA OnlineInvariant == OnlineSpec => []AdmissionInv
BY AdmissionInitInv, OnlineStepInv, PTL DEF OnlineSpec

\* The admitted events of a symbol are numbered without a hole and without a
\* repetition, however often bars come again.
THEOREM AdmissionAlwaysContiguous == OnlineSpec => []AdmissionIsContiguous
<1>1. AdmissionInv => AdmissionIsContiguous
  BY DEF AdmissionInv, InStep, Contiguous, AdmissionIsContiguous
<1> QED BY <1>1, OnlineInvariant, PTL

\* After its first rejection nothing of a symbol is admitted any more: the
\* mapper is ahead of admission and never waits for it.
THEOREM RejectionSilences == OnlineSpec => RejectionIsFinal
BY OnlineInvariant, OnlineStepInv, PTL DEF OnlineSpec, RejectionIsFinal

\* Until then nothing is missing either: as long as no bar of a symbol was
\* rejected, every bar the mapper has numbered is admitted.
NumberedIsAdmitted ==
  \A s \in Symbols : rejected[s] = 0 =>
    {r.no : r \in admitted[s].identities} = 1..mapped[s]

THEOREM NothingMissingBeforeRejection == OnlineSpec => []NumberedIsAdmitted
<1>1. AdmissionInv => NumberedIsAdmitted
  BY DEF AdmissionInv, InStep, Contiguous, NumberedIsAdmitted
<1> QED BY <1>1, OnlineInvariant, PTL

\* And what is rejected first is a bar that was admitted before: a repetition
\* by a reconnect or a gap fill, never a bar the pipeline has not seen.
FirstRejectionIsARepetition ==
  [][\A s \in Symbols : rejected[s] = 0 /\ rejected'[s] > 0 =>
       \E r \in admitted[s].identities : Receive(r.event)]_onlineVars

LEMMA RejectedWasSeen ==
  ASSUME AdmissionInv, NEW bar, Receive(bar), NEW s \in Symbols,
         rejected[s] = 0, rejected'[s] > 0
  PROVE  EventSeen(admitted[s], bar)
<1>1. s = bar.symbol /\ Verdict(admitted[s], mapped[s] + 1, bar) # "ADMITTED"
  BY DEF Receive, AdmissionInv
<1>2. mapped[s] = admitted[s].lastSequence /\ mapped[s] \in Nat /\ Contiguous(admitted[s])
  BY DEF AdmissionInv, InStep
<1>3. ~SequenceTaken(admitted[s], mapped[s] + 1)
  <2>1. mapped[s] + 1 \notin {r.no : r \in admitted[s].identities}
    BY <1>2 DEF Contiguous
  <2> QED BY <2>1 DEF SequenceTaken
<1> QED BY <1>1, <1>2, <1>3, NextIsAdmitted

THEOREM OnlyRepetitionsAreRejected == OnlineSpec => FirstRejectionIsARepetition
<1>1. ASSUME AdmissionInv, [OnlineNext]_onlineVars, NEW s \in Symbols,
             rejected[s] = 0, rejected'[s] > 0
      PROVE  \E r \in admitted[s].identities : Receive(r.event)
  <2>1. ~UNCHANGED admissionSide
    BY <1>1 DEF admissionSide
  <2>2. \E bar : Receive(bar)
    BY <1>1, <2>1, OnlyReceivingCounts
  <2>3. PICK bar : Receive(bar)
    BY <2>2
  <2>4. PICK r \in admitted[s].identities : r.event = bar
    BY <1>1, <2>3, RejectedWasSeen DEF EventSeen
  <2> QED BY <2>3, <2>4
<1>2. AdmissionInv /\ [OnlineNext]_onlineVars =>
        \A s \in Symbols : rejected[s] = 0 /\ rejected'[s] > 0 =>
          \E r \in admitted[s].identities : Receive(r.event)
  BY <1>1
<1> QED
  BY <1>2, OnlineInvariant, PTL DEF OnlineSpec, FirstRejectionIsARepetition

-----------------------------------------------------------------------------
(* Sequences that bars are added to at the end and lost from at the front. *)

\* after is before with an element added behind it, and d of its first lost.
Shifted(before, after, element, d) ==
  /\ Len(after) = Len(before) + 1 - d
  /\ \A i \in 1..Len(after) :
       after[i] = IF i + d = Len(before) + 1 THEN element ELSE before[i + d]

LEMMA AppendShifts ==
  ASSUME NEW S, NEW before \in Seq(S), NEW element \in S
  PROVE  /\ Append(before, element) \in Seq(S)
         /\ Shifted(before, Append(before, element), element, 0)
BY DEF Shifted

LEMMA TailShifts ==
  ASSUME NEW S, NEW before \in Seq(S), NEW element \in S
  PROVE  /\ Tail(Append(before, element)) \in Seq(S)
         /\ Shifted(before, Tail(Append(before, element)), element, 1)
<1>1. PICK all \in Seq(S) :
        /\ all = Append(before, element)
        /\ Len(all) = Len(before) + 1
        /\ \A i \in 1..Len(all) : all[i] = IF i = Len(before) + 1 THEN element ELSE before[i]
  <2>1. /\ Append(before, element) \in Seq(S)
        /\ Len(Append(before, element)) = Len(before) + 1
    OBVIOUS
  <2>2. \A i \in 1..(Len(before) + 1) :
          Append(before, element)[i] = IF i = Len(before) + 1 THEN element ELSE before[i]
    OBVIOUS
  <2> QED
    BY <2>1, <2>2
<1>2. all # <<>>
  BY <1>1
<1>3. Tail(all) \in Seq(S) /\ Len(Tail(all)) = Len(all) - 1
  BY <1>2
<1>4. \A i \in 1..(Len(all) - 1) : Tail(all)[i] = all[i + 1]
  BY <1>2
<1> QED
  BY <1>1, <1>3, <1>4 DEF Shifted

LEMMA InsertSplits ==
  ASSUME NEW before, NEW k \in Nat, NEW element
  PROVE  InsertAt(before, k + 1, element) =
           (SubSeq(before, 1, k) \o <<element>>) \o SubSeq(before, k + 1, Len(before))
<1>1. (k + 1) - 1 = k
  OBVIOUS
<1>2. PICK last : last = (k + 1) - 1
  OBVIOUS
<1>3. InsertAt(before, k + 1, element) =
        (SubSeq(before, 1, last) \o <<element>>) \o SubSeq(before, k + 1, Len(before))
  BY <1>2 DEF InsertAt
<1> QED
  BY <1>1, <1>2, <1>3

\* An insertion moves what is behind it by one place.
LEMMA InsertElements ==
  ASSUME NEW S, NEW before \in Seq(S), NEW element \in S, NEW k \in 0..Len(before)
  PROVE  \E all \in Seq(S) :
           /\ all = InsertAt(before, k + 1, element) /\ Len(all) = Len(before) + 1
           /\ \A i \in 1..Len(all) :
                all[i] = IF i <= k THEN before[i]
                         ELSE IF i = k + 1 THEN element ELSE before[i - 1]
<1>1. PICK n \in Nat : n = Len(before) /\ \A i \in 1..n : before[i] \in S
  OBVIOUS
<1> DEFINE first == SubSeq(before, 1, k)
           rest == SubSeq(before, k + 1, n)
<1>2. k \in 0..n /\ k \in Nat
  BY <1>1
<1>3. /\ first \in Seq(S) /\ Len(first) = k /\ \A i \in 1..k : first[i] = before[i]
      /\ rest \in Seq(S) /\ Len(rest) = n - k /\ \A i \in 1..(n - k) : rest[i] = before[i + k]
  <2>1. \A i \in 1..k : before[i] \in S
    BY <1>1, <1>2
  <2>2. \A i \in (k + 1)..n : before[i] \in S
    BY <1>1, <1>2
  <2>3. first \in Seq(S) /\ Len(first) = k /\ \A i \in 1..k : first[i] = before[i]
    BY <1>2, <2>1, SubSeqProperties
  <2>4. /\ rest \in Seq(S) /\ Len(rest) = n - k
        /\ \A i \in 1..(n - k) : rest[i] = before[(k + 1) + i - 1]
    BY <1>2, <2>2, SubSeqProperties
  <2>5. \A i \in 1..(n - k) : (k + 1) + i - 1 = i + k
    BY <1>2
  <2> QED
    BY <2>3, <2>4, <2>5
<1>4. InsertAt(before, k + 1, element) = (first \o <<element>>) \o rest
  BY <1>1, <1>2, InsertSplits
<1> HIDE DEF first, rest
<1>5. PICK front \in Seq(S) :
        /\ front = first \o <<element>> /\ Len(front) = k + 1 /\ front[k + 1] = element
        /\ \A i \in 1..k : front[i] = before[i]
  <2>1. first \o <<element>> = Append(first, element)
    BY <1>3
  <2>2. /\ Append(first, element) \in Seq(S) /\ Len(Append(first, element)) = k + 1
        /\ Append(first, element)[k + 1] = element
        /\ \A i \in 1..k : Append(first, element)[i] = first[i]
    BY <1>2, <1>3
  <2> QED
    BY <1>3, <2>1, <2>2
<1>6. PICK all \in Seq(S) :
        /\ all = front \o rest /\ Len(all) = n + 1
        /\ \A i \in 1..(k + 1) : all[i] = front[i]
        /\ \A i \in 1..(n - k) : all[i + (k + 1)] = rest[i]
  <2>1. front \o rest \in Seq(S) /\ Len(front \o rest) = n + 1
    BY <1>2, <1>3, <1>5
  <2>2. \A i \in 1..(k + 1) : (front \o rest)[i] = front[i]
    BY <1>2, <1>3, <1>5
  <2>3. \A i \in 1..(n - k) : (front \o rest)[i + (k + 1)] = rest[i]
    BY <1>2, <1>3, <1>5
  <2> QED
    BY <2>1, <2>2, <2>3
<1>7. ASSUME NEW i \in 1..(n + 1)
      PROVE  all[i] = IF i <= k THEN before[i]
                      ELSE IF i = k + 1 THEN element ELSE before[i - 1]
  <2>1. CASE i <= k
    <3>1. i \in 1..k /\ i \in 1..(k + 1)
      BY <1>2, <2>1
    <3> QED
      BY <1>5, <1>6, <2>1, <3>1
  <2>2. CASE i = k + 1
    <3>1. i \in 1..(k + 1) /\ ~(i <= k)
      BY <1>2, <2>2
    <3> QED
      BY <1>5, <1>6, <2>2, <3>1
  <2>3. CASE i > k + 1
    <3>1. PICK j \in 1..(n - k) : i = j + (k + 1) /\ i - 1 = j + k
      <4>1. i - (k + 1) \in 1..(n - k) /\ i = (i - (k + 1)) + (k + 1)
            /\ i - 1 = (i - (k + 1)) + k
        BY <1>2, <2>3
      <4> QED
        BY <4>1
    <3>2. all[i] = rest[j] /\ rest[j] = before[j + k]
      BY <1>3, <1>6, <3>1
    <3>3. ~(i <= k) /\ i # k + 1
      BY <1>2, <2>3
    <3> QED
      BY <3>1, <3>2, <3>3
  <2> QED
    BY <1>2, <2>1, <2>2, <2>3
<1> QED
  BY <1>1, <1>4, <1>5, <1>6, <1>7

\* The same, with the first d elements lost.
Opened(before, after, k, element, d) ==
  /\ Len(after) = Len(before) + 1 - d
  /\ \A i \in 1..(Len(before) + 1 - d) :
       after[i] = IF i + d <= k THEN before[i + d]
                  ELSE IF i + d = k + 1 THEN element ELSE before[i + d - 1]

LEMMA InsertedOpens ==
  ASSUME NEW S, NEW before \in Seq(S), NEW element \in S, NEW k \in 0..Len(before),
         Len(before) <= WindowLimit
  PROVE  /\ Inserted(before, k, element) \in Seq(S)
         /\ \E d \in {0, 1} : /\ Opened(before, Inserted(before, k, element), k, element, d)
                              /\ d = 1 <=> Len(before) = WindowLimit
<1>1. PICK n \in Nat : n = Len(before)
  OBVIOUS
<1>2. WindowLimit \in Nat \ {0}
  BY OnlineAssumption
<1>3. PICK all \in Seq(S) :
        /\ all = InsertAt(before, k + 1, element) /\ Len(all) = n + 1
        /\ \A i \in 1..(n + 1) :
             all[i] = IF i <= k THEN before[i]
                      ELSE IF i = k + 1 THEN element ELSE before[i - 1]
  <2>1. PICK all \in Seq(S) :
          /\ all = InsertAt(before, k + 1, element) /\ Len(all) = Len(before) + 1
          /\ \A i \in 1..Len(all) :
               all[i] = IF i <= k THEN before[i]
                        ELSE IF i = k + 1 THEN element ELSE before[i - 1]
    BY InsertElements
  <2> QED
    BY ONLY <1>1, <2>1
<1>4. Inserted(before, k, element) = IF n + 1 > WindowLimit THEN Tail(all) ELSE all
  <2>1. Inserted(before, k, element) =
          IF Len(InsertAt(before, k + 1, element)) > WindowLimit
          THEN Tail(InsertAt(before, k + 1, element)) ELSE InsertAt(before, k + 1, element)
    BY ONLY DEF Inserted
  <2> QED
    BY ONLY <1>3, <2>1
<1>5. CASE n = WindowLimit
  <2>1. PICK rest \in Seq(S) :
          rest = Tail(all) /\ Len(rest) = n /\ \A i \in 1..n : rest[i] = all[i + 1]
    <3>1. all # <<>>
      BY <1>3
    <3>2. Tail(all) \in Seq(S) /\ Len(Tail(all)) = (n + 1) - 1
      BY <1>3, <3>1
    <3>3. \A i \in 1..((n + 1) - 1) : Tail(all)[i] = all[i + 1]
      BY <1>3, <3>1
    <3>4. (n + 1) - 1 = n
      OBVIOUS
    <3> QED
      BY ONLY <3>2, <3>3, <3>4
  <2>2. Inserted(before, k, element) = rest
    BY <1>2, <1>4, <1>5, <2>1
  <2>3. ASSUME NEW i \in 1..n
        PROVE  rest[i] = IF i + 1 <= k THEN before[i + 1]
                         ELSE IF i + 1 = k + 1 THEN element ELSE before[(i + 1) - 1]
    BY <1>3, <2>1
  <2>4. Opened(before, rest, k, element, 1)
    BY <1>1, <2>1, <2>3 DEF Opened
  <2> QED
    BY <1>1, <1>5, <2>1, <2>2, <2>4
<1>6. CASE n # WindowLimit
  <2>1. Inserted(before, k, element) = all
    BY <1>1, <1>2, <1>4, <1>6
  <2>2. Opened(before, all, k, element, 0)
    BY <1>1, <1>3 DEF Opened
  <2> QED
    BY <1>1, <1>3, <1>6, <2>1, <2>2
<1> QED
  BY <1>5, <1>6

\* Behind the last element that is an addition at the end.
LEMMA OpenedBehind ==
  ASSUME NEW before, NEW after, NEW element, NEW d \in {0, 1}, Len(before) \in Nat,
         Opened(before, after, Len(before), element, d)
  PROVE  Shifted(before, after, element, d)
<1>1. PICK n \in Nat : n = Len(before)
  OBVIOUS
<1>2. \A i \in 1..(n + 1 - d) : i + d <= n \/ i + d = n + 1
  OBVIOUS
<1>3. \A i \in 1..(n + 1 - d) : after[i] = IF i + d = n + 1 THEN element ELSE before[i + d]
  <2> SUFFICES ASSUME NEW i \in 1..(n + 1 - d)
               PROVE  after[i] = IF i + d = n + 1 THEN element ELSE before[i + d]
    OBVIOUS
  <2>1. CASE i + d = n + 1
    <3>1. ~(i + d <= n)
      BY <2>1
    <3> QED
      BY <1>1, <2>1, <3>1 DEF Opened
  <2>2. CASE i + d <= n /\ i + d # n + 1
    BY <1>1, <2>2 DEF Opened
  <2> QED
    BY <1>2, <2>1, <2>2
<1> QED
  BY <1>1, <1>3 DEF Opened, Shifted

\* The order of an ascending sequence survives where the element fits.
Fitting(before, after, n, k, x, d) ==
  /\ \A i \in 1..n : before[i] \in Nat
  /\ \A i, j \in 1..n : i < j => before[i] < before[j]
  /\ \A i \in 1..n : IF i <= k THEN before[i] < x ELSE x < before[i]
  /\ \A i \in 1..(n + 1 - d) :
       after[i] = IF i + d <= k THEN before[i + d]
                  ELSE IF i + d = k + 1 THEN x ELSE before[i + d - 1]

LEMMA FittingAscends ==
  ASSUME NEW n \in Nat, NEW k \in 0..n, NEW x \in Nat, NEW d \in {0, 1}, NEW before, NEW after,
         Fitting(before, after, n, k, x, d)
  PROVE  /\ \A i, j \in 1..(n + 1 - d) : i < j => after[i] < after[j]
         /\ \A i \in 1..(n + 1 - d) : after[i] = x \/ \E j \in 1..n : after[i] = before[j]
<1> USE DEF Fitting
<1>1. ASSUME NEW i \in 1..(n + 1 - d)
      PROVE  \/ i + d <= k /\ i + d \in 1..n /\ after[i] = before[i + d]
             \/ i + d = k + 1 /\ after[i] = x
             \/ i + d > k + 1 /\ i + d - 1 \in 1..n /\ after[i] = before[i + d - 1]
  <2>1. CASE i + d <= k
    BY <2>1
  <2>2. CASE i + d = k + 1
    BY <2>2
  <2>3. CASE i + d > k + 1
    BY <2>3
  <2> QED
    BY <2>1, <2>2, <2>3
<1>2. ASSUME NEW i \in 1..(n + 1 - d), NEW j \in 1..(n + 1 - d), i < j
      PROVE  after[i] < after[j]
  <2>1. i + d < j + d /\ i + d - 1 < j + d - 1
    BY <1>2
  <2>2. CASE i + d <= k /\ i + d \in 1..n /\ after[i] = before[i + d]
    <3>1. CASE j + d <= k /\ j + d \in 1..n /\ after[j] = before[j + d]
      BY <2>1, <2>2, <3>1
    <3>2. CASE j + d = k + 1 /\ after[j] = x
      BY <2>2, <3>2
    <3>3. CASE j + d > k + 1 /\ j + d - 1 \in 1..n /\ after[j] = before[j + d - 1]
      <4>1. i + d < j + d - 1
        BY <2>2, <3>3
      <4> QED
        BY <2>2, <3>3, <4>1
    <3> QED
      BY <1>1, <3>1, <3>2, <3>3
  <2>3. CASE i + d = k + 1 /\ after[i] = x
    <3>1. j + d > k + 1 /\ j + d - 1 \in 1..n /\ after[j] = before[j + d - 1]
      BY <1>1, <2>1, <2>3
    <3>2. ~(j + d - 1 <= k)
      BY <3>1
    <3> QED
      BY <2>3, <3>1, <3>2
  <2>4. CASE i + d > k + 1 /\ i + d - 1 \in 1..n /\ after[i] = before[i + d - 1]
    <3>1. j + d > k + 1 /\ j + d - 1 \in 1..n /\ after[j] = before[j + d - 1]
      BY <1>1, <2>1, <2>4
    <3> QED
      BY <2>1, <2>4, <3>1
  <2> QED
    BY <1>1, <2>2, <2>3, <2>4
<1>3. ASSUME NEW i \in 1..(n + 1 - d)
      PROVE  after[i] = x \/ \E j \in 1..n : after[i] = before[j]
  BY <1>1
<1> QED
  BY <1>2, <1>3

-----------------------------------------------------------------------------
(* The order of the bars on the first stream: the inductive invariant.     *)

LEMMA BarFields ==
  \A bar \in Bar : bar.symbol \in Symbols /\ bar.minute \in Nat /\ 0 < bar.minute
BY OnlineAssumption DEF Bar

LEMMA EventFields ==
  \A bar : Event(bar).symbol = bar.symbol /\ Event(bar).minute = bar.minute
BY DEF Event

Shaped ==
  /\ newest \in [Symbols -> Nat]
  /\ window \in [Symbols -> Seq(Bar)]
  /\ accepting \in [Producers -> {<<>>} \union {<<bar>> : bar \in Bar}]
  /\ queue \in Seq(Bar) /\ Len(queue) <= Queue
  /\ sending \in Seq(Bar)
  /\ toCatchUp \subseteq Symbols
  /\ attempt \in Nat

\* A window is never too long and its minutes ascend, whatever is added to it.
Kept(bars, s, latest) ==
  /\ Len(bars) <= WindowLimit
  /\ \A i, j \in 1..Len(bars) : i < j => bars[i].minute < bars[j].minute
  /\ \A i \in 1..Len(bars) : bars[i].symbol = s /\ bars[i].minute <= latest

WindowsKept == \A s \in Symbols : Kept(window[s], s, newest[s])

\* Nothing of the symbol has been received.
Fresh(s) == mapped[s] = 0 /\ rejected[s] = 0 /\ admitted[s] = NewEntityState

\* The stream up to the point where the windows are through.
Progress ==
  /\ link \in {"idle", "waiting"} => queue = <<>>
  /\ link = "idle" => \A s \in Symbols : Fresh(s)
  /\ link = "subscribed" => \A s \in toCatchUp :
       Fresh(s) /\ \A i \in 1..Len(sending) : sending[i].symbol # s
  /\ link = "live" => sending = <<>> /\ toCatchUp = {}

\* What is not fanned out yet of a symbol in good order is the live source's,
\* wanted by the stream, and the last bar of the window.
Source(s) ==
  \A p \in Producers, bar \in Bar : accepting[p] = <<bar>> /\ bar.symbol = s =>
    /\ p = Live /\ Passes(bar) /\ bar.minute = newest[s]
    /\ Len(window[s]) # 0 /\ window[s][Len(window[s])] = bar

Coming(s) == IF \E bar \in Bar : accepting[Live] = <<bar>> /\ bar.symbol = s THEN 1 ELSE 0

\* The queue holds the bars the window got last: whatever lies behind a queued
\* bar in the window was queued behind it or is not fanned out yet.
Queued(s) ==
  /\ \A i, j \in 1..Len(queue) : i < j /\ queue[i].symbol = s /\ queue[j].symbol = s =>
       queue[i].minute < queue[j].minute
  /\ \A i \in 1..Len(queue) : queue[i].symbol = s =>
       /\ Passes(queue[i]) /\ queue[i].minute <= newest[s]
       /\ \A bar \in Bar : accepting[Live] = <<bar>> /\ bar.symbol = s =>
            queue[i].minute < bar.minute
       /\ \E k \in 1..Len(window[s]) :
            window[s][k] = queue[i] /\ Len(window[s]) - k <= Len(queue) - i + Coming(s)

\* What was admitted ascends, and lies before what is still sent of the window.
Ascending(s) ==
  /\ \A q, r \in admitted[s].identities : q.no < r.no => q.event.minute < r.event.minute
  /\ \A r \in admitted[s].identities : r.event.minute \in Nat /\ r.event.minute <= newest[s]

Sending(s) ==
  /\ \A i, j \in 1..Len(sending) : i < j /\ sending[i].symbol = s /\ sending[j].symbol = s =>
       sending[i].minute < sending[j].minute
  /\ \A i \in 1..Len(sending) : sending[i].symbol = s =>
       /\ sending[i].minute <= newest[s]
       /\ \A r \in admitted[s].identities : r.event.minute < sending[i].minute

Known(s, bar) ==
  \/ \E r \in admitted[s].identities : r.event = Event(bar)
  \/ \E i \in 1..Len(sending) : sending[i].symbol = s /\ sending[i] = bar
Later(s, m) ==
  /\ \A r \in admitted[s].identities : r.event.minute < m
  /\ \A i \in 1..Len(sending) : sending[i].symbol = s => sending[i].minute < m
Due(s, bar) ==
  /\ bar.symbol = s
  /\ (\E i \in 1..Len(queue) : queue[i] = bar) \/ accepting[Live] = <<bar>>

\* Once its window was read, a bar of the symbol that is yet to come through the
\* queue is a repetition or later than everything before it ...
Repeats(s) == \A bar \in Bar : Due(s, bar) => Known(s, bar) \/ Later(s, bar.minute)

\* ... and unless one was dropped, no bar of the window is missing.
Covered(s) ==
  \A i \in 1..Len(window[s]) : Passes(window[s][i]) =>
    Known(s, window[s][i]) \/ Due(s, window[s][i])

Gapless(s) ==
  \A i \in 1..Len(window[s]) : \A r \in admitted[s].identities :
    Passes(window[s][i]) /\ window[s][i].minute < r.event.minute =>
      \E q \in admitted[s].identities : q.event.minute = window[s][i].minute

Streamed(s) ==
  /\ Source(s) /\ Ascending(s)
  /\ s \notin lossy => Gapless(s)
  /\ Subscribed =>
       /\ Queued(s) /\ Sending(s)
       /\ s \notin toCatchUp /\ rejected[s] = 0 =>
            Repeats(s) /\ (s \notin lossy => Covered(s))

StreamInv ==
  /\ Shaped /\ WindowsKept
  /\ attempt = 0 => Progress /\ \A s \in Symbols \ disturbed : Streamed(s)

-----------------------------------------------------------------------------
(* What the steps do, in these terms.                                      *)

LEMMA TailAppendShifts ==
  ASSUME NEW S, NEW before \in Seq(S), NEW element \in S, before # <<>>
  PROVE  /\ Tail(before) \o <<element>> \in Seq(S)
         /\ Shifted(before, Tail(before) \o <<element>>, element, 1)
<1>1. PICK n \in Nat : n = Len(before) /\ n # 0
  OBVIOUS
<1>2. /\ Tail(before) \in Seq(S) /\ Len(Tail(before)) = n - 1
      /\ \A i \in 1..(n - 1) : Tail(before)[i] = before[i + 1]
  <2>1. Tail(before) \in Seq(S) /\ Len(Tail(before)) = Len(before) - 1
    OBVIOUS
  <2>2. \A i \in 1..(Len(before) - 1) : Tail(before)[i] = before[i + 1]
    OBVIOUS
  <2> QED
    BY <1>1, <2>1, <2>2
<1> DEFINE rest == Tail(before)
<1> HIDE DEF rest
<1>3. rest \in Seq(S) /\ Len(rest) = n - 1 /\ \A i \in 1..(n - 1) : rest[i] = before[i + 1]
  BY <1>2 DEF rest
<1> DEFINE after == rest \o <<element>>
<1>4. /\ after \in Seq(S) /\ Len(after) = n /\ after[n] = element
      /\ \A i \in 1..(n - 1) : after[i] = rest[i]
  BY <1>1, <1>3
<1> HIDE DEF after
<1>5. \A i \in 1..n : after[i] = IF i + 1 = n + 1 THEN element ELSE before[i + 1]
  <2> SUFFICES ASSUME NEW i \in 1..n
               PROVE  after[i] = IF i + 1 = n + 1 THEN element ELSE before[i + 1]
    OBVIOUS
  <2>1. CASE i = n
    BY <1>4, <2>1
  <2>2. CASE i # n
    <3>1. i \in 1..(n - 1) /\ i + 1 # n + 1
      BY <2>2
    <3> QED
      BY ONLY <1>3, <1>4, <3>1
  <2> QED
    BY <2>1, <2>2
<1>6. Shifted(before, after, element, 1)
  BY <1>1, <1>4, <1>5 DEF Shifted
<1> QED
  BY <1>4, <1>6 DEF after, rest

LEMMA FanOutEffect ==
  ASSUME Shaped, NEW p \in Producers, FanOut(p)
  PROVE  \E bar \in Bar :
           /\ accepting[p] = <<bar>>
           /\ accepting' = [accepting EXCEPT ![p] = <<>>]
           /\ UNCHANGED <<newest, window, disturbed, streamSide, admissionSide>>
           /\ \/ ~(Subscribed /\ Passes(bar)) /\ queue' = queue /\ lossy' = lossy
              \/ /\ Subscribed /\ Passes(bar)
                 /\ queue' \in Seq(Bar) /\ Len(queue') <= Queue
                 /\ \/ Shifted(queue, queue', bar, 0) /\ lossy' = lossy
                    \/ /\ Len(queue) # 0
                       /\ Shifted(queue, queue', bar, 1)
                       /\ lossy' = lossy \union {queue[1].symbol}
<1>1. PICK bar \in Bar : accepting[p] = <<bar>> /\ Head(accepting[p]) = bar
  BY DEF FanOut, Shaped
<1>2. Queue \in Nat \ {0}
  BY OnlineAssumption
<1>3. CASE Subscribed /\ Passes(bar) /\ Len(queue) < Queue /\ queue' = queue \o accepting[p]
  <2>1. queue' = Append(queue, bar)
    BY <1>1, <1>3 DEF Shaped
  <2>2. queue' \in Seq(Bar) /\ Shifted(queue, queue', bar, 0)
    BY <2>1, AppendShifts DEF Shaped
  <2>3. Len(queue') <= Queue
    BY <1>2, <1>3, <2>2 DEF Shifted, Shaped
  <2>4. ~(Len(queue) >= Queue)
    BY <1>2, <1>3 DEF Shaped
  <2>5. lossy' = lossy
    BY <1>1, <1>3, <2>4 DEF FanOut
  <2> QED
    BY <1>1, <1>3, <2>2, <2>3, <2>5 DEF FanOut
<1>4. CASE /\ Subscribed /\ Passes(bar) /\ Len(queue) >= Queue
           /\ queue' = Tail(queue) \o accepting[p]
  <2>1. queue # <<>> /\ queue \in Seq(Bar) /\ Len(queue) = Queue
    BY <1>2, <1>4 DEF Shaped
  <2>2. queue' \in Seq(Bar) /\ Shifted(queue, queue', bar, 1)
    BY <1>1, <1>4, <2>1, TailAppendShifts
  <2>3. Len(queue') <= Queue
    BY <1>2, <2>1, <2>2 DEF Shifted
  <2>4. lossy' = lossy \union {queue[1].symbol}
    BY <1>1, <1>2, <1>4, <2>1 DEF FanOut
  <2> QED
    BY <1>1, <1>2, <1>4, <2>1, <2>2, <2>3, <2>4 DEF FanOut
<1> QED
  BY <1>1, <1>3, <1>4 DEF FanOut

\* A bar is added where it belongs, or in the place of another of its minute.
LEMMA AddedBar ==
  ASSUME Shaped, WindowsKept, NEW bar \in Bar, AddToWindow(bar),
         NEW latest \in Nat, newest[bar.symbol] <= latest, bar.minute <= latest
  PROVE  \E after \in Seq(Bar) :
           /\ window' = [window EXCEPT ![bar.symbol] = after]
           /\ Kept(after, bar.symbol, latest)
           /\ newest[bar.symbol] < bar.minute => \E d \in {0, 1} :
                /\ Shifted(window[bar.symbol], after, bar, d)
                /\ d = 1 <=> Len(window[bar.symbol]) = WindowLimit
<1> DEFINE s == bar.symbol
<1>1. PICK bars \in Seq(Bar), n \in Nat, old \in Nat :
        /\ bars = window[s] /\ n = Len(bars) /\ old = newest[s]
        /\ DOMAIN bars = 1..n /\ \A i \in 1..n : bars[i] \in Bar /\ bars[i].minute \in Nat
  <2>1. window[s] \in Seq(Bar) /\ newest[s] \in Nat
    BY BarFields DEF Shaped
  <2> QED
    BY <2>1, BarFields
<1>2. Kept(bars, s, old) /\ old <= latest /\ bar.minute \in Nat
  BY <1>1, BarFields DEF WindowsKept
<1>3. ASSUME NEW i \in 1..n, bars[i].minute = bar.minute,
             window' = [window EXCEPT ![s] = [@ EXCEPT ![i] = bar]]
      PROVE  \E after \in Seq(Bar) :
               /\ window' = [window EXCEPT ![s] = after]
               /\ Kept(after, s, latest)
               /\ ~(old < bar.minute)
  <2> DEFINE after == [bars EXCEPT ![i] = bar]
  <2>1. window' = [window EXCEPT ![s] = after]
    BY <1>1, <1>3 DEF Shaped
  <2>2. /\ after \in Seq(Bar) /\ Len(after) = n
        /\ \A j \in 1..n : after[j] = IF j = i THEN bar ELSE bars[j]
    BY <1>1
  <2> HIDE DEF after
  <2>3. \A j \in 1..n : after[j].minute = bars[j].minute /\ after[j].symbol = s
    BY <1>1, <1>2, <1>3, <2>2 DEF Kept
  <2>4. Kept(after, s, latest)
    BY <1>1, <1>2, <2>2, <2>3 DEF Kept
  <2>5. ~(old < bar.minute)
    BY <1>1, <1>2, <1>3 DEF Kept
  <2> QED
    BY <2>1, <2>2, <2>4, <2>5
<1>4. ASSUME NEW k \in 0..n, FitsBehind(bars, k, bar),
             window' = [window EXCEPT ![s] = Inserted(@, k, bar)]
      PROVE  \E after \in Seq(Bar) :
               /\ window' = [window EXCEPT ![s] = after]
               /\ Kept(after, s, latest)
               /\ old < bar.minute => \E d \in {0, 1} :
                    /\ Shifted(bars, after, bar, d)
                    /\ d = 1 <=> n = WindowLimit
  <2>1. n <= WindowLimit /\ WindowLimit \in Nat \ {0}
    BY <1>1, <1>2, OnlineAssumption DEF Kept
  <2>2. PICK after \in Seq(Bar), d \in {0, 1} :
          /\ after = Inserted(bars, k, bar)
          /\ Opened(bars, after, k, bar, d) /\ (d = 1 <=> n = WindowLimit)
    <3>1. k \in 0..Len(bars) /\ Len(bars) <= WindowLimit
      BY ONLY k \in 0..n, <1>1, <2>1
    <3>2. /\ Inserted(bars, k, bar) \in Seq(Bar)
          /\ \E d \in {0, 1} : /\ Opened(bars, Inserted(bars, k, bar), k, bar, d)
                               /\ d = 1 <=> Len(bars) = WindowLimit
      BY <3>1, InsertedOpens
    <3> QED
      BY ONLY <1>1, <3>2
  <2>3. window' = [window EXCEPT ![s] = after]
    <3>1. Inserted(window[s], k, bar) = after
      BY ONLY <1>1, <2>2
    <3>2. window' = [window EXCEPT ![s] = Inserted(window[s], k, bar)]
      BY <1>4
    <3> QED
      BY ONLY <3>1, <3>2
  <2>4. /\ Len(after) = n + 1 - d /\ Len(after) <= WindowLimit
        /\ \A i \in 1..(n + 1 - d) :
             after[i] = IF i + d <= k THEN bars[i + d]
                        ELSE IF i + d = k + 1 THEN bar ELSE bars[i + d - 1]
    <3>1. n + 1 - d <= WindowLimit
      BY ONLY n \in Nat, d \in {0, 1}, <2>1, <2>2
    <3> QED
      BY ONLY <1>1, <2>2, <3>1 DEF Opened
  <2>5. PICK f, g : /\ f = [i \in 1..n |-> bars[i].minute]
                    /\ g = [i \in 1..(n + 1 - d) |-> after[i].minute]
    OBVIOUS
  <2>6. PICK x \in Nat : x = bar.minute
    BY <1>2
  <2>7. ASSUME NEW i \in 1..(n + 1 - d)
        PROVE  /\ g[i] = after[i].minute
               /\ g[i] = IF i + d <= k THEN f[i + d]
                         ELSE IF i + d = k + 1 THEN x ELSE f[i + d - 1]
    <3>1. g[i] = after[i].minute
      BY <2>5
    <3>2. CASE i + d <= k
      <4>1. i + d \in 1..n
        BY <3>2
      <4> QED
        BY <2>4, <2>5, <3>1, <3>2, <4>1
    <3>3. CASE i + d = k + 1
      <4>1. ~(i + d <= k)
        BY <3>3
      <4> QED
        BY <2>4, <2>6, <3>1, <3>3, <4>1
    <3>4. CASE i + d > k + 1
      <4>1. i + d - 1 \in 1..n /\ ~(i + d <= k) /\ i + d # k + 1
        BY <3>4
      <4> QED
        BY <2>4, <2>5, <3>1, <3>4, <4>1
    <3> QED
      BY <3>1, <3>2, <3>3, <3>4
  <2>8. Fitting(f, g, n, k, x, d)
    <3>1. \A i \in 1..n : f[i] \in Nat /\ f[i] = bars[i].minute
      BY <1>1, <2>5
    <3>2. \A i, j \in 1..n : i < j => f[i] < f[j]
      BY <1>1, <1>2, <3>1 DEF Kept
    <3>3. \A i \in 1..n : IF i <= k THEN f[i] < x ELSE x < f[i]
      BY <1>1, <1>4, <2>6, <3>1 DEF FitsBehind
    <3> QED
      BY ONLY <2>7, <3>1, <3>2, <3>3, SMTT(30) DEF Fitting
  <2>9. /\ \A i, j \in 1..(n + 1 - d) : i < j => g[i] < g[j]
        /\ \A i \in 1..(n + 1 - d) : g[i] = x \/ \E j \in 1..n : g[i] = f[j]
    BY <2>8, FittingAscends
  <2>10. \A i \in 1..(n + 1 - d) : after[i].minute <= latest
    <3>1. \A j \in 1..n : f[j] \in Nat /\ f[j] <= old
      BY <1>1, <1>2, <2>5 DEF Kept
    <3>2. \A j \in 1..n : f[j] <= latest
      BY <1>2, <3>1
    <3>3. x <= latest
      BY <2>6
    <3> QED
      BY <2>7, <2>9, <3>2, <3>3
  <2>11. \A i \in 1..(n + 1 - d) : after[i].symbol = s
    <3> SUFFICES ASSUME NEW i \in 1..(n + 1 - d) PROVE after[i].symbol = s
      OBVIOUS
    <3>1. \A j \in 1..n : bars[j].symbol = s
      BY <1>1, <1>2 DEF Kept
    <3>2. i + d <= k => i + d \in 1..n
      OBVIOUS
    <3>3. ~(i + d <= k) /\ i + d # k + 1 => i + d - 1 \in 1..n
      OBVIOUS
    <3> QED
      BY <2>4, <3>1, <3>2, <3>3
  <2>12. Kept(after, s, latest)
    <3>1. \A i, j \in 1..(n + 1 - d) : i < j => after[i].minute < after[j].minute
      BY <2>7, <2>9
    <3> QED
      BY <2>4, <2>10, <2>11, <3>1 DEF Kept
  <2>13. ASSUME old < bar.minute
         PROVE  Shifted(bars, after, bar, d)
    <3>1. k = n
      <4>1. SUFFICES ASSUME k # n PROVE FALSE
        OBVIOUS
      <4>2. k + 1 \in 1..n /\ ~(k + 1 <= k)
        BY <4>1
      <4>3. bar.minute < bars[k + 1].minute
        BY <1>1, <1>4, <4>2 DEF FitsBehind
      <4>4. bars[k + 1].minute <= old
        BY <1>1, <1>2, <4>2 DEF Kept
      <4> QED
        BY <1>1, <1>2, <2>13, <4>2, <4>3, <4>4
    <3> QED
      BY <1>1, <2>2, <3>1, OpenedBehind
  <2> QED
    BY <2>2, <2>3, <2>12, <2>13
<1>5. \/ \E i \in 1..n : /\ bars[i].minute = bar.minute
                         /\ window' = [window EXCEPT ![s] = [@ EXCEPT ![i] = bar]]
      \/ \E k \in 0..n : /\ FitsBehind(bars, k, bar)
                         /\ window' = [window EXCEPT ![s] = Inserted(@, k, bar)]
  BY <1>1 DEF AddToWindow
<1>6. CASE \E i \in 1..n : /\ bars[i].minute = bar.minute
                           /\ window' = [window EXCEPT ![s] = [@ EXCEPT ![i] = bar]]
  <2>1. PICK after \in Seq(Bar) :
          window' = [window EXCEPT ![s] = after] /\ Kept(after, s, latest) /\ ~(old < bar.minute)
    BY ONLY <1>3, <1>6
  <2> QED
    BY ONLY <1>1, <2>1
<1>7. CASE \E k \in 0..n : /\ FitsBehind(bars, k, bar)
                           /\ window' = [window EXCEPT ![s] = Inserted(@, k, bar)]
  <2>1. PICK after \in Seq(Bar) :
          /\ window' = [window EXCEPT ![s] = after]
          /\ Kept(after, s, latest)
          /\ old < bar.minute => \E d \in {0, 1} :
               Shifted(bars, after, bar, d) /\ (d = 1 <=> n = WindowLimit)
    BY ONLY <1>4, <1>7
  <2> QED
    BY ONLY <1>1, <2>1
<1> QED
  BY <1>5, <1>6, <1>7

\* A bar is accepted by one of the satellite's goroutines.
AcceptedBar(p, bar, after, latest) ==
  /\ accepting[p] = <<>>
  /\ accepting' = [accepting EXCEPT ![p] = <<bar>>]
  /\ newest' = [newest EXCEPT ![bar.symbol] = latest]
  /\ newest[bar.symbol] <= latest
  /\ window' = [window EXCEPT ![bar.symbol] = after]
  /\ Kept(after, bar.symbol, latest)
  /\ newest[bar.symbol] < bar.minute =>
       /\ latest = bar.minute
       /\ \E d \in {0, 1} : /\ Shifted(window[bar.symbol], after, bar, d)
                            /\ d = 1 <=> Len(window[bar.symbol]) = WindowLimit
  /\ disturbed \subseteq disturbed'
  /\ bar.symbol \in disturbed' \/ InOrder(p, bar)
  /\ UNCHANGED <<queue, lossy, streamSide, admissionSide>>

LEMMA AcceptEffect ==
  ASSUME Shaped, WindowsKept, NEW p \in Producers, NEW bar \in Bar, Accept(p, bar)
  PROVE  \E after \in Seq(Bar), latest \in Nat : AcceptedBar(p, bar, after, latest)
<1>1. PICK s \in Symbols, old \in Nat, m \in Nat :
        s = bar.symbol /\ old = newest[s] /\ m = bar.minute
  BY BarFields DEF Shaped
<1>2. PICK latest \in Nat : latest = IF old < m THEN m ELSE old
  OBVIOUS
<1>3. old <= latest /\ m <= latest /\ (old < m => latest = m)
  BY <1>2
<1>4. newest' = [newest EXCEPT ![s] = latest]
  BY <1>1, <1>2 DEF Accept
<1>5. AddToWindow(bar)
  BY DEF Accept
<1>6. PICK after \in Seq(Bar) :
        /\ window' = [window EXCEPT ![s] = after]
        /\ Kept(after, s, latest)
        /\ old < m => \E d \in {0, 1} :
             /\ Shifted(window[s], after, bar, d)
             /\ d = 1 <=> Len(window[s]) = WindowLimit
  <2>1. newest[bar.symbol] <= latest /\ bar.minute <= latest
    BY <1>1, <1>3
  <2>2. PICK after \in Seq(Bar) :
          /\ window' = [window EXCEPT ![bar.symbol] = after]
          /\ Kept(after, bar.symbol, latest)
          /\ newest[bar.symbol] < bar.minute => \E d \in {0, 1} :
               /\ Shifted(window[bar.symbol], after, bar, d)
               /\ d = 1 <=> Len(window[bar.symbol]) = WindowLimit
    BY <1>5, <2>1, AddedBar
  <2> QED
    BY ONLY <1>1, <2>2
<1>7. /\ accepting[p] = <<>> /\ accepting' = [accepting EXCEPT ![p] = <<bar>>]
      /\ disturbed \subseteq disturbed'
      /\ bar.symbol \in disturbed' \/ InOrder(p, bar)
      /\ UNCHANGED <<queue, lossy, streamSide, admissionSide>>
  BY DEF Accept
<1>8. AcceptedBar(p, bar, after, latest)
  BY <1>1, <1>3, <1>4, <1>6, <1>7 DEF AcceptedBar
<1> QED
  BY <1>8

\* The event becomes the last admitted of its symbol.
AdmittedLast(s, event, new) ==
  /\ new.event = event
  /\ admitted'[s].identities = admitted[s].identities \union {new}
  /\ \A r \in admitted[s].identities : ~(new.no < r.no)
  /\ ~(new.no < new.no)
  /\ ~EventSeen(admitted[s], event)
  /\ rejected[s] = 0

\* An event received is admitted under the next number, or was seen before, or
\* is one of a symbol that is silent already.
LEMMA ReceiveEffect ==
  ASSUME AdmissionInv, NEW s \in Symbols, NEW event, event.symbol = s, Receive(event)
  PROVE  /\ \A t \in Symbols \ {s} : /\ admitted'[t] = admitted[t]
                                     /\ rejected'[t] = rejected[t]
                                     /\ mapped'[t] = mapped[t]
         /\ \/ \E new : AdmittedLast(s, event, new)
            \/ /\ rejected'[s] > 0
               /\ admitted'[s] = admitted[s]
               /\ rejected[s] = 0 => EventSeen(admitted[s], event)
<1> DEFINE no == mapped[s] + 1
           new == Identity(no, event)
<1>1. /\ mapped' = [mapped EXCEPT ![s] = no]
      /\ admitted' = [admitted EXCEPT ![s] = Admit(@, no, event)]
      /\ rejected' = [rejected EXCEPT ![s] =
                        @ + (IF Verdict(admitted[s], no, event) = "ADMITTED" THEN 0 ELSE 1)]
  BY DEF Receive
<1>2. \A t \in Symbols \ {s} : /\ admitted'[t] = admitted[t]
                               /\ rejected'[t] = rejected[t]
                               /\ mapped'[t] = mapped[t]
  BY <1>1 DEF AdmissionInv
<1>3. InStep(s) /\ no \in Nat /\ rejected[s] \in Nat
  BY DEF AdmissionInv, InStep
<1>4. CASE Verdict(admitted[s], no, event) = "ADMITTED"
  <2>1. no = admitted[s].lastSequence + 1 /\ ~EventSeen(admitted[s], event)
    BY <1>3, <1>4, AdmittedIsNext DEF InStep
  <2>2. rejected[s] = 0
    BY <1>3, <2>1 DEF InStep
  <2>3. \A r \in admitted[s].identities : r.no \in Nat /\ r.no < no
    <3>1. \A r \in admitted[s].identities : r.no \in 1..admitted[s].lastSequence
      BY <1>3 DEF InStep, Contiguous
    <3>2. admitted[s].lastSequence \in Nat
      BY <1>3 DEF InStep
    <3> QED
      BY <2>1, <3>1, <3>2
  <2>4. admitted'[s] = Admit(admitted[s], no, event)
    BY <1>1 DEF AdmissionInv
  <2>5. admitted'[s].identities = admitted[s].identities \union {new}
    BY <1>4, <2>4 DEF Admit
  <2>6. new.no = no /\ new.event = event
    BY DEF Identity
  <2>7. /\ \A r \in admitted[s].identities : ~(new.no < r.no)
        /\ ~(new.no < new.no)
    BY <1>3, <2>3, <2>6
  <2> HIDE DEF new
  <2>8. AdmittedLast(s, event, new)
    BY <2>1, <2>2, <2>5, <2>6, <2>7 DEF AdmittedLast
  <2> QED
    BY <1>2, <2>8
<1>5. CASE Verdict(admitted[s], no, event) # "ADMITTED"
  <2>1. admitted'[s] = admitted[s] /\ rejected'[s] = rejected[s] + 1
    BY <1>1, <1>5 DEF AdmissionInv, Admit
  <2>2. rejected'[s] > 0
    BY <1>3, <2>1
  <2>3. rejected[s] = 0 => EventSeen(admitted[s], event)
    BY <2>2, RejectedWasSeen
  <2> QED
    BY <1>2, <2>1, <2>2, <2>3
<1> QED
  BY <1>4, <1>5

-----------------------------------------------------------------------------
(* The satellite's steps, for one symbol.                                  *)

\* Bars of another symbol change nothing of a symbol.
LEMMA OtherBars ==
  ASSUME Shaped, NEW t \in Symbols, Streamed(t),
         UNCHANGED <<queue, lossy, streamSide, admissionSide>>,
         newest'[t] = newest[t], window'[t] = window[t],
         \A p \in Producers, bar \in Bar : bar.symbol = t =>
           (accepting'[p] = <<bar>> <=> accepting[p] = <<bar>>)
  PROVE  Streamed(t)'
<1>1. UNCHANGED <<queue, lossy, link, attempt, toCatchUp, sending, sent, mapped, admitted, rejected>>
  BY DEF streamSide, admissionSide
<1>2. Live \in Producers
  BY OnlineAssumption
<1>3. Source(t)'
  BY DEF Streamed, Source
<1>4. Ascending(t)' /\ (Gapless(t) => Gapless(t)')
  BY <1>1 DEF Streamed, Ascending, Gapless
<1>5. Sending(t) => Sending(t)'
  BY <1>1 DEF Sending
<1>6. Queued(t) => Queued(t)'
  <2>1. Coming(t)' = Coming(t)
    BY <1>2 DEF Coming
  <2> QED
    BY <1>1, <1>2, <2>1 DEF Queued
<1>7. ASSUME NEW bar \in Bar
      PROVE  /\ Due(t, bar)' <=> Due(t, bar)
             /\ Known(t, bar)' <=> Known(t, bar)
             /\ Later(t, bar.minute)' <=> Later(t, bar.minute)
  BY <1>1, <1>2 DEF Due, Known, Later
<1>8. Repeats(t) => Repeats(t)'
  BY <1>7 DEF Repeats
<1>9. Covered(t) => Covered(t)'
  <2>1. \A i \in 1..Len(window[t]) : window[t][i] \in Bar
    BY DEF Shaped
  <2> QED
    BY <1>7, <2>1 DEF Covered
<1> QED
  BY <1>1, <1>3, <1>4, <1>5, <1>6, <1>8, <1>9 DEF Streamed, Subscribed

LEMMA LiveBar ==
  ASSUME Queue < WindowLimit, Shaped, Shaped', WindowsKept, NEW p \in Producers,
         NEW bar \in Bar, Accept(p, bar), NEW s \in Symbols \ disturbed', bar.symbol = s,
         Streamed(s)
  PROVE  Streamed(s)'
<1>1. PICK bars \in Seq(Bar), n \in Nat, old \in Nat, m \in Nat :
        /\ bars = window[s] /\ n = Len(bars) /\ old = newest[s] /\ m = bar.minute
        /\ old < m /\ p = Live /\ Passes(bar) /\ n <= WindowLimit
        /\ \A i \in 1..n : /\ bars[i] \in Bar /\ bars[i].symbol = s
                           /\ bars[i].minute \in Nat /\ bars[i].minute < m
  <2>1. PICK after \in Seq(Bar), latest \in Nat : AcceptedBar(p, bar, after, latest)
    BY AcceptEffect
  <2>2. InOrder(p, bar)
    BY <2>1 DEF AcceptedBar
  <2>3. /\ window[s] \in Seq(Bar) /\ newest[s] \in Nat /\ Len(window[s]) \in Nat
        /\ bar.minute \in Nat /\ Kept(window[s], s, newest[s])
    BY BarFields DEF Shaped, WindowsKept
  <2>4. \A i \in 1..Len(window[s]) : window[s][i] \in Bar /\ window[s][i].minute \in Nat
    BY <2>3, BarFields
  <2> QED
    BY <2>2, <2>3, <2>4, SMTT(30) DEF InOrder, Kept
<1>2. PICK d \in {0, 1}, after \in Seq(Bar) :
        /\ window'[s] = after /\ newest'[s] = m
        /\ Len(after) = n + 1 - d
        /\ \A i \in 1..(n + 1 - d) : after[i] = IF i + d = n + 1 THEN bar ELSE bars[i + d]
        /\ d = 1 <=> n = WindowLimit
        /\ accepting[Live] = <<>>
        /\ accepting'[Live] = <<bar>>
        /\ \A q \in Producers \ {Live} : accepting'[q] = accepting[q]
        /\ UNCHANGED <<queue, lossy, streamSide, admissionSide>>
  <2>1. PICK after \in Seq(Bar), latest \in Nat : AcceptedBar(Live, bar, after, latest)
    BY <1>1, AcceptEffect
  <2>2. window'[s] = after /\ newest'[s] = m
    BY <1>1, <2>1 DEF AcceptedBar, Shaped
  <2>3. PICK d \in {0, 1} : Shifted(bars, after, bar, d) /\ (d = 1 <=> n = WindowLimit)
    BY <1>1, <2>1 DEF AcceptedBar
  <2>4. /\ Len(after) = n + 1 - d
        /\ \A i \in 1..(n + 1 - d) : after[i] = IF i + d = n + 1 THEN bar ELSE bars[i + d]
    BY <1>1, <2>3 DEF Shifted
  <2>5. /\ accepting[Live] = <<>>
        /\ accepting'[Live] = <<bar>>
        /\ \A q \in Producers \ {Live} : accepting'[q] = accepting[q]
        /\ UNCHANGED <<queue, lossy, streamSide, admissionSide>>
    BY <2>1, OnlineAssumption DEF AcceptedBar, Shaped
  <2> QED
    BY <2>2, <2>3, <2>4, <2>5
<1>3. UNCHANGED <<queue, lossy, link, attempt, toCatchUp, sending, sent, mapped, admitted, rejected>>
  BY <1>2 DEF streamSide, admissionSide
<1>4. WindowLimit \in Nat \ {0} /\ Queue \in Nat \ {0} /\ Live \in Producers
  BY OnlineAssumption
<1>5. \A i \in 1..(n + 1 - d) :
        (i = n + 1 - d /\ after[i] = bar) \/ (i + d \in 1..n /\ after[i] = bars[i + d])
  <2>1. \A i \in 1..(n + 1 - d) : i + d \in 1..(n + 1) /\ (i + d = n + 1 => i = n + 1 - d)
    OBVIOUS
  <2> QED
    BY ONLY <1>2, <2>1
<1>6. Source(s)'
  <2>1. Len(after) # 0 /\ after[Len(after)] = bar
    <3>1. n + 1 - d \in 1..(n + 1 - d) /\ (n + 1 - d) + d = n + 1
      BY <1>2, <1>4
    <3> QED
      BY <1>2, <3>1
  <2>2. ASSUME NEW q \in Producers, NEW b \in Bar, accepting'[q] = <<b>>, b.symbol = s
        PROVE  q = Live /\ b = bar
    <3>1. q = Live
      BY <1>2, <2>2 DEF Streamed, Source
    <3> QED
      BY <1>2, <2>2, <3>1
  <2> QED
    BY <1>1, <1>2, <2>1, <2>2 DEF Source
<1>7. \A r \in admitted[s].identities : r.event.minute \in Nat /\ r.event.minute < m
  BY <1>1 DEF Streamed, Ascending
<1>8. Ascending(s)'
  <2>1. \A r \in admitted[s].identities : r.event.minute <= m
    BY <1>7
  <2> QED
    BY <1>2, <1>3, <1>7, <2>1 DEF Streamed, Ascending
<1>9. Gapless(s) => Gapless(s)'
  <2> SUFFICES ASSUME Gapless(s), NEW i \in 1..Len(after), NEW r \in admitted[s].identities,
                      Passes(after[i]), after[i].minute < r.event.minute
               PROVE  \E q \in admitted[s].identities : q.event.minute = after[i].minute
    BY <1>2, <1>3 DEF Gapless
  <2>1. i + d \in 1..n /\ after[i] = bars[i + d]
    BY <1>1, <1>2, <1>5, <1>7
  <2> QED
    BY <1>1, <2>1 DEF Gapless
<1>10. ASSUME Subscribed, Queued(s), Sending(s)
       PROVE  Queued(s)' /\ Sending(s)'
  <2>1. Sending(s)'
    <3>1. \A i \in 1..Len(sending) : sending[i].symbol = s =>
            sending[i].minute \in Nat /\ sending[i].minute <= old
      <4>1. \A i \in 1..Len(sending) : sending[i] \in Bar
        BY DEF Shaped
      <4>2. \A i \in 1..Len(sending) : sending[i].minute \in Nat
        BY <4>1, BarFields
      <4> QED
        BY <1>1, <1>10, <4>2 DEF Sending
    <3>2. \A i \in 1..Len(sending) : sending[i].symbol = s => sending[i].minute <= m
      BY <1>1, <3>1
    <3> QED
      BY <1>2, <1>3, <1>10, <3>2 DEF Sending
  <2>2. ASSUME NEW i \in 1..Len(queue), queue[i].symbol = s
        PROVE  /\ Passes(queue[i]) /\ queue[i].minute <= m /\ queue[i].minute < m
               /\ \E k \in 1..Len(after) :
                    after[k] = queue[i] /\ Len(after) - k <= Len(queue) - i + 1
    <3>1. queue[i].minute \in Nat /\ queue[i].minute <= old /\ Passes(queue[i])
      <4>1. queue[i] \in Bar
        BY DEF Shaped
      <4> QED
        BY <1>1, <1>10, <2>2, <4>1, BarFields DEF Queued
    <3>2. Len(queue) \in Nat /\ Len(queue) <= Queue
      BY DEF Shaped
    <3>3. Coming(s) = 0
      <4>1. \A b : <<>> # <<b>>
        OBVIOUS
      <4> QED
        BY <1>2, <4>1 DEF Coming
    <3>4. PICK k \in 1..n : bars[k] = queue[i] /\ n - k <= Len(queue) - i + 0
      BY <1>1, <1>10, <2>2, <3>3 DEF Queued
    <3>5. k - d \in 1..(n + 1 - d)
      <4>1. d = 1 => n - k < n - 1
        BY <1>2, <1>4, <3>2, <3>4
      <4> QED
        BY <3>4, <4>1
    <3>6. after[k - d] = bars[k]
      <4>1. (k - d) + d = k /\ k # n + 1
        BY <3>4
      <4>2. after[k - d] = IF (k - d) + d = n + 1 THEN bar ELSE bars[(k - d) + d]
        BY <1>2, <3>5
      <4> QED
        BY <4>1, <4>2
    <3>7. (n + 1 - d) - (k - d) <= Len(queue) - i + 1
      BY <3>2, <3>4
    <3>8. k - d \in 1..Len(after) /\ Len(after) - (k - d) <= Len(queue) - i + 1
      BY <1>2, <3>5, <3>7
    <3>9. queue[i].minute <= m /\ queue[i].minute < m
      BY <1>1, <3>1
    <3>10. after[k - d] = queue[i]
      BY <3>4, <3>6
    <3> QED
      BY <3>1, <3>8, <3>9, <3>10
  <2>3. Coming(s)' = 1 /\ \A b \in Bar : accepting'[Live] = <<b>> => b.minute = m
    BY <1>1, <1>2 DEF Coming
  <2>4. Queued(s)'
    <3>1. \A i, j \in 1..Len(queue) : i < j /\ queue[i].symbol = s /\ queue[j].symbol = s =>
            queue[i].minute < queue[j].minute
      BY <1>10 DEF Queued
    <3>2. \A i \in 1..Len(queue) : queue[i].symbol = s =>
            \A b \in Bar : accepting'[Live] = <<b>> => queue[i].minute < b.minute
      BY <2>2, <2>3
    <3>3. \A i \in 1..Len(queue) : queue[i].symbol = s =>
            \E k \in 1..Len(after) :
              after[k] = queue[i] /\ Len(after) - k <= Len(queue) - i + Coming(s)'
      BY ONLY <2>2, <2>3
    <3>4. queue' = queue /\ newest'[s] = m /\ window'[s] = after
      BY <1>2, <1>3
    <3>5. \A i \in 1..Len(queue) : queue[i].symbol = s =>
            Passes(queue[i]) /\ queue[i].minute <= m
      BY <2>2
    <3> QED
      BY ONLY <3>1, <3>2, <3>3, <3>4, <3>5 DEF Queued
  <2> QED
    BY <2>1, <2>4
<1>11. ASSUME NEW b, NEW x
       PROVE  (Known(s, b)' <=> Known(s, b)) /\ (Later(s, x)' <=> Later(s, x))
  BY <1>3 DEF Known, Later
<1>12. Due(s, bar)' /\ \A b : (Due(s, b) => Due(s, b)') /\ (Due(s, b)' => Due(s, b) \/ b = bar)
  <2>1. \A b : accepting'[Live] = <<b>> <=> b = bar
    BY <1>2
  <2>2. \A b : accepting[Live] # <<b>>
    BY <1>2
  <2> QED
    BY <1>3, <2>1, <2>2 DEF Due
<1>13. ASSUME Sending(s), Repeats(s)
       PROVE  Repeats(s)'
  <2>1. \A i \in 1..Len(sending) : sending[i].symbol = s =>
          sending[i].minute \in Nat /\ sending[i].minute < m
    <3>1. \A i \in 1..Len(sending) : sending[i] \in Bar
      BY DEF Shaped
    <3>2. \A i \in 1..Len(sending) : sending[i].minute \in Nat
      BY <3>1, BarFields
    <3> QED
      BY <1>1, <1>13, <3>2, SMTT(30) DEF Sending
  <2>2. Later(s, bar.minute)
    BY <1>1, <1>7, <2>1 DEF Later
  <2> QED
    BY <1>11, <1>12, <1>13, <2>2 DEF Repeats
<1>14. Covered(s) => Covered(s)'
  <2> SUFFICES ASSUME Covered(s), NEW i \in 1..Len(after), Passes(after[i])
               PROVE  Known(s, after[i])' \/ Due(s, after[i])'
    BY <1>2 DEF Covered
  <2>1. CASE after[i] = bar
    BY <1>12, <2>1
  <2>2. CASE after[i] # bar
    <3>1. i + d \in 1..n /\ after[i] = bars[i + d]
      BY <1>2, <1>5, <2>2
    <3>2. Known(s, bars[i + d]) \/ Due(s, bars[i + d])
      BY <1>1, <3>1 DEF Covered
    <3> QED
      BY <1>11, <1>12, <3>1, <3>2
  <2> QED
    BY <2>1, <2>2
<1> QED
  BY <1>3, <1>6, <1>8, <1>9, <1>10, <1>13, <1>14 DEF Streamed, Subscribed

LEMMA Slack ==
  ASSUME NEW l \in Nat, NEW k \in Int, NEW n \in Nat, NEW i \in Int, NEW d \in {0, 1},
         NEW a \in {0, 1}, NEW b \in {0, 1}, l - k <= n - (i + d) + a
  PROVE  l - k <= (n + 1 - d) - i + b
OBVIOUS

\* A bar that is fanned out is the newest of its symbol: it comes behind those
\* the queue holds, and if one is given up for it, that one's symbol is lossy.
LEMMA FannedBar ==
  ASSUME Shaped, Shaped', NEW p \in Producers, FanOut(p), NEW t \in Symbols, Streamed(t)
  PROVE  Streamed(t)'
<1>1. PICK bar \in Bar :
        /\ accepting[p] = <<bar>>
        /\ accepting' = [accepting EXCEPT ![p] = <<>>]
        /\ UNCHANGED <<newest, window, disturbed, streamSide, admissionSide>>
        /\ \/ ~(Subscribed /\ Passes(bar)) /\ queue' = queue /\ lossy' = lossy
           \/ /\ Subscribed /\ Passes(bar)
              /\ queue' \in Seq(Bar) /\ Len(queue') <= Queue
              /\ \/ Shifted(queue, queue', bar, 0) /\ lossy' = lossy
                 \/ /\ Len(queue) # 0
                    /\ Shifted(queue, queue', bar, 1)
                    /\ lossy' = lossy \union {queue[1].symbol}
  BY FanOutEffect
<1>2. UNCHANGED <<newest, window, link, attempt, toCatchUp, sending, sent, mapped, admitted, rejected>>
  BY <1>1 DEF streamSide, admissionSide
<1>3. lossy \subseteq lossy'
  BY <1>1
<1>4. /\ accepting'[p] = <<>> /\ Live \in Producers
      /\ \A r \in Producers \ {p} : accepting'[r] = accepting[r]
  BY <1>1, OnlineAssumption DEF Shaped
<1>5. \A r \in Producers : \A b : accepting'[r] = <<b>> => r # p /\ accepting[r] = <<b>>
  <2>1. \A b : <<>> # <<b>>
    OBVIOUS
  <2> QED
    BY <1>4, <2>1
<1>6. Source(t)'
  BY <1>2, <1>5 DEF Streamed, Source
<1>7. Ascending(t)' /\ (t \notin lossy' => Gapless(t)')
  BY <1>2, <1>3 DEF Streamed, Ascending, Gapless
<1>8. bar.symbol = t =>
        /\ p = Live /\ Passes(bar) /\ bar.minute = newest[t]
        /\ Len(window[t]) # 0 /\ window[t][Len(window[t])] = bar
  BY <1>1 DEF Streamed, Source
<1>9. CASE ~(Subscribed /\ Passes(bar)) /\ queue' = queue /\ lossy' = lossy
  <2>1. CASE bar.symbol = t
    <3>1. ~Subscribed'
      BY <1>2, <1>8, <1>9, <2>1 DEF Subscribed
    <3> QED
      BY <1>6, <1>7, <3>1 DEF Streamed
  <2>2. CASE bar.symbol # t
    <3>1. \A q \in Producers, b \in Bar : b.symbol = t =>
            (accepting'[q] = <<b>> <=> accepting[q] = <<b>>)
      <4>1. \A b \in Bar : b.symbol = t => accepting[p] # <<b>>
        BY <1>1, <2>2
      <4> QED
        BY <1>4, <1>5, <4>1
    <3> QED
      BY <1>1, <1>2, <1>9, <3>1, OtherBars
  <2> QED
    BY <2>1, <2>2
<1>10. ASSUME Subscribed, Passes(bar),
              \/ Shifted(queue, queue', bar, 0) /\ lossy' = lossy
              \/ /\ Len(queue) # 0
                 /\ Shifted(queue, queue', bar, 1)
                 /\ lossy' = lossy \union {queue[1].symbol}
       PROVE  /\ Queued(t)' /\ Sending(t)'
              /\ t \notin toCatchUp' /\ rejected'[t] = 0 =>
                   Repeats(t)' /\ (t \notin lossy' => Covered(t)')
  <2>1. PICK n \in Nat : n = Len(queue)
    BY DEF Shaped
  <2>2. PICK d \in {0, 1} :
          /\ Len(queue') = n + 1 - d
          /\ \A i \in 1..(n + 1 - d) : queue'[i] = IF i + d = n + 1 THEN bar ELSE queue[i + d]
          /\ d = 1 => n # 0 /\ queue[1].symbol \in lossy'
    BY <1>10, <2>1 DEF Shifted
  <2>3. \A i \in 1..(n + 1 - d) :
          (i = n + 1 - d /\ queue'[i] = bar) \/ (i + d \in 1..n /\ queue'[i] = queue[i + d])
    <3>1. \A i \in 1..(n + 1 - d) : i + d \in 1..(n + 1) /\ (i + d = n + 1 => i = n + 1 - d)
      OBVIOUS
    <3> QED
      BY <2>2, <3>1
  <2>4. \A i \in 1..n : queue[i] \in Bar
    BY <2>1 DEF Shaped
  <2>5. Queued(t) /\ Sending(t)
    BY <1>10 DEF Streamed
  <2>6. Coming(t) \in {0, 1} /\ Coming(t)' \in {0, 1}
    BY DEF Coming
  <2>7. Queued(t)'
    <3>1. ASSUME NEW i \in 1..(n + 1 - d), NEW j \in 1..(n + 1 - d), i < j,
                 queue'[i].symbol = t, queue'[j].symbol = t
          PROVE  queue'[i].minute < queue'[j].minute
      <4>1. i + d \in 1..n /\ queue'[i] = queue[i + d]
        BY <2>3, <3>1
      <4>2. CASE j = n + 1 - d /\ queue'[j] = bar
        BY <1>1, <1>8, <2>1, <2>5, <3>1, <4>1, <4>2 DEF Queued
      <4>3. CASE j + d \in 1..n /\ queue'[j] = queue[j + d]
        <5>1. i + d < j + d
          BY <3>1
        <5> QED
          BY <2>1, <2>5, <3>1, <4>1, <4>3, <5>1 DEF Queued
      <4> QED
        BY <2>3, <4>2, <4>3
    <3>2. ASSUME NEW i \in 1..(n + 1 - d), queue'[i].symbol = t
          PROVE  /\ Passes(queue'[i]) /\ queue'[i].minute <= newest[t]
                 /\ \A b \in Bar : accepting'[Live] = <<b>> /\ b.symbol = t =>
                      queue'[i].minute < b.minute
                 /\ \E k \in 1..Len(window[t]) :
                      /\ window[t][k] = queue'[i]
                      /\ Len(window[t]) - k <= (n + 1 - d) - i + Coming(t)'
      <4>1. Len(window[t]) \in Nat /\ newest[t] \in Nat
        BY DEF Shaped
      <4>2. CASE i = n + 1 - d /\ queue'[i] = bar
        <5>1. \A b : accepting'[Live] # <<b>>
          BY <1>5, <1>8, <3>2, <4>2
        <5>2. /\ Len(window[t]) \in 1..Len(window[t])
              /\ Len(window[t]) - Len(window[t]) <= (n + 1 - d) - i + Coming(t)'
          BY <1>8, <2>6, <3>2, <4>1, <4>2
        <5>3. queue'[i].minute = newest[t] /\ window[t][Len(window[t])] = queue'[i]
          BY <1>8, <3>2, <4>2
        <5>4. \E k \in 1..Len(window[t]) :
                /\ window[t][k] = queue'[i]
                /\ Len(window[t]) - k <= (n + 1 - d) - i + Coming(t)'
          BY <5>2, <5>3
        <5>5. Passes(queue'[i]) /\ queue'[i].minute <= newest[t]
          BY <1>8, <3>2, <4>1, <4>2, <5>3
        <5> QED
          BY <5>1, <5>4, <5>5
      <4>3. CASE i + d \in 1..n /\ queue'[i] = queue[i + d]
        <5>1. PICK k \in 1..Len(window[t]) :
                /\ window[t][k] = queue'[i]
                /\ Len(window[t]) - k <= n - (i + d) + Coming(t)
          BY <2>1, <2>5, <3>2, <4>3 DEF Queued
        <5>2. Len(window[t]) - k <= (n + 1 - d) - i + Coming(t)'
          <6>1. k \in Int /\ i \in Int
            BY <4>1
          <6> QED
            BY <2>6, <4>1, <5>1, <6>1, Slack
        <5>3. Passes(queue'[i]) /\ queue'[i].minute <= newest[t]
          BY <2>1, <2>5, <3>2, <4>3 DEF Queued
        <5>4. \A b \in Bar : accepting'[Live] = <<b>> /\ b.symbol = t =>
                queue'[i].minute < b.minute
          BY <1>4, <1>5, <2>1, <2>5, <3>2, <4>3 DEF Queued
        <5> QED
          BY <5>1, <5>2, <5>3, <5>4
      <4> QED
        BY <2>3, <4>2, <4>3
    <3> QED
      BY <1>2, <2>2, <3>1, <3>2 DEF Queued
  <2>8. Sending(t)'
    BY <1>2, <2>5 DEF Sending
  <2>9. \A b, x : (Known(t, b)' <=> Known(t, b)) /\ (Later(t, x)' <=> Later(t, x))
    BY <1>2 DEF Known, Later
  <2>10. ASSUME NEW b, Due(t, b)' PROVE Due(t, b)
    <3>1. CASE \E i \in 1..Len(queue') : queue'[i] = b
      <4>1. PICK i \in 1..(n + 1 - d) : queue'[i] = b
        BY <2>2, <3>1
      <4>2. b.symbol = t
        BY <2>10 DEF Due
      <4>3. CASE queue'[i] = bar
        BY <1>1, <1>8, <4>1, <4>2, <4>3 DEF Due
      <4>4. CASE i + d \in 1..n /\ queue'[i] = queue[i + d]
        BY <2>1, <4>1, <4>2, <4>4 DEF Due
      <4> QED
        BY <2>3, <4>3, <4>4
    <3>2. CASE accepting'[Live] = <<b>>
      BY <1>4, <1>5, <2>10, <3>2 DEF Due
    <3> QED
      BY <2>10, <3>1, <3>2 DEF Due
  <2>11. ASSUME NEW b, Due(t, b), t \notin lossy' PROVE Due(t, b)'
    <3>1. b.symbol = t
      BY <2>11 DEF Due
    <3>2. CASE \E i \in 1..n : queue[i] = b
      <4>1. PICK i \in 1..n : queue[i] = b
        BY <3>2
      <4>2. ~(d = 1 /\ i = 1)
        BY <2>2, <2>11, <3>1, <4>1
      <4>3. i - d \in 1..(n + 1 - d) /\ (i - d) + d = i /\ i # n + 1
        BY <4>2
      <4>4. queue'[i - d] = queue[i]
        <5>1. queue'[i - d] = IF (i - d) + d = n + 1 THEN bar ELSE queue[(i - d) + d]
          BY <2>2, <4>3
        <5> QED
          BY <4>3, <5>1
      <4> QED
        BY <2>2, <3>1, <4>1, <4>3, <4>4 DEF Due
    <3>3. CASE accepting[Live] = <<b>>
      <4>1. CASE p = Live
        <5>1. b = bar
          BY <1>1, <3>3, <4>1
        <5>2. n + 1 - d \in 1..(n + 1 - d) /\ (n + 1 - d) + d = n + 1
          BY <2>2
        <5>3. queue'[n + 1 - d] = bar
          BY <2>2, <5>2
        <5>4. n + 1 - d \in 1..Len(queue')
          BY <2>2, <5>2
        <5> QED
          BY <3>1, <5>1, <5>3, <5>4 DEF Due
      <4>2. CASE p # Live
        BY <1>4, <3>1, <3>3, <4>2 DEF Due
      <4> QED
        BY <4>1, <4>2
    <3> QED
      BY <2>1, <2>11, <3>2, <3>3 DEF Due
  <2>12. Repeats(t) => Repeats(t)'
    BY <2>9, <2>10 DEF Repeats
  <2>13. Covered(t) /\ t \notin lossy' => Covered(t)'
    BY <1>2, <2>9, <2>11 DEF Covered
  <2> QED
    BY <1>2, <1>3, <1>10, <2>7, <2>8, <2>12, <2>13 DEF Streamed
<1> QED
  BY <1>1, <1>2, <1>6, <1>7, <1>9, <1>10 DEF Streamed, Subscribed

-----------------------------------------------------------------------------
(* The steps of the stream, for one symbol.                                *)

\* The stream is opened, and nothing has been received on it: a symbol of which
\* no bar is waiting to be fanned out is in good order, whatever happened before.
LEMMA OpenedStream ==
  ASSUME Shaped, Progress, OpenStream, NEW t \in Symbols \ disturbed'
  PROVE  Streamed(t)'
<1>1. /\ link = "idle" /\ link' = "subscribed" /\ toCatchUp' = Symbols /\ sending' = <<>>
      /\ UNCHANGED <<newest, window, accepting, queue, lossy, mapped, admitted, rejected>>
      /\ ~Pending(t)
  BY DEF OpenStream, admissionSide
<1>2. queue = <<>> /\ Fresh(t)
  BY <1>1 DEF Progress
<1>3. ASSUME NEW p \in Producers, NEW bar \in Bar, accepting[p] = <<bar>>, bar.symbol = t
      PROVE  FALSE
  <2>1. accepting[p] # <<>> /\ Head(accepting[p]) = bar
    BY <1>3
  <2> QED
    BY <1>1, <1>3, <2>1 DEF Pending
<1>4. Source(t)'
  BY <1>1, <1>3 DEF Source
<1>5. admitted'[t].identities = {}
  BY <1>1, <1>2 DEF Fresh, NewEntityState
<1>6. Ascending(t)' /\ Gapless(t)'
  BY <1>5 DEF Ascending, Gapless
<1>7. Queued(t)' /\ Sending(t)'
  <2>1. Len(queue') = 0 /\ Len(sending') = 0
    BY <1>1, <1>2
  <2> QED
    BY <2>1 DEF Queued, Sending
<1> QED
  BY <1>1, <1>4, <1>6, <1>7 DEF Streamed

\* The window read is what there is to send; a bar that is still queued, or not
\* fanned out yet, is in it.
LEMMA WindowRead ==
  ASSUME Shaped, WindowsKept, Progress, NEW s \in Symbols, ReadWindow(s), NEW t \in Symbols,
         Streamed(t)
  PROVE  Streamed(t)'
<1>1. /\ link = "subscribed" /\ sending = <<>> /\ s \in toCatchUp
      /\ sending' = window[s] /\ toCatchUp' = toCatchUp \ {s}
      /\ UNCHANGED <<newest, window, accepting, queue, lossy, link, mapped, admitted, rejected>>
  BY DEF ReadWindow, feedSide, admissionSide
<1>2. Source(t)' /\ Ascending(t)' /\ (t \notin lossy' => Gapless(t)') /\ Subscribed
  BY <1>1 DEF Streamed, Source, Ascending, Gapless, Subscribed
<1>3. Queued(t) /\ Queued(t)' /\ Source(t)
  BY <1>1, <1>2 DEF Streamed, Queued, Coming
<1>4. /\ Len(sending) = 0
      /\ \A i, j \in 1..Len(sending') : i < j => sending'[i].minute < sending'[j].minute
      /\ \A i \in 1..Len(sending') : sending'[i].symbol = s /\ sending'[i].minute <= newest[s]
  BY <1>1 DEF WindowsKept, Kept
<1>5. CASE t # s
  <2>1. Sending(t)'
    BY <1>4, <1>5 DEF Sending
  <2>2. \A b, x : /\ Known(t, b)' <=> Known(t, b)
                  /\ Later(t, x)' <=> Later(t, x)
                  /\ Due(t, b)' <=> Due(t, b)
    BY <1>1, <1>4, <1>5 DEF Known, Later, Due
  <2>3. (Repeats(t) => Repeats(t)') /\ (Covered(t) => Covered(t)')
    BY <1>1, <2>2 DEF Repeats, Covered
  <2> QED
    BY <1>1, <1>2, <1>3, <1>5, <2>1, <2>3 DEF Streamed
<1>6. CASE t = s
  <2>1. admitted[t].identities = {}
    BY <1>1, <1>6 DEF Progress, Fresh, NewEntityState
  <2>2. Sending(t)'
    BY <1>1, <1>4, <1>6, <2>1 DEF Sending
  <2>3. \A i \in 1..Len(window[t]) : \E j \in 1..Len(sending') :
          sending'[j].symbol = t /\ sending'[j] = window[t][i]
    BY <1>1, <1>4, <1>6
  <2>4. Covered(t)'
    BY <1>1, <2>3 DEF Covered, Known
  <2>5. ASSUME NEW b \in Bar, Due(t, b)'
        PROVE  Known(t, b)'
    <3>1. b.symbol = t
      BY <2>5 DEF Due
    <3>2. CASE \E i \in 1..Len(queue) : queue[i] = b
      <4>1. PICK k \in 1..Len(window[t]) : window[t][k] = b
        BY <1>3, <3>1, <3>2 DEF Queued
      <4> QED
        BY <2>3, <4>1 DEF Known
    <3>3. CASE accepting[Live] = <<b>>
      <4>1. Len(window[t]) # 0 /\ window[t][Len(window[t])] = b
        BY <1>3, <3>1, <3>3, OnlineAssumption DEF Source
      <4>2. Len(window[t]) \in 1..Len(window[t])
        BY <4>1 DEF Shaped
      <4> QED
        BY <2>3, <4>1, <4>2 DEF Known
    <3> QED
      BY <1>1, <2>5, <3>2, <3>3 DEF Due
  <2>6. Repeats(t)'
    BY <2>5 DEF Repeats
  <2> QED
    BY <1>2, <1>3, <2>2, <2>4, <2>6 DEF Streamed
<1> QED
  BY <1>5, <1>6

LEMMA WindowsThrough ==
  ASSUME CaughtUp, NEW t \in Symbols, Streamed(t)
  PROVE  Streamed(t)'
<1>1. /\ link = "subscribed" /\ link' = "live"
      /\ UNCHANGED <<newest, window, accepting, queue, lossy, toCatchUp, sending,
                     mapped, admitted, rejected>>
  BY DEF CaughtUp, feedSide, admissionSide
<1>2. Subscribed /\ Subscribed'
  BY <1>1 DEF Subscribed
<1>3. Source(t)' /\ Ascending(t)' /\ (Gapless(t) => Gapless(t)') /\ (Queued(t) => Queued(t)')
  BY <1>1 DEF Streamed, Source, Ascending, Gapless, Queued, Coming
<1>4. /\ Sending(t) => Sending(t)'
      /\ \A b, x : /\ Known(t, b)' <=> Known(t, b)
                   /\ Later(t, x)' <=> Later(t, x)
                   /\ Due(t, b)' <=> Due(t, b)
  BY <1>1 DEF Sending, Known, Later, Due
<1>5. (Repeats(t) => Repeats(t)') /\ (Covered(t) => Covered(t)')
  BY <1>1, <1>4 DEF Repeats, Covered
<1> QED
  BY <1>1, <1>2, <1>3, <1>4, <1>5 DEF Streamed

\* Without a subscription there is no queue and nothing to send.
LEMMA StreamGone ==
  ASSUME UNCHANGED <<newest, window, accepting, lossy, admissionSide>>, ~Subscribed',
         NEW t \in Symbols, Streamed(t)
  PROVE  Streamed(t)'
BY DEF Streamed, Source, Ascending, Gapless, admissionSide

LEMMA TailLoses ==
  ASSUME NEW S, NEW all \in Seq(S), all # <<>>
  PROVE  \E n \in Nat : /\ Len(all) = n + 1 /\ all[1] \in S /\ Head(all) = all[1]
                        /\ Tail(all) \in Seq(S) /\ Len(Tail(all)) = n
                        /\ \A i \in 1..n : Tail(all)[i] = all[i + 1]
<1>1. Len(all) \in Nat /\ Len(all) # 0
  OBVIOUS
<1>2. PICK n \in Nat : Len(all) = n + 1
  <2>1. Len(all) - 1 \in Nat /\ Len(all) = (Len(all) - 1) + 1
    BY <1>1
  <2> QED
    BY <2>1
<1>3. Tail(all) \in Seq(S) /\ Len(Tail(all)) = Len(all) - 1
  BY <1>1
<1>4. \A i \in 1..(Len(all) - 1) : Tail(all)[i] = all[i + 1]
  BY <1>1
<1>5. all[1] \in S /\ Head(all) = all[1]
  BY <1>1
<1> QED
  BY <1>2, <1>3, <1>4, <1>5

LEMMA CountSentEffect ==
  ASSUME CountSent PROVE link' = link \/ link' = "ended"
BY DEF CountSent

\* after is before without its first bar.
FirstGone(before, after, n, bar) ==
  /\ Len(before) = n + 1 /\ Len(after) = n /\ bar = before[1]
  /\ \A i \in 1..n : i + 1 \in 1..(n + 1) /\ after[i] = before[i + 1]
  /\ 1 \in 1..(n + 1)
  /\ \A i \in 1..(n + 1) : i = 1 \/ (i - 1 \in 1..n /\ before[i] = after[i - 1])

LEMMA TailEffect ==
  ASSUME NEW before \in Seq(Bar), before # <<>>, NEW after, after = Tail(before)
  PROVE  \E n \in Nat, bar \in Bar :
           bar = Head(before) /\ after \in Seq(Bar) /\ FirstGone(before, after, n, bar)
<1>1. PICK n \in Nat :
        /\ Len(before) = n + 1 /\ before[1] \in Bar /\ Head(before) = before[1]
        /\ after \in Seq(Bar) /\ Len(after) = n
        /\ \A i \in 1..n : after[i] = before[i + 1]
  BY TailLoses
<1>2. \A i \in 1..n : i + 1 \in 1..(n + 1)
  OBVIOUS
<1>3. \A i \in 1..(n + 1) : i = 1 \/ (i - 1 \in 1..n /\ (i - 1) + 1 = i)
  OBVIOUS
<1>4. 1 \in 1..(n + 1)
  OBVIOUS
<1>5. FirstGone(before, after, n, before[1])
  BY <1>1, <1>2, <1>3, <1>4 DEF FirstGone
<1> QED
  BY <1>1, <1>5

\* The rest of a window is in order as the window was.
LEMMA RestAscends ==
  ASSUME NEW n \in Nat, NEW bar, FirstGone(sending, sending', n, bar), NEW t \in Symbols,
         Sending(t),
         NEW i \in 1..Len(sending'), NEW j \in 1..Len(sending'), i < j,
         sending'[i].symbol = t, sending'[j].symbol = t
  PROVE  sending'[i].minute < sending'[j].minute
<1>1. /\ i + 1 \in 1..Len(sending) /\ sending'[i] = sending[i + 1]
      /\ j + 1 \in 1..Len(sending) /\ sending'[j] = sending[j + 1]
  BY DEF FirstGone
<1>2. i + 1 < j + 1
  BY DEF FirstGone
<1> QED
  BY <1>1, <1>2 DEF Sending

\* An unfinished bar that the stream does not want is no loss for it.
LEMMA WindowSkipped ==
  ASSUME Shaped, SkipUnfinished, NEW t \in Symbols, Streamed(t)
  PROVE  Streamed(t)'
<1>1. /\ link = "subscribed" /\ sending # <<>> /\ sending' = Tail(sending)
      /\ ~Passes(Head(sending))
      /\ UNCHANGED <<newest, window, accepting, queue, lossy, link, toCatchUp,
                     mapped, admitted, rejected>>
  BY DEF SkipUnfinished, feedSide, admissionSide
<1>2. PICK n \in Nat, bar \in Bar : FirstGone(sending, sending', n, bar) /\ bar = Head(sending)
  BY <1>1, TailEffect DEF Shaped
<1>3. Subscribed /\ Queued(t) /\ Sending(t) /\ Source(t) /\ Ascending(t)
  BY <1>1 DEF Subscribed, Streamed
<1>4. Source(t)' /\ Queued(t)' /\ Ascending(t)' /\ (Gapless(t) => Gapless(t)')
  BY <1>1, <1>3 DEF Source, Queued, Coming, Ascending, Gapless
<1>5. Sending(t)'
  <2>1. ASSUME NEW i \in 1..Len(sending'), sending'[i].symbol = t
        PROVE  /\ sending'[i].minute <= newest[t]
               /\ \A r \in admitted[t].identities : r.event.minute < sending'[i].minute
    <3>1. i + 1 \in 1..Len(sending) /\ sending'[i] = sending[i + 1]
      BY <1>2 DEF FirstGone
    <3> QED
      BY <1>3, <2>1, <3>1 DEF Sending
  <2> QED
    BY <1>1, <1>2, <1>3, <2>1, RestAscends DEF Sending
<1>6. \A b : Due(t, b)' <=> Due(t, b)
  BY <1>1 DEF Due
<1>7. ASSUME NEW b, Passes(b), Known(t, b) PROVE Known(t, b)'
  <2>1. b # bar
    BY <1>1, <1>2, <1>7
  <2>2. ASSUME NEW i \in 1..Len(sending), sending[i].symbol = t, sending[i] = b
        PROVE  \E j \in 1..Len(sending') : sending'[j].symbol = t /\ sending'[j] = b
    <3>1. i - 1 \in 1..Len(sending') /\ sending[i] = sending'[i - 1]
      BY <1>2, <2>1, <2>2 DEF FirstGone
    <3> QED
      BY <2>2, <3>1
  <2> QED
    BY <1>1, <1>7, <2>2 DEF Known
<1>8. ASSUME NEW x, Later(t, x) PROVE Later(t, x)'
  <2>1. ASSUME NEW i \in 1..Len(sending'), sending'[i].symbol = t PROVE sending'[i].minute < x
    <3>1. i + 1 \in 1..Len(sending) /\ sending'[i] = sending[i + 1]
      BY <1>2 DEF FirstGone
    <3> QED
      BY <1>8, <2>1, <3>1 DEF Later
  <2> QED
    BY <1>1, <1>8, <2>1 DEF Later
<1>9. \A b \in Bar : Due(t, b) => Passes(b)
  BY <1>3, OnlineAssumption DEF Due, Queued, Source
<1>10. Repeats(t) => Repeats(t)'
  BY <1>6, <1>7, <1>8, <1>9 DEF Repeats
<1>11. Covered(t) => Covered(t)'
  BY <1>1, <1>6, <1>7 DEF Covered
<1> QED
  BY <1>1, <1>3, <1>4, <1>5, <1>10, <1>11 DEF Streamed

\* Sending the window: its first bar is later than all that was admitted, and
\* earlier than the rest.
LEMMA SentFromWindow ==
  ASSUME Shaped, Progress, AdmissionInv, SendCatchUp, NEW t \in Symbols, Streamed(t)
  PROVE  Streamed(t)'
<1>1. /\ link = "subscribed" /\ sending # <<>> /\ sending' = Tail(sending)
      /\ Receive(Event(Head(sending))) /\ (link' = link \/ link' = "ended")
      /\ UNCHANGED <<newest, window, accepting, queue, lossy, toCatchUp>>
  BY CountSentEffect DEF SendCatchUp, feedSide
<1>2. PICK n \in Nat, bar \in Bar : FirstGone(sending, sending', n, bar) /\ bar = Head(sending)
  BY <1>1, TailEffect DEF Shaped
<1>3. PICK s, event :
        /\ s \in Symbols /\ s = bar.symbol /\ event = Event(bar)
        /\ event.symbol = s /\ event.minute = bar.minute /\ Receive(event)
  BY <1>1, <1>2, BarFields, EventFields
<1>4. Subscribed /\ Queued(t) /\ Sending(t) /\ Source(t) /\ Ascending(t)
  BY <1>1 DEF Subscribed, Streamed
<1>5. Source(t)' /\ Queued(t)'
  BY <1>1, <1>4 DEF Source, Queued, Coming
<1>6. \A b : Due(t, b)' <=> Due(t, b)
  BY <1>1 DEF Due
<1>7. \A i, j \in 1..Len(sending') : i < j /\ sending'[i].symbol = t /\ sending'[j].symbol = t =>
        sending'[i].minute < sending'[j].minute
  BY <1>2, <1>4, RestAscends
<1>8. \A i \in 1..Len(sending') : i + 1 \in 1..Len(sending) /\ sending'[i] = sending[i + 1]
  BY <1>2 DEF FirstGone
<1>9. \A i \in 1..Len(sending) : i = 1 \/ (i - 1 \in 1..Len(sending') /\ sending[i] = sending'[i - 1])
  BY <1>2 DEF FirstGone
<1>10. 1 \in 1..Len(sending) /\ sending[1] = bar /\ Len(sending) = n + 1
  BY <1>2 DEF FirstGone
<1>11. \/ t = s /\ \E new : AdmittedLast(t, event, new)
       \/ admitted'[t] = admitted[t] /\ rejected'[t] > 0
       \/ t # s /\ admitted'[t] = admitted[t] /\ rejected'[t] = rejected[t]
  BY <1>3, ReceiveEffect
<1>12. ASSUME admitted'[t] = admitted[t]
       PROVE  Ascending(t)' /\ (Gapless(t) => Gapless(t)') /\ Sending(t)'
  <2>1. Ascending(t)' /\ (Gapless(t) => Gapless(t)')
    BY <1>1, <1>4, <1>12 DEF Ascending, Gapless
  <2>2. Sending(t)'
    BY <1>1, <1>4, <1>7, <1>8, <1>12 DEF Sending
  <2> QED
    BY <2>1, <2>2
<1>13. CASE admitted'[t] = admitted[t] /\ rejected'[t] > 0
  <2>1. rejected'[t] # 0
    BY <1>13
  <2> QED
    BY <1>1, <1>4, <1>5, <1>12, <1>13, <2>1 DEF Streamed
<1>14. CASE t # s /\ admitted'[t] = admitted[t] /\ rejected'[t] = rejected[t]
  <2>1. ASSUME NEW i \in 1..Len(sending), sending[i].symbol = t
        PROVE  i - 1 \in 1..Len(sending') /\ sending[i] = sending'[i - 1]
    BY <1>3, <1>9, <1>10, <1>14, <2>1
  <2>2. ASSUME NEW b, NEW x
        PROVE  (Known(t, b)' <=> Known(t, b)) /\ (Later(t, x)' <=> Later(t, x))
    <3>1. Known(t, b)' => Known(t, b)
      BY <1>8, <1>14 DEF Known
    <3>2. Known(t, b) => Known(t, b)'
      BY <1>14, <2>1 DEF Known
    <3>3. Later(t, x)' => Later(t, x)
      BY <1>14, <2>1 DEF Later
    <3>4. Later(t, x) => Later(t, x)'
      BY <1>8, <1>14 DEF Later
    <3> QED
      BY <3>1, <3>2, <3>3, <3>4
  <2>3. (Repeats(t) => Repeats(t)') /\ (Covered(t) => Covered(t)')
    BY <1>1, <1>6, <2>2 DEF Repeats, Covered
  <2> QED
    BY <1>1, <1>4, <1>5, <1>12, <1>14, <2>3 DEF Streamed
<1>15. ASSUME NEW new, t = s, AdmittedLast(t, event, new)
       PROVE  Streamed(t)'
  <2>1. /\ new.event = event /\ new.event.minute = bar.minute /\ rejected[t] = 0
        /\ admitted'[t].identities = admitted[t].identities \union {new}
        /\ \A r \in admitted[t].identities : ~(new.no < r.no)
        /\ ~(new.no < new.no)
    BY <1>3, <1>15 DEF AdmittedLast
  <2>2. /\ bar.symbol = t /\ bar.minute \in Nat /\ bar.minute <= newest[t]
        /\ \A r \in admitted[t].identities : r.event.minute < bar.minute
    BY <1>3, <1>4, <1>10, <1>15, BarFields DEF Sending
  <2>3. \A i \in 2..(n + 1) : sending[i].symbol = t => bar.minute < sending[i].minute
    BY <1>4, <1>10, <2>2 DEF Sending
  <2>4. Repeats(t) /\ (t \notin lossy => Covered(t))
    <3>1. t \notin toCatchUp
      BY <1>1, <1>10, <2>2 DEF Progress
    <3> QED
      BY <1>4, <2>1, <3>1 DEF Streamed
  <2>5. Ascending(t)'
    <3>1. ASSUME NEW q \in admitted'[t].identities, NEW r \in admitted'[t].identities, q.no < r.no
          PROVE  q.event.minute < r.event.minute
      <4>1. q \in admitted[t].identities
        BY <2>1, <3>1
      <4>2. CASE r = new
        BY <2>1, <2>2, <4>1, <4>2
      <4>3. CASE r \in admitted[t].identities
        BY <1>4, <3>1, <4>1, <4>3 DEF Ascending
      <4> QED
        BY <2>1, <4>2, <4>3
    <3>2. \A r \in admitted'[t].identities :
            r.event.minute \in Nat /\ r.event.minute <= newest[t]
      BY <1>4, <2>1, <2>2 DEF Ascending
    <3> QED
      BY <1>1, <3>1, <3>2 DEF Ascending
  <2>6. Sending(t)'
    <3>1. ASSUME NEW i \in 1..Len(sending'), sending'[i].symbol = t
          PROVE  /\ sending'[i].minute <= newest[t]
                 /\ \A r \in admitted'[t].identities : r.event.minute < sending'[i].minute
      <4>1. /\ i + 1 \in 2..(n + 1) /\ i + 1 \in 1..Len(sending)
            /\ sending'[i] = sending[i + 1]
        BY <1>8, <1>10
      <4>2. bar.minute < sending'[i].minute
        BY <2>3, <3>1, <4>1
      <4>3. /\ sending'[i].minute <= newest[t]
            /\ \A r \in admitted[t].identities : r.event.minute < sending'[i].minute
        BY <1>4, <3>1, <4>1 DEF Sending
      <4> QED
        BY <2>1, <4>2, <4>3
    <3> QED
      BY <1>1, <1>7, <3>1 DEF Sending
  <2>7. ASSUME NEW b, Known(t, b) PROVE Known(t, b)'
    <3>1. CASE \E r \in admitted[t].identities : r.event = Event(b)
      BY <2>1, <3>1 DEF Known
    <3>2. CASE \E i \in 1..Len(sending) : sending[i].symbol = t /\ sending[i] = b
      <4>1. PICK i \in 1..Len(sending) : sending[i].symbol = t /\ sending[i] = b
        BY <3>2
      <4>2. CASE i = 1
        <5>1. new \in admitted'[t].identities /\ new.event = Event(b)
          BY <1>3, <1>10, <2>1, <4>1, <4>2
        <5> QED
          BY <5>1 DEF Known
      <4>3. CASE i - 1 \in 1..Len(sending') /\ sending[i] = sending'[i - 1]
        BY <4>1, <4>3 DEF Known
      <4> QED
        BY <1>9, <4>2, <4>3
    <3> QED
      BY <2>7, <3>1, <3>2 DEF Known
  <2>8. ASSUME NEW x, Later(t, x)
        PROVE  Later(t, x)' /\ bar.minute < x
    <3>1. bar.minute < x
      BY <1>10, <2>2, <2>8 DEF Later
    <3>2. \A i \in 1..Len(sending') : sending'[i].symbol = t => sending'[i].minute < x
      BY <1>8, <2>8 DEF Later
    <3>3. \A r \in admitted'[t].identities : r.event.minute < x
      BY <2>1, <2>8, <3>1 DEF Later
    <3> QED
      BY <3>1, <3>2, <3>3 DEF Later
  <2>9. Repeats(t)' /\ (t \notin lossy => Covered(t)')
    BY <1>1, <1>6, <2>4, <2>7, <2>8 DEF Repeats, Covered
  <2>10. ASSUME t \notin lossy, Gapless(t) PROVE Gapless(t)'
    <3> SUFFICES ASSUME NEW i \in 1..Len(window[t]), NEW r \in admitted'[t].identities,
                        Passes(window[t][i]), window[t][i].minute < r.event.minute
                 PROVE  \E q \in admitted'[t].identities :
                          q.event.minute = window[t][i].minute
      BY <1>1 DEF Gapless
    <3>1. CASE r \in admitted[t].identities
      BY <2>1, <2>10, <3>1 DEF Gapless
    <3>2. CASE r = new
      <4>1. PICK w \in Bar : w = window[t][i] /\ w.minute \in Nat /\ w.minute < bar.minute
        BY <2>1, <3>2, BarFields DEF Shaped
      <4>2. ~Later(t, w.minute)
        <5>1. ~(bar.minute < w.minute)
          BY <2>2, <4>1
        <5> QED
          BY <2>8, <5>1
      <4>3. Known(t, w)
        BY <2>4, <2>10, <4>1, <4>2 DEF Covered, Repeats
      <4>4. ASSUME NEW j \in 1..Len(sending), sending[j].symbol = t, sending[j] = w
            PROVE  FALSE
        <5>1. j = 1 \/ j \in 2..(n + 1)
          BY <1>10
        <5> QED
          BY <1>10, <2>2, <2>3, <4>1, <4>4, <5>1
      <4>5. PICK q \in admitted[t].identities : q.event = Event(w)
        BY <4>3, <4>4 DEF Known
      <4> QED
        BY <2>1, <4>1, <4>5, EventFields
    <3> QED
      BY <2>1, <3>1, <3>2
  <2> QED
    BY <1>1, <1>4, <1>5, <2>5, <2>6, <2>9, <2>10 DEF Streamed
<1>16. CASE t = s /\ \E new : AdmittedLast(t, event, new)
  BY <1>15, <1>16
<1> QED
  BY <1>11, <1>13, <1>14, <1>16

\* Sending from the queue: the windows are through, so its first bar was admitted
\* before or is later than all that was.
LEMMA SentFromQueue ==
  ASSUME Shaped, Progress, AdmissionInv, SendLive, NEW t \in Symbols, Streamed(t)
  PROVE  Streamed(t)'
<1>1. /\ link = "live" /\ queue # <<>> /\ queue' = Tail(queue)
      /\ Receive(Event(Head(queue))) /\ (link' = link \/ link' = "ended")
      /\ UNCHANGED <<newest, window, accepting, lossy, toCatchUp, sending>>
  BY CountSentEffect DEF SendLive
<1>2. PICK n \in Nat, bar \in Bar : FirstGone(queue, queue', n, bar) /\ bar = Head(queue)
  BY <1>1, TailEffect DEF Shaped
<1>3. PICK s, event :
        /\ s \in Symbols /\ s = bar.symbol /\ event = Event(bar)
        /\ event.symbol = s /\ event.minute = bar.minute /\ Receive(event)
  BY <1>1, <1>2, BarFields, EventFields
<1>4. \A i \in 1..Len(queue') : i + 1 \in 1..Len(queue) /\ queue'[i] = queue[i + 1]
  BY <1>2 DEF FirstGone
<1>5. \A i \in 1..Len(queue) : i = 1 \/ (i - 1 \in 1..Len(queue') /\ queue[i] = queue'[i - 1])
  BY <1>2 DEF FirstGone
<1>6. 1 \in 1..Len(queue) /\ queue[1] = bar /\ Len(queue) = n + 1 /\ Len(queue') = n
  BY <1>2 DEF FirstGone
<1>7. Subscribed /\ Queued(t) /\ Sending(t) /\ Source(t) /\ Ascending(t)
  BY <1>1 DEF Subscribed, Streamed
<1>8. sending = <<>> /\ sending' = <<>> /\ Len(sending) = 0 /\ Len(sending') = 0 /\ t \notin toCatchUp
  BY <1>1 DEF Progress
<1>9. Source(t)' /\ Sending(t)'
  BY <1>1, <1>7, <1>8 DEF Source, Sending
<1>10. Queued(t)'
  <2>1. ASSUME NEW i \in 1..Len(queue'), NEW j \in 1..Len(queue'), i < j,
               queue'[i].symbol = t, queue'[j].symbol = t
        PROVE  queue'[i].minute < queue'[j].minute
    <3>1. i + 1 < j + 1
      BY <1>6, <2>1
    <3> QED
      BY <1>4, <1>7, <2>1, <3>1 DEF Queued
  <2>2. ASSUME NEW i \in 1..Len(queue'), queue'[i].symbol = t
        PROVE  /\ Passes(queue'[i]) /\ queue'[i].minute <= newest[t]
               /\ \A b \in Bar : accepting[Live] = <<b>> /\ b.symbol = t =>
                    queue'[i].minute < b.minute
               /\ \E k \in 1..Len(window[t]) :
                    /\ window[t][k] = queue'[i]
                    /\ Len(window[t]) - k <= Len(queue') - i + Coming(t)
    <3>1. /\ i + 1 \in 1..Len(queue) /\ queue'[i] = queue[i + 1]
          /\ Len(queue) - (i + 1) = Len(queue') - i
      BY <1>4, <1>6
    <3>2. PICK k \in 1..Len(window[t]) :
            /\ window[t][k] = queue'[i]
            /\ Len(window[t]) - k <= Len(queue) - (i + 1) + Coming(t)
      BY <1>7, <2>2, <3>1 DEF Queued
    <3>3. /\ Passes(queue'[i]) /\ queue'[i].minute <= newest[t]
          /\ \A b \in Bar : accepting[Live] = <<b>> /\ b.symbol = t =>
               queue'[i].minute < b.minute
      BY <1>7, <2>2, <3>1 DEF Queued
    <3> QED
      BY <3>1, <3>2, <3>3
  <2>3. Coming(t)' = Coming(t)
    BY <1>1 DEF Coming
  <2> QED
    BY <1>1, <2>1, <2>2, <2>3 DEF Queued
<1>11. \/ t = s /\ \E new : AdmittedLast(t, event, new)
       \/ admitted'[t] = admitted[t] /\ rejected'[t] > 0
       \/ t # s /\ admitted'[t] = admitted[t] /\ rejected'[t] = rejected[t]
  BY <1>3, ReceiveEffect
<1>12. ASSUME admitted'[t] = admitted[t]
       PROVE  Ascending(t)' /\ (Gapless(t) => Gapless(t)')
  BY <1>1, <1>7, <1>12 DEF Ascending, Gapless
<1>13. CASE admitted'[t] = admitted[t] /\ rejected'[t] > 0
  <2>1. rejected'[t] # 0
    BY <1>13
  <2> QED
    BY <1>1, <1>7, <1>9, <1>10, <1>12, <1>13, <2>1 DEF Streamed
<1>14. CASE t # s /\ admitted'[t] = admitted[t] /\ rejected'[t] = rejected[t]
  <2>1. ASSUME NEW b, b.symbol = t, NEW i \in 1..Len(queue), queue[i] = b
        PROVE  i - 1 \in 1..Len(queue') /\ queue[i] = queue'[i - 1]
    BY <1>3, <1>5, <1>6, <1>14, <2>1
  <2>2. ASSUME NEW b, NEW x
        PROVE  /\ (Known(t, b)' <=> Known(t, b)) /\ (Later(t, x)' <=> Later(t, x))
               /\ (Due(t, b)' => Due(t, b)) /\ (Due(t, b) => Due(t, b)')
    <3>1. (Known(t, b)' <=> Known(t, b)) /\ (Later(t, x)' <=> Later(t, x))
      BY <1>1, <1>14 DEF Known, Later
    <3>2. Due(t, b)' => Due(t, b)
      BY <1>1, <1>4 DEF Due
    <3>3. Due(t, b) => Due(t, b)'
      BY <1>1, <2>1 DEF Due
    <3> QED
      BY <3>1, <3>2, <3>3
  <2>3. (Repeats(t) => Repeats(t)') /\ (Covered(t) => Covered(t)')
    BY <1>1, <2>2 DEF Repeats, Covered
  <2> QED
    BY <1>1, <1>7, <1>9, <1>10, <1>12, <1>14, <2>3 DEF Streamed
<1>15. ASSUME NEW new, t = s, AdmittedLast(t, event, new)
       PROVE  Streamed(t)'
  <2>1. /\ new.event = event /\ new.event.minute = bar.minute /\ rejected[t] = 0
        /\ admitted'[t].identities = admitted[t].identities \union {new}
        /\ \A r \in admitted[t].identities : ~(new.no < r.no)
        /\ ~(new.no < new.no)
        /\ \A r \in admitted[t].identities : r.event # event
    BY <1>3, <1>15 DEF AdmittedLast, EventSeen
  <2>2. /\ bar.symbol = t /\ bar.minute \in Nat /\ bar.minute <= newest[t]
        /\ \A b \in Bar : accepting[Live] = <<b>> /\ b.symbol = t => bar.minute < b.minute
    BY <1>3, <1>6, <1>7, <1>15, BarFields DEF Queued
  <2>3. \A i \in 2..(n + 1) : queue[i].symbol = t => bar.minute < queue[i].minute
    BY <1>6, <1>7, <2>2 DEF Queued
  <2>4. Repeats(t) /\ (t \notin lossy => Covered(t))
    BY <1>7, <1>8, <2>1 DEF Streamed
  <2>5. \A r \in admitted[t].identities : r.event.minute < bar.minute
    <3>1. Due(t, bar)
      BY <1>6, <2>2 DEF Due
    <3>2. ~Known(t, bar)
      BY <1>3, <1>8, <2>1 DEF Known
    <3>3. Later(t, bar.minute)
      BY <2>4, <3>1, <3>2 DEF Repeats
    <3> QED
      BY <3>3 DEF Later
  <2>6. Ascending(t)'
    <3>1. ASSUME NEW q \in admitted'[t].identities, NEW r \in admitted'[t].identities, q.no < r.no
          PROVE  q.event.minute < r.event.minute
      <4>1. q \in admitted[t].identities
        BY <2>1, <3>1
      <4>2. CASE r = new
        BY <2>1, <2>5, <4>1, <4>2
      <4>3. CASE r \in admitted[t].identities
        BY <1>7, <3>1, <4>1, <4>3 DEF Ascending
      <4> QED
        BY <2>1, <4>2, <4>3
    <3>2. \A r \in admitted'[t].identities :
            r.event.minute \in Nat /\ r.event.minute <= newest[t]
      BY <1>7, <2>1, <2>2 DEF Ascending
    <3> QED
      BY <1>1, <3>1, <3>2 DEF Ascending
  <2>7. \A b : Known(t, b) => Known(t, b)'
    BY <1>1, <2>1 DEF Known
  <2>8. Known(t, bar)'
    <3>1. new \in admitted'[t].identities /\ new.event = Event(bar)
      BY <1>3, <2>1
    <3> QED
      BY <3>1 DEF Known
  <2>9. ASSUME NEW b \in Bar, Due(t, b)'
        PROVE  Due(t, b) /\ bar.minute < b.minute
    <3>1. b.symbol = t
      BY <2>9 DEF Due
    <3>2. CASE \E i \in 1..Len(queue') : queue'[i] = b
      <4>1. PICK i \in 1..Len(queue') : queue'[i] = b
        BY <3>2
      <4>2. i + 1 \in 2..(n + 1) /\ i + 1 \in 1..Len(queue) /\ queue'[i] = queue[i + 1]
        BY <1>4, <1>6
      <4>3. Due(t, b)
        BY <3>1, <4>1, <4>2 DEF Due
      <4> QED
        BY <2>3, <3>1, <4>1, <4>2, <4>3
    <3>3. CASE accepting[Live] = <<b>>
      BY <2>2, <3>1, <3>3 DEF Due
    <3> QED
      BY <1>1, <2>9, <3>2, <3>3 DEF Due
  <2>10. ASSUME NEW b, Due(t, b)
         PROVE  Due(t, b)' \/ b = bar
    <3>1. CASE \E i \in 1..Len(queue) : queue[i] = b
      <4>1. PICK i \in 1..Len(queue) : queue[i] = b
        BY <3>1
      <4>2. CASE i = 1
        BY <1>6, <4>1, <4>2
      <4>3. CASE i - 1 \in 1..Len(queue') /\ queue[i] = queue'[i - 1]
        BY <2>10, <4>1, <4>3 DEF Due
      <4> QED
        BY <1>5, <4>2, <4>3
    <3>2. CASE accepting[Live] = <<b>>
      BY <1>1, <2>10, <3>2 DEF Due
    <3> QED
      BY <2>10, <3>1, <3>2 DEF Due
  <2>11. \A x : Later(t, x) /\ bar.minute < x => Later(t, x)'
    BY <1>1, <2>1 DEF Later
  <2>12. Repeats(t)'
    BY <2>4, <2>7, <2>9, <2>11 DEF Repeats
  <2>13. t \notin lossy => Covered(t)'
    BY <1>1, <2>4, <2>7, <2>8, <2>10 DEF Covered
  <2>14. ASSUME t \notin lossy, Gapless(t) PROVE Gapless(t)'
    <3> SUFFICES ASSUME NEW i \in 1..Len(window[t]), NEW r \in admitted'[t].identities,
                        Passes(window[t][i]), window[t][i].minute < r.event.minute
                 PROVE  \E q \in admitted'[t].identities :
                          q.event.minute = window[t][i].minute
      BY <1>1 DEF Gapless
    <3>1. CASE r \in admitted[t].identities
      BY <2>1, <2>14, <3>1 DEF Gapless
    <3>2. CASE r = new
      <4>1. PICK w \in Bar : w = window[t][i] /\ w.minute \in Nat /\ w.minute < bar.minute
        BY <2>1, <3>2, BarFields DEF Shaped
      <4>2. Known(t, w) \/ Due(t, w)
        BY <2>4, <2>14, <4>1 DEF Covered
      <4>3. ~(bar.minute < w.minute) /\ w # bar
        BY <2>2, <4>1
      <4>4. Known(t, w)
        BY <2>9, <2>10, <4>2, <4>3
      <4>5. PICK q \in admitted[t].identities : q.event = Event(w)
        BY <1>8, <4>4 DEF Known
      <4> QED
        BY <2>1, <4>1, <4>5, EventFields
    <3> QED
      BY <2>1, <3>1, <3>2
  <2> QED
    BY <1>1, <1>7, <1>9, <1>10, <2>6, <2>12, <2>13, <2>14 DEF Streamed
<1>16. CASE t = s /\ \E new : AdmittedLast(t, event, new)
  BY <1>15, <1>16
<1> QED
  BY <1>11, <1>13, <1>14, <1>16

-----------------------------------------------------------------------------
(* Every step keeps the invariant.                                         *)

LEMMA AcceptCases ==
  ASSUME AcceptLive \/ \E p \in Producers : AcceptBackfill(p)
  PROVE  \E p \in Producers, bar \in Bar : Accept(p, bar)
BY OnlineAssumption DEF AcceptLive, AcceptBackfill, Bar

\* What a window contains is in order, whatever is added to it.
LEMMA ShapedStep ==
  ASSUME Shaped, WindowsKept, OnlineNext PROVE Shaped' /\ WindowsKept'
<1>1. ASSUME NEW p \in Producers, NEW bar \in Bar, Accept(p, bar)
      PROVE  Shaped' /\ WindowsKept'
  <2>1. PICK after \in Seq(Bar), latest \in Nat : AcceptedBar(p, bar, after, latest)
    BY <1>1, AcceptEffect
  <2>2. /\ accepting' = [accepting EXCEPT ![p] = <<bar>>]
        /\ newest' = [newest EXCEPT ![bar.symbol] = latest]
        /\ window' = [window EXCEPT ![bar.symbol] = after]
        /\ Kept(after, bar.symbol, latest)
        /\ UNCHANGED <<queue, streamSide>>
    BY <2>1 DEF AcceptedBar
  <2>3. Shaped'
    <3>1. accepting' \in [Producers -> {<<>>} \union {<<b>> : b \in Bar}]
      BY <2>2 DEF Shaped
    <3> QED
      BY <2>2, <3>1, BarFields DEF Shaped, streamSide
  <2>4. ASSUME NEW s \in Symbols PROVE Kept(window'[s], s, newest'[s])
    <3>1. CASE s = bar.symbol
      BY <2>2, <3>1 DEF Shaped
    <3>2. CASE s # bar.symbol
      <4>1. window'[s] = window[s] /\ newest'[s] = newest[s]
        BY <2>2, <3>2 DEF Shaped
      <4> QED
        BY <4>1 DEF WindowsKept
    <3> QED
      BY <3>1, <3>2
  <2> QED
    BY <2>3, <2>4 DEF WindowsKept
<1>2. ASSUME UNCHANGED <<window, newest>> PROVE WindowsKept'
  BY <1>2 DEF WindowsKept
<1>3. ASSUME NEW p \in Producers, FanOut(p) PROVE Shaped' /\ WindowsKept'
  <2>1. /\ accepting' = [accepting EXCEPT ![p] = <<>>]
        /\ UNCHANGED <<newest, window, streamSide>>
        /\ queue' = queue \/ (queue' \in Seq(Bar) /\ Len(queue') <= Queue)
    BY <1>3, FanOutEffect
  <2> QED
    BY <1>2, <2>1 DEF Shaped, streamSide
<1>4. CASE OpenStream
  BY <1>2, <1>4 DEF OpenStream, Shaped
<1>5. ASSUME NEW s \in Symbols, ReadWindow(s) PROVE Shaped' /\ WindowsKept'
  BY <1>2, <1>5 DEF ReadWindow, feedSide, Shaped
<1>6. CASE CaughtUp
  BY <1>2, <1>6 DEF CaughtUp, feedSide, Shaped
<1>7. CASE SendCatchUp \/ SkipUnfinished
  <2>1. sending' \in Seq(Bar)
    <3>1. sending # <<>> /\ sending' = Tail(sending)
      BY <1>7 DEF SendCatchUp, SkipUnfinished
    <3> QED
      BY <3>1, TailLoses DEF Shaped
  <2>2. UNCHANGED <<attempt, toCatchUp, feedSide>>
    BY <1>7 DEF SendCatchUp, SkipUnfinished
  <2> QED
    BY <1>2, <2>1, <2>2 DEF feedSide, Shaped
<1>8. CASE SendLive
  <2>1. queue' \in Seq(Bar) /\ Len(queue') <= Queue
    <3>1. PICK n \in Nat : Len(queue) = n + 1 /\ queue' \in Seq(Bar) /\ Len(queue') = n
      BY <1>8, TailLoses DEF SendLive, Shaped
    <3> QED
      BY <3>1, OnlineAssumption DEF Shaped
  <2> QED
    BY <1>2, <1>8, <2>1 DEF SendLive, Shaped
<1>9. CASE StreamBreaks \/ ConsumerStops
  <2>1. Len(<<>>) <= Queue /\ <<>> \in Seq(Bar)
    BY OnlineAssumption
  <2>2. /\ queue' = <<>> /\ sending' = <<>> /\ toCatchUp' = {}
        /\ UNCHANGED <<attempt, newest, window, accepting>>
    BY <1>9 DEF StreamBreaks, ConsumerStops
  <2> QED
    BY <1>2, <2>1, <2>2 DEF Shaped
<1>10. CASE BackoffEnds
  BY <1>2, <1>10 DEF BackoffEnds, feedSide, Shaped
<1> QED
  BY <1>1, <1>3, <1>4, <1>5, <1>6, <1>7, <1>8, <1>9, <1>10, AcceptCases DEF OnlineNext

LEMMA ProgressStep ==
  ASSUME Shaped, WindowsKept, Progress, AdmissionInv, OnlineNext, attempt' = 0
  PROVE  Progress'
<1>1. ASSUME UNCHANGED <<queue, streamSide, admissionSide>> PROVE Progress'
  BY <1>1 DEF Progress, Fresh, streamSide, admissionSide
<1>2. ASSUME NEW p \in Producers, NEW bar \in Bar, Accept(p, bar) PROVE Progress'
  BY <1>1, <1>2 DEF Accept
<1>3. ASSUME NEW p \in Producers, FanOut(p) PROVE Progress'
  <2>1. /\ UNCHANGED <<streamSide, admissionSide>>
        /\ queue' = queue \/ Subscribed
    BY <1>3, FanOutEffect
  <2> QED
    BY <2>1 DEF Progress, Fresh, Subscribed, streamSide, admissionSide
<1>4. CASE OpenStream
  BY <1>4 DEF OpenStream, Progress, Fresh, admissionSide
<1>5. ASSUME NEW s \in Symbols, ReadWindow(s) PROVE Progress'
  <2>1. \A i \in 1..Len(sending') : sending'[i].symbol = s
    BY <1>5 DEF ReadWindow, WindowsKept, Kept
  <2>2. /\ link = "subscribed" /\ link' = "subscribed" /\ toCatchUp' = toCatchUp \ {s}
        /\ UNCHANGED <<mapped, admitted, rejected>>
    BY <1>5 DEF ReadWindow, admissionSide
  <2> QED
    BY <2>1, <2>2 DEF Progress, Fresh
<1>6. CASE CaughtUp
  BY <1>6 DEF CaughtUp, Progress
<1>7. CASE SkipUnfinished
  <2>1. /\ link = "subscribed" /\ link' = "subscribed" /\ toCatchUp' = toCatchUp
        /\ sending # <<>> /\ sending' = Tail(sending)
        /\ UNCHANGED <<mapped, admitted, rejected>>
    BY <1>7 DEF SkipUnfinished, admissionSide
  <2>2. \A i \in 1..Len(sending') : i + 1 \in 1..Len(sending) /\ sending'[i] = sending[i + 1]
    BY <2>1, TailEffect DEF Shaped, FirstGone
  <2> QED
    BY <2>1, <2>2 DEF Progress, Fresh
<1>8. CASE SendCatchUp
  <2>1. /\ link = "subscribed" /\ sending # <<>> /\ sending' = Tail(sending)
        /\ Receive(Event(Head(sending))) /\ (link' = "subscribed" \/ link' = "ended")
        /\ toCatchUp' = toCatchUp
    BY <1>8, CountSentEffect DEF SendCatchUp
  <2>2. PICK n \in Nat, bar \in Bar : FirstGone(sending, sending', n, bar) /\ bar = Head(sending)
    BY <2>1, TailEffect DEF Shaped
  <2>3. /\ \A i \in 1..Len(sending') : i + 1 \in 1..Len(sending) /\ sending'[i] = sending[i + 1]
        /\ 1 \in 1..Len(sending) /\ sending[1] = bar
    BY <2>2 DEF FirstGone
  <2>4. PICK s, event :
          s \in Symbols /\ s = bar.symbol /\ event.symbol = s /\ Receive(event)
    BY <2>1, <2>2, BarFields, EventFields
  <2>5. ASSUME NEW t \in toCatchUp
        PROVE  Fresh(t)' /\ \A i \in 1..Len(sending') : sending'[i].symbol # t
    <3>1. Fresh(t) /\ \A i \in 1..Len(sending) : sending[i].symbol # t
      BY <2>1 DEF Progress
    <3>2. t # s /\ t \in Symbols
      BY <2>3, <2>4, <3>1 DEF Shaped
    <3>3. mapped'[t] = mapped[t] /\ rejected'[t] = rejected[t] /\ admitted'[t] = admitted[t]
      BY <2>4, <3>2, ReceiveEffect
    <3> QED
      BY <2>3, <3>1, <3>3 DEF Fresh
  <2> QED
    BY <2>1, <2>5 DEF Progress
<1>9. CASE SendLive
  BY <1>9, CountSentEffect DEF SendLive, Progress
<1>10. CASE StreamBreaks \/ ConsumerStops
  BY <1>10 DEF StreamBreaks, ConsumerStops, Progress
<1>11. ~BackoffEnds
  BY DEF BackoffEnds, Shaped
<1> QED
  BY <1>2, <1>3, <1>4, <1>5, <1>6, <1>7, <1>8, <1>9, <1>10, <1>11, AcceptCases DEF OnlineNext

\* A bar of another symbol is accepted.
LEMMA BarOfAnother ==
  ASSUME Shaped, WindowsKept, NEW p \in Producers, NEW bar \in Bar, Accept(p, bar),
         NEW t \in Symbols, t # bar.symbol, Streamed(t)
  PROVE  Streamed(t)'
<1>1. PICK after \in Seq(Bar), latest \in Nat : AcceptedBar(p, bar, after, latest)
  BY AcceptEffect
<1>2. /\ accepting[p] = <<>> /\ accepting'[p] = <<bar>>
      /\ \A q \in Producers \ {p} : accepting'[q] = accepting[q]
      /\ window'[t] = window[t] /\ newest'[t] = newest[t]
      /\ UNCHANGED <<queue, lossy, streamSide, admissionSide>>
  BY <1>1 DEF AcceptedBar, Shaped
<1>3. ASSUME NEW q \in Producers, NEW b \in Bar, b.symbol = t
      PROVE  accepting'[q] = <<b>> <=> accepting[q] = <<b>>
  <2>1. bar # b
    BY <1>3
  <2>2. CASE q = p
    BY <1>2, <2>1, <2>2
  <2>3. CASE q # p
    BY <1>2, <2>3
  <2> QED
    BY <2>2, <2>3
<1> QED
  BY <1>2, <1>3, OtherBars

LEMMA StreamedStep ==
  ASSUME Queue < WindowLimit, Shaped, Shaped', WindowsKept, Progress, AdmissionInv, OnlineNext,
         attempt' = 0, NEW t \in Symbols \ disturbed', OpenStream \/ Streamed(t)
  PROVE  Streamed(t)'
<1>1. CASE OpenStream
  BY <1>1, OpenedStream
<1>2. SUFFICES ASSUME ~OpenStream PROVE Streamed(t)'
  BY <1>1
<1>3. Streamed(t)
  BY <1>2
<1>4. ASSUME NEW p \in Producers, NEW bar \in Bar, Accept(p, bar) PROVE Streamed(t)'
  BY <1>3, <1>4, LiveBar, BarOfAnother
<1>5. ASSUME NEW p \in Producers, FanOut(p) PROVE Streamed(t)'
  BY <1>3, <1>5, FannedBar
<1>6. ASSUME NEW s \in Symbols, ReadWindow(s) PROVE Streamed(t)'
  BY <1>3, <1>6, WindowRead
<1>7. CASE CaughtUp
  BY <1>3, <1>7, WindowsThrough
<1>8. CASE SkipUnfinished
  BY <1>3, <1>8, WindowSkipped
<1>9. CASE SendCatchUp
  BY <1>3, <1>9, SentFromWindow
<1>10. CASE SendLive
  BY <1>3, <1>10, SentFromQueue
<1>11. CASE StreamBreaks \/ ConsumerStops
  <2>1. UNCHANGED <<newest, window, accepting, lossy, admissionSide>> /\ ~Subscribed'
    BY <1>11 DEF StreamBreaks, ConsumerStops, Subscribed
  <2> QED
    BY <1>3, <2>1, StreamGone
<1>12. ~BackoffEnds
  BY DEF BackoffEnds, Shaped
<1> QED
  BY <1>2, <1>4, <1>5, <1>6, <1>7, <1>8, <1>9, <1>10, <1>11, <1>12, AcceptCases DEF OnlineNext

LEMMA StreamInit == OnlineInit => StreamInv
<1> SUFFICES ASSUME OnlineInit PROVE StreamInv
  OBVIOUS
<1>1. Shaped
  BY OnlineAssumption DEF OnlineInit, Shaped
<1>2. WindowsKept
  <2> SUFFICES ASSUME NEW s \in Symbols PROVE Kept(window[s], s, newest[s])
    BY DEF WindowsKept
  <2>1. window[s] = <<>> /\ Len(window[s]) = 0 /\ WindowLimit \in Nat
    BY OnlineAssumption DEF OnlineInit
  <2> QED
    BY <2>1 DEF Kept
<1>3. Progress
  BY DEF OnlineInit, Progress, Fresh
<1>4. ASSUME NEW s \in Symbols PROVE Streamed(s)
  <2>1. /\ admitted[s].identities = {} /\ ~Subscribed
        /\ \A p \in Producers : accepting[p] = <<>>
    BY DEF OnlineInit, NewEntityState, Subscribed
  <2>2. \A b : <<>> # <<b>>
    OBVIOUS
  <2>3. Source(s) /\ Ascending(s) /\ Gapless(s)
    BY <2>1, <2>2 DEF Source, Ascending, Gapless
  <2> QED
    BY <2>1, <2>3 DEF Streamed
<1> QED
  BY <1>1, <1>2, <1>3, <1>4 DEF StreamInv

\* Only the opening of a stream makes good what was out of order.
LEMMA StreamGoesOn ==
  ASSUME OnlineNext, attempt \in Nat
  PROVE  /\ attempt' = 0 => attempt = 0
         /\ OpenStream \/ disturbed \subseteq disturbed'
<1>1. ASSUME NEW p \in Producers, NEW bar, Accept(p, bar)
      PROVE  attempt' = attempt /\ disturbed \subseteq disturbed'
  BY <1>1 DEF Accept, streamSide
<1>2. ASSUME NEW p \in Producers, FanOut(p) PROVE UNCHANGED <<attempt, disturbed>>
  BY <1>2 DEF FanOut, streamSide
<1>3. ASSUME NEW s \in Symbols, ReadWindow(s) PROVE UNCHANGED <<attempt, disturbed>>
  BY <1>3 DEF ReadWindow, feedSide
<1>4. CASE OpenStream
  BY <1>4 DEF OpenStream
<1>5. CASE CaughtUp \/ SkipUnfinished \/ SendCatchUp \/ SendLive \/ StreamBreaks \/ ConsumerStops
  BY <1>5 DEF CaughtUp, SkipUnfinished, SendCatchUp, SendLive, StreamBreaks, ConsumerStops,
     feedSide
<1>6. CASE BackoffEnds
  BY <1>6 DEF BackoffEnds, feedSide
<1> QED
  BY <1>1, <1>2, <1>3, <1>4, <1>5, <1>6, AcceptCases DEF OnlineNext

LEMMA StreamStep ==
  ASSUME Queue < WindowLimit, AdmissionInv, StreamInv, [OnlineNext]_onlineVars
  PROVE  StreamInv'
<1>1. CASE OnlineNext
  <2>1. Shaped' /\ WindowsKept'
    BY <1>1, ShapedStep DEF StreamInv
  <2>2. ASSUME attempt' = 0
        PROVE  Progress' /\ \A s \in (Symbols \ disturbed)' : Streamed(s)'
    <3>1. attempt = 0 /\ (OpenStream \/ disturbed \subseteq disturbed')
      BY <1>1, <2>2, StreamGoesOn DEF StreamInv, Shaped
    <3>2. Progress'
      BY <1>1, <2>2, <3>1, ProgressStep DEF StreamInv
    <3>3. ASSUME NEW s \in (Symbols \ disturbed)' PROVE Streamed(s)'
      <4>1. OpenStream \/ Streamed(s)
        BY <3>1 DEF StreamInv
      <4> QED
        BY <1>1, <2>1, <2>2, <3>1, <4>1, StreamedStep DEF StreamInv
    <3> QED
      BY <3>2, <3>3
  <2> QED
    BY <2>1, <2>2 DEF StreamInv
<1>2. CASE UNCHANGED onlineVars
  <2>1. UNCHANGED <<newest, window, accepting, queue, lossy, disturbed, link, attempt, toCatchUp,
                    sending, sent, mapped, admitted, rejected>>
    BY <1>2 DEF onlineVars, feedSide, streamSide, admissionSide
  <2>2. Shaped' /\ WindowsKept'
    BY <2>1 DEF StreamInv, Shaped, WindowsKept
  <2>3. Progress => Progress'
    BY <2>1 DEF Progress, Fresh
  <2>4. ASSUME NEW s \in Symbols, Streamed(s) PROVE Streamed(s)'
    BY <2>1, <2>4, OtherBars DEF StreamInv, streamSide, admissionSide
  <2> QED
    BY <2>1, <2>2, <2>3, <2>4 DEF StreamInv
<1> QED
  BY <1>1, <1>2

LEMMA StreamInvariant ==
  ASSUME Queue < WindowLimit PROVE OnlineSpec => []StreamInv
<1>1. StreamInv /\ AdmissionInv /\ [OnlineNext]_onlineVars => StreamInv'
  BY StreamStep
<1> QED
  BY <1>1, StreamInit, OnlineInvariant, PTL DEF OnlineSpec

\* On the first stream the admitted minutes of a symbol ascend, as long as its
\* new bars are finished ones of the live source, each later than all before:
\* the windows come before the queue, and a bar that is queued is a repetition
\* of its window or later than all of it (StreamBars).
THEOREM FirstStreamAlwaysAscends ==
  ASSUME Queue < WindowLimit PROVE OnlineSpec => []FirstStreamAscends
<1>1. AdmissionInv /\ StreamInv => FirstStreamAscends
  <2> SUFFICES ASSUME AdmissionInv, StreamInv, attempt = 0, NEW s \in Symbols \ disturbed,
                      NEW no \in 2..admitted[s].lastSequence
               PROVE  AdmittedMinute(s, no - 1) < AdmittedMinute(s, no)
    BY DEF FirstStreamAscends
  <2>1. /\ admitted[s].lastSequence \in Nat
        /\ {r.no : r \in admitted[s].identities} = 1..admitted[s].lastSequence
    BY DEF AdmissionInv, InStep, Contiguous
  <2>2. no \in 1..admitted[s].lastSequence /\ no - 1 \in 1..admitted[s].lastSequence /\ no - 1 < no
    BY <2>1
  <2>3. \E r \in admitted[s].identities : r.no = no
    BY <2>1, <2>2
  <2>4. \E r \in admitted[s].identities : r.no = no - 1
    BY <2>1, <2>2
  <2>5. PICK r \in admitted[s].identities : r.no = no /\ AdmittedMinute(s, no) = r.event.minute
    BY <2>3 DEF AdmittedMinute
  <2>6. PICK q \in admitted[s].identities :
          q.no = no - 1 /\ AdmittedMinute(s, no - 1) = q.event.minute
    BY <2>4 DEF AdmittedMinute
  <2> QED
    BY <2>2, <2>5, <2>6 DEF StreamInv, Streamed, Ascending
<1> QED
  BY <1>1, OnlineInvariant, StreamInvariant, PTL

\* On the same condition a bar the stream wants and the satellite still keeps,
\* and that lies between admitted ones, is missing only where the full queue
\* dropped a bar of its symbol: none falls between the window that was read and
\* the subscription (fanout, StreamBars).
THEOREM OnlyTheQueueMakesHoles ==
  ASSUME Queue < WindowLimit PROVE OnlineSpec => []HolesComeFromTheQueue
<1>1. StreamInv => HolesComeFromTheQueue
  <2> SUFFICES ASSUME StreamInv, attempt = 0, NEW s \in Symbols \ (lossy \union disturbed),
                      NEW bar \in Range(window[s]), Passes(bar),
                      NEW b \in AdmittedMinutes(s), bar.minute < b
               PROVE  bar.minute \in AdmittedMinutes(s)
    BY DEF HolesComeFromTheQueue
  <2>1. PICK i \in 1..Len(window[s]) : window[s][i] = bar
    <3>1. DOMAIN window[s] = 1..Len(window[s])
      BY DEF StreamInv, Shaped
    <3> QED
      BY <3>1 DEF Range
  <2>2. PICK r \in admitted[s].identities : r.event.minute = b
    BY DEF AdmittedMinutes
  <2>3. Gapless(s)
    BY DEF StreamInv, Streamed
  <2>4. PICK q \in admitted[s].identities : q.event.minute = bar.minute
    BY <2>1, <2>2, <2>3 DEF Gapless
  <2> QED
    BY <2>4 DEF AdmittedMinutes
<1> QED
  BY <1>1, StreamInvariant, PTL
=============================================================================
