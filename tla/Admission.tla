------------------------------ MODULE Admission ------------------------------
(***************************************************************************)
(* The admitter of DSE_JEH, per entity sequence scope: which event of      *)
(* which sequence number is admitted, and why another one is not.  The     *)
(* online pipeline feeds it the numbers of its own mapper, an offline      *)
(* replay the numbers a collection run has stored.                         *)
(***************************************************************************)
EXTENDS Naturals

\* entityState: identities and seenEvents are the two directions of one
\* relation, since an event and its number are always entered together.
NewEntityState == [lastSequence |-> 0, identities |-> {}]

Identity(no, event) == [no |-> no, event |-> event]
SequenceTaken(state, no) == \E r \in state.identities : r.no = no
EventSeen(state, event) == \E r \in state.identities : r.event = event

\* Faulty variant: the event is looked up under its own number only.
VerdictByNumber(state, no, event) ==
  LET taken == SequenceTaken(state, no) IN
    CASE taken /\ Identity(no, event) \in state.identities -> "DUPLICATE"
      [] taken /\ Identity(no, event) \notin state.identities -> "CONFLICT"
      [] ~taken /\ no < state.lastSequence -> "OUT_OF_ORDER"
      [] ~taken /\ no = state.lastSequence + 1 -> "ADMITTED"
      [] OTHER -> "GAP"

\* Faulty variant: a number may be left out.
VerdictAcrossGaps(state, no, event) ==
  LET taken == SequenceTaken(state, no)  fresh == ~taken /\ ~EventSeen(state, event) IN
    CASE taken /\ Identity(no, event) \in state.identities -> "DUPLICATE"
      [] taken /\ Identity(no, event) \notin state.identities -> "CONFLICT"
      [] ~taken /\ ~fresh -> "DUPLICATE"
      [] fresh /\ no < state.lastSequence -> "OUT_OF_ORDER"
      [] OTHER -> "ADMITTED"

\* The status Admit gives a well-formed event.
Verdict(state, no, event) ==
  LET taken == SequenceTaken(state, no)  fresh == ~taken /\ ~EventSeen(state, event) IN
    CASE taken /\ Identity(no, event) \in state.identities -> "DUPLICATE"
      [] taken /\ Identity(no, event) \notin state.identities -> "CONFLICT"
      [] ~taken /\ ~fresh -> "DUPLICATE"
      [] fresh /\ no < state.lastSequence -> "OUT_OF_ORDER"
      [] fresh /\ no = state.lastSequence + 1 -> "ADMITTED"
      [] OTHER -> "GAP"

Admit(state, no, event) ==
  IF Verdict(state, no, event) = "ADMITTED"
  THEN [lastSequence |-> no, identities |-> state.identities \union {Identity(no, event)}]
  ELSE state
=============================================================================
