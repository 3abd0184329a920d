--------------------------- MODULE ObservationLog ---------------------------
(***************************************************************************)
(* What the bar collector promises about the partitions and one store: the *)
(* accepted observations of a partition form a log that is only appended   *)
(* to, and at every moment the store holds exactly a prefix of that log.   *)
(* A store may trail the log and may stop for good, but it never has a     *)
(* hole and never gives an observation back; one write adds at most a      *)
(* batch, and the partitions proceed independently.                        *)
(***************************************************************************)
EXTENDS Naturals, Sequences

CONSTANTS
  Partitions,
  Entry,  \* numbered observations
  Batch   \* most observations one write can add to the store

VARIABLES
  log,    \* per partition the accepted observations, in numbering order
  store   \* per partition the set of observations a reader of the store finds

logVars == <<log, store>>

Prefix(p, n) == {log[p][i] : i \in 1..n}

LogInit ==
  /\ log = [p \in Partitions |-> <<>>]
  /\ store = [p \in Partitions |-> {}]

\* An action of the observer only, so the new entry is read off the new log.
AcceptEntry(p) ==
  /\ Len(log'[p]) = Len(log[p]) + 1
  /\ LET e == log'[p][Len(log[p]) + 1] IN
       e \in Entry /\ log' = [log EXCEPT ![p] = Append(@, e)]
  /\ UNCHANGED store

Persist(p) ==
  /\ \E n \in 0..Len(log[p]) : \E k \in 1..Batch :
       /\ n + k <= Len(log[p])
       /\ store[p] = Prefix(p, n)
       /\ store' = [store EXCEPT ![p] = Prefix(p, n + k)]
  /\ UNCHANGED log

LogNext == \E p \in Partitions : AcceptEntry(p) \/ Persist(p)

LogSpec == LogInit /\ [][LogNext]_logVars
=============================================================================
