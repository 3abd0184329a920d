---------------------------- MODULE OfflineReplay ----------------------------
(***************************************************************************)
(* The two programs meet in the Mongo collection: what a collection run of *)
(* the bar sequence generator has stored, whole or broken off, with the    *)
(* copies a retried InsertMany leaves, is what DSE_JEH replays offline.    *)
(***************************************************************************)
EXTENDS BarCollector, Admission

\* Repository.ReadAll sorts by symbol and generator sequence number; admission
\* keeps the symbols apart, so one symbol's documents can be taken alone.  Only
\* copies share a number, and which of two copies comes first shows nowhere.
Places(p, s) == {i \in DOMAIN mongo[p] : mongo[p][i].symbol = s}

UpToDocument(p, s, i) ==
  {k \in Places(p, s) : \/ mongo[p][k].no < mongo[p][i].no
                        \/ mongo[p][k].no = mongo[p][i].no /\ k <= i}

ReadAll(p, s) ==
  [n \in 1..Cardinality(Places(p, s)) |->
     mongo[p][CHOOSE i \in Places(p, s) : Cardinality(UpToDocument(p, s, i)) = n]]

\* MapObservation: the event is known by run, symbol, number and payload.
MapObservation(d) == <<d.symbol, d.no, DuplicateKey(d)>>

Replay(p, s) ==
  LET documents == ReadAll(p, s)
      after[n \in 0..Len(documents)] ==
        IF n = 0 THEN NewEntityState
        ELSE Admit(after[n - 1], documents[n].no, MapObservation(documents[n]))
  IN after[Len(documents)]

\* Whenever the collector is stopped or dies, a replay of what it has stored
\* admits every document once: copies are duplicates, and no gap silences the
\* symbol (persistLoop's retry of a whole batch, Admitter.Admit).
ReplayAdmitsEveryDocument ==
  \A p \in Partitions, s \in Symbols :
    {r.event : r \in Replay(p, s).identities} = {MapObservation(d) : d \in ToSet(ReadAll(p, s))}
=============================================================================
