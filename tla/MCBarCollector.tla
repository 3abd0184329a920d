--------------------------- MODULE MCBarCollector ---------------------------
(* Stages of one place and batches of two: three messages are enough to    *)
(* refuse one at each stage while the ones before it are still on their    *)
(* way, to repeat one, to correct one and to deliver one late.  Two        *)
(* partitions for the shutdown.                                            *)
EXTENDS OfflineReplay

CONSTANTS a, b, x, A, B

MCSymbols == {a, b}
MCOffered == {a, b, x}
MCTimes == {1, 2}
MCPayloads == {"b", "u"}
Message(s, t, payload) == [symbol |-> s, time |-> t, payload |-> payload]
MCObservation == {Message(a, 1, "b"), Message(a, 1, "u"), Message(a, 2, "b"),
                  Message(x, 1, "b")}

MCOnePartition == {A}
MCTogether == [s \in MCSymbols |-> A]

MCTwoPartitions == {A, B}
MCApart == [s \in MCSymbols |-> IF s = a THEN A ELSE B]
MCOneBarEach == {Message(a, 1, "b"), Message(b, 1, "b")}
=============================================================================
