---------------------------- MODULE PublishedFeed ----------------------------
(***************************************************************************)
(* What a lossy fan-out promises its readers.  Publications get the        *)
(* numbers 1, 2, 3, ... in the order they are issued; a subscriber may     *)
(* miss any of them and may see those of two publishers in either order,   *)
(* but it sees the publications of one publisher in the order they were    *)
(* issued and none of them twice.                                          *)
(***************************************************************************)
EXTENDS Naturals, Sequences

CONSTANTS Publisher, Subscriber

VARIABLES
  issued,  \* who issued each publication: issued[n] issued number n
  got      \* per subscriber the numbers it was handed, in order

feedVars == <<issued, got>>

FeedInit ==
  /\ issued = <<>>
  /\ got = [s \in Subscriber |-> <<>>]

Issue(p) ==
  /\ issued' = Append(issued, p)
  /\ UNCHANGED got

\* n follows everything s was handed of the publisher that issued n.
FollowsItsPublisher(s, n) ==
  \A k \in 1..Len(got[s]) : issued[got[s][k]] = issued[n] => got[s][k] < n

Hand(s, n) ==
  /\ FollowsItsPublisher(s, n)
  /\ got' = [got EXCEPT ![s] = Append(@, n)]
  /\ UNCHANGED issued

FeedNext ==
  \/ \E p \in Publisher : Issue(p)
  \/ \E s \in Subscriber, n \in 1..Len(issued) : Hand(s, n)

FeedSpec == FeedInit /\ [][FeedNext]_feedVars
=============================================================================
