---------------------------- MODULE BgpDecision ----------------------------
(***************************************************************************)
(* The decision process of bgpd: bgp_info_cmp, which compares two paths to *)
(* one prefix, and bgp_best_selection, which scans the list of a route     *)
(* node with it.  The trust extension put a first step before the thirteen *)
(* of quagga: the trust in the AS of the neighbour, with the result of its *)
(* vote when both ASes have one.                                           *)
(***************************************************************************)
EXTENDS BgpPath, SequencesExt, FiniteSetsExt

CONSTANT InTrust        \* /inTrust.txt: the configured trust in each AS

AS == DOMAIN InTrust

ASSUME TrustAssumption ==
  InTrust \in Seq(Nat \ {0}) /\ MyAS \in AS /\ \A q \in Peer : AsOf[q] \in AS

(* A file voteresult-<as>: the vote of each AS, 0 if it has none. *)
Pool == [AS -> Nat]
-----------------------------------------------------------------------------
(* The trust step.  t is the state of the trust files: t.obs is            *)
(* /obsTrust.txt, t.result the files voteresult-<as>.                      *)

OwnTrust(t, as) == InTrust[as] + t.obs[as]

(* The ASes whose votes count, and the average of their votes weighted by  *)
(* the trust in the voter, as a fraction.                                  *)
Voters(v) == {i \in AS : v[i] # 0 /\ i # MyAS}
VoteSum(v) == MapThenSumSet(LAMBDA i : v[i] * InTrust[i], Voters(v))
VoterSum(v) == IF Voters(v) = {} THEN 1 ELSE MapThenSumSet(LAMBDA i : InTrust[i], Voters(v))

(* Total trust in an AS with a vote result, over the denominator VoterSum. *)
VotedTrust(t, as) ==
  VoteSum(t.result[as]) + OwnTrust(t, as) * VoterSum(t.result[as])

Voted(t, as) == t.result[as] # NULL

MoreTrusted(t, a, b) ==
  IF Voted(t, a) /\ Voted(t, b)
  THEN VotedTrust(t, a) * VoterSum(t.result[b]) > VotedTrust(t, b) * VoterSum(t.result[a])
  ELSE OwnTrust(t, a) > OwnTrust(t, b)

(* With two vote results a tie keeps the old path and ends the comparison; *)
(* without, only a difference does.                                        *)
TrustDecides(t, a, b) ==
  \/ Voted(t, a) /\ Voted(t, b)
  \/ OwnTrust(t, a) # OwnTrust(t, b)
-----------------------------------------------------------------------------
(* The steps for paths learned from external neighbours, in the order of   *)
(* the code; each one a pair: new is better, exist is better.  MED is      *)
(* compared between paths from one neighbouring AS.  The IGP metric and    *)
(* the cluster length are the same for all; the neighbour address decides  *)
(* nothing that the router id has not decided.                             *)
Steps(new, exist) ==
  LET n == new.attr
      e == exist.attr
  IN << <<n.weight > e.weight, n.weight < e.weight>>,
        <<n.local_pref > e.local_pref, n.local_pref < e.local_pref>>,
        <<n.hops < e.hops, n.hops > e.hops>>,
        <<n.origin < e.origin, n.origin > e.origin>>,
        <<n.left = e.left /\ n.med < e.med, n.left = e.left /\ n.med > e.med>>,
        <<"SELECTED" \in new.flags, "SELECTED" \in exist.flags>>,
        <<RemoteId[new.peer] < RemoteId[exist.peer],
          RemoteId[new.peer] > RemoteId[exist.peer]>> >>

(* The first step that tells the paths apart decides. *)
Preferred(steps) ==
  \E i \in DOMAIN steps :
    steps[i][1] /\ \A j \in 1 .. i - 1 : ~steps[j][1] /\ ~steps[j][2]

bgp_info_cmp(t, new, exist) ==
  \/ exist = NULL
  \/ LET a == AsOf[new.peer]
         b == AsOf[exist.peer]
     IN IF TrustDecides(t, a, b) THEN MoreTrusted(t, a, b)
        ELSE Preferred(Steps(new, exist))
-----------------------------------------------------------------------------
MutBestSelection(t, info) ==
  FoldLeft(LAMBDA best, ri :
             IF ~HoldDown(ri) /\ (best = NULL \/ Preferred(Steps(ri, best))) THEN ri ELSE best,
           NULL, info)

(* The second loop of bgp_best_selection, without deterministic-med: the   *)
(* path it selects and the list that remains.  A removed path is reaped,   *)
(* unless it is the selected one, which the caller still has to withdraw.  *)
bgp_best_selection(t, info) ==
  FoldLeft(LAMBDA best, ri :
             IF ~HoldDown(ri) /\ bgp_info_cmp(t, ri, best) THEN ri ELSE best,
           NULL, info)

Reaped(info) ==
  SelectSeq(info, LAMBDA ri : ~("REMOVED" \in ri.flags /\ "SELECTED" \notin ri.flags))
=============================================================================
