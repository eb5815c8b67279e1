-------------------------- MODULE VotingDropProofs --------------------------
(***************************************************************************)
(* What a dropped link does to the votes, for every network: the property  *)
(* DropStarvesPool of BgpVoting, from the invariant of BgpVotingProofs.    *)
(***************************************************************************)
EXTENDS BgpVotingProofs

(* The link from n to m after a step that puts no packet on it, or after    *)
(* one that does: a keepalive.                                              *)
Shorter(n, m) ==
  \/ chan'[<<n, m>>] = chan[<<n, m>>]
  \/ chan'[<<n, m>>] = <<>>
  \/ chan[<<n, m>>] # <<>> /\ chan'[<<n, m>>] = Tail(chan[<<n, m>>])

Longer(n, m) ==
  /\ bgp_keepalive_send(n, m)
  /\ \E code \in TrustCodes :
       chan'[<<n, m>>] = chan[<<n, m>>] \o Burst(n, m, code)

(* The packets behind the first one. *)
LEMMA TailIndex ==
  ASSUME NEW s \in Seq(Message), s # <<>>, NEW i \in DOMAIN Tail(s)
  PROVE  i + 1 \in DOMAIN s /\ s[i + 1] = Tail(s)[i]
  OBVIOUS

(* A packet that bgp_read takes off a link, or that a lost session loses,   *)
(* adds nothing to the link.                                                *)
LEMMA ShorterLink ==
  ASSUME NEW n \in Node, NEW m \in Node, NEW type,
         chan[<<n, m>>] \in Seq(Message),
         Shorter(n, m),
         Queued(n, m, type)'
  PROVE  Queued(n, m, type)
  <1> DEFINE old == chan[<<n, m>>]
             new == chan'[<<n, m>>]
  <1>1. PICK i \in DOMAIN new : new[i].type = type
    BY DEF Queued
  <1>2. CASE new = old
    BY <1>1, <1>2 DEF Queued
  <1>3. CASE new = <<>>
    BY <1>1, <1>3
  <1>4. CASE old # <<>> /\ new = Tail(old)
    <2>1. i + 1 \in DOMAIN old /\ old[i + 1] = new[i]
      BY <1>1, <1>4, TailIndex, Zenon
    <2> QED
      BY <1>1, <2>1 DEF Queued
  <1> QED
    BY <1>2, <1>3, <1>4 DEF Shorter

(* Only bgp_keepalive_send of router n to router m adds packets to the link *)
(* from n to m.                                                             *)
LEMMA LinkStep ==
  ASSUME VotingInv, NEW a \in Node, NEW b \in Node, Step(a, b),
         <<a, b>> \in Links, <<b, a>> \in Links,
         NEW n \in Node, NEW m \in Node, <<n, m>> \in Links
  PROVE  Shorter(n, m) \/ Longer(n, m)
  <1>1. chan \in [Links -> Seq(Message)]
    BY DEF VotingInv, TypeOK
  <1>2. CASE bgp_keepalive_send(a, b)
    <2>1. PICK code \in TrustCodes :
            chan' = [chan EXCEPT ![<<a, b>>] = @ \o Burst(a, b, code)]
      BY <1>2, Zenon DEF bgp_keepalive_send
    <2>2. CASE a = n /\ b = m
      BY <1>1, <1>2, <2>1, <2>2 DEF Longer
    <2>3. CASE ~(a = n /\ b = m)
      <3>1. <<a, b>> # <<n, m>>
        BY <2>3
      <3> QED
        BY <1>1, <2>1, <3>1 DEF Shorter
    <2> QED
      BY <2>2, <2>3
  <1>3. CASE Receive(a, b)
    <2>1. /\ chan[<<b, a>>] # <<>>
          /\ chan' = [chan EXCEPT ![<<b, a>>] = Tail(@)]
      BY <1>3, Zenon DEF Receive, bgp_read, bgp_trust_receive,
         bgp_voting_peers_request_receive, bgp_voting_vote_request_receive,
         bgp_voting_vote_response_receive, bgp_voting_peers_response_receive,
         bgp_keepalive_receive
    <2> QED
      BY <1>1, <2>1 DEF Shorter
  <1>4. CASE SessionUp(a, b) \/ SessionDown(a, b)
    BY <1>1, <1>4, Zenon DEF SessionUp, SessionDown, Shorter
  <1> QED
    BY <1>2, <1>3, <1>4, Zenon DEF Step

(* A keepalive that finds a vote missing carries no pool. *)
LEMMA BurstWithoutPool ==
  ASSUME VotingInv, NEW n \in Node, NEW m \in Node, NEW code \in TrustCodes,
         ~AllVotesArrived(n)
  PROVE  Burst(n, m, code) \in Seq({p \in Message : p.type # "VOTING_PEERS_RESPONSE"})
  <1> DEFINE H == {p \in Message : p.type # "VOTING_PEERS_RESPONSE"}
             s == Burst(n, m, code)
  <1>1. s \in Seq(GoodPackets(n, m))
    BY BurstGood
  <1>2. \A i \in DOMAIN s : s[i].type # "VOTING_PEERS_RESPONSE"
    BY DEF Burst, If, PoolDue, Trust, PeersRequest, VoteRequest, VoteResponse, Keepalive
  <1>3. \A i \in DOMAIN s : s[i] \in H
    BY <1>1, <1>2 DEF GoodPackets
  <1> HIDE DEF s, H
  <1>4. s \in Seq(H)
    BY <1>1, <1>3
  <1> QED
    BY <1>4 DEF s, H

(* While the vote of the neighbouring AS of n is missing, m does not count  *)
(* all votes.                                                               *)
LEMMA MissingVote ==
  ASSUME VotingInv, NEW n \in Node, NEW m \in Node, <<m, n>> \in Links,
         votes[m][AsOf[n]] = 0
  PROVE  ~AllVotesArrived(m)
  <1>1. GoodVotes(m) /\ n \in Nbrs(m) /\ AsOf[n] \in NbrAS(m)
    BY DEF VotingInv, Nbrs, NbrAS
  <1> QED
    BY <1>1, ArrivedMeansAll DEF Voted

(* A dropped link stays dropped: bgp_trust_send sets toDrop once. *)
LEMMA DropStays ==
  ASSUME VotingInv, NEW a \in Node, NEW b \in Node, Step(a, b),
         NEW n \in Node, NEW m \in Node, toDrop[n] = m
  PROVE  toDrop'[n] = m
  <1>1. toDrop \in [Node -> Node \cup {NoPeer}] /\ NoPeer # m
    BY NetworkAssumption DEF VotingInv, TypeOK
  <1>2. CASE bgp_keepalive_send(a, b)
    <2>1. PICK late \in BOOLEAN :
            toDrop' = [toDrop EXCEPT ![a] = DropAfterTrust(a, b, late)]
      BY <1>2, Zenon DEF bgp_keepalive_send
    <2> QED
      BY <1>1, <2>1 DEF DropAfterTrust
  <1>3. CASE ~bgp_keepalive_send(a, b)
    <2>1. toDrop' = toDrop
      BY <1>3, Zenon DEF Step, Receive, bgp_trust_receive,
         bgp_voting_peers_request_receive, bgp_voting_vote_request_receive,
         bgp_voting_vote_response_receive, bgp_voting_peers_response_receive,
         bgp_keepalive_receive, SessionUp, SessionDown
    <2> QED
      BY <2>1
  <1> QED
    BY <1>2, <1>3

(* The vote of n stays missing: m stores a vote for the AS of n only when   *)
(* it reads one from n, which is not on its way.                            *)
LEMMA VoteStaysMissing ==
  ASSUME VotingInv, NEW a \in Node, NEW b \in Node, Step(a, b),
         <<a, b>> \in Links, <<b, a>> \in Links,
         NEW n \in Node, NEW m \in Node, <<n, m>> \in Links,
         \A k \in Nbrs(m) \ {n} : AsOf[k] # AsOf[n],
         Starved(n, m)
  PROVE  votes'[m][AsOf[n]] = 0
  <1>1. /\ votes \in [Node -> [AS -> Nat]] /\ votes[m][AsOf[n]] = 0
        /\ AsOf[n] \in AS
    BY NetworkAssumption DEF VotingInv, TypeOK, Starved
  <1>2. CASE bgp_keepalive_send(a, b)
    <2>1. votes' = [votes EXCEPT ![a] = VotesAfter(a, b)]
      BY <1>2 DEF bgp_keepalive_send
    <2> QED
      BY <1>1, <2>1 DEF VotesAfter, NoVotes
  <1>3. CASE bgp_voting_vote_response_receive(a, b)
    <2>1. PICK v \in VoteRange(a, AsOf[b]) :
            votes' = [votes EXCEPT ![a] = [@ EXCEPT ![AsOf[b]] = v]]
      BY <1>3, StoredVote, Zenon
    <2>2. CASE a = m /\ b = n
      <3>1. /\ chan[<<n, m>>] # <<>>
            /\ Head(chan[<<n, m>>]).type = "VOTING_VOTE_RESPONSE"
        BY <1>3, <2>2, Zenon DEF bgp_voting_vote_response_receive, bgp_read
      <3>2. chan[<<n, m>>] \in Seq(Message)
        BY DEF VotingInv, TypeOK
      <3>3. 1 \in DOMAIN chan[<<n, m>>] /\ chan[<<n, m>>][1] = Head(chan[<<n, m>>])
        BY <3>1, <3>2
      <3> QED
        BY <3>1, <3>3 DEF Starved, Queued
    <2>3. CASE a = m /\ b # n
      <3>1. AsOf[b] # AsOf[n]
        BY <2>3 DEF Nbrs
      <3> QED
        BY <1>1, <2>1, <3>1
    <2>4. CASE a # m
      BY <1>1, <2>1, <2>4
    <2> QED
      BY <2>2, <2>3, <2>4
  <1>4. CASE ~bgp_keepalive_send(a, b) /\ ~bgp_voting_vote_response_receive(a, b)
    <2>1. votes' = votes
      BY <1>4, Zenon DEF Step, Receive, bgp_trust_receive,
         bgp_voting_peers_request_receive, bgp_voting_vote_request_receive,
         bgp_voting_peers_response_receive,
         bgp_keepalive_receive, SessionUp, SessionDown
    <2> QED
      BY <1>1, <2>1
  <1> QED
    BY <1>2, <1>3, <1>4

(* One step of a router leaves a starved router starved. *)
LEMMA StarvedStep ==
  ASSUME VotingInv, NEW a \in Node, NEW b \in Node, Step(a, b),
         <<a, b>> \in Links, <<b, a>> \in Links,
         NEW n \in Node, NEW m \in Node, <<n, m>> \in Links, <<m, n>> \in Links,
         \A k \in Nbrs(m) \ {n} : AsOf[k] # AsOf[n]
  PROVE  StaysStarved(n, m)
  <1> SUFFICES ASSUME Starved(n, m)
               PROVE  /\ Starved(n, m)'
                      /\ \A k \in Nbrs(m) : Queued(m, k, "VOTING_PEERS_RESPONSE")' =>
                                              Queued(m, k, "VOTING_PEERS_RESPONSE")
    BY DEF StaysStarved
  <1>1. toDrop'[n] = m
    BY DropStays DEF Starved
  <1>2. votes'[m][AsOf[n]] = 0
    BY VoteStaysMissing
  <1>3. ~Queued(n, m, "VOTING_VOTE_RESPONSE")'
    <2>1. ~Longer(n, m)
      BY DEF Longer, bgp_keepalive_send, Dropped, Starved
    <2>2. chan[<<n, m>>] \in Seq(Message)
      BY DEF VotingInv, TypeOK
    <2>3. Shorter(n, m)
      BY <2>1, LinkStep, Zenon
    <2>4. ~Queued(n, m, "VOTING_VOTE_RESPONSE")
      BY DEF Starved
    <2> QED
      BY <2>2, <2>3, <2>4, ShorterLink
  <1>4. ASSUME NEW k \in Nbrs(m), Queued(m, k, "VOTING_PEERS_RESPONSE")'
        PROVE  Queued(m, k, "VOTING_PEERS_RESPONSE")
    <2>1. k \in Node /\ <<m, k>> \in Links
      BY DEF Nbrs
    <2>2. chan[<<m, k>>] \in Seq(Message)
      BY <2>1 DEF VotingInv, TypeOK
    <2>3. CASE Shorter(m, k)
      BY <1>4, <2>1, <2>2, <2>3, ShorterLink, Zenon
    <2>4. CASE Longer(m, k)
      <3>a. PICK code \in TrustCodes :
              chan'[<<m, k>>] = chan[<<m, k>>] \o Burst(m, k, code)
        BY <2>4 DEF Longer
      <3> DEFINE old == chan[<<m, k>>]
                 more == Burst(m, k, code)
                 H == {p \in Message : p.type # "VOTING_PEERS_RESPONSE"}
      <3>1. ~AllVotesArrived(m)
        BY MissingVote DEF Starved
      <3>2. more \in Seq(H)
        BY <2>1, <3>1, BurstWithoutPool
      <3>3. PICK i \in DOMAIN (old \o more) :
              (old \o more)[i].type = "VOTING_PEERS_RESPONSE"
        BY <1>4, <3>a DEF Queued
      <3>4. \A j \in DOMAIN more : more[j].type # "VOTING_PEERS_RESPONSE"
        BY <3>2
      <3> HIDE DEF more, H
      <3>5. i \in DOMAIN old /\ old[i] = (old \o more)[i]
        BY <2>2, <3>2, <3>3, <3>4
      <3> QED
        BY <3>3, <3>5 DEF Queued
    <2> QED
      BY <2>1, <2>3, <2>4, LinkStep, Zenon
  <1> QED
    BY <1>1, <1>2, <1>3, <1>4 DEF Starved

(* In every network, a router whose neighbour has dropped it before voting  *)
(* waits for that vote for ever, and answers no pool request again, however *)
(* often sessions are lost and come back.                                   *)
THEOREM DropStarves == Spec => DropStarvesPool
  <1> DEFINE A == \A l \in Links :
                    (\A k \in Nbrs(l[2]) \ {l[1]} : AsOf[k] # AsOf[l[1]]) =>
                      StaysStarved(l[1], l[2])
  <1>1. ASSUME VotingInv, Next PROVE A
    <2> SUFFICES ASSUME NEW l \in Links,
                        \A k \in Nbrs(l[2]) \ {l[1]} : AsOf[k] # AsOf[l[1]]
                 PROVE  StaysStarved(l[1], l[2])
      OBVIOUS
    <2>1. /\ l[1] \in Node /\ l[2] \in Node /\ l = <<l[1], l[2]>>
          /\ <<l[2], l[1]>> \in Links
      BY LinkEnds, Zenon
    <2>2. PICK e \in Links : Step(e[1], e[2])
      BY <1>1 DEF Next
    <2>3. PICK a \in Node, b \in Node :
            <<a, b>> \in Links /\ <<b, a>> \in Links /\ Step(a, b)
      BY <2>2, LinkEnds, Zenon
    <2>4. <<l[1], l[2]>> \in Links
      BY <2>1, Zenon
    <2> QED
      BY <1>1, <2>1, <2>3, <2>4, StarvedStep, Zenon
  <1>2. VotingInv /\ [Next]_vars => [A]_vars
    BY <1>1
  <1> QED
    BY <1>2, VotingInvariant, PTL DEF Spec, DropStarvesPool
=============================================================================
