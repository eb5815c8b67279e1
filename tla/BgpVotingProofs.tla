-------------------------- MODULE BgpVotingProofs --------------------------
(***************************************************************************)
(* Proofs about BgpVoting for every network, every table of configured     *)
(* trust and every bound: the invariants that the runs check on a line of  *)
(* three routers, and the refinement of VotePool.                          *)
(***************************************************************************)
EXTENDS BgpVoting, FiniteSetTheorems, SequenceTheorems, TLAPS

(* What may be on its way from router n to router m. *)
GoodPacket(n, m, p) ==
  /\ p.type = "TRUST" => p.code \in 10..99
  /\ p.type = "VOTING_VOTE_RESPONSE" => p.code \in VoteRange(m, AsOf[n])
  /\ p.type = "VOTING_PEERS_RESPONSE" =>
       IsPool(n, p.votes) /\ ~SharesNbrAS(n)

GoodPackets(n, m) == {p \in Message : GoodPacket(n, m, p)}

GoodVotes(n) ==
  \A a \in AS : votes[n][a] # 0 =>
    a \in NbrAS(n) /\ votes[n][a] \in VoteRange(n, a)

GoodResult(n, a) ==
  voteresult[n][a] # NoFile =>
    \E m \in Nbrs(n) : AsOf[m] = a /\ IsPool(m, voteresult[n][a])

(* The inductive invariant.  The safety properties alone are not inductive: *)
(* that a stored vote is in range rests on the votes in flight, these on    *)
(* the observed trust, and that on the TRUST packets in flight.             *)
VotingInv ==
  /\ TypeOK
  /\ TrustInRange
  /\ \A n \in Node : GoodVotes(n)
  /\ \A n \in Node, a \in AS : GoodResult(n, a)
  /\ \A n, m \in Node :
       <<n, m>> \in Links => chan[<<n, m>>] \in Seq(GoodPackets(n, m))

-----------------------------------------------------------------------------
(* Links join two routers, and exist in both directions. *)
LEMMA LinkEnds ==
  ASSUME NEW l \in Links
  PROVE  /\ l[1] \in Node /\ l[2] \in Node
         /\ l = <<l[1], l[2]>>
         /\ <<l[2], l[1]>> \in Links
  BY NetworkAssumption

(* AS numbers of routers index the files; votes are sums of two u_int16_t   *)
(* that fit in one, and never 0.                                            *)
LEMMA VoteRangeBounds ==
  ASSUME NEW n \in Node, NEW a \in AS
  PROVE  /\ VoteRange(n, a) \subseteq 10..198
         /\ 0 \notin VoteRange(n, a)
         /\ VoteRange(n, a) \subseteq Nat
  <1>1. InTrust[a][AsOf[n]] \in 0..99
    BY NetworkAssumption, TrustAssumption
  <1> QED
    BY <1>1 DEF VoteRange

(* A router has no more neighbouring ASes than links, and as many only if   *)
(* no two of its neighbours are in the same AS.                             *)
LEMMA NeighbourCount ==
  ASSUME NEW n \in Node
  PROVE  /\ IsFiniteSet(NbrAS(n))
         /\ NbrAS(n) \subseteq AS
         /\ Cardinality(NbrAS(n)) \in Nat
         /\ neighborsN(n) \in Nat
         /\ Cardinality(NbrAS(n)) <= neighborsN(n)
         /\ Cardinality(NbrAS(n)) = neighborsN(n) => ~SharesNbrAS(n)
  <1> DEFINE f == [m \in Nbrs(n) |-> AsOf[m]]
  <1>1. IsFiniteSet(Nbrs(n))
    BY NetworkAssumption, FS_Subset, Zenon DEF Nbrs
  <1>2. f \in Surjection(Nbrs(n), NbrAS(n))
    BY DEF NbrAS, Surjection
  <1>3. f \in Injection(Nbrs(n), NbrAS(n)) => ~SharesNbrAS(n)
    <2> SUFFICES ASSUME f \in Injection(Nbrs(n), NbrAS(n)), SharesNbrAS(n)
                 PROVE  FALSE
      OBVIOUS
    <2>1. PICK p, q \in Nbrs(n) : p # q /\ AsOf[p] = AsOf[q]
      BY DEF SharesNbrAS
    <2>2. f[p] = AsOf[p] /\ f[q] = AsOf[q]
      OBVIOUS
    <2> QED
      BY <2>1, <2>2, Zenon DEF Injection, IsInjective
  <1>4. NbrAS(n) \subseteq AS
    BY NetworkAssumption, Zenon DEF NbrAS, Nbrs
  <1> HIDE DEF f
  <1>5. /\ IsFiniteSet(NbrAS(n))
        /\ Cardinality(NbrAS(n)) <= Cardinality(Nbrs(n))
        /\ Cardinality(NbrAS(n)) = Cardinality(Nbrs(n))
             <=> f \in Injection(Nbrs(n), NbrAS(n))
    BY <1>1, <1>2, FS_Surjection
  <1>6. Cardinality(NbrAS(n)) \in Nat /\ Cardinality(Nbrs(n)) \in Nat
    BY <1>1, <1>5, FS_CardinalityType
  <1> QED
    BY <1>3, <1>4, <1>5, <1>6 DEF neighborsN

(* When votesCounter == neighborsN the votes are those of every             *)
(* neighbouring AS, and no two neighbours share an AS.                      *)
LEMMA ArrivedMeansAll ==
  ASSUME NEW n \in Node, GoodVotes(n), AllVotesArrived(n)
  PROVE  Voted(n) = NbrAS(n) /\ ~SharesNbrAS(n)
  <1>1. Voted(n) \in SUBSET NbrAS(n)
    BY DEF Voted, GoodVotes
  <1>2. /\ IsFiniteSet(NbrAS(n))
        /\ Cardinality(NbrAS(n)) \in Nat
        /\ neighborsN(n) \in Nat
        /\ Cardinality(NbrAS(n)) <= neighborsN(n)
        /\ Cardinality(NbrAS(n)) = neighborsN(n) => ~SharesNbrAS(n)
    BY NeighbourCount
  <1>3. /\ Cardinality(Voted(n)) <= Cardinality(NbrAS(n))
        /\ Cardinality(NbrAS(n)) = Cardinality(Voted(n)) => NbrAS(n) = Voted(n)
    BY <1>1, <1>2, FS_Subset
  <1>4. Cardinality(Voted(n)) = neighborsN(n)
    BY DEF AllVotesArrived
  <1>5. Cardinality(NbrAS(n)) = neighborsN(n)
    BY <1>2, <1>3, <1>4
  <1> QED
    BY <1>2, <1>3, <1>4, <1>5

(* Then /votes is a pool. *)
LEMMA ArrivedIsPool ==
  ASSUME NEW n \in Node, GoodVotes(n), AllVotesArrived(n)
  PROVE  IsPool(n, votes[n]) /\ ~SharesNbrAS(n)
  <1>1. Voted(n) = NbrAS(n) /\ ~SharesNbrAS(n)
    BY ArrivedMeansAll
  <1>2. ASSUME NEW a \in AS
        PROVE  IF a \in NbrAS(n) THEN votes[n][a] \in VoteRange(n, a)
               ELSE votes[n][a] = 0
    BY <1>1 DEF Voted, GoodVotes
  <1> QED
    BY <1>1, <1>2 DEF IsPool

-----------------------------------------------------------------------------
(* One bgp_keepalive_send queues good packets only: the vote is a sum of    *)
(* trusts in range, and the pool is complete.                               *)
LEMMA BurstGood ==
  ASSUME VotingInv, NEW n \in Node, NEW m \in Node, NEW code \in TrustCodes
  PROVE  Burst(n, m, code) \in Seq(GoodPackets(n, m))
  <1> DEFINE G == GoodPackets(n, m)
  <1>1. Trust(code) \in G
    BY TrustAssumption DEF GoodPackets, GoodPacket, Message, Trust
  <1>2. PeersRequest \in G /\ VoteRequest \in G /\ Keepalive \in G
    BY DEF GoodPackets, GoodPacket, Message, PeersRequest, VoteRequest,
           Keepalive
  <1>3. AllVotesArrived(n) => PeersResponse(votes[n]) \in G
    <2> SUFFICES ASSUME AllVotesArrived(n) PROVE PeersResponse(votes[n]) \in G
      OBVIOUS
    <2>1. votes[n] \in [AS -> Nat] /\ GoodVotes(n)
      BY DEF VotingInv, TypeOK
    <2>2. IsPool(n, votes[n]) /\ ~SharesNbrAS(n)
      BY <2>1, ArrivedIsPool
    <2> QED
      BY <2>1, <2>2 DEF GoodPackets, GoodPacket, Message, PeersResponse
  <1>4. VoteResponse(VoteAbout(n, m)) \in G
    <2>1. AsOf[n] \in AS /\ AsOf[m] \in AS
      BY NetworkAssumption, Zenon
    <2>2. InTrust[AsOf[n]][AsOf[m]] \in 0..99
      BY <2>1, TrustAssumption, Zenon
    <2>3. obsTrust[n][AsOf[m]] \in 10..99
      BY <2>1, Zenon DEF VotingInv, TrustInRange
    <2>4. \A i \in 0..99, o \in 10..99 : o + i \in Nat /\ o + i \in (i + 10)..(i + 99)
      OBVIOUS
    <2>5. VoteAbout(n, m) \in Nat /\ VoteAbout(n, m) \in VoteRange(m, AsOf[n])
      BY <2>2, <2>3, <2>4, Zenon DEF VoteAbout, VoteRange
    <2> QED
      BY <2>5 DEF GoodPackets, GoodPacket, Message, VoteResponse
  <1> HIDE DEF G
  <1>5. <<Trust(code), PeersRequest>> \in Seq(G) /\ <<Keepalive>> \in Seq(G)
    BY <1>1, <1>2
  <1>6. If(PoolDue(n, m), PeersResponse(votes[n])) \in Seq(G)
    BY <1>3, EmptySeq DEF If, PoolDue
  <1>7. If(VotesWanted(n), VoteRequest) \in Seq(G)
    BY <1>2, EmptySeq DEF If
  <1>8. If(VoteDue(n, m), VoteResponse(VoteAbout(n, m))) \in Seq(G)
    BY <1>4, EmptySeq DEF If
  <1>9. Burst(n, m, code) \in Seq(G)
    BY <1>5, <1>6, <1>7, <1>8, ConcatProperties DEF Burst
  <1> QED
    BY <1>9 DEF G

(* Reading takes a good packet off the link and leaves good ones. *)
LEMMA ReadGood ==
  ASSUME VotingInv, NEW n \in Node, NEW m \in Node, <<m, n>> \in Links,
         NEW type, bgp_read(n, m, type)
  PROVE  /\ Head(chan[<<m, n>>]) \in GoodPackets(m, n)
         /\ Head(chan[<<m, n>>]).type = type
         /\ chan' \in [Links -> Seq(Message)]
         /\ \A p, q \in Node : <<p, q>> \in Links =>
              chan'[<<p, q>>] \in Seq(GoodPackets(p, q))
  <1> DEFINE s == chan[<<m, n>>]
  <1>1. /\ s \in Seq(GoodPackets(m, n)) /\ s # <<>>
        /\ s \in Seq(Message)
        /\ chan' = [chan EXCEPT ![<<m, n>>] = Tail(s)]
        /\ chan \in [Links -> Seq(Message)]
    BY DEF VotingInv, TypeOK, bgp_read
  <1>2. /\ Head(s) \in GoodPackets(m, n)
        /\ Tail(s) \in Seq(GoodPackets(m, n))
        /\ Tail(s) \in Seq(Message)
    BY <1>1, HeadTailProperties
  <1>3. chan' \in [Links -> Seq(Message)]
    BY <1>1, <1>2
  <1>4. ASSUME NEW p \in Node, NEW q \in Node, <<p, q>> \in Links
        PROVE  chan'[<<p, q>>] \in Seq(GoodPackets(p, q))
    <2>1. CASE p = m /\ q = n
      BY <1>1, <1>2, <2>1
    <2>2. CASE ~(p = m /\ q = n)
      <3>1. <<p, q>> # <<m, n>>
        BY <2>2
      <3>2. chan'[<<p, q>>] = chan[<<p, q>>]
        BY <1>1, <1>4, <3>1
      <3> QED
        BY <1>4, <3>2 DEF VotingInv
    <2> QED
      BY <2>1, <2>2
  <1> QED
    BY <1>2, <1>3, <1>4, Zenon DEF bgp_read

(* The rounded moving average stays within the range of its inputs. *)
LEMMA EwmaInRange ==
  ASSUME NEW obs \in 10..99, NEW rcvd \in 10..99
  PROVE  Ewma(obs, rcvd) \in 10..99
  BY DEF Ewma

-----------------------------------------------------------------------------
(* Each action preserves the invariant. *)

(* bgp_keepalive_send queues good packets, and only forgets votes and requests. *)
LEMMA SendInv ==
  ASSUME VotingInv, NEW n \in Node, NEW m \in Node, <<n, m>> \in Links,
         bgp_keepalive_send(n, m)
  PROVE  VotingInv'
  <1> USE DEF VotingInv
  <1>1. PICK code \in TrustCodes :
          chan' = [chan EXCEPT ![<<n, m>>] = @ \o Burst(n, m, code)]
    BY Zenon DEF bgp_keepalive_send
  <1>2. Burst(n, m, code) \in Seq(GoodPackets(n, m))
    BY BurstGood
  <1> DEFINE s == chan[<<n, m>>] \o Burst(n, m, code)
  <1>3. s \in Seq(GoodPackets(n, m))
    BY <1>2, ConcatProperties
  <1>4. GoodPackets(n, m) \subseteq Message
    BY DEF GoodPackets
  <1>5. s \in Seq(Message)
    BY <1>3, <1>4, SeqMonotonic
  <1>6. chan' = [chan EXCEPT ![<<n, m>>] = s] /\ chan \in [Links -> Seq(Message)]
    BY <1>1 DEF TypeOK
  <1> HIDE DEF s
  <1>7. \A p, q \in Node : <<p, q>> \in Links =>
          chan'[<<p, q>>] \in Seq(GoodPackets(p, q))
    <2> SUFFICES ASSUME NEW p \in Node, NEW q \in Node, <<p, q>> \in Links
                 PROVE  chan'[<<p, q>>] \in Seq(GoodPackets(p, q))
      OBVIOUS
    <2>1. CASE p = n /\ q = m
      BY <1>3, <1>6, <2>1
    <2>2. CASE ~(p = n /\ q = m)
      <3>1. <<p, q>> # <<n, m>>
        BY <2>2
      <3>2. chan'[<<p, q>>] = chan[<<p, q>>]
        BY <1>6, <3>1
      <3> QED
        BY <3>2
    <2> QED
      BY <2>1, <2>2
  <1>8. NoVotes \in [AS -> Nat] /\ \A a \in AS : NoVotes[a] = 0
    BY DEF NoVotes
  <1>9. VotesAfter(n, m) = NoVotes \/ VotesAfter(n, m) = votes[n]
    BY DEF VotesAfter
  <1>10. votes' = [votes EXCEPT ![n] = VotesAfter(n, m)]
    BY DEF bgp_keepalive_send
  <1>11. /\ votes' \in [Node -> [AS -> Nat]]
         /\ \A k \in Node : GoodVotes(k)'
    BY <1>8, <1>9, <1>10, Zenon DEF TypeOK, GoodVotes
  <1>12. \E late \in BOOLEAN :
           toDrop' = [toDrop EXCEPT ![n] = DropAfterTrust(n, m, late)]
    BY Zenon DEF bgp_keepalive_send
  <1>13. toDrop' \in [Node -> Node \cup {NoPeer}]
    BY <1>12 DEF TypeOK, DropAfterTrust
  <1>14. /\ votesRequests' \in [Node -> SUBSET AS]
         /\ votesResponses' \in [Node -> SUBSET AS]
    BY DEF TypeOK, bgp_keepalive_send, RequestsAfter
  <1>15. UNCHANGED <<obsTrust, voteresult, up, resets>>
    BY DEF bgp_keepalive_send
  <1>16. TypeOK'
    BY <1>5, <1>6, <1>11, <1>13, <1>14, <1>15, SMTT(30) DEF TypeOK
  <1>17. TrustInRange' /\ \A k \in Node, a \in AS : GoodResult(k, a)'
    BY <1>15 DEF TrustInRange, GoodResult
  <1> QED
    BY <1>7, <1>11, <1>16, <1>17

(* bgp_trust_receive keeps the moving average in range. *)
LEMMA TrustReceiveInv ==
  ASSUME VotingInv, NEW n \in Node, NEW m \in Node, <<m, n>> \in Links,
         bgp_trust_receive(n, m)
  PROVE  VotingInv'
  <1> USE DEF VotingInv
  <1>1. bgp_read(n, m, "TRUST")
    BY DEF bgp_trust_receive
  <1>2. /\ Head(chan[<<m, n>>]) \in GoodPackets(m, n)
        /\ Head(chan[<<m, n>>]).type = "TRUST"
        /\ chan' \in [Links -> Seq(Message)]
        /\ \A p, q \in Node : <<p, q>> \in Links =>
             chan'[<<p, q>>] \in Seq(GoodPackets(p, q))
    BY <1>1, ReadGood, Zenon
  <1>3. PICK code \in 10..99 : code = Head(chan[<<m, n>>]).code
    BY <1>2, Zenon DEF GoodPackets, GoodPacket
  <1>4. AsOf[m] \in AS
    BY NetworkAssumption
  <1>5. obsTrust[n][AsOf[m]] \in 10..99
    BY <1>4, Zenon DEF TrustInRange
  <1>6. PICK e \in 10..99 : e = Ewma(obsTrust[n][AsOf[m]], code)
    BY <1>5, EwmaInRange, ZenonT(40)
  <1>7. /\ obsTrust \in [Node -> [AS -> Nat]]
        /\ obsTrust' = [obsTrust EXCEPT ![n] = [@ EXCEPT ![AsOf[m]] = e]]
    BY <1>3, <1>6, Zenon DEF bgp_trust_receive, TypeOK
  <1>8. UNCHANGED <<votes, votesRequests, votesResponses, voteresult, toDrop,
                    up, resets>>
    BY DEF bgp_trust_receive
  <1> DEFINE row == [obsTrust[n] EXCEPT ![AsOf[m]] = e]
  <1>9. row \in [AS -> Nat] /\ \A a \in AS : row[a] \in 10..99
    <2>1. \A a \in AS : row[a] = IF a = AsOf[m] THEN e ELSE obsTrust[n][a]
      BY <1>4, <1>7
    <2>2. \A a \in AS : obsTrust[n][a] \in 10..99
      BY DEF TrustInRange
    <2>3. \A i \in 10..99 : i \in Nat
      OBVIOUS
    <2> QED
      BY <1>4, <1>7, <2>1, <2>2, <2>3, Zenon
  <1>10. obsTrust' = [obsTrust EXCEPT ![n] = row]
    BY <1>7
  <1> HIDE DEF row
  <1>11. obsTrust' \in [Node -> [AS -> Nat]] /\ TrustInRange'
    BY <1>7, <1>9, <1>10, Zenon DEF TrustInRange
  <1>12. TypeOK'
    BY <1>2, <1>8, <1>11, Zenon DEF TypeOK
  <1> QED
    BY <1>2, <1>8, <1>11, <1>12 DEF GoodVotes, GoodResult

(* bgp_voting_peers_request_receive only notes a neighbouring AS. *)
LEMMA PeersRequestInv ==
  ASSUME VotingInv, NEW n \in Node, NEW m \in Node, <<m, n>> \in Links,
         bgp_voting_peers_request_receive(n, m)
  PROVE  VotingInv'
  <1> USE DEF VotingInv
  <1>1. bgp_read(n, m, "VOTING_PEERS_REQUEST")
    BY DEF bgp_voting_peers_request_receive
  <1>2. /\ chan' \in [Links -> Seq(Message)]
        /\ \A p, q \in Node : <<p, q>> \in Links =>
             chan'[<<p, q>>] \in Seq(GoodPackets(p, q))
    BY <1>1, ReadGood
  <1>3. UNCHANGED <<obsTrust, votes, votesResponses, voteresult, toDrop, up,
                    resets>>
    BY DEF bgp_voting_peers_request_receive
  <1>4. votesRequests' \in [Node -> SUBSET AS]
    BY NetworkAssumption DEF TypeOK, bgp_voting_peers_request_receive
  <1>5. TypeOK'
    BY <1>2, <1>3, <1>4 DEF TypeOK
  <1> QED
    BY <1>2, <1>3, <1>5 DEF TrustInRange, GoodVotes, GoodResult

(* bgp_voting_vote_request_receive only notes a neighbouring AS. *)
LEMMA VoteRequestInv ==
  ASSUME VotingInv, NEW n \in Node, NEW m \in Node, <<m, n>> \in Links,
         bgp_voting_vote_request_receive(n, m)
  PROVE  VotingInv'
  <1> USE DEF VotingInv
  <1>1. bgp_read(n, m, "VOTING_VOTE_REQUEST")
    BY DEF bgp_voting_vote_request_receive
  <1>2. /\ chan' \in [Links -> Seq(Message)]
        /\ \A p, q \in Node : <<p, q>> \in Links =>
             chan'[<<p, q>>] \in Seq(GoodPackets(p, q))
    BY <1>1, ReadGood
  <1>3. UNCHANGED <<obsTrust, votes, votesRequests, voteresult, toDrop, up,
                    resets>>
    BY DEF bgp_voting_vote_request_receive
  <1>4. votesResponses' \in [Node -> SUBSET AS]
    <2>1. /\ votesResponses \in [Node -> SUBSET AS]
          /\ votesResponses' =
               [votesResponses EXCEPT ![n] = @ \cup {AsOf[m]}]
          /\ AsOf[m] \in AS
      BY NetworkAssumption, Zenon DEF TypeOK, bgp_voting_vote_request_receive
    <2> QED
      BY <2>1
  <1>5. TypeOK'
    BY <1>2, <1>3, <1>4 DEF TypeOK
  <1> QED
    BY <1>2, <1>3, <1>5 DEF TrustInRange, GoodVotes, GoodResult

(* The vote of neighbour m that router n stores. *)
LEMMA StoredVote ==
  ASSUME VotingInv, NEW n \in Node, NEW m \in Node, <<m, n>> \in Links,
         bgp_voting_vote_response_receive(n, m)
  PROVE  \E v \in VoteRange(n, AsOf[m]) :
           /\ AsOf[m] \in AS /\ AsOf[m] \in NbrAS(n)
           /\ v \in Nat /\ v # 0
           /\ votes' = [votes EXCEPT ![n] = [@ EXCEPT ![AsOf[m]] = v]]
           /\ votes \in [Node -> [AS -> Nat]]
  <1> DEFINE v == Head(chan[<<m, n>>]).code
  <1> USE DEF VotingInv
  <1>1. bgp_read(n, m, "VOTING_VOTE_RESPONSE")
    BY DEF bgp_voting_vote_response_receive
  <1>2. /\ Head(chan[<<m, n>>]) \in GoodPackets(m, n)
        /\ Head(chan[<<m, n>>]).type = "VOTING_VOTE_RESPONSE"
    BY <1>1, ReadGood, SMTT(30)
  <1>3. v \in VoteRange(n, AsOf[m])
    BY <1>2 DEF GoodPackets, GoodPacket
  <1>4. AsOf[m] \in AS /\ AsOf[m] \in NbrAS(n)
    BY NetworkAssumption DEF NbrAS, Nbrs
  <1>5. v \in Nat /\ v # 0
    BY <1>3, <1>4, VoteRangeBounds
  <1>6. /\ votes \in [Node -> [AS -> Nat]]
        /\ votes' = [votes EXCEPT ![n] = [@ EXCEPT ![AsOf[m]] = v]]
    BY SMTT(30) DEF TypeOK, bgp_voting_vote_response_receive
  <1> QED
    BY <1>3, <1>4, <1>5, <1>6, Zenon

(* bgp_voting_vote_response_receive stores a vote in range, of a neighbour. *)
LEMMA VoteResponseInv ==
  ASSUME VotingInv, NEW n \in Node, NEW m \in Node, <<m, n>> \in Links,
         bgp_voting_vote_response_receive(n, m)
  PROVE  VotingInv'
  <1> USE DEF VotingInv
  <1>1. bgp_read(n, m, "VOTING_VOTE_RESPONSE")
    BY DEF bgp_voting_vote_response_receive
  <1>2. /\ chan' \in [Links -> Seq(Message)]
        /\ \A p, q \in Node : <<p, q>> \in Links =>
             chan'[<<p, q>>] \in Seq(GoodPackets(p, q))
    BY <1>1, ReadGood
  <1>3. UNCHANGED <<obsTrust, votesRequests, votesResponses, voteresult,
                    toDrop, up, resets>>
    BY DEF bgp_voting_vote_response_receive
  <1>4. PICK v \in VoteRange(n, AsOf[m]) :
           /\ AsOf[m] \in AS /\ AsOf[m] \in NbrAS(n)
           /\ v \in Nat /\ v # 0
           /\ votes' = [votes EXCEPT ![n] = [@ EXCEPT ![AsOf[m]] = v]]
           /\ votes \in [Node -> [AS -> Nat]]
    BY StoredVote, Zenon
  <1> DEFINE row == [votes[n] EXCEPT ![AsOf[m]] = v]
  <1>5. row \in [AS -> Nat]
    BY <1>4
  <1>6. \A a \in AS : row[a] # 0 => a \in NbrAS(n) /\ row[a] \in VoteRange(n, a)
    BY <1>4 DEF GoodVotes
  <1>7. votes' = [votes EXCEPT ![n] = row] /\ votes \in [Node -> [AS -> Nat]]
    BY <1>4
  <1> HIDE DEF row
  <1>8. /\ votes' \in [Node -> [AS -> Nat]]
        /\ \A k \in Node : GoodVotes(k)'
    BY <1>5, <1>6, <1>7 DEF GoodVotes
  <1>9. TypeOK'
    BY <1>2, <1>3, <1>8, Zenon DEF TypeOK
  <1> QED
    BY <1>2, <1>3, <1>8, <1>9 DEF TrustInRange, GoodResult

(* bgp_voting_peers_response_receive stores a complete pool of a neighbour. *)
LEMMA PeersResponseInv ==
  ASSUME VotingInv, NEW n \in Node, NEW m \in Node, <<m, n>> \in Links,
         <<n, m>> \in Links, bgp_voting_peers_response_receive(n, m)
  PROVE  VotingInv'
  <1> USE DEF VotingInv
  <1>1. bgp_read(n, m, "VOTING_PEERS_RESPONSE")
    BY SMTT(30) DEF bgp_voting_peers_response_receive
  <1>2. /\ Head(chan[<<m, n>>]) \in GoodPackets(m, n)
        /\ Head(chan[<<m, n>>]).type = "VOTING_PEERS_RESPONSE"
        /\ chan' \in [Links -> Seq(Message)]
        /\ \A p, q \in Node : <<p, q>> \in Links =>
             chan'[<<p, q>>] \in Seq(GoodPackets(p, q))
    BY <1>1, ReadGood, Zenon
  <1>3. UNCHANGED <<obsTrust, votes, votesRequests, votesResponses, toDrop,
                    up, resets>>
    BY DEF bgp_voting_peers_response_receive
  <1>4. PICK pool \in [AS -> Nat] :
          pool = Head(chan[<<m, n>>]).votes /\ IsPool(m, pool)
    BY <1>2, Zenon DEF GoodPackets, GoodPacket, Message
  <1>5. AsOf[m] \in AS /\ m \in Nbrs(n)
    BY NetworkAssumption DEF Nbrs
  <1> DEFINE row == [voteresult[n] EXCEPT ![AsOf[m]] = pool]
  <1>6. /\ voteresult \in [Node -> [AS -> [AS -> Nat] \cup {NoFile}]]
        /\ voteresult' = [voteresult EXCEPT ![n] = row]
    BY <1>4 DEF bgp_voting_peers_response_receive, TypeOK
  <1>7. row \in [AS -> [AS -> Nat] \cup {NoFile}]
    BY <1>4, <1>5, <1>6, Zenon
  <1>8. \A a \in AS : row[a] # NoFile =>
          \E k \in Nbrs(n) : AsOf[k] = a /\ IsPool(k, row[a])
    <2> SUFFICES ASSUME NEW a \in AS, row[a] # NoFile
                 PROVE  \E k \in Nbrs(n) : AsOf[k] = a /\ IsPool(k, row[a])
      OBVIOUS
    <2>1. CASE a = AsOf[m]
      <3>1. row[a] = pool
        BY <1>5, <1>6, <2>1
      <3> QED
        BY <1>4, <1>5, <2>1, <3>1, Zenon
    <2>2. CASE a # AsOf[m]
      <3>1. row[a] = voteresult[n][a]
        BY <1>5, <1>6, <2>2
      <3> QED
        BY <3>1 DEF GoodResult
    <2> QED
      BY <2>1, <2>2
  <1> HIDE DEF row
  <1>9. voteresult' \in [Node -> [AS -> [AS -> Nat] \cup {NoFile}]]
    BY <1>6, <1>7
  <1>10. ASSUME NEW k \in Node, NEW a \in AS
         PROVE  GoodResult(k, a)'
    <2>1. CASE k = n
      BY <1>6, <1>8, <2>1 DEF GoodResult
    <2>2. CASE k # n
      <3>1. voteresult'[k] = voteresult[k]
        BY <1>6, <2>2
      <3>2. GoodResult(k, a)
        OBVIOUS
      <3> QED
        BY <3>1, <3>2 DEF GoodResult
    <2> QED
      BY <2>1, <2>2
  <1>11. TypeOK'
    BY <1>2, <1>3, <1>9, Zenon DEF TypeOK
  <1> QED
    BY <1>2, <1>3, <1>10, <1>11 DEF TrustInRange, GoodVotes

(* bgp_keepalive_receive only takes the packet off the link. *)
LEMMA KeepaliveReceiveInv ==
  ASSUME VotingInv, NEW n \in Node, NEW m \in Node, <<m, n>> \in Links,
         bgp_keepalive_receive(n, m)
  PROVE  VotingInv'
  <1> USE DEF VotingInv
  <1>1. bgp_read(n, m, "KEEPALIVE")
    BY DEF bgp_keepalive_receive
  <1>2. /\ chan' \in [Links -> Seq(Message)]
        /\ \A p, q \in Node : <<p, q>> \in Links =>
             chan'[<<p, q>>] \in Seq(GoodPackets(p, q))
    BY <1>1, ReadGood
  <1>3. UNCHANGED <<obsTrust, votes, votesRequests, votesResponses, voteresult,
                    toDrop, up, resets>>
    BY DEF bgp_keepalive_receive
  <1>4. TypeOK'
    BY <1>2, <1>3, Zenon DEF TypeOK
  <1> QED
    BY <1>2, <1>3, <1>4 DEF TrustInRange, GoodVotes, GoodResult

(* A session that comes up or is lost leaves good packets, or none. *)
LEMMA SessionInv ==
  ASSUME VotingInv, NEW n \in Node, NEW m \in Node, <<m, n>> \in Links,
         <<n, m>> \in Links, SessionUp(n, m) \/ SessionDown(n, m)
  PROVE  VotingInv'
  <1> USE DEF VotingInv
  <1>1. UNCHANGED <<obsTrust, votes, votesRequests, votesResponses, voteresult,
                    toDrop>>
    BY SMTT(30) DEF SessionUp, SessionDown
  <1>2. up' \in SUBSET Links /\ resets' \in 0..MaxResets
    <2>1. up \in SUBSET Links /\ resets \in 0..MaxResets /\ MaxResets \in Nat
      BY TrustAssumption DEF TypeOK
    <2>2. CASE SessionUp(n, m)
      BY <2>1, <2>2, Zenon DEF SessionUp
    <2>3. CASE SessionDown(n, m)
      <3>1. up' = up \ {<<n, m>>, <<m, n>>}
        BY <2>3 DEF SessionDown
      <3>2. resets < MaxResets /\ resets' = resets + 1
        BY <2>3 DEF SessionDown
      <3> QED
        BY <2>1, <3>1, <3>2, SMTT(30)
    <2> QED
      BY <2>2, <2>3
  <1>3. \A l \in Links : chan'[l] = chan[l] \/ chan'[l] = <<>>
    BY DEF SessionUp, SessionDown
  <1>4. chan' \in [Links -> Seq(Message)]
    <2>1. chan \in [Links -> Seq(Message)] /\ <<>> \in Seq(Message)
      BY EmptySeq DEF TypeOK
    <2> QED
      BY <2>1, Zenon DEF SessionUp, SessionDown
  <1>5. ASSUME NEW p \in Node, NEW q \in Node, <<p, q>> \in Links
        PROVE  chan'[<<p, q>>] \in Seq(GoodPackets(p, q))
    <2>1. <<>> \in Seq(GoodPackets(p, q))
      BY EmptySeq
    <2> QED
      BY <1>3, <1>5, <2>1, Zenon
  <1>6. TypeOK'
    BY <1>1, <1>2, <1>4 DEF TypeOK
  <1> QED
    BY <1>1, <1>5, <1>6 DEF TrustInRange, GoodVotes, GoodResult

-----------------------------------------------------------------------------
(* The files that the simulation script writes satisfy the invariant. *)
LEMMA InitInv ==
  ASSUME Init
  PROVE  VotingInv
  <1>1. MaxResets \in Nat
    BY TrustAssumption
  <1>2. TypeOK
    <2>1. chan \in [Links -> Seq(Message)]
      BY EmptySeq DEF Init
    <2>2. NoVotes \in [AS -> Nat]
      BY DEF NoVotes
    <2>3. /\ votes \in [Node -> [AS -> Nat]]
          /\ obsTrust \in [Node -> [AS -> Nat]]
      BY <2>2 DEF Init
    <2>4. voteresult \in [Node -> [AS -> [AS -> Nat] \cup {NoFile}]]
      BY DEF Init
    <2>5. /\ votesRequests \in [Node -> SUBSET AS]
          /\ votesResponses \in [Node -> SUBSET AS]
          /\ toDrop \in [Node -> Node \cup {NoPeer}]
          /\ up \in SUBSET Links
          /\ resets \in 0..MaxResets
      BY <1>1 DEF Init
    <2> QED
      BY <2>1, <2>3, <2>4, <2>5 DEF TypeOK
  <1>3. TrustInRange
    BY DEF Init, TrustInRange
  <1>4. \A n \in Node : GoodVotes(n)
    BY DEF Init, GoodVotes, NoVotes
  <1>5. \A n \in Node, a \in AS : GoodResult(n, a)
    BY DEF Init, GoodResult
  <1>6. \A n, m \in Node :
          <<n, m>> \in Links => chan[<<n, m>>] \in Seq(GoodPackets(n, m))
    BY EmptySeq DEF Init
  <1> QED
    BY <1>2, <1>3, <1>4, <1>5, <1>6 DEF VotingInv

(* Every step of a router preserves the invariant. *)
LEMMA NextInv ==
  ASSUME VotingInv, [Next]_vars
  PROVE  VotingInv'
  <1>1. CASE UNCHANGED vars
    BY <1>1 DEF vars, VotingInv, TypeOK, TrustInRange, GoodVotes, GoodResult
  <1>2. CASE Next
    <2>1. PICK l \in Links : Step(l[1], l[2])
      BY <1>2 DEF Next
    <2>2. PICK n \in Node, m \in Node :
            <<n, m>> \in Links /\ <<m, n>> \in Links /\ Step(n, m)
      BY <2>1, LinkEnds, Zenon
    <2>3. CASE bgp_keepalive_send(n, m)
      BY <2>2, <2>3, SendInv
    <2>4. CASE Receive(n, m)
      BY <2>2, <2>4, TrustReceiveInv, PeersRequestInv, VoteRequestInv,
         VoteResponseInv, PeersResponseInv, KeepaliveReceiveInv, SMTT(30) DEF Receive
    <2>5. CASE SessionUp(n, m) \/ SessionDown(n, m)
      BY <2>2, <2>5, SessionInv
    <2> QED
      BY <2>2, <2>3, <2>4, <2>5 DEF Step
  <1> QED
    BY <1>1, <1>2, Zenon

(* VotingInv holds in every state of every network running this code.       *)
THEOREM VotingInvariant == Spec => []VotingInv
  <1>1. Init => VotingInv
    BY InitInv
  <1>2. VotingInv /\ [Next]_vars => VotingInv'
    BY NextInv
  <1> QED
    BY <1>1, <1>2, PTL DEF Spec

(* The files and the packets always have the form the code gives them. *)
THEOREM TypeCorrect == Spec => []TypeOK
  <1>1. VotingInv => TypeOK
    BY DEF VotingInv
  <1> QED
    BY <1>1, VotingInvariant, PTL

(* No sequence of TRUST packets takes the moving average of                 *)
(* bgp_trust_receive out of the range of the values sent.                   *)
THEOREM TrustStaysInRange == Spec => []TrustInRange
  <1>1. VotingInv => TrustInRange
    BY DEF VotingInv
  <1> QED
    BY <1>1, VotingInvariant, PTL

(* What the invariant says of one packet in flight. *)
LEMMA InFlight ==
  ASSUME VotingInv, NEW l \in Links, NEW i \in DOMAIN chan[l]
  PROVE  /\ l[1] \in Node /\ l[2] \in Node
         /\ GoodPacket(l[1], l[2], chan[l][i])
  <1>1. /\ l[1] \in Node /\ l[2] \in Node /\ l = <<l[1], l[2]>>
    BY LinkEnds, Zenon
  <1>2. chan[l] \in Seq(GoodPackets(l[1], l[2]))
    BY <1>1 DEF VotingInv
  <1>3. chan[l][i] \in GoodPackets(l[1], l[2])
    BY <1>2
  <1> QED
    BY <1>1, <1>3 DEF GoodPackets

(* Every vote stored or in flight was cast by a neighbour about the router  *)
(* that stores it, in the range of the sums bgp_voting_vote_response_send   *)
(* makes, and is not 0.                                                     *)
THEOREM VotesAreAuthentic == Spec => []VotesAuthentic
  <1>1. ASSUME VotingInv PROVE VotesAuthentic
    <2>1. \A n \in Node : \A a \in Voted(n) :
            a \in NbrAS(n) /\ votes[n][a] \in VoteRange(n, a)
      BY <1>1, SMTT(30) DEF VotingInv, GoodVotes, Voted
    <2>2. \A l \in Links : \A i \in DOMAIN chan[l] :
            chan[l][i].type = "VOTING_VOTE_RESPONSE" =>
              chan[l][i].code \in VoteRange(l[2], AsOf[l[1]])
      BY <1>1, InFlight, SMTT(30) DEF GoodPacket
    <2> QED
      BY <2>1, <2>2 DEF VotesAuthentic
  <1> QED
    BY <1>1, VotingInvariant, PTL

(* No pool that is sent or stored lacks a neighbour's vote. *)
THEOREM PoolsAreComplete == Spec => []PoolsComplete
  <1>1. ASSUME VotingInv PROVE PoolsComplete
    <2>1. \A l \in Links : \A i \in DOMAIN chan[l] :
            chan[l][i].type = "VOTING_PEERS_RESPONSE" =>
              IsPool(l[1], chan[l][i].votes)
      BY <1>1, InFlight DEF GoodPacket
    <2>2. \A n \in Node, a \in AS :
            voteresult[n][a] # NoFile =>
              \E m \in Nbrs(n) : AsOf[m] = a /\ IsPool(m, voteresult[n][a])
      BY <1>1, SMTT(30) DEF VotingInv, GoodResult
    <2> QED
      BY <2>1, <2>2, SMTT(30) DEF PoolsComplete
  <1> QED
    BY <1>1, VotingInvariant, PTL

(* In any topology, a router with two neighbours in one AS never answers a  *)
(* pool request: votes are counted per AS, neighbours per link.             *)
THEOREM SharedAsNeverAnswers == Spec => []SharedAsNeverPools
  <1>1. ASSUME VotingInv PROVE SharedAsNeverPools
    <2> SUFFICES ASSUME NEW n \in Node, SharesNbrAS(n), NEW m \in Nbrs(n),
                        Queued(n, m, "VOTING_PEERS_RESPONSE")
                 PROVE  FALSE
      BY DEF SharedAsNeverPools
    <2>1. <<n, m>> \in Links
      BY DEF Nbrs
    <2>2. PICK i \in DOMAIN chan[<<n, m>>] :
            chan[<<n, m>>][i].type = "VOTING_PEERS_RESPONSE"
      BY DEF Queued
    <2>3. GoodPacket(n, m, chan[<<n, m>>][i])
      BY <1>1, <2>1, InFlight
    <2> QED
      BY <2>2, <2>3 DEF GoodPacket
  <1> QED
    BY <1>1, VotingInvariant, PTL

-----------------------------------------------------------------------------
(* The refinement of VotePool.  Only three actions change what VotePool     *)
(* sees: a keepalive that hands a pool out is a HandOut, a vote received is *)
(* a Vote, a pool request received is a Want.                               *)

voted == [n \in Node |-> Voted(n)]

(* A keepalive hands a pool out, or changes nothing VotePool sees. *)
LEMMA SendPool ==
  ASSUME VotingInv, NEW n \in Node, NEW m \in Node, <<n, m>> \in Links,
         bgp_keepalive_send(n, m)
  PROVE  [Pool!Next]_(Pool!poolVars)
  <1>1. /\ votesRequests' = [votesRequests EXCEPT ![n] = RequestsAfter(n, m)]
        /\ votes' = [votes EXCEPT ![n] = VotesAfter(n, m)]
    BY DEF bgp_keepalive_send
  <1>2. /\ votesRequests \in [Node -> SUBSET AS]
        /\ votes \in [Node -> [AS -> Nat]]
        /\ GoodVotes(n)
    BY DEF VotingInv, TypeOK
  <1>3. CASE ~PoolDue(n, m)
    <2>1. votesRequests' = votesRequests /\ votes' = votes
      BY <1>1, <1>2, <1>3 DEF RequestsAfter, VotesAfter
    <2> QED
      BY <2>1 DEF Pool!poolVars, Voted
  <1>4. CASE PoolDue(n, m)
    <2>1. AsOf[m] \in votesRequests[n] /\ Voted(n) = NbrAS(n)
      BY <1>2, <1>4, ArrivedMeansAll DEF PoolDue
    <2>2. AsOf[m] \in NbrAS(n)
      BY DEF NbrAS, Nbrs
    <2>3. votesRequests' = [votesRequests EXCEPT ![n] = @ \ {AsOf[m]}]
      BY <1>1, <1>4 DEF RequestsAfter
    <2>4. \A k \in Node : Voted(k)' = IF k = n /\ votesRequests'[n] = {}
                                      THEN {} ELSE Voted(k)
      <3>1. votesRequests'[n] = RequestsAfter(n, m)
        BY <1>1, <1>2
      <3>2. votes'[n] = IF votesRequests'[n] = {} THEN NoVotes ELSE votes[n]
        BY <1>1, <1>2, <1>4, <3>1 DEF VotesAfter
      <3>3. \A k \in Node \ {n} : votes'[k] = votes[k]
        BY <1>1, <1>2
      <3> QED
        BY <3>2, <3>3 DEF Voted, NoVotes
    <2>5. voted' = IF votesRequests'[n] = {} THEN [voted EXCEPT ![n] = {}]
                   ELSE voted
      BY <2>4 DEF voted
    <2>6. Pool!HandOut(n, AsOf[m])
      BY <2>1, <2>3, <2>5 DEF Pool!HandOut, voted
    <2>7. Pool!Next
      BY <2>2, <2>6 DEF Pool!Next
    <2> QED
      BY <2>7
  <1> QED
    BY <1>3, <1>4

(* A vote received is a Vote of VotePool. *)
LEMMA VotePoolStep ==
  ASSUME VotingInv, NEW n \in Node, NEW m \in Node, <<m, n>> \in Links,
         bgp_voting_vote_response_receive(n, m)
  PROVE  Pool!Next
  <1>1. PICK v \in VoteRange(n, AsOf[m]) :
           /\ AsOf[m] \in AS /\ AsOf[m] \in NbrAS(n)
           /\ v \in Nat /\ v # 0
           /\ votes' = [votes EXCEPT ![n] = [@ EXCEPT ![AsOf[m]] = v]]
           /\ votes \in [Node -> [AS -> Nat]]
    BY StoredVote
  <1>2. \A k \in Node : Voted(k)' = IF k = n THEN Voted(k) \cup {AsOf[m]}
                                    ELSE Voted(k)
    BY <1>1 DEF Voted
  <1>3. voted' = [voted EXCEPT ![n] = @ \cup {AsOf[m]}]
    BY <1>2, Zenon DEF voted
  <1>4. Pool!Vote(n, AsOf[m])
    BY <1>3 DEF Pool!Vote, voted, bgp_voting_vote_response_receive
  <1> QED
    BY <1>1, <1>4 DEF Pool!Next

(* A pool request received is a Want of VotePool. *)
LEMMA WantPool ==
  ASSUME VotingInv, NEW n \in Node, NEW m \in Node, <<n, m>> \in Links,
         bgp_voting_peers_request_receive(n, m)
  PROVE  [Pool!Next]_(Pool!poolVars)
  <1>1. votes' = votes
    BY DEF bgp_voting_peers_request_receive
  <1>2. voted' = voted
    BY <1>1 DEF voted, Voted
  <1>3. AsOf[m] \in NbrAS(n)
    BY DEF NbrAS, Nbrs
  <1>4. CASE votesRequests' = votesRequests
    BY <1>2, <1>4 DEF Pool!poolVars, voted
  <1>5. CASE votesRequests' = [votesRequests EXCEPT ![n] = @ \cup {AsOf[m]}]
    <2>1. Pool!Want(n, AsOf[m])
      BY <1>2, <1>5 DEF Pool!Want, voted
    <2>2. Pool!Next
      BY <1>3, <2>1 DEF Pool!Next
    <2> QED
      BY <2>2
  <1> QED
    BY <1>4, <1>5 DEF bgp_voting_peers_request_receive

(* Every step is a step of VotePool or leaves its variables alone. *)
LEMMA NextPool ==
  ASSUME VotingInv, [Next]_vars
  PROVE  [Pool!Next]_(Pool!poolVars)
  <1>1. CASE UNCHANGED <<votes, votesRequests>>
    BY <1>1 DEF Pool!poolVars, Voted
  <1>2. CASE Next
    <2>1. PICK l \in Links : Step(l[1], l[2])
      BY <1>2 DEF Next
    <2>2. PICK n \in Node, m \in Node :
            <<n, m>> \in Links /\ <<m, n>> \in Links /\ Step(n, m)
      BY <2>1, LinkEnds, Zenon
    <2>3. CASE bgp_keepalive_send(n, m)
      BY <2>2, <2>3, SendPool
    <2>4. CASE bgp_voting_vote_response_receive(n, m)
      BY <2>2, <2>4, VotePoolStep
    <2>5. CASE bgp_voting_peers_request_receive(n, m)
      BY <2>2, <2>5, WantPool
    <2>6. CASE \/ bgp_trust_receive(n, m)
               \/ bgp_voting_vote_request_receive(n, m)
               \/ bgp_voting_peers_response_receive(n, m)
               \/ bgp_keepalive_receive(n, m)
               \/ SessionUp(n, m)
               \/ SessionDown(n, m)
      <3>1. UNCHANGED <<votes, votesRequests>>
        BY <2>6 DEF bgp_trust_receive, bgp_voting_vote_request_receive,
           bgp_voting_peers_response_receive, bgp_keepalive_receive,
           SessionUp, SessionDown
      <3> QED
        BY <1>1, <3>1, SMTT(30)
    <2> QED
      BY <2>2, <2>3, <2>4, <2>5, <2>6, SMTT(30) DEF Step, Receive
  <1> QED
    BY <1>1, <1>2 DEF vars

(* The voting code implements VotePool in every network: votes count once   *)
(* per AS, pools go only to who waits and only complete, and votes are      *)
(* thrown away only with the last hand-out.                                 *)
THEOREM ImplementsVotePool == Spec => PoolPromise
  <1>1. Init => Pool!Init
    BY DEF Init, Pool!Init, Voted, NoVotes
  <1>2. VotingInv /\ [Next]_vars => [Pool!Next]_(Pool!poolVars)
    BY NextPool
  <1> QED
    BY <1>1, <1>2, VotingInvariant, PTL DEF Spec, PoolPromise, Pool!Spec
=============================================================================
