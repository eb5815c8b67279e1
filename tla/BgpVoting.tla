----------------------------- MODULE BgpVoting -----------------------------
(***************************************************************************)
(* The trust and voting extension of bgpd (bgpd/bgp_packet.c), run by all  *)
(* the routers of a simulated network at once.                             *)
(*                                                                         *)
(* Every KEEPALIVE that bgp_keepalive_send queues for a peer is preceded   *)
(* by a random TRUST value and by a request for the peer's "pool": the     *)
(* votes that the peer's own neighbours cast about it.  A router that was  *)
(* asked for its pool asks each neighbour for a vote, waits until as many  *)
(* votes as it has neighbours are there, sends the votes to whoever asked, *)
(* and forgets them once nobody is waiting.                                *)
(*                                                                         *)
(* The protocol's state lives in small files in each router's root         *)
(* directory (/votes, /votesRequests, /votesResponses, /obsTrust.txt and   *)
(* voteresult-<as>); every file is indexed by AS number, not by router.    *)
(***************************************************************************)
EXTENDS Integers, Sequences, FiniteSets

CONSTANTS
  Node,        \* routers; each runs one bgpd on its own file system
  MaxAS,       \* length of the arrays in the files (10 in the code)
  AsOf,        \* AsOf[n]: the AS number of router n
  Links,       \* ordered pairs of routers with a link, in both directions
  InTrust,     \* InTrust[a][b]: the configured trust of AS a in AS b
  TrustCodes,  \* the values rand() % 90 + 10 may take
  NoPeer,      \* toDrop == NULL
  MaxQueue,    \* bound: a keepalive is due only below this many queued packets
  MaxBusy,     \* bound: a keepalive is due only below this many busy links
  Fragile,     \* links whose session may be lost
  MaxResets    \* bound: how many times sessions are lost

AS == 1..MaxAS

ASSUME NetworkAssumption ==
  /\ IsFiniteSet(Node)
  /\ NoPeer \notin Node
  /\ MaxAS \in Nat \ {0}
  /\ AsOf \in [Node -> AS]
  /\ Links \subseteq Node \X Node
  /\ \A n, m \in Node : <<n, m>> \in Links => <<m, n>> \in Links

ASSUME TrustAssumption ==
  /\ InTrust \in [AS -> [AS -> 0..99]]
  /\ TrustCodes \subseteq 10..99
  /\ MaxQueue \in Nat
  /\ MaxBusy \in Nat
  /\ MaxResets \in Nat
  /\ Fragile \subseteq Links

VARIABLES
  obsTrust,        \* /obsTrust.txt: observed trust in each AS
  votes,           \* /votes: the vote each AS cast about this router, 0 if none
  votesRequests,   \* /votesRequests: the ASes waiting for this router's pool
  votesResponses,  \* /votesResponses: the ASes waiting for this router's vote
  voteresult,      \* voteresult-<as>: the last pool received from that AS
  toDrop,          \* the peer whose link bgpd pretends is dead
  up,              \* links whose BGP session is in OpenConfirm or Established
  chan,            \* packets queued or in flight on each directed link
  resets           \* sessions lost so far

vars == <<obsTrust, votes, votesRequests, votesResponses, voteresult, toDrop,
          up, chan, resets>>

NoVotes == [a \in AS |-> 0]
NoFile == <<>>

Nbrs(n) == {m \in Node : <<n, m>> \in Links}
NbrAS(n) == {AsOf[m] : m \in Nbrs(n)}

(* The number written to /neighborsN: one for every link of the node. *)
neighborsN(n) == Cardinality(Nbrs(n))

Trust(code) == [type |-> "TRUST", code |-> code]
PeersRequest == [type |-> "VOTING_PEERS_REQUEST"]
PeersResponse(pool) == [type |-> "VOTING_PEERS_RESPONSE", votes |-> pool]
VoteRequest == [type |-> "VOTING_VOTE_REQUEST"]
VoteResponse(code) == [type |-> "VOTING_VOTE_RESPONSE", code |-> code]
Keepalive == [type |-> "KEEPALIVE"]

Init ==
  /\ obsTrust = [n \in Node |-> [a \in AS |-> 50]]
  /\ votes = [n \in Node |-> NoVotes]
  /\ votesRequests = [n \in Node |-> {}]
  /\ votesResponses = [n \in Node |-> {}]
  /\ voteresult = [n \in Node |-> [a \in AS |-> NoFile]]
  /\ toDrop = [n \in Node |-> NoPeer]
  /\ up = {}
  /\ chan = [l \in Links |-> <<>>]
  /\ resets = 0

-----------------------------------------------------------------------------
(* Sending *)

Voted(n) == {a \in AS : votes[n][a] # 0}

(* Mutated forms, with a bug the properties must catch, come before the     *)
(* definition they replace; no specification uses them.                     *)
MutAllVotesArrived(n) == Cardinality(Voted(n)) >= neighborsN(n) - 1

AllVotesArrived(n) == Cardinality(Voted(n)) = neighborsN(n)

MutDropped(n, m) == toDrop[n] = n

(* peer->host == toDrop: the early exit of bgp_keepalive_send and bgp_read. *)
Dropped(n, m) == toDrop[n] = m

(* bgp_trust_send: router n of AS 1 picks the first external peer it sends  *)
(* a TRUST to when it is late (time(NULL) > 1262304072), for good.  The     *)
(* clock is read nowhere else, so each reading is a choice.                 *)
DropAfterTrust(n, m, late) ==
  IF toDrop[n] = NoPeer /\ late /\ AsOf[m] # AsOf[n] /\ AsOf[n] = 1
  THEN m ELSE toDrop[n]

MutVoteAbout(n, m) == InTrust[AsOf[n]][AsOf[m]]

(* bgp_voting_vote_response_send: the vote of n about its peer m. *)
VoteAbout(n, m) == obsTrust[n][AsOf[m]] + InTrust[AsOf[n]][AsOf[m]]

PoolDue(n, m) == AllVotesArrived(n) /\ AsOf[m] \in votesRequests[n]

MutVotesWanted(n) == votesRequests[n] # {} /\ Voted(n) = {}

VotesWanted(n) == ~AllVotesArrived(n) /\ votesRequests[n] # {}
VoteDue(n, m) == AsOf[m] \in votesResponses[n]

If(cond, packet) == IF cond THEN <<packet>> ELSE <<>>

(* What one bgp_keepalive_send(m) of router n queues, in this order. *)
Burst(n, m, code) ==
     <<Trust(code), PeersRequest>>
  \o If(PoolDue(n, m), PeersResponse(votes[n]))
  \o If(VotesWanted(n), VoteRequest)
  \o If(VoteDue(n, m), VoteResponse(VoteAbout(n, m)))
  \o <<Keepalive>>

RequestsAfter(n, m) ==
  IF PoolDue(n, m) THEN votesRequests[n] \ {AsOf[m]} ELSE votesRequests[n]

MutVotesAfter(n, m) == IF PoolDue(n, m) THEN NoVotes ELSE votes[n]

VotesAfter(n, m) ==
  IF PoolDue(n, m) /\ RequestsAfter(n, m) = {} THEN NoVotes ELSE votes[n]

bgp_keepalive_send(n, m) ==
  /\ <<n, m>> \in up
  /\ ~Dropped(n, m)
  /\ Len(chan[<<n, m>>]) < MaxQueue
  /\ Cardinality({l \in Links : chan[l] # <<>>}) < MaxBusy
  /\ \E code \in TrustCodes :
       chan' = [chan EXCEPT ![<<n, m>>] = @ \o Burst(n, m, code)]
  /\ \E late \in BOOLEAN :
       toDrop' = [toDrop EXCEPT ![n] = DropAfterTrust(n, m, late)]
  /\ votesRequests' = [votesRequests EXCEPT ![n] = RequestsAfter(n, m)]
  /\ votes' = [votes EXCEPT ![n] = VotesAfter(n, m)]
  /\ votesResponses' = [votesResponses EXCEPT ![n] = @ \ {AsOf[m]}]
  /\ UNCHANGED <<obsTrust, voteresult, up, resets>>

-----------------------------------------------------------------------------
(* Receiving: bgp_read takes one packet off the connection and dispatches   *)
(* on its type.  A peer that is being dropped is never read.                *)

bgp_read(n, m, type) ==
  /\ <<m, n>> \in up
  /\ ~Dropped(n, m)
  /\ chan[<<m, n>>] # <<>>
  /\ Head(chan[<<m, n>>]).type = type
  /\ chan' = [chan EXCEPT ![<<m, n>>] = Tail(@)]

MutEwmaGrow(obs, rcvd) == (obs * 10 + rcvd) \div 10

MutEwmaSlow(obs, rcvd) == (obs * 19 + rcvd) \div 20

(* The moving average of the observed trust, in integers. *)
Ewma(obs, rcvd) == (obs * 9 + rcvd) \div 10

bgp_trust_receive(n, m) ==
  /\ bgp_read(n, m, "TRUST")
  /\ obsTrust' = [obsTrust EXCEPT ![n][AsOf[m]] =
                    Ewma(@, Head(chan[<<m, n>>]).code)]
  /\ UNCHANGED <<votes, votesRequests, votesResponses, voteresult, toDrop,
                 up, resets>>

(* A router with a single neighbour ignores the request. *)
bgp_voting_peers_request_receive(n, m) ==
  /\ bgp_read(n, m, "VOTING_PEERS_REQUEST")
  /\ votesRequests' = IF neighborsN(n) > 1
                      THEN [votesRequests EXCEPT ![n] = @ \cup {AsOf[m]}]
                      ELSE votesRequests
  /\ UNCHANGED <<obsTrust, votes, votesResponses, voteresult, toDrop,
                 up, resets>>

bgp_voting_vote_request_receive(n, m) ==
  /\ bgp_read(n, m, "VOTING_VOTE_REQUEST")
  /\ votesResponses' = [votesResponses EXCEPT ![n] = @ \cup {AsOf[m]}]
  /\ UNCHANGED <<obsTrust, votes, votesRequests, voteresult, toDrop,
                 up, resets>>

bgp_voting_vote_response_receive(n, m) ==
  /\ bgp_read(n, m, "VOTING_VOTE_RESPONSE")
  /\ votes' = [votes EXCEPT ![n][AsOf[m]] = Head(chan[<<m, n>>]).code]
  /\ UNCHANGED <<obsTrust, votesRequests, votesResponses, voteresult, toDrop,
                 up, resets>>

bgp_voting_peers_response_receive(n, m) ==
  /\ bgp_read(n, m, "VOTING_PEERS_RESPONSE")
  /\ voteresult' = [voteresult EXCEPT ![n][AsOf[m]] =
                      Head(chan[<<m, n>>]).votes]
  /\ UNCHANGED <<obsTrust, votes, votesRequests, votesResponses, toDrop,
                 up, resets>>

(* The KEEPALIVE itself only feeds the session's state machine. *)
bgp_keepalive_receive(n, m) ==
  /\ bgp_read(n, m, "KEEPALIVE")
  /\ UNCHANGED <<obsTrust, votes, votesRequests, votesResponses, voteresult,
                 toDrop, up, resets>>

Receive(n, m) ==
  \/ bgp_trust_receive(n, m)
  \/ bgp_voting_peers_request_receive(n, m)
  \/ bgp_voting_vote_request_receive(n, m)
  \/ bgp_voting_vote_response_receive(n, m)
  \/ bgp_voting_peers_response_receive(n, m)
  \/ bgp_keepalive_receive(n, m)

-----------------------------------------------------------------------------
(* Sessions, as the voting code sees them *)

(* Both ends reach OpenConfirm: bgp_fsm_open may send the first keepalive. *)
SessionUp(n, m) ==
  /\ <<n, m>> \in Links \ up
  /\ up' = up \cup {<<n, m>>, <<m, n>>}
  /\ UNCHANGED <<obsTrust, votes, votesRequests, votesResponses, voteresult,
                 toDrop, chan, resets>>

(* bgp_stop at either end cleans obuf and closes the connection: whatever   *)
(* was not read yet is lost.  The files are not touched.                    *)
SessionDown(n, m) ==
  /\ <<n, m>> \in up \cap Fragile
  /\ resets < MaxResets
  /\ resets' = resets + 1
  /\ up' = up \ {<<n, m>>, <<m, n>>}
  /\ chan' = [l \in Links |-> IF l \in {<<n, m>>, <<m, n>>}
                              THEN <<>> ELSE chan[l]]
  /\ UNCHANGED <<obsTrust, votes, votesRequests, votesResponses, voteresult,
                 toDrop>>

Step(n, m) ==
  \/ bgp_keepalive_send(n, m)
  \/ Receive(n, m)
  \/ SessionUp(n, m)
  \/ SessionDown(n, m)

Next ==
  \E l \in Links : Step(l[1], l[2])

Spec == Init /\ [][Next]_vars

(* bgpd's event loop serves every ready socket and every expired timer: a   *)
(* packet that has arrived is read, the start and connect timers bring a    *)
(* lost session back, and the keepalive timer keeps firing.  The last is    *)
(* strong fairness because the bounds MaxQueue and MaxBusy, which no timer  *)
(* waits for, may disable the sending between two firings.                  *)
Fairness ==
  \A l \in Links :
    /\ SF_vars(bgp_keepalive_send(l[1], l[2]))
    /\ WF_vars(Receive(l[1], l[2]))
    /\ WF_vars(SessionUp(l[1], l[2]))

FairSpec == Spec /\ Fairness

-----------------------------------------------------------------------------
(* Properties *)

Message ==
       [type : {"TRUST", "VOTING_VOTE_RESPONSE"}, code : Nat]
  \cup [type : {"VOTING_PEERS_RESPONSE"}, votes : [AS -> Nat]]
  \cup [type : {"VOTING_PEERS_REQUEST", "VOTING_VOTE_REQUEST", "KEEPALIVE"}]

(* The contents of each router's files and of the packets on every link. *)
TypeOK ==
  /\ obsTrust \in [Node -> [AS -> Nat]]
  /\ votes \in [Node -> [AS -> Nat]]
  /\ votesRequests \in [Node -> SUBSET AS]
  /\ votesResponses \in [Node -> SUBSET AS]
  /\ voteresult \in [Node -> [AS -> [AS -> Nat] \cup {NoFile}]]
  /\ toDrop \in [Node -> Node \cup {NoPeer}]
  /\ up \in SUBSET Links
  /\ chan \in [Links -> Seq(Message)]
  /\ resets \in 0..MaxResets

(* The moving average kept by bgp_trust_receive never leaves the range of   *)
(* the values sent, so neither the u_int16_t it is stored in nor the one a  *)
(* vote is sent in can overflow, and no vote is 0.                          *)
TrustInRange ==
  \A n \in Node, a \in AS : obsTrust[n][a] \in 10..99

(* A peer that always sends the value c is in the end seen as at most 9     *)
(* below c and never above it: the division rounds the average down, so it  *)
(* stops rising when the remaining gap is less than 10.                     *)
TrustSettles ==
  \A c \in TrustCodes : TrustCodes = {c} =>
    \A l \in Links : <>[](obsTrust[l[1]][AsOf[l[2]]] \in (c - 9)..c)

(* A packet of this type is on its way from router n to router m. *)
Queued(n, m, type) ==
  \E i \in DOMAIN chan[<<n, m>>] : chan[<<n, m>>][i].type = type

(* The votes a router of AS a can cast about router n: the configured trust *)
(* plus an observed trust that stays between 10 and 99.                     *)
VoteRange(n, a) == (InTrust[a][AsOf[n]] + 10)..(InTrust[a][AsOf[n]] + 99)

(* Every vote in /votes was cast by a neighbouring AS about this router, is *)
(* a sum of configured and observed trust that such a neighbour can hold,   *)
(* and so is never 0: the test votes[i] != 0 of bgp_keepalive_send counts   *)
(* exactly the ASes that have answered.  The same holds of the votes still  *)
(* in flight, across resets, re-requests and votes that arrive late.        *)
VotesAuthentic ==
  /\ \A n \in Node : \A a \in Voted(n) :
       a \in NbrAS(n) /\ votes[n][a] \in VoteRange(n, a)
  /\ \A l \in Links : \A i \in DOMAIN chan[l] :
       chan[l][i].type = "VOTING_VOTE_RESPONSE" =>
         chan[l][i].code \in VoteRange(l[2], AsOf[l[1]])

(* A pool of router n: a vote from every neighbouring AS and no other. *)
IsPool(n, pool) ==
  \A a \in AS : IF a \in NbrAS(n) THEN pool[a] \in VoteRange(n, a)
                ELSE pool[a] = 0

(* Every pool that bgp_voting_peers_response_send puts on the wire, and     *)
(* every voteresult file made from one, holds a vote of each neighbouring   *)
(* AS of the router that sent it: "all votes arrived" is true when it is    *)
(* logged, whatever mixture of old and new answers filled /votes.           *)
PoolsComplete ==
  /\ \A l \in Links : \A i \in DOMAIN chan[l] :
       chan[l][i].type = "VOTING_PEERS_RESPONSE" =>
         IsPool(l[1], chan[l][i].votes)
  /\ \A n \in Node, a \in AS :
       voteresult[n][a] # NoFile =>
         \E m \in Nbrs(n) : AsOf[m] = a /\ IsPool(m, voteresult[n][a])

SharesNbrAS(n) == \E p, q \in Nbrs(n) : p # q /\ AsOf[p] = AsOf[q]

(* neighborsN counts links while /votes is indexed by AS, so a router with  *)
(* two neighbours in one AS never reaches votesCounter == neighborsN and    *)
(* never answers a pool request (router 2;1 of topology.intra is one).      *)
SharedAsNeverPools ==
  \A n \in Node : SharesNbrAS(n) =>
    \A m \in Nbrs(n) : ~Queued(n, m, "VOTING_PEERS_RESPONSE")

(* The promise of VotePool, kept by the files: /votesRequests are the ASes  *)
(* that wait, and the non-zero entries of /votes the ASes that have voted.  *)
Pool == INSTANCE VotePool WITH
  Electorate <- [n \in Node |-> NbrAS(n)],
  wanted <- votesRequests,
  voted <- [n \in Node |-> Voted(n)]

(* Every step of the voting code is a step of VotePool or changes nothing   *)
(* VotePool sees: votes are counted once per AS however often they arrive,  *)
(* and no hand-out or deletion happens with a vote missing.                 *)
PoolPromise == Pool!Spec

(* Router n dropped the link to m while m did not have n's vote. *)
Starved(n, m) ==
  /\ toDrop[n] = m
  /\ votes[m][AsOf[n]] = 0
  /\ ~Queued(n, m, "VOTING_VOTE_RESPONSE")

StaysStarved(n, m) ==
  Starved(n, m) =>
    /\ Starved(n, m)'
    /\ \A k \in Nbrs(m) : Queued(m, k, "VOTING_PEERS_RESPONSE")' =>
                            Queued(m, k, "VOTING_PEERS_RESPONSE")

(* Once router n has dropped the link to m and its vote has not reached m,  *)
(* it never will, through any reconnection, and m hands out no pool any     *)
(* more (where n is m's only neighbour in its AS).                          *)
DropStarvesPool ==
  [][\A l \in Links :
       (\A k \in Nbrs(l[2]) \ {l[1]} : AsOf[k] # AsOf[l[1]]) =>
         StaysStarved(l[1], l[2])]_vars

(* Every router that can complete its pool sends it to each neighbour again *)
(* and again, as long as no link of its own is dropped by bgp_keepalive_send *)
(* at either end: lost requests, votes and pools are made up for by the next *)
(* keepalives, because each of them asks again.                             *)
PoolsKeepComing ==
  \A n, m \in Node :
    (<<n, m>> \in Links /\ neighborsN(n) > 1 /\ ~SharesNbrAS(n)) =>
      ([](\A k \in Nbrs(n) : ~Dropped(n, k) /\ ~Dropped(k, n)) =>
         []<>Queued(n, m, "VOTING_PEERS_RESPONSE"))
=============================================================================
