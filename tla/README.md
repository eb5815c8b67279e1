# A TLA+ model of the trust-voting BGP simulation

The repository holds a modified quagga (`src/quagga-ns3-old`), whose `bgpd` was
given a trust and voting extension, and the ns-3/DCE scripts
(`src/networksimulation`) that build a network of simulated routers running
`bgpd` or `ospfd`. This directory models the extension, the session state machine
that carries it, the routing table whose decisions it changes and the UPDATEs that
spread them, the adjacencies of `ospfd`, and the two pieces of the quagga library
all of them depend on: the thread scheduler and the output queue. TLC checks the
models on small instances; TLAPS proves the main facts of three of them for every
instance.

## 1. The system and what is modelled

| part | source | modules | state |
|---|---|---|---|
| trust and voting extension | `bgpd/bgp_packet.c` 749-1041, 2118-2234 | `BgpVoting`, `VotePool`, `BgpVotingProofs`, `VotingDropProofs` | modelled, proved |
| session state machine, accept peers, collisions | `bgpd/bgp_fsm.c`, `bgp_packet.c`, `bgp_network.c`, `bgpd.c` | `BgpFsm` | partly |
| decision process, RIB, work queues | `bgpd/bgp_route.c` | `BgpPath`, `BgpDecision`, `BgpRib` | partly |
| advertisement: adj-out, packing of UPDATEs, routeadv timer | `bgpd/bgp_advertise.c`, `bgp_packet.c`, `bgp_fsm.c` | `BgpAdjOut`, `BgpRib`, `RouteMirror` | partly |
| ospfd: neighbours, database exchange, flooding | `ospfd/ospf_nsm.c`, `ospf_packet.c`, `ospf_flood.c`, `ospf_lsa.c` | `OspfLsa`, `OspfAdjacency` | partly |
| output queue `peer->obuf` | `lib/stream.c` 899-964, `bgp_packet.c` | `StreamFifo`, `StreamFifoProofs` | modelled, proved |
| scheduler | `lib/thread.c` | `ThreadMaster`, `ThreadListProofs`, `ThreadMasterProofs` | partly, proved |
| simulation set-up | `networksimulation/perdonato.cc` | constants and `Init` of `BgpVoting` | partly |
| attributes, policy, damping; zebra, other daemons | rest | - | not modelled, see 7 |
| vtysh, command line, config parsing, tests, tools | `vtysh`, `lib/vty.c`, `lib/command.c`, ... | - | not modelled: I/O, no protocol state |

How the parts interact. `thread_fetch` picks the next thread: an event, a timer
or a ready descriptor. For bgpd the descriptors are read by `bgp_read`, which
only queues events (`BGP_EVENT_ADD`) for `bgp_event`, the state machine. The
machine's keepalive timer calls `bgp_keepalive_send`, the place where the
extension puts its packets in front of the KEEPALIVE; they go through
`peer->obuf`, and at the other end `bgp_read` hands them to the extension. UPDATEs
change the paths of a node, which waits in a work queue; `bgp_process_main` selects
the best path, with the trust files of the extension, tells zebra and sets the
advertisements, which `bgp_write` turns into UPDATEs. A lost session clears the
paths of the neighbour through another work queue.

Each module keeps the interface to the next one small:
- `ThreadMaster` shows what a turn of the scheduler is (one event, one timer,
  the ready reads, the ready writes); `BgpFsm` and `OspfAdjacency` take such turns
  as their steps, and `BgpRib` one thread of it.
- `BgpFsm` shows when a session goes up and down and that a dropped link stays
  down; `BgpVoting` has `SessionUp`, `SessionDown` and `toDrop`, `BgpRib` has
  `SessionLost`, `Clearing_Completed`, `bgp_open_send` and `bgp_establish`.
- `BgpVoting` shows that stored trust and votes are in range and genuine; `BgpRib`
  takes any such values (`TrustReceived`, `PoolReceived`).
- `StreamFifo` shows that packets leave the queue once and in order; the
  channels of `BgpVoting` and `obuf` of `BgpFsm` are sequences, and what
  `BgpRib` writes counts as told.

`PROJECT.json` maps each definition to the lines it models and lists the hazards
the properties are aimed at.

## 2. The modules

### BgpVoting

One step is a whole `bgp_keepalive_send` of a router to a peer, or `bgp_read` of
one packet. A variable stands for each file that the code reads and writes in
the router's root directory:

| variable | code |
|---|---|
| `obsTrust` | `/obsTrust.txt`, the moving average of the TRUST values received |
| `votes` | `/votes`, the vote of each AS about this router, 0 if none |
| `votesRequests` | `/votesRequests`, the ASes waiting for this router's pool |
| `votesResponses` | `/votesResponses`, the ASes waiting for this router's vote |
| `voteresult` | `voteresult-<as>`, the last pool received |
| `toDrop` | the global of the same name, by router instead of host string |
| `chan` | `peer->obuf` of the sender and what TCP has not delivered yet |

`Burst` is the sequence of packets one keepalive queues, in the code's order.
The clock test `rawtime > 1262304072` is a free choice at each keepalive.
`SessionUp` and `SessionDown` are what the extension sees of the state machine:
a lost session loses the packets under way and leaves the files.

`VotePool` is the abstract promise: who waits and who has voted, no packets,
numbers or sessions. `PoolPromise` is the refinement, with `wanted` mapped to
`votesRequests` and `voted` to the non-zero entries of `votes`.

### BgpFsm

Two routers that are each other's only neighbour. A handler is an operator from
the *world* it finds (peer, accept peers, pending events, ready threads,
connections) to the world it leaves; `Then` runs one after another. `FSM` is the
table of `bgp_fsm.c` row by row, `bgp_event` applies it, `bgp_timer_set` arms the
timers. `Fetch` starts a turn of the scheduler and runs its event; `Run` runs the
next ready thread.

Time is abstracted: a timer may pop when its time can have come (`OnTime`), and
a fault lets a connect or hold timer pop early. TCP delivers in order, loses
everything when a connection fails, and may report any subset of the ready
descriptors in a turn.

Abstractions: messages arrive whole; a write never blocks; a connection attempt
ends later, never inside `connect()`; at most one UPDATE is queued per session;
accept peers that are stuck in Idle are represented by one of them.

### BgpPath, BgpDecision, BgpAdjOut, BgpRib

`BgpPath` is `struct bgp_info` and the attributes that the decision looks at.
`BgpDecision` has `bgp_info_cmp`, step by step with the extension's comparison of
trust and votes in its place, and `bgp_best_selection`. `BgpAdjOut` is the record of
one neighbour: what was sent, what waits, the update and withdraw FIFOs, and the
functions that pack and send them. `BgpRib` puts them together: the paths of each
prefix with their flags and prefix counts, `bgp_update`, `bgp_withdraw`, the process
and the clear queue item by item, a lost session and its return, the clock of
`uptime` and `synctime`, and `bgp_write`.

`RouteMirror` is the abstract promise of the adjacency: the neighbour is told what
is wanted for it at that moment, attributes that several prefixes have in common in
one UPDATE, and nothing else. `MirrorSpec` is the refinement: `want` is the waiting
advertisement or else what was last sent, `told` what was written.

Abstractions: all neighbours are external and in ASes of their own; the output to one
of them, `Out`, is followed; what the filters and loop checks deny is the constant
`Filtered`, what `bgp_announce_check` withholds is `Hidden`; ages of paths are "now",
"past" (before this second) and "old" (before `synctime`). The session is simplified
to the states that matter here, and Clearing is left only by Clearing_Completed
(section 3 has the exception, `fsm_clearing`).

### OspfLsa, OspfAdjacency

Two routers on a point-to-point link. `OspfLsa` has the functions that change what a
router keeps about its neighbour (summary, request and retransmission lists, database,
flooding), `OspfAdjacency` the table of `ospf_nsm.c`, the five packets, the timers
and the threads. The LSAs are the router-LSAs of the two and of a third router
behind router 2.

The link loses and repeats packets; a router may restart with an empty database, a
neighbour may be declared dead, and the third router may flood a new instance, at any
moment. Retransmission timers pop when nothing is on its way; a timer that pops early
has the effect of a repeated packet. Hellos that nobody would react to are left out,
so that a synchronised pair stops.

### ThreadMaster

The lists of `struct thread_master`, the thread structures, and the clients'
pointers (`slot`), with every call that a handler may make. A structure returns
to the unused ones before its handler runs, as in `thread_run`, so stale pointers
would be seen. Timers hold the time left. Unlinking in a loop is `Keep`, which says
by rank what is left instead of by recursion, because the proofs rest on it.

### StreamFifo

The links of the list, `count`, and the history variable `queue` with the packets
to be sent. Senders of the extension add a packet twice.

Operators whose name begins with `Mut` are faulty variants of the definition that
follows them. No specification uses them; put in the place of that definition
they make TLC report the property they are listed with in `PROJECT.json`.

## 3. The runs

| run | module / cfg | shows |
|---|---|---|
| `voting_resets` | MCVotingLine / VotingResets | with a session lost and a link dropped at any time: votes are genuine, pools complete, a dropped link starves the neighbour's pool for ever, `VotePool` is implemented, and pools keep coming where nobody dropped |
| `voting_shared` | MCVotingLine / VotingShared | two neighbours in one AS: no pool is ever sent; the average stays in range and settles at most 9 below a constant value |
| `fifo_list` | MCStreamFifo / StreamFifo | the list spells the queue, ends, and `count` does not wrap |
| `threads` | MCThreadMaster / ThreadLists | lists, pointers and descriptor sets agree; flushing a peer's events is complete; no event and no popped timer starves |
| `fsm_collide` | MCBgpFsm / FsmSafety | colliding connections: no leaked descriptor, both ends agree, UPDATEs are read only in Established |
| `fsm_live` | MCBgpFsm / FsmLive | one side passive, one fault anywhere: clean Idle, a timer always set, and the session comes up and stays |
| `fsm_drop` | MCBgpFsm / FsmDrop | a dropped link goes down at both ends and stays down |
| `rib_out` | MCBgpRib / RibOut | counts and flags fit the paths; a settled node, zebra and adj-out agree; queued advertisements are those of the selected path; the selected path is the one that beats all others; `RouteMirror` is implemented; the neighbour learns the routes also after a lost session |
| `ospf_sync` | MCOspf / OspfSync | one fault anywhere: no assertion fails, a Full router has nothing left to send or request of the exchange, an LSA in which two Full routers differ is on its way, own LSAs are true, databases never go back, and the adjacency forms with equal databases |

Runs that TLC ends with a counterexample, each against a sentence of the source:

| run | the source says | the code does |
|---|---|---|
| `fsm_clearing` | "keeps sessions in state Clearing, not transitioning to Idle until ..." (`bgp_route.c:2945`) | two colliding accept peers move Clearing to OpenSent |
| `rib_duplicate` | "duplicate ignored" (`bgp_route.c:2257`) | the duplicate of an UPDATE that is not processed yet clears `BGP_INFO_ATTR_CHANGED` (line 2235); the new attributes reach neither zebra nor the neighbours |
| `ospf_checksum` | "Neighbour has a more recent LSA, we must request it" (`ospf_packet.c:1080`) | the comparison returns a difference of checksums (`ospf_lsa.c:3171`) where the caller tests for -1: an LSA is not requested, and both routers become Full with different databases |

After the first one the peer reaches Idle with an open descriptor: in that
instance (two faults, two connections of the active side) `IdleIsClean` and
`SessionsAgree` fail as well. They hold in the instances of `fsm_live` and
`fsm_collide`, where the neighbour does not connect twice while routes are being
cleared. `rib_out` leaves the repeated UPDATE of the second one out (`Repeats`),
and `ospf_sync` the LSAs that differ in the checksum only (`Foreign`): what holds
besides them would otherwise be hidden by them.

More that the models have and a reader of the code may not expect:
- votes are kept as long as somebody waits for the pool, although a comment speaks
  of deleting them (`bgp_packet.c:973`);
- packets added twice are counted twice and removed once, so that the "Outq depth"
  of `bgp_vty.c:7583` only grows;
- `thread_process` and `thread_timer_process` make one event and one popped timer
  ready per turn, although their comments (`thread.c:970`, `:989`) speak of all of
  them; `FlushIsComplete` depends on it;
- an accept peer that loses a collision (`bgp_packet.c:1393`) stays in Idle for
  ever, without a connection or a timer;
- the flag `BGP_NODE_PROCESS_SCHEDULED` that keeps a node from being queued
  twice is tested but never set: a node may be in the process queue several times;
- a withdrawal for a prefix without paths survives the end of a session and is
  sent in the next one before it is established; the neighbour resets it once
  more, and `NeighbourLearns` holds nevertheless.

## 4. Bounds

- Voting runs: a line a - b - c. b is the only router with two neighbours, so the
  smallest one that collects votes; a and c ask, vote and relay nothing else, and
  a longer line adds routers like b. `MaxQueue` = 1 makes a keepalive due when
  the previous burst has been read; `MaxBusy` = 2 limits how many links carry
  packets at once, so bursts of different routers still interleave packet by
  packet. One session may be lost, at any point, and the router of AS 1 may drop.
  Trust values: one fixed code, as no guard of the protocol looks at the value.
- `VotingShared`: code 61 from the initial 50 takes the average up to 52, where the
  division stops it; the bound of 9 is the worst case of the rounding. That the
  average stays in range is proved for all codes.
- `StreamFifo`: four streams and `MaxCount` 8, enough for two doubled packets
  and a KEEPALIVE behind an older packet. The proof has no bound.
- `ThreadLists`: five pointers (a reader, a writer, two timers, a background job)
  and two event arguments compete for three structures, which are enough for two
  timers or two events of a peer and a third thread beside them; three calls per
  handler, delays 0 and 1, timers at most one tick late. No symmetry, as the run
  checks liveness.
- `BgpFsm`: two routers; the interesting races are between two connections, so
  one from each side (`OneEach`) or two from the active side (`TwoFromB`).
  `MaxEvents` makes reads wait while 2 or 3 events are pending. Faults: none where
  both sides are active (collisions are fault enough), one in `fsm_live`, two in
  `fsm_clearing`.
- `RibOut`: three neighbours in three ASes, so that a path can be better than one
  and worse than another; two prefixes, which may share an UPDATE (`MaxNlri` 2); four
  attribute sets (two usable, one filtered, one not to be told to `Out`). Three
  inputs, a lost session and two places in the process queue let an announcement, its
  change and its withdrawal overtake each other and the clearing in every order.
- `OspfSync`: three LSAs against two headers per packet (`MaxHeaders`), so that an
  exchange takes several packets; one fault (a lost, repeated or ignored packet, a
  neighbour declared dead, a restart) and up to `MaxForeign` instances of the third
  router's LSA.

Deadlock is checked everywhere except in `threads`, since a daemon without threads
blocks in `select` for ever, and in the OSPF runs, where a synchronised pair has
nothing left but Hellos without effect.

## 5. Fairness

- `BgpVoting!FairSpec`: weak fairness of reading and of sessions coming up,
  because the event loop serves each ready socket and each expired timer
  (`EventsServed`, `TimersServed`). Strong fairness of the keepalive, because it
  is the model's bounds, not the code, that disable it in between.
- `ThreadMaster!LiveSpec`: handlers return, `thread_fetch` is called again, the
  clock goes on. Nothing is assumed about descriptors.
- `BgpFsm!LiveSpec`: weak fairness of running ready threads, of the work queue
  that clears routes, and of TCP connecting. Strong fairness of turns in which all
  that has arrived is ready (`FetchAll`) and of turns with a due start, connect or
  hold timer (`FetchTimer`): messages arrive and time passes, whatever else the
  router does in between. No fault is assumed to happen or to stop by itself; the
  number of faults is bounded.
- `BgpRib!FairSpec`: weak fairness of the work queues and session events, and of
  output, timer and clock. Nothing is assumed about what the neighbours send.
- `OspfAdjacency!FairSpec`: weak fairness of the threads that are ready or have a
  packet to read; a fault in their place satisfies it too, which only makes the
  assumption weaker. Strong fairness of the Hello and retransmission timers, which pop
  again and again but in the model only when nothing else is on its way. Faults are
  bounded in number and never forced.

In the last two the conditions under which a step is possible are written out instead
of using WF and SF, which keeps TLC from evaluating whole handlers to find out.

`SessionComesUp` is checked with one side passive. With both sides active the
model has the endless race of the comment at `bgp_packet.c:1565-1609`: the
NOTIFICATION for the loser of a collision puts the other side in Idle, where
`bgp_accept` refuses the surviving connection.

## 6. Proofs

`BgpVotingProofs` proves, for every network, trust table and bound that satisfies
`NetworkAssumption` and `TrustAssumption`:

- `TypeCorrect`, `TrustStaysInRange`, `VotesAreAuthentic`, `PoolsAreComplete`,
  `SharedAsNeverAnswers`: the invariants of the runs;
- `ImplementsVotePool`: the refinement of `VotePool`.

The assumptions are those of the topologies: finitely many routers, links in both
directions, AS numbers within the arrays, configured trust of at most two digits
and TRUST codes 10 to 99 (`rand() % 90 + 10`).

The inductive invariant is `VotingInv`: besides the types it says that each stored
vote is of a neighbouring AS and in `VoteRange`, that each stored pool is complete,
and that each packet on each link is good: a TRUST code in range, a vote in the
range of its receiver, a pool that is complete and from a router without two
neighbours in one AS. The properties alone are not inductive, since what is stored
comes from what is in flight, votes in flight come from the observed trust, and
that from the TRUST codes in flight. The counting argument is `NeighbourCount`:
the voting ASes are among the neighbouring ASes, these are at most as many as the
links, so that as many votes as links means a vote from every AS, and no AS twice.
There is one lemma per action. For the refinement only three actions matter:
`SendPool`, `VotePoolStep` and `WantPool`.

`VotingDropProofs` proves `DropStarves`, the action property `DropStarvesPool`: once a
drop has left a router without the vote of an AS, no vote of that AS reaches it any
more, so that the condition for sending a pool stays false, in every network. Each
step keeps the starved state because the dropped link carries nothing and nobody
else's packet can count as that vote.

`StreamFifoProofs` proves `FifoInvariant` for any set of streams and any bound, and
from it `ListSpellsQueue`, `ListAlwaysEnds` and `CountNeverWraps`. The
strengthening is `QueuedOnce`: a stream is in the queue once, so pushing relinks
the last one only.

`ThreadMasterProofs` proves, for any number of threads, pointers, arguments and
calls, `SchedulerCorrect` and from it `TypesNameLists`, `TimersStaySorted`,
`PointersOwnThreads`, `FdsetsMatch` and `FlushCompletes`. The inductive invariant
`SchedulerInv` has the types, the lists, the order of the timers, for each thread
what its fields say (`Fields`), and for each pointer what it points to (`Pointer`).
None of the properties is inductive alone: `thread_cancel` unlinks from the list
that the type names, so a wrong type would break the lists, and a stale pointer would
hand it a thread of somebody else. There is one lemma per action.
`ThreadListProofs` has the facts about lists they share: what is left when threads
are taken out, what inserting into a sorted list does, what taking the head does. For
their sake `Keep` is defined by rank, the number of kept threads up to a place,
as what a recursive filter returns cannot be proved here.

The type invariants of `BgpVoting`, `StreamFifo` and `ThreadMaster`, and
`TimersSorted`, are proved and therefore not listed in a run.

Only model-checked: `BgpFsm`; `BgpRib` with `BgpDecision` and `BgpAdjOut`, and the OSPF
modules, whose operators are folds and filters over sequences, so that proving
what they return needs the induction that is out of reach; and all liveness
properties, which need ENABLED or fairness.

## 7. Not modelled

- In the sessions: packet formats and parsing, capabilities, graceful restart,
  maximum-prefix and administrative shutdown, several neighbours sharing one event
  list, partial reads and writes, the values of the timers, the jitter and the
  back-off of `v_start`.
- In the extension: AS numbers beyond the arrays of 10 entries, where the code's
  behaviour is undefined.
- In the routing table: internal neighbours, route reflection, confederations, local
  and aggregate routes, route server clients, soft reconfiguration, damping, stale
  routes and `bgp deterministic-med`. The comparison of paths is not transitive; of
  three paths that beat each other in a circle nothing is claimed. A change of trust
  does not queue any node, so that `SelectionIsBest` speaks of the moment of
  processing.
- In ospfd: other networks than point-to-point, the designated router, ageing and
  flushing, other LSA types, opaque LSAs, NSSA and virtual links, options and MTU.
- The values that policy, filters and attributes compute: `BgpRib` takes them as
  constants.
- The daemons the simulation does not start (ripd, ripngd, ospf6d, isisd), zebra
  beyond the route it was last told, watchquagga, and the parts of `lib` that are
  I/O or containers. They are most of the repository's lines.

## 8. Plan

1. `BgpFsm` with several neighbours on one scheduler (event backlog against
   `bgp_update_receive`), graceful restart, partial reads of an accept peer.
2. `BgpRib` with soft reconfiguration and local routes; deterministic MED.
3. `zebra` RIB queues, `watchquagga` restart phases, the `ospfd` interface machine
   with the election of the designated router, `ripd` route timers.
4. Proofs: `NoFdLeak` and `WatchdogSet` of `BgpFsm`; the adj-out invariant and
   `MirrorSpec`, once the filters of `BgpAdjOut` are stated by rank as in
   `ThreadMaster`.
