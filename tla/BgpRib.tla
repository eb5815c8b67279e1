------------------------------- MODULE BgpRib -------------------------------
(***************************************************************************)
(* The routing table of bgpd (bgp_route.c): how UPDATEs, lost sessions and *)
(* the trust files change the paths to each prefix, the work queues that   *)
(* process and clear them, and how the selected path reaches the kernel    *)
(* (zebra) and one neighbour, Out.                                         *)
(*                                                                         *)
(* bgpd runs one thread at a time: an action is a whole UPDATE prefix, one *)
(* item of a work queue, one packet of bgp_write or one timer.  A work     *)
(* queue may yield after any item.                                         *)
(***************************************************************************)
EXTENDS BgpDecision, BgpAdjOut

CONSTANTS
  Sends,        \* <<prefix, peer, attributes>>: what the neighbours may announce
  Out,          \* the neighbour whose adjacency is followed
  Filtered,     \* attributes that bgp_update_main denies (loops, filters)
  Hidden,       \* attributes that bgp_announce_check keeps from Out
  Repeats,      \* may a neighbour send the same attributes twice in a row?
  ObsTrusts,    \* values that /obsTrust.txt may take
  Pools,        \* vote results that may arrive
  MaxOps,       \* how many inputs the environment gives
  MaxFaults,    \* how many sessions are lost
  MaxQueue      \* bound on the process queue: an UPDATE waits beyond it

ASSUME RibAssumption ==
  /\ Out \in Peer /\ Sends \subseteq Prefix \X Peer \X Attr
  /\ Filtered \subseteq Attr /\ Hidden \subseteq Attr
  /\ Repeats \in BOOLEAN
  /\ ObsTrusts \subseteq Nat /\ Pools \subseteq Pool
  /\ MaxOps \in Nat /\ MaxFaults \in Nat /\ MaxQueue \in Nat \ {0}
  /\ Prefix = 1 .. Cardinality(Prefix)

VARIABLES
  rib,          \* rn->info of each prefix: the list of its paths
  process,      \* bm->process_main_queue
  clearing,     \* peer->clear_node_queue
  status,       \* peer->status; "Opening" is OpenSent and OpenConfirm
  pcount,       \* peer->pcount
  trust,        \* the files of the trust extension
  fib,          \* the route that zebra was last told
  out,          \* the adjacency with Out, see BgpAdjOut
  view,         \* what Out is told; TCP is reliable, so writing is telling
  early,        \* an UPDATE was written to Out before the session was established
  ops, faults   \* inputs and lost sessions so far

rvars == <<rib, process, clearing, pcount, fib>>
ovars == <<out, view, early>>
vars == <<rib, process, clearing, status, pcount, trust, fib,
          out, view, early, ops, faults>>

Index(info, q) == {i \in DOMAIN info : info[i].peer = q}
HasPath(p, q) == Index(rib[p], q) # {}
PathOf(p, q) == rib[p][CHOOSE i \in Index(rib[p], q) : TRUE]

Selected(info) == {info[i] : i \in {j \in DOMAIN info : "SELECTED" \in info[j].flags}}
SelectedOf(info) == IF Selected(info) = {} THEN NULL ELSE CHOOSE ri \in Selected(info) : TRUE

(* The path of q rewritten in place. *)
Put(info, q, ri) == [i \in DOMAIN info |-> IF info[i].peer = q THEN ri ELSE info[i]]

Init ==
  /\ rib = [p \in Prefix |-> <<>>]
  /\ process = <<>>
  /\ clearing = [q \in Peer |-> <<>>]
  /\ status = [q \in Peer |-> "Established"]
  /\ pcount = [q \in Peer |-> 0]
  /\ trust = [obs |-> [a \in AS |-> 50], result |-> [a \in AS |-> NULL]]
  /\ fib = [p \in Prefix |-> NULL]
  /\ out = NoAdjOut
  /\ view = [p \in Prefix |-> NULL]
  /\ early = FALSE
  /\ ops = 0
  /\ faults = 0
-----------------------------------------------------------------------------
(* bgp_pcount_adjust after a change of the flags. *)
bgp_pcount_adjust(ri) ==
  [ri EXCEPT !.flags = IF HoldDown(ri) THEN @ \ {"COUNTED"} ELSE @ \cup {"COUNTED"}]

(* The change of peer->pcount that goes with it. *)
Counted(flags) == IF "COUNTED" \in flags THEN 1 ELSE 0
Recount(q, old, new) ==
  pcount' = [pcount EXCEPT ![q] = @ + Counted(new) - Counted(old)]

bgp_info_delete(ri) ==
  LET removed == bgp_pcount_adjust([ri EXCEPT !.flags = @ \cup {"REMOVED"}])
  IN [removed EXCEPT !.flags = @ \ {"VALID"}]

bgp_info_restore(ri) ==
  LET restored == bgp_pcount_adjust([ri EXCEPT !.flags = @ \ {"REMOVED"}])
  IN [restored EXCEPT !.flags = @ \cup {"VALID"}]

(* bgp_process: BGP_NODE_PROCESS_SCHEDULED is tested and cleared but never *)
(* set, so a node is queued once more each time.                           *)
bgp_process(p) == process' = Append(process, p)

bgp_rib_remove(p, q) ==
  LET ri == PathOf(p, q)
      gone == bgp_info_delete(ri)
  IN /\ rib' = [rib EXCEPT ![p] = Put(@, q, gone)]
     /\ Recount(q, ri.flags, gone.flags)
     /\ bgp_process(p)
-----------------------------------------------------------------------------
(* An input of the environment. *)
Input == ops < MaxOps /\ Len(process) < MaxQueue /\ ops' = ops + 1

(* bgp_update_main for a path that is there.  The same attributes again    *)
(* are ignored, although they clear ATTR_CHANGED.                          *)
MutRewritten(ri, a) ==
  [(IF "REMOVED" \in ri.flags THEN bgp_info_restore(ri) ELSE ri) EXCEPT
     !.attr = a, !.flags = @ \cup {"ATTR_CHANGED", "VALID"}, !.uptime = "now"]

Rewritten(ri, a) ==
  LET alive == IF "REMOVED" \in ri.flags THEN bgp_info_restore(ri) ELSE ri
  IN bgp_pcount_adjust([alive EXCEPT
       !.attr = a, !.flags = @ \cup {"ATTR_CHANGED", "VALID"}, !.uptime = "now"])

Duplicate(ri, a) == "REMOVED" \notin ri.flags /\ ri.attr = a

UpdateKnown(p, q, a) ==
  LET ri == PathOf(p, q)
      new == IF Duplicate(ri, a) THEN [ri EXCEPT !.flags = @ \ {"ATTR_CHANGED"}, !.uptime = "now"]
             ELSE Rewritten(ri, a)
  IN /\ Repeats \/ ~Duplicate(ri, a)
     /\ rib' = [rib EXCEPT ![p] = Put(@, q, new)]
     /\ Recount(q, ri.flags, new.flags)
     /\ IF Duplicate(ri, a) THEN UNCHANGED process ELSE bgp_process(p)

(* bgp_info_add puts a new path first. *)
UpdateNew(p, q, a) ==
  LET new == bgp_pcount_adjust([peer |-> q, attr |-> a, flags |-> {"VALID"}, uptime |-> "now"])
  IN /\ rib' = [rib EXCEPT ![p] = <<new>> \o @]
     /\ Recount(q, {}, new.flags)
     /\ bgp_process(p)

bgp_update(p, q, a) ==
  /\ Input
  /\ status[q] = "Established"
  /\ IF a \in Filtered
     THEN HasPath(p, q) /\ bgp_rib_remove(p, q)
     ELSE IF HasPath(p, q) THEN UpdateKnown(p, q, a) ELSE UpdateNew(p, q, a)
  /\ UNCHANGED <<clearing, status, trust, fib, faults>> /\ UNCHANGED ovars

bgp_withdraw(p, q) ==
  /\ Input
  /\ status[q] = "Established"
  /\ HasPath(p, q)
  /\ bgp_rib_remove(p, q)
  /\ UNCHANGED <<clearing, status, trust, fib, faults>> /\ UNCHANGED ovars

(* TRUST and pool messages of the neighbours change the files that         *)
(* bgp_info_cmp reads; nothing is processed again because of it.           *)
TrustReceived(q) ==
  /\ Input
  /\ status[q] = "Established"
  /\ \E v \in ObsTrusts : trust' = [trust EXCEPT !.obs[AsOf[q]] = v]
  /\ UNCHANGED <<status, faults>> /\ UNCHANGED rvars /\ UNCHANGED ovars

PoolReceived(q) ==
  /\ Input
  /\ status[q] = "Established"
  /\ \E v \in Pools : trust' = [trust EXCEPT !.result[AsOf[q]] = v]
  /\ UNCHANGED <<status, faults>> /\ UNCHANGED rvars /\ UNCHANGED ovars
-----------------------------------------------------------------------------
Announced(ri) == ri # NULL /\ ri.peer # Out /\ ri.attr \notin Hidden

MutAnnounceSelected(o, p, selected) ==
  IF Announced(selected) THEN bgp_adj_out_set(o, p, selected.attr, selected.peer) ELSE o

bgp_process_announce_selected(o, p, selected) ==
  IF Announced(selected) THEN bgp_adj_out_set(o, p, selected.attr, selected.peer)
  ELSE bgp_adj_out_unset(o, p)

(* The list after the flags of the old and the new selection are set; a    *)
(* removed old selection is reaped in the end.                             *)
MutReselected(info, old, new) ==
  [i \in DOMAIN info |-> [info[i] EXCEPT !.flags =
     IF new # NULL /\ info[i].peer = new.peer
     THEN (@ \cup {"SELECTED"}) \ {"ATTR_CHANGED"} ELSE @ \ {"SELECTED"}]]

Reselected(info, old, new) ==
  LET Mark(ri) ==
        [ri EXCEPT !.flags =
           IF new # NULL /\ ri.peer = new.peer
           THEN (@ \cup {"SELECTED"}) \ {"ATTR_CHANGED"}
           ELSE @ \ {"SELECTED"}]
      marked == [i \in DOMAIN info |-> Mark(info[i])]
  IN SelectSeq(marked, LAMBDA ri : "REMOVED" \notin ri.flags)

(* bgp_process_main for the first node of the queue. *)
bgp_process_main ==
  /\ process # <<>>
  /\ LET p == Head(process)
         info == Reaped(rib[p])
         old == SelectedOf(info)
         new == bgp_best_selection(trust, info)
     IN IF old # NULL /\ old = new /\ "ATTR_CHANGED" \notin old.flags
        THEN /\ rib' = [rib EXCEPT ![p] = info]
             /\ UNCHANGED <<fib, out>>
        ELSE /\ rib' = [rib EXCEPT ![p] = Reselected(info, old, new)]
             /\ fib' = [fib EXCEPT ![p] =
                          IF new = NULL THEN NULL ELSE [peer |-> new.peer, attr |-> new.attr]]
             /\ out' = IF status[Out] = "Established"
                       THEN bgp_process_announce_selected(out, p, new) ELSE out
  /\ process' = Tail(process)
  /\ UNCHANGED <<clearing, status, pcount, trust, view, early, ops, faults>>
-----------------------------------------------------------------------------
(* All uptimes of one kind become another. *)
Age(from, to) ==
  rib' = [p \in Prefix |-> [i \in DOMAIN rib[p] |->
            [rib[p][i] EXCEPT !.uptime = IF @ = from THEN to ELSE @]]]

(* A session that was established is lost: bgp_stop, and bgp_clear_route   *)
(* for the transition to Clearing.  Nodes without paths are skipped.       *)
PathNodes(q) == SelectSeq([i \in 1 .. Cardinality(Prefix) |-> i], LAMBDA p : HasPath(p, q))

bgp_clear_route(q) ==
  /\ clearing' = [clearing EXCEPT ![q] = @ \o PathNodes(q)]
  /\ IF q = Out
     THEN /\ out' = [bgp_adj_out_remove(out, {p \in Prefix : rib[p] # <<>>})
                      EXCEPT !.t_write = FALSE]
          /\ Age("old", "past")
          /\ view' = [p \in Prefix |-> NULL]
          /\ early' = FALSE
     ELSE UNCHANGED <<rib, out, view, early>>

SessionLost(q) ==
  /\ faults < MaxFaults /\ faults' = faults + 1
  /\ status[q] = "Established"
  /\ status' = [status EXCEPT ![q] = "Clearing"]
  /\ bgp_clear_route(q)
  /\ UNCHANGED <<process, pcount, trust, fib, ops>>

bgp_clear_route_node(q) ==
  /\ clearing[q] # <<>>
  /\ LET p == Head(clearing[q])
     IN IF HasPath(p, q) THEN bgp_rib_remove(p, q) ELSE UNCHANGED <<rib, pcount, process>>
  /\ clearing' = [clearing EXCEPT ![q] = Tail(@)]
  /\ UNCHANGED <<status, trust, fib, ops, faults>> /\ UNCHANGED ovars

(* The completion function of the empty queue, and its event. *)
Clearing_Completed(q) ==
  /\ status[q] = "Clearing" /\ clearing[q] = <<>>
  /\ status' = [status EXCEPT ![q] = "Idle"]
  /\ UNCHANGED <<trust, ops, faults>> /\ UNCHANGED rvars /\ UNCHANGED ovars

(* The OPEN is queued and the write thread scheduled. *)
bgp_open_send(q) ==
  /\ status[q] = "Idle"
  /\ status' = [status EXCEPT ![q] = "Opening"]
  /\ out' = [out EXCEPT !.t_write = @ \/ q = Out]
  /\ UNCHANGED <<trust, view, early, ops, faults>> /\ UNCHANGED rvars

(* bgp_announce_route: the selected path of every node, in table order. *)
bgp_announce_route(o) ==
  FoldLeft(LAMBDA x, p : LET ri == SelectedOf(rib[p])
                         IN IF ri # NULL /\ ri.peer # Out
                            THEN bgp_process_announce_selected(x, p, ri) ELSE x,
           o, [i \in 1 .. Cardinality(Prefix) |-> i])

(* The KEEPALIVE that establishes the session answers the OPEN, which was  *)
(* written before.                                                         *)
bgp_establish(q) ==
  /\ status[q] = "Opening"
  /\ q = Out => ~out.t_write
  /\ status' = [status EXCEPT ![q] = "Established"]
  /\ out' = IF q = Out THEN bgp_announce_route(out) ELSE out
  /\ UNCHANGED <<trust, view, early, ops, faults>> /\ UNCHANGED rvars
-----------------------------------------------------------------------------
(* The clock, the advertisement timer of Out, and its UPDATEs. *)
Recent == \E p \in Prefix : \E i \in DOMAIN rib[p] : rib[p][i].uptime = "now"

Tick ==
  /\ Recent
  /\ Age("now", "past")
  /\ UNCHANGED <<process, clearing, status, pcount, trust, fib, ops, faults>>
  /\ UNCHANGED ovars

MutRouteadvTimer ==
  /\ status[Out] = "Established"
  /\ out' = [out EXCEPT !.t_write = TRUE]
  /\ UNCHANGED <<rib, process, clearing, status, pcount, trust, fib, view, early, ops, faults>>

bgp_routeadv_timer ==
  /\ status[Out] = "Established"
  /\ Age("past", "old")
  /\ out' = [out EXCEPT !.t_write = TRUE]
  /\ UNCHANGED <<process, clearing, status, pcount, trust, fib, view, early, ops, faults>>

Old == {<<p, q>> \in Prefix \X Peer : HasPath(p, q) /\ PathOf(p, q).uptime = "old"}

Learn(v, packet) == [p \in Prefix |-> IF p \in packet.nlri THEN packet.attr ELSE v[p]]

bgp_write ==
  /\ out.t_write
  /\ LET w == bgp_write_packet(out, Old)
     IN /\ out' = w[1]
        /\ view' = FoldLeft(Learn, view, w[2])
        /\ early' = (early \/ (status[Out] = "Opening" /\ w[2] # <<>>))
  /\ UNCHANGED <<status, trust, ops, faults>> /\ UNCHANGED rvars

(* An UPDATE that was written before the session was established reaches   *)
(* the neighbour before the KEEPALIVE that establishes it there, and is    *)
(* answered with a NOTIFICATION.                                           *)
Refuse ==
  /\ early
  /\ IF status[Out] = "Established"
     THEN /\ status' = [status EXCEPT ![Out] = "Clearing"]
          /\ bgp_clear_route(Out)
     ELSE /\ status' = [status EXCEPT ![Out] = "Idle"]
          /\ out' = [out EXCEPT !.t_write = FALSE]
          /\ early' = FALSE
          /\ UNCHANGED <<rib, clearing, view>>
  /\ UNCHANGED <<process, pcount, trust, fib, ops, faults>>
-----------------------------------------------------------------------------
Next ==
  \/ \E s \in Sends : bgp_update(s[1], s[2], s[3])
  \/ \E p \in Prefix, q \in Peer : bgp_withdraw(p, q)
  \/ \E q \in Peer : TrustReceived(q) \/ PoolReceived(q)
  \/ \E q \in Peer : SessionLost(q)
  \/ bgp_process_main
  \/ \E q \in Peer : bgp_clear_route_node(q) \/ Clearing_Completed(q)
  \/ \E q \in Peer : bgp_open_send(q) \/ bgp_establish(q)
  \/ Tick \/ bgp_routeadv_timer \/ bgp_write \/ Refuse

Spec == Init /\ [][Next]_vars

(* The scheduler serves every thread, TCP delivers and the neighbours      *)
(* answer.  The timer and the write thread can go on for ever, so the      *)
(* other steps have a fairness condition of their own.  Both are weak      *)
(* fairness, with the guards of the actions in the place of ENABLED.       *)
Work ==
  \/ bgp_process_main \/ Tick \/ Refuse
  \/ \E q \in Peer : bgp_clear_route_node(q) \/ Clearing_Completed(q)
  \/ \E q \in Peer : bgp_open_send(q) \/ bgp_establish(q)
WorkDue ==
  \/ process # <<>> \/ Recent \/ early
  \/ \E q \in Peer : clearing[q] # <<>> \/ status[q] \in {"Clearing", "Idle"}
  \/ \E q \in Peer : status[q] = "Opening" /\ (q = Out => ~out.t_write)

Output == bgp_routeadv_timer \/ bgp_write
OutputDue == status[Out] = "Established" \/ out.t_write

Fairness ==
  /\ []<>~WorkDue \/ []<><<Work>>_vars
  /\ []<>~OutputDue \/ []<><<Output>>_vars

FairSpec == Spec /\ Fairness
-----------------------------------------------------------------------------
Usable(p, q) == HasPath(p, q) /\ ~HoldDown(PathOf(p, q))

(* What the selected path of a node means for Out and for the kernel. *)
ForOut(p) == LET ri == SelectedOf(rib[p]) IN IF Announced(ri) THEN ri.attr ELSE NULL
ForZebra(p) ==
  LET ri == SelectedOf(rib[p])
  IN IF ri = NULL THEN NULL ELSE [peer |-> ri.peer, attr |-> ri.attr]

(* What Out is to have. *)
Want == [p \in Prefix |-> IF out.adv[p] = NULL THEN out.attr[p] ELSE out.adv[p].attr]

(* "PfxCt drift!" (bgp_peer_counts): the running count of a peer's         *)
(* prefixes, kept by the flag COUNTED through removals, restorations of a  *)
(* removed path and clearing, is the number of its usable paths.           *)
PrefixCount ==
  \A q \in Peer : pcount[q] = Cardinality({p \in Prefix : Usable(p, q)})

(* A node that no work queue holds is finished: no removed path is left in *)
(* its list, exactly one path is selected if any is usable, none           *)
(* otherwise, and zebra has been told that path with its present           *)
(* attributes, however the UPDATEs, withdrawals and the clearing of the    *)
(* node overtook its processing.                                           *)
SettledNode ==
  \A p \in Prefix : ~Contains(process, p) =>
    /\ \A i \in DOMAIN rib[p] : ~HoldDown(rib[p][i])
    /\ Cardinality(Selected(rib[p])) = (IF rib[p] = <<>> THEN 0 ELSE 1)
    /\ fib[p] = ForZebra(p)

(* And Out, when established, has been or is about to be sent that path.   *)
(* (bgp_process_announce_selected, bgp_announce_route)                     *)
SettledOut ==
  status[Out] = "Established" =>
    \A p \in Prefix : ~Contains(process, p) => Want[p] = ForOut(p)

(* bgp_write_proceed reads adv->binfo->uptime without a test: every        *)
(* advertisement in the update FIFO is for the selected path of its node,  *)
(* which is still in the list, and stands there once.                      *)
AdvertisesSelected ==
  /\ \A p \in Prefix :
       /\ Contains(out.update, p) <=> out.adv[p] \notin {NULL, Withdrawal}
       /\ Contains(out.withdraw, p) <=> out.adv[p] = Withdrawal
       /\ Contains(out.update, p) =>
            HasPath(p, out.adv[p].binfo) /\ PathOf(p, out.adv[p].binfo) = SelectedOf(rib[p])
  /\ IsInjective(out.update) /\ IsInjective(out.withdraw)

(* "Best path selection" (bgp_process_main): a usable path that beats each *)
(* other one is selected, whatever the order in which they arrived and the *)
(* path that was selected before.  There need not be one: bgp_info_cmp is  *)
(* not transitive, since votes count only where both ASes have them, and   *)
(* MEDs only between paths with one first AS.                              *)
SelectionIsBest ==
  [][Len(process') < Len(process) =>
       LET p == Head(process)
           info == rib[p]
           usable == {i \in DOMAIN info : ~HoldDown(info[i])}
           Beats(i, j) == /\ bgp_info_cmp(trust, info[i], info[j])
                          /\ ~bgp_info_cmp(trust, info[j], info[i])
       IN \A i \in usable : (\A j \in usable \ {i} : Beats(i, j)) =>
            Selected(rib'[p]) # {} /\ SelectedOf(rib'[p]).peer = info[i].peer]_vars

(* What is written to Out follows RouteMirror: an UPDATE is never older   *)
(* than the choice it stands for, although advertisements are replaced     *)
(* while they wait, packed together and overtaken by withdrawals.          *)
Mirror == INSTANCE RouteMirror WITH want <- Want, told <- view
MirrorSpec == Mirror!Spec

(* Once the inputs end, Out learns the selected routes: the processing     *)
(* queue is emptied, an advertisement becomes due with the next tick of    *)
(* bgp_routeadv_timer, and a lost session comes back and is told all.      *)
NeighbourLearns ==
  <>[](/\ status[Out] = "Established" /\ process = <<>>
       /\ \A p \in Prefix : view[p] = ForOut(p))
=============================================================================
