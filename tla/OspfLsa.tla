------------------------------- MODULE OspfLsa -------------------------------
(***************************************************************************)
(* What ospfd keeps about one neighbour on a point-to-point link, and the  *)
(* functions of ospf_lsa.c, ospf_flood.c and ospf_packet.c that change it. *)
(* The state of a router is a record x; each operator is a C function that *)
(* returns the changed record.  Fields of x:                               *)
(*   state, seqnum, flags   nbr->state, dd_seqnum, dd_flags                *)
(*   sum, req, rxmt         nbr->db_sum, ls_req, ls_rxmt                   *)
(*   lastReq                nbr->ls_req_last (0: none)                     *)
(*   lastSend, lastRecv     nbr->last_send (NULL: none), last_recv         *)
(*   db                     the area's link state database                 *)
(*   ev                     the event list of the thread master            *)
(*   served                 a packet was read after the last event         *)
(*   upds, acks, direct     oi->ls_upd_queue, oi->ls_ack, ls_ack_direct    *)
(*   out                    packets handed to the interface by this step   *)
(* sum, req, rxmt and db map every LSA to an instance or to NoLsa.         *)
(***************************************************************************)
EXTENDS Integers, SequencesExt, FiniteSets

CONSTANTS
  NULL,
  MaxHeaders    \* LSA headers that fit in a Database Description packet

ASSUME HeadersAssumption == MaxHeaders \in Nat \ {0}

(* The two routers are named by their router IDs; the LSAs are the router- *)
(* LSAs of the two and of a third router behind one of them.               *)
Router == {1, 2}
Other(r) == 3 - r
Lsa == {1, 2, 3}

(* An instance: LS sequence number and checksum.  LS age is left out. *)
NoLsa == [seq |-> 0, sum |-> 0]
Nothing == [k \in Lsa |-> NoLsa]
Listed(list) == {k \in Lsa : list[k] # NoLsa}

(* Of ospf_nsm.h. *)
NSM_Deleted == 1
NSM_Down == 2
NSM_Init == 4
NSM_TwoWay == 5
NSM_ExStart == 6
NSM_Exchange == 7
NSM_Loading == 8
NSM_Full == 9
NsmState == {NSM_Deleted, NSM_Down, NSM_Init, NSM_TwoWay, NSM_ExStart, NSM_Exchange, NSM_Loading, NSM_Full}

(* Positive: l1 is more recent; negative: l2 is; the checksums are         *)
(* subtracted, so that the result need not be 1 or -1.                     *)
ospf_lsa_more_recent(l1, l2) ==
  IF l1 = NoLsa /\ l2 = NoLsa THEN 0
  ELSE IF l1 = NoLsa THEN -1
  ELSE IF l2 = NoLsa THEN 1
  ELSE IF l1.seq > l2.seq THEN 1
  ELSE IF l1.seq < l2.seq THEN -1
  ELSE l1.sum - l2.sum

Schedule(x, event) == [x EXCEPT !.ev = Append(@, event)]
Once(x, event) == IF event \in Range(x.ev) THEN x ELSE Schedule(x, event)
Send(x, packet) == [x EXCEPT !.out = Append(@, packet)]

-----------------------------------------------------------------------------
(* Flooding *)

(* With the last requested LSA the rest is requested again, at once        *)
(* (ospf_ls_req_event, which replaces an event that is already there).     *)
ospf_check_nbr_loading(x) ==
  IF x.state # NSM_Loading THEN x
  ELSE IF Listed(x.req) = {} THEN Schedule(x, "LoadingDone")
  ELSE IF x.lastReq = 0
  THEN Schedule([x EXCEPT !.ev = SelectSeq(@, LAMBDA e : e # "LsReq")], "LsReq")
  ELSE x

ospf_ls_request_delete(x, k) ==
  [x EXCEPT !.req[k] = NoLsa, !.lastReq = IF @ = k THEN 0 ELSE @]

ospf_ls_retransmit_add(x, k, lsa) ==
  IF ospf_lsa_more_recent(x.rxmt[k], lsa) < 0 THEN [x EXCEPT !.rxmt[k] = lsa] ELSE x

(* ospf_ls_retransmit_delete_nbr_area *)
ospf_ls_retransmit_delete(x, k, lsa) ==
  IF lsa # NoLsa /\ x.rxmt[k].seq = lsa.seq THEN [x EXCEPT !.rxmt[k] = NoLsa] ELSE x

ospf_ls_upd_send(x, lsas) == Once([x EXCEPT !.upds = @ \o lsas], "LsUpdSend")
ospf_ls_ack_send(x, ack) == Once([x EXCEPT !.direct = @ \cup {ack}], "LsAckSend")

(* The only other router on the link is the neighbour; received says that  *)
(* the LSA came from it.                                                   *)
ospf_flood_through_interface(x, k, lsa, received) ==
  LET wanted == x.state < NSM_Full /\ x.req[k] # NoLsa
      ret == ospf_lsa_more_recent(x.req[k], lsa)
      y == IF wanted /\ ret <= 0
           THEN ospf_check_nbr_loading(ospf_ls_request_delete(x, k)) ELSE x
  IN IF x.state < NSM_Exchange THEN x
     ELSE IF received \/ (wanted /\ ret >= 0) THEN y
     ELSE ospf_ls_upd_send(ospf_ls_retransmit_add(y, k, lsa), <<<<k, lsa>>>>)

(* The router-LSA lists the link when the neighbour is Full. *)
ospf_router_lsa_new(x, seq) ==
  [seq |-> seq, sum |-> IF x.state = NSM_Full THEN 20 ELSE 10]

ospf_router_lsa_refresh(x, r) ==
  LET new == ospf_router_lsa_new(x, x.db[r].seq + 1)
      y == [ospf_ls_retransmit_delete(x, r, x.db[r]) EXCEPT !.db[r] = new]
  IN ospf_flood_through_interface(y, r, new, FALSE)

\* The router's own LSA is not reoriginated.
MutFlood(x, r, k, new, received) ==
  LET y == ospf_flood_through_interface(x, k, new, received)
      z == [ospf_ls_retransmit_delete(y, k, x.db[k]) EXCEPT !.db[k] = new]
  IN IF received THEN [z EXCEPT !.acks = @ \cup {<<k, new>>}] ELSE z

(* An LSA that is newer than the database copy.  It is acknowledged, since *)
(* it does not go back to where it came from; one of the router's own is   *)
(* replaced by a newer one (ospf_process_self_originated_lsa).             *)
ospf_flood(x, r, k, new, received) ==
  LET current == x.db[k]
      y == ospf_flood_through_interface(x, k, new, received)
      z == [ospf_ls_retransmit_delete(y, k, current) EXCEPT !.db[k] = new]
      acked == IF received THEN [z EXCEPT !.acks = @ \cup {<<k, new>>}] ELSE z
  IN IF k = r THEN ospf_router_lsa_refresh(acked, r) ELSE acked
=============================================================================
