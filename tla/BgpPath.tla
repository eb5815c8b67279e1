------------------------------ MODULE BgpPath ------------------------------
(***************************************************************************)
(* The neighbours of a router and the paths it has learned from them.  A   *)
(* path is a struct bgp_info of type BGP_ROUTE_NORMAL: its peer, its       *)
(* attributes and its flags.  Every neighbour is external, as in the       *)
(* simulated networks, where each router is an AS.                         *)
(***************************************************************************)
EXTENDS Integers, Sequences, FiniteSets

CONSTANTS
  Peer,         \* the neighbours
  MyAS,         \* bgp->as
  AsOf,         \* peer->as
  RemoteId,     \* peer->remote_id
  Attr,         \* the attributes a neighbour may send
  NULL          \* no path, no attributes, no file

AttrFields == {"weight", "local_pref", "hops", "origin", "med", "left"}

ASSUME PeerAssumption ==
  /\ AsOf \in [Peer -> Nat \ {0, MyAS}]
  /\ RemoteId \in [Peer -> Nat]
  /\ \A p, q \in Peer : RemoteId[p] = RemoteId[q] => p = q
  /\ NULL \notin Attr \cup Peer

ASSUME AttrAssumption == Attr \subseteq [AttrFields -> Nat]

Flag == {"VALID", "REMOVED", "SELECTED", "ATTR_CHANGED", "COUNTED"}

(* bgp_clock counts seconds, and the code only compares the uptime of a    *)
(* path with the synctime of a peer: "old" is before it, "now" the current *)
(* second, "past" in between.                                              *)
Uptime == {"old", "past", "now"}

Path == [peer : Peer, attr : Attr, flags : SUBSET Flag, uptime : Uptime]

(* BGP_INFO_HOLDDOWN; history and damped paths are not modelled. *)
HoldDown(ri) == "VALID" \notin ri.flags \/ "REMOVED" \in ri.flags
=============================================================================
