----------------------------- MODULE BgpAdjOut -----------------------------
(***************************************************************************)
(* What bgpd has sent, and is about to send, to one peer: bgp_advertise.c  *)
(* and the functions of bgp_packet.c that turn it into UPDATE packets.     *)
(*                                                                         *)
(* The state is a record o of the peer:                                    *)
(*   o.attr[p]     adj->attr, the attributes last sent for prefix p;       *)
(*   o.adv[p]      adj->adv, the advertisement that waits: its attributes  *)
(*                 and the peer of its path (adv->binfo), both NULL in a   *)
(*                 withdrawal;                                             *)
(*   o.update      peer->sync->update, the order in which they wait;       *)
(*   o.withdraw    peer->sync->withdraw;                                   *)
(*   o.t_write     the write thread is scheduled.                          *)
(* A struct bgp_adj_out exists where attr or adv does.  The list of the    *)
(* advertisements with the same attributes (baa->adv) grows at its head    *)
(* when o.update grows at its tail, so it is that part of o.update,        *)
(* backwards, and needs no state of its own.                               *)
(***************************************************************************)
EXTENDS BgpPath, SequencesExt

CONSTANTS
  Prefix,       \* the prefixes of the table
  MaxNlri       \* how many prefixes fit in an UPDATE

ASSUME NlriAssumption == MaxNlri \in Nat \ {0}

Withdrawal == [attr |-> NULL, binfo |-> NULL]

NoAdjOut ==
  [attr |-> [p \in Prefix |-> NULL], adv |-> [p \in Prefix |-> NULL],
   update |-> <<>>, withdraw |-> <<>>, t_write |-> FALSE]

Without(s, S) == SelectSeq(s, LAMBDA p : p \notin S)

MutAdvertiseClean(o, S) ==
  [o EXCEPT !.adv = [p \in Prefix |-> IF p \in S THEN NULL ELSE @[p]]]

(* bgp_advertise_clean for all prefixes of S. *)
bgp_advertise_clean(o, S) ==
  [o EXCEPT !.adv = [p \in Prefix |-> IF p \in S THEN NULL ELSE @[p]],
            !.update = Without(@, S), !.withdraw = Without(@, S)]

bgp_adj_out_set(o, p, attr, binfo) ==
  [bgp_advertise_clean(o, {p}) EXCEPT
     !.adv[p] = [attr |-> attr, binfo |-> binfo], !.update = Append(@, p)]

(* Nothing has to be withdrawn that was not sent. *)
bgp_adj_out_unset(o, p) ==
  IF o.attr[p] = NULL THEN bgp_advertise_clean(o, {p})
  ELSE [bgp_advertise_clean(o, {p}) EXCEPT
          !.adv[p] = Withdrawal, !.withdraw = Append(@, p), !.t_write = TRUE]

bgp_adj_out_remove(o, S) ==
  [bgp_advertise_clean(o, S) EXCEPT !.attr = [p \in Prefix |-> IF p \in S THEN NULL ELSE @[p]]]
-----------------------------------------------------------------------------
(* The first advertisement and, as long as there is room, the others with  *)
(* the same attributes, the latest first.                                  *)
UpdateBatch(o) ==
  LET first == Head(o.update)
      same == SelectSeq(Tail(o.update), LAMBDA p : o.adv[p].attr = o.adv[first].attr)
      room == IF MaxNlri - 1 < Len(same) THEN MaxNlri - 1 ELSE Len(same)
  IN {first} \cup {same[i] : i \in Len(same) - room + 1 .. Len(same)}

WithdrawBatch(o) ==
  {o.withdraw[i] : i \in {j \in DOMAIN o.withdraw : j <= MaxNlri}}

MutUpdatePacket(o) ==
  LET S == ToSet(o.update)
  IN << [bgp_advertise_clean(o, S) EXCEPT
           !.attr = [p \in Prefix |-> IF p \in S THEN o.adv[p].attr ELSE @[p]], !.t_write = TRUE],
        [attr |-> o.adv[Head(o.update)].attr, nlri |-> S] >>

(* Both functions as a pair: the record they leave and the packet. *)
bgp_update_packet(o) ==
  LET S == UpdateBatch(o)
      attr == o.adv[Head(o.update)].attr
  IN << [bgp_advertise_clean(o, S) EXCEPT
           !.attr = [p \in Prefix |-> IF p \in S THEN attr ELSE @[p]], !.t_write = TRUE],
        [attr |-> attr, nlri |-> S] >>

bgp_withdraw_packet(o) ==
  << bgp_adj_out_remove(o, WithdrawBatch(o)), [attr |-> NULL, nlri |-> WithdrawBatch(o)] >>

(* adv->binfo->uptime < peer->synctime for the first update; old is the    *)
(* set of the paths <<prefix, peer>> with such an uptime.                  *)
UpdateDue(o, old) ==
  /\ o.update # <<>>
  /\ <<Head(o.update), o.adv[Head(o.update)].binfo>> \in old

bgp_write_proceed(o, old) == o.withdraw # <<>> \/ UpdateDue(o, old)

(* One round of the loop of bgp_write: the record it leaves and the        *)
(* packets, at most one, it gives to TCP.                                  *)
bgp_write_packet(o, old) ==
  CASE o.withdraw # <<>> ->
         LET w == bgp_withdraw_packet(o)
         IN <<[w[1] EXCEPT !.t_write = bgp_write_proceed(w[1], old)], <<w[2]>> >>
    [] o.withdraw = <<>> /\ UpdateDue(o, old) ->
         LET u == bgp_update_packet(o) IN <<u[1], <<u[2]>> >>
    [] OTHER -> <<[o EXCEPT !.t_write = FALSE], <<>> >>
=============================================================================
