----------------------------- MODULE StreamFifo -----------------------------
(***************************************************************************)
(* The output queue peer->obuf of a BGP peer: the singly linked list of    *)
(* lib/stream.c as bgpd/bgp_packet.c uses it.                              *)
(*                                                                         *)
(* The senders of the trust and voting extension call bgp_packet_add twice *)
(* for the same stream, which links the stream to itself.  The list is a   *)
(* list again only once bgp_keepalive_send, which called them, has queued  *)
(* its KEEPALIVE behind them.  The history variable queue holds the        *)
(* packets that should go out, each of them once.                          *)
(***************************************************************************)
EXTENDS Integers, Sequences

CONSTANTS
  Stream,      \* the stream structures that malloc can hand out
  NULL,        \* the null pointer
  MaxCount     \* bound: packets are queued only while count is below it

ASSUME StreamAssumption ==
  /\ NULL \notin Stream
  /\ MaxCount \in Nat

VARIABLES
  obuf,          \* struct stream_fifo, with the link of every stream
  inKeepalive,   \* bgp_keepalive_send has more packets to add
  queue          \* history: the packets to be sent, in order

vars == <<obuf, inKeepalive, queue>>

EmptyFifo(next) == [head |-> NULL, tail |-> NULL, count |-> 0, next |-> next]

Init ==
  /\ obuf = EmptyFifo([s \in Stream |-> NULL])
  /\ inKeepalive = FALSE
  /\ queue = <<>>

Queued == {queue[i] : i \in 1..Len(queue)}

(* Operators named Mut... are faulty variants of the definition below them *)
(* that the properties catch; no specification uses them.                  *)

(* The memory after XCALLOC has cleared the new stream s. *)
stream_new(f, s) == [f EXCEPT !.next = [f.next EXCEPT ![s] = NULL]]

MutPushNoCount(f, s) ==
  [head  |-> IF f.tail = NULL THEN s ELSE f.head,
   tail  |-> s,
   count |-> IF f.tail = NULL THEN 1 ELSE f.count,
   next  |-> IF f.tail = NULL THEN f.next ELSE [f.next EXCEPT ![f.tail] = s]]

stream_fifo_push(f, s) ==
  [head  |-> IF f.tail = NULL THEN s ELSE f.head,
   tail  |-> s,
   count |-> f.count + 1,
   next  |-> IF f.tail = NULL THEN f.next ELSE [f.next EXCEPT ![f.tail] = s]]

MutPopKeepsTail(f) ==
  [f EXCEPT !.head = f.next[f.head], !.count = f.count - 1]

stream_fifo_pop(f) ==
  [f EXCEPT !.head = f.next[f.head],
            !.tail = IF f.next[f.head] = NULL THEN NULL ELSE f.tail,
            !.count = f.count - 1]

stream_fifo_clean(f) == EmptyFifo(f.next)

-----------------------------------------------------------------------------
(* The senders that add a packet once: bgp_open_send, bgp_update_packet,   *)
(* bgp_withdraw_packet, bgp_route_refresh_send and the others.             *)
packet_send(s) ==
  /\ ~inKeepalive
  /\ obuf.count < MaxCount
  /\ s \notin Queued
  /\ obuf' = stream_fifo_push(stream_new(obuf, s), s)
  /\ queue' = Append(queue, s)
  /\ UNCHANGED inKeepalive

(* bgp_trust_send, bgp_voting_peers_request_send, ..._vote_request_send,   *)
(* ..._vote_response_send and ..._peers_response_send, which               *)
(* bgp_keepalive_send calls: each adds its packet twice.  Memory does not  *)
(* run out: a stream is left for the KEEPALIVE.                            *)
bgp_trust_send(s) ==
  /\ obuf.count < MaxCount
  /\ s \notin Queued
  /\ \E t \in Stream : t # s /\ t \notin Queued
  /\ obuf' = stream_fifo_push(stream_fifo_push(stream_new(obuf, s), s), s)
  /\ queue' = Append(queue, s)
  /\ inKeepalive' = TRUE

MutKeepaliveNotLast(s) ==
  /\ s \notin Queued
  /\ inKeepalive' = FALSE
  /\ UNCHANGED <<obuf, queue>>

(* The KEEPALIVE itself, the last packet bgp_keepalive_send adds. *)
bgp_keepalive_send(s) ==
  /\ inKeepalive
  /\ s \notin Queued
  /\ obuf' = stream_fifo_push(stream_new(obuf, s), s)
  /\ queue' = Append(queue, s)
  /\ inKeepalive' = FALSE

(* bgp_packet_delete: one packet of the loop of bgp_write has gone out. *)
bgp_packet_delete ==
  /\ ~inKeepalive
  /\ obuf.head # NULL
  /\ obuf' = stream_fifo_pop(obuf)
  /\ queue' = IF queue = <<>> THEN queue ELSE Tail(queue)
  /\ UNCHANGED inKeepalive

(* bgp_notify_send_with_data throws the queue away and adds one packet. *)
bgp_notify_send(s) ==
  /\ ~inKeepalive
  /\ s \notin Queued
  /\ obuf' = stream_fifo_push(stream_new(stream_fifo_clean(obuf), s), s)
  /\ queue' = <<s>>
  /\ UNCHANGED inKeepalive

bgp_stop ==
  /\ ~inKeepalive
  /\ obuf' = stream_fifo_clean(obuf)
  /\ queue' = <<>>
  /\ UNCHANGED inKeepalive

Next ==
  \/ \E s \in Stream :
       \/ packet_send(s)
       \/ bgp_trust_send(s)
       \/ bgp_keepalive_send(s)
       \/ bgp_notify_send(s)
  \/ bgp_packet_delete
  \/ bgp_stop

Spec == Init /\ [][Next]_vars

-----------------------------------------------------------------------------
(* Head, tail and links are streams or NULL; count, a size_t, is no less   *)
(* than 0 (it would wrap around).                                          *)
TypeOK ==
  /\ obuf \in [head: Stream \cup {NULL}, tail: Stream \cup {NULL}, count: Nat,
               next: [Stream -> Stream \cup {NULL}]]
  /\ inKeepalive \in BOOLEAN
  /\ queue \in Seq(Stream)

(* The links spell the queue: from head each stream leads to the next      *)
(* packet to be sent and to no other, tail is the last one.  So bgp_write  *)
(* sends every packet once and in order, also the packets that were added  *)
(* twice, and no packet is lost or freed twice.                            *)
ListIsQueue ==
  /\ queue = <<>> => obuf.head = NULL /\ obuf.tail = NULL
  /\ queue # <<>> => obuf.head = queue[1] /\ obuf.tail = queue[Len(queue)]
  /\ \A i \in 1..(Len(queue) - 1) : obuf.next[queue[i]] = queue[i + 1]

(* The list ends: outside bgp_keepalive_send the last stream has no        *)
(* successor, so the walks of stream_fifo_clean and bgp_write stop.  A     *)
(* stream added twice leads to itself, and only the KEEPALIVE repairs it.  *)
ListEnds ==
  (~inKeepalive /\ queue # <<>>) => obuf.next[obuf.tail] = NULL

(* No stream is queued twice, so stream_free is never called twice. *)
QueuedOnce ==
  \A i, j \in 1..Len(queue) : queue[i] = queue[j] => i = j

(* count never falls below the number of packets in the queue: it does not *)
(* wrap around below zero.                                                 *)
CountCoversQueue == Len(queue) <= obuf.count
=============================================================================
