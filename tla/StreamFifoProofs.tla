-------------------------- MODULE StreamFifoProofs --------------------------
(***************************************************************************)
(* The linked list of StreamFifo is the queue it stands for, for any       *)
(* number of streams and any length of a keepalive burst.                  *)
(***************************************************************************)
EXTENDS StreamFifo, TLAPS

(* The inductive invariant.  That no stream is in the queue twice is what  *)
(* keeps a push from relinking a stream in the middle; that the list ends  *)
(* is what makes the last pop empty it.                                    *)
FifoInv == TypeOK /\ ListIsQueue /\ ListEnds /\ QueuedOnce /\ CountCoversQueue

(* Only the length of the queue and the streams in it matter to a push: a  *)
(* stream that is not in the queue differs from each of its elements.      *)
LEMMA NotQueued ==
  ASSUME NEW s, s \notin Queued
  PROVE  \A i \in 1..Len(queue) : queue[i] # s
BY DEF Queued

(* Appending a new stream keeps the elements of the queue distinct. *)
LEMMA AppendOnce ==
  ASSUME queue \in Seq(Stream), QueuedOnce, NEW s \in Stream, s \notin Queued,
         queue' = Append(queue, s)
  PROVE  /\ queue' \in Seq(Stream)
         /\ Len(queue') = Len(queue) + 1
         /\ queue'[Len(queue) + 1] = s
         /\ \A i \in 1..Len(queue) : queue'[i] = queue[i]
         /\ QueuedOnce'
<1>1. /\ queue' \in Seq(Stream)
      /\ Len(queue') = Len(queue) + 1
      /\ queue'[Len(queue) + 1] = s
      /\ \A i \in 1..Len(queue) : queue'[i] = queue[i]
  OBVIOUS
<1>2. \A i \in 1..Len(queue) : queue[i] # s
  BY NotQueued
<1>3. QueuedOnce'
  BY <1>1, <1>2 DEF QueuedOnce
<1> QED BY <1>1, <1>3

(* One push of a new stream s: the link of s becomes NULL, the link of the *)
(* former tail becomes s, and the queue is one longer.                     *)
LEMMA PushInv ==
  ASSUME FifoInv, NEW s \in Stream, s \notin Queued,
         queue' = Append(queue, s), inKeepalive' \in BOOLEAN,
         obuf' = stream_fifo_push(stream_new(obuf, s), s)
  PROVE  FifoInv'
<1> USE DEF FifoInv
<1>1. /\ queue' \in Seq(Stream) /\ Len(queue') = Len(queue) + 1
      /\ queue'[Len(queue) + 1] = s
      /\ \A i \in 1..Len(queue) : queue'[i] = queue[i]
      /\ QueuedOnce'
  BY AppendOnce DEF TypeOK
<1>2. \A i \in 1..Len(queue) : queue[i] # s
  BY NotQueued
<1>3. /\ obuf'.head = IF obuf.tail = NULL THEN s ELSE obuf.head
      /\ obuf'.tail = s
      /\ obuf'.count = obuf.count + 1
      /\ obuf'.next = IF obuf.tail = NULL
                        THEN [obuf.next EXCEPT ![s] = NULL]
                        ELSE [[obuf.next EXCEPT ![s] = NULL]
                                EXCEPT ![obuf.tail] = s]
  BY DEF TypeOK, stream_fifo_push, stream_new
<1>4. TypeOK'
  BY <1>1, <1>3, StreamAssumption DEF TypeOK, stream_fifo_push, stream_new
<1>5. CASE queue = <<>>
  <2>1. Len(queue) = 0 /\ obuf.tail = NULL
    BY <1>5 DEF ListIsQueue
  <2>2. obuf'.head = s /\ obuf'.tail = s /\ obuf'.next[s] = NULL
    BY <1>3, <2>1 DEF TypeOK
  <2>3. ListIsQueue' /\ ListEnds' /\ CountCoversQueue'
    BY <1>1, <1>3, <2>1, <2>2 DEF ListIsQueue, ListEnds, CountCoversQueue, TypeOK
  <2> QED BY <1>1, <1>4, <2>3
<1>6. CASE queue # <<>>
  <2>1. /\ Len(queue) \in Nat \ {0} /\ obuf.tail = queue[Len(queue)]
        /\ obuf.tail \in Stream /\ obuf.tail # NULL /\ obuf.tail # s
    BY <1>2, <1>6, StreamAssumption DEF ListIsQueue, TypeOK
  <2>2. /\ obuf'.head = obuf.head /\ obuf'.tail = s
        /\ obuf'.next[s] = NULL /\ obuf'.next[obuf.tail] = s
        /\ \A r \in Stream : r # s /\ r # obuf.tail
                               => obuf'.next[r] = obuf.next[r]
    BY <1>3, <2>1 DEF TypeOK
  <2>3. \A i \in 1..(Len(queue) - 1) :
          queue[i] \in Stream /\ queue[i] # s /\ queue[i] # obuf.tail
    BY <1>2, <2>1 DEF QueuedOnce, TypeOK
  <2>4. \A i \in 1..(Len(queue') - 1) : obuf'.next[queue'[i]] = queue'[i + 1]
    <3> TAKE i \in 1..(Len(queue') - 1)
    <3>1. CASE i = Len(queue)
      BY <1>1, <2>1, <2>2, <3>1
    <3>2. CASE i \in 1..(Len(queue) - 1)
      <4>1. obuf.next[queue[i]] = queue[i + 1]
        BY <3>2 DEF ListIsQueue
      <4>2. queue'[i] = queue[i] /\ queue'[i + 1] = queue[i + 1]
        BY <1>1, <2>1, <3>2
      <4>3. queue[i] \in Stream /\ queue[i] # s /\ queue[i] # obuf.tail
        BY <2>3, <3>2
      <4> QED BY <2>2, <4>1, <4>2, <4>3
    <3> QED BY <1>1, <2>1, <3>1, <3>2
  <2>5. queue' # <<>> /\ queue'[1] = queue[1] /\ obuf.head = queue[1]
    BY <1>1, <1>6, <2>1 DEF ListIsQueue
  <2>6. ListIsQueue'
    BY <1>1, <2>2, <2>4, <2>5 DEF ListIsQueue
  <2>7. ListEnds' /\ CountCoversQueue'
    BY <1>1, <1>3, <2>1, <2>2 DEF ListEnds, CountCoversQueue, TypeOK
  <2> QED BY <1>1, <1>4, <2>6, <2>7
<1> QED BY <1>5, <1>6

(* Two pushes of a new stream s: s ends up linked to itself.  The links    *)
(* between the other packets are those of a single push, and the loop at   *)
(* the tail is allowed while bgp_keepalive_send is running.                *)
LEMMA PushTwiceInv ==
  ASSUME FifoInv, NEW s \in Stream, s \notin Queued,
         queue' = Append(queue, s), inKeepalive' = TRUE,
         obuf' = stream_fifo_push(stream_fifo_push(stream_new(obuf, s), s), s)
  PROVE  FifoInv'
<1> USE DEF FifoInv
<1>1. /\ queue' \in Seq(Stream) /\ Len(queue') = Len(queue) + 1
      /\ queue'[Len(queue) + 1] = s
      /\ \A i \in 1..Len(queue) : queue'[i] = queue[i]
      /\ QueuedOnce'
  BY AppendOnce DEF TypeOK
<1>2. \A i \in 1..Len(queue) : queue[i] # s
  BY NotQueued
<1> DEFINE f == stream_fifo_push(stream_new(obuf, s), s)
<1>3. /\ f \in [head: Stream \cup {NULL}, tail: Stream \cup {NULL}, count: Nat,
                next: [Stream -> Stream \cup {NULL}]]
      /\ f.head = IF obuf.tail = NULL THEN s ELSE obuf.head
      /\ f.tail = s
      /\ f.count = obuf.count + 1
      /\ f.next = IF obuf.tail = NULL
                    THEN [obuf.next EXCEPT ![s] = NULL]
                    ELSE [[obuf.next EXCEPT ![s] = NULL]
                            EXCEPT ![obuf.tail] = s]
  BY DEF TypeOK, stream_fifo_push, stream_new
<1> HIDE DEF f
<1>4. obuf' = stream_fifo_push(f, s)
  BY DEF f
<1>5. /\ obuf' \in [head: Stream \cup {NULL}, tail: Stream \cup {NULL},
                    count: Nat, next: [Stream -> Stream \cup {NULL}]]
      /\ obuf'.head = f.head /\ obuf'.tail = s
      /\ obuf'.count = obuf.count + 2
      /\ obuf'.next = [f.next EXCEPT ![s] = s]
  <2>1. s # NULL
    BY StreamAssumption
  <2>2. obuf' = [head |-> f.head, tail |-> s, count |-> f.count + 1,
                 next |-> [f.next EXCEPT ![s] = s]]
    BY <1>3, <1>4, <2>1, Zenon DEF stream_fifo_push
  <2>3. /\ f.head \in Stream \cup {NULL} /\ f.count \in Nat
        /\ f.next \in [Stream -> Stream \cup {NULL}]
    BY <1>3, Zenon
  <2>4. [f.next EXCEPT ![s] = s] \in [Stream -> Stream \cup {NULL}]
    BY <2>3
  <2>5. f.count + 1 = obuf.count + 2 /\ f.count + 1 \in Nat
    BY <1>3, <2>3 DEF TypeOK
  <2> QED BY <2>2, <2>3, <2>4, <2>5
<1>6. TypeOK'
  BY <1>1, <1>5 DEF TypeOK
<1>7. ListEnds' /\ CountCoversQueue'
  BY <1>1, <1>5 DEF ListEnds, CountCoversQueue, TypeOK
<1>8. CASE queue = <<>>
  <2>1. Len(queue) = 0 /\ obuf.tail = NULL
    BY <1>8 DEF ListIsQueue
  <2>2. ListIsQueue'
    BY <1>1, <1>3, <1>5, <2>1 DEF ListIsQueue
  <2> QED BY <1>1, <1>6, <1>7, <2>2
<1>9. CASE queue # <<>>
  <2>1. /\ Len(queue) \in Nat \ {0} /\ obuf.tail = queue[Len(queue)]
        /\ obuf.tail \in Stream /\ obuf.tail # NULL /\ obuf.tail # s
    BY <1>2, <1>9, StreamAssumption DEF ListIsQueue, TypeOK
  <2>2. /\ obuf'.head = obuf.head
        /\ obuf'.next[obuf.tail] = s
        /\ \A r \in Stream : r # s /\ r # obuf.tail
                               => obuf'.next[r] = obuf.next[r]
    BY <1>3, <1>5, <2>1 DEF TypeOK
  <2>3. \A i \in 1..(Len(queue) - 1) :
          queue[i] \in Stream /\ queue[i] # s /\ queue[i] # obuf.tail
    BY <1>2, <2>1 DEF QueuedOnce, TypeOK
  <2>4. \A i \in 1..(Len(queue') - 1) : obuf'.next[queue'[i]] = queue'[i + 1]
    <3> TAKE i \in 1..(Len(queue') - 1)
    <3>1. CASE i = Len(queue)
      BY <1>1, <2>1, <2>2, <3>1
    <3>2. CASE i \in 1..(Len(queue) - 1)
      <4>1. obuf.next[queue[i]] = queue[i + 1]
        BY <3>2 DEF ListIsQueue
      <4>2. queue'[i] = queue[i] /\ queue'[i + 1] = queue[i + 1]
        BY <1>1, <2>1, <3>2
      <4>3. queue[i] \in Stream /\ queue[i] # s /\ queue[i] # obuf.tail
        BY <2>3, <3>2
      <4> QED BY <2>2, <4>1, <4>2, <4>3
    <3> QED BY <1>1, <2>1, <3>1, <3>2
  <2>5. queue' # <<>> /\ queue'[1] = queue[1] /\ obuf.head = queue[1]
    BY <1>1, <1>9, <2>1 DEF ListIsQueue
  <2>6. ListIsQueue'
    BY <1>1, <1>5, <2>2, <2>4, <2>5 DEF ListIsQueue
  <2> QED BY <1>1, <1>6, <1>7, <2>6
<1> QED BY <1>8, <1>9

(* The pop of bgp_packet_delete: the list has no loop then, so the head    *)
(* leads to the second packet, or to NULL if there is none.                *)
LEMMA PopInv ==
  ASSUME FifoInv, bgp_packet_delete
  PROVE  FifoInv'
<1> USE DEF FifoInv
<1>1. queue # <<>> /\ Len(queue) \in Nat \ {0}
  BY DEF bgp_packet_delete, ListIsQueue, TypeOK
<1>2. /\ queue' = Tail(queue) /\ queue' \in Seq(Stream)
      /\ Len(queue') = Len(queue) - 1
      /\ \A i \in 1..Len(queue') : queue'[i] = queue[i + 1]
  BY <1>1 DEF bgp_packet_delete, TypeOK
<1>3. /\ obuf.head = queue[1] /\ obuf.head \in Stream
      /\ obuf.tail = queue[Len(queue)] /\ ~inKeepalive
      /\ obuf.next[obuf.tail] = NULL
  BY <1>1 DEF bgp_packet_delete, ListIsQueue, ListEnds, TypeOK
<1>4. /\ obuf'.head = obuf.next[obuf.head]
      /\ obuf'.tail = IF obuf.next[obuf.head] = NULL THEN NULL ELSE obuf.tail
      /\ obuf'.count = obuf.count - 1
      /\ obuf'.next = obuf.next
  BY DEF bgp_packet_delete, stream_fifo_pop, TypeOK
<1>5. TypeOK' /\ CountCoversQueue'
  <2>1. obuf.count \in Nat \ {0}
    BY <1>1 DEF TypeOK, CountCoversQueue
  <2>2. obuf.next[obuf.head] \in Stream \cup {NULL}
    BY <1>3 DEF TypeOK
  <2>3. obuf' \in [head: Stream \cup {NULL}, tail: Stream \cup {NULL},
                   count: Nat, next: [Stream -> Stream \cup {NULL}]]
    <3> DEFINE d == obuf.next[obuf.head]
               t == IF d = NULL THEN NULL ELSE obuf.tail
    <3>1. obuf' = [obuf EXCEPT !.head = d, !.tail = t, !.count = obuf.count - 1]
      BY DEF bgp_packet_delete, stream_fifo_pop
    <3>2. /\ d \in Stream \cup {NULL} /\ t \in Stream \cup {NULL}
          /\ obuf.count - 1 \in Nat
      BY <2>1, <2>2 DEF TypeOK
    <3> HIDE DEF d, t
    <3> QED BY <3>1, <3>2, Zenon DEF TypeOK
  <2> QED
    BY <1>1, <1>2, <1>4, <2>1, <2>3
    DEF TypeOK, CountCoversQueue, bgp_packet_delete
<1>6. QueuedOnce'
  BY <1>1, <1>2 DEF QueuedOnce
<1>7. CASE Len(queue) = 1
  <2>1. obuf'.head = NULL /\ obuf'.tail = NULL /\ Len(queue') = 0
    BY <1>2, <1>3, <1>4, <1>7
  <2>2. ListIsQueue' /\ ListEnds'
    BY <1>2, <2>1 DEF ListIsQueue, ListEnds
  <2> QED BY <1>5, <1>6, <2>2
<1>8. CASE Len(queue) > 1
  <2>1. obuf.next[obuf.head] = queue[2] /\ queue[2] \in Stream
    BY <1>1, <1>3, <1>8 DEF ListIsQueue, TypeOK
  <2>2. obuf'.head = queue[2] /\ obuf'.tail = queue[Len(queue)]
    BY <1>3, <1>4, <2>1, StreamAssumption
  <2>3. \A i \in 1..(Len(queue') - 1) : obuf'.next[queue'[i]] = queue'[i + 1]
    <3> TAKE i \in 1..(Len(queue') - 1)
    <3>1. i + 1 \in 1..(Len(queue) - 1) /\ i \in 1..Len(queue') /\ i + 1 \in 1..Len(queue')
      BY <1>1, <1>2
    <3>2. obuf.next[queue[i + 1]] = queue[(i + 1) + 1]
      BY <3>1 DEF ListIsQueue
    <3> QED BY <1>2, <1>4, <3>1, <3>2
  <2>4. queue'[1] = queue[2] /\ queue'[Len(queue')] = queue[Len(queue)]
    BY <1>1, <1>2, <1>8
  <2>5. queue' # <<>>
    <3>1. Len(queue') # 0
      BY <1>1, <1>2, <1>8
    <3> QED BY <3>1
  <2>6. ListIsQueue'
    BY <2>2, <2>3, <2>4, <2>5 DEF ListIsQueue
  <2>7. ListEnds'
    BY <1>3, <1>4, <2>2 DEF ListEnds
  <2> QED BY <1>5, <1>6, <2>6, <2>7
<1>9. Len(queue) = 1 \/ Len(queue) > 1
  <2>1. \A n \in Nat \ {0} : n = 1 \/ n > 1
    OBVIOUS
  <2> QED BY <1>1, <2>1, Zenon
<1> HIDE DEF FifoInv
<1> QED BY <1>7, <1>8, <1>9

(* bgp_stop and bgp_notify_send_with_data empty the list. *)
LEMMA CleanInv ==
  ASSUME FifoInv, bgp_stop \/ \E s \in Stream : bgp_notify_send(s)
  PROVE  FifoInv'
<1> USE DEF FifoInv
<1>1. CASE bgp_stop
  BY <1>1, StreamAssumption
  DEF bgp_stop, stream_fifo_clean, EmptyFifo, TypeOK, ListIsQueue, ListEnds,
      QueuedOnce, CountCoversQueue
<1>2. ASSUME NEW s \in Stream, bgp_notify_send(s)
      PROVE  FifoInv'
  <2>1. /\ obuf'.head = s /\ obuf'.tail = s /\ obuf'.count = 1
        /\ obuf'.next = [obuf.next EXCEPT ![s] = NULL]
        /\ obuf' \in [head: Stream \cup {NULL}, tail: Stream \cup {NULL},
                      count: Nat, next: [Stream -> Stream \cup {NULL}]]
    BY <1>2 DEF bgp_notify_send, stream_fifo_push, stream_fifo_clean, stream_new,
                EmptyFifo, TypeOK
  <2>2. queue' = <<s>> /\ inKeepalive' = inKeepalive
    BY <1>2 DEF bgp_notify_send
  <2> QED
    BY <2>1, <2>2 DEF TypeOK, ListIsQueue, ListEnds, QueuedOnce, CountCoversQueue
<1> QED BY <1>1, <1>2

(* FifoInv holds of every reachable state of the output queue. *)
THEOREM FifoInvariant == Spec => []FifoInv
<1>1. Init => FifoInv
  <2> SUFFICES ASSUME Init PROVE FifoInv
    OBVIOUS
  <2>1. /\ obuf = [head |-> NULL, tail |-> NULL, count |-> 0,
                   next |-> [s \in Stream |-> NULL]]
        /\ inKeepalive = FALSE /\ queue = <<>> /\ Len(queue) = 0
    BY DEF Init, EmptyFifo
  <2>2. [s \in Stream |-> NULL] \in [Stream -> Stream \cup {NULL}]
    OBVIOUS
  <2>3. TypeOK
    <3>1. obuf \in [head: Stream \cup {NULL}, tail: Stream \cup {NULL}, count: Nat,
                    next: [Stream -> Stream \cup {NULL}]]
      BY <2>1, <2>2
    <3>2. queue \in Seq(Stream)
      BY <2>1
    <3> QED BY <2>1, <3>1, <3>2, Zenon DEF TypeOK
  <2>4. ListIsQueue /\ ListEnds /\ QueuedOnce /\ CountCoversQueue
    BY <2>1 DEF ListIsQueue, ListEnds, QueuedOnce, CountCoversQueue
  <2> QED BY <2>3, <2>4 DEF FifoInv
<1>2. FifoInv /\ [Next]_vars => FifoInv'
  <2> SUFFICES ASSUME FifoInv, [Next]_vars PROVE FifoInv'
    OBVIOUS
  <2>1. ASSUME NEW s \in Stream, packet_send(s) PROVE FifoInv'
    BY <2>1, PushInv DEF packet_send, FifoInv, TypeOK
  <2>2. ASSUME NEW s \in Stream, bgp_trust_send(s) PROVE FifoInv'
    BY <2>2, PushTwiceInv DEF bgp_trust_send
  <2>3. ASSUME NEW s \in Stream, bgp_keepalive_send(s) PROVE FifoInv'
    BY <2>3, PushInv, Zenon DEF bgp_keepalive_send
  <2>4. ASSUME NEW s \in Stream, bgp_notify_send(s) PROVE FifoInv'
    BY <2>4, CleanInv
  <2>5. CASE bgp_packet_delete
    BY <2>5, PopInv
  <2>6. CASE bgp_stop
    BY <2>6, CleanInv
  <2>7. CASE UNCHANGED vars
    BY <2>7 DEF vars, FifoInv, TypeOK, ListIsQueue, ListEnds, QueuedOnce,
                CountCoversQueue
  <2> QED BY <2>1, <2>2, <2>3, <2>4, <2>5, <2>6, <2>7 DEF Next
<1> QED BY <1>1, <1>2, PTL DEF Spec

(* The linked list of obuf always spells the packets that should be sent,  *)
(* each once and in order, although the extension's senders add them twice. *)
THEOREM ListSpellsQueue == Spec => []ListIsQueue
<1>1. FifoInv => ListIsQueue
  BY DEF FifoInv
<1> QED BY <1>1, FifoInvariant, PTL

(* Whenever bgp_write or stream_fifo_clean walk the list, it ends. *)
THEOREM ListAlwaysEnds == Spec => []ListEnds
<1>1. FifoInv => ListEnds
  BY DEF FifoInv
<1> QED BY <1>1, FifoInvariant, PTL

(* The count of obuf, from which each pop takes one, never falls below the  *)
(* number of packets left, and so never wraps around.                      *)
THEOREM CountNeverWraps == Spec => []CountCoversQueue
<1>1. FifoInv => CountCoversQueue
  BY DEF FifoInv
<1> QED BY <1>1, FifoInvariant, PTL
=============================================================================
