---------------------------- MODULE OspfAdjacency ----------------------------
(***************************************************************************)
(* How two ospfd routers become adjacent over a point-to-point link and    *)
(* keep their databases equal: the neighbour state machine (ospf_nsm.c)    *)
(* and the five packets (ospf_packet.c).  The link is a queue in each      *)
(* direction that may lose packets; a router may restart.                  *)
(*                                                                         *)
(* An action is one thread of the thread master: ospf_read, an event or a  *)
(* timer.                                                                  *)
(***************************************************************************)
EXTENDS OspfLsa

CONSTANTS
  Foreign,      \* the third router's LSA in the databases of 1 and 2 at the start
  Restartable,  \* the routers that may restart
  MaxFaults,    \* lost, repeated and too early packets, dead neighbours, restarts, floods
  MaxForeign    \* sequence number up to which the third router's LSA is renewed

ASSUME AdjacencyAssumption ==
  /\ Foreign \in [Router -> [seq : Nat, sum : Nat]]
  /\ Restartable \subseteq Router /\ MaxFaults \in Nat /\ MaxForeign \in Nat

VARIABLES
  router,       \* the state of each router, see OspfLsa
  link,         \* link[r]: the packets on their way to r
  faults        \* faults so far

vars == <<router, link, faults>>

Flags == {"I", "M", "MS"}
NoNeighbour ==
  [state |-> NSM_Deleted, seqnum |-> 0, flags |-> Flags, sum |-> Nothing,
   req |-> Nothing, lastReq |-> 0, rxmt |-> Nothing, lastSend |-> NULL, lastRecv |-> NULL]
Started(r, foreign) ==
  NoNeighbour @@ [db |-> [Nothing EXCEPT ![r] = [seq |-> 1, sum |-> 10], ![3] = foreign],
                  ev |-> <<>>, served |-> FALSE,
                  upds |-> <<>>, acks |-> {}, direct |-> {}, out |-> <<>>]

Init ==
  /\ router = [r \in Router |-> Started(r, Foreign[r])]
  /\ link = [r \in Router |-> <<>>]
  /\ faults = 0

-----------------------------------------------------------------------------
(* Database Description packets out *)

\* The packet is not kept for retransmission.
MutDbDescSend(x) ==
  Send(x, [type |-> "DD", flags |-> x.flags, seqnum |-> x.seqnum, headers |-> Nothing])

(* The headers that still are in the database, in order, until the packet  *)
(* is full; they and the outdated ones before leave the summary list.      *)
ospf_db_desc_send(x) ==
  LET live == {k \in Listed(x.sum) : x.sum[k] = x.db[k]}
      next == {k \in live : Cardinality({j \in live : j < k}) = MaxHeaders}
      gone == {k \in Listed(x.sum) : \A n \in next : k < n}
      sum == [k \in Lsa |-> IF k \in gone THEN NoLsa ELSE x.sum[k]]
      flags == IF sum = Nothing /\ x.state >= NSM_Exchange THEN x.flags \ {"M"} ELSE x.flags
      dd == [type |-> "DD", flags |-> flags, seqnum |-> x.seqnum,
             headers |-> [k \in Lsa |-> IF k \in gone \cap live THEN x.sum[k] ELSE NoLsa]]
  IN Send([x EXCEPT !.sum = sum, !.flags = flags, !.lastSend = dd], dd)

ospf_db_desc_resend(x) == Send(x, x.lastSend)

ospf_ls_req_send(x) ==
  Send([x EXCEPT !.lastReq = Max(Listed(x.req))], [type |-> "LSReq", keys |-> Listed(x.req)])

-----------------------------------------------------------------------------
(* The neighbour state machine *)

\* Without a look at the request list.
MutExchangeDone(x) == NSM_Full

nsm_exchange_done(x) == IF x.req = Nothing THEN NSM_Full ELSE NSM_Loading

(* The table NSM, without the states Attempt and TwoWay and the events of  *)
(* other kinds of networks; exchange done with requests left sends them.   *)
NextState(x, event) ==
  LET s == x.state IN
  CASE event = "InactivityTimer" -> NSM_Deleted
    [] event = "PacketReceived" /\ s = NSM_Down -> NSM_Init
    [] event = "TwoWayReceived" /\ s = NSM_Init -> NSM_ExStart
    [] event = "NegotiationDone" /\ s = NSM_ExStart -> NSM_Exchange
    [] event = "ExchangeDone" /\ s = NSM_Exchange -> nsm_exchange_done(x)
    [] event = "LoadingDone" /\ s = NSM_Loading -> NSM_Full
    [] event \in {"BadLSReq", "SeqNumberMismatch"} /\ s >= NSM_Exchange -> NSM_ExStart
    [] event = "OneWayReceived" /\ s >= NSM_TwoWay -> NSM_Init
    [] OTHER -> s

(* nsm_negotiation_done, and the request that nsm_exchange_done sends. *)
NsmFunction(x, event) ==
  CASE event = "NegotiationDone" /\ x.state = NSM_ExStart -> [x EXCEPT !.sum = x.db]
    [] event = "ExchangeDone" /\ x.state = NSM_Exchange /\ x.req # Nothing ->
         ospf_ls_req_send(x)
    [] OTHER -> x

nsm_clear_adj(x) ==
  [x EXCEPT !.sum = Nothing, !.req = Nothing, !.lastReq = 0, !.rxmt = Nothing]

(* dd_seqnum starts from the clock, which has moved on after a fault. *)
quagga_time == 10 * (1 + faults)

nsm_change_state(x, r, state) ==
  LET moved == [x EXCEPT !.state = state]
      told == IF (x.state = NSM_Full) # (state = NSM_Full)
              THEN ospf_router_lsa_refresh(moved, r) ELSE moved
      cleared == IF x.state > NSM_ExStart /\ state <= NSM_ExStart
                 THEN nsm_clear_adj(told) ELSE told
      seqnum == IF x.seqnum = 0 THEN quagga_time ELSE x.seqnum + 1
  IN IF state = NSM_ExStart
     THEN ospf_db_desc_send([cleared EXCEPT !.seqnum = seqnum, !.flags = Flags])
     ELSE cleared

(* A request that is scheduled as an event is cancelled like a timer. *)
nsm_timer_set(x) ==
  IF x.state <= NSM_ExStart
  THEN [x EXCEPT !.ev = SelectSeq(@, LAMBDA e : e # "LsReq")] ELSE x

(* A deleted neighbour takes its lists and its scheduled events with it;    *)
(* those of the interface stay.                                            *)
InterfaceEvent == {"LsUpdSend", "LsAckSend"}

\* The events of a deleted neighbour stay.
MutNsmEvent(x, r, event) ==
  LET next == NextState(x, event)
      y == NsmFunction(x, event)
      z == IF next # x.state THEN nsm_change_state(y, r, next) ELSE y
  IN IF next = NSM_Deleted THEN NoNeighbour @@ z ELSE nsm_timer_set(z)

ospf_nsm_event(x, r, event) ==
  LET next == NextState(x, event)
      y == NsmFunction(x, event)
      z == IF next # x.state THEN nsm_change_state(y, r, next) ELSE y
  IN IF next = NSM_Deleted
     THEN NoNeighbour @@ [z EXCEPT !.ev = SelectSeq(@, LAMBDA e : e \in InterfaceEvent)]
     ELSE nsm_timer_set(z)

-----------------------------------------------------------------------------
(* Packets in *)

ospf_hello(x, hello) ==
  Schedule(x, IF hello.seen THEN "TwoWayReceived" ELSE "OneWayReceived")

(* The LSAs to request, those that need not be described any more, and the *)
(* answer.                                                                 *)
ospf_db_desc_proc(x, dd) ==
  LET recent(k) == ospf_lsa_more_recent(x.db[k], dd.headers[k])
      y == [x EXCEPT
              !.req = [k \in Lsa |-> IF k \in Listed(dd.headers) /\ recent(k) = -1
                                     THEN dd.headers[k] ELSE @[k]],
              !.sum = [k \in Lsa |-> IF /\ k \in Listed(dd.headers) /\ recent(k) \in {-1, 0}
                                        /\ @[k] = x.db[k]
                                     THEN NoLsa ELSE @[k]],
              !.lastRecv = [flags |-> dd.flags, seqnum |-> dd.seqnum]]
      master == [y EXCEPT !.seqnum = @ + 1]
      slave == ospf_db_desc_send([y EXCEPT !.seqnum = dd.seqnum])
      Done(z) == "M" \notin dd.flags /\ "M" \notin z.flags
  IN IF "MS" \in x.flags
     THEN IF Done(master) THEN Schedule(master, "ExchangeDone")
                          ELSE ospf_db_desc_send(master)
     ELSE IF Done(slave) THEN Schedule(slave, "ExchangeDone") ELSE slave

ospf_db_desc_is_dup(x, dd) == x.lastRecv = [flags |-> dd.flags, seqnum |-> dd.seqnum]

(* The cases Exchange, and Loading and Full, of ospf_db_desc.  The slave's  *)
(* last packet is repeated as long as it is kept (RouterDeadInterval).      *)
DdInExchange(x, dd) ==
  LET master == "MS" \in x.flags
      mismatch == \/ ("MS" \in dd.flags) # ("MS" \in x.lastRecv.flags)
                  \/ "I" \in dd.flags
                  \/ dd.seqnum # (IF master THEN x.seqnum ELSE x.seqnum + 1)
  IN IF ospf_db_desc_is_dup(x, dd)
     THEN IF master THEN x ELSE ospf_db_desc_resend(x)
     ELSE IF mismatch THEN Schedule(x, "SeqNumberMismatch") ELSE ospf_db_desc_proc(x, dd)

\* A slave that is done does not repeat its last packet.
MutWhenDone(x, dd) == IF ~ospf_db_desc_is_dup(x, dd) THEN Schedule(x, "SeqNumberMismatch") ELSE x

DdWhenDone(x, dd) ==
  IF ~ospf_db_desc_is_dup(x, dd) THEN Schedule(x, "SeqNumberMismatch")
  ELSE IF "MS" \in x.flags THEN x ELSE ospf_db_desc_resend(x)

(* The case ExStart: the router with the larger ID becomes master. *)
DdInExStart(x, r, dd) ==
  LET initial == dd.flags = Flags /\ Listed(dd.headers) = {}
      slave == initial /\ Other(r) > r
      master == /\ dd.flags \cap {"I", "MS"} = {} /\ dd.seqnum = x.seqnum
                /\ Other(r) < r /\ ~initial
      y == IF slave THEN [x EXCEPT !.seqnum = dd.seqnum, !.flags = @ \ {"I", "MS"}]
                    ELSE [x EXCEPT !.flags = @ \ {"I"}]
  IN IF slave \/ master
     THEN ospf_db_desc_proc(ospf_nsm_event(y, r, "NegotiationDone"), dd) ELSE x

ospf_db_desc(x, r, dd) ==
  CASE x.state = NSM_Init ->
         DdInExStart(ospf_nsm_event(x, r, "TwoWayReceived"), r, dd)
    [] x.state = NSM_ExStart -> DdInExStart(x, r, dd)
    [] x.state = NSM_Exchange -> DdInExchange(x, dd)
    [] x.state \in {NSM_Loading, NSM_Full} -> DdWhenDone(x, dd)
    [] OTHER -> x

Instances(keys, db) ==
  [i \in 1..Cardinality(keys) |->
     LET k == CHOOSE n \in keys : Cardinality({j \in keys : j < n}) = i - 1 IN <<k, db[k]>>]

ospf_ls_req(x, keys) ==
  IF x.state < NSM_Exchange THEN x
  ELSE IF \E k \in keys : x.db[k] = NoLsa THEN Schedule(x, "BadLSReq")
  ELSE ospf_ls_upd_send(x, Instances(keys, x.db))

\* Any other instance counts.
MutIsNews(current, lsa) == ospf_lsa_more_recent(current, lsa) # 0

(* The received LSA is more recent than the database copy. *)
IsNews(current, lsa) == ospf_lsa_more_recent(current, lsa) < 0

(* One LSA of a Link State Update; recent: less than MinLSArrival after    *)
(* the copy in the database.  BadLSReq ends the packet: y.bad.             *)
UpdateLsa(y, r, k, lsa, recent) ==
  LET x == y.x
      current == x.db[k]
      ret == ospf_lsa_more_recent(current, lsa)
      early == /\ recent /\ current # NoLsa
               /\ ~(k = r /\ current.seq = 1)
      Continue(z) == [bad |-> FALSE, x |-> z]
  IN IF y.bad THEN y
     ELSE IF IsNews(current, lsa)
     THEN Continue(IF early THEN x ELSE ospf_flood(x, r, k, lsa, TRUE))
     ELSE IF x.req[k] # NoLsa THEN [bad |-> TRUE, x |-> Schedule(x, "BadLSReq")]
     ELSE IF ret = 0
     THEN Continue(IF x.rxmt[k] # NoLsa THEN [x EXCEPT !.rxmt[k] = NoLsa]
                                        ELSE ospf_ls_ack_send(x, <<k, lsa>>))
     ELSE Continue(IF recent THEN x ELSE ospf_ls_upd_send(x, <<<<k, current>>>>))

ospf_ls_upd(x, r, lsas, recent) ==
  IF x.state < NSM_Exchange THEN x
  ELSE FoldLeft(LAMBDA y, l : UpdateLsa(y, r, l[1], l[2], recent),
                [bad |-> FALSE, x |-> x], lsas).x

\* An acknowledgement of an older instance counts.
MutLsAck(x, acks) ==
  IF x.state < NSM_Exchange THEN x
  ELSE [x EXCEPT !.rxmt = [k \in Lsa |-> IF \E a \in acks : a[1] = k THEN NoLsa ELSE @[k]]]

ospf_ls_ack(x, acks) ==
  IF x.state < NSM_Exchange THEN x
  ELSE [x EXCEPT !.rxmt = [k \in Lsa |->
          IF \E a \in acks : a[1] = k /\ a[2].seq = @[k].seq THEN NoLsa ELSE @[k]]]

(* A Hello makes the neighbour known (ospf_nbr_get); any other packet of   *)
(* an unknown neighbour is dropped.                                        *)
Received(x, r, p, recent) ==
  LET known == IF x.state = NSM_Deleted THEN [x EXCEPT !.state = NSM_Down] ELSE x
      y == Schedule(known, "PacketReceived")
  IN CASE p.type = "Hello" -> ospf_hello(y, p)
       [] p.type # "Hello" /\ x.state = NSM_Deleted -> x
       [] p.type = "DD" -> ospf_db_desc(y, r, p)
       [] p.type = "LSReq" -> ospf_ls_req(y, p.keys)
       [] p.type = "LSUpd" -> ospf_ls_upd(y, r, p.lsas, recent)
       [] p.type = "LSAck" -> ospf_ls_ack(y, p.acks)

-----------------------------------------------------------------------------
(* Actions *)

(* The packets of a step enter the link towards the other router. *)
Becomes(r, x) ==
  /\ router' = [router EXCEPT ![r] = [x EXCEPT !.out = <<>>]]
  /\ link' = [link EXCEPT ![Other(r)] = @ \o x.out]

Quiet == \A r \in Router : link[r] = <<>> /\ router[r].ev = <<>>

Fault ==
  /\ faults < MaxFaults
  /\ faults' = faults + 1

(* A turn of thread_fetch makes ready the first event, a timer that has    *)
(* popped and the socket, in this order: at most one packet is read from   *)
(* one event to the next.                                                  *)
Ready(r) == ~router[r].served

(* ospf_read.  An LSA within MinLSArrival of the last counts as a fault. *)
ospf_read(r) ==
  /\ Ready(r) /\ link[r] # <<>>
  /\ \E recent \in BOOLEAN :
       LET p == Head(link[r])
           x == Received(router[r], r, p, recent)
       IN /\ IF recent THEN p.type = "LSUpd" /\ Fault ELSE UNCHANGED faults
          /\ router' = [router EXCEPT ![r] = [x EXCEPT !.out = <<>>, !.served = x.ev # <<>>]]
          /\ link' = [link EXCEPT ![r] = Tail(@), ![Other(r)] = @ \o x.out]

(* ospf_ls_upd_send_queue_event, ospf_ls_ack_send_event, ospf_ls_req_timer *)
(* as an event, and the events of the state machine.                       *)
Handled(x, r, event) ==
  CASE event = "LsUpdSend" -> Send([x EXCEPT !.upds = <<>>], [type |-> "LSUpd", lsas |-> x.upds])
    [] event = "LsAckSend" -> Send([x EXCEPT !.direct = {}], [type |-> "LSAck", acks |-> x.direct])
    [] event = "LsReq" -> IF Listed(x.req) = {} THEN x ELSE ospf_ls_req_send(x)
    [] OTHER -> ospf_nsm_event(x, r, event)

Event(r) ==
  /\ router[r].ev # <<>>
  /\ Becomes(r, Handled([router[r] EXCEPT !.ev = Tail(@), !.served = FALSE],
                        r, Head(router[r].ev)))
  /\ UNCHANGED faults

(* Hellos that the neighbour would not react to, and Hellos that overtake  *)
(* another one, are left out.                                              *)
Seen(r) == router[r].state >= NSM_Init
HelloDue(r) ==
  LET o == Other(r) IN
  /\ Ready(r) /\ router[o].ev = <<>>
  /\ \A i \in DOMAIN link[o] : link[o][i].type # "Hello"
  /\ \/ router[o].state < NSM_Init
     \/ Seen(r) /\ router[o].state = NSM_Init
     \/ ~Seen(r) /\ router[o].state > NSM_Init

ospf_hello_timer(r) ==
  /\ HelloDue(r)
  /\ Becomes(r, Send(router[r], [type |-> "Hello", seen |-> Seen(r)]))
  /\ UNCHANGED faults

(* When RxmtInterval has passed nothing is on its way any more; a timer    *)
(* that pops too early has the effect of Duplicate.  t_db_desc is set in   *)
(* ExStart and kept in Exchange by the master (nsm_timer_set).             *)
DbDescDue(x) == x.state = NSM_ExStart \/ (x.state = NSM_Exchange /\ "MS" \in x.flags)
ospf_db_desc_timer(r) ==
  /\ Quiet /\ DbDescDue(router[r])
  /\ Becomes(r, ospf_db_desc_resend(router[r]))
  /\ UNCHANGED faults

LsReqDue(x) == x.state = NSM_Loading /\ x.req # Nothing
ospf_ls_req_timer(r) ==
  /\ Quiet /\ LsReqDue(router[r])
  /\ Becomes(r, ospf_ls_req_send(router[r]))
  /\ UNCHANGED faults

LsUpdDue(x) == x.state >= NSM_Exchange /\ x.rxmt # Nothing
ospf_ls_upd_timer(r) ==
  LET x == router[r] IN
  /\ Quiet /\ LsUpdDue(x)
  /\ Becomes(r, ospf_ls_upd_send(x, Instances(Listed(x.rxmt), x.rxmt)))
  /\ UNCHANGED faults

ospf_ls_ack_timer(r) ==
  LET x == router[r] IN
  /\ Ready(r) /\ x.acks # {}
  /\ Becomes(r, Send([x EXCEPT !.acks = {}], [type |-> "LSAck", acks |-> x.acks]))
  /\ UNCHANGED faults

(* A packet arrives again, after those that are on their way. *)
Duplicate(r) ==
  /\ Fault
  /\ link[r] # <<>>
  /\ link' = [link EXCEPT ![r] = Append(@, Head(@))]
  /\ UNCHANGED router

ospf_inactivity_timer(r) ==
  /\ Fault
  /\ Quiet /\ router[r].state >= NSM_Init
  /\ router' = [router EXCEPT ![r] = Schedule(@, "InactivityTimer")]
  /\ UNCHANGED link

(* The third router floods a new instance of its LSA through router 2. *)
ForeignUpdate ==
  LET x == router[2]
      new == [seq |-> x.db[3].seq + 1, sum |-> 10]
  IN /\ Ready(2) /\ x.db[3] # NoLsa /\ new.seq <= MaxForeign
     /\ Becomes(2, ospf_flood(x, 2, 3, new, FALSE))
     /\ Fault

Lose(r) ==
  /\ Fault
  /\ link[r] # <<>>
  /\ link' = [link EXCEPT ![r] = Tail(@)]
  /\ UNCHANGED router

Restart(r) ==
  /\ Fault
  /\ r \in Restartable
  /\ router' = [router EXCEPT ![r] = Started(r, NoLsa)]
  /\ UNCHANGED link

Timers(r) ==
  \/ ospf_hello_timer(r) \/ ospf_db_desc_timer(r) \/ ospf_ls_req_timer(r)
  \/ ospf_ls_upd_timer(r) \/ ospf_ls_ack_timer(r)

Next ==
  \/ \E r \in Router : ospf_read(r) \/ Event(r) \/ Timers(r)
  \/ \E r \in Router : Lose(r) \/ Duplicate(r) \/ ospf_inactivity_timer(r) \/ Restart(r)
  \/ ForeignUpdate

Spec == Init /\ [][Next]_vars

(* Threads that are ready are run: weak fairness.  Hellos are sent every    *)
(* HelloInterval, and a retransmission timer pops every RxmtInterval,       *)
(* whether or not packets were on their way in between: strong fairness.    *)
(* The guards of the actions stand in the place of ENABLED, and any step    *)
(* that no periodic timer makes counts as one of a thread: there are only   *)
(* finitely many faults.                                                    *)
ThreadDue(r) == router[r].ev # <<>> \/ link[r] # <<>> \/ router[r].acks # {}
Rxmt(r) == ospf_db_desc_timer(r) \/ ospf_ls_req_timer(r) \/ ospf_ls_upd_timer(r)
RxmtDue(r) ==
  LET x == router[r] IN Quiet /\ (DbDescDue(x) \/ LsReqDue(x) \/ LsUpdDue(x))

Fairness ==
  /\ \/ []<>(\A r \in Router : ~ThreadDue(r))
     \/ []<><<\A r \in Router : ~ospf_hello_timer(r) /\ ~Rxmt(r)>>_vars
  /\ <>[](\A r \in Router : ~HelloDue(r)) \/ []<><<\E r \in Router : ospf_hello_timer(r)>>_vars
  /\ <>[]~RxmtDue(1) \/ []<><<Rxmt(1)>>_vars
  /\ <>[]~RxmtDue(2) \/ []<><<Rxmt(2)>>_vars

FairSpec == Spec /\ Fairness

-----------------------------------------------------------------------------
(* Properties *)

Instance == [seq : Nat, sum : {0, 10, 20, 30}]
NsmEvents == {"PacketReceived", "TwoWayReceived", "OneWayReceived", "ExchangeDone", "LoadingDone",
              "BadLSReq", "SeqNumberMismatch", "InactivityTimer", "LsReq"}

(* The fields of a neighbour and its interface hold what the C types allow; *)
(* a deleted neighbour has no events left on the event list.                *)
TypeOK ==
  /\ faults \in 0..MaxFaults
  /\ \A r \in Router : LET x == router[r] IN
       /\ x.state \in NsmState /\ x.seqnum \in Nat /\ x.flags \subseteq Flags
       /\ {x.sum, x.req, x.rxmt, x.db} \subseteq [Lsa -> Instance]
       /\ x.lastReq \in Lsa \cup {0} /\ x.served \in BOOLEAN /\ x.out = <<>>
       /\ Range(x.ev) \subseteq InterfaceEvent \cup (IF x.state = NSM_Deleted THEN {} ELSE NsmEvents)
       /\ (x.upds = <<>>) = ("LsUpdSend" \notin Range(x.ev))
       /\ (x.direct = {}) = ("LsAckSend" \notin Range(x.ev))

(* ospf_db_desc_timer asserts nbr->last_send, and ospf_db_desc compares with *)
(* nbr->last_recv from Exchange on: both are set whenever they are used.     *)
AssertsHold ==
  \A r \in Router : LET x == router[r] IN
    /\ x.state >= NSM_ExStart => x.lastSend # NULL
    /\ x.state >= NSM_Exchange => x.lastRecv # NULL

(* A neighbour becomes Full (nsm_exchange_done, LoadingDone) only when there *)
(* is nothing left to describe to it and nothing to request from it.         *)
FullHoldsNothingBack ==
  \A r \in Router : router[r].state = NSM_Full => router[r].sum = Nothing /\ router[r].req = Nothing

(* The router-LSA in a router's own database lists the link if and only if   *)
(* the neighbour is Full, although an instance of before a restart, which    *)
(* says otherwise, may come back from the neighbour.                         *)
OwnLsaTruthful ==
  \A r \in Router : (router[r].db[r].sum = 20) = (router[r].state = NSM_Full)

(* When both neighbours are Full their databases agree, except for LSAs that *)
(* the router with the newer instance keeps on its retransmission list.      *)
NothingForgotten ==
  (\A r \in Router : router[r].state = NSM_Full) =>
    \A k \in Lsa : \/ router[1].db[k] = router[2].db[k]
                   \/ \E r \in Router : /\ router[r].rxmt[k] = router[r].db[k]
                                         /\ ospf_lsa_more_recent(router[r].db[k], router[Other(r)].db[k]) > 0

(* An instance in the database is only ever replaced by a more recent one,   *)
(* whatever old copies arrive, until the router restarts.                    *)
DbNeverRegresses ==
  [][\A r \in Router : \/ router'[r] = Started(r, NoLsa)
                       \/ \A k \in Lsa : LET old == router[r].db[k] IN
                            router'[r].db[k] = old \/ ospf_lsa_more_recent(old, router'[r].db[k]) < 0]_vars

Synchronised ==
  \A r \in Router : /\ router[r].state = NSM_Full /\ router[r].rxmt = Nothing
                    /\ router[r].db = router[Other(r)].db

(* After the last fault the routers become Full with each other and end with *)
(* equal databases and nothing left to retransmit.                           *)
AdjacencyForms == <>[]Synchronised
=============================================================================
