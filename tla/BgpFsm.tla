------------------------------- MODULE BgpFsm -------------------------------
(***************************************************************************)
(* Two bgpd processes that are configured as each other's neighbour bring  *)
(* up, lose and re-establish their session (bgpd/bgp_fsm.c and the parts   *)
(* of bgp_packet.c and bgp_network.c that feed it).                        *)
(*                                                                         *)
(* Each process has the configured peer structure, the accept peers that   *)
(* bgp_accept makes for incoming connections, the pending bgp_event        *)
(* threads and the threads that the scheduler has made ready for the       *)
(* current turn.  A turn runs one event, then at most one timer, then the  *)
(* ready reads and then the ready writes: module ThreadMaster shows that   *)
(* this is what lib/thread.c does.                                         *)
(*                                                                         *)
(* A handler is a function from the world it sees to the world it leaves:  *)
(*   p    the configured peer        acc  the accept peers, newest first   *)
(*   ev   the pending events         rdy  the ready threads of this turn   *)
(*   net  the connections            ka   a KEEPALIVE was queued           *)
(***************************************************************************)
EXTENDS Naturals, Sequences, FiniteSets, SequencesExt

CONSTANTS
  Router,      \* the two processes
  LowId,       \* the one with the smaller BGP Identifier
  ConnOf,      \* ConnOf[r]: connections set up by r that exist at a time (a bound)
  Passive,     \* the routers configured with `neighbor passive'
  MayDrop,     \* the routers that may drop their neighbour (toDrop)
  Tables,      \* address families whose table bgp_clear_route_all visits
  MaxFaults,   \* bound: lost connections, late messages, `clear ip bgp's
  MaxEvents    \* bound: reads wait while so many events are pending

ASSUME FsmAssumption ==
  /\ Cardinality(Router) = 2
  /\ LowId \in Router
  /\ Passive \subseteq Router
  /\ MayDrop \subseteq Router
  /\ \A r \in Router : ConnOf[r] \subseteq Nat \ {0}
  /\ Tables \in Nat \ {0} /\ MaxFaults \in Nat /\ MaxEvents \in Nat \ {0}

Conn == UNION {ConnOf[r] : r \in Router}

VARIABLES peer, accept, event, ready, net, faults

vars == <<peer, accept, event, ready, net, faults>>

Other(r) == CHOOSE s \in Router : s # r

Status == {"Idle", "Connect", "Active", "OpenSent", "OpenConfirm",
           "Established", "Clearing"}
Timers == {"t_start", "t_connect", "t_holdtime", "t_keepalive", "t_routeadv"}
Msg == {"OPEN", "KEEPALIVE", "UPDATE", "NOTIFY"}

NoFd == 0                     \* peer->fd = -1; also names the configured peer

(* What F makes of w: handlers that run one after the other. *)
Then(w, F(_)) == CHOOSE left \in {F(v) : v \in {w}} : TRUE

Unconnected ==
  [st |-> "free", end |-> [r \in Router |-> "none"], q |-> [r \in Router |-> <<>>]]

(* peer_create: the first start timer is set.  toDrop is NULL. *)
Init ==
  /\ peer = [r \in Router |->
               [status |-> "Idle", fd |-> NoFd, timers |-> {"t_start"},
                t_read |-> FALSE, t_write |-> FALSE, obuf |-> <<>>,
                adv |-> "none", clearing |-> FALSE, dropped |-> FALSE]]
  /\ accept = [r \in Router |-> <<>>]
  /\ event = [r \in Router |-> <<>>]
  /\ ready = [r \in Router |-> {}]
  /\ net = [c \in Conn |-> Unconnected]
  /\ faults = 0

-----------------------------------------------------------------------------
(* TCP, as far as bgpd sees it. *)

(* close(): the other side reads what was sent, and then end of file. *)
Close(w, r, c) ==
  LET n == [w.net EXCEPT ![c].end[r] = "closed", ![c].q[r] = <<>>]
  IN  [w EXCEPT !.net = IF n[c].end[Other(r)] \in {"none", "closed"}
                        THEN [n EXCEPT ![c] = Unconnected] ELSE n]

(* write(): lost when the other side has closed or the connection is down. *)
Write(w, r, c, msgs) ==
  IF w.net[c].st = "up" /\ w.net[c].end[Other(r)] \in {"queued", "open"}
  THEN [w EXCEPT !.net[c].q[Other(r)] = @ \o msgs] ELSE w

(* There is something to read: data, end of file, or an error. *)
Readable(r, c) ==
  \/ net[c].st = "failed"
  \/ net[c].q[r] # <<>>
  \/ net[c].end[Other(r)] = "closed"

-----------------------------------------------------------------------------
(* Macros of bgp_fsm.h. *)

BGP_EVENT_ADD(w, who, e) == [w EXCEPT !.ev = Append(@, [who |-> who, e |-> e])]

BGP_EVENT_FLUSH(w, who) ==
  [w EXCEPT !.ev = SelectSeq(@, LAMBDA x : x.who # who)]

BGP_TIMER_OFF(w, ts) ==
  [w EXCEPT !.p.timers = @ \ ts, !.rdy = @ \ {<<t, NoFd>> : t \in ts}]

BGP_READ_OFF(w) == [w EXCEPT !.p.t_read = FALSE, !.rdy = @ \ {<<"t_read", NoFd>>}]
BGP_WRITE_OFF(w) == [w EXCEPT !.p.t_write = FALSE, !.rdy = @ \ {<<"t_write", NoFd>>}]

(* Queue a packet and have it written. *)
Queue(w, m) == [w EXCEPT !.p.obuf = Append(@, m), !.p.t_write = TRUE]

-----------------------------------------------------------------------------
(* The handlers of the state machine.  Operators named Mut..., here and     *)
(* below, are faulty variants of the definition that follows them, which   *)
(* the properties catch; no specification uses them.                       *)

MutNoHoldTimer(r, s) ==
  CASE s = "Idle" -> {"t_start"}
    [] s = "Connect" -> {"t_connect"}
    [] s = "Active" -> IF r \in Passive THEN {} ELSE {"t_connect"}
    [] s \in {"OpenConfirm", "Established"} -> {"t_keepalive"}
    [] s \in {"OpenSent", "Clearing"} -> {}

(* bgp_timer_set: the timers of the new status are on, all others are off; *)
(* only Established leaves t_routeadv alone.                               *)
ArmedIn(r, s) ==
  CASE s = "Idle" -> {"t_start"}
    [] s = "Connect" -> {"t_connect"}
    [] s = "Active" -> IF r \in Passive THEN {} ELSE {"t_connect"}
    [] s = "OpenSent" -> {"t_holdtime"}
    [] s \in {"OpenConfirm", "Established"} -> {"t_holdtime", "t_keepalive"}
    [] s = "Clearing" -> {}

bgp_timer_set(r, w) ==
  LET kept == IF w.p.status = "Established" THEN {"t_routeadv"} ELSE {}
      Set(on) == [BGP_TIMER_OFF(w, Timers \ (on \cup kept)) EXCEPT !.p.timers = @ \cup on]
  IN  Then(ArmedIn(r, w.p.status), Set)

(* Entering Clearing clears the routes of the peer, adj-out included;      *)
(* ClearCompleted below is the end of that.                                *)
bgp_fsm_change_status(w, s) ==
  [w EXCEPT !.p.status = s,
            !.p.clearing = @ \/ s = "Clearing",
            !.p.adv = IF s = "Clearing" THEN "none" ELSE @]

MutStopNoFlush(r, w) ==
  LET off == BGP_TIMER_OFF(BGP_READ_OFF(BGP_WRITE_OFF(w)), Timers)
      shut == IF w.p.fd = NoFd THEN off ELSE Close(off, r, w.p.fd)
  IN  [shut EXCEPT !.p.fd = NoFd, !.p.obuf = <<>>]

MutStopNoWriteOff(r, w) ==
  LET off == BGP_TIMER_OFF(BGP_READ_OFF(BGP_EVENT_FLUSH(w, NoFd)), Timers)
      shut == IF w.p.fd = NoFd THEN off ELSE Close(off, r, w.p.fd)
  IN  [shut EXCEPT !.p.fd = NoFd, !.p.obuf = <<>>]

bgp_stop(r, w) ==
  LET flushed == IF w.p.status = "Clearing" THEN w ELSE BGP_EVENT_FLUSH(w, NoFd)
      off == BGP_TIMER_OFF(BGP_READ_OFF(BGP_WRITE_OFF(flushed)), Timers)
      shut == IF w.p.fd = NoFd THEN off ELSE Close(off, r, w.p.fd)
  IN  [shut EXCEPT !.p.fd = NoFd, !.p.obuf = <<>>]

bgp_clearing_completed(r, w) == BGP_EVENT_FLUSH(bgp_stop(r, w), NoFd)

FreeConn(r, n) == {c \in ConnOf[r] : n[c] = Unconnected}

(* bgp_connect is non-blocking; the outcome is seen by bgp_connect_check.  *)
(* A passive peer does not connect and moves on to Active.                 *)
bgp_start(r, w) ==
  LET c == CHOOSE x \in FreeConn(r, w.net) : \A y \in FreeConn(r, w.net) : x <= y
  IN  IF r \in Passive THEN BGP_EVENT_ADD(w, NoFd, "TCP_connection_open_failed")
      ELSE [w EXCEPT !.net[c] = [Unconnected EXCEPT !.st = "syn", !.end[r] = "open"],
                !.p.fd = c, !.p.t_read = TRUE, !.p.t_write = TRUE]

bgp_reconnect(r, w) == bgp_start(r, bgp_stop(r, w))

bgp_connect_success(w) == Queue([w EXCEPT !.p.t_read = TRUE], "OPEN")

(* Nothing at all is sent to a neighbour that was dropped.  The trust and  *)
(* voting messages that precede the KEEPALIVE are module BgpVoting's.      *)
bgp_keepalive_send(w) ==
  IF w.p.dropped THEN w ELSE [Queue(w, "KEEPALIVE") EXCEPT !.ka = TRUE]

MutOpenNoKeepalive(w) == BGP_TIMER_OFF(w, {"t_holdtime"})

bgp_fsm_open(w) == BGP_TIMER_OFF(bgp_keepalive_send(w), {"t_holdtime"})

bgp_establish(w) ==
  LET up == bgp_keepalive_send(bgp_fsm_change_status(w, "Established"))
  IN  [up EXCEPT !.p.adv = "waiting", !.p.timers = @ \cup {"t_routeadv"}]

(* bgp_notify_send: everything queued is dropped, the NOTIFICATION is      *)
(* written at once, and stays in obuf until the stop event is handled.     *)
bgp_notify_send(r, w) ==
  LET clean == BGP_WRITE_OFF([w EXCEPT !.p.obuf = <<"NOTIFY">>])
  IN  BGP_EVENT_ADD(Write(clean, r, w.p.fd, <<"NOTIFY">>), NoFd, "BGP_Stop")

bgp_fsm_holdtime_expire(r, w) == bgp_stop(r, bgp_notify_send(r, w))

(* The table FSM: what each status does on each event, and its next status. *)
Ends == {"TCP_connection_open", "TCP_connection_closed",
         "TCP_connection_open_failed", "TCP_fatal_error"}

FsmIdle(e) ==
  CASE e = "BGP_Start" -> <<"bgp_start", "Connect">>
    [] e \in {"BGP_Stop"} \cup (Ends \ {"TCP_connection_open_failed"})
         -> <<"bgp_stop", "Idle">>
    [] OTHER -> <<"bgp_ignore", "Idle">>

FsmConnect(e) ==
  CASE e = "BGP_Start" -> <<"bgp_ignore", "Connect">>
    [] e = "TCP_connection_open" -> <<"bgp_connect_success", "OpenSent">>
    [] e = "TCP_connection_open_failed" -> <<"bgp_stop", "Active">>
    [] e = "ConnectRetry_timer_expired" -> <<"bgp_reconnect", "Connect">>
    [] e \in {"BGP_Stop", "TCP_connection_closed", "TCP_fatal_error",
              "Receive_NOTIFICATION_message"} -> <<"bgp_stop", "Idle">>
    [] OTHER -> <<"bgp_ignore", "Idle">>

FsmActive(e) ==
  CASE e \in {"BGP_Start", "TCP_connection_open_failed"} -> <<"bgp_ignore", "Active">>
    [] e = "TCP_connection_open" -> <<"bgp_connect_success", "OpenSent">>
    [] e = "ConnectRetry_timer_expired" -> <<"bgp_start", "Connect">>
    [] e \in {"BGP_Stop", "TCP_connection_closed",
              "Receive_NOTIFICATION_message"} -> <<"bgp_stop", "Idle">>
    [] OTHER -> <<"bgp_ignore", "Idle">>

MutSkipOpenConfirm(e) ==
  CASE e = "BGP_Start" -> <<"bgp_ignore", "OpenSent">>
    [] e \in Ends -> <<"bgp_stop", "Active">>
    [] e = "Receive_OPEN_message" -> <<"bgp_establish", "Established">>
    [] OTHER -> <<"bgp_stop", "Idle">>

FsmOpenSent(e) ==
  CASE e = "BGP_Start" -> <<"bgp_ignore", "OpenSent">>
    [] e \in Ends -> <<"bgp_stop", "Active">>
    [] e = "Hold_Timer_expired" -> <<"bgp_fsm_holdtime_expire", "Idle">>
    [] e = "Receive_OPEN_message" -> <<"bgp_fsm_open", "OpenConfirm">>
    [] e \in {"BGP_Stop", "Receive_NOTIFICATION_message"} -> <<"bgp_stop", "Idle">>
    [] OTHER -> <<"bgp_ignore", "Idle">>

FsmOpenConfirm(e) ==
  CASE e \in {"BGP_Start", "KeepAlive_timer_expired"} -> <<"bgp_ignore", "OpenConfirm">>
    [] e = "Hold_Timer_expired" -> <<"bgp_fsm_holdtime_expire", "Idle">>
    [] e = "Receive_KEEPALIVE_message" -> <<"bgp_establish", "Established">>
    [] e \in {"BGP_Stop", "Receive_NOTIFICATION_message"} \cup Ends
         -> <<"bgp_stop", "Idle">>
    [] OTHER -> <<"bgp_ignore", "Idle">>

FsmEstablished(e) ==
  CASE e = "BGP_Start" -> <<"bgp_ignore", "Established">>
    [] e = "Hold_Timer_expired" -> <<"bgp_fsm_holdtime_expire", "Clearing">>
    [] e = "KeepAlive_timer_expired" -> <<"bgp_fsm_keepalive_expire", "Established">>
    [] e \in {"Receive_KEEPALIVE_message", "Receive_UPDATE_message"}
         -> <<"bgp_fsm_keepalive", "Established">>
    [] e = "Clearing_Completed" -> <<"bgp_ignore", "Idle">>
    [] OTHER -> <<"bgp_stop", "Clearing">>

FsmClearing(e) ==
  CASE e = "BGP_Start" -> <<"bgp_ignore", "Clearing">>
    [] e = "Clearing_Completed" -> <<"bgp_clearing_completed", "Idle">>
    [] OTHER -> <<"bgp_stop", "Clearing">>

FSM(s, e) ==
  CASE s = "Idle" -> FsmIdle(e)
    [] s = "Connect" -> FsmConnect(e)
    [] s = "Active" -> FsmActive(e)
    [] s = "OpenSent" -> FsmOpenSent(e)
    [] s = "OpenConfirm" -> FsmOpenConfirm(e)
    [] s = "Established" -> FsmEstablished(e)
    [] s = "Clearing" -> FsmClearing(e)

Call(r, w, func) ==
  CASE func = "bgp_ignore" -> w
    [] func = "bgp_start" -> bgp_start(r, w)
    [] func = "bgp_stop" -> bgp_stop(r, w)
    [] func = "bgp_reconnect" -> bgp_reconnect(r, w)
    [] func = "bgp_connect_success" -> bgp_connect_success(w)
    [] func = "bgp_fsm_open" -> bgp_fsm_open(w)
    [] func = "bgp_establish" -> bgp_establish(w)
    [] func = "bgp_fsm_keepalive" -> BGP_TIMER_OFF(w, {"t_holdtime"})
    [] func = "bgp_fsm_keepalive_expire" -> bgp_keepalive_send(w)
    [] func = "bgp_fsm_holdtime_expire" -> bgp_fsm_holdtime_expire(r, w)
    [] func = "bgp_clearing_completed" -> bgp_clearing_completed(r, w)

(* bgp_connect_success returns -1 without a descriptor; nothing happens then. *)
bgp_event(r, w, e) ==
  LET row == FSM(w.p.status, e)
  IN  IF row[1] = "bgp_connect_success" /\ w.p.fd = NoFd THEN w
      ELSE Then(Call(r, w, row[1]), LAMBDA done :
             IF row[2] = done.p.status THEN bgp_timer_set(r, done)
             ELSE bgp_timer_set(r, bgp_fsm_change_status(done, row[2])))

-----------------------------------------------------------------------------
(* Accept peers.  One is named by its connection; after bgp_stop it has    *)
(* none.  Its t_read is set while it is in OpenSent.                       *)

AccIndex(w, c) == {i \in 1..Len(w.acc) : w.acc[i].fd = c}

AccOff(w, c) == [w EXCEPT !.rdy = @ \ {<<"acc_read", c>>, <<"acc_hold", c>>}]

MutDeleteKeepsFd(r, w, c) ==
  LET gone == SelectSeq(w.acc, LAMBDA a : a.fd # c)
  IN  AccOff(BGP_EVENT_FLUSH([w EXCEPT !.acc = gone], c), c)

peer_delete(r, w, c) ==
  LET gone == SelectSeq(w.acc, LAMBDA a : a.fd # c)
  IN  AccOff(BGP_EVENT_FLUSH(Close([w EXCEPT !.acc = gone], r, c), c), c)

(* The i-th accept peer is in Idle for good.  Such peers take part in      *)
(* nothing, and one is kept to stand for all of them (a bound).            *)
Stopped(acc, i) ==
  LET idle == [fd |-> NoFd, status |-> "Idle"]
  IN  IF \E j \in 1..Len(acc) : acc[j] = idle THEN RemoveAt(acc, i)
      ELSE [acc EXCEPT ![i] = idle]

(* bgp_event for an accept peer: Active to OpenSent once it is open; the   *)
(* stop event of a NOTIFICATION leaves it in Idle, where no timer starts   *)
(* it because no address family is configured for it.                      *)
AcceptEvent(r, w, c, e) ==
  LET i == CHOOSE j \in AccIndex(w, c) : TRUE
  IN  CASE e = "TCP_connection_open" -> [w EXCEPT !.acc[i].status = "OpenSent"]
        [] e = "BGP_Stop" ->
             [AccOff(BGP_EVENT_FLUSH(Close(w, r, c), c), c)
                EXCEPT !.acc = Stopped(@, i)]

(* bgp_accept: a connection for a peer in Idle is closed; any other gets a *)
(* peer structure of its own, at the head of bgp->peer: it is sorted in    *)
(* before its address is set.                                              *)
bgp_accept(r, w, c) ==
  IF w.p.status = "Idle" THEN Close(w, r, c)
  ELSE BGP_EVENT_ADD([w EXCEPT !.acc = <<[fd |-> c, status |-> "Active"]>> \o @,
                               !.net[c].end[r] = "open"], c, "TCP_connection_open")

-----------------------------------------------------------------------------
(* Packets. *)

NotifyAccept(r, w, c) ==
  BGP_EVENT_ADD(Write(w, r, c, <<"NOTIFY">>), c, "BGP_Stop")

(* bgp_collision_detect compares with the first other peer structure of    *)
(* this neighbour in OpenSent or OpenConfirm: an accept peer before the    *)
(* configured peer.  who is the one the OPEN came from.                    *)
Colliding(w, who) ==
  LET accs == {i \in 1..Len(w.acc) : w.acc[i].status = "OpenSent" /\ w.acc[i].fd # who}
  IN  IF accs # {} THEN {w.acc[CHOOSE i \in accs : \A j \in accs : i <= j].fd}
      ELSE {x \in {NoFd} : x # who /\ w.p.status \in {"OpenSent", "OpenConfirm"}}

Notify(r, w, who) ==
  IF who = NoFd THEN bgp_notify_send(r, w) ELSE NotifyAccept(r, w, who)

(* The hack part of bgp_open_receive: the configured peer takes over the   *)
(* connection and the status of the accept peer.                           *)
Transfer(r, w, c) ==
  LET stopped == bgp_stop(r, w)
      moved == [stopped EXCEPT !.p.fd = c, !.p.status = "OpenSent", !.p.t_read = TRUE,
                               !.acc = SelectSeq(@, LAMBDA a : a.fd # c)]
  IN  Queue(AccOff(BGP_EVENT_FLUSH(moved, c), c), "OPEN")

(* bgp_open_receive, and for an accept peer the peer_delete that ends every *)
(* bgp_read of it.                                                          *)
bgp_open_receive(r, w, who) ==
  LET found == Colliding(w, who)
      wins == r # LowId
      seen == IF found = {} \/ wins THEN w
              ELSE Notify(r, w, CHOOSE x \in found : TRUE)
      refused == \/ found # {} /\ wins
                 \/ found = {} /\ who # NoFd
                      /\ w.p.status \in {"Idle", "Established", "Clearing"}
  IN  CASE refused /\ who = NoFd -> bgp_notify_send(r, w)
        [] refused /\ who # NoFd -> peer_delete(r, NotifyAccept(r, w, who), who)
        [] ~refused -> BGP_EVENT_ADD(IF who = NoFd THEN seen ELSE Transfer(r, seen, who),
                                     NoFd, "Receive_OPEN_message")

bgp_update_receive(r, w) ==
  IF w.p.status # "Established" THEN bgp_notify_send(r, w)
  ELSE BGP_EVENT_ADD(w, NoFd, "Receive_UPDATE_message")

bgp_connect_check(w) ==
  BGP_EVENT_ADD(BGP_READ_OFF(BGP_WRITE_OFF(w)), NoFd,
                IF w.net[w.p.fd].st = "failed" THEN "TCP_connection_open_failed"
                ELSE "TCP_connection_open")

(* bgp_read of a packet, of end of file or of an error, on the configured  *)
(* peer.  A dropped neighbour is not read, and t_read is not set again.    *)
ReadPacket(r, w) ==
  LET c == w.p.fd
      m == Head(w.net[c].q[r])
      got == [w EXCEPT !.net[c].q[r] = Tail(@)]
  IN  CASE w.net[c].st = "failed" -> BGP_EVENT_ADD(w, NoFd, "TCP_fatal_error")
        [] w.net[c].st # "failed" /\ w.net[c].q[r] = <<>> ->
             BGP_EVENT_ADD(w, NoFd, "TCP_connection_closed")
        [] OTHER ->
             CASE m = "OPEN" -> bgp_open_receive(r, got, NoFd)
               [] m = "UPDATE" -> bgp_update_receive(r, got)
               [] m = "KEEPALIVE" -> BGP_EVENT_ADD(got, NoFd, "Receive_KEEPALIVE_message")
               [] m = "NOTIFY" -> BGP_EVENT_ADD(got, NoFd, "Receive_NOTIFICATION_message")

MutReadDropped(r, w) ==
  IF w.p.status = "Connect" THEN bgp_connect_check([w EXCEPT !.p.t_read = FALSE])
  ELSE ReadPacket(r, w)

bgp_read(r, w) ==
  LET begun == [w EXCEPT !.p.t_read = FALSE]
  IN  CASE w.p.dropped -> begun
        [] ~w.p.dropped /\ w.p.status = "Connect" -> bgp_connect_check(begun)
        [] OTHER -> ReadPacket(r, w)

(* bgp_read on an accept peer: whatever it finds, the peer is deleted.     *)
AcceptRead(r, w, c) ==
  IF w.net[c].st # "failed" /\ w.net[c].q[r] # <<>> /\ Head(w.net[c].q[r]) = "OPEN"
  THEN bgp_open_receive(r, [w EXCEPT !.net[c].q[r] = Tail(@)], c)
  ELSE peer_delete(r, w, c)

(* bgp_write: all that is queued, then the updates that are due.  A        *)
(* NOTIFICATION left in obuf only repeats the stop event: what remains of  *)
(* it is less than a header.                                               *)
bgp_write(r, w) ==
  LET begun == [w EXCEPT !.p.t_write = FALSE]
      updates == IF w.p.adv = "due" THEN <<"UPDATE">> ELSE <<>>
  IN  CASE w.p.status = "Connect" -> bgp_connect_check(begun)
        [] w.p.obuf # <<>> /\ Head(w.p.obuf) = "NOTIFY" ->
             BGP_EVENT_ADD(begun, NoFd, "BGP_Stop")
        [] w.net[w.p.fd].st = "failed" -> BGP_EVENT_ADD(begun, NoFd, "TCP_fatal_error")
        [] OTHER -> Write([begun EXCEPT !.p.obuf = <<>>, !.p.adv = IF @ = "due" THEN "none" ELSE @],
                          r, w.p.fd, w.p.obuf \o updates)

(* A timer that was popped.  t_routeadv makes the waiting updates due; it  *)
(* is set again for later ones, of which there are none (a bound).         *)
bgp_timer(r, w, t) ==
  LET fired == [w EXCEPT !.p.timers = @ \ {t}]
  IN  CASE t = "t_start" -> bgp_event(r, fired, "BGP_Start")
        [] t = "t_connect" -> bgp_event(r, fired, "ConnectRetry_timer_expired")
        [] t = "t_holdtime" -> bgp_event(r, fired, "Hold_Timer_expired")
        [] t = "t_keepalive" -> bgp_event(r, fired, "KeepAlive_timer_expired")
        [] t = "t_routeadv" ->
             [fired EXCEPT !.p.t_write = TRUE,
                           !.p.adv = IF @ = "waiting" THEN "due" ELSE @]

-----------------------------------------------------------------------------
(* The scheduler's turns. *)

World(r) == [p |-> peer[r], acc |-> accept[r], ev |-> event[r],
             rdy |-> ready[r], net |-> net, ka |-> FALSE]

(* Leave w behind.  A router that has queued a KEEPALIVE, and with it its  *)
(* trust message, may have made this neighbour the dropped one.            *)
Leave(r, left) ==
  \E w \in {left}, d \in BOOLEAN :
     /\ d => r \in MayDrop /\ w.ka
     /\ peer' = [peer EXCEPT ![r] = [w.p EXCEPT !.dropped = @ \/ d]]
     /\ accept' = [accept EXCEPT ![r] = w.acc]
     /\ event' = [event EXCEPT ![r] = w.ev]
     /\ ready' = [ready EXCEPT ![r] = w.rdy]
     /\ net' = w.net

(* The descriptors that select() may report; a message takes any time to   *)
(* arrive, so that any of them may be missing in one turn.                 *)
Selectable(r) ==
  LET p == peer[r]
      room == Len(event[r]) < MaxEvents
  IN  {x \in {<<"t_read", NoFd>>} : p.t_read /\ room /\ Readable(r, p.fd)}
      \cup {x \in {<<"t_write", NoFd>>} : p.t_write /\ net[p.fd].st # "syn"}
      \cup {<<"accept", c>> : c \in {d \in Conn : net[d].end[r] = "queued" /\ room}}
      \cup {<<"acc_read", accept[r][i].fd>> :
              i \in {j \in 1..Len(accept[r]) : accept[r][j].status = "OpenSent"
                                                /\ Readable(r, accept[r][j].fd)}}

(* The hold time passes in silence: one of the two has dropped the other   *)
(* and does not read any more, or has sent all it will ever send.          *)
Silent(r) ==
  LET o == peer[Other(r)]
  IN  \/ ~peer[r].t_read
      \/ net[peer[r].fd].q[r] = <<>> /\ o.fd = peer[r].fd /\ o.dropped /\ o.obuf = <<>>

(* A timer pops in time, or (a fault) although what it waits for is under  *)
(* way.  The next KEEPALIVE waits for the last one to be read (a bound).   *)
OnTime(r, t) ==
  CASE t = "t_start" -> TRUE
    [] t = "t_connect" -> peer[r].status = "Active"
    [] t = "t_holdtime" -> Silent(r)
    [] t = "t_keepalive" -> peer[r].obuf = <<>> /\ net[peer[r].fd].q[Other(r)] = <<>>
    [] t = "t_routeadv" -> TRUE

Popped(r) ==
  {<<t, NoFd>> : t \in {x \in peer[r].timers :
     /\ OnTime(r, x) \/ (x \in {"t_connect", "t_holdtime"} /\ faults < MaxFaults)
     /\ x \in {"t_start", "t_connect"} => r \in Passive \/ FreeConn(r, net) # {}}}
  \cup {<<"acc_hold", accept[r][i].fd>> :
          i \in {j \in 1..Len(accept[r]) : accept[r][j].status = "OpenSent"
                                            /\ faults < MaxFaults}}

IsLate(r, x) == x[1] = "acc_hold" \/ ~OnTime(r, x[1])

MutTurnIoFirst(r, timer, io) ==
  /\ ready[r] = {}
  /\ event[r] # <<>> \/ timer # {} \/ io # {}
  /\ \E w \in {[World(r) EXCEPT !.rdy = timer \cup io]} :
       \/ (event[r] = <<>> \/ io # {}) /\ Leave(r, w)
       \/ /\ event[r] # <<>> /\ io = {}
          /\ \E x \in {Head(event[r])}, rest \in {[w EXCEPT !.ev = Tail(@)]} :
               Leave(r, IF x.who = NoFd THEN bgp_event(r, rest, x.e)
                        ELSE AcceptEvent(r, rest, x.who, x.e))
  /\ faults' = IF \E x \in timer : IsLate(r, x) THEN faults + 1 ELSE faults

(* thread_fetch starts a turn: one event, at most one popped timer, and    *)
(* the ready descriptors; one connection is accepted.  The event runs.     *)
Turn(r, timer, io) ==
  /\ ready[r] = {}
  /\ event[r] # <<>> \/ timer # {} \/ io # {}
  /\ \E w \in {[World(r) EXCEPT !.rdy = timer \cup io]} :
       \/ event[r] = <<>> /\ Leave(r, w)
       \/ /\ event[r] # <<>>
          /\ \E x \in {Head(event[r])}, rest \in {[w EXCEPT !.ev = Tail(@)]} :
               Leave(r, IF x.who = NoFd THEN bgp_event(r, rest, x.e)
                        ELSE AcceptEvent(r, rest, x.who, x.e))
  /\ faults' = IF \E x \in timer : IsLate(r, x) THEN faults + 1 ELSE faults

Fetch(r) ==
  \E io \in SUBSET Selectable(r), timer \in {{}} \cup {{x} : x \in Popped(r)} :
     /\ Cardinality({x \in io : x[1] = "accept"}) <= 1
     /\ Turn(r, timer, io)

Rank(x) ==
  CASE x[1] \in Timers \cup {"acc_hold"} -> 1
    [] x[1] \in {"t_read", "acc_read", "accept"} -> 2
    [] x[1] = "t_write" -> 3

(* The accept peer of connection c is older than that of d: it waits       *)
(* longer for its only read, and is before it in the list of reads.        *)
Older(r, c, d) ==
  \E i, j \in 1..Len(accept[r]) :
     accept[r][i].fd = d /\ accept[r][j].fd = c /\ i < j

(* thread_call runs the next ready thread. *)
Run(r) ==
  \E x \in ready[r] :
     /\ \A y \in ready[r] : Rank(x) <= Rank(y)
     /\ x[1] = "acc_read" =>
          ~\E y \in ready[r] : y[1] = "acc_read" /\ Older(r, y[2], x[2])
     /\ \E w \in {[World(r) EXCEPT !.rdy = @ \ {x}]} :
          Leave(r, CASE x[1] \in Timers -> bgp_timer(r, w, x[1])
                     [] x[1] = "acc_hold" -> peer_delete(r, NotifyAccept(r, w, x[2]), x[2])
                     [] x[1] = "accept" -> bgp_accept(r, w, x[2])
                     [] x[1] = "acc_read" -> AcceptRead(r, w, x[2])
                     [] x[1] = "t_read" -> bgp_read(r, w)
                     [] x[1] = "t_write" -> bgp_write(r, w))
     /\ UNCHANGED faults

(* The routes of the peer are cleared: one event from the work queue, or   *)
(* one for every table when the peer had no routes at all.                 *)
ClearCompleted(r) ==
  /\ peer[r].clearing
  /\ peer' = [peer EXCEPT ![r].clearing = FALSE]
  /\ \E n \in {1, Tables} :
       event' = [event EXCEPT ![r] =
                   @ \o [i \in 1..n |-> [who |-> NoFd, e |-> "Clearing_Completed"]]]
  /\ UNCHANGED <<accept, ready, net, faults>>

(* `clear ip bgp', at any time between two threads. *)
peer_clear(r) ==
  /\ faults < MaxFaults
  /\ faults' = faults + 1
  /\ Leave(r, IF peer[r].status = "Established" THEN bgp_notify_send(r, World(r))
              ELSE BGP_EVENT_ADD(World(r), NoFd, "BGP_Stop"))

(* The network: a connection is set up, or lost. *)
TcpUp(c) ==
  /\ net[c].st = "syn"
  /\ net' = [net EXCEPT ![c].st = "up",
               ![c].end = [r \in Router |-> IF @[r] = "open" THEN "open" ELSE "queued"]]
  /\ UNCHANGED <<peer, accept, event, ready, faults>>

TcpLost(c) ==
  /\ net[c].st \in {"syn", "up"}
  /\ faults < MaxFaults
  /\ faults' = faults + 1
  /\ net' = [net EXCEPT ![c].st = "failed", ![c].q = [r \in Router |-> <<>>]]
  /\ UNCHANGED <<peer, accept, event, ready>>

Next ==
  \/ \E r \in Router : Fetch(r) \/ Run(r) \/ ClearCompleted(r) \/ peer_clear(r)
  \/ \E c \in Conn : TcpUp(c) \/ TcpLost(c)

Spec == Init /\ [][Next]_vars

(* Everything that was sent has arrived, and select() reports it. *)
AllArrived(r) ==
  LET new == {x \in Selectable(r) : x[1] = "accept"}
      old == Selectable(r) \ new
  IN  IF new = {} THEN {old} ELSE {old \cup {x} : x \in new}

FetchAll(r) == \E io \in AllArrived(r) : Turn(r, {}, io)

(* A timer that ends a status pops when its time has come. *)
FetchTimer(r) ==
  /\ ready[r] = {}
  /\ \E x \in {y \in Popped(r) : y[1] \in {"t_start", "t_connect", "t_holdtime"}
                                 /\ ~IsLate(r, y)} :
       \E io \in AllArrived(r) : Turn(r, {x}, io)

(* The scheduler runs what is ready and starts turn after turn, in which   *)
(* every message and every timer comes up (ThreadMaster's liveness); the   *)
(* work queue finishes; TCP connects.  No fault is bound to happen.        *)
Fairness ==
  /\ \A r \in Router :
       /\ WF_vars(Run(r)) /\ WF_vars(ClearCompleted(r))
       /\ SF_vars(FetchAll(r)) /\ SF_vars(FetchTimer(r))
  /\ \A c \in Conn : WF_vars(TcpUp(c))

LiveSpec == Spec /\ Fairness

-----------------------------------------------------------------------------

Who == Conn \cup {NoFd}

(* Every structure holds values of its type, and the descriptor of a       *)
(* connection that exists.                                                 *)
TypeOK ==
  /\ \A r \in Router :
       LET p == peer[r] IN
       /\ p.status \in Status /\ p.fd \in Who /\ p.timers \subseteq Timers
       /\ p.t_read \in BOOLEAN /\ p.t_write \in BOOLEAN /\ p.obuf \in Seq(Msg)
       /\ p.adv \in {"none", "waiting", "due"}
       /\ p.clearing \in BOOLEAN /\ p.dropped \in BOOLEAN
       /\ p.fd # NoFd => net[p.fd].end[r] = "open"
       /\ (p.t_read \/ p.t_write) => p.fd # NoFd
       /\ \A i \in 1..Len(accept[r]) :
            /\ accept[r][i].fd \in Who
            /\ accept[r][i].status \in {"Idle", "Active", "OpenSent"}
  /\ faults \in 0..MaxFaults

(* No descriptor is leaked or shared: whatever bgp_accept, peer_delete,    *)
(* bgp_stop and the take-over in bgp_open_receive did, every open end of a *)
(* connection belongs to the configured peer or to exactly one accept peer. *)
NoFdLeak ==
  \A r \in Router, c \in Conn :
     net[c].end[r] = "open" <=>
       Cardinality({i \in 1..Len(accept[r]) : accept[r][i].fd = c})
         + (IF peer[r].fd = c THEN 1 ELSE 0) = 1

(* In Idle nothing of the last session is left: bgp_start of the next one  *)
(* overwrites peer->fd, and would lose a descriptor, its threads and the   *)
(* packets queued for it.  bgp_stop flushes the pending events for this: a *)
(* late one would find Idle, where most are ignored.  It fails where       *)
(* ClearingHolds does, which takes two more connections of the neighbour.  *)
IdleIsClean ==
  \A r \in Router : peer[r].status = "Idle" =>
     /\ peer[r].fd = NoFd /\ peer[r].obuf = <<>>
     /\ ~peer[r].t_read /\ ~peer[r].t_write

(* The session cannot get stuck: in every status the timer of bgp_timer_set *)
(* that will end it is set, its routes are being cleared, or an event is   *)
(* pending.  Only a passive peer in Active waits for the other side.       *)
WatchdogSet ==
  \A r \in Router :
     \/ peer[r].timers \cap {"t_start", "t_connect", "t_holdtime"} # {}
     \/ peer[r].clearing
     \/ r \in Passive /\ peer[r].status = "Active"
     \/ \E i \in 1..Len(event[r]) : event[r][i].who = NoFd

(* When one end of a connection is in Established the other end of it has  *)
(* sent the KEEPALIVE of bgp_fsm_open, on this connection: no collision    *)
(* makes a router take a message of one connection for one of the other.   *)
SessionsAgree ==
  \A r \in Router :
     LET o == Other(r) IN
     peer[r].status = "Established" /\ peer[o].fd = peer[r].fd
       => peer[o].status \in {"OpenConfirm", "Established"}

(* An UPDATE is only read in Established, the one status in which          *)
(* bgp_update_receive does not answer it with a NOTIFICATION: the event of *)
(* the KEEPALIVE before it was handled first, although bgp_read only queues *)
(* it and another read may be ready in the same turn.                      *)
UpdateInEstablished ==
  \A r \in Router :
     LET p == peer[r] IN
     /\ <<"t_read", NoFd>> \in ready[r]
     /\ net[p.fd].q[r] # <<>>
     /\ Head(net[p.fd].q[r]) = "UPDATE"
     => p.status = "Established"

(* "bgp_fsm.c keeps sessions in state Clearing, not transitioning to Idle  *)
(* until it receives a Clearing_Completed event" (the comment in           *)
(* bgp_clear_route): Clearing is left for Idle and for nothing else.       *)
ClearingHolds ==
  [][\A r \in Router : peer[r].status = "Clearing" =>
        peer'[r].status \in {"Clearing", "Idle"}]_vars

(* A session that is never dropped ends up in Established and stays there, *)
(* whatever was lost, late or cleared before: the timers retry, and the    *)
(* connections that collide on the way do not keep cutting each other off. *)
(* This is with one side passive, which "avoids the race, as a workaround" *)
(* (the comment in bgp_open_receive).                                      *)
SessionComesUp == <>[](\A r \in Router : peer[r].status = "Established")

(* A dropped link stays down: a peer at either end that is in Idle after the *)
(* drop never gets back to Established, whoever connects to whom, because  *)
(* neither bgp_keepalive_send nor bgp_read serve the dropped peer.         *)
DropIsFinal ==
  \A r, s \in Router :
     [](peer[r].dropped /\ peer[s].status = "Idle" => [](peer[s].status # "Established"))

(* ... and it does go down, at both ends, although bgpd tells neither: the *)
(* hold timers expire, and the routes over the link are cleared.           *)
DropTakesDown ==
  \A r \in Router :
     peer[r].dropped ~> (\A s \in Router : peer[s].status # "Established")

=============================================================================
