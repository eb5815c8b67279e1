---------------------------- MODULE ThreadMaster ----------------------------
(***************************************************************************)
(* The cooperative scheduler of every quagga daemon (lib/thread.c) and the *)
(* way its clients hold on to threads: a slot is a pointer such as         *)
(* peer->t_read or peer->t_keepalive that THREAD_ON sets and THREAD_OFF    *)
(* cancels and clears; events have no slot, only an argument.              *)
(*                                                                         *)
(* thread_fetch hands out one thread at a time; while its handler runs,    *)
(* the handler may set and cancel any other thread.  Times are kept        *)
(* relative to now: a timer has popped when its sands reach 0.             *)
(***************************************************************************)
EXTENDS Integers, Sequences, FiniteSets

CONSTANTS
  Thread,      \* thread structures
  NULL,        \* the null pointer
  Slot,        \* thread pointers kept by the daemon, one file descriptor each
  Kind,        \* Kind[s]: "read", "write", "timer" or "background"
  Arg,         \* arguments of events (the peers)
  Delay,       \* the delays timers are set with
  MaxLate,     \* bound: time stands still while a timer is this late
  MaxOps       \* bound: calls that a handler makes to the scheduler

Waiting == {"read", "write", "timer", "background"}
Lists == Waiting \cup {"event", "ready"}

ASSUME SlotAssumption ==
  /\ NULL \notin Thread
  /\ Kind \in [Slot -> Waiting]
  /\ Slot \cap Arg = {}
  /\ Delay \subseteq Nat
  /\ MaxLate \in Nat
  /\ MaxOps \in Nat

VARIABLES
  list,        \* the lists of struct thread_master, but for the unused threads
  thread,      \* the fields of every thread structure
  fdset,       \* readfd and writefd: the slots whose descriptor is selected on
  slot,        \* slot[s]: the thread that pointer s points to
  running,     \* what thread_call is running: the copy that thread_run made
  ops          \* calls made by the running handler

vars == <<list, thread, fdset, slot, running, ops>>

Idle == [add_type |-> "idle", owner |-> NULL]
Main == [add_type |-> "main", owner |-> NULL]

(* A structure on the list of unused threads; nobody reads its fields, and *)
(* which one of them thread_get takes next is left open.                   *)
Unused == [type |-> "unused", add_type |-> "unused", owner |-> NULL, sands |-> 0]

(* main() sets the first threads before it enters the loop. *)
Init ==
  /\ list = [l \in Lists |-> <<>>]
  /\ thread = [t \in Thread |-> Unused]
  /\ fdset = {}
  /\ slot = [s \in Slot |-> NULL]
  /\ running = Main
  /\ ops = 0

-----------------------------------------------------------------------------
Elems(q) == {q[i] : i \in 1..Len(q)}
Distinct(q) == \A i, j \in 1..Len(q) : q[i] = q[j] => i = j

(* The elements of q that are in S, in their order: what SelectSeq returns, *)
(* said by rank instead of by recursion, since proofs rest on it.          *)
Keep(q, S) ==
  LET kept == {i \in 1..Len(q) : q[i] \in S}
      Rank(i) == Cardinality({j \in kept : j < i})
  IN  [k \in 1..Cardinality(kept) |-> q[CHOOSE i \in kept : Rank(i) = k - 1]]

Type(t) == thread[t].type
Owner(t) == thread[t].owner
Sands(t) == thread[t].sands

(* Operators named Mut... are faulty variants of the definition below them *)
(* that the properties catch; no specification uses them.                  *)
MutWithoutHead(q, t) == Tail(q)
(* thread_list_delete *)
Without(q, t) ==
  LET at == CHOOSE i \in 1..Len(q) : q[i] = t
  IN  [j \in 1..(Len(q) - 1) |-> IF j < at THEN q[j] ELSE q[j + 1]]

(* thread_list_add_before: t goes before the first timer that is not earlier. *)
InsertTimer(q, t, d) ==
  LET later == {i \in 1..Len(q) : d <= Sands(q[i])}
      at == IF later = {} THEN Len(q) + 1
            ELSE CHOOSE i \in later : \A j \in later : i <= j
  IN  [j \in 1..(Len(q) + 1) |-> CASE j < at -> q[j]
                                   [] j = at -> t
                                   [] j > at -> q[j - 1]]

(* thread_get and what the thread_add_ functions fill in. *)
thread_get(t, kind, who, d) ==
  /\ Type(t) = "unused"
  /\ thread' = [thread EXCEPT ![t] = [type |-> kind, add_type |-> kind,
                                      owner |-> who, sands |-> d]]

InHandler == running # Idle /\ ops < MaxOps
CallDone == ops' = ops + 1 /\ UNCHANGED running

(* THREAD_READ_ON and THREAD_WRITE_ON: thread_add_read, thread_add_write. *)
thread_add_fd(s) ==
  /\ InHandler
  /\ Kind[s] \in {"read", "write"}
  /\ slot[s] = NULL
  /\ s \notin fdset
  /\ \E t \in Thread :
       /\ thread_get(t, Kind[s], s, 0)
       /\ list' = [list EXCEPT ![Kind[s]] = Append(@, t)]
       /\ slot' = [slot EXCEPT ![s] = t]
  /\ fdset' = fdset \cup {s}
  /\ CallDone

(* THREAD_TIMER_ON, thread_add_background: thread_add_timer_timeval. *)
thread_add_timer(s, d) ==
  /\ InHandler
  /\ Kind[s] \in {"timer", "background"}
  /\ slot[s] = NULL
  /\ \E t \in Thread :
       /\ thread_get(t, Kind[s], s, d)
       /\ list' = [list EXCEPT ![Kind[s]] = InsertTimer(@, t, d)]
       /\ slot' = [slot EXCEPT ![s] = t]
  /\ CallDone
  /\ UNCHANGED fdset

thread_add_event(a) ==
  /\ InHandler
  /\ \E t \in Thread :
       /\ thread_get(t, "event", a, 0)
       /\ list' = [list EXCEPT !["event"] = Append(@, t)]
  /\ CallDone
  /\ UNCHANGED <<fdset, slot>>

MutFdCleared(t) == fdset
FdCleared(t) == IF Type(t) \in {"read", "write"} THEN fdset \ {Owner(t)} ELSE fdset

(* THREAD_OFF: thread_cancel deletes the thread from the list its type     *)
(* names; the macro clears the pointer.                                    *)
thread_cancel(s) ==
  /\ InHandler
  /\ slot[s] # NULL
  /\ LET t == slot[s] IN
       /\ fdset' = FdCleared(t)
       /\ list' = [list EXCEPT ![Type(t)] = Without(@, t)]
       /\ thread' = [thread EXCEPT ![t] = Unused]
  /\ slot' = [slot EXCEPT ![s] = NULL]
  /\ CallDone

(* thread_cancel_event: only the list of events is searched. *)
thread_cancel_event(a) ==
  /\ InHandler
  /\ list' = [list EXCEPT !["event"] = Keep(@, {t \in Thread : Owner(t) # a})]
  /\ thread' = [t \in Thread |->
                  IF t \in Elems(list["event"]) /\ Owner(t) = a THEN Unused
                                                                ELSE thread[t]]
  /\ CallDone
  /\ UNCHANGED <<fdset, slot>>

thread_call_return ==
  /\ running # Idle
  /\ running' = Idle
  /\ ops' = 0
  /\ UNCHANGED <<list, thread, fdset, slot>>

-----------------------------------------------------------------------------
MutSlotsAfterRun(t) == slot
(* The first thing a handler does is to clear the pointer to its thread. *)
SlotsAfterRun(t) ==
  IF Owner(t) \in Slot THEN [slot EXCEPT ![Owner(t)] = NULL] ELSE slot

(* thread_trim_head of the ready list of l and thread_run: the structure   *)
(* is free again before its handler runs.                                  *)
thread_run(l, th) ==
  LET t == Head(l["ready"]) IN
    /\ list' = [l EXCEPT !["ready"] = Tail(@)]
    /\ thread' = [th EXCEPT ![t] = Unused]
    /\ running' = [add_type |-> th[t].add_type, owner |-> th[t].owner]
    /\ slot' = SlotsAfterRun(t)
    /\ UNCHANGED ops

(* thread_process moves one event: after thread_list_add the loop's        *)
(* thread->next is NULL.  thread_timer_process likewise moves one timer.   *)
MutProcessAll(q) == q
MutProcessNewest(q) == IF q = <<>> THEN <<>> ELSE <<q[Len(q)]>>
thread_process(q) == IF q = <<>> THEN <<>> ELSE <<Head(q)>>
MutTimerProcess(q) ==
  IF q # <<>> /\ Sands(q[Len(q)]) <= 0 THEN <<q[Len(q)]>> ELSE <<>>
thread_timer_process(q) ==
  IF q # <<>> /\ Sands(Head(q)) <= 0 THEN <<Head(q)>> ELSE <<>>
thread_process_fd(q, io) == Keep(q, {t \in Thread : Owner(t) \in io})

(* thread_fetch with threads ready: they are drained first. *)
thread_fetch_ready ==
  /\ running = Idle
  /\ list["ready"] # <<>>
  /\ thread_run(list, thread)
  /\ UNCHANGED fdset

(* thread_fetch with none ready: one turn of its loop, in which select     *)
(* finds the descriptors io ready.                                         *)
thread_fetch_select(io) ==
  /\ running = Idle
  /\ list["ready"] = <<>>
  /\ LET ready == thread_process(list["event"])
                    \o thread_timer_process(list["timer"])
                    \o thread_process_fd(list["read"], io)
                    \o thread_process_fd(list["write"], io)
                    \o thread_timer_process(list["background"])
         Left(q) == Keep(q, Thread \ Elems(ready))
     IN  /\ ready # <<>>
         /\ thread_run([l \in Lists |-> IF l = "ready" THEN ready ELSE Left(list[l])],
                       [t \in Thread |-> IF t \in Elems(ready)
                                           THEN [thread[t] EXCEPT !.type = "ready"]
                                           ELSE thread[t]])
  /\ fdset' = fdset \ io

Timers == Elems(list["timer"]) \cup Elems(list["background"])

Tick ==
  /\ Timers # {}
  /\ \A t \in Timers : Sands(t) > -MaxLate
  /\ thread' = [t \in Thread |-> IF t \in Timers
                                   THEN [thread[t] EXCEPT !.sands = @ - 1]
                                   ELSE thread[t]]
  /\ UNCHANGED <<list, fdset, slot, running, ops>>

Handler ==
  \/ \E s \in Slot : thread_add_fd(s)
  \/ \E s \in Slot : thread_cancel(s)
  \/ \E s \in Slot, d \in Delay : thread_add_timer(s, d)
  \/ \E a \in Arg : thread_add_event(a)
  \/ \E a \in Arg : thread_cancel_event(a)

Fetch ==
  \/ thread_fetch_ready
  \/ \E io \in SUBSET fdset : thread_fetch_select(io)

Next == Handler \/ thread_call_return \/ Fetch \/ Tick

Spec == Init /\ [][Next]_vars

(* Handlers return, the daemon calls thread_fetch for ever, and the clock  *)
(* goes on; nothing is assumed about descriptors becoming ready.           *)
Fairness == WF_vars(thread_call_return) /\ WF_vars(Fetch) /\ WF_vars(Tick)
LiveSpec == Spec /\ Fairness

-----------------------------------------------------------------------------
(* The lists hold threads and nothing else: every unlinking by             *)
(* thread_list_delete leaves a list that thread_fetch can walk.            *)
TypeOK ==
  /\ list \in [Lists -> Seq(Thread)]
  /\ thread \in [Thread -> [type: Lists \cup {"unused"},
                            add_type: Waiting \cup {"event", "unused"},
                            owner: Slot \cup Arg \cup {NULL}, sands: Int]]
  /\ fdset \subseteq Slot
  /\ slot \in [Slot -> Thread \cup {NULL}]
  /\ running \in [add_type: Waiting \cup {"event", "idle", "main"},
                  owner: Slot \cup Arg \cup {NULL}]
  /\ ops \in 0..MaxOps

(* Every thread is on the list that its type names, once, and on no other: *)
(* thread_cancel trusts the type to find the list it unlinks a thread from. *)
TypeNamesList ==
  \A l \in Lists : Distinct(list[l]) /\ Elems(list[l]) = {t \in Thread : Type(t) = l}

(* A pointer such as peer->t_read that is not NULL points to its own       *)
(* pending thread, never to a structure that has been freed and perhaps    *)
(* given to somebody else; and a pending thread can be reached through its *)
(* pointer, so it can be cancelled up to the moment its handler runs.      *)
SlotsOwnThreads ==
  /\ \A s \in Slot : slot[s] # NULL =>
       Owner(slot[s]) = s /\ thread[slot[s]].add_type = Kind[s]
  /\ \A t \in Thread : thread[t].add_type \in Waiting => slot[Owner(t)] = t

(* The descriptors that select waits for are those of the threads on the   *)
(* read and write lists: what the assertions of thread_cancel and          *)
(* thread_process_fd demand.                                               *)
FdsetMatchesLists ==
  fdset = {Owner(t) : t \in Elems(list["read"]) \cup Elems(list["write"])}

(* The timer list is sorted, so that the head is the next timer to pop.    *)
TimersSorted ==
  \A l \in {"timer", "background"} : \A i, j \in 1..Len(list[l]) :
    i < j => Sands(list[l][i]) <= Sands(list[l][j])

PendingEvents(a) == {t \in Thread : thread[t].add_type = "event" /\ Owner(t) = a}

(* After thread_cancel_event(m, a), on which bgp_stop relies, no event of  *)
(* the argument a is left, although the function does not look at the      *)
(* ready list: an event never waits there while a handler runs.            *)
FlushIsComplete ==
  [][\A a \in Arg : thread_cancel_event(a) => PendingEvents(a)' = {}]_vars

(* Every event of a peer runs or is cancelled some day, although a turn of *)
(* thread_fetch takes a single event and handlers may always add more.     *)
EventsServed ==
  \A t \in Thread : (Type(t) = "event") ~> (Type(t) # "event")

(* A timer that popped runs or is cancelled some day, although a turn      *)
(* takes a single timer and timers set later may be put in front of it.    *)
TimersServed ==
  \A t \in Thread :
    (Type(t) = "timer" /\ Sands(t) <= 0) ~> (Type(t) # "timer")
=============================================================================
