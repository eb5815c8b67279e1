------------------------- MODULE ThreadMasterProofs -------------------------
(***************************************************************************)
(* Proofs about ThreadMaster for any number of threads, pointers, events   *)
(* and calls: the lists of the scheduler, the fields of the threads, the   *)
(* pointers of the daemon and the descriptor sets always agree.            *)
(***************************************************************************)
EXTENDS ThreadListProofs

ThreadRecord == [type: Lists \cup {"unused"},
                 add_type: Waiting \cup {"event", "unused"},
                 owner: Slot \cup Arg \cup {NULL}, sands: Int]

(* The fields of t agree with each other and with the pointer to t; a      *)
(* thread that is not on the list it was added to is ready, and an event   *)
(* never is.                                                               *)
Fields(t) ==
  /\ Type(t) = "unused" => thread[t] = Unused
  /\ Type(t) # "unused" => /\ thread[t].add_type # "unused"
                           /\ Type(t) \in {thread[t].add_type, "ready"}
  /\ thread[t].add_type \in Waiting => /\ Owner(t) \in Slot
                                       /\ Kind[Owner(t)] = thread[t].add_type
                                       /\ slot[Owner(t)] = t
  /\ thread[t].add_type = "event" => Owner(t) \in Arg /\ Type(t) = "event"

(* The pointer s is NULL or points to a thread of its own, and select waits *)
(* for its descriptor while that thread is on the read or the write list.  *)
Pointer(s) ==
  /\ slot[s] # NULL => Owner(slot[s]) = s /\ thread[slot[s]].add_type = Kind[s]
  /\ s \in fdset <=> slot[s] # NULL /\ Type(slot[s]) \in {"read", "write"}

SchedulerInv ==
  /\ TypeOK
  /\ TypeNamesList
  /\ TimersSorted
  /\ \A t \in Thread : Fields(t)
  /\ \A s \in Slot : Pointer(s)

(* The types of the parts of the state, one by one. *)
LEMMA Types ==
  ASSUME TypeOK
  PROVE  /\ \A l \in Lists : list[l] \in Seq(Thread)
         /\ \A t \in Thread : thread[t] \in ThreadRecord
         /\ \A s \in Slot : slot[s] \in Thread \cup {NULL}
  BY DEF TypeOK, ThreadRecord

(* What the fields of an unused thread are, and are not. *)
LEMMA UnusedFields ==
  /\ Unused.type = "unused"
  /\ Unused.add_type = "unused" /\ Unused.add_type \notin Waiting \cup {"event"}
  BY DEF Unused, Waiting

(* thread_add_unused leaves a thread structure. *)
LEMMA UnusedType == Unused \in ThreadRecord
  BY DEF Unused, ThreadRecord

(* Threads leave their lists: those of M are freed or become ready, and    *)
(* nothing else about the other threads changes.                           *)
LEMMA ThreadsUnlinked ==
  ASSUME TypeOK, TypeOK', TypeNamesList, TimersSorted, NEW M \in SUBSET Thread,
         \A t \in Thread \ M : thread'[t] = thread[t],
         \A t \in M : thread'[t].type \in {"unused", "ready"},
         \A l \in Lists \ {"ready"} : /\ Sublist(list'[l], list[l])
                                      /\ Elems(list'[l]) = Elems(list[l]) \ M,
         Distinct(list'["ready"]),
         Elems(list'["ready"]) = {t \in Thread : thread'[t].type = "ready"}
  PROVE  TypeNamesList' /\ TimersSorted'
  <1>1. \A l \in Lists : list[l] \in Seq(Thread) /\ list'[l] \in Seq(Thread)
    BY DEF TypeOK
  <1>2. ASSUME NEW l \in Lists
        PROVE  Distinct(list'[l]) /\ Elems(list'[l]) = {t \in Thread : thread'[t].type = l}
    <2>1. CASE l = "ready"
      BY <2>1
    <2>2. CASE l # "ready"
      <3>1. Distinct(list[l]) /\ Elems(list[l]) = {t \in Thread : thread[t].type = l}
        BY DEF TypeNamesList, Type
      <3>2. Distinct(list'[l])
        BY <1>1, <2>2, <3>1, SublistDistinct
      <3>3. \A t \in Thread : t \notin M /\ thread[t].type = l <=> thread'[t].type = l
        <4>1. l # "unused"
          BY DEF Lists, Waiting
        <4> QED
          BY <2>2, <4>1
      <3>4. Elems(list'[l]) = {t \in Thread : thread'[t].type = l}
        BY <2>2, <3>1, <3>3
      <3> QED
        BY <3>2, <3>4
    <2> QED
      BY <2>1, <2>2
  <1>3. TypeNamesList'
    BY <1>2 DEF TypeNamesList, Type
  <1>4. TimersSorted'
    <2> SUFFICES ASSUME NEW l \in {"timer", "background"},
                        NEW i \in 1..Len(list'[l]), NEW j \in 1..Len(list'[l]), i < j
                 PROVE  thread'[list'[l][i]].sands <= thread'[list'[l][j]].sands
      BY DEF TimersSorted, Sands
    <2>1. l \in Lists \ {"ready"}
      BY DEF Lists, Waiting
    <2>2. PICK f \in [1..Len(list'[l]) -> 1..Len(list[l])] :
            /\ \A x, y \in 1..Len(list'[l]) : x < y => f[x] < f[y]
            /\ \A x \in 1..Len(list'[l]) : list'[l][x] = list[l][f[x]]
      BY <2>1 DEF Sublist
    <2>3. thread[list[l][f[i]]].sands <= thread[list[l][f[j]]].sands
      BY <2>2 DEF TimersSorted, Sands
    <2>4. list'[l][i] \in Elems(list'[l]) /\ list'[l][j] \in Elems(list'[l])
      BY DEF Elems
    <2>5. list'[l][i] \in Thread \ M /\ list'[l][j] \in Thread \ M
      BY <1>1, <2>1, <2>4
    <2> QED
      BY <2>2, <2>3, <2>5
  <1> QED
    BY <1>3, <1>4

(* An unused thread enters the list of its kind. *)
LEMMA ThreadLinked ==
  ASSUME TypeOK, TypeOK', TypeNamesList, TimersSorted, NEW t \in Thread,
         NEW kind \in Lists \ {"ready"}, thread[t].type = "unused",
         thread'[t].type = kind,
         \A u \in Thread \ {t} : thread'[u] = thread[u],
         \A l \in Lists \ {kind} : list'[l] = list[l],
         Distinct(list'[kind]), Elems(list'[kind]) = Elems(list[kind]) \cup {t},
         kind \in {"timer", "background"} =>
           \A i, j \in 1..Len(list'[kind]) :
             i < j => thread'[list'[kind][i]].sands <= thread'[list'[kind][j]].sands
  PROVE  TypeNamesList' /\ TimersSorted'
  <1>1. \A l \in Lists : list[l] \in Seq(Thread)
    BY DEF TypeOK
  <1>2. \A l \in Lists : t \notin Elems(list[l])
    BY DEF TypeNamesList, Type, Lists, Waiting
  <1>3. ASSUME NEW l \in Lists
        PROVE  Distinct(list'[l]) /\ Elems(list'[l]) = {u \in Thread : thread'[u].type = l}
    <2>1. Distinct(list[l]) /\ Elems(list[l]) = {u \in Thread : thread[u].type = l}
      BY DEF TypeNamesList, Type
    <2>2. CASE l = kind
      <3>1. \A u \in Thread : thread'[u].type = l <=> u = t \/ thread[u].type = l
        BY <2>2
      <3> QED
        BY <2>1, <2>2, <3>1
    <2>3. CASE l # kind
      <3>1. \A u \in Thread : thread'[u].type = l <=> thread[u].type = l
        BY <2>3 DEF Lists, Waiting
      <3> QED
        BY <2>1, <2>3, <3>1
    <2> QED
      BY <2>2, <2>3
  <1>4. TypeNamesList'
    BY <1>3 DEF TypeNamesList, Type
  <1>5. TimersSorted'
    <2> SUFFICES ASSUME NEW l \in {"timer", "background"}, l # kind,
                        NEW i \in 1..Len(list'[l]), NEW j \in 1..Len(list'[l]), i < j
                 PROVE  thread'[list'[l][i]].sands <= thread'[list'[l][j]].sands
      BY DEF TimersSorted, Sands
    <2>1. l \in Lists /\ list'[l] = list[l]
      BY DEF Lists, Waiting
    <2>2. list[l][i] \in Elems(list[l]) /\ list[l][j] \in Elems(list[l])
      BY <2>1 DEF Elems
    <2>3. list[l][i] \in Thread \ {t} /\ list[l][j] \in Thread \ {t}
      BY <1>1, <1>2, <2>1, <2>2
    <2> QED
      BY <2>1, <2>3 DEF TimersSorted, Sands
  <1> QED
    BY <1>4, <1>5

(* THREAD_ON: an unused thread and a NULL pointer come to belong together. *)
LEMMA PointerSet ==
  ASSUME SchedulerInv, NEW s \in Slot, NEW t \in Thread, NEW d \in Int,
         slot[s] = NULL, thread_get(t, Kind[s], s, d), slot' = [slot EXCEPT ![s] = t],
         fdset' = IF Kind[s] \in {"read", "write"} THEN fdset \cup {s} ELSE fdset
  PROVE  /\ \A u \in Thread : Fields(u)'
         /\ \A r \in Slot : Pointer(r)'
         /\ thread' \in [Thread -> ThreadRecord]
         /\ slot' \in [Slot -> Thread \cup {NULL}]
         /\ fdset' \subseteq Slot
  <1>1. /\ thread \in [Thread -> ThreadRecord]
        /\ slot \in [Slot -> Thread \cup {NULL}] /\ fdset \subseteq Slot
    BY DEF SchedulerInv, TypeOK, ThreadRecord
  <1>2. thread[t].type = "unused" /\ thread[t] = Unused
    BY DEF SchedulerInv, Fields, thread_get, Type
  <1>3. /\ thread'[t] = [type |-> Kind[s], add_type |-> Kind[s], owner |-> s, sands |-> d]
        /\ \A u \in Thread : u # t => thread'[u] = thread[u]
        /\ Kind[s] \in Waiting
    BY <1>1, SlotAssumption DEF thread_get
  <1>4. slot'[s] = t /\ \A r \in Slot : r # s => slot'[r] = slot[r]
    BY <1>1
  <1>5. t # NULL /\ s \notin Arg
    BY SlotAssumption
  <1>6. \A u \in Thread : thread[u].add_type \in Waiting => Owner(u) # s
    BY <1>5, SlotAssumption DEF SchedulerInv, Fields
  <1>7. \A r \in Slot : slot[r] # t
    BY <1>2, SlotAssumption DEF SchedulerInv, Pointer, Unused, Owner, Waiting
  <1>8. thread' \in [Thread -> ThreadRecord]
    BY <1>1, <1>3 DEF thread_get, ThreadRecord, Lists
  <1>9. ASSUME NEW u \in Thread
        PROVE  Fields(u)'
    <2>1. CASE u = t
      BY <1>3, <1>4, <2>1 DEF Fields, Type, Owner, Waiting
    <2>2. CASE u # t
      <3>1. thread'[u] = thread[u] /\ Fields(u)
        BY <1>3, <2>2 DEF SchedulerInv
      <3>2. thread[u].add_type \in Waiting => slot'[Owner(u)] = slot[Owner(u)]
        BY <1>4, <1>6, <3>1 DEF Fields
      <3> QED
        BY <3>1, <3>2 DEF Fields, Type, Owner
    <2> QED
      BY <2>1, <2>2
  <1>10. ASSUME NEW r \in Slot
         PROVE  Pointer(r)'
    <2>1. CASE r = s
      BY <1>3, <1>4, <1>5, <2>1 DEF SchedulerInv, Pointer, Type, Owner, Waiting
    <2>2. CASE r # s
      <3>1. slot'[r] = slot[r] /\ (slot[r] # NULL => thread'[slot[r]] = thread[slot[r]])
        BY <1>1, <1>3, <1>4, <1>7, <2>2
      <3>2. r \in fdset' <=> r \in fdset
        BY <2>2
      <3> QED
        BY <3>1, <3>2 DEF SchedulerInv, Pointer, Type, Owner
    <2> QED
      BY <2>1, <2>2
  <1> QED
    BY <1>1, <1>8, <1>9, <1>10

(* A call of a handler counts. *)
LEMMA CallCounts ==
  ASSUME TypeOK, InHandler, CallDone
  PROVE  /\ running' \in [add_type: Waiting \cup {"event", "idle", "main"},
                          owner: Slot \cup Arg \cup {NULL}]
         /\ ops' \in 0..MaxOps
  BY SlotAssumption DEF TypeOK, InHandler, CallDone

-----------------------------------------------------------------------------
(* The invariant is preserved by every step *)

(* THREAD_READ_ON and THREAD_WRITE_ON preserve the invariant. *)
LEMMA AddFd ==
  ASSUME SchedulerInv, NEW s \in Slot, thread_add_fd(s)
  PROVE  SchedulerInv'
  <1> DEFINE kind == Kind[s]
  <1>1. kind \in {"read", "write"} /\ kind \in Lists \ {"ready"} /\ slot[s] = NULL
    BY DEF thread_add_fd, Lists, Waiting
  <1>2. PICK t \in Thread : /\ thread_get(t, kind, s, 0)
                            /\ list' = [list EXCEPT ![kind] = Append(@, t)]
                            /\ slot' = [slot EXCEPT ![s] = t]
    BY DEF thread_add_fd
  <1>3. fdset' = (IF kind \in {"read", "write"} THEN fdset \cup {s} ELSE fdset) /\ 0 \in Int
    BY <1>1 DEF thread_add_fd
  <1>4. /\ \A u \in Thread : Fields(u)'
        /\ \A r \in Slot : Pointer(r)'
        /\ thread' \in [Thread -> ThreadRecord]
        /\ slot' \in [Slot -> Thread \cup {NULL}]
        /\ fdset' \subseteq Slot
    BY <1>1, <1>2, <1>3, PointerSet
  <1>5. TypeOK /\ TypeNamesList /\ TimersSorted
    BY DEF SchedulerInv
  <1>6. list \in [Lists -> Seq(Thread)] /\ thread \in [Thread -> ThreadRecord]
    BY <1>5 DEF TypeOK, ThreadRecord
  <1>7. /\ thread[t].type = "unused" /\ thread'[t].type = kind
        /\ \A u \in Thread \ {t} : thread'[u] = thread[u]
    BY <1>2, <1>6 DEF thread_get, Type
  <1>8. t \notin Elems(list[kind]) /\ Distinct(list[kind])
    BY <1>1, <1>5, <1>7 DEF TypeNamesList, Type
  <1>9. /\ list'[kind] = Append(list[kind], t)
        /\ \A l \in Lists \ {kind} : list'[l] = list[l]
    BY <1>1, <1>2, <1>6
  <1>10. /\ list'[kind] \in Seq(Thread) /\ Distinct(list'[kind])
         /\ Elems(list'[kind]) = Elems(list[kind]) \cup {t}
    BY <1>1, <1>6, <1>8, <1>9, AddedLast
  <1>11. list' \in [Lists -> Seq(Thread)]
    BY <1>1, <1>2, <1>6, <1>9, <1>10
  <1>12. TypeOK'
    BY <1>4, <1>5, <1>11, CallCounts DEF TypeOK, ThreadRecord, thread_add_fd
  <1>13. kind \notin {"timer", "background"}
    BY <1>1
  <1> HIDE DEF kind
  <1>14. TypeNamesList' /\ TimersSorted'
    BY <1>1, <1>5, <1>7, <1>9, <1>10, <1>12, <1>13, ThreadLinked
  <1> QED
    BY <1>4, <1>12, <1>14 DEF SchedulerInv

(* THREAD_TIMER_ON and thread_add_background preserve the invariant. *)
LEMMA AddTimer ==
  ASSUME SchedulerInv, NEW s \in Slot, NEW d \in Delay, thread_add_timer(s, d)
  PROVE  SchedulerInv'
  <1> DEFINE kind == Kind[s]
  <1>1. /\ kind \in {"timer", "background"} /\ kind \in Lists \ {"ready"}
        /\ slot[s] = NULL /\ d \in Int
    BY SlotAssumption DEF thread_add_timer, Lists, Waiting
  <1>2. PICK t \in Thread : /\ thread_get(t, kind, s, d)
                            /\ list' = [list EXCEPT ![kind] = InsertTimer(@, t, d)]
                            /\ slot' = [slot EXCEPT ![s] = t]
    BY DEF thread_add_timer
  <1>3. fdset' = fdset /\ kind \notin {"read", "write"}
    BY <1>1 DEF thread_add_timer
  <1>4. /\ \A u \in Thread : Fields(u)'
        /\ \A r \in Slot : Pointer(r)'
        /\ thread' \in [Thread -> ThreadRecord]
        /\ slot' \in [Slot -> Thread \cup {NULL}]
        /\ fdset' \subseteq Slot
    BY <1>1, <1>2, <1>3, PointerSet
  <1>5. TypeOK /\ TypeNamesList /\ TimersSorted
    BY DEF SchedulerInv
  <1>6. list \in [Lists -> Seq(Thread)] /\ thread \in [Thread -> ThreadRecord]
    BY <1>5 DEF TypeOK, ThreadRecord
  <1>7. /\ thread[t].type = "unused" /\ thread'[t].type = kind /\ thread'[t].sands = d
        /\ \A u \in Thread \ {t} : thread'[u] = thread[u]
    BY <1>2, <1>6 DEF thread_get, Type
  <1>8. t \notin Elems(list[kind]) /\ Distinct(list[kind]) /\ list[kind] \in Seq(Thread)
    BY <1>1, <1>5, <1>6, <1>7 DEF TypeNamesList, Type
  <1>9. /\ list'[kind] = InsertTimer(list[kind], t, d)
        /\ \A l \in Lists \ {kind} : list'[l] = list[l]
    BY <1>1, <1>2, <1>6
  <1>10. /\ \A u \in Thread : Sands(u) \in Int
         /\ \A i, j \in 1..Len(list[kind]) :
              i < j => Sands(list[kind][i]) <= Sands(list[kind][j])
    BY <1>1, <1>5, <1>6 DEF TimersSorted, Sands, ThreadRecord
  <1>11. /\ list'[kind] \in Seq(Thread) /\ Distinct(list'[kind])
         /\ Elems(list'[kind]) = Elems(list[kind]) \cup {t}
         /\ \A i, j \in 1..Len(list'[kind]) : i < j =>
              (IF list'[kind][i] = t THEN d ELSE Sands(list'[kind][i]))
                <= (IF list'[kind][j] = t THEN d ELSE Sands(list'[kind][j]))
    BY <1>1, <1>8, <1>9, <1>10, InsertProperties
  <1>12. list' \in [Lists -> Seq(Thread)]
    BY <1>1, <1>2, <1>6, <1>9, <1>11
  <1>13. TypeOK'
    BY <1>4, <1>5, <1>12, CallCounts DEF TypeOK, ThreadRecord, thread_add_timer
  <1> HIDE DEF kind
  <1>14. \A i, j \in 1..Len(list'[kind]) :
           i < j => thread'[list'[kind][i]].sands <= thread'[list'[kind][j]].sands
    <2>1. \A u \in Thread : thread'[u].sands = IF u = t THEN d ELSE Sands(u)
      BY <1>7 DEF Sands
    <2>2. \A i \in 1..Len(list'[kind]) : list'[kind][i] \in Thread
      BY <1>11
    <2> QED
      BY <1>11, <2>1, <2>2
  <1>15. TypeNamesList' /\ TimersSorted'
    BY <1>1, <1>5, <1>7, <1>9, <1>11, <1>13, <1>14, ThreadLinked
  <1> QED
    BY <1>4, <1>13, <1>15 DEF SchedulerInv

(* thread_add_event preserves the invariant. *)
LEMMA AddEvent ==
  ASSUME SchedulerInv, NEW a \in Arg, thread_add_event(a)
  PROVE  SchedulerInv'
  <1>1. "event" \in Lists \ {"ready"}
    BY DEF Lists, Waiting
  <1>2. PICK t \in Thread : /\ thread_get(t, "event", a, 0)
                            /\ list' = [list EXCEPT !["event"] = Append(@, t)]
    BY DEF thread_add_event
  <1>3. fdset' = fdset /\ slot' = slot
    BY DEF thread_add_event
  <1>4. TypeOK /\ TypeNamesList /\ TimersSorted
    BY DEF SchedulerInv
  <1>5. /\ list \in [Lists -> Seq(Thread)] /\ thread \in [Thread -> ThreadRecord]
        /\ slot \in [Slot -> Thread \cup {NULL}]
    BY <1>4 DEF TypeOK, ThreadRecord
  <1>6. /\ thread[t].type = "unused"
        /\ thread'[t] = [type |-> "event", add_type |-> "event", owner |-> a, sands |-> 0]
        /\ \A u \in Thread : u # t => thread'[u] = thread[u]
        /\ thread' \in [Thread -> ThreadRecord]
    BY <1>2, <1>5 DEF thread_get, Type, ThreadRecord, Lists
  <1>7. t \notin Elems(list["event"]) /\ Distinct(list["event"])
    BY <1>1, <1>4, <1>6 DEF TypeNamesList, Type
  <1>8. /\ list'["event"] = Append(list["event"], t)
        /\ \A l \in Lists \ {"event"} : list'[l] = list[l]
    BY <1>1, <1>2, <1>5
  <1>9. /\ list'["event"] \in Seq(Thread) /\ Distinct(list'["event"])
        /\ Elems(list'["event"]) = Elems(list["event"]) \cup {t}
    BY <1>1, <1>5, <1>7, <1>8, AddedLast
  <1>10. TypeOK'
    <2>1. list' \in [Lists -> Seq(Thread)]
      BY <1>1, <1>2, <1>5, <1>8, <1>9
    <2> QED
      BY <1>3, <1>4, <1>6, <2>1, CallCounts DEF TypeOK, ThreadRecord, thread_add_event
  <1>11. TypeNamesList' /\ TimersSorted'
    <2>1. thread'[t].type = "event"
      BY <1>6
    <2> QED
      BY <1>1, <1>4, <1>6, <1>8, <1>9, <1>10, <2>1, ThreadLinked
  <1>12. ASSUME NEW u \in Thread
         PROVE  Fields(u)'
    <2>1. CASE u = t
      BY <1>6, <2>1 DEF Fields, Type, Owner, Waiting
    <2>2. CASE u # t
      BY <1>3, <1>6, <2>2 DEF SchedulerInv, Fields, Type, Owner
    <2> QED
      BY <2>1, <2>2
  <1>13. ASSUME NEW s \in Slot
         PROVE  Pointer(s)'
    <2>1. thread[t] = Unused
      BY <1>6 DEF SchedulerInv, Fields, Type
    <2>2. slot[s] # t
      BY <2>1, SlotAssumption DEF SchedulerInv, Pointer, Unused, Owner, Waiting
    <2>3. slot[s] # NULL => thread'[slot[s]] = thread[slot[s]]
      BY <1>5, <1>6, <2>2
    <2> QED
      BY <1>3, <2>3 DEF SchedulerInv, Pointer, Type, Owner
  <1> QED
    BY <1>10, <1>11, <1>12, <1>13 DEF SchedulerInv

(* What a freed thread must be: a thread whose pointer, if any, was cleared. *)
LEMMA ThreadsFreed ==
  ASSUME SchedulerInv, NEW M \in SUBSET Thread, NEW t \in Thread,
         \A u \in Thread : thread'[u] = IF u \in M THEN Unused ELSE thread[u],
         \A u \in Thread : u \notin M /\ thread[u].add_type \in Waiting
                             => slot'[Owner(u)] = u
  PROVE  Fields(t)'
  <1>1. CASE t \in M
    BY <1>1 DEF Fields, Unused, Type, Owner, Waiting
  <1>2. CASE t \notin M
    <2>1. Fields(t) /\ thread'[t] = thread[t]
      BY <1>2 DEF SchedulerInv
    <2> QED
      BY <1>2, <2>1 DEF Fields, Type, Owner
  <1> QED
    BY <1>1, <1>2

(* THREAD_OFF preserves the invariant. *)
LEMMA Cancel ==
  ASSUME SchedulerInv, NEW s \in Slot, thread_cancel(s)
  PROVE  SchedulerInv'
  <1> DEFINE t == slot[s]
             kind == thread[t].type
  <1>1. /\ list \in [Lists -> Seq(Thread)] /\ thread \in [Thread -> ThreadRecord]
        /\ slot \in [Slot -> Thread \cup {NULL}] /\ fdset \subseteq Slot
        /\ TypeOK /\ TypeNamesList /\ TimersSorted
    BY DEF SchedulerInv, TypeOK, ThreadRecord
  <1>2. t \in Thread /\ thread[t].owner = s /\ thread[t].add_type = Kind[s]
    BY <1>1 DEF thread_cancel, SchedulerInv, Pointer, Owner
  <1>3. kind # "unused" /\ kind \in Lists
    <2>1. thread[t].add_type \in Waiting
      BY <1>2, SlotAssumption
    <2>2. thread[t] # Unused /\ thread[t] \in ThreadRecord
      BY <1>1, <1>2, <2>1 DEF Unused, Waiting
    <2> QED
      BY <1>2, <2>2 DEF SchedulerInv, Fields, Type, ThreadRecord
  <1>4. /\ fdset' = IF kind \in {"read", "write"} THEN fdset \ {s} ELSE fdset
        /\ list' = [list EXCEPT ![kind] = Without(@, t)]
        /\ thread' = [thread EXCEPT ![t] = Unused]
        /\ slot' = [slot EXCEPT ![s] = NULL]
    BY <1>2 DEF thread_cancel, FdCleared, Type, Owner
  <1>5. /\ slot'[s] = NULL /\ \A r \in Slot : r # s => slot'[r] = slot[r]
        /\ \A u \in Thread : thread'[u] = IF u \in {t} THEN Unused ELSE thread[u]
    BY <1>1, <1>2, <1>4
  <1>6. /\ list[kind] \in Seq(Thread) /\ Distinct(list[kind]) /\ t \in Elems(list[kind])
        /\ list'[kind] = Without(list[kind], t)
        /\ \A l \in Lists \ {kind} : list'[l] = list[l]
    BY <1>1, <1>2, <1>3, <1>4 DEF TypeNamesList, Type
  <1> HIDE DEF t, kind
  <1>7. /\ list'[kind] \in Seq(Thread) /\ Sublist(list'[kind], list[kind])
        /\ Elems(list'[kind]) = Elems(list[kind]) \ {t}
    BY <1>6, WithoutProperties
  <1>8. TypeOK'
    <2>1. list' \in [Lists -> Seq(Thread)]
      BY <1>1, <1>4, <1>6, <1>7
    <2>2. thread' \in [Thread -> ThreadRecord]
      BY <1>1, <1>4, UnusedType
    <2>3. slot' \in [Slot -> Thread \cup {NULL}] /\ fdset' \subseteq Slot
      BY <1>1, <1>4
    <2> QED
      BY <1>1, <2>1, <2>2, <2>3, CallCounts DEF TypeOK, ThreadRecord, thread_cancel
  <1>9. TypeNamesList' /\ TimersSorted'
    <2>1. ASSUME NEW l \in Lists
          PROVE  Sublist(list'[l], list[l]) /\ Elems(list'[l]) = Elems(list[l]) \ {t}
      <3>1. CASE l = kind
        BY <1>7, <3>1
      <3>2. CASE l # kind
        <4>1. list'[l] = list[l] /\ t \notin Elems(list[l])
          BY <1>1, <1>6, <3>2 DEF TypeNamesList, Type, kind
        <4>2. Sublist(list[l], list[l])
          BY <1>1, SublistSame
        <4> QED
          BY <4>1, <4>2
      <3> QED
        BY <3>1, <3>2
    <2>2. /\ Distinct(list'["ready"])
          /\ Elems(list'["ready"]) = {u \in Thread : thread'[u].type = "ready"}
      <3>1. "ready" \in Lists
        BY DEF Lists
      <3>2. /\ Distinct(list["ready"])
            /\ Elems(list["ready"]) = {u \in Thread : thread[u].type = "ready"}
        BY <1>1, <3>1 DEF TypeNamesList, Type
      <3>3. Distinct(list'["ready"])
        BY <1>1, <1>8, <2>1, <3>1, <3>2, SublistDistinct DEF TypeOK
      <3>4. \A u \in Thread : thread'[u].type = "ready" <=> u # t /\ thread[u].type = "ready"
        <4>1. thread'[t].type # "ready"
          BY <1>1, <1>2, <1>5, UnusedFields
        <4>2. \A u \in Thread : u # t => thread'[u] = thread[u]
          BY <1>5
        <4> QED
          BY <4>1, <4>2
      <3> QED
        BY <2>1, <3>1, <3>2, <3>3, <3>4
    <2>3. /\ {t} \in SUBSET Thread /\ \A u \in {t} : thread'[u].type \in {"unused", "ready"}
          /\ \A u \in Thread \ {t} : thread'[u] = thread[u]
      BY <1>2, <1>5 DEF Unused
    <2> QED
      BY <1>1, <1>8, <2>1, <2>2, <2>3, ThreadsUnlinked
  <1>10. \A u \in Thread : u # t /\ thread[u].add_type \in Waiting => slot'[Owner(u)] = u
    BY <1>5 DEF SchedulerInv, Fields, t
  <1>11. \A u \in Thread : Fields(u)'
    BY <1>2, <1>5, <1>10, ThreadsFreed
  <1>12. ASSUME NEW r \in Slot
         PROVE  Pointer(r)'
    <2>1. CASE r = s
      BY <1>4, <1>5, <2>1 DEF SchedulerInv, Pointer, Type, t, kind
    <2>2. CASE r # s
      <3>1. slot'[r] = slot[r] /\ (r \in fdset' <=> r \in fdset)
        BY <1>4, <1>5, <2>2
      <3>2. slot[r] # NULL => thread'[slot[r]] = thread[slot[r]]
        BY <1>1, <1>2, <1>5, <2>2 DEF SchedulerInv, Pointer, Owner
      <3> QED
        BY <3>1, <3>2 DEF SchedulerInv, Pointer, Type, Owner
    <2> QED
      BY <2>1, <2>2
  <1> QED
    BY <1>8, <1>9, <1>11, <1>12 DEF SchedulerInv

(* thread_cancel_event preserves the invariant. *)
LEMMA CancelEvent ==
  ASSUME SchedulerInv, NEW a \in Arg, thread_cancel_event(a)
  PROVE  SchedulerInv'
  <1> DEFINE M == {t \in Thread : t \in Elems(list["event"]) /\ Owner(t) = a}
             K == {t \in Thread : Owner(t) # a}
  <1>1. /\ list \in [Lists -> Seq(Thread)] /\ thread \in [Thread -> ThreadRecord]
        /\ slot \in [Slot -> Thread \cup {NULL}]
        /\ TypeOK /\ TypeNamesList /\ TimersSorted
    BY DEF SchedulerInv, TypeOK, ThreadRecord
  <1>2. "event" \in Lists /\ "ready" \in Lists
    BY DEF Lists
  <1>3. /\ list' = [list EXCEPT !["event"] = Keep(@, K)]
        /\ thread' = [t \in Thread |-> IF t \in M THEN Unused ELSE thread[t]]
        /\ fdset' = fdset /\ slot' = slot
    BY DEF thread_cancel_event
  <1>4. \A t \in M : thread[t].type = "event"
    BY <1>1, <1>2 DEF TypeNamesList, Type
  <1>5. /\ list'["event"] = Keep(list["event"], K)
        /\ \A l \in Lists \ {"event"} : list'[l] = list[l]
        /\ list["event"] \in Seq(Thread)
    BY <1>1, <1>2, <1>3
  <1>6. /\ list'["event"] \in Seq(Thread) /\ Sublist(list'["event"], list["event"])
        /\ Elems(list'["event"]) = Elems(list["event"]) \cap K
    BY <1>5, KeepProperties, Zenon
  <1>7. Elems(list["event"]) \cap K = Elems(list["event"]) \ M
    <2>1. Elems(list["event"]) \subseteq Thread
      BY <1>5 DEF Elems
    <2> QED
      BY <2>1
  <1> HIDE DEF M, K
  <1>8. TypeOK'
    <2>1. list' \in [Lists -> Seq(Thread)]
      BY <1>1, <1>3, <1>5, <1>6
    <2>2. thread' \in [Thread -> ThreadRecord]
      BY <1>1, <1>3, UnusedType
    <2> QED
      BY <1>1, <1>3, <2>1, <2>2, CallCounts DEF TypeOK, ThreadRecord, thread_cancel_event
  <1>9. \A t \in Thread : thread'[t] = IF t \in M THEN Unused ELSE thread[t]
    BY <1>3
  <1>10. M \in SUBSET Thread
    BY DEF M
  <1>11. TypeNamesList' /\ TimersSorted'
    <2>1. ASSUME NEW l \in Lists
          PROVE  Sublist(list'[l], list[l]) /\ Elems(list'[l]) = Elems(list[l]) \ M
      <3>1. CASE l = "event"
        BY <1>6, <1>7, <3>1
      <3>2. CASE l # "event"
        <4>1. list'[l] = list[l] /\ \A t \in M : t \notin Elems(list[l])
          BY <1>1, <1>4, <1>5, <3>2 DEF TypeNamesList, Type
        <4>2. Sublist(list[l], list[l])
          BY <1>1, SublistSame
        <4> QED
          BY <4>1, <4>2
      <3> QED
        BY <3>1, <3>2
    <2>2. list'["ready"] = list["ready"]
      BY <1>2, <1>5
    <2>3. \A t \in Thread : thread'[t].type = "ready" <=> thread[t].type = "ready"
      BY <1>4, <1>9 DEF Unused
    <2>4. /\ Distinct(list'["ready"])
          /\ Elems(list'["ready"]) = {u \in Thread : thread'[u].type = "ready"}
      BY <1>1, <1>2, <2>2, <2>3 DEF TypeNamesList, Type
    <2>5. /\ \A u \in M : thread'[u].type \in {"unused", "ready"}
          /\ \A u \in Thread \ M : thread'[u] = thread[u]
      BY <1>9, <1>10 DEF Unused
    <2> QED
      BY <1>1, <1>8, <1>10, <2>1, <2>4, <2>5, ThreadsUnlinked
  <1>12. \A u \in Thread : u \notin M /\ thread[u].add_type \in Waiting => slot'[Owner(u)] = u
    BY <1>3 DEF SchedulerInv, Fields
  <1>13. \A u \in Thread : Fields(u)'
    BY <1>9, <1>10, <1>12, ThreadsFreed
  <1>14. ASSUME NEW s \in Slot
         PROVE  Pointer(s)'
    <2>1. slot[s] # NULL => slot[s] \notin M
      <3> SUFFICES ASSUME slot[s] # NULL, slot[s] \in M
                   PROVE  FALSE
        OBVIOUS
      <3>1. slot[s] \in Thread /\ thread[slot[s]].add_type \in Waiting
        BY <1>10, SlotAssumption DEF SchedulerInv, Pointer
      <3>2. thread[slot[s]].type = "event"
        BY <1>4
      <3> QED
        BY <3>1, <3>2 DEF SchedulerInv, Fields, Type, Waiting
    <2>2. slot[s] # NULL => thread'[slot[s]] = thread[slot[s]]
      BY <1>1, <1>9, <2>1
    <2> QED
      BY <1>3, <2>2 DEF SchedulerInv, Pointer, Type, Owner
  <1> QED
    BY <1>8, <1>11, <1>13, <1>14 DEF SchedulerInv

(* thread_call returns. *)
LEMMA Return ==
  ASSUME SchedulerInv, thread_call_return
  PROVE  SchedulerInv'
  <1>1. /\ list' = list /\ thread' = thread /\ fdset' = fdset /\ slot' = slot
        /\ running' = Idle /\ ops' = 0
    BY DEF thread_call_return
  <1>2. TypeOK'
    BY <1>1, SlotAssumption DEF SchedulerInv, TypeOK, Idle
  <1>3. TypeNamesList' /\ TimersSorted'
    BY <1>1 DEF SchedulerInv, TypeNamesList, TimersSorted, Type, Sands
  <1>4. \A t \in Thread : Fields(t)'
    BY <1>1 DEF SchedulerInv, Fields, Type, Owner
  <1>5. \A s \in Slot : Pointer(s)'
    BY <1>1 DEF SchedulerInv, Pointer, Type, Owner
  <1> QED
    BY <1>2, <1>3, <1>4, <1>5 DEF SchedulerInv

(* Time passes for all timers alike. *)
LEMMA TickStep ==
  ASSUME SchedulerInv, Tick
  PROVE  SchedulerInv'
  <1>1. /\ list' = list /\ fdset' = fdset /\ slot' = slot
        /\ running' = running /\ ops' = ops
        /\ thread' = [t \in Thread |-> IF t \in Timers THEN [thread[t] EXCEPT !.sands = @ - 1]
                                                       ELSE thread[t]]
    BY DEF Tick
  <1>2. /\ TypeOK /\ TypeNamesList /\ TimersSorted
        /\ \A t \in Thread : thread[t] \in ThreadRecord
        /\ \A l \in Lists : list[l] \in Seq(Thread)
    BY DEF SchedulerInv, TypeOK, ThreadRecord
  <1>3. ASSUME NEW t \in Thread
        PROVE  /\ thread'[t] \in ThreadRecord
               /\ thread'[t].type = thread[t].type
               /\ thread'[t].add_type = thread[t].add_type
               /\ thread'[t].owner = thread[t].owner
               /\ t \in Timers => thread'[t].sands = thread[t].sands - 1
               /\ t \notin Timers => thread'[t] = thread[t]
    <2>1. thread[t] \in ThreadRecord
      BY <1>2
    <2>2. CASE t \in Timers
      <3>1. thread'[t] = [thread[t] EXCEPT !.sands = @ - 1]
        BY <1>1, <2>2
      <3> QED
        BY <2>1, <2>2, <3>1 DEF ThreadRecord
    <2>3. CASE t \notin Timers
      BY <1>1, <2>1, <2>3
    <2> QED
      BY <2>2, <2>3
  <1>4. TypeOK'
    <2>1. thread' \in [Thread -> ThreadRecord]
      BY <1>1, <1>3
    <2> QED
      BY <1>1, <1>2, <2>1 DEF TypeOK, ThreadRecord
  <1>5. TypeNamesList'
    BY <1>1, <1>2, <1>3 DEF TypeNamesList, Type
  <1>6. TimersSorted'
    <2> SUFFICES ASSUME NEW l \in {"timer", "background"},
                        NEW i \in 1..Len(list[l]), NEW j \in 1..Len(list[l]), i < j
                 PROVE  thread'[list[l][i]].sands <= thread'[list[l][j]].sands
      BY <1>1 DEF TimersSorted, Sands
    <2>1. l \in Lists
      BY DEF Lists, Waiting
    <2>2. /\ list[l][i] \in Thread /\ list[l][i] \in Timers
          /\ list[l][j] \in Thread /\ list[l][j] \in Timers
      BY <1>2, <2>1 DEF Timers, Elems
    <2>3. /\ thread'[list[l][i]].sands = thread[list[l][i]].sands - 1
          /\ thread'[list[l][j]].sands = thread[list[l][j]].sands - 1
      BY <1>3, <2>2
    <2>4. thread[list[l][i]].sands \in Int /\ thread[list[l][j]].sands \in Int
      BY <1>2, <2>2 DEF ThreadRecord
    <2>5. thread[list[l][i]].sands <= thread[list[l][j]].sands
      BY <1>2 DEF TimersSorted, Sands
    <2>6. \A x, y \in Int : x <= y => x - 1 <= y - 1
      OBVIOUS
    <2>7. thread[list[l][i]].sands - 1 <= thread[list[l][j]].sands - 1
      BY <2>4, <2>5, <2>6, Zenon
    <2> QED
      BY <2>3, <2>7, Zenon
  <1>7. ASSUME NEW t \in Thread
        PROVE  Fields(t)'
    <2>1. t \in Timers => thread[t].type # "unused"
      BY <1>2 DEF Timers, TypeNamesList, Type, Lists, Waiting
    <2>2. Fields(t)
      BY DEF SchedulerInv
    <2> QED
      BY <1>1, <1>3, <2>1, <2>2 DEF Fields, Type, Owner
  <1>8. ASSUME NEW s \in Slot
        PROVE  Pointer(s)'
    <2>1. slot[s] \in Thread \cup {NULL}
      BY <1>2, Types
    <2>2. Pointer(s)
      BY DEF SchedulerInv
    <2> QED
      BY <1>1, <1>3, <2>1, <2>2 DEF Pointer, Type, Owner
  <1> QED
    BY <1>4, <1>5, <1>6, <1>7, <1>8 DEF SchedulerInv

(* The threads of ready are taken from their lists, and the first of them  *)
(* runs: its structure is freed and the pointer to it cleared.             *)
LEMMA Run ==
  ASSUME SchedulerInv, NEW l \in [Lists -> Seq(Thread)], NEW th \in [Thread -> ThreadRecord],
         NEW M, M = Elems(l["ready"]), Distinct(l["ready"]), l["ready"] # <<>>,
         \A t \in Thread \ M : th[t] = thread[t],
         \A t \in M : /\ th[t].type = "ready" /\ thread[t].type # "unused"
                      /\ th[t].add_type = thread[t].add_type
                      /\ th[t].owner = thread[t].owner
                      /\ thread[t].type = "event" => t = Head(l["ready"]),
         \A k \in Lists \ {"ready"} : Sublist(l[k], list[k]) /\ Elems(l[k]) = Elems(list[k]) \ M,
         Elems(list["ready"]) \subseteq M,
         fdset' \subseteq fdset,
         \A s \in fdset : s \in fdset' <=> slot[s] \notin M,
         thread_run(l, th)
  PROVE  SchedulerInv'
  <1> DEFINE ready == l["ready"]
             h == Head(ready)
  <1>1. /\ thread \in [Thread -> ThreadRecord] /\ list \in [Lists -> Seq(Thread)]
        /\ slot \in [Slot -> Thread \cup {NULL}] /\ fdset \subseteq Slot
        /\ TypeOK /\ TypeNamesList /\ TimersSorted
    BY DEF SchedulerInv, TypeOK, ThreadRecord
  <1>2. "ready" \in Lists /\ ready \in Seq(Thread)
    BY DEF Lists
  <1>3. /\ list' = [l EXCEPT !["ready"] = Tail(ready)]
        /\ thread' = [th EXCEPT ![h] = Unused]
        /\ running' = [add_type |-> th[h].add_type, owner |-> th[h].owner]
        /\ slot' = SlotsAfterRun(h)
        /\ ops' = ops
    BY DEF thread_run
  <1>4. /\ Tail(ready) \in Seq(Thread) /\ Distinct(Tail(ready)) /\ h \in M
        /\ Elems(Tail(ready)) = M \ {h}
    BY <1>2, HeadTaken
  <1>5. M \in SUBSET Thread
    BY <1>2 DEF Elems
  <1>6. /\ list'["ready"] = Tail(ready)
        /\ \A k \in Lists \ {"ready"} : list'[k] = l[k]
        /\ list' \in [Lists -> Seq(Thread)]
    BY <1>2, <1>3, <1>4
  <1> HIDE DEF h, ready
  <1>7. /\ \A t \in Thread \ M : thread'[t] = thread[t]
        /\ thread'[h] = Unused
        /\ \A t \in M : t # h => thread'[t] = th[t]
    BY <1>3, <1>4, <1>5
  <1>8. thread' \in [Thread -> ThreadRecord]
    BY <1>3, <1>4, <1>5, UnusedType
  <1>9. Fields(h) /\ thread[h].add_type # "unused" /\ thread[h] \in ThreadRecord
    BY <1>1, <1>4, <1>5 DEF SchedulerInv, Fields, Type
  <1>10. \A s \in Slot :
           /\ slot'[s] \in {slot[s], NULL}
           /\ slot[s] = h => slot'[s] = NULL
           /\ slot[s] # h => slot'[s] = slot[s]
    <2>1. CASE thread[h].add_type = "event"
      <3>1. Owner(h) \notin Slot
        BY <1>9, <2>1, SlotAssumption DEF Fields
      <3>2. ASSUME NEW s \in Slot, slot[s] = h
            PROVE  FALSE
        <4>1. h # NULL /\ Kind[s] \in Waiting /\ "event" \notin Waiting
          BY <1>4, <1>5, SlotAssumption DEF Waiting
        <4>2. thread[h].add_type = Kind[s]
          BY <3>2, <4>1 DEF SchedulerInv, Pointer
        <4> QED
          BY <2>1, <4>1, <4>2
      <3> QED
        BY <1>3, <3>1, <3>2 DEF SlotsAfterRun
    <2>2. CASE thread[h].add_type # "event"
      <3>1. thread[h].add_type \in Waiting
        BY <1>9, <2>2 DEF ThreadRecord
      <3>2. Owner(h) \in Slot /\ slot[Owner(h)] = h
        BY <1>9, <3>1 DEF Fields
      <3>3. \A s \in Slot : slot[s] = h => s = Owner(h)
        BY <1>4, <1>5, SlotAssumption DEF SchedulerInv, Pointer
      <3> QED
        BY <1>1, <1>3, <3>2, <3>3 DEF SlotsAfterRun
    <2> QED
      BY <2>1, <2>2
  <1>11. slot' \in [Slot -> Thread \cup {NULL}]
    BY <1>1, <1>3 DEF SlotsAfterRun
  <1>12. TypeOK'
    <2>1. running' \in [add_type: Waiting \cup {"event", "idle", "main"},
                       owner: Slot \cup Arg \cup {NULL}]
      <3>1. th[h].add_type = thread[h].add_type /\ th[h].owner = thread[h].owner
        BY <1>4
      <3> QED
        BY <1>3, <1>9, <3>1 DEF ThreadRecord
    <2>2. ops' \in 0..MaxOps /\ fdset' \subseteq Slot
      BY <1>1, <1>3 DEF TypeOK
    <2> QED
      BY <1>6, <1>8, <1>11, <2>1, <2>2 DEF TypeOK, ThreadRecord
  <1>13. TypeNamesList' /\ TimersSorted'
    <2>1. /\ \A t \in M : thread'[t].type \in {"unused", "ready"}
          /\ \A t \in M : t # h <=> thread'[t].type = "ready"
      <3>1. Unused.type = "unused"
        BY DEF Unused
      <3>2. \A t \in M : t # h => thread'[t].type = "ready"
        BY <1>7
      <3> QED
        BY <1>7, <3>1, <3>2
    <2>2. \A t \in Thread \ M : thread'[t].type # "ready"
      BY <1>1, <1>2, <1>7 DEF TypeNamesList, Type
    <2>3. M \ {h} = {t \in Thread : thread'[t].type = "ready"}
      BY <1>5, <2>1, <2>2
    <2>4. /\ Distinct(list'["ready"])
          /\ Elems(list'["ready"]) = {t \in Thread : thread'[t].type = "ready"}
      BY <1>4, <1>6, <2>3
    <2>5. \A k \in Lists \ {"ready"} : /\ Sublist(list'[k], list[k])
                                      /\ Elems(list'[k]) = Elems(list[k]) \ M
      BY <1>6
    <2> QED
      BY <1>1, <1>5, <1>7, <1>12, <2>1, <2>4, <2>5, ThreadsUnlinked
  <1>14. ASSUME NEW t \in Thread
         PROVE  Fields(t)'
    <2>1. CASE t = h
      <3>1. /\ thread'[t] = Unused /\ thread'[t].type = "unused"
            /\ thread'[t].add_type \notin Waiting \cup {"event"}
        BY <1>7, <2>1, UnusedFields
      <3> QED
        BY <3>1 DEF Fields, Type
    <2>2. CASE t # h
      <3>1. Fields(t)
        BY DEF SchedulerInv
      <3>2. thread[t].add_type \in Waiting => slot'[Owner(t)] = t
        BY <1>10, <2>2, <3>1 DEF Fields
      <3>3. CASE t \in M
        <4>1. /\ thread'[t].type = "ready" /\ thread[t].type \notin {"unused", "event"}
              /\ thread'[t].add_type = thread[t].add_type
              /\ thread'[t].owner = thread[t].owner
          BY <1>7, <2>2, <3>3 DEF h, ready
        <4> QED
          BY <3>1, <3>2, <4>1 DEF Fields, Type, Owner
      <3>4. CASE t \notin M
        <4>1. thread'[t] = thread[t]
          BY <1>7, <3>4
        <4> QED
          BY <3>1, <3>2, <4>1 DEF Fields, Type, Owner
      <3> QED
        BY <3>3, <3>4
    <2> QED
      BY <2>1, <2>2
  <1>15. ASSUME NEW s \in Slot
         PROVE  Pointer(s)'
    <2>1. Pointer(s) /\ slot[s] \in Thread \cup {NULL}
      BY <1>1 DEF SchedulerInv
    <2>2. CASE slot[s] = h
      <3>1. slot'[s] = NULL /\ s \notin fdset'
        BY <1>4, <1>10, <2>2
      <3> QED
        BY <3>1 DEF Pointer
    <2>3. CASE slot[s] = NULL
      <3>1. slot'[s] = NULL /\ s \notin fdset'
        BY <1>10, <2>1, <2>3 DEF Pointer
      <3> QED
        BY <3>1 DEF Pointer
    <2>4. CASE slot[s] \in M /\ slot[s] # h
      <3>1. slot'[s] = slot[s] /\ s \notin fdset'
        BY <1>10, <2>4
      <3>2. thread'[slot[s]] = th[slot[s]]
        BY <1>7, <2>4
      <3>3. /\ th[slot[s]].type = "ready"
            /\ th[slot[s]].add_type = thread[slot[s]].add_type
            /\ th[slot[s]].owner = thread[slot[s]].owner
        BY <2>4
      <3> QED
        BY <2>1, <3>1, <3>2, <3>3 DEF Pointer, Type, Owner
    <2>5. CASE slot[s] \in Thread \ M
      <3>1. /\ slot'[s] = slot[s] /\ (s \in fdset' <=> s \in fdset)
            /\ thread'[slot[s]] = thread[slot[s]]
        BY <1>4, <1>7, <1>10, <2>5
      <3> QED
        BY <2>1, <3>1 DEF Pointer, Type, Owner
    <2> QED
      BY <1>5, <2>1, <2>2, <2>3, <2>4, <2>5
  <1> QED
    BY <1>12, <1>13, <1>14, <1>15 DEF SchedulerInv

(* thread_fetch with threads ready preserves the invariant. *)
LEMMA FetchReady ==
  ASSUME SchedulerInv, thread_fetch_ready
  PROVE  SchedulerInv'
  <1> DEFINE M == Elems(list["ready"])
  <1>1. /\ list \in [Lists -> Seq(Thread)] /\ thread \in [Thread -> ThreadRecord]
        /\ TypeNamesList /\ "ready" \in Lists /\ slot \in [Slot -> Thread \cup {NULL}]
        /\ fdset \subseteq Slot
    BY DEF SchedulerInv, TypeOK, ThreadRecord, Lists
  <1>2. thread_run(list, thread) /\ list["ready"] # <<>> /\ fdset' = fdset
    BY DEF thread_fetch_ready
  <1>3. Distinct(list["ready"]) /\ \A t \in M : t \in Thread /\ thread[t].type = "ready"
    BY <1>1 DEF TypeNamesList, Type
  <1>4. \A k \in Lists \ {"ready"} : /\ Sublist(list[k], list[k])
                                    /\ Elems(list[k]) = Elems(list[k]) \ M
    <2> SUFFICES ASSUME NEW k \in Lists \ {"ready"}
                 PROVE  Sublist(list[k], list[k]) /\ Elems(list[k]) = Elems(list[k]) \ M
      OBVIOUS
    <2>1. \A t \in Elems(list[k]) : thread[t].type = k
      BY <1>1 DEF TypeNamesList, Type
    <2>2. Elems(list[k]) = Elems(list[k]) \ M
      BY <1>3, <2>1
    <2> QED
      BY <1>1, <2>2, SublistSame
  <1>5. \A s \in fdset : s \in fdset' <=> slot[s] \notin M
    <2>1. \A s \in fdset : thread[slot[s]].type \in {"read", "write"}
      BY <1>1 DEF SchedulerInv, Pointer, Type
    <2> QED
      BY <1>2, <1>3, <2>1
  <1>6. \A t \in M : /\ thread[t].type = "ready" /\ thread[t].type # "unused"
                     /\ thread[t].type = "event" => t = Head(list["ready"])
    BY <1>3
  <1> HIDE DEF M
  <1> QED
    BY <1>1, <1>2, <1>3, <1>4, <1>5, <1>6, Run DEF M

(* thread_process and thread_timer_process move at most one thread. *)
LEMMA OneMoved ==
  ASSUME NEW q \in Seq(Thread), NEW r \in {thread_process(q), thread_timer_process(q)}
  PROVE  /\ r \in Seq(Thread) /\ Distinct(r) /\ Elems(r) \subseteq Elems(q)
         /\ \A t \in Elems(r) : r # <<>> /\ t = Head(r)
  <1>1. CASE r = <<>>
    BY <1>1 DEF Elems, Distinct
  <1>2. CASE r # <<>>
    <2>1. q # <<>> /\ r = <<Head(q)>>
      BY <1>2 DEF thread_process, thread_timer_process
    <2>2. Head(q) = q[1] /\ q[1] \in Thread /\ 1 \in 1..Len(q)
      BY <2>1
    <2>3. r \in Seq(Thread) /\ Len(r) = 1 /\ r[1] = q[1] /\ Head(r) = q[1]
      BY <2>1, <2>2
    <2>4. \A i \in 1..Len(r) : i = 1
      BY <2>3
    <2> QED
      BY <1>2, <2>2, <2>3, <2>4 DEF Elems, Distinct
  <1> QED
    BY <1>1, <1>2

(* Every list of the scheduler holds the threads of its type. *)
LEMMA ListsApart ==
  ASSUME TypeNamesList, NEW k \in Lists, NEW t \in Elems(list[k])
  PROVE  t \in Thread /\ thread[t].type = k
  BY DEF TypeNamesList, Type

(* thread_fetch with none ready preserves the invariant. *)
LEMMA FetchSelect ==
  ASSUME SchedulerInv, NEW io \in SUBSET fdset, thread_fetch_select(io)
  PROVE  SchedulerInv'
  <1> DEFINE a == thread_process(list["event"])
             b == thread_timer_process(list["timer"])
             c == thread_process_fd(list["read"], io)
             d == thread_process_fd(list["write"], io)
             e == thread_timer_process(list["background"])
             ready == a \o b \o c \o d \o e
             M == Elems(ready)
             l == [k \in Lists |-> IF k = "ready" THEN ready ELSE Keep(list[k], Thread \ M)]
             th == [t \in Thread |-> IF t \in M THEN [thread[t] EXCEPT !.type = "ready"]
                                                ELSE thread[t]]
  <1>1. /\ list \in [Lists -> Seq(Thread)] /\ thread \in [Thread -> ThreadRecord]
        /\ TypeNamesList /\ slot \in [Slot -> Thread \cup {NULL}] /\ fdset \subseteq Slot
    BY DEF SchedulerInv, TypeOK, ThreadRecord
  <1>2. /\ "event" \in Lists /\ "timer" \in Lists /\ "read" \in Lists
        /\ "write" \in Lists /\ "background" \in Lists /\ "ready" \in Lists
    BY DEF Lists, Waiting
  <1>3. /\ list["ready"] = <<>> /\ ready # <<>> /\ fdset' = fdset \ io
        /\ thread_run(l, th)
    BY DEF thread_fetch_select
  <1>4. /\ a \in Seq(Thread) /\ Distinct(a) /\ Elems(a) \subseteq Elems(list["event"])
        /\ \A t \in Elems(a) : a # <<>> /\ t = Head(a)
    BY <1>1, <1>2, OneMoved
  <1>5. b \in Seq(Thread) /\ Distinct(b) /\ Elems(b) \subseteq Elems(list["timer"])
    BY <1>1, <1>2, OneMoved
  <1>6. e \in Seq(Thread) /\ Distinct(e) /\ Elems(e) \subseteq Elems(list["background"])
    BY <1>1, <1>2, OneMoved
  <1>7. ASSUME NEW k \in {"read", "write"}
        PROVE  LET q == thread_process_fd(list[k], io)
               IN  /\ q \in Seq(Thread) /\ Distinct(q)
                   /\ Elems(q) = Elems(list[k]) \cap {t \in Thread : Owner(t) \in io}
    <2>1. list[k] \in Seq(Thread) /\ Distinct(list[k])
      BY <1>1, <1>2 DEF TypeNamesList
    <2> QED
      BY <2>1, KeepProperties, SublistDistinct DEF thread_process_fd
  <1>8. /\ c \in Seq(Thread) /\ Distinct(c)
        /\ Elems(c) = Elems(list["read"]) \cap {t \in Thread : Owner(t) \in io}
    BY <1>7
  <1>9. /\ d \in Seq(Thread) /\ Distinct(d)
        /\ Elems(d) = Elems(list["write"]) \cap {t \in Thread : Owner(t) \in io}
    BY <1>7
  <1> HIDE DEF a, b, c, d, e
  <1>10. /\ \A t \in Elems(a) : t \in Thread /\ thread[t].type = "event"
         /\ \A t \in Elems(b) : t \in Thread /\ thread[t].type = "timer"
         /\ \A t \in Elems(c) : t \in Thread /\ thread[t].type = "read"
         /\ \A t \in Elems(d) : t \in Thread /\ thread[t].type = "write"
         /\ \A t \in Elems(e) : t \in Thread /\ thread[t].type = "background"
    BY <1>1, <1>2, <1>4, <1>5, <1>6, <1>8, <1>9, ListsApart
  <1>11. /\ a \o b \in Seq(Thread) /\ Distinct(a \o b)
         /\ Elems(a \o b) = Elems(a) \cup Elems(b)
         /\ a # <<>> => a \o b # <<>> /\ Head(a \o b) = Head(a)
    <2>1. Elems(a) \cap Elems(b) = {}
      BY <1>10
    <2> QED
      BY <1>4, <1>5, <2>1, Joined
  <1>12. /\ a \o b \o c \in Seq(Thread) /\ Distinct(a \o b \o c)
         /\ Elems(a \o b \o c) = Elems(a \o b) \cup Elems(c)
         /\ a \o b # <<>> => a \o b \o c # <<>> /\ Head(a \o b \o c) = Head(a \o b)
    <2>1. Elems(a \o b) \cap Elems(c) = {}
      BY <1>10, <1>11
    <2> QED
      BY <1>8, <1>11, <2>1, Joined
  <1>13. /\ a \o b \o c \o d \in Seq(Thread) /\ Distinct(a \o b \o c \o d)
         /\ Elems(a \o b \o c \o d) = Elems(a \o b \o c) \cup Elems(d)
         /\ a \o b \o c # <<>> =>
              a \o b \o c \o d # <<>> /\ Head(a \o b \o c \o d) = Head(a \o b \o c)
    <2>1. Elems(a \o b \o c) \cap Elems(d) = {}
      BY <1>10, <1>11, <1>12
    <2> QED
      BY <1>9, <1>12, <2>1, Joined
  <1>14. /\ ready \in Seq(Thread) /\ Distinct(ready)
         /\ Elems(ready) = Elems(a \o b \o c \o d) \cup Elems(e)
         /\ a \o b \o c \o d # <<>> => Head(ready) = Head(a \o b \o c \o d)
    <2>1. Elems(a \o b \o c \o d) \cap Elems(e) = {}
      BY <1>10, <1>11, <1>12, <1>13
    <2> QED
      BY <1>6, <1>13, <2>1, Joined
  <1>15. /\ M = Elems(a) \cup Elems(b) \cup Elems(c) \cup Elems(d) \cup Elems(e)
         /\ a # <<>> => Head(ready) = Head(a)
    BY <1>11, <1>12, <1>13, <1>14
  <1> HIDE DEF ready
  <1>16. M = Elems(l["ready"]) /\ l["ready"] = ready
    BY <1>2
  <1> HIDE DEF M
  <1>17. /\ \A t \in M : t \in Thread
         /\ \A t \in M : thread[t].type \notin {"unused", "ready"}
         /\ \A t \in M : thread[t].type = "event" => t = Head(ready)
    BY <1>4, <1>10, <1>15
  <1>18. l \in [Lists -> Seq(Thread)]
    BY <1>1, <1>14, KeepProperties
  <1>19. \A k \in Lists \ {"ready"} : /\ Sublist(l[k], list[k])
                                     /\ Elems(l[k]) = Elems(list[k]) \ M
    <2> SUFFICES ASSUME NEW k \in Lists \ {"ready"}
                 PROVE  Sublist(l[k], list[k]) /\ Elems(l[k]) = Elems(list[k]) \ M
      OBVIOUS
    <2>1. l[k] = Keep(list[k], Thread \ M) /\ list[k] \in Seq(Thread)
      BY <1>1
    <2>2. /\ Sublist(l[k], list[k])
          /\ Elems(l[k]) = Elems(list[k]) \cap (Thread \ M)
      BY <2>1, KeepProperties, Zenon
    <2>3. Elems(list[k]) \subseteq Thread
      BY <2>1 DEF Elems
    <2> QED
      BY <2>2, <2>3
  <1>20. /\ \A t \in Thread \ M : th[t] = thread[t]
         /\ \A t \in M : th[t] = [thread[t] EXCEPT !.type = "ready"]
    BY <1>17
  <1>21. th \in [Thread -> ThreadRecord]
    BY <1>1, <1>2 DEF ThreadRecord
  <1> HIDE DEF l, th
  <1>22. \A t \in M : /\ th[t].type = "ready" /\ thread[t].type # "unused"
                      /\ th[t].add_type = thread[t].add_type
                      /\ th[t].owner = thread[t].owner
                      /\ thread[t].type = "event" => t = Head(l["ready"])
    <2> SUFFICES ASSUME NEW t \in M
                 PROVE  /\ th[t].type = "ready" /\ th[t].add_type = thread[t].add_type
                        /\ th[t].owner = thread[t].owner
      BY <1>16, <1>17
    <2>1. th[t] = [thread[t] EXCEPT !.type = "ready"] /\ thread[t] \in ThreadRecord
      BY <1>1, <1>17, <1>20
    <2> QED
      BY <2>1 DEF ThreadRecord
  <1>23. Elems(list["ready"]) \subseteq M
    BY <1>3 DEF Elems
  <1>24. ASSUME NEW s \in fdset
         PROVE  s \in fdset' <=> slot[s] \notin M
    <2>1. /\ slot[s] \in Thread /\ thread[slot[s]].type \in {"read", "write"}
          /\ Owner(slot[s]) = s
      BY <1>1 DEF SchedulerInv, Pointer, Type
    <2>2. slot[s] \in M => Owner(slot[s]) \in io
      BY <1>8, <1>9, <1>10, <1>15, <2>1
    <2>3. Owner(slot[s]) \in io => slot[s] \in M
      BY <1>1, <1>2, <1>8, <1>9, <1>15, <2>1 DEF TypeNamesList, Type
    <2> QED
      BY <1>3, <2>1, <2>2, <2>3
  <1>25. fdset' \subseteq fdset
    BY <1>3
  <1> QED
    BY <1>3, <1>14, <1>16, <1>18, <1>19, <1>20, <1>21, <1>22, <1>23, <1>24, <1>25, Run

-----------------------------------------------------------------------------
(* Theorems *)

(* main() starts with empty lists. *)
LEMMA InitStep == Init => SchedulerInv
  <1> SUFFICES ASSUME Init
               PROVE  SchedulerInv
    OBVIOUS
  <1>1. \A l \in Lists : list[l] = <<>>
    BY DEF Init
  <1>2. \A t \in Thread : thread[t] = Unused /\ thread[t].type = "unused"
    BY DEF Init, Unused
  <1>3. TypeOK
    <2>1. <<>> \in Seq(Thread)
      OBVIOUS
    <2>2. list \in [Lists -> Seq(Thread)] /\ thread \in [Thread -> ThreadRecord]
      BY <2>1, UnusedType DEF Init
    <2> QED
      BY <2>2, SlotAssumption DEF Init, TypeOK, ThreadRecord, Main
  <1>4. Elems(<<>>) = {} /\ Distinct(<<>>)
    BY DEF Elems, Distinct
  <1>5. TypeNamesList
    BY <1>1, <1>2, <1>4 DEF TypeNamesList, Type, Lists, Waiting
  <1>6. TimersSorted
    BY <1>1 DEF TimersSorted, Lists, Waiting
  <1>7. \A t \in Thread : Fields(t)
    BY <1>2, UnusedFields DEF Fields, Type
  <1>8. \A s \in Slot : Pointer(s)
    BY DEF Init, Pointer
  <1> QED
    BY <1>3, <1>5, <1>6, <1>7, <1>8 DEF SchedulerInv

(* No call to the scheduler and no turn of its loop disturbs the invariant. *)
LEMMA NextStep == SchedulerInv /\ [Next]_vars => SchedulerInv'
  <1> SUFFICES ASSUME SchedulerInv, [Next]_vars
               PROVE  SchedulerInv'
    OBVIOUS
  <1>1. ASSUME NEW s \in Slot, thread_add_fd(s)
        PROVE  SchedulerInv'
    BY <1>1, AddFd
  <1>2. ASSUME NEW s \in Slot, thread_cancel(s)
        PROVE  SchedulerInv'
    BY <1>2, Cancel
  <1>3. ASSUME NEW s \in Slot, NEW d \in Delay, thread_add_timer(s, d)
        PROVE  SchedulerInv'
    BY <1>3, AddTimer
  <1>4. ASSUME NEW a \in Arg, thread_add_event(a)
        PROVE  SchedulerInv'
    BY <1>4, AddEvent
  <1>5. ASSUME NEW a \in Arg, thread_cancel_event(a)
        PROVE  SchedulerInv'
    BY <1>5, CancelEvent
  <1>6. CASE thread_call_return
    BY <1>6, Return
  <1>7. CASE thread_fetch_ready
    BY <1>7, FetchReady
  <1>8. ASSUME NEW io \in SUBSET fdset, thread_fetch_select(io)
        PROVE  SchedulerInv'
    BY <1>8, FetchSelect
  <1>9. CASE Tick
    BY <1>9, TickStep
  <1>10. CASE UNCHANGED vars
    <2>1. /\ list' = list /\ thread' = thread /\ fdset' = fdset /\ slot' = slot
          /\ running' = running /\ ops' = ops
      BY <1>10 DEF vars
    <2>2. TypeOK' /\ TypeNamesList' /\ TimersSorted'
      BY <2>1 DEF SchedulerInv, TypeOK, TypeNamesList, TimersSorted, Type, Sands
    <2>3. (\A t \in Thread : Fields(t)') /\ (\A s \in Slot : Pointer(s)')
      BY <2>1 DEF SchedulerInv, Fields, Pointer, Type, Owner
    <2> QED
      BY <2>2, <2>3 DEF SchedulerInv
  <1> QED
    BY <1>1, <1>2, <1>3, <1>4, <1>5, <1>6, <1>7, <1>8, <1>9, <1>10, Zenon
       DEF Next, Handler, Fetch

(* The invariant holds in every state, for any number of threads, pointers *)
(* and calls that a handler makes.                                         *)
THEOREM SchedulerCorrect == Spec => []SchedulerInv
  <1>1. Init => SchedulerInv
    BY InitStep
  <1>2. SchedulerInv /\ [Next]_vars => SchedulerInv'
    BY NextStep
  <1> QED
    BY <1>1, <1>2, PTL DEF Spec

(* thread_cancel always finds the thread on the list that its type names,  *)
(* and every list of struct thread_master holds each thread once.          *)
THEOREM TypesNameLists == Spec => []TypeNamesList
  <1>1. SchedulerInv => TypeNamesList
    BY DEF SchedulerInv
  <1> QED
    BY <1>1, SchedulerCorrect, PTL

(* The lists of thread_add_timer_timeval stay sorted, so that              *)
(* thread_timer_wait may look at the head only.                            *)
THEOREM TimersStaySorted == Spec => []TimersSorted
  <1>1. SchedulerInv => TimersSorted
    BY DEF SchedulerInv
  <1> QED
    BY <1>1, SchedulerCorrect, PTL

(* No pointer of the daemon dangles: THREAD_OFF cancels the thread that    *)
(* THREAD_ON set, or none.                                                 *)
THEOREM PointersOwnThreads == Spec => []SlotsOwnThreads
  <1>1. SchedulerInv => SlotsOwnThreads
    BY DEF SchedulerInv, SlotsOwnThreads, Fields, Pointer
  <1> QED
    BY <1>1, SchedulerCorrect, PTL

(* The assertions of thread_cancel and thread_process_fd hold: a thread is *)
(* on the read or the write list just when its descriptor is in the set.   *)
THEOREM FdsetsMatch == Spec => []FdsetMatchesLists
  <1>1. SchedulerInv => FdsetMatchesLists
    <2> SUFFICES ASSUME SchedulerInv
                 PROVE  FdsetMatchesLists
      OBVIOUS
    <2>1. /\ "read" \in Lists /\ "write" \in Lists
          /\ TypeNamesList /\ fdset \subseteq Slot
          /\ \A s \in Slot : slot[s] \in Thread \cup {NULL}
      BY Types DEF SchedulerInv, TypeOK, Lists, Waiting
    <2>2. \A t : t \in Elems(list["read"]) \cup Elems(list["write"])
                 <=> t \in Thread /\ thread[t].type \in {"read", "write"}
      BY <2>1 DEF TypeNamesList, Type
    <2>3. ASSUME NEW s \in fdset
          PROVE  \E t \in Elems(list["read"]) \cup Elems(list["write"]) : s = Owner(t)
      <3>1. slot[s] \in Thread /\ thread[slot[s]].type \in {"read", "write"} /\ Owner(slot[s]) = s
        BY <2>1 DEF SchedulerInv, Pointer, Type
      <3> QED
        BY <2>2, <3>1
    <2>4. ASSUME NEW t \in Elems(list["read"]) \cup Elems(list["write"])
          PROVE  Owner(t) \in fdset
      <3>1. t \in Thread /\ thread[t].type \in {"read", "write"} /\ Fields(t)
        BY <2>2 DEF SchedulerInv
      <3>2. thread[t].add_type \in Waiting
        BY <3>1 DEF Fields, Type, Waiting
      <3>3. Owner(t) \in Slot /\ slot[Owner(t)] = t /\ t # NULL
        BY <3>1, <3>2, SlotAssumption DEF Fields
      <3> QED
        BY <3>1, <3>3 DEF SchedulerInv, Pointer, Type
    <2> QED
      BY <2>3, <2>4 DEF FdsetMatchesLists
  <1> QED
    BY <1>1, SchedulerCorrect, PTL

(* BGP_EVENT_FLUSH is complete: thread_cancel_event looks at the event     *)
(* list only, and no event of the argument survives it, because an event   *)
(* that left that list has run.                                            *)
THEOREM FlushCompletes == Spec => FlushIsComplete
  <1>1. SchedulerInv /\ [Next]_vars =>
          [\A a \in Arg : thread_cancel_event(a) => PendingEvents(a)' = {}]_vars
    <2> SUFFICES ASSUME SchedulerInv, NEW a \in Arg, thread_cancel_event(a),
                        NEW t \in Thread, thread'[t].add_type = "event", thread'[t].owner = a
                 PROVE  FALSE
      BY DEF PendingEvents, Owner
    <2>1. thread'[t] = IF t \in Elems(list["event"]) /\ Owner(t) = a THEN Unused ELSE thread[t]
      BY DEF thread_cancel_event
    <2>2. thread'[t] # Unused
      BY DEF Unused
    <2>3. thread[t].add_type = "event" /\ Owner(t) = a /\ t \notin Elems(list["event"])
      BY <2>1, <2>2 DEF Owner
    <2>4. thread[t].type = "event"
      BY <2>3 DEF SchedulerInv, Fields, Type
    <2>5. t \in Elems(list["event"])
      BY <2>4 DEF SchedulerInv, TypeNamesList, Type, Lists
    <2> QED
      BY <2>3, <2>5
  <1> QED
    BY <1>1, SchedulerCorrect, PTL DEF Spec, FlushIsComplete
=============================================================================
