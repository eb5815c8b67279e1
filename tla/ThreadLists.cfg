\* A daemon without threads blocks in select for ever: it may stop.
CONSTANTS
  t_read = t_read
  t_write = t_write
  t_holdtime = t_holdtime
  t_keepalive = t_keepalive
  t_workqueue = t_workqueue
  peer1 = peer1
  peer2 = peer2
  Thread = {a, b, c}
  NULL = NULL
  Slot <- AllSlots
  Kind <- KindOf
  Arg = {peer1, peer2}
  Delay = {0, 1}
  MaxLate = 1
  MaxOps = 3
SPECIFICATION LiveSpec
INVARIANTS TypeNamesList SlotsOwnThreads FdsetMatchesLists
PROPERTIES FlushIsComplete EventsServed TimersServed
CHECK_DEADLOCK FALSE
