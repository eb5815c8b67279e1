--------------------------- MODULE MCThreadMaster ---------------------------
(* ThreadMaster for one peer with a reader, a writer, two timers and a     *)
(* background job, and two arguments for events.                           *)
EXTENDS ThreadMaster, TLC

CONSTANTS t_read, t_write, t_holdtime, t_keepalive, t_workqueue, peer1, peer2

AllSlots == {t_read, t_write, t_holdtime, t_keepalive, t_workqueue}
KindOf == (t_read :> "read") @@ (t_write :> "write") @@ (t_workqueue :> "background")
            @@ (t_holdtime :> "timer") @@ (t_keepalive :> "timer")
=============================================================================
