---------------------------- MODULE MCScheduler ----------------------------
(***************************************************************************)
(* Instances of Scheduler for TLC: the requests of the submissions t1..t4. *)
(***************************************************************************)
EXTENDS Scheduler

CONSTANTS t1, t2, t3, t4, k1

Request(k, kind, prio, name) ==
    [kctx |-> k, kind |-> kind, prio |-> prio, name |-> name]

\* A background read, two loads of the current view and a write.
MixedReq == [t \in Tasks |->
    CASE t = t1 -> Request(k1, "read", Low, "a")
      [] t = t2 -> Request(k1, "read", High, "b")
      [] t = t3 -> Request(k1, "read", High, "a")
      [] t = t4 -> Request(k1, "mutation", Critical, "a")]

\* Twins in different lanes, and a load that preempts one of them.
TwinReq == [t \in Tasks |->
    CASE t = t1 -> Request(k1, "read", Low, "a")
      [] t = t2 -> Request(k1, "read", High, "b")
      [] t = t3 -> Request(k1, "read", High, "a")
      [] t = t4 -> Request(k1, "read", Low, "a")]

\* A dashboard section and its refresh, a metrics read, a load of the view.
StaleReq == [t \in Tasks |->
    CASE t = t1 -> Request(k1, "dashboard", Low, "a")
      [] t = t2 -> Request(k1, "read", High, "b")
      [] t = t3 -> Request(k1, "dashboard", Low, "a")
      [] t = t4 -> Request(k1, "read", Low, "b")]
=============================================================================
