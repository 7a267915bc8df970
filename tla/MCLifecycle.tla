---------------------------- MODULE MCLifecycle ----------------------------
(* Small shops.  In the first two the panel's webhook is not configured:   *)
(* revocation with overlapping jobs, and service of paid renewals one job  *)
(* at a time.  The others have it: renewals against the grace sweep, the   *)
(* resync, pushed limits, the guard and the calendar.                      *)
EXTENDS Lifecycle

Shop(jobs, webhook, open) == [jobs |-> jobs, webhook |-> webhook, open |-> open]

MCShops ==
    { Shop({"pay", "refund", "retry", "backstop", "resync"}, FALSE, 2),
      Shop({"pay", "refund", "retry", "backstop", "resync", "grace"}, FALSE, 1),
      Shop({"extend", "grace"}, TRUE, 2),
      Shop({"pay", "resync"}, TRUE, 2),
      Shop({"grace", "push"}, TRUE, 1),
      Shop({"calendar", "guard"}, TRUE, 2) }

MCPaid == { Shop({"pay"}, TRUE, 1) }

MCSpec == LifecycleSpec /\ LifecycleFairness
=============================================================================
