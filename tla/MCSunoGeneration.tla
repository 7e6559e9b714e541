--------------------------- MODULE MCSunoGeneration ---------------------------
(* Small instances of SunoGeneration; each .cfg picks the faults. *)
EXTENDS SunoGeneration, TLC

CONSTANTS a1, a2, a3, e1, e2, h1, h2

\* Executions that do not overlap, with all else that may fail; and those that
\* do, with the faults that can meet.
MCEnvironments ==
    {{"worker_crash", "api_crash", "db_error", "refund_error", "eviction"},
     {"lock_loss", "worker_crash", "db_error"},
     {"lock_loss", "eviction"},
     {"lock_loss", "db_error", "lost_reply"},
     {"lost_reply", "worker_crash", "eviction"}}

MCCrash == {{"worker_crash"}}

\* Attempts, worker slots and handlers are interchangeable.
MCSymmetry == Permutations({a1, a2, a3}) \cup Permutations({e1, e2})
              \cup Permutations({h1, h2})
=============================================================================
