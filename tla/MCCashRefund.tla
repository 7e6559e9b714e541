---- MODULE MCCashRefund ----
(* Two requests, two worker slots, a purchase of price 2. *)
EXTENDS CashRefund, TLC

CONSTANTS r1, r2, e1, e2

Behind(bank, faults) == [bank |-> bank, faults |-> faults]

\* A tbc status that lags is not combined with the faults that lose the marker
\* after the cancel: then the code does cancel twice.
MCEnvironments ==
    {Behind("flitt", {"lock_loss", "lost_answer"}),
     Behind("flitt", {"worker_crash", "db_error", "lost_answer"}),
     Behind("flitt", {"get_error", "lost_answer", "slow_bank", "spent"}),
     Behind("flitt", {"redis_loss"}),
     Behind("tbc", {"worker_crash", "db_error", "lost_answer", "slow_bank"}),
     Behind("tbc", {"get_error", "lost_answer", "slow_bank", "status_lag"})}

\* A bank that answers, a worker that lives.
MCQuiet == {Behind("tbc", {})}

MCSymmetry == Permutations({e1, e2}) \cup Permutations({r1, r2})
====
