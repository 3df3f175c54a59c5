----------------------------- MODULE MCSchedules -----------------------------
(* Small instances of Schedules. *)
EXTENDS Schedules, TLC

MCOneID == {1}
MCIDs == {1, 2}
Every1 == [every |-> 1, cron |-> 0]
Cron2 == [every |-> 0, cron |-> 2]
Neither == [every |-> 0, cron |-> 0]
MCSpecs == {Every1, Cron2, Neither}
MCEvery == {Every1}

WorkerSymmetry == Permutations(Workers)
=============================================================================
