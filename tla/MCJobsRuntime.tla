--------------------------- MODULE MCJobsRuntime ---------------------------
(* Small instances of JobsRuntime. *)
EXTENDS JobsRuntime

MCIDs == {1, 2}
MCNone == 0
Submit(id, priority, delay) == [id |-> id, priority |-> priority, delay |-> delay]

\* The second job is enqueued beside the first or ahead of it.
MCSubmissions == {Submit(1, 0, 1), Submit(2, 0, 0), Submit(2, 1, 0)}

\* The first job's handler may answer anything, the second's succeeds.
MCAnswers == [id \in MCIDs |-> IF id = 1 THEN Outcomes ELSE {"ok"}]
=============================================================================
