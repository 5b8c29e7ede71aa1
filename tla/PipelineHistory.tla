--------------------------- MODULE PipelineHistory ---------------------------
(***************************************************************************)
(* Pipeline with a history variable that the dead_letter table does not    *)
(* have: the variant of the job that failed last for a uid and a stage.    *)
(***************************************************************************)
EXTENDS Pipeline

VARIABLE lastFailed

HistoryInit == Init /\ lastFailed = [k \in Uids \X Stages |-> Default]

HistoryNext ==
  /\ Next
  /\ \/ \E w \in Workers :
          /\ RecordFailure(w)
          /\ lastFailed' = [lastFailed EXCEPT ![<<Uid(w), JobOf(w).stage>>] = JobOf(w).variant]
     \/ /\ \A w \in Workers : ~RecordFailure(w)
        /\ UNCHANGED lastFailed

HistorySpec == HistoryInit /\ [][HistoryNext]_<<vars, lastFailed>>

(* "Re-enqueue a failed job on its stage topic" (dead_letters.py:69, and   *)
(* retry_failure in api.py): when an admin's retry has published, the job  *)
(* that failed is back on its queue.                                       *)
ReplayRequeuesTheFailedJob ==
  [][ \A u \in Uids, s \in Stages :
        retry = None /\ retry' = <<u, s>> =>
          \E m \in queue' : m.job = JobFor(<<u, lastFailed[u, s]>>, s)
    ]_<<vars, lastFailed>>

=============================================================================
