----------------------------- MODULE MCBulkJobs -----------------------------
(* Three jobs at a time: a duplicate scan and two exports of the same         *)
(* single-flight kind; or a chunked delete, a mask batch and an export.      *)
EXTENDS BulkJobs, TLC

CONSTANTS delete, scan, package, export, mask

MCKinds == {"delete_files", "duplicate_scan", "dataset_export", "mask_auto_batch"}
MCSingleFlight == {"dataset_export", "mask_auto_batch"}

ExportJobs == {scan, package, export}
LoopJobs == {delete, mask, package}
AllJobs == ExportJobs \cup LoopJobs

\* Jobs of one group only are created; no fairness speaks about creating a job.
Together ==
    LET created == {j \in JobIds : status[j] # "absent"}
    IN  created \subseteq ExportJobs \/ created \subseteq LoopJobs

MCKindOf ==
    [ j \in JobIds |->
        CASE j = delete -> "delete_files"
          [] j = scan   -> "duplicate_scan"
          [] j = mask   -> "mask_auto_batch"
          [] OTHER      -> "dataset_export" ]

MCProtocolOf ==
    [ j \in JobIds |->
        CASE j = delete  -> "chunked"
          [] j = scan    -> "commit"
          [] j = package -> "gated"
          [] j = mask    -> "batch"
          [] OTHER       -> "plain" ]
=============================================================================
