---------------------------- MODULE JobLifecycle ----------------------------
(***************************************************************************)
(* What the control plane promises about one row of varasi.jobs            *)
(* (migrations/0001_init.sql): it is inserted once, either "queued"        *)
(* (createJob) or "running" (every handler that works on the job itself);  *)
(* a running job may end once, as "succeeded" or "failed", and an ended    *)
(* job never changes again.  Nothing takes a job out of "queued", and      *)
(* nothing writes "cancelled", which the CHECK constraint allows.          *)
(*                                                                         *)
(* Each job is named by the execution that inserts it.  "none" is a job    *)
(* whose row does not exist.                                               *)
(***************************************************************************)

CONSTANT Job

VARIABLE jobs

JobStatus == {"none", "queued", "running", "succeeded", "failed"}

Ended == {"succeeded", "failed"}

JobsTypeOK == jobs \in [Job -> JobStatus]

JobsInit == jobs = [j \in Job |-> "none"]

Enqueue(j) ==
    /\ jobs[j] = "none"
    /\ jobs' = [jobs EXCEPT ![j] = "queued"]

Begin(j) ==
    /\ jobs[j] = "none"
    /\ jobs' = [jobs EXCEPT ![j] = "running"]

End(j) ==
    /\ jobs[j] = "running"
    /\ \E s \in Ended : jobs' = [jobs EXCEPT ![j] = s]

JobsNext == \E j \in Job : Enqueue(j) \/ Begin(j) \/ End(j)

JobsSpec == JobsInit /\ [][JobsNext]_jobs
=============================================================================
