------------------------ MODULE DetectionRunsProofs -------------------------
(***************************************************************************)
(* Proofs about DetectionRuns for every set of executions, watch areas,    *)
(* parcels, classes, configurations and responses, and every set of        *)
(* faults.                                                                 *)
(***************************************************************************)
EXTENDS DetectionRuns, TLAPS

\* Who may be where: only evaluations load, search and alert, they have a
\* watch area, and the ingest proxy never detects.
Roles ==
    \A r \in Run :
      /\ kind[r] \in Evaluation => area[r] \in WatchArea
      /\ pc[r] \in {"load", "search", "alert"} => kind[r] \in Evaluation
      /\ pc[r] = "insert_job" => kind[r] # "enqueue"
      /\ pc[r] \in {"detect", "persist", "verdict", "report"} =>
           kind[r] \in Evaluation \cup {"manual"}

Typed == TypeOK /\ Roles

\* The empty database and the idle executions have their types (0001_init.sql).
LEMMA InitTyped == Init => Typed
BY ConstantsAssumption DEF Init, Typed, TypeOK, Roles, Evaluation, Kind, Phase, JobStatus,
   Outcome, Notice, Message, Verdict, Detection, Alert

\* Starting an execution by a request (runDetection, evaluateWatchArea, ingestRaster,
\* createJob) keeps the types and gives it a role that fits what started it.
LEMMA StartTyped ==
    ASSUME Typed, NEW r \in Run, Start(r)
    PROVE  Typed'
<1> USE DEF Typed, TypeOK, Roles, Evaluation, Kind, Phase, database, outside
<1>1. CASE RunDetection(r)
  BY <1>1 DEF RunDetection, Begin, Goto
<1>2. CASE EvaluateRequest(r)
  BY <1>2 DEF EvaluateRequest, Begin, Goto
<1>3. CASE IngestRaster(r)
  BY <1>3 DEF IngestRaster, Begin, Goto
<1>4. CASE CreateJob(r)
  BY <1>4 DEF CreateJob, Goto, Return, Broadcast, Note, Outcome, Message, JobStatus
<1>5. QED
  BY <1>1, <1>2, <1>3, <1>4 DEF Start

\* Every statement of an execution (the bodies of evaluateWatchArea, detectAndPersist,
\* runDetection and ingestRaster) keeps the types and the roles.
LEMMA WorkTyped ==
    ASSUME Typed, NEW r \in Run, Work(r)
    PROVE  Typed'
<1> USE DEF Typed
<1>1. CASE LoadArea(r)
  <2>1. TypeOK'
    <3>1. /\ cfg' \in [Run -> AreaConfig \cup {Null}]
          /\ pc' \in [Run -> Phase]
          /\ outcome' \in [Run -> Outcome]
      BY <1>1 DEF LoadArea, TypeOK, Roles, Evaluation, Goto, Return, Phase, Outcome
    <3>2. clean' \in [Run -> BOOLEAN]
      BY <1>1 DEF LoadArea, TypeOK, Note
    <3>3. UNCHANGED <<database, kind, area, hasJob, live, res, next, counted, top,
                      said, notice>>
      BY <1>1 DEF LoadArea
    <3>4. QED
      BY <3>1, <3>2, <3>3 DEF TypeOK, database
  <2>2. Roles'
    BY <1>1 DEF LoadArea, TypeOK, Roles, Evaluation, database, local, outside, Goto, Return
  <2>3. QED
    BY <2>1, <2>2
<1>2. CASE SearchScenes(r)
  <2>1. TypeOK'
    BY <1>2, ConstantsAssumption DEF SearchScenes, TypeOK, Roles, Evaluation, Kind, Phase,
       database, local, outside, Goto, Return, Note, Outcome, Message, JobStatus
  <2>2. Roles'
    BY <1>2 DEF SearchScenes, TypeOK, Roles, Evaluation, database, local, outside, Goto, Return
  <2>3. QED
    BY <2>1, <2>2
<1>3. CASE InsertJob(r)
  <2>1. TypeOK'
    BY <1>3, ConstantsAssumption DEF InsertJob, Broadcast, TypeOK, Roles, Evaluation, Kind, Phase,
       database, local, outside, Goto, Return, Note, Outcome, Message, JobStatus
  <2>2. Roles'
    BY <1>3 DEF InsertJob, TypeOK, Kind, Roles, Evaluation, database, local, outside, Goto, Return
  <2>3. QED
    BY <2>1, <2>2
<1>4. CASE DetectAnswers(r)
  <2>1. TypeOK'
    BY <1>4, ConstantsAssumption DEF DetectAnswers, Answers, TypeOK, Roles, Evaluation, Kind, Phase,
       database, local, outside, Goto, Return, Note, Outcome, Message, JobStatus
  <2>2. Roles'
    BY <1>4 DEF DetectAnswers, TypeOK, Roles, Evaluation, database, local, outside, Goto, Return
  <2>3. QED
    BY <2>1, <2>2
<1>5. CASE DetectFails(r)
  <2>1. TypeOK'
    BY <1>5, ConstantsAssumption DEF DetectFails, TypeOK, Roles, Evaluation, Kind, Phase,
       database, local, outside, Goto, Return, Note, Outcome, Message, JobStatus
  <2>2. Roles'
    BY <1>5 DEF DetectFails, TypeOK, Roles, Evaluation, database, local, outside, Goto, Return
  <2>3. QED
    BY <2>1, <2>2
<1>6. CASE InsertDetection(r)
  <2>1. TypeOK'
    BY <1>6, ConstantsAssumption DEF InsertDetection, Detection, Verdict, TypeOK, Roles, Evaluation, Kind, Phase,
       database, local, outside, Goto, Return, Note, Outcome, Message, JobStatus
  <2>2. Roles'
    BY <1>6 DEF InsertDetection, TypeOK, Roles, Evaluation, database, local, outside, Goto, Return
  <2>3. QED
    BY <2>1, <2>2
<1>7. CASE FinishJob(r)
  <2>1. TypeOK'
    BY <1>7, ConstantsAssumption DEF FinishJob, SetJob, TypeOK, Roles, Evaluation, Kind, Phase,
       database, local, outside, Goto, Return, Note, Outcome, Message, JobStatus
  <2>2. Roles'
    BY <1>7 DEF FinishJob, TypeOK, Roles, Evaluation, database, local, outside, Goto, Return
  <2>3. QED
    BY <2>1, <2>2
<1>8. CASE StampPermits(r)
  <2>1. TypeOK'
    <3>1. dets' \subseteq Detection
      BY <1>8 DEF StampPermits, TypeOK, Detection, Verdict, PermitVerdict
    <3>2. /\ clean' \in [Run -> BOOLEAN]
          /\ pc' \in [Run -> Phase]
      BY <1>8 DEF StampPermits, TypeOK, Note, Goto, Phase
    <3>3. UNCHANGED <<watch, minted, permits, jobs, alerts, kind, area, cfg, hasJob, live,
                      res, next, counted, top, outside>>
      BY <1>8 DEF StampPermits
    <3>4. QED
      BY <3>1, <3>2, <3>3 DEF TypeOK, outside
  <2>2. Roles'
    BY <1>8 DEF StampPermits, TypeOK, Roles, Evaluation, database, local, outside, Goto, Return
  <2>3. QED
    BY <2>1, <2>2
<1>9. CASE Report(r)
  <2>1. TypeOK'
    BY <1>9, ConstantsAssumption DEF Report, Broadcast, TypeOK, Roles, Evaluation, Kind, Phase,
       database, local, outside, Goto, Return, Note, Outcome, Message, JobStatus
  <2>2. Roles'
    BY <1>9 DEF Report, TypeOK, Roles, Evaluation, database, local, outside, Goto, Return
  <2>3. QED
    BY <2>1, <2>2
<1>10. CASE RaiseAlert(r)
  <2>1. TypeOK'
    <3>1. alerts' \subseteq Alert
      <4>1. /\ area[r] \in WatchArea /\ top[r] \in Nat
            /\ Severity(r) \in {"warning", "critical"}
        BY <1>10 DEF RaiseAlert, TypeOK, Roles, Severity
      <4>2. [run |-> r, wa |-> area[r], det |-> top[r], severity |-> Severity(r),
             ack |-> FALSE] \in Alert
        BY <4>1 DEF Alert
      <4>3. alerts \subseteq Alert
        BY DEF TypeOK
      <4>4. QED
        BY <1>10, <4>2, <4>3 DEF RaiseAlert
    <3>2. /\ clean' \in [Run -> BOOLEAN]
          /\ pc' \in [Run -> Phase]
          /\ outcome' \in [Run -> Outcome]
          /\ said' \in [Run -> SUBSET Message]
          /\ notice' \in [Run -> Notice]
      BY <1>10 DEF RaiseAlert, TypeOK, Note, Return, Goto, Broadcast, Phase, Outcome,
         Message, Notice
    <3>3. UNCHANGED <<watch, minted, permits, jobs, dets, kind, area, cfg, hasJob, live,
                      res, next, counted, top>>
      BY <1>10 DEF RaiseAlert
    <3>4. QED
      BY <3>1, <3>2, <3>3 DEF TypeOK
  <2>2. Roles'
    BY <1>10 DEF RaiseAlert, TypeOK, Roles, Evaluation, database, local, outside, Goto, Return
  <2>3. QED
    BY <2>1, <2>2
<1>11. CASE MarkFailed(r)
  <2>1. TypeOK'
    <3>1. /\ jobs' \in [Run -> JobStatus]
          /\ clean' \in [Run -> BOOLEAN]
      BY <1>11 DEF MarkFailed, TypeOK, SetJob, Note, JobStatus
    <3>2. /\ said' \in [Run -> SUBSET Message]
          /\ pc' \in [Run -> Phase]
          /\ outcome' \in [Run -> Outcome]
      BY <1>11 DEF MarkFailed, TypeOK, Broadcast, Return, Goto, Message, Phase, Outcome
    <3>3. UNCHANGED <<watch, minted, permits, dets, alerts, kind, area, cfg, hasJob, live,
                      res, next, counted, top, notice>>
      BY <1>11 DEF MarkFailed
    <3>4. QED
      BY <3>1, <3>2, <3>3 DEF TypeOK
  <2>2. Roles'
    BY <1>11 DEF MarkFailed, TypeOK, Roles, Evaluation, database, local, outside, Goto, Return
  <2>3. QED
    BY <2>1, <2>2
<1>12. CASE CallIngest(r)
  <2>1. TypeOK'
    BY <1>12, ConstantsAssumption DEF CallIngest, TypeOK, Roles, Evaluation, Kind, Phase,
       database, local, outside, Goto, Return, Note, Outcome, Message, JobStatus
  <2>2. Roles'
    BY <1>12 DEF CallIngest, TypeOK, Roles, Evaluation, database, local, outside, Goto, Return
  <2>3. QED
    BY <2>1, <2>2
<1>13. CASE FinishIngest(r)
  <2>1. TypeOK'
    BY <1>13, ConstantsAssumption DEF FinishIngest, SetJob, Broadcast, TypeOK, Roles, Evaluation, Kind, Phase,
       database, local, outside, Goto, Return, Note, Outcome, Message, JobStatus
  <2>2. Roles'
    BY <1>13 DEF FinishIngest, TypeOK, Roles, Evaluation, database, local, outside, Goto, Return
  <2>3. QED
    BY <2>1, <2>2
<1>14. QED
  BY <1>1, <1>2, <1>3, <1>4, <1>5, <1>6, <1>7, <1>8, <1>9, <1>10, <1>11, <1>12, <1>13
  DEF Work

\* Notification, expiry and death of one execution.
LEMMA FateTyped ==
    ASSUME Typed, NEW r \in Run, Notify(r) \/ ExpireContext(r) \/ Crash(r)
    PROVE  Typed'
<1> USE DEF Typed, TypeOK, Roles, Evaluation, database, local, outside
<1>1. CASE Notify(r)
  BY <1>1 DEF Notify, Notice
<1>2. CASE ExpireContext(r)
  BY <1>2 DEF ExpireContext
<1>3. CASE Crash(r)
  BY <1>3 DEF Crash, Notice, Phase
<1>4. QED
  BY <1>1, <1>2, <1>3

\* The other requests (watch areas, alerts, permits) keep the types and the roles.
LEMMA RequestsTyped ==
    ASSUME Typed,
           \/ \E w \in WatchArea : CreateWatchArea(w) \/ DeleteWatchArea(w)
           \/ \E a \in alerts : AckAlert(a)
           \/ CreatePermits
           \/ \E p \in Parcel : DeletePermit(p)
    PROVE  Typed'
<1> USE DEF Typed, Roles, local, outside
<1>1. ASSUME NEW w \in WatchArea, CreateWatchArea(w)
      PROVE  Typed'
  BY <1>1 DEF CreateWatchArea, TypeOK
<1>2. ASSUME NEW w \in WatchArea, DeleteWatchArea(w)
      PROVE  Typed'
  <2>1. dets' \subseteq Detection
    BY <1>2 DEF DeleteWatchArea, TypeOK, Detection
  <2>2. alerts' \subseteq Alert
    BY <1>2 DEF DeleteWatchArea, TypeOK
  <2>3. QED
    BY <1>2, <2>1, <2>2 DEF DeleteWatchArea, TypeOK
<1>3. ASSUME NEW a \in alerts, AckAlert(a)
      PROVE  Typed'
  <2>1. alerts' \subseteq Alert
    BY <1>3 DEF AckAlert, TypeOK, Alert
  <2>2. QED
    BY <1>3, <2>1 DEF AckAlert, TypeOK
<1>4. CASE CreatePermits
  BY <1>4 DEF CreatePermits, TypeOK
<1>5. ASSUME NEW p \in Parcel, DeletePermit(p)
      PROVE  Typed'
  BY <1>5 DEF DeletePermit, TypeOK
<1>6. QED
  BY <1>1, <1>2, <1>3, <1>4, <1>5

\* Starting background evaluations (onItemIngested) keeps the types and the roles.
LEMMA ItemIngestedTyped == Typed /\ ItemIngested => Typed'
<1> SUFFICES ASSUME Typed, ItemIngested
             PROVE  Typed'
  OBVIOUS
<1>1. PICK footprint \in SUBSET WatchArea :
        LET targets == {w \in footprint : watch[w] # Null} IN
        \E worker \in [targets -> {r \in Run : pc[r] = "idle"}] :
          LET Target(r) == CHOOSE w \in targets : worker[w] = r
              started   == {worker[w] : w \in targets} IN
          /\ kind' = [r \in Run |-> IF r \in started THEN "background" ELSE kind[r]]
          /\ area' = [r \in Run |-> IF r \in started THEN Target(r) ELSE area[r]]
          /\ pc'   = [r \in Run |-> IF r \in started THEN "load" ELSE pc[r]]
  BY DEF ItemIngested
<1> DEFINE targets == {w \in footprint : watch[w] # Null}
<1>2. PICK worker \in [targets -> {r \in Run : pc[r] = "idle"}] :
        LET Target(r) == CHOOSE w \in targets : worker[w] = r
            started   == {worker[w] : w \in targets} IN
        /\ kind' = [r \in Run |-> IF r \in started THEN "background" ELSE kind[r]]
        /\ area' = [r \in Run |-> IF r \in started THEN Target(r) ELSE area[r]]
        /\ pc'   = [r \in Run |-> IF r \in started THEN "load" ELSE pc[r]]
  BY <1>1
<1> DEFINE started == {worker[w] : w \in targets}
           Target(r) == CHOOSE w \in targets : worker[w] = r
<1>3. \A r \in started : Target(r) \in WatchArea
  <2> SUFFICES ASSUME NEW r \in started
               PROVE  Target(r) \in WatchArea
    OBVIOUS
  <2>1. \E w \in targets : worker[w] = r
    OBVIOUS
  <2>2. Target(r) \in targets
    BY <2>1
  <2>3. QED
    BY <2>2
<1>4. UNCHANGED <<database, cfg, hasJob, live, res, next, counted, top, clean, outside>>
  BY DEF ItemIngested
<1> HIDE DEF started, Target
<1>5. /\ kind' = [r \in Run |-> IF r \in started THEN "background" ELSE kind[r]]
      /\ area' = [r \in Run |-> IF r \in started THEN Target(r) ELSE area[r]]
      /\ pc'   = [r \in Run |-> IF r \in started THEN "load" ELSE pc[r]]
  BY <1>2 DEF started, Target
<1> HIDE DEF targets
<1>6. TypeOK'
  BY <1>3, <1>4, <1>5 DEF Typed, TypeOK, Kind, Phase, database, outside
<1>7. Roles'
  BY <1>3, <1>5 DEF Typed, TypeOK, Roles, Evaluation
<1>8. QED
  BY <1>6, <1>7 DEF Typed

\* Typed is inductive: it holds across every step of the control plane.
LEMMA NextTyped == Typed /\ [Next]_vars => Typed'
<1> SUFFICES ASSUME Typed, [Next]_vars
             PROVE  Typed'
  OBVIOUS
<1>1. ASSUME NEW r \in Run,
             Start(r) \/ Work(r) \/ Notify(r) \/ ExpireContext(r) \/ Crash(r)
      PROVE  Typed'
  BY <1>1, StartTyped, WorkTyped, FateTyped
<1>2. CASE UNCHANGED vars
  BY <1>2 DEF Typed, TypeOK, Roles, vars, database, local, outside
<1>3. QED
  BY <1>1, <1>2, ItemIngestedTyped, RequestsTyped DEF Next

\* Every variable stays in its type, and executions keep to their roles.
THEOREM TypeCorrect == Spec => []TypeOK
<1>1. Spec => []Typed
  BY InitTyped, NextTyped, PTL DEF Spec
<1>2. Typed => TypeOK
  BY DEF Typed
<1>3. QED
  BY <1>1, <1>2, PTL

-----------------------------------------------------------------------------
(* The jobs table *)

\* A job is inserted by its execution and, while the execution can still write
\* its outcome, is running.
JobPhase ==
    \A r \in Run :
      /\ pc[r] \in {"idle", "load", "search", "insert_job"} => jobs[r] = "none"
      /\ pc[r] \in {"detect", "persist", "call_ingest", "finish_ingest", "mark_failed"} =>
           (hasJob[r] => jobs[r] = "running")

\* A statement of an execution leaves every job alone, inserts the job of its own
\* execution, or ends it; the phase tells whether the job can still be running.
LEMMA WorkOnJobs ==
    ASSUME Typed, JobPhase, NEW r \in Run, Work(r)
    PROVE  JobPhase' /\ [Lifecycle!JobsNext]_jobs
<1> USE DEF Typed, JobPhase, Lifecycle!JobsNext, Lifecycle!Begin, Lifecycle!End, Lifecycle!Ended
<1>1. CASE LoadArea(r)
  BY <1>1 DEF LoadArea, TypeOK, Goto, Return, database
<1>2. CASE SearchScenes(r)
  BY <1>2 DEF SearchScenes, TypeOK, Goto, Return, database, local
<1>3. CASE InsertJob(r)
  BY <1>3 DEF InsertJob, TypeOK, Goto
<1>4. CASE DetectAnswers(r)
  BY <1>4 DEF DetectAnswers, TypeOK, Goto, database
<1>5. CASE DetectFails(r)
  BY <1>5 DEF DetectFails, TypeOK, Goto, database, local
<1>6. CASE InsertDetection(r)
  BY <1>6 DEF InsertDetection, TypeOK
<1>7. CASE FinishJob(r)
  BY <1>7 DEF FinishJob, TypeOK, Goto, SetJob
<1>8. CASE StampPermits(r)
  BY <1>8 DEF StampPermits, TypeOK, Goto
<1>9. CASE Report(r)
  BY <1>9 DEF Report, TypeOK, Goto, Return, database, local
<1>10. CASE RaiseAlert(r)
  BY <1>10 DEF RaiseAlert, TypeOK, Goto, Return
<1>11. CASE MarkFailed(r)
  BY <1>11 DEF MarkFailed, TypeOK, Goto, Return, SetJob
<1>12. CASE CallIngest(r)
  BY <1>12 DEF CallIngest, TypeOK, Goto, database, local
<1>13. CASE FinishIngest(r)
  BY <1>13 DEF FinishIngest, TypeOK, Goto, Return, SetJob
<1>14. QED
  BY <1>1, <1>2, <1>3, <1>4, <1>5, <1>6, <1>7, <1>8, <1>9, <1>10, <1>11, <1>12, <1>13 DEF Work

\* Every step of the control plane is a step of JobLifecycle or leaves the jobs alone.
LEMMA NextOnJobs ==
    Typed /\ JobPhase /\ [Next]_vars => JobPhase' /\ [Lifecycle!JobsNext]_jobs
<1> SUFFICES ASSUME Typed, JobPhase, [Next]_vars
             PROVE  JobPhase' /\ [Lifecycle!JobsNext]_jobs
  OBVIOUS
<1>1. ASSUME NEW r \in Run, Start(r)
      PROVE  JobPhase' /\ [Lifecycle!JobsNext]_jobs
  <2>1. CASE RunDetection(r) \/ EvaluateRequest(r) \/ IngestRaster(r)
    BY <2>1 DEF RunDetection, EvaluateRequest, IngestRaster, Begin, Goto, database, Typed,
       TypeOK, JobPhase
  <2>2. CASE CreateJob(r)
    BY <2>2 DEF CreateJob, Return, Goto, Typed, TypeOK, JobPhase, Lifecycle!JobsNext,
       Lifecycle!Enqueue
  <2>3. QED
    BY <1>1, <2>1, <2>2 DEF Start
<1>2. ASSUME NEW r \in Run, Notify(r) \/ ExpireContext(r) \/ Crash(r)
      PROVE  JobPhase' /\ [Lifecycle!JobsNext]_jobs
  BY <1>2 DEF Notify, ExpireContext, Crash, database, local, Typed, TypeOK, JobPhase
<1>3. CASE ItemIngested
  <2>1. /\ UNCHANGED <<jobs, hasJob>>
        /\ \A r \in Run : pc'[r] = pc[r] \/ (pc[r] = "idle" /\ pc'[r] = "load")
    BY <1>3 DEF ItemIngested, database
  <2>2. QED
    BY <2>1 DEF JobPhase
<1>4. CASE \/ \E w \in WatchArea : CreateWatchArea(w) \/ DeleteWatchArea(w)
           \/ \E a \in alerts : AckAlert(a)
           \/ CreatePermits
           \/ \E p \in Parcel : DeletePermit(p)
  BY <1>4 DEF CreateWatchArea, DeleteWatchArea, AckAlert, CreatePermits, DeletePermit, local,
     JobPhase
<1>5. CASE UNCHANGED vars
  BY <1>5 DEF vars, database, local, JobPhase
<1>6. QED
  BY <1>1, <1>2, <1>3, <1>4, <1>5, WorkOnJobs DEF Next

\* DetectionRuns implements JobLifecycle: whatever statements fail, are lost or
\* are never sent, a job is inserted once and ends at most once, for good.
THEOREM JobsRefinement == Spec => JobsFollowLifecycle
<1>1. Init => Typed /\ JobPhase /\ Lifecycle!JobsInit
  BY InitTyped DEF Init, JobPhase, Lifecycle!JobsInit
<1>2. Typed /\ JobPhase /\ [Next]_vars =>
        Typed' /\ JobPhase' /\ [Lifecycle!JobsNext]_jobs
  BY NextTyped, NextOnJobs
<1>3. QED
  BY <1>1, <1>2, PTL DEF Spec, JobsFollowLifecycle, Lifecycle!JobsSpec

-----------------------------------------------------------------------------
(* Broadcasts *)

\* The outcome of a job is broadcast after the last write of its row.
SaidPhase ==
    \A r \in Run :
      /\ pc[r] \notin {"alert", "done", "dead"} =>
           said[r] \cap {"job.succeeded", "job.failed"} = {}
      /\ jobs[r] = "failed" => pc[r] = "done" /\ "job.succeeded" \notin said[r]
      /\ jobs[r] = "succeeded" =>
           /\ pc[r] \in {"verdict", "report", "alert", "done", "dead"}
           /\ "job.failed" \notin said[r]
      /\ pc[r] = "alert" => "job.failed" \notin said[r]
      /\ ~({"job.succeeded", "job.failed"} \subseteq said[r])

\* A statement of an execution keeps what it has broadcast in agreement with its phase
\* and its job (the Broadcast calls of the handlers).
LEMMA WorkOnBroadcasts ==
    ASSUME Typed, SaidPhase, NEW r \in Run, Work(r)
    PROVE  SaidPhase'
<1> USE DEF Typed, TypeOK, SaidPhase
<1>1. CASE LoadArea(r)
  BY <1>1 DEF LoadArea, Goto, Return, Broadcast, SetJob, database, local, outside
<1>2. CASE SearchScenes(r)
  BY <1>2 DEF SearchScenes, Goto, Return, Broadcast, SetJob, database, local, outside
<1>3. CASE InsertJob(r)
  BY <1>3 DEF InsertJob, Goto, Return, Broadcast, SetJob, database, local, outside
<1>4. CASE DetectAnswers(r)
  BY <1>4 DEF DetectAnswers, Goto, Return, Broadcast, SetJob, database, local, outside
<1>5. CASE DetectFails(r)
  BY <1>5 DEF DetectFails, Goto, Return, Broadcast, SetJob, database, local, outside
<1>6. CASE InsertDetection(r)
  BY <1>6 DEF InsertDetection, Goto, Return, Broadcast, SetJob, database, local, outside
<1>7. CASE FinishJob(r)
  BY <1>7 DEF FinishJob, Goto, Return, Broadcast, SetJob, database, local, outside
<1>8. CASE StampPermits(r)
  BY <1>8 DEF StampPermits, Goto, Return, Broadcast, SetJob, database, local, outside
<1>9. CASE Report(r)
  BY <1>9 DEF Report, Goto, Return, Broadcast, SetJob, database, local, outside
<1>10. CASE RaiseAlert(r)
  BY <1>10 DEF RaiseAlert, Goto, Return, Broadcast, SetJob, database, local, outside
<1>11. CASE MarkFailed(r)
  BY <1>11 DEF MarkFailed, Goto, Return, Broadcast, SetJob, database, local, outside
<1>12. CASE CallIngest(r)
  BY <1>12 DEF CallIngest, Goto, Return, Broadcast, SetJob, database, local, outside
<1>13. CASE FinishIngest(r)
  BY <1>13 DEF FinishIngest, Goto, Return, Broadcast, SetJob, database, local, outside
<1>14. QED
  BY <1>1, <1>2, <1>3, <1>4, <1>5, <1>6, <1>7, <1>8, <1>9, <1>10, <1>11, <1>12, <1>13 DEF Work

\* The agreement of broadcasts, phases and jobs is inductive.
LEMMA NextOnBroadcasts == Typed /\ SaidPhase /\ [Next]_vars => SaidPhase'
<1> SUFFICES ASSUME Typed, SaidPhase, [Next]_vars
             PROVE  SaidPhase'
  OBVIOUS
<1>1. ASSUME NEW r \in Run, Start(r)
      PROVE  SaidPhase'
  <2>1. CASE RunDetection(r) \/ EvaluateRequest(r) \/ IngestRaster(r)
    BY <2>1 DEF RunDetection, EvaluateRequest, IngestRaster, Begin, Goto, database, outside,
       Typed, TypeOK, SaidPhase
  <2>2. CASE CreateJob(r)
    BY <2>2 DEF CreateJob, Return, Goto, Broadcast, Typed, TypeOK, SaidPhase
  <2>3. QED
    BY <1>1, <2>1, <2>2 DEF Start
<1>2. ASSUME NEW r \in Run, Notify(r) \/ ExpireContext(r) \/ Crash(r)
      PROVE  SaidPhase'
  BY <1>2 DEF Notify, ExpireContext, Crash, Active, database, local, outside, Typed, TypeOK,
     SaidPhase
<1>3. CASE ItemIngested
  <2>1. /\ UNCHANGED <<jobs, said>>
        /\ \A r \in Run : pc'[r] = pc[r] \/ (pc[r] = "idle" /\ pc'[r] = "load")
    BY <1>3 DEF ItemIngested, database, outside
  <2>2. QED
    BY <2>1 DEF SaidPhase
<1>4. CASE \/ \E w \in WatchArea : CreateWatchArea(w) \/ DeleteWatchArea(w)
           \/ \E a \in alerts : AckAlert(a)
           \/ CreatePermits
           \/ \E p \in Parcel : DeletePermit(p)
  BY <1>4 DEF CreateWatchArea, DeleteWatchArea, AckAlert, CreatePermits, DeletePermit,
     outside, SaidPhase
<1>5. CASE UNCHANGED vars
  BY <1>5 DEF vars, database, outside, SaidPhase
<1>6. QED
  BY <1>1, <1>2, <1>3, <1>4, <1>5, WorkOnBroadcasts DEF Next

\* No broadcast ever contradicts the row of the job it is about.
THEOREM BroadcastsAgree == Spec => []BroadcastAgreesWithJob
<1>1. Init => Typed /\ SaidPhase
  BY InitTyped DEF Init, SaidPhase
<1>2. Typed /\ SaidPhase /\ [Next]_vars => Typed' /\ SaidPhase'
  BY NextTyped, NextOnBroadcasts
<1>3. SaidPhase => BroadcastAgreesWithJob
  BY DEF SaidPhase, BroadcastAgreesWithJob
<1>4. QED
  BY <1>1, <1>2, <1>3, PTL DEF Spec

-----------------------------------------------------------------------------
(* Rows and the watch areas of alerts *)

\* Stamping verdicts changes nothing else in a row, and loses no row.
LEMMA StampKeepsRows ==
    ASSUME Typed, NEW r \in Run, StampPermits(r)
    PROVE  /\ \A e \in dets' : \E d \in dets :
                d.run = e.run /\ d.idx = e.idx /\ d.wa = e.wa
           /\ \A d \in dets : \E e \in dets' :
                d.run = e.run /\ d.idx = e.idx /\ d.wa = e.wa
<1> DEFINE Stamp(d) == IF d.run = r /\ IsConstruction(d)
                       THEN [d EXCEPT !.permit = PermitVerdict(d)] ELSE d
<1>1. dets' = dets \/ dets' = {Stamp(d) : d \in dets}
  BY DEF StampPermits
<1>2. \A d \in dets : Stamp(d).run = d.run /\ Stamp(d).idx = d.idx /\ Stamp(d).wa = d.wa
  BY DEF Typed, TypeOK, Detection
<1> HIDE DEF Stamp
<1>3. QED
  BY <1>1, <1>2

\* An alert goes with its watch area (alerts.watch_area_id, ON DELETE CASCADE).
AlertsHaveAreas == \A a \in alerts : watch[a.wa] # Null

LEMMA NextOnAreas ==
    ASSUME Typed, AlertsHaveAreas, [Next]_vars
    PROVE  AlertsHaveAreas'
<1> USE DEF Typed, TypeOK, AlertsHaveAreas
<1>1. ASSUME NEW r \in Run, RaiseAlert(r)
      PROVE  AlertsHaveAreas'
  BY <1>1 DEF RaiseAlert, Roles
<1>2. ASSUME NEW w \in WatchArea, CreateWatchArea(w)
      PROVE  AlertsHaveAreas'
  BY <1>2, ConstantsAssumption DEF CreateWatchArea
<1>3. ASSUME NEW w \in WatchArea, DeleteWatchArea(w)
      PROVE  AlertsHaveAreas'
  BY <1>3 DEF DeleteWatchArea, Alert
<1>4. ASSUME NEW a \in alerts, AckAlert(a)
      PROVE  AlertsHaveAreas'
  BY <1>4 DEF AckAlert, Alert
<1>5. CASE \/ ItemIngested
           \/ \E r \in Run : Start(r) \/ Notify(r) \/ ExpireContext(r) \/ Crash(r)
           \/ \E r \in Run : Work(r) /\ ~RaiseAlert(r)
           \/ CreatePermits
           \/ \E p \in Parcel : DeletePermit(p)
           \/ UNCHANGED vars
  <2>1. UNCHANGED <<watch, alerts>>
    BY <1>5 DEF ItemIngested, Start, RunDetection, EvaluateRequest, IngestRaster, Begin,
       CreateJob, Notify, ExpireContext, Crash, CreatePermits, DeletePermit, Work, LoadArea,
       SearchScenes, InsertJob, DetectAnswers, DetectFails, InsertDetection, FinishJob,
       StampPermits, Report, MarkFailed, CallIngest, FinishIngest, vars, database
  <2>2. QED
    BY <2>1
<1>6. QED
  BY <1>1, <1>2, <1>3, <1>4, <1>5 DEF Next

-----------------------------------------------------------------------------
(* The evidence of an alert *)

\* The counted features of an execution are stored, topID is one of them with
\* the largest area, and they only start to be counted once there is a response.
CountedOK(r) ==
    /\ next[r] >= 1
    /\ pc[r] \in {"idle", "load", "search", "insert_job", "detect"} =>
         counted[r] = {} /\ top[r] = 0
    /\ pc[r] \in {"persist", "verdict", "report", "alert"} => res[r] \in Result
    /\ \A i \in counted[r] :
         /\ res[r] \in Result /\ i \in 1..Len(Feats(r))
         /\ \E d \in dets : d.run = r /\ d.idx = i
    /\ top[r] = 0 => counted[r] = {}
    /\ top[r] # 0 => /\ top[r] \in counted[r]
                     /\ \A i \in counted[r] : Feats(r)[i].area <= Feats(r)[top[r]].area

CountedAreStored == \A r \in Run : CountedOK(r)

\* An execution that is to raise an alert, or has raised one, met the condition
\* and no longer changes what the condition reads.
AlertsJustified ==
    /\ \A r \in Run : pc[r] = "alert" => RaisesAlert(r)
    /\ \A a \in alerts : /\ pc[a.run] = "done"
                         /\ a.det = top[a.run]
                         /\ RaisesAlert(a.run)

\* After one insert of detectAndPersist the counted features are stored rows, topID
\* is one of them and none of them is larger.
LEMMA InsertOnCounted ==
    ASSUME Typed, CountedAreStored, NEW r \in Run, InsertDetection(r)
    PROVE  CountedAreStored'
<1> USE DEF Typed, TypeOK
<1>1. /\ res[r] \in Result /\ next[r] \in 1..Len(Feats(r)) /\ next[r] >= 1
      /\ \A i \in 1..Len(Feats(r)) : Feats(r)[i].area \in Nat
  <2>1. res[r] \in Result /\ next[r] >= 1 /\ next[r] <= Len(Feats(r)) /\ next[r] \in Nat
    BY DEF CountedAreStored, CountedOK, InsertDetection
  <2>2. Feats(r) \in Seq([cls : Class, area : Nat, on : SUBSET Parcel])
    BY <2>1, ConstantsAssumption DEF Feats
  <2>3. ASSUME NEW i \in 1..Len(Feats(r))
        PROVE  Feats(r)[i].area \in Nat
    <3> DEFINE Row == [cls : Class, area : Nat, on : SUBSET Parcel]
    <3> HIDE DEF Row
    <3>1. Feats(r)[i] \in Row
      <4>1. Feats(r) \in Seq(Row)
        BY <2>2 DEF Row
      <4> HIDE DEF Feats
      <4>2. QED
        BY <4>1
    <3>2. QED
      BY <3>1 DEF Row
  <2>4. QED
    BY <2>1, <2>2, <2>3
<1>2. /\ UNCHANGED <<pc, res>>
      /\ dets \subseteq dets'
      /\ next' = [next EXCEPT ![r] = @ + 1]
      /\ \A q \in Run \ {r} : counted'[q] = counted[q] /\ top'[q] = top[q]
  BY DEF InsertDetection
<1>3. \/ counted'[r] = counted[r] /\ top'[r] = top[r]
      \/ /\ counted'[r] = counted[r] \cup {next[r]}
         /\ \E d \in dets' : d.run = r /\ d.idx = next[r]
         /\ top'[r] = IF Feats(r)[next[r]].area >= TopArea(r) THEN next[r] ELSE top[r]
  <2>1. PICK reply \in Replies(r) :
          LET i      == next[r]
              stored == DetectionKeysHold(r) /\ reply # "error"
              ok     == DetectionKeysHold(r) /\ reply = "ok"
              row    == [run |-> r, idx |-> i, wa |-> area[r], permit |-> "none"] IN
          /\ dets' = IF stored THEN dets \cup {row} ELSE dets
          /\ counted' = IF ok THEN [counted EXCEPT ![r] = @ \cup {i}] ELSE counted
          /\ top' = IF ok /\ Feats(r)[i].area >= TopArea(r)
                    THEN [top EXCEPT ![r] = i] ELSE top
    BY DEF InsertDetection
  <2>2. CASE DetectionKeysHold(r) /\ reply = "ok"
    <3>1. [run |-> r, idx |-> next[r], wa |-> area[r], permit |-> "none"] \in dets'
      BY <2>1, <2>2
    <3>2. \E d \in dets' : d.run = r /\ d.idx = next[r]
      BY <3>1
    <3>3. /\ counted'[r] = counted[r] \cup {next[r]}
          /\ top'[r] = IF Feats(r)[next[r]].area >= TopArea(r) THEN next[r] ELSE top[r]
      BY <2>1, <2>2
    <3>4. QED
      BY <3>2, <3>3
  <2>3. CASE ~(DetectionKeysHold(r) /\ reply = "ok")
    BY <2>1, <2>3
  <2>4. QED
    BY <2>2, <2>3
<1>4. Feats(r)' = Feats(r) /\ pc[r] = "persist"
  BY <1>2 DEF Feats, InsertDetection
<1>5. ASSUME NEW q \in Run, q # r
      PROVE  CountedOK(q)'
  <2>1. /\ next'[q] = next[q] /\ counted'[q] = counted[q] /\ top'[q] = top[q]
        /\ pc'[q] = pc[q] /\ res'[q] = res[q] /\ dets \subseteq dets'
    BY <1>2, <1>5
  <2>2. CountedOK(q)
    BY DEF CountedAreStored
  <2>3. \A i \in counted[q] : \E d \in dets' : d.run = q /\ d.idx = i
    BY <2>1, <2>2 DEF CountedOK
  <2> HIDE DEF Typed, TypeOK
  <2>4. QED
    BY <2>1, <2>2, <2>3 DEF CountedOK, Feats
<1>6. /\ next'[r] >= 1
      /\ \A i \in counted'[r] : /\ res'[r] \in Result /\ i \in 1..Len(Feats(r)')
                                /\ \E d \in dets' : d.run = r /\ d.idx = i
  <2>1. next'[r] >= 1
    BY <1>1, <1>2
  <2>2. \A i \in counted[r] : /\ i \in 1..Len(Feats(r))
                             /\ \E d \in dets' : d.run = r /\ d.idx = i
    BY <1>2 DEF CountedAreStored, CountedOK
  <2>3. QED
    BY <1>1, <1>2, <1>3, <1>4, <2>1, <2>2
<1>7. CASE counted'[r] = counted[r] /\ top'[r] = top[r]
  <2>1. CountedOK(r)'
    BY <1>2, <1>4, <1>6, <1>7 DEF CountedAreStored, CountedOK, Feats
  <2>2. QED
    BY <1>5, <2>1 DEF CountedAreStored
<1>8. CASE /\ counted'[r] = counted[r] \cup {next[r]}
           /\ top'[r] = IF Feats(r)[next[r]].area >= TopArea(r) THEN next[r] ELSE top[r]
  <2>1. top'[r] # 0 /\ top'[r] \in counted'[r]
    BY <1>1, <1>8 DEF CountedAreStored, CountedOK, TopArea
  <2>2. ASSUME NEW i \in counted'[r]
        PROVE  Feats(r)[i].area <= Feats(r)[top'[r]].area
    <3>1. i \in counted[r] => i \in 1..Len(Feats(r)) /\ top[r] # 0
      BY DEF CountedAreStored, CountedOK
    <3>2. top[r] # 0 => top[r] \in 1..Len(Feats(r))
      BY DEF CountedAreStored, CountedOK
    <3>3. i \in counted[r] => Feats(r)[i].area <= Feats(r)[top[r]].area
      BY <3>1 DEF CountedAreStored, CountedOK
    <3>4. CASE Feats(r)[next[r]].area >= TopArea(r)
      BY <1>1, <1>8, <2>2, <3>1, <3>2, <3>3, <3>4 DEF TopArea
    <3>5. CASE ~(Feats(r)[next[r]].area >= TopArea(r))
      BY <1>1, <1>8, <2>2, <3>1, <3>2, <3>3, <3>5 DEF TopArea
    <3>6. QED
      BY <3>4, <3>5
  <2>3. CountedOK(r)'
    BY <1>2, <1>4, <1>6, <2>1, <2>2 DEF CountedOK, Feats
  <2>4. QED
    BY <1>5, <2>3 DEF CountedAreStored
<1>9. QED
  BY <1>3, <1>7, <1>8

\* The other statements of an execution keep the counted features stored.
LEMMA WorkOnCounted ==
    ASSUME Typed, CountedAreStored, NEW r \in Run, Work(r)
    PROVE  CountedAreStored'
<1>1. CASE InsertDetection(r)
  BY <1>1, InsertOnCounted
<1>2. CASE DetectAnswers(r)
  <2>1. /\ UNCHANGED <<next, counted, top, dets>>
        /\ pc' = [pc EXCEPT ![r] = "persist"] /\ res'[r] \in Result
        /\ \A q \in Run \ {r} : res'[q] = res[q]
    BY <1>2 DEF DetectAnswers, Answers, Goto, Typed, TypeOK, database
  <2>2. next[r] >= 1 /\ counted[r] = {} /\ top[r] = 0
    BY <1>2 DEF DetectAnswers, CountedAreStored, CountedOK
  <2>3. CountedOK(r)'
    BY <2>1, <2>2 DEF CountedOK, Typed, TypeOK
  <2>4. ASSUME NEW q \in Run, q # r
        PROVE  CountedOK(q)'
    BY <2>1, <2>4 DEF CountedAreStored, CountedOK, Feats, Typed, TypeOK
  <2>5. QED
    BY <2>3, <2>4 DEF CountedAreStored
<1>3. CASE StampPermits(r)
  <2>1. /\ UNCHANGED <<res, next, counted, top>>
        /\ pc' = [pc EXCEPT ![r] = "report"] /\ pc[r] = "verdict"
    BY <1>3 DEF StampPermits, Goto
  <2>2. ASSUME NEW q \in Run, NEW i \in counted[q]
        PROVE  \E e \in dets' : e.run = q /\ e.idx = i
    <3>1. PICK d \in dets : d.run = q /\ d.idx = i
      BY <2>2 DEF CountedAreStored, CountedOK
    <3>2. QED
      BY <1>3, <3>1, StampKeepsRows
  <2>3. QED
    BY <2>1, <2>2 DEF Typed, TypeOK, CountedAreStored, CountedOK, Feats
<1>4. CASE \/ LoadArea(r) \/ SearchScenes(r) \/ InsertJob(r) \/ DetectFails(r)
           \/ FinishJob(r) \/ Report(r) \/ RaiseAlert(r) \/ MarkFailed(r)
           \/ CallIngest(r) \/ FinishIngest(r)
  <2>1. UNCHANGED <<res, next, counted, top, dets>>
    BY <1>4 DEF LoadArea, SearchScenes, InsertJob, DetectFails, FinishJob, Report, RaiseAlert,
       MarkFailed, CallIngest, FinishIngest, database, local
  <2>2. \A q \in Run :
          \/ pc'[q] = pc[q]
          \/ /\ pc'[q] \in {"search", "insert_job", "detect"}
             /\ pc[q] \in {"load", "search", "insert_job"}
          \/ /\ pc'[q] \in {"verdict", "alert"}
             /\ pc[q] \in {"persist", "report"}
          \/ pc'[q] \in {"call_ingest", "finish_ingest", "mark_failed", "done"}
    BY <1>4 DEF LoadArea, SearchScenes, InsertJob, DetectFails, FinishJob, Report, RaiseAlert,
       MarkFailed, CallIngest, FinishIngest, Goto, Return, Typed, TypeOK
  <2>3. QED
    BY <2>1, <2>2 DEF CountedAreStored, CountedOK, Feats
<1>5. QED
  BY <1>1, <1>2, <1>3, <1>4 DEF Work

\* The rows behind the counted features are there whatever other requests do.
LEMMA NextOnCounted == Typed /\ CountedAreStored /\ [Next]_vars => CountedAreStored'
<1> SUFFICES ASSUME Typed, CountedAreStored, [Next]_vars
             PROVE  CountedAreStored'
  OBVIOUS
<1>1. CASE \E r \in Run : Work(r)
  BY <1>1, WorkOnCounted
<1>2. CASE \E w \in WatchArea : DeleteWatchArea(w)
  <2>1. PICK w \in WatchArea : DeleteWatchArea(w)
    BY <1>2
  <2>2. UNCHANGED <<res, next, counted, top, pc>>
    BY <2>1 DEF DeleteWatchArea, local
  <2>3. ASSUME NEW d \in dets
        PROVE  \E e \in dets' : e.run = d.run /\ e.idx = d.idx
    <3> DEFINE e == IF d.wa = w THEN [d EXCEPT !.wa = Null] ELSE d
    <3>1. e \in dets'
      BY <2>1 DEF DeleteWatchArea
    <3>2. e.run = d.run /\ e.idx = d.idx
      BY DEF Typed, TypeOK, Detection
    <3>3. QED
      BY <3>1, <3>2
  <2>4. QED
    BY <2>2, <2>3 DEF CountedAreStored, CountedOK, Feats
<1>3. CASE \/ ItemIngested \/ \E r \in Run : Start(r)
           \/ \E r \in Run : Notify(r) \/ ExpireContext(r) \/ Crash(r)
           \/ \E w \in WatchArea : CreateWatchArea(w)
           \/ \E a \in alerts : AckAlert(a)
           \/ CreatePermits
           \/ \E p \in Parcel : DeletePermit(p)
           \/ UNCHANGED vars
  <2>1. UNCHANGED <<res, next, counted, top, dets>>
    BY <1>3 DEF ItemIngested, Start, RunDetection, EvaluateRequest, IngestRaster, Begin,
       CreateJob, Notify, ExpireContext, Crash, CreateWatchArea, AckAlert, CreatePermits,
       DeletePermit, vars, database, local
  <2>2. \A q \in Run :
          \/ pc'[q] = pc[q]
          \/ pc[q] = "idle" /\ pc'[q] \in {"load", "insert_job", "done"}
          \/ pc'[q] = "dead"
    <3>1. CASE \E r \in Run : Start(r)
      BY <3>1 DEF Start, RunDetection, EvaluateRequest, IngestRaster, Begin, CreateJob, Goto,
         Return, Typed, TypeOK
    <3>2. CASE ItemIngested
      BY <3>2 DEF ItemIngested
    <3>3. CASE \E r \in Run : Notify(r) \/ ExpireContext(r) \/ Crash(r)
      BY <3>3 DEF Notify, ExpireContext, Crash, Typed, TypeOK
    <3>4. CASE \/ \E w \in WatchArea : CreateWatchArea(w)
               \/ \E a \in alerts : AckAlert(a)
               \/ CreatePermits
               \/ \E p \in Parcel : DeletePermit(p)
               \/ UNCHANGED vars
      BY <3>4 DEF CreateWatchArea, AckAlert, CreatePermits, DeletePermit, vars
    <3>5. QED
      BY <1>3, <3>1, <3>2, <3>3, <3>4
  <2>3. QED
    BY <2>1, <2>2 DEF CountedAreStored, CountedOK, Feats
<1>4. QED
  BY <1>1, <1>2, <1>3 DEF Next

\* Every alert in the table keeps its evidence across every step.
LEMMA NextOnAlerts ==
    Typed /\ CountedAreStored /\ AlertsJustified /\ [Next]_vars => AlertsJustified'
<1> SUFFICES ASSUME Typed, CountedAreStored, AlertsJustified, [Next]_vars
             PROVE  AlertsJustified'
  OBVIOUS
<1> DEFINE Settled(q) == pc[q] \in {"alert", "done"}
\* What RaisesAlert reads no longer changes once the alert is due.
<1>1. ASSUME NEW q \in Run, Settled(q)
      PROVE  /\ res'[q] = res[q] /\ cfg'[q] = cfg[q] /\ counted'[q] = counted[q]
             /\ top'[q] = top[q]
             /\ pc[q] = "done" => pc'[q] = "done"
  <2>1. CASE \E r \in Run : Work(r)
    BY <1>1, <2>1 DEF Work, LoadArea, SearchScenes, InsertJob, DetectAnswers, DetectFails,
       InsertDetection, FinishJob, StampPermits, Report, RaiseAlert, MarkFailed, CallIngest,
       FinishIngest, Goto, Return, local, Typed, TypeOK
  <2>2. CASE \E r \in Run : Start(r)
    BY <1>1, <2>2 DEF Start, RunDetection, EvaluateRequest, IngestRaster, Begin, CreateJob,
       Goto, Return, Typed, TypeOK
  <2>3. CASE ItemIngested
    BY <1>1, <2>3 DEF ItemIngested
  <2>4. CASE \E r \in Run : Notify(r) \/ ExpireContext(r) \/ Crash(r)
    BY <1>1, <2>4 DEF Notify, ExpireContext, Crash, Active, local, Typed, TypeOK
  <2>5. CASE \/ \E w \in WatchArea : CreateWatchArea(w) \/ DeleteWatchArea(w)
             \/ \E a \in alerts : AckAlert(a)
             \/ CreatePermits
             \/ \E p \in Parcel : DeletePermit(p)
             \/ UNCHANGED vars
    BY <2>5 DEF CreateWatchArea, DeleteWatchArea, AckAlert, CreatePermits, DeletePermit,
       vars, local
  <2>6. QED
    BY <2>1, <2>2, <2>3, <2>4, <2>5 DEF Next
<1>2. ASSUME NEW q \in Run, Settled(q), RaisesAlert(q)
      PROVE  RaisesAlert(q)'
  BY <1>1, <1>2 DEF RaisesAlert, ByClassPositive, Feats
\* Where alerts come from.
<1>3. ASSUME NEW a \in alerts'
      PROVE  \/ \E b \in alerts : b.run = a.run /\ b.det = a.det
             \/ /\ a.run \in Run /\ pc[a.run] = "alert" /\ pc'[a.run] = "done"
                /\ a.det = top[a.run]
  <2>1. CASE \E r \in Run : RaiseAlert(r)
    BY <1>3, <2>1 DEF RaiseAlert, Return, Goto, Typed, TypeOK
  <2>2. CASE \E w \in WatchArea : DeleteWatchArea(w)
    BY <1>3, <2>2 DEF DeleteWatchArea
  <2>3. CASE \E b \in alerts : AckAlert(b)
    BY <1>3, <2>3 DEF AckAlert, Typed, TypeOK, Alert
  <2>4. CASE \/ ItemIngested \/ \E r \in Run : Start(r)
             \/ \E r \in Run : Notify(r) \/ ExpireContext(r) \/ Crash(r)
             \/ \E r \in Run : Work(r) /\ ~RaiseAlert(r)
             \/ \E w \in WatchArea : CreateWatchArea(w)
             \/ CreatePermits
             \/ \E p \in Parcel : DeletePermit(p)
             \/ UNCHANGED vars
    <3>1. alerts' = alerts
      BY <2>4 DEF ItemIngested, Start, RunDetection, EvaluateRequest, IngestRaster, Begin,
         CreateJob, Notify, ExpireContext, Crash, CreateWatchArea, CreatePermits,
         DeletePermit, Work, LoadArea, SearchScenes, InsertJob, DetectAnswers, DetectFails,
         InsertDetection, FinishJob, StampPermits, Report, MarkFailed, CallIngest,
         FinishIngest, vars, database
    <3>2. QED
      BY <1>3, <3>1
  <2>5. QED
    BY <2>1, <2>2, <2>3, <2>4 DEF Next
<1>4. ASSUME NEW q \in Run, pc'[q] = "alert", pc[q] # "alert"
      PROVE  RaisesAlert(q)'
  <2>1. Report(q)
    <3>1. CASE \E r \in Run : Work(r)
      BY <1>4, <3>1 DEF Work, LoadArea, SearchScenes, InsertJob, DetectAnswers, DetectFails,
         InsertDetection, FinishJob, StampPermits, RaiseAlert, MarkFailed, CallIngest, Report,
         FinishIngest, Goto, Return, Typed, TypeOK
    <3>2. CASE \E r \in Run : Start(r)
      BY <1>4, <3>2 DEF Start, RunDetection, EvaluateRequest, IngestRaster, Begin, CreateJob,
         Goto, Return, Typed, TypeOK
    <3>3. CASE ItemIngested
      BY <1>4, <3>3 DEF ItemIngested
    <3>4. CASE \E r \in Run : Notify(r) \/ ExpireContext(r) \/ Crash(r)
      BY <1>4, <3>4 DEF Notify, ExpireContext, Crash, Typed, TypeOK
    <3>5. CASE \/ \E w \in WatchArea : CreateWatchArea(w) \/ DeleteWatchArea(w)
               \/ \E a \in alerts : AckAlert(a)
               \/ CreatePermits
               \/ \E p \in Parcel : DeletePermit(p)
               \/ UNCHANGED vars
      BY <1>4, <3>5 DEF CreateWatchArea, DeleteWatchArea, AckAlert, CreatePermits,
         DeletePermit, vars
    <3>6. QED
      BY <3>1, <3>2, <3>3, <3>4, <3>5 DEF Next
  <2>2. RaisesAlert(q) /\ UNCHANGED <<res, cfg, counted>>
    BY <1>4, <2>1 DEF Report, Return, Goto, local, Typed, TypeOK
  <2>3. QED
    BY <2>2 DEF RaisesAlert, ByClassPositive, Feats
<1>5. ASSUME NEW q \in Run, pc'[q] = "alert"
      PROVE  RaisesAlert(q)'
  BY <1>2, <1>4, <1>5 DEF AlertsJustified
<1>6. ASSUME NEW a \in alerts'
      PROVE  /\ pc'[a.run] = "done" /\ a.det = top'[a.run]
             /\ RaisesAlert(a.run)'
  <2>1. /\ a.run \in Run /\ Settled(a.run) /\ pc'[a.run] = "done"
        /\ a.det = top[a.run] /\ RaisesAlert(a.run)
    <3>1. CASE \E b \in alerts : b.run = a.run /\ b.det = a.det
      BY <1>1, <3>1 DEF AlertsJustified, Typed, TypeOK, Alert
    <3>2. CASE /\ a.run \in Run /\ pc[a.run] = "alert" /\ pc'[a.run] = "done"
               /\ a.det = top[a.run]
      BY <3>2 DEF AlertsJustified
    <3>3. QED
      BY <1>3, <3>1, <3>2
  <2>2. QED
    BY <1>1, <1>2, <2>1
<1>7. QED
  BY <1>5, <1>6 DEF AlertsJustified

-----------------------------------------------------------------------------
(* What an execution without failures leaves behind *)

\* It has returned from detectAndPersist and its caller.
Finished(r) == outcome[r] \in {"ok", "alerted"} /\ res[r] # Null

\* Feature i of r has a row, with a verdict or without.
HasRow(r, i, judged) ==
    \E d \in dets : d.run = r /\ d.idx = i /\ ((d.permit # "none") <=> judged)

\* Its counted features have rows, without verdicts or with those they should have.
Stored(r) == \A i \in counted[r] : HasRow(r, i, FALSE)
Judged(r) ==
    \A i \in counted[r] : HasRow(r, i, Feats(r)[i].cls \in ConstructionClass)

\* How far an execution is by its phase: the response comes before the rows, the
\* rows before the job, the job before the verdicts; and while every statement
\* succeeded none of this is missing.
StepsTaken(r) ==
    /\ outcome[r] # "none" => pc[r] = "done"
    /\ pc[r] \in {"idle", "load", "search", "insert_job", "detect",
                  "call_ingest", "finish_ingest"} => res[r] = Null /\ next[r] = 1
    /\ clean[r] /\ pc[r] \in {"detect", "persist", "verdict"} => hasJob[r]
    /\ clean[r] /\ pc[r] = "persist" =>
          /\ counted[r] = 1 .. (next[r] - 1) /\ next[r] - 1 <= Len(Feats(r))
          /\ Stored(r)
    /\ clean[r] /\ (pc[r] \in {"verdict", "report", "alert"} \/ Finished(r)) =>
          jobs[r] = "succeeded" /\ counted[r] = 1 .. Len(Feats(r))
    /\ clean[r] /\ pc[r] = "verdict" => Stored(r)
    /\ clean[r] /\ (pc[r] \in {"report", "alert"} \/ Finished(r)) => Judged(r)

\* The alerts of an execution are those it returned "alerted" for, and one that is
\* missing went with its watch area.
AlertsAccounted(r) ==
    /\ \A a \in alerts : a.run = r => /\ outcome[r] = "alerted" /\ a.wa = area[r]
                                      /\ a.severity = Severity(r)
    /\ outcome[r] = "alerted" => /\ res[r] \in Result /\ cfg[r] \in AreaConfig
                                 /\ kind[r] \in Evaluation /\ RaisesAlert(r)
    /\ outcome[r] = "alerted" /\ clean[r] =>
          /\ area[r] \in minted
          /\ watch[area[r]] # Null => \E a \in alerts : a.run = r
    /\ outcome[r] = "ok" /\ res[r] # Null => kind[r] = "manual" \/ ~RaisesAlert(r)

\* An evaluation that has loaded its watch area has its configuration.
Configured(r) ==
    kind[r] \in Evaluation /\ pc[r] \notin {"idle", "load", "done", "dead"} =>
       cfg[r] \in AreaConfig

AreasAreMinted == \A w \in WatchArea : watch[w] # Null => w \in minted

NothingMissing ==
    /\ AreasAreMinted
    /\ \A r \in Run : StepsTaken(r) /\ Configured(r) /\ AlertsAccounted(r)

\* A step that is not a stamp of its own execution keeps a row with its verdict.
LEMMA RowsStay ==
    ASSUME Typed, [Next]_vars, NEW d \in dets, ~StampPermits(d.run)
    PROVE  \E e \in dets' : e.run = d.run /\ e.idx = d.idx /\ e.permit = d.permit
<1>1. CASE \E r \in Run : StampPermits(r)
  <2>1. PICK r \in Run : StampPermits(r)
    BY <1>1
  <2> DEFINE Stamp(e) == IF e.run = r /\ IsConstruction(e)
                         THEN [e EXCEPT !.permit = PermitVerdict(e)] ELSE e
  <2>2. dets' = dets \/ dets' = {Stamp(e) : e \in dets}
    BY <2>1 DEF StampPermits
  <2>3. Stamp(d) = d
    BY <2>1
  <2> HIDE DEF Stamp
  <2>4. QED
    BY <2>2, <2>3
<1>2. CASE \E w \in WatchArea : DeleteWatchArea(w)
  <2>1. PICK w \in WatchArea : DeleteWatchArea(w)
    BY <1>2
  <2> DEFINE e == IF d.wa = w THEN [d EXCEPT !.wa = Null] ELSE d
  <2>2. e \in dets'
    BY <2>1 DEF DeleteWatchArea
  <2>3. e.run = d.run /\ e.idx = d.idx /\ e.permit = d.permit
    BY DEF Typed, TypeOK, Detection
  <2>4. QED
    BY <2>2, <2>3
<1>3. CASE \/ ItemIngested
           \/ \E r \in Run : Start(r) \/ Notify(r) \/ ExpireContext(r) \/ Crash(r)
           \/ \E r \in Run : Work(r) /\ ~StampPermits(r)
           \/ \E w \in WatchArea : CreateWatchArea(w)
           \/ \E a \in alerts : AckAlert(a)
           \/ CreatePermits
           \/ \E p \in Parcel : DeletePermit(p)
           \/ UNCHANGED vars
  <2>1. dets \subseteq dets'
    BY <1>3 DEF ItemIngested, Start, RunDetection, EvaluateRequest, IngestRaster, Begin,
       CreateJob, Notify, ExpireContext, Crash, CreateWatchArea, AckAlert, CreatePermits,
       DeletePermit, Work, LoadArea, SearchScenes, InsertJob, DetectAnswers, DetectFails,
       InsertDetection, FinishJob, Report, RaiseAlert, MarkFailed, CallIngest,
       FinishIngest, vars, database
  <2>2. QED
    BY <2>1
<1>4. QED
  BY <1>1, <1>2, <1>3 DEF Next

\* No execution rewrites the verdicts of another one (WHERE d.job_id = $1 in the
\* update of the verdicts in detectAndPersist).
THEOREM VerdictsKept == Spec => VerdictsAreOwn
<1> DEFINE Kept == \A d \in dets :
                      pc[d.run] # "verdict" =>
                        \E e \in dets' : e.run = d.run /\ e.idx = d.idx /\ e.permit = d.permit
<1>1. Spec => []Typed
  BY InitTyped, NextTyped, PTL DEF Spec
<1>2. Typed /\ [Next]_vars => [Kept]_vars
  BY RowsStay DEF StampPermits
<1>3. QED
  BY <1>1, <1>2, PTL DEF Spec, VerdictsAreOwn

\* What the steps of others, users, time and crashes leave of an execution.
LEMMA Elsewhere ==
    ASSUME Typed, [Next]_vars, NEW q \in Run, ~Work(q)
    PROVE  /\ res'[q] = res[q] /\ cfg'[q] = cfg[q] /\ hasJob'[q] = hasJob[q]
           /\ next'[q] = next[q] /\ counted'[q] = counted[q]
           /\ clean'[q] => clean[q]
           /\ \/ /\ pc'[q] = pc[q] \/ (pc[q] \in Active /\ pc'[q] = "dead")
                 /\ outcome'[q] = outcome[q] /\ jobs'[q] = jobs[q]
                 /\ kind'[q] = kind[q] /\ area'[q] = area[q]
              \/ /\ pc[q] = "idle" /\ pc'[q] \in {"load", "insert_job"}
                 /\ outcome'[q] = outcome[q]
              \/ pc[q] = "idle" /\ pc'[q] = "done" /\ outcome'[q] # "alerted"
<1> USE DEF Typed, TypeOK
<1>1. ASSUME NEW r \in Run, Work(r)
      PROVE  /\ res'[q] = res[q] /\ cfg'[q] = cfg[q] /\ hasJob'[q] = hasJob[q]
             /\ next'[q] = next[q] /\ counted'[q] = counted[q]
             /\ clean'[q] = clean[q] /\ pc'[q] = pc[q]
             /\ outcome'[q] = outcome[q] /\ jobs'[q] = jobs[q]
             /\ kind'[q] = kind[q] /\ area'[q] = area[q]
  <2>1. r # q
    BY <1>1
  <2>2. CASE LoadArea(r) \/ SearchScenes(r) \/ InsertJob(r) \/ DetectAnswers(r)
             \/ DetectFails(r)
    BY <2>1, <2>2 DEF LoadArea, SearchScenes, InsertJob, DetectAnswers, DetectFails,
       Goto, Return, Note, local, database, outside
  <2>3. CASE InsertDetection(r) \/ FinishJob(r) \/ StampPermits(r)
    BY <2>1, <2>3 DEF InsertDetection, FinishJob, StampPermits, Goto, SetJob, Note,
       local, database, outside
  <2>4. CASE Report(r) \/ RaiseAlert(r) \/ MarkFailed(r) \/ CallIngest(r)
             \/ FinishIngest(r)
    BY <2>1, <2>4 DEF Report, RaiseAlert, MarkFailed, CallIngest, FinishIngest, Goto,
       Return, SetJob, Note, local, database, outside
  <2>5. QED
    BY <1>1, <2>2, <2>3, <2>4 DEF Work
<1>2. CASE \E r \in Run : Start(r)
  BY <1>2 DEF Start, RunDetection, EvaluateRequest, IngestRaster, Begin, CreateJob,
     Goto, Return, Note, database, outside
<1>3. CASE ItemIngested
  BY <1>3 DEF ItemIngested, database, outside
<1>4. CASE \E r \in Run : Notify(r) \/ ExpireContext(r) \/ Crash(r)
  BY <1>4 DEF Notify, ExpireContext, Crash, local, database, outside
<1>5. CASE \/ \E w \in WatchArea : CreateWatchArea(w) \/ DeleteWatchArea(w)
           \/ \E a \in alerts : AckAlert(a)
           \/ CreatePermits
           \/ \E p \in Parcel : DeletePermit(p)
           \/ UNCHANGED vars
  BY <1>5 DEF CreateWatchArea, DeleteWatchArea, AckAlert, CreatePermits, DeletePermit,
     vars, local, database, outside
<1>6. QED
  BY <1>1, <1>2, <1>3, <1>4, <1>5 DEF Next

\* The rows of an execution that does not stamp stay as they are.
LEMMA RowsOfOneStay ==
    ASSUME Typed, [Next]_vars, NEW r \in Run, ~StampPermits(r),
           counted'[r] = counted[r], res'[r] = res[r]
    PROVE  (Stored(r) => Stored(r)') /\ (Judged(r) => Judged(r)')
<1>1. ASSUME NEW i, NEW judged \in BOOLEAN, HasRow(r, i, judged)
      PROVE  HasRow(r, i, judged)'
  <2>1. PICK d \in dets : d.run = r /\ d.idx = i /\ ((d.permit # "none") <=> judged)
    BY <1>1 DEF HasRow
  <2>2. QED
    BY <2>1, RowsStay DEF HasRow
<1>2. ASSUME Stored(r) PROVE Stored(r)'
  <2>1. \A i \in counted[r] : HasRow(r, i, FALSE)'
    BY <1>1, <1>2 DEF Stored
  <2>2. QED
    BY <2>1 DEF Stored
<1>3. ASSUME Judged(r) PROVE Judged(r)'
  <2>1. Feats(r)' = Feats(r)
    BY DEF Feats
  <2>2. ASSUME NEW i \in counted[r]
        PROVE  \E d \in dets' : /\ d.run = r /\ d.idx = i
                                /\ (d.permit # "none") <=>
                                      Feats(r)[i].cls \in ConstructionClass
    <3> DEFINE judged == Feats(r)[i].cls \in ConstructionClass
    <3>1. HasRow(r, i, judged)
      BY <1>3 DEF Judged
    <3>2. PICK d \in dets : d.run = r /\ d.idx = i /\ ((d.permit # "none") <=> judged)
      BY <3>1 DEF HasRow
    <3> HIDE DEF judged
    <3>3. \E e \in dets' : /\ e.run = r /\ e.idx = i
                           /\ (e.permit # "none") <=> judged
      BY <3>2, RowsStay
    <3>4. QED
      BY <3>3 DEF judged
  <2>3. QED
    BY <2>1, <2>2 DEF Judged, HasRow
<1>4. QED
  BY <1>2, <1>3

\* What is known of an execution stays known while others work.
LEMMA StepsElsewhere ==
    ASSUME Typed, [Next]_vars, NEW q \in Run, ~Work(q), StepsTaken(q)
    PROVE  StepsTaken(q)'
<1>1. ~StampPermits(q)
  BY DEF Work
<1>2. /\ UNCHANGED <<res[q], cfg[q], hasJob[q], next[q], counted[q], Feats(q)>>
      /\ clean'[q] => clean[q]
      /\ (Stored(q) => Stored(q)') /\ (Judged(q) => Judged(q)')
  BY <1>1, Elsewhere, RowsOfOneStay DEF Feats
<1>3. CASE /\ pc'[q] = pc[q] \/ (pc[q] \in Active /\ pc'[q] = "dead")
           /\ outcome'[q] = outcome[q] /\ jobs'[q] = jobs[q]
  <2>1. Finished(q)' = Finished(q)
    BY <1>2, <1>3 DEF Finished
  <2>2. QED
    BY <1>2, <1>3, <2>1 DEF StepsTaken, Active
<1>4. CASE pc[q] = "idle" /\ pc'[q] \in {"load", "insert_job", "done"}
  <2>1. res[q] = Null /\ next[q] = 1
    BY <1>4 DEF StepsTaken
  <2>2. pc'[q] # "done" => outcome'[q] = "none"
    BY <1>4, Elsewhere DEF StepsTaken, Active, Typed, TypeOK
  <2>3. QED
    BY <1>2, <1>4, <2>1, <2>2 DEF StepsTaken, Finished
<1>5. QED
  BY <1>3, <1>4, Elsewhere

\* Until there is a response, an execution has only its job to lose.
LEMMA StepsBefore ==
    ASSUME Typed, NEW q \in Run, CountedOK(q), StepsTaken(q),
           \/ LoadArea(q) \/ SearchScenes(q) \/ InsertJob(q) \/ DetectAnswers(q)
           \/ DetectFails(q) \/ CallIngest(q) \/ FinishIngest(q) \/ MarkFailed(q)
    PROVE  StepsTaken(q)'
<1> USE ConstantsAssumption DEF Typed, TypeOK, StepsTaken, Finished
<1>1. CASE LoadArea(q)
  BY <1>1 DEF LoadArea, Goto, Return, Note, database
<1>2. CASE SearchScenes(q)
  BY <1>2 DEF SearchScenes, Goto, Return, database, local
<1>3. CASE InsertJob(q)
  BY <1>3 DEF InsertJob, Goto, Note
<1>4. CASE DetectAnswers(q)
  <2>1. /\ pc'[q] = "persist" /\ next'[q] = 1 /\ counted'[q] = {} /\ res'[q] \in Result
        /\ hasJob'[q] = hasJob[q] /\ clean'[q] = clean[q] /\ outcome'[q] = "none"
    BY <1>4 DEF DetectAnswers, Answers, Goto, CountedOK, database, outside
  <2>2. Len(Feats(q)') \in Nat
    BY <2>1 DEF Feats
  <2>3. Stored(q)' /\ counted'[q] = 1 .. (next'[q] - 1) /\ next'[q] - 1 <= Len(Feats(q)')
    BY <2>1, <2>2 DEF Stored
  <2>4. hasJob[q] \/ ~clean[q]
    BY <1>4 DEF DetectAnswers
  <2> HIDE DEF Typed, TypeOK
  <2>5. QED
    BY <2>1, <2>3, <2>4
<1>5. CASE DetectFails(q)
  BY <1>5 DEF DetectFails, Goto, database, local, outside
<1>6. CASE CallIngest(q)
  BY <1>6 DEF CallIngest, Goto, database, local, outside
<1>7. CASE FinishIngest(q)
  BY <1>7 DEF FinishIngest, Goto, Return, Note
<1>8. CASE MarkFailed(q)
  BY <1>8 DEF MarkFailed, Goto, Return, Note
<1>9. QED
  BY <1>1, <1>2, <1>3, <1>4, <1>5, <1>6, <1>7, <1>8

\* Each insert that succeeds adds the row of the next feature.
LEMMA StepsInsert ==
    ASSUME Typed, [Next]_vars, NEW q \in Run, CountedOK(q), StepsTaken(q),
           InsertDetection(q)
    PROVE  StepsTaken(q)'
<1>1. PICK reply \in Replies(q) :
        LET ok  == DetectionKeysHold(q) /\ reply = "ok"
            row == [run |-> q, idx |-> next[q], wa |-> area[q], permit |-> "none"] IN
        /\ DetectionKeysHold(q) /\ reply # "error" => dets' = dets \cup {row}
        /\ counted' = IF ok THEN [counted EXCEPT ![q] = @ \cup {next[q]}] ELSE counted
        /\ Note(q, ok)
  BY DEF InsertDetection
<1>2. /\ pc[q] = "persist" /\ next[q] <= Len(Feats(q)) /\ next[q] \in Nat
      /\ next[q] >= 1 /\ next'[q] = next[q] + 1
      /\ UNCHANGED <<pc[q], hasJob[q], res[q], outcome[q], Feats(q)>>
  BY DEF InsertDetection, Typed, TypeOK, outside, Feats, CountedOK
<1>3. outcome[q] = "none"
  BY <1>2 DEF StepsTaken
<1>4. CASE clean'[q]
  <2>1. /\ clean[q] /\ DetectionKeysHold(q) /\ reply = "ok"
    BY <1>1, <1>4 DEF Note, Typed, TypeOK
  <2>2. /\ counted[q] = 1 .. (next[q] - 1) /\ Stored(q) /\ hasJob[q]
        /\ counted'[q] = counted[q] \cup {next[q]}
    BY <1>1, <1>2, <2>1 DEF StepsTaken, Typed, TypeOK
  <2>3. counted'[q] = 1 .. (next'[q] - 1)
    BY <1>2, <2>2
  <2>4. ASSUME NEW i, i = next[q]
        PROVE  HasRow(q, i, FALSE)'
    <3> DEFINE row == [run |-> q, idx |-> next[q], wa |-> area[q], permit |-> "none"]
    <3>1. row \in dets'
      BY <1>1, <2>1
    <3>2. row.run = q /\ row.idx = next[q] /\ row.permit = "none"
      OBVIOUS
    <3> HIDE DEF row
    <3>3. QED
      BY <2>4, <3>1, <3>2 DEF HasRow
  <2>5. \A i \in counted[q] : HasRow(q, i, FALSE)'
    <3>1. ~StampPermits(q)
      BY <1>2 DEF StampPermits
    <3>2. QED
      BY <2>2, <3>1, RowsStay DEF Stored, HasRow
  <2>6. Stored(q)'
    BY <2>2, <2>4, <2>5 DEF Stored
  <2>7. QED
    BY <1>2, <1>3, <2>2, <2>3, <2>6 DEF StepsTaken, Finished
<1>5. CASE ~clean'[q]
  BY <1>2, <1>3, <1>5 DEF StepsTaken
<1>6. QED
  BY <1>4, <1>5

\* The job is ended after the last row, and the verdicts come after the job.
LEMMA StepsEnd ==
    ASSUME Typed, [Next]_vars, NEW q \in Run, CountedOK(q), StepsTaken(q),
           FinishJob(q) \/ StampPermits(q)
    PROVE  StepsTaken(q)'
<1>1. outcome[q] = "none" /\ UNCHANGED <<res[q], counted[q], hasJob[q], outcome[q], Feats(q)>>
  BY DEF FinishJob, StampPermits, StepsTaken, outside, Feats
<1>2. CASE FinishJob(q)
  <2>1. /\ pc[q] = "persist" /\ pc'[q] = "verdict" /\ next[q] > Len(Feats(q))
        /\ next[q] \in Nat
    BY <1>2 DEF FinishJob, Goto, Typed, TypeOK
  <2>2. ~StampPermits(q)
    BY <2>1 DEF StampPermits
  <2>3. CASE clean'[q]
    <3>1. clean[q] /\ hasJob[q] /\ jobs'[q] = "succeeded"
      BY <1>2, <2>1, <2>3 DEF FinishJob, Note, SetJob, StepsTaken, Typed, TypeOK
    <3>2. /\ counted[q] = 1 .. (next[q] - 1) /\ next[q] - 1 <= Len(Feats(q)) /\ Stored(q)
      BY <2>1, <3>1 DEF StepsTaken
    <3>3. Len(Feats(q)) \in Nat
      <4>1. res[q] \in Result
        BY <2>1 DEF CountedOK
      <4>2. QED
        BY <4>1, ConstantsAssumption DEF Feats
    <3>4. counted[q] = 1 .. Len(Feats(q))
      BY <2>1, <3>2, <3>3
    <3>5. Stored(q)'
      BY <1>1, <2>2, <3>2, RowsOfOneStay
    <3>6. QED
      BY <1>1, <2>1, <3>1, <3>4, <3>5 DEF StepsTaken, Finished
  <2>4. CASE ~clean'[q]
    BY <1>1, <2>1, <2>4 DEF StepsTaken
  <2>5. QED
    BY <2>3, <2>4
<1>3. CASE StampPermits(q)
  <2>1. pc[q] = "verdict" /\ pc'[q] = "report" /\ jobs'[q] = jobs[q]
    BY <1>3 DEF StampPermits, Goto, Typed, TypeOK
  <2>2. CASE clean'[q]
    <3> DEFINE Stamp(d) == IF d.run = q /\ IsConstruction(d)
                           THEN [d EXCEPT !.permit = PermitVerdict(d)] ELSE d
    <3>1. clean[q] /\ hasJob[q] /\ dets' = {Stamp(d) : d \in dets}
      BY <1>3, <2>1, <2>2 DEF StampPermits, Note, StepsTaken, Typed, TypeOK
    <3>2. /\ jobs[q] = "succeeded" /\ counted[q] = 1 .. Len(Feats(q)) /\ Stored(q)
      BY <2>1, <3>1 DEF StepsTaken
    <3>3. ASSUME NEW i \in counted[q]
          PROVE  HasRow(q, i, Feats(q)[i].cls \in ConstructionClass)'
      <4>1. PICK d \in dets : d.run = q /\ d.idx = i /\ d.permit = "none"
        BY <3>2 DEF Stored, HasRow
      <4>2. /\ Stamp(d).run = q /\ Stamp(d).idx = i
            /\ (Stamp(d).permit # "none") <=> Feats(q)[i].cls \in ConstructionClass
        <5>1. CASE IsConstruction(d)
          BY <4>1, <5>1 DEF IsConstruction, PermitVerdict, Typed, TypeOK, Detection
        <5>2. CASE ~IsConstruction(d)
          BY <4>1, <5>2 DEF IsConstruction
        <5>3. QED
          BY <5>1, <5>2
      <4>3. Stamp(d) \in dets'
        BY <3>1
      <4> HIDE DEF Stamp
      <4>4. QED
        BY <1>1, <4>2, <4>3 DEF HasRow
    <3>4. Judged(q)'
      BY <1>1, <3>3 DEF Judged
    <3>5. QED
      BY <1>1, <2>1, <3>2, <3>4 DEF StepsTaken, Finished
  <2>3. CASE ~clean'[q]
    BY <1>1, <2>1, <2>3 DEF StepsTaken
  <2>4. QED
    BY <2>2, <2>3
<1>4. QED
  BY <1>2, <1>3

\* The caller adds nothing to the rows and the job.
LEMMA StepsAfter ==
    ASSUME Typed, [Next]_vars, NEW q \in Run, StepsTaken(q), Report(q) \/ RaiseAlert(q)
    PROVE  StepsTaken(q)'
<1>1. /\ pc[q] \in {"report", "alert"} /\ pc'[q] \in {"alert", "done"}
      /\ UNCHANGED <<res[q], counted[q], jobs[q], Feats(q)>>
      /\ pc'[q] = "alert" => outcome'[q] = outcome[q]
      /\ clean'[q] => clean[q]
  BY DEF Report, RaiseAlert, Goto, Return, Note, Typed, TypeOK, database, local, Feats
<1>2. Judged(q) => Judged(q)'
  <2>1. ~StampPermits(q)
    BY <1>1 DEF StampPermits
  <2>2. QED
    BY <1>1, <2>1, RowsOfOneStay
<1>3. QED
  BY <1>1, <1>2 DEF StepsTaken, Finished

LEMMA NextOnSteps ==
    ASSUME Typed, CountedAreStored, [Next]_vars, NEW q \in Run, StepsTaken(q)
    PROVE  StepsTaken(q)'
<1>1. CountedOK(q)
  BY DEF CountedAreStored
<1>2. QED
  BY <1>1, StepsElsewhere, StepsBefore, StepsInsert, StepsEnd, StepsAfter DEF Work

\* The configuration an evaluation works with is the one it read (getWatchArea).
LEMMA NextOnConfiguration ==
    ASSUME Typed, [Next]_vars, NEW q \in Run, Configured(q)
    PROVE  Configured(q)'
<1>1. CASE ~Work(q)
  <2>1. /\ cfg'[q] = cfg[q]
        /\ \/ /\ pc'[q] = pc[q] \/ pc'[q] = "dead"
              /\ kind'[q] = kind[q]
           \/ pc[q] = "idle" /\ pc'[q] \in {"load", "done"}
           \/ pc[q] = "idle" /\ pc'[q] = "insert_job"
    BY <1>1, Elsewhere
  <2>2. CASE pc[q] = "idle" /\ pc'[q] = "insert_job"
    <3>1. kind'[q] \in {"manual", "ingest"}
      <4>1. CASE \E r \in Run : Start(r)
        BY <2>2, <4>1 DEF Start, RunDetection, EvaluateRequest, IngestRaster, Begin,
           CreateJob, Goto, Return, Typed, TypeOK
      <4>2. CASE \E r \in Run : Work(r)
        BY <2>2, <4>2 DEF Work, LoadArea, SearchScenes, InsertJob, DetectAnswers,
           DetectFails, InsertDetection, FinishJob, StampPermits, Report, RaiseAlert,
           MarkFailed, CallIngest, FinishIngest, Goto, Return, Typed, TypeOK
      <4>3. CASE ItemIngested
        BY <2>2, <4>3 DEF ItemIngested
      <4>4. CASE \E r \in Run : Notify(r) \/ ExpireContext(r) \/ Crash(r)
        BY <2>2, <4>4 DEF Notify, ExpireContext, Crash, Typed, TypeOK
      <4>5. CASE \/ \E w \in WatchArea : CreateWatchArea(w) \/ DeleteWatchArea(w)
                 \/ \E a \in alerts : AckAlert(a)
                 \/ CreatePermits
                 \/ \E p \in Parcel : DeletePermit(p)
                 \/ UNCHANGED vars
        BY <2>2, <4>5 DEF CreateWatchArea, DeleteWatchArea, AckAlert, CreatePermits,
           DeletePermit, vars
      <4>6. QED
        BY <4>1, <4>2, <4>3, <4>4, <4>5 DEF Next
    <3>2. QED
      BY <3>1 DEF Configured, Evaluation
  <2>3. QED
    BY <2>1, <2>2 DEF Configured
<1>2. CASE LoadArea(q)
  BY <1>2 DEF LoadArea, Goto, Return, Configured, Typed, TypeOK, Roles
<1>3. CASE Work(q) /\ ~LoadArea(q)
  <2>1. cfg'[q] = cfg[q] /\ kind'[q] = kind[q] /\ pc[q] \notin {"idle", "load", "done", "dead"}
    BY <1>3 DEF Work, SearchScenes, InsertJob, DetectAnswers, DetectFails, InsertDetection,
       FinishJob, StampPermits, Report, RaiseAlert, MarkFailed, CallIngest, FinishIngest,
       local
  <2>2. QED
    BY <2>1 DEF Configured
<1>4. QED
  BY <1>1, <1>2, <1>3 DEF Work

\* An id of a watch area is given out once: an area that is gone stays gone.
LEMMA AreasStay ==
    ASSUME Typed, AreasAreMinted, [Next]_vars
    PROVE  /\ AreasAreMinted' /\ minted \subseteq minted'
           /\ \A w \in minted : watch'[w] # Null => watch[w] # Null
<1>1. CASE \E w \in WatchArea : CreateWatchArea(w)
  BY <1>1 DEF CreateWatchArea, AreasAreMinted, Typed, TypeOK
<1>2. CASE \E w \in WatchArea : DeleteWatchArea(w)
  BY <1>2 DEF DeleteWatchArea, AreasAreMinted, Typed, TypeOK
<1>3. CASE \/ ItemIngested
           \/ \E r \in Run : Start(r) \/ Work(r) \/ Notify(r) \/ ExpireContext(r) \/ Crash(r)
           \/ \E a \in alerts : AckAlert(a)
           \/ CreatePermits
           \/ \E p \in Parcel : DeletePermit(p)
           \/ UNCHANGED vars
  <2>1. UNCHANGED <<watch, minted>>
    BY <1>3 DEF ItemIngested, Start, RunDetection, EvaluateRequest, IngestRaster, Begin,
       CreateJob, Notify, ExpireContext, Crash, AckAlert, CreatePermits, DeletePermit, Work,
       LoadArea, SearchScenes, InsertJob, DetectAnswers, DetectFails, InsertDetection,
       FinishJob, StampPermits, Report, RaiseAlert, MarkFailed, CallIngest, FinishIngest,
       vars, database
  <2>2. QED
    BY <2>1 DEF AreasAreMinted
<1>4. QED
  BY <1>1, <1>2, <1>3 DEF Next

\* The alerts of an execution that raises none now: none is new but for being
\* acknowledged, and none is gone but with its watch area.
LEMMA AlertsStay ==
    ASSUME Typed, [Next]_vars, NEW q \in Run, ~RaiseAlert(q)
    PROVE  /\ \A a \in alerts' : a.run = q =>
                 \E b \in alerts : b.run = q /\ b.wa = a.wa /\ b.severity = a.severity
           /\ \A a \in alerts : a.run = q /\ watch'[a.wa] # Null =>
                 \E b \in alerts' : b.run = q
<1>1. CASE \E r \in Run : RaiseAlert(r)
  <2>1. PICK r \in Run : RaiseAlert(r)
    BY <1>1
  <2> DEFINE row == [run |-> r, wa |-> area[r], det |-> top[r],
                     severity |-> Severity(r), ack |-> FALSE]
  <2>2. row.run = r /\ r # q
    BY <2>1
  <2>3. alerts' \in {alerts, alerts \cup {row}}
    BY <2>1 DEF RaiseAlert
  <2> HIDE DEF row
  <2>4. QED
    BY <2>2, <2>3
<1>2. CASE \E w \in WatchArea : DeleteWatchArea(w)
  BY <1>2 DEF DeleteWatchArea, Typed, TypeOK, Alert
<1>3. CASE \E b \in alerts : AckAlert(b)
  <2>1. PICK b \in alerts : AckAlert(b)
    BY <1>3
  <2> DEFINE acked == [b EXCEPT !.ack = TRUE]
  <2>2. acked.run = b.run /\ acked.wa = b.wa /\ acked.severity = b.severity
    BY DEF Typed, TypeOK, Alert
  <2>3. alerts' = (alerts \ {b}) \cup {acked}
    BY <2>1 DEF AckAlert
  <2> HIDE DEF acked
  <2>4. QED
    BY <2>2, <2>3
<1>4. CASE \/ ItemIngested \/ \E r \in Run : Start(r)
           \/ \E r \in Run : Notify(r) \/ ExpireContext(r) \/ Crash(r)
           \/ \E r \in Run : Work(r) /\ ~RaiseAlert(r)
           \/ \E w \in WatchArea : CreateWatchArea(w)
           \/ CreatePermits
           \/ \E p \in Parcel : DeletePermit(p)
           \/ UNCHANGED vars
  <2>1. alerts' = alerts
    BY <1>4 DEF ItemIngested, Start, RunDetection, EvaluateRequest, IngestRaster, Begin,
       CreateJob, Notify, ExpireContext, Crash, CreateWatchArea, CreatePermits,
       DeletePermit, Work, LoadArea, SearchScenes, InsertJob, DetectAnswers, DetectFails,
       InsertDetection, FinishJob, StampPermits, Report, MarkFailed, CallIngest,
       FinishIngest, vars, database
  <2>2. QED
    BY <2>1
<1>5. QED
  BY <1>1, <1>2, <1>3, <1>4 DEF Next

\* What decides on an alert, and on how severe it is, is its own execution's.
LEMMA DecidedByOwn ==
    ASSUME NEW q, res'[q] = res[q], cfg'[q] = cfg[q], counted'[q] = counted[q]
    PROVE  RaisesAlert(q)' = RaisesAlert(q) /\ Severity(q)' = Severity(q)
  BY DEF RaisesAlert, ByClassPositive, Severity, Feats

\* The alerts of an execution stay accounted for while others work.
LEMMA AlertsElsewhere ==
    ASSUME Typed, AreasAreMinted, [Next]_vars, NEW q \in Run, ~Work(q),
           StepsTaken(q), AlertsAccounted(q)
    PROVE  AlertsAccounted(q)'
<1>1. /\ res'[q] = res[q] /\ cfg'[q] = cfg[q] /\ counted'[q] = counted[q]
      /\ clean'[q] => clean[q]
      /\ RaisesAlert(q)' = RaisesAlert(q) /\ Severity(q)' = Severity(q)
  BY Elsewhere, DecidedByOwn
<1>2. ~RaiseAlert(q)
  BY DEF Work
<1>3. CASE outcome'[q] = outcome[q] /\ kind'[q] = kind[q] /\ area'[q] = area[q]
  <2>1. ASSUME NEW a \in alerts', a.run = q
        PROVE  outcome[q] = "alerted" /\ a.wa = area[q] /\ a.severity = Severity(q)
    BY <1>2, <2>1, AlertsStay DEF AlertsAccounted
  <2>2. ASSUME outcome[q] = "alerted", clean[q]
        PROVE  /\ area[q] \in minted'
               /\ watch'[area[q]] # Null => \E a \in alerts' : a.run = q
    <3>1. area[q] \in minted /\ (watch[area[q]] # Null => \E a \in alerts : a.run = q)
      BY <2>2 DEF AlertsAccounted
    <3>2. \A a \in alerts : a.run = q => a.wa = area[q]
      BY DEF AlertsAccounted
    <3>3. QED
      BY <1>2, <3>1, <3>2, AreasStay, AlertsStay
  <2>3. QED
    BY <1>1, <1>3, <2>1, <2>2 DEF AlertsAccounted
<1>4. CASE pc[q] = "idle" /\ outcome'[q] # "alerted" /\ (outcome'[q] = "ok" => res[q] = Null)
  <2>1. outcome[q] = "none"
    BY <1>4 DEF StepsTaken
  <2>2. \A a \in alerts' : a.run # q
    BY <1>2, <2>1, AlertsStay DEF AlertsAccounted
  <2>3. QED
    BY <1>1, <1>4, <2>2 DEF AlertsAccounted
<1>5. QED
  BY <1>3, <1>4, Elsewhere DEF StepsTaken

\* An execution raises its alert when it is due, or returns without one.
LEMMA AlertsOwn ==
    ASSUME Typed, CountedAreStored, AlertsJustified, AreasAreMinted, [Next]_vars,
           NEW q \in Run, Work(q), StepsTaken(q), Configured(q), AlertsAccounted(q)
    PROVE  AlertsAccounted(q)'
<1>1. outcome[q] = "none"
  BY DEF StepsTaken, Work, LoadArea, SearchScenes, InsertJob, DetectAnswers, DetectFails,
     InsertDetection, FinishJob, StampPermits, Report, RaiseAlert, MarkFailed, CallIngest,
     FinishIngest
<1>2. \A a \in alerts : a.run # q
  BY <1>1 DEF AlertsAccounted
<1>3. CASE RaiseAlert(q)
  <2>1. /\ pc[q] = "alert" /\ outcome'[q] = "alerted"
        /\ UNCHANGED <<watch, minted, kind, area, cfg, res, counted>>
    BY <1>3 DEF RaiseAlert, Return, Typed, TypeOK
  <2>2. /\ RaisesAlert(q) /\ kind[q] \in Evaluation /\ res[q] \in Result
        /\ cfg[q] \in AreaConfig /\ area[q] \in WatchArea
    BY <2>1 DEF AlertsJustified, Typed, Roles, CountedAreStored, CountedOK, Configured
  <2>3. RaisesAlert(q)' = RaisesAlert(q) /\ Severity(q)' = Severity(q)
    BY <2>1, DecidedByOwn
  <2> DEFINE row == [run |-> q, wa |-> area[q], det |-> top[q],
                     severity |-> Severity(q), ack |-> FALSE]
  <2>4. row.run = q /\ row.wa = area[q] /\ row.severity = Severity(q)
    OBVIOUS
  <2>5. /\ alerts' \in {alerts, alerts \cup {row}}
        /\ clean'[q] => watch[area[q]] # Null /\ alerts' = alerts \cup {row}
    BY <1>3 DEF RaiseAlert, Note, Typed, TypeOK
  <2> HIDE DEF row
  <2>6. \A a \in alerts' : a.run = q => a = row
    BY <1>2, <2>5
  <2>7. clean'[q] => area[q] \in minted /\ row \in alerts'
    BY <2>2, <2>5 DEF AreasAreMinted
  <2>8. QED
    BY <2>1, <2>2, <2>3, <2>4, <2>6, <2>7 DEF AlertsAccounted
<1>4. CASE ~RaiseAlert(q)
  <2>1. \A a \in alerts' : a.run # q
    BY <1>2, <1>4, AlertsStay
  <2>2. outcome'[q] # "alerted"
    BY <1>1, <1>4 DEF Work, LoadArea, SearchScenes, InsertJob, DetectAnswers, DetectFails,
       InsertDetection, FinishJob, StampPermits, Report, MarkFailed, CallIngest,
       FinishIngest, Goto, Return, outside, Typed, TypeOK
  <2>3. ASSUME outcome'[q] = "ok", res'[q] # Null
        PROVE  kind'[q] = "manual" \/ ~RaisesAlert(q)'
    <3>1. CASE Report(q)
      <4>1. /\ UNCHANGED <<kind, res, cfg, counted>>
            /\ kind[q] = "manual" \/ ~RaisesAlert(q)
        BY <1>1, <2>3, <3>1 DEF Report, local
      <4>2. QED
        BY <4>1, DecidedByOwn
    <3>2. CASE FinishIngest(q)
      BY <2>3, <3>2 DEF FinishIngest, StepsTaken
    <3>3. CASE ~Report(q) /\ ~FinishIngest(q)
      BY <1>1, <1>4, <2>3, <3>3 DEF Work, LoadArea, SearchScenes, InsertJob, DetectAnswers,
         DetectFails, InsertDetection, FinishJob, StampPermits, MarkFailed, CallIngest,
         Goto, Return, outside, Typed, TypeOK
    <3>4. QED
      BY <3>1, <3>2, <3>3
  <2>4. QED
    BY <2>1, <2>2, <2>3 DEF AlertsAccounted
<1>5. QED
  BY <1>3, <1>4

LEMMA InitMissing == Init => NothingMissing
<1> SUFFICES ASSUME Init PROVE NothingMissing
  OBVIOUS
<1>1. AreasAreMinted
  BY DEF Init, AreasAreMinted
<1>2. ASSUME NEW r \in Run
      PROVE  StepsTaken(r) /\ Configured(r) /\ AlertsAccounted(r)
  BY DEF Init, StepsTaken, Finished, Configured, AlertsAccounted, Evaluation
<1>3. QED
  BY <1>1, <1>2 DEF NothingMissing

LEMMA NextOnMissing ==
    ASSUME Typed, CountedAreStored, AlertsJustified, NothingMissing, [Next]_vars
    PROVE  NothingMissing'
<1>1. AreasAreMinted'
  BY AreasStay DEF NothingMissing
<1>2. ASSUME NEW q \in Run
      PROVE  StepsTaken(q)' /\ Configured(q)' /\ AlertsAccounted(q)'
  <2>1. StepsTaken(q) /\ Configured(q) /\ AlertsAccounted(q) /\ AreasAreMinted
    BY DEF NothingMissing
  <2>2. StepsTaken(q)' /\ Configured(q)'
    BY <2>1, NextOnSteps, NextOnConfiguration
  <2>3. AlertsAccounted(q)'
    BY <2>1, AlertsElsewhere, AlertsOwn
  <2>4. QED
    BY <2>2, <2>3
<1>3. QED
  BY <1>1, <1>2 DEF NothingMissing

\* The invariant names everything an execution without failures owes.
LEMMA NothingMissingCompletes ==
    ASSUME AlertsHaveAreas, NothingMissing
    PROVE  CleanRunCompletes
<1> SUFFICES ASSUME NEW r \in Run, res[r] # Null, clean[r], outcome[r] \in {"ok", "alerted"}
             PROVE  /\ Completed(r)
                    /\ kind[r] = "manual" => \A a \in alerts : a.run # r
                    /\ kind[r] \in Evaluation =>
                         IF ShouldAlert(r) /\ watch[area[r]] # Null
                         THEN \E a \in alerts :
                                /\ a.run = r /\ a.wa = area[r]
                                /\ a.severity = "critical" <=>
                                      res[r].frac >= 2 * cfg[r].threshold
                         ELSE \A a \in alerts : a.run # r
  BY DEF CleanRunCompletes
<1>1. /\ jobs[r] = "succeeded" /\ counted[r] = 1 .. Len(Feats(r)) /\ Judged(r)
      /\ AlertsAccounted(r)
  BY DEF NothingMissing, StepsTaken, Finished
<1>2. Completed(r)
  BY <1>1 DEF Completed, Judged, HasRow
<1>3. RaisesAlert(r) <=> ShouldAlert(r)
  BY <1>1 DEF RaisesAlert, ShouldAlert, ByClassPositive
<1>4. \A a \in alerts : a.run = r => /\ outcome[r] = "alerted" /\ a.wa = area[r]
                                     /\ a.severity = Severity(r)
  BY <1>1 DEF AlertsAccounted
<1>5. outcome[r] = "alerted" => /\ res[r] \in Result /\ cfg[r] \in AreaConfig
                                /\ kind[r] \in Evaluation /\ RaisesAlert(r)
                                /\ (watch[area[r]] # Null => \E a \in alerts : a.run = r)
  BY <1>1 DEF AlertsAccounted
<1>6. kind[r] = "manual" => \A a \in alerts : a.run # r
  BY <1>4, <1>5 DEF Evaluation
<1>7. ASSUME kind[r] \in Evaluation, ShouldAlert(r), watch[area[r]] # Null
      PROVE  \E a \in alerts : /\ a.run = r /\ a.wa = area[r]
                               /\ a.severity = "critical" <=>
                                     res[r].frac >= 2 * cfg[r].threshold
  <2>1. outcome[r] = "alerted"
    <3>1. kind[r] # "manual" /\ RaisesAlert(r)
      BY <1>3, <1>7 DEF Evaluation
    <3>2. QED
      BY <1>1, <3>1 DEF AlertsAccounted
  <2>2. PICK a \in alerts : a.run = r
    BY <1>5, <1>7, <2>1
  <2>3. res[r].frac \in Nat /\ cfg[r].threshold \in Nat
    BY <1>5, <2>1, ConstantsAssumption
  <2>4. Severity(r) = "critical" <=> res[r].frac >= 2 * cfg[r].threshold
    BY <2>3 DEF Severity
  <2>5. QED
    BY <1>4, <2>2, <2>4
<1>8. ASSUME kind[r] \in Evaluation, ~(ShouldAlert(r) /\ watch[area[r]] # Null)
      PROVE  \A a \in alerts : a.run # r
  <2>1. \A a \in alerts : watch[a.wa] # Null
    BY DEF AlertsHaveAreas
  <2>2. QED
    BY <1>3, <1>4, <1>5, <1>8, <2>1
<1>9. QED
  BY <1>2, <1>6, <1>7, <1>8

\* The invariant of the two theorems below.
Invariant == /\ Typed /\ AlertsHaveAreas /\ CountedAreStored
             /\ AlertsJustified /\ NothingMissing

LEMMA InvariantHolds == Spec => []Invariant
<1>1. Init => Invariant
  <2>1. Init => CountedAreStored
    BY DEF Init, CountedAreStored, CountedOK, Feats
  <2>2. Init => AlertsHaveAreas /\ AlertsJustified
    BY DEF Init, AlertsHaveAreas, AlertsJustified
  <2>3. QED
    BY <2>1, <2>2, InitTyped, InitMissing DEF Invariant
<1>2. Invariant /\ [Next]_vars => Invariant'
  BY NextTyped, NextOnAreas, NextOnCounted, NextOnAlerts, NextOnMissing DEF Invariant
<1>3. QED
  BY <1>1, <1>2, PTL DEF Spec

\* An execution of which no statement failed leaves its job succeeded, every feature
\* stored with the verdict it should have, and its alert raised when it is due and of
\* the right severity, whatever others did meanwhile (evaluateWatchArea, runDetection
\* and detectAndPersist).
THEOREM CleanRunsComplete == Spec => []CleanRunCompletes
<1>1. Invariant => CleanRunCompletes
  BY NothingMissingCompletes DEF Invariant
<1>2. QED
  BY <1>1, InvariantHolds, PTL

\* Every stored alert links the largest of the detections whose insert returned; one
\* that links none is of an answer without features or of an execution a statement of
\* which failed; and the classes its area asks for are among the stored detections
\* (detectAndPersist, evaluateWatchArea).
THEOREM AlertsMatchEvidence == Spec => []AlertMatchesEvidence
<1>1. Invariant => AlertMatchesEvidence
  <2> SUFFICES ASSUME Invariant, NEW a \in alerts, NEW r, r = a.run
               PROVE  /\ LinksLargest(a, r) \/ LinksNothing(a, r)
                      /\ cfg[r].classes # {} =>
                           \E d \in dets : /\ d.run = r
                                           /\ Feats(r)[d.idx].cls \in cfg[r].classes
                                           /\ Feats(r)[d.idx].area > 0
    BY DEF AlertMatchesEvidence
  <2>1. /\ r \in Run /\ CountedOK(r) /\ a.det = top[r] /\ RaisesAlert(r)
        /\ StepsTaken(r) /\ AlertsAccounted(r)
    BY DEF Invariant, Typed, TypeOK, Alert, CountedAreStored, AlertsJustified,
       NothingMissing
  <2>2. \A i \in counted[r] : \E d \in dets : d.run = r /\ d.idx = i
    BY <2>1 DEF CountedOK
  <2>3. ASSUME a.det # 0 PROVE LinksLargest(a, r)
    BY <2>1, <2>2, <2>3 DEF CountedOK, LinksLargest
  <2>4. ASSUME a.det = 0 PROVE LinksNothing(a, r)
    <3>1. counted[r] = {}
      BY <2>1, <2>4 DEF CountedOK
    <3>2. outcome[r] = "alerted" /\ res[r] \in Result
      BY <2>1 DEF AlertsAccounted
    <3>3. Finished(r) /\ Len(Feats(r)) \in Nat
      BY <3>2, ConstantsAssumption DEF Finished, Feats
    <3>4. clean[r] => 1 .. Len(Feats(r)) = {}
      BY <2>1, <3>1, <3>3 DEF StepsTaken
    <3>5. QED
      BY <2>4, <3>1, <3>3, <3>4 DEF LinksNothing
  <2>5. ASSUME cfg[r].classes # {}
        PROVE  \E d \in dets : /\ d.run = r
                               /\ Feats(r)[d.idx].cls \in cfg[r].classes
                               /\ Feats(r)[d.idx].area > 0
    <3>1. PICK i \in counted[r] :
            Feats(r)[i].cls \in cfg[r].classes /\ Feats(r)[i].area > 0
      BY <2>1, <2>5 DEF RaisesAlert, ByClassPositive
    <3>2. QED
      BY <2>2, <3>1
  <2>6. QED
    BY <2>3, <2>4, <2>5
<1>2. QED
  BY <1>1, InvariantHolds, PTL

-----------------------------------------------------------------------------
(* The moment of the verdicts *)

Early == {"idle", "load", "search", "insert_job", "detect", "persist", "verdict"}

\* No row has a verdict before its execution has stamped.
UnjudgedEarly == \A d \in dets : pc[d.run] \in Early => d.permit = "none"

\* No execution returns to an early phase, and the answer is that of an early one.
LEMMA EarlyIsLeft ==
    ASSUME Typed, [Next]_vars, NEW q \in Run
    PROVE  /\ pc'[q] \in Early => pc[q] \in Early
           /\ pc[q] \notin Early => res'[q] = res[q]
<1>1. CASE ~Work(q)
  <2>1. /\ res'[q] = res[q]
        /\ pc'[q] = pc[q] \/ pc'[q] = "dead" \/ pc[q] = "idle"
    BY <1>1, Elsewhere
  <2>2. QED
    BY <2>1 DEF Early
<1>2. CASE Work(q)
  <2>1. /\ pc[q] \in {"report", "alert", "call_ingest", "finish_ingest", "mark_failed"} =>
             pc'[q] \notin Early
        /\ pc[q] # "detect" => res'[q] = res[q]
        /\ pc[q] \notin {"done", "dead"}
    BY <1>2 DEF Work, LoadArea, SearchScenes, InsertJob, DetectAnswers, DetectFails,
       InsertDetection, FinishJob, StampPermits, Report, RaiseAlert, MarkFailed, CallIngest,
       FinishIngest, Goto, Return, local, Typed, TypeOK, Early
  <2>2. pc[q] \in Phase
    BY DEF Typed, TypeOK
  <2>3. QED
    BY <2>1, <2>2 DEF Early, Phase
<1>3. QED
  BY <1>1, <1>2

\* A row of an execution that does not stamp has no verdict or had the one it has.
LEMMA RowsCome ==
    ASSUME Typed, [Next]_vars, NEW e \in dets', ~StampPermits(e.run)
    PROVE  \/ e.permit = "none"
           \/ \E d \in dets : d.run = e.run /\ d.idx = e.idx /\ d.permit = e.permit
<1>1. CASE \E r \in Run : StampPermits(r)
  <2>1. PICK r \in Run : StampPermits(r)
    BY <1>1
  <2> DEFINE Stamp(d) == IF d.run = r /\ IsConstruction(d)
                         THEN [d EXCEPT !.permit = PermitVerdict(d)] ELSE d
  <2>2. dets' = dets \/ dets' = {Stamp(d) : d \in dets}
    BY <2>1 DEF StampPermits
  <2>3. e.run # r
    BY <2>1
  <2>4. \A d \in dets : Stamp(d).run = d.run /\ (d.run # r => Stamp(d) = d)
    BY DEF Typed, TypeOK, Detection
  <2> HIDE DEF Stamp
  <2>5. QED
    BY <2>2, <2>3, <2>4
<1>2. CASE \E r \in Run : InsertDetection(r)
  <2>1. PICK r \in Run : InsertDetection(r)
    BY <1>2
  <2> DEFINE row == [run |-> r, idx |-> next[r], wa |-> area[r], permit |-> "none"]
  <2>2. dets' = dets \/ dets' = dets \cup {row}
    BY <2>1 DEF InsertDetection
  <2>3. row.permit = "none"
    OBVIOUS
  <2> HIDE DEF row
  <2>4. QED
    BY <2>2, <2>3
<1>3. CASE \E w \in WatchArea : DeleteWatchArea(w)
  <2>1. PICK w \in WatchArea : DeleteWatchArea(w)
    BY <1>3
  <2>2. PICK d \in dets : e = IF d.wa = w THEN [d EXCEPT !.wa = Null] ELSE d
    BY <2>1 DEF DeleteWatchArea
  <2>3. e.run = d.run /\ e.idx = d.idx /\ e.permit = d.permit
    BY <2>2 DEF Typed, TypeOK, Detection
  <2>4. QED
    BY <2>3
<1>4. CASE \/ ItemIngested
           \/ \E r \in Run : Start(r) \/ Notify(r) \/ ExpireContext(r) \/ Crash(r)
           \/ \E r \in Run : Work(r) /\ ~StampPermits(r) /\ ~InsertDetection(r)
           \/ \E w \in WatchArea : CreateWatchArea(w)
           \/ \E a \in alerts : AckAlert(a)
           \/ CreatePermits
           \/ \E p \in Parcel : DeletePermit(p)
           \/ UNCHANGED vars
  <2>1. dets' = dets
    BY <1>4 DEF ItemIngested, Start, RunDetection, EvaluateRequest, IngestRaster, Begin,
       CreateJob, Notify, ExpireContext, Crash, CreateWatchArea, AckAlert, CreatePermits,
       DeletePermit, Work, LoadArea, SearchScenes, InsertJob, DetectAnswers, DetectFails,
       FinishJob, Report, RaiseAlert, MarkFailed, CallIngest, FinishIngest, vars, database
  <2>2. QED
    BY <2>1
<1>5. QED
  BY <1>1, <1>2, <1>3, <1>4 DEF Next

\* The stamp judges every row that is to be judged, by the permits there are.
LEMMA StampIsOneMoment ==
    ASSUME Typed, UnjudgedEarly, NEW q \in Run, StampPermits(q)
    PROVE  \E held \in SUBSET Parcel :
             \A e \in dets' : (e.run = q /\ e.permit # "none") =>
               (e.permit = "permitted" <=> Feats(q)[e.idx].on \cap held # {})
<1> DEFINE Stamp(d) == IF d.run = q /\ IsConstruction(d)
                       THEN [d EXCEPT !.permit = PermitVerdict(d)] ELSE d
<1>1. dets' = dets \/ dets' = {Stamp(d) : d \in dets}
  BY DEF StampPermits
<1>2. \A d \in dets : d.run = q => d.permit = "none"
  BY DEF StampPermits, UnjudgedEarly, Early
<1>3. permits \in SUBSET Parcel
  BY DEF Typed, TypeOK
<1>4. ASSUME NEW d \in dets, Stamp(d).run = q, Stamp(d).permit # "none"
      PROVE  Stamp(d).permit = "permitted" <=>
               Feats(q)[Stamp(d).idx].on \cap permits # {}
  <2>1. d.run = q /\ IsConstruction(d)
    BY <1>2, <1>4 DEF Typed, TypeOK, Detection
  <2>2. Stamp(d).permit = PermitVerdict(d) /\ Stamp(d).idx = d.idx
    BY <2>1 DEF Typed, TypeOK, Detection
  <2>3. QED
    BY <2>1, <2>2 DEF PermitVerdict
<1> HIDE DEF Stamp
<1>5. \A e \in dets' : (e.run = q /\ e.permit # "none") =>
        (e.permit = "permitted" <=> Feats(q)[e.idx].on \cap permits # {})
  BY <1>1, <1>2, <1>4
<1>6. QED
  BY <1>3, <1>5

LEMMA NextOnMoments ==
    ASSUME Typed, UnjudgedEarly, VerdictsOfOneMoment, [Next]_vars
    PROVE  UnjudgedEarly' /\ VerdictsOfOneMoment'
<1>1. ASSUME NEW e \in dets', pc'[e.run] \in Early
      PROVE  e.permit = "none"
  <2>1. e.run \in Run
    <3>1. TypeOK'
      BY NextTyped DEF Typed
    <3>2. QED
      BY <3>1 DEF TypeOK, Detection
  <2>2. ~StampPermits(e.run)
    BY <1>1, <2>1 DEF StampPermits, Goto, Typed, TypeOK, Early
  <2>3. pc[e.run] \in Early
    BY <1>1, <2>1, EarlyIsLeft
  <2>4. QED
    BY <2>2, <2>3, RowsCome DEF UnjudgedEarly
<1>2. ASSUME NEW q \in Run
      PROVE  \E held \in SUBSET Parcel :
               \A e \in dets' : (e.run = q /\ e.permit # "none") =>
                 (e.permit = "permitted" <=> Feats(q)'[e.idx].on \cap held # {})
  <2>1. CASE StampPermits(q)
    <3>1. Feats(q)' = Feats(q)
      BY <2>1 DEF StampPermits, Feats
    <3>2. QED
      BY <2>1, <3>1, StampIsOneMoment
  <2>2. CASE ~StampPermits(q)
    <3>1. PICK held \in SUBSET Parcel :
            \A d \in dets : (d.run = q /\ d.permit # "none") =>
              (d.permit = "permitted" <=> Feats(q)[d.idx].on \cap held # {})
      BY DEF VerdictsOfOneMoment
    <3>2. ASSUME NEW e \in dets', e.run = q, e.permit # "none"
          PROVE  e.permit = "permitted" <=> Feats(q)'[e.idx].on \cap held # {}
      <4>1. PICK d \in dets : d.run = q /\ d.idx = e.idx /\ d.permit = e.permit
        BY <2>2, <3>2, RowsCome
      <4>2. pc[q] \notin Early
        BY <3>2, <4>1 DEF UnjudgedEarly
      <4>3. Feats(q)' = Feats(q)
        BY <4>2, EarlyIsLeft DEF Feats
      <4>4. QED
        BY <3>1, <3>2, <4>1, <4>3
    <3>3. QED
      BY <3>2
  <2>3. QED
    BY <2>1, <2>2
<1>3. VerdictsOfOneMoment'
  BY <1>2 DEF VerdictsOfOneMoment
<1>4. QED
  BY <1>1, <1>3 DEF UnjudgedEarly

\* However permits come and go while any number of executions store and stamp, one
\* set of permits accounts for all the verdicts of a job (the update of
\* detectAndPersist, detection_handlers.go:126).
THEOREM VerdictsShareAMoment == Spec => []VerdictsOfOneMoment
<1>1. Init => Typed /\ UnjudgedEarly /\ VerdictsOfOneMoment
  <2>1. Init => UnjudgedEarly /\ VerdictsOfOneMoment
    BY DEF Init, UnjudgedEarly, VerdictsOfOneMoment
  <2>2. QED
    BY <2>1, InitTyped
<1>2. Typed /\ UnjudgedEarly /\ VerdictsOfOneMoment /\ [Next]_vars =>
        Typed' /\ UnjudgedEarly' /\ VerdictsOfOneMoment'
  BY NextTyped, NextOnMoments
<1>3. QED
  BY <1>1, <1>2, PTL DEF Spec
=============================================================================
