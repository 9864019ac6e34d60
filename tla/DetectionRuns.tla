--------------------------- MODULE DetectionRuns ----------------------------
(***************************************************************************)
(* The work the Varasi control plane does on behalf of a job: change       *)
(* detection run by hand (runDetection), the evaluation of a watch area    *)
(* (evaluateWatchArea, on request or in the background after an ingest),   *)
(* the ingest proxy (ingestRaster) and createJob, against the tables they  *)
(* share: watch_areas, jobs, detections, alerts and permits.               *)
(*                                                                         *)
(* Every execution is a member of Run and goes through its statements one  *)
(* by one, each an action, so that executions interleave with each other   *)
(* and with the deletion of a watch area or the change of permits.  A      *)
(* statement sent to PostgreSQL is atomic; it may fail, and it may be      *)
(* committed while its reply is lost.  Once the context of an execution    *)
(* has expired every statement it sends fails.  The replica that serves an *)
(* execution may die.  One tenant is modelled.                             *)
(***************************************************************************)
EXTENDS Naturals, Sequences, FiniteSets

CONSTANTS
    Run,                \* executions of a handler or of the background engine
    WatchArea,          \* ids of watch areas
    Parcel,             \* land a permit covers
    Class,              \* change classes
    ConstructionClass,  \* the classes permits are checked for
    AreaConfig,         \* [threshold, classes]: configurations of watch areas
    Result,             \* responses of the ai-worker: [frac, feats]
    Faults,             \* faults the environment may cause
    Null

ASSUME ConstantsAssumption ==
    /\ ConstructionClass \subseteq Class
    /\ AreaConfig \subseteq [threshold : Nat, classes : SUBSET Class]
    /\ Result \subseteq
          [frac : Nat,
           feats : Seq([cls : Class, area : Nat, on : SUBSET Parcel])]
    /\ Faults \subseteq {"db", "ctx", "crash"}
    /\ Null \notin AreaConfig /\ Null \notin Result /\ Null \notin WatchArea

VARIABLES
    \* the database
    watch,      \* watch_areas: the configuration of a row, Null if no row
    minted,     \* ids of watch areas given out so far; ids are never reused
    permits,    \* parcels some row of permits covers
    jobs,       \* status of the jobs row each execution inserts
    dets,       \* rows of detections
    alerts,     \* rows of alerts
    \* the executions
    pc,         \* the next statement of each execution
    kind,       \* what started it
    area,       \* its watch area, or Null
    cfg,        \* the configuration it read, or Null
    hasJob,     \* does it know the id of its job (jobID # uuid.Nil)?
    live,       \* is its context still open?
    res,        \* the response of the ai-worker, or Null
    next,       \* the feature to insert next
    counted,    \* the features whose insert returned without error
    top,        \* topID: index of a feature, 0 for nil
    outcome,    \* what it returned to its caller
    said,       \* the types of message it broadcast
    notice,     \* the notification of its alert
    clean       \* history: did each of its statements so far succeed?

database == <<watch, minted, permits, jobs, dets, alerts>>
local    == <<kind, area, cfg, hasJob, live, res, next, counted, top, clean>>
outside  == <<outcome, said, notice>>
vars     == <<database, pc, local, outside>>

-----------------------------------------------------------------------------

Kind    == {"manual", "request", "background", "ingest", "enqueue"}
Phase   == {"idle", "load", "search", "insert_job", "detect", "persist",
            "verdict", "report", "alert", "call_ingest", "finish_ingest",
            "mark_failed", "done", "dead"}
Active  == Phase \ {"idle", "done", "dead"}
Outcome == {"none", "error", "skipped", "ok", "alerted"}
Message == {"job.created", "job.succeeded", "job.failed", "alert.created"}
Notice  == {"none", "pending", "sent", "failed", "lost"}
Verdict == {"none", "permitted", "unpermitted"}

Detection == [run : Run, idx : Nat, wa : WatchArea \cup {Null}, permit : Verdict]
Alert     == [run : Run, wa : WatchArea, det : Nat,
              severity : {"warning", "critical"}, ack : BOOLEAN]

JobStatus == {"none", "queued", "running", "succeeded", "failed"}

TypeOK ==
    /\ watch \in [WatchArea -> AreaConfig \cup {Null}]
    /\ minted \subseteq WatchArea
    /\ permits \subseteq Parcel
    /\ jobs \in [Run -> JobStatus]
    /\ dets \subseteq Detection
    /\ alerts \subseteq Alert
    /\ pc \in [Run -> Phase]
    /\ kind \in [Run -> Kind]
    /\ area \in [Run -> WatchArea \cup {Null}]
    /\ cfg \in [Run -> AreaConfig \cup {Null}]
    /\ hasJob \in [Run -> BOOLEAN]
    /\ live \in [Run -> BOOLEAN]
    /\ res \in [Run -> Result \cup {Null}]
    /\ next \in [Run -> Nat]
    /\ counted \in [Run -> SUBSET Nat]
    /\ top \in [Run -> Nat]
    /\ outcome \in [Run -> Outcome]
    /\ said \in [Run -> SUBSET Message]
    /\ notice \in [Run -> Notice]
    /\ clean \in [Run -> BOOLEAN]

Init ==
    /\ watch = [w \in WatchArea |-> Null]
    /\ minted = {}
    /\ permits = {}
    /\ jobs = [r \in Run |-> "none"]
    /\ dets = {}
    /\ alerts = {}
    /\ pc = [r \in Run |-> "idle"]
    /\ kind = [r \in Run |-> "manual"]
    /\ area = [r \in Run |-> Null]
    /\ cfg = [r \in Run |-> Null]
    /\ hasJob = [r \in Run |-> FALSE]
    /\ live = [r \in Run |-> TRUE]
    /\ res = [r \in Run |-> Null]
    /\ next = [r \in Run |-> 1]
    /\ counted = [r \in Run |-> {}]
    /\ top = [r \in Run |-> 0]
    /\ outcome = [r \in Run |-> "none"]
    /\ said = [r \in Run |-> {}]
    /\ notice = [r \in Run |-> "none"]
    /\ clean = [r \in Run |-> TRUE]

-----------------------------------------------------------------------------
(* Helpers *)

Feats(r) == res[r].feats

\* What may come of a statement: done and acknowledged, failed, or committed
\* with its reply lost.  The driver refuses to start one on an expired context.
Replies(r) ==
    IF live[r]
    THEN {"ok"} \cup (IF "db" \in Faults THEN {"error", "lost"} ELSE {})
    ELSE {"error"}

\* The foreign keys of detections.job_id and detections.watch_area_id.
DetectionKeysHold(r) ==
    hasJob[r] /\ (area[r] = Null \/ watch[area[r]] # Null)

\* Faulty variant: a class counts even if no feature of it was stored.
ByClassPositive_Uncounted(r, cls) ==
    \E i \in 1..Len(Feats(r)) : Feats(r)[i].cls = cls /\ Feats(r)[i].area > 0

\* byClass[cls] > 0: some counted feature of the class has an area.
ByClassPositive(r, cls) ==
    \E i \in counted[r] : Feats(r)[i].cls = cls /\ Feats(r)[i].area > 0

\* Faulty variant: a fraction at the threshold raises no alert.
RaisesAlert_Strict(r) ==
    /\ res[r].frac > cfg[r].threshold
    /\ \/ cfg[r].classes = {}
       \/ \E cls \in cfg[r].classes : ByClassPositive(r, cls)

RaisesAlert(r) ==
    /\ res[r].frac >= cfg[r].threshold
    /\ \/ cfg[r].classes = {}
       \/ \E cls \in cfg[r].classes : ByClassPositive(r, cls)

\* Faulty variant: the default of the column, which the code never means to use.
Severity_Default(r) == "info"

Severity(r) ==
    IF res[r].frac >= cfg[r].threshold * 2 THEN "critical" ELSE "warning"

\* Faulty variant: topArea is never set, so that the last feature is taken.
TopArea_Unset(r) == 0

TopArea(r) == IF top[r] = 0 THEN 0 ELSE Feats(r)[top[r]].area

IsConstruction(d) == Feats(d.run)[d.idx].cls \in ConstructionClass

PermitVerdict(d) ==
    IF Feats(d.run)[d.idx].on \cap permits # {} THEN "permitted"
                                               ELSE "unpermitted"

\* The classes of an area are sent as the tags of the request, and the ai-worker
\* returns features of the requested tags only (OnlyRequestedTags of ModelRouter).
Answers(r) ==
    IF cfg[r] = Null \/ cfg[r].classes = {} THEN Result
    ELSE {a \in Result : \A i \in 1..Len(a.feats) : a.feats[i].cls \in cfg[r].classes}

Goto(r, phase) == pc' = [pc EXCEPT ![r] = phase]

Return(r, value) ==
    /\ outcome' = [outcome EXCEPT ![r] = value]
    /\ Goto(r, "done")

Broadcast(r, msgs) == said' = [said EXCEPT ![r] = @ \cup msgs]

\* UPDATE jobs SET status = s WHERE id = jobID: no row if jobID is nil.
SetJob(r, s, reply) ==
    jobs' = IF hasJob[r] /\ reply # "error" THEN [jobs EXCEPT ![r] = s] ELSE jobs

Note(r, ok) == clean' = [clean EXCEPT ![r] = @ /\ ok]

-----------------------------------------------------------------------------
(* Users and the ingest worker start executions. *)

Begin(r, k, w, phase) ==
    /\ pc[r] = "idle"
    /\ kind' = [kind EXCEPT ![r] = k]
    /\ area' = [area EXCEPT ![r] = w]
    /\ Goto(r, phase)
    /\ UNCHANGED <<database, cfg, hasJob, live, res, next, counted, top, clean,
                   outside>>

\* POST /detections/run: watch_area_id is taken from the body as it is.
RunDetection(r) == \E w \in WatchArea \cup {Null} : Begin(r, "manual", w, "insert_job")

\* POST /watch-areas/{id}/evaluate
EvaluateRequest(r) == \E w \in WatchArea : Begin(r, "request", w, "load")

IngestRaster(r) == Begin(r, "ingest", Null, "insert_job")

\* POST /internal/events/item-ingested: one background execution for each
\* watch area under the footprint of the new item.
ItemIngested ==
    \E footprint \in SUBSET WatchArea :
      LET targets == {w \in footprint : watch[w] # Null} IN
      \E worker \in [targets -> {r \in Run : pc[r] = "idle"}] :
        /\ targets # {}
        /\ \A v, w \in targets : worker[v] = worker[w] => v = w
        /\ LET Target(r) == CHOOSE w \in targets : worker[w] = r
               started   == {worker[w] : w \in targets} IN
           /\ kind' = [r \in Run |-> IF r \in started THEN "background" ELSE kind[r]]
           /\ area' = [r \in Run |-> IF r \in started THEN Target(r) ELSE area[r]]
           /\ pc'   = [r \in Run |-> IF r \in started THEN "load" ELSE pc[r]]
        /\ UNCHANGED <<database, cfg, hasJob, live, res, next, counted, top, clean,
                       outside>>

\* POST /jobs: the row keeps the default status; no code takes it from there.
CreateJob(r) ==
    /\ pc[r] = "idle"
    /\ kind' = [kind EXCEPT ![r] = "enqueue"]
    /\ \E reply \in Replies(r) :
         /\ jobs' = IF reply # "error" THEN [jobs EXCEPT ![r] = "queued"] ELSE jobs
         /\ Note(r, reply = "ok")
         /\ IF reply = "ok"
            THEN Broadcast(r, {"job.created"}) /\ Return(r, "ok")
            ELSE UNCHANGED said /\ Return(r, "error")
    /\ UNCHANGED <<watch, minted, permits, dets, alerts, area, cfg, hasJob, live,
                   res, next, counted, top, notice>>

-----------------------------------------------------------------------------
(* evaluateWatchArea up to the detection *)

LoadArea(r) ==
    /\ pc[r] = "load"
    /\ \E reply \in Replies(r) :
         /\ Note(r, reply = "ok")
         /\ IF reply = "ok" /\ watch[area[r]] # Null
            THEN /\ cfg' = [cfg EXCEPT ![r] = watch[area[r]]]
                 /\ Goto(r, "search")
                 /\ UNCHANGED outcome
            ELSE Return(r, "error") /\ UNCHANGED cfg
    /\ UNCHANGED <<database, kind, area, hasJob, live, res, next, counted, top,
                   said, notice>>

\* searchScenes and the choice of the pair: no pair, a pair, or an error.
\* Faulty variant: an error of the search is retried, without ever giving up.
SearchScenes_Retry(r) ==
    /\ pc[r] = "search"
    /\ live[r]
    /\ Goto(r, "insert_job") /\ UNCHANGED outcome
    /\ UNCHANGED <<database, local, said, notice>>

SearchScenes(r) ==
    /\ pc[r] = "search"
    /\ \/ live[r] /\ Goto(r, "insert_job") /\ UNCHANGED outcome
       \/ live[r] /\ Return(r, "skipped")
       \/ Return(r, "error")
    /\ UNCHANGED <<database, local, said, notice>>

\* The error of the INSERT is ignored: the execution goes on without an id.
InsertJob(r) ==
    /\ pc[r] = "insert_job"
    /\ \E reply \in Replies(r) :
         /\ jobs' = IF reply # "error" THEN [jobs EXCEPT ![r] = "running"] ELSE jobs
         /\ hasJob' = [hasJob EXCEPT ![r] = reply = "ok"]
         /\ Note(r, reply = "ok")
    /\ Broadcast(r, {"job.created"})
    /\ Goto(r, IF kind[r] = "ingest" THEN "call_ingest" ELSE "detect")
    /\ UNCHANGED <<watch, minted, permits, dets, alerts, kind, area, cfg, live, res,
                   next, counted, top, outcome, notice>>

-----------------------------------------------------------------------------
(* detectAndPersist *)

\* The call does not carry the context: it may outlast it.
DetectAnswers(r) ==
    /\ pc[r] = "detect"
    /\ \E answer \in Answers(r) : res' = [res EXCEPT ![r] = answer]
    /\ Goto(r, "persist")
    /\ UNCHANGED <<database, kind, area, cfg, hasJob, live, next, counted, top, clean,
                   outside>>

\* Faulty variant: an error of the ai-worker is returned before the job is marked.
DetectFails_Unmarked(r) ==
    /\ pc[r] = "detect"
    /\ Return(r, "error")
    /\ UNCHANGED <<database, local, said, notice>>

DetectFails(r) ==
    /\ pc[r] = "detect"
    /\ Goto(r, "mark_failed")
    /\ UNCHANGED <<database, local, outside>>

InsertDetection(r) ==
    /\ pc[r] = "persist"
    /\ next[r] <= Len(Feats(r))
    /\ \E reply \in Replies(r) :
         LET i      == next[r]
             stored == DetectionKeysHold(r) /\ reply # "error"
             ok     == DetectionKeysHold(r) /\ reply = "ok"
             row    == [run |-> r, idx |-> i, wa |-> area[r], permit |-> "none"] IN
         /\ dets' = IF stored THEN dets \cup {row} ELSE dets
         /\ counted' = IF ok THEN [counted EXCEPT ![r] = @ \cup {i}] ELSE counted
         /\ top' = IF ok /\ Feats(r)[i].area >= TopArea(r)
                   THEN [top EXCEPT ![r] = i] ELSE top
         /\ Note(r, ok)
    /\ next' = [next EXCEPT ![r] = @ + 1]
    /\ UNCHANGED <<watch, minted, permits, jobs, alerts, pc, kind, area, cfg, hasJob,
                   live, res, outside>>

\* Faulty variant: an error of the update is taken for a failed detection.
FinishJob_Checked(r) ==
    /\ pc[r] = "persist"
    /\ next[r] > Len(Feats(r))
    /\ \E reply \in Replies(r) :
         /\ SetJob(r, "succeeded", reply)
         /\ Note(r, reply = "ok")
         /\ Goto(r, IF reply = "ok" THEN "verdict" ELSE "mark_failed")
    /\ UNCHANGED <<watch, minted, permits, dets, alerts, kind, area, cfg, hasJob,
                   live, res, next, counted, top, outside>>

FinishJob(r) ==
    /\ pc[r] = "persist"
    /\ next[r] > Len(Feats(r))
    /\ \E reply \in Replies(r) : SetJob(r, "succeeded", reply) /\ Note(r, reply = "ok")
    /\ Goto(r, "verdict")
    /\ UNCHANGED <<watch, minted, permits, dets, alerts, kind, area, cfg, hasJob,
                   live, res, next, counted, top, outside>>

\* Faulty variant: the verdicts of every job are stamped again.
StampPermits_AllJobs(r) ==
    /\ pc[r] = "verdict"
    /\ \E reply \in Replies(r) :
         /\ dets' = IF hasJob[r] /\ reply # "error"
                    THEN {IF IsConstruction(d)
                          THEN [d EXCEPT !.permit = PermitVerdict(d)]
                          ELSE d : d \in dets}
                    ELSE dets
         /\ Note(r, reply = "ok")
    /\ Goto(r, "report")
    /\ UNCHANGED <<watch, minted, permits, jobs, alerts, kind, area, cfg, hasJob, live,
                   res, next, counted, top, outside>>

\* Faulty variant: one update for each row, with the permits of its own moment.
StampPermits_RowByRow(r) ==
    LET due == {d \in dets : d.run = r /\ IsConstruction(d) /\ d.permit = "none"} IN
    /\ pc[r] = "verdict"
    /\ IF due # {}
       THEN /\ \E d \in due :
                 dets' = (dets \ {d}) \cup {[d EXCEPT !.permit = PermitVerdict(d)]}
            /\ UNCHANGED <<pc, clean>>
       ELSE Goto(r, "report") /\ UNCHANGED <<dets, clean>>
    /\ UNCHANGED <<watch, minted, permits, jobs, alerts, kind, area, cfg, hasJob, live,
                   res, next, counted, top, outside>>

\* One UPDATE: all the rows are judged by the permits of one moment.
StampPermits(r) ==
    /\ pc[r] = "verdict"
    /\ \E reply \in Replies(r) :
         /\ dets' = IF hasJob[r] /\ reply # "error"
                    THEN {IF d.run = r /\ IsConstruction(d)
                          THEN [d EXCEPT !.permit = PermitVerdict(d)]
                          ELSE d : d \in dets}
                    ELSE dets
         /\ Note(r, reply = "ok")
    /\ Goto(r, "report")
    /\ UNCHANGED <<watch, minted, permits, jobs, alerts, kind, area, cfg, hasJob, live,
                   res, next, counted, top, outside>>

-----------------------------------------------------------------------------
(* The callers, once detectAndPersist has returned *)

Report(r) ==
    /\ pc[r] = "report"
    /\ Broadcast(r, {"job.succeeded"})
    /\ IF kind[r] # "manual" /\ RaisesAlert(r)
       THEN Goto(r, "alert") /\ UNCHANGED outcome
       ELSE Return(r, "ok")
    /\ UNCHANGED <<database, local, notice>>

\* The error of the INSERT is ignored: the notification, the broadcast and the
\* result "alerted" follow all the same.
RaiseAlert(r) ==
    /\ pc[r] = "alert"
    /\ \E reply \in Replies(r) :
         LET keys == watch[area[r]] # Null
             row  == [run |-> r, wa |-> area[r], det |-> top[r],
                      severity |-> Severity(r), ack |-> FALSE] IN
         /\ alerts' = IF keys /\ reply # "error" THEN alerts \cup {row} ELSE alerts
         /\ Note(r, keys /\ reply = "ok")
    /\ notice' = [notice EXCEPT ![r] = "pending"]
    /\ Broadcast(r, {"alert.created"})
    /\ Return(r, "alerted")
    /\ UNCHANGED <<watch, minted, permits, jobs, dets, kind, area, cfg, hasJob, live,
                   res, next, counted, top>>

\* go notify(...): one attempt, failures are only logged.  It may never end:
\* smtp.SendMail has neither a timeout nor a context.
Notify(r) ==
    /\ notice[r] = "pending"
    /\ \E n \in {"sent", "failed"} : notice' = [notice EXCEPT ![r] = n]
    /\ UNCHANGED <<database, pc, local, outcome, said>>

\* evaluateWatchArea does not broadcast the failure; the handlers do.
MarkFailed(r) ==
    /\ pc[r] = "mark_failed"
    /\ \E reply \in Replies(r) : SetJob(r, "failed", reply) /\ Note(r, reply = "ok")
    /\ IF kind[r] \in {"manual", "ingest"} THEN Broadcast(r, {"job.failed"})
                                           ELSE UNCHANGED said
    /\ Return(r, "error")
    /\ UNCHANGED <<watch, minted, permits, dets, alerts, kind, area, cfg, hasJob, live,
                   res, next, counted, top, notice>>

\* POST /ingest on the ingest worker, which does not carry the context either.
CallIngest(r) ==
    /\ pc[r] = "call_ingest"
    /\ \E phase \in {"finish_ingest", "mark_failed"} : Goto(r, phase)
    /\ UNCHANGED <<database, local, outside>>

\* Faulty variant: the success is broadcast before the update, whose error then
\* fails the job.
FinishIngest_Early(r) ==
    /\ pc[r] = "finish_ingest"
    /\ \E reply \in Replies(r) :
         /\ SetJob(r, "succeeded", reply)
         /\ Note(r, reply = "ok")
         /\ IF reply = "ok" THEN Return(r, "ok")
                           ELSE Goto(r, "mark_failed") /\ UNCHANGED outcome
    /\ Broadcast(r, {"job.succeeded"})
    /\ UNCHANGED <<watch, minted, permits, dets, alerts, kind, area, cfg, hasJob, live,
                   res, next, counted, top, notice>>

FinishIngest(r) ==
    /\ pc[r] = "finish_ingest"
    /\ \E reply \in Replies(r) : SetJob(r, "succeeded", reply) /\ Note(r, reply = "ok")
    /\ Broadcast(r, {"job.succeeded"})
    /\ Return(r, "ok")
    /\ UNCHANGED <<watch, minted, permits, dets, alerts, kind, area, cfg, hasJob, live,
                   res, next, counted, top, notice>>

-----------------------------------------------------------------------------
(* Other requests *)

CreateWatchArea(w) ==
    /\ w \notin minted
    /\ minted' = minted \cup {w}
    /\ \E c \in AreaConfig : watch' = [watch EXCEPT ![w] = c]
    /\ UNCHANGED <<permits, jobs, dets, alerts, pc, local, outside>>

\* alerts.watch_area_id is ON DELETE CASCADE, detections.watch_area_id SET NULL.
DeleteWatchArea(w) ==
    /\ watch[w] # Null
    /\ watch' = [watch EXCEPT ![w] = Null]
    /\ alerts' = {a \in alerts : a.wa # w}
    /\ dets' = {IF d.wa = w THEN [d EXCEPT !.wa = Null] ELSE d : d \in dets}
    /\ UNCHANGED <<minted, permits, jobs, pc, local, outside>>

AckAlert(a) ==
    /\ a \in alerts
    /\ alerts' = (alerts \ {a}) \cup {[a EXCEPT !.ack = TRUE]}
    /\ UNCHANGED <<watch, minted, permits, jobs, dets, pc, local, outside>>

\* Each parcel is inserted by a statement of its own; those that fail are skipped.
CreatePermits ==
    /\ \E inserted \in SUBSET Parcel :
         /\ inserted # {}
         /\ permits' = permits \cup inserted
    /\ UNCHANGED <<watch, minted, jobs, dets, alerts, pc, local, outside>>

DeletePermit(p) ==
    /\ p \in permits
    /\ permits' = permits \ {p}
    /\ UNCHANGED <<watch, minted, jobs, dets, alerts, pc, local, outside>>

-----------------------------------------------------------------------------
(* Time and crashes *)

\* 60 s for a request (middleware.Timeout), less if its client goes away, and
\* 5 min for a background evaluation.
ExpireContext(r) ==
    /\ "ctx" \in Faults
    /\ pc[r] \in Active
    /\ live[r]
    /\ live' = [live EXCEPT ![r] = FALSE]
    /\ UNCHANGED <<database, pc, kind, area, cfg, hasJob, res, next, counted, top, clean,
                   outside>>

\* The replica serving r stops; nothing resumes what it was doing.
Crash(r) ==
    /\ "crash" \in Faults
    /\ pc[r] \in Active \/ notice[r] = "pending"
    /\ pc' = [pc EXCEPT ![r] = IF @ \in Active THEN "dead" ELSE @]
    /\ notice' = [notice EXCEPT ![r] = IF @ = "pending" THEN "lost" ELSE @]
    /\ UNCHANGED <<database, local, outcome, said>>

-----------------------------------------------------------------------------

Start(r) ==
    RunDetection(r) \/ EvaluateRequest(r) \/ IngestRaster(r) \/ CreateJob(r)

Work(r) ==
    \/ LoadArea(r) \/ SearchScenes(r) \/ InsertJob(r)
    \/ DetectAnswers(r) \/ DetectFails(r)
    \/ InsertDetection(r) \/ FinishJob(r) \/ StampPermits(r)
    \/ Report(r) \/ RaiseAlert(r) \/ MarkFailed(r)
    \/ CallIngest(r) \/ FinishIngest(r)

Next ==
    \/ \E r \in Run :
         Start(r) \/ Work(r) \/ Notify(r) \/ ExpireContext(r) \/ Crash(r)
    \/ ItemIngested
    \/ \E w \in WatchArea : CreateWatchArea(w) \/ DeleteWatchArea(w)
    \/ \E a \in alerts : AckAlert(a)
    \/ CreatePermits
    \/ \E p \in Parcel : DeletePermit(p)

Spec == Init /\ [][Next]_vars

\* Goroutines are scheduled, and every call an execution makes returns, by its
\* answer, its client timeout or its context: one that is not killed takes its next
\* step.  Notifications, users, expiry and crashes are under no obligation.
Fairness == \A r \in Run : WF_vars(Work(r))

FairSpec == Spec /\ Fairness

-----------------------------------------------------------------------------
(* Properties *)

Evaluation == {"request", "background"}

LinksLargest(a, r) ==
    /\ \E d \in dets : d.run = r /\ d.idx = a.det
    /\ \A i \in counted[r] : Feats(r)[i].area <= Feats(r)[a.det].area

LinksNothing(a, r) ==
    /\ a.det = 0 /\ counted[r] = {}
    /\ clean[r] => Len(Feats(r)) = 0

\* An alert is decided and linked by what was stored.  It links a stored detection
\* of its own execution, the largest of those whose insert returned; it links none
\* only if no insert returned, and then the answer had no features or a statement
\* failed (an alert of an execution that lost its job id is such a one).  If its
\* area alerts on some classes only, a stored detection is of such a class, even if
\* the inserts of others failed (topID and ByClass of detectAndPersist, the filter
\* of evaluateWatchArea).
AlertMatchesEvidence ==
    \A a \in alerts :
      LET r == a.run IN
        /\ LinksLargest(a, r) \/ LinksNothing(a, r)
        /\ cfg[r].classes # {} =>
             \E d \in dets : /\ d.run = r
                             /\ Feats(r)[d.idx].cls \in cfg[r].classes
                             /\ Feats(r)[d.idx].area > 0

\* What an evaluation or a manual run owes when each of its statements
\* succeeded, whatever other executions did meanwhile: the job succeeded, every
\* feature is stored, exactly the construction features carry a verdict, and an
\* alert of the right severity is stored exactly when the fraction reaches the
\* threshold and the class filter is met (or its watch area is gone again).
Completed(r) ==
    /\ jobs[r] = "succeeded"
    /\ \A i \in 1..Len(Feats(r)) :
         \E d \in dets : /\ d.run = r /\ d.idx = i
                         /\ (d.permit # "none") <=> Feats(r)[i].cls \in ConstructionClass

ShouldAlert(r) ==
    /\ res[r].frac >= cfg[r].threshold
    /\ \/ cfg[r].classes = {}
       \/ \E i \in 1..Len(Feats(r)) :
             Feats(r)[i].cls \in cfg[r].classes /\ Feats(r)[i].area > 0

CleanRunCompletes ==
    \A r \in Run :
      (res[r] # Null /\ clean[r] /\ outcome[r] \in {"ok", "alerted"}) =>
        /\ Completed(r)
        /\ kind[r] = "manual" => \A a \in alerts : a.run # r
        /\ kind[r] \in Evaluation =>
             IF ShouldAlert(r) /\ watch[area[r]] # Null
             THEN \E a \in alerts :
                    /\ a.run = r /\ a.wa = area[r]
                    /\ a.severity = "critical" <=>
                          res[r].frac >= 2 * cfg[r].threshold
             ELSE \A a \in alerts : a.run # r

\* Subscribers are never told the opposite of what the jobs table says, or both
\* outcomes of one job, even when the update of the row is lost.
BroadcastAgreesWithJob ==
    \A r \in Run :
      /\ "job.succeeded" \in said[r] => jobs[r] # "failed"
      /\ "job.failed" \in said[r] => jobs[r] # "succeeded"
      /\ ~({"job.succeeded", "job.failed"} \subseteq said[r])

\* The jobs table keeps the promise of JobLifecycle whatever fails: a job ends
\* at most once and an ended job is final.
Lifecycle == INSTANCE JobLifecycle WITH Job <- Run
JobsFollowLifecycle == Lifecycle!JobsSpec

\* The verdict of a stored detection changes only while its own execution
\* stamps its job: an execution never rewrites the verdicts of another job
\* (WHERE d.job_id = $1 in the permit update).
VerdictsAreOwn ==
    [][\A d \in dets :
         pc[d.run] # "verdict" =>
           \E e \in dets' : e.run = d.run /\ e.idx = d.idx /\ e.permit = d.permit]_vars

\* The verdicts of one job are those of one moment: some one set of permits accounts
\* for all of them, though permits are uploaded and deleted between the inserts, the
\* end of the job, its stamp and the reader (the single UPDATE of detectAndPersist).
VerdictsOfOneMoment ==
    \A r \in Run : \E held \in SUBSET Parcel :
      \A d \in dets : (d.run = r /\ d.permit # "none") =>
        (d.permit = "permitted" <=> Feats(r)[d.idx].on \cap held # {})

\* Without faults every running job ends: no path of the handlers returns
\* without writing the outcome of the job it inserted.
RunningJobsEnd ==
    \A r \in Run : jobs[r] = "running" ~> jobs[r] \in {"succeeded", "failed"}

\* Every execution ends, by its handler or with its replica, also when its context
\* expires and when a notification never ends.
ExecutionsEnd == \A r \in Run : pc[r] \in Active ~> pc[r] \in {"done", "dead"}

-----------------------------------------------------------------------------
(* What a comment of the code says and its executions contradict *)

\* "stores the polygons as detections ... and updates the job": once
\* detectAndPersist has returned without error its job is no longer running.
PersistedMeansJobUpdated ==
    \A r \in Run : pc[r] = "report" => jobs[r] # "running"
=============================================================================
