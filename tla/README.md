# Verification of Varasi

Varasi watches land with satellite imagery: rasters are registered in a STAC
catalog, pairs of scenes are compared, and an alert is raised when enough of a
watch area has changed. This directory holds TLA+ models of the parts of the
system that keep state or run concurrently, TLC configurations that check them
on small instances, and TLAPS proofs about them.

To run one: `tlc -config DR_faults.cfg MCDetectionRuns.tla`; to check the
proofs of a module: `tlapm DetectionRunsProofs.tla`.

## 1. The system

| Component | State | Operations | Talks to |
|---|---|---|---|
| Detection and alert engine (`detection_handlers.go`, `alert_engine.go`) | rows of `jobs`, `detections`, `alerts`; the local variables of each run | run a detection by hand, evaluate a watch area on request or after an ingest, acknowledge | ai-worker (HTTP, 5 min), STAC search (30 s), PostgreSQL, hub, notifiers |
| Jobs (`job_handlers.go`, `ingest_handlers.go`) | `jobs` | enqueue; proxy an ingest as a job | ingest worker (HTTP, 3 min), PostgreSQL, hub |
| Watch areas, permits (`watch_handlers.go`, `permit_handlers.go`) | `watch_areas`, `permits` | create and delete; upload and delete, compliance | PostgreSQL |
| Broadcast hub (`ws/hub.go`) | rooms of clients, a bounded channel per client, two goroutines per client | broadcast, add, remove, serve | all handlers; browsers over WebSocket |
| Migrator and start (`db.go`, `main.go`) | the schema, `schema_migrations` | look up, run and record each SQL file; serve | PostgreSQL, shared by all replicas |
| Model router (`ai-worker/.../models`) | none but what is installed on the host | resolve a backend per tag, run, fall back, stamp | image algorithms |
| Ingest pipeline (`ingest-worker`) | items and collections of the catalog | upsert a collection, profile and upsert each raster, notify | STAC API, control plane (`/internal/events/item-ingested`) |
| Notifiers (`notifiers.go`) | none | one attempt per channel | outside services |
| Access (`auth`, `middleware.go`, `auth_handlers.go`, `admin_handlers.go`) | users, memberships, `api_keys`, signed tokens | register, log in, issue and revoke keys, check a role | PostgreSQL |
| Organisations, analytics, metrics, OpenAPI, catalog proxy | rows others write | reads and single inserts | PostgreSQL, eoAPI |
| Web session (`lib/auth.tsx`, `lib/api.ts`) | the token in local storage, shared by the tabs; the session in the memory of each | restore, sign in, sign out, lose the token to an answer 401 | control plane |
| Web pages (`web/src/app`) | a cache of answers per tab (react-query) | observe, poll, write, invalidate | control plane, catalog |
| Detection page and its maps (`detection/page.tsx`, `SwipeMap.tsx`, `MapView.tsx`, `ClassStyleControl.tsx`) | the controls, the result, the style of the classes (local storage), what the maps draw | choose, run, show, export | control plane, maplibre |
| Forms (`library`, `projects`, `settings`, `permits`, `watch-areas`; `Modal.tsx`, `DrawMap.tsx`) | fields in the page, a shape in the page and its picture in the map | open, type, draw, send, cancel | control plane, maplibre |

One scene from end to end: the ingest worker stores an item and posts its
footprint; `onItemIngested` starts one goroutine per watch area under it; each
searches the catalog, chooses two scenes, inserts a job, asks the ai-worker,
inserts the detections one by one, updates the job, stamps the permits, and may
insert an alert, notify and broadcast. None of it is in one transaction, no
handler checks the error of most of its statements, and requests to the workers
do not carry the context whose expiry makes the later statements fail. This is
where the behaviour is hard:

- **concurrency**: several executions on one watch area, an area or a permit
  deleted meanwhile, concurrent ingests of one item, concurrent broadcasts,
  replicas that start together;
- **failure**: a statement fails, or is committed and its reply lost; the 60 s
  of a request expire during an inference of minutes; a replica dies; a backend
  raises; a notification is lost; a client stops reading;
- **in the browser**: an answer arrives after the token, the page, the selection
  or the form it belongs to has changed; tabs share a store and nothing else;
  a map draws after what it was mounted with has changed;
- **order**: items land out of the order of their dates, events and rows of a
  job are written apart, a model becomes available between two resolutions.

`PROJECT.json` lists the hazards that matter most, each at its line with the
properties that cover it; the disagreements of section 3 name some more.

## 2. The modules

| Module | Models | Proofs |
|---|---|---|
| `JobLifecycle` | abstract: what the `jobs` table promises | |
| `DetectionRuns` | the engine, jobs, watch areas, permits, notifiers | `DetectionRunsProofs` |
| `WsHub` | the hub | `WsHubProofs` |
| `ModelRouter` | one detection request in the ai-worker | `ModelRouterProofs` |
| `Migrator` | start of replicas | `MigratorProofs` |
| `DetectOnIngest` | ingests, the catalog, the choice of a pair | `DetectOnIngestProofs` |
| `WebSession` | who is signed in, in the tabs of one browser | `SessionFormsProofs` |
| `WebQueries` | the pages over the cache of answers | `WebQueriesProofs` |
| `ClassStyle` | the classes a user ticks and colours (operators) | |
| `DetectionPage` | the controls, runs and reports of the detection page | `DetectionPageProofs` |
| `DetectionMap` | `DetectionPage` composed with its maps | `DetectionPageProofs` |
| `WebForms` | the forms and the map to draw on | `SessionFormsProofs` |

The `MC*` modules give the constants their values. Definitions named `X_Y`
under the comment "Faulty variant" are mutations of `X`, kept to show that the
properties notice them; no specification uses them. The specification of
`WebForms` is `FormsSpec`, and that of `DetectionMap` is `MapSpec`, so that a
module of proofs can extend two of these modules at once.

**DetectionRuns.** A member of `Run` is one execution: a request, a background
evaluation, an ingest proxied, or `createJob`. `pc[r]` is its next statement,
and each statement (each query, each call of another service) is an action, so
everything interleaves. `kind`, `area`, `cfg`, `res`, `next`, `counted`, `top`
are the Go locals (`waID`, the scanned configuration, the response, the index
of the loop, what `byClass` was fed with, `topID`); `hasJob` is
`jobID # uuid.Nil`; `live` is the context. `watch`, `permits`, `jobs`, `dets`,
`alerts` are the tables; their foreign keys are guards of the inserts
(`DetectionKeysHold`, `keys` in `RaiseAlert`) and their ON DELETE clauses are
in `DeleteWatchArea`. `said` and `notice` are what left the process. `clean`
is a history variable: did each statement of the execution succeed? The failure
of a statement is chosen by `Replies`: done, failed, or committed with the
reply lost. One thing that follows the code closely is what it does *not* do:
`InsertJob`, `FinishJob`, `StampPermits` and `RaiseAlert` go on whatever the
reply was. A feature is [cls, area, on]: its class, its area and the parcels it
intersects; confidence, geometry and score are left out. `Answers` restricts
the features to the classes of an area that has some, because they are sent as
the tags of the request; `OnlyRequestedTags` of `ModelRouter` is the property
of the ai-worker this rests on.

**WsHub.** `rooms` is the map, `send` the channels, `reader` and `writer` the
two goroutines of `Serve`. `Broadcast` takes the read lock, `Offer` is one turn
of the loop, `Release` gives the lock back; `Add` and `Remove` need the write
lock (`busy = {}`), and a waiting writer keeps new readers out (`Waiting`), as
`sync.RWMutex` does. `Drain` may fail once the peer has gone. `got` and `lossy`
are histories.

**ModelRouter.** `Resolve` is one turn of the first loop of `route_and_run`,
`RunBackend`, `FallBack`, `FallBackRaises` are one turn of the second (its
order, that of a dictionary, is any). `groups` is `backend_tags`; `served`,
`called`, `raised` are histories, and `by` in a feature tells who found it
beside the stamp the code gives it. `HostChanges` may happen between any two
steps because `available()` looks at the file system each time.

**Migrator.** `at[p]` is the file replica p is at, `schema` the files that have
had their effect, `recorded` the rows of `schema_migrations`. A file is one
action because a simple query of several statements is one transaction.

**DetectOnIngest.** `pc[c]` is where a call of `ingest_source` is, `catalog`
the date of each stored item, `events` the background evaluations that have yet
to search. `Pages` are the answers a search may give (newest first, ties in any
order), `PairsOf` what the loop over `scenes` may choose. `Evaluate` is an
evaluation that gets its page, `SearchFails` one whose search fails. `missed`
is a history variable: was an item stored and not notified of, or a search
lost? The notification is documented as best-effort, so what the engine owes is
stated for the behaviours in which nothing was missed. The module meets
`DetectionRuns` at `SearchScenes`, where that module only chooses between a
pair, none and an error.

**WebSession.** `token` is the one entry of local storage; `session[t]` and
`loading[t]` are the state of `AuthProvider` in tab t. `me`, `login` and `call`
are its requests; each keeps the token it was sent with, because `request` reads
it then and, on 401, removes whatever is stored *now*. `Load` is a load or
reload and begins the effect of the provider; `Redirect` are the two effects of
the layout and the sign-in page. `writer` and `late` are histories.

**WebQueries.** A page is a record of the queries it observes, those it polls
and the writes it offers; the records are read off the hooks of each page.
`Reads` and `Changes` relate queries and writes through the tables of the control
plane, whose states are version numbers. `fetch[k]` is the request of a query
(`Serve` is the moment the control plane reads, `Receive` the arrival), and
`WriteSucceeds` is the handler `onSuccess`: it marks what the invalidated
prefixes match as stale and asks again for what the open page observes. The
rules of the cache are those of react-query with the options of `providers.tsx`:
a query that has data is cancelled and asked again, a first request is joined.
`own` is a history: the writes of this tab that a query has to show.

**DetectionPage, ClassStyle, DetectionMap.** `pick` are the controls that choose
the scenes, `Before` and `After` what the memo of the page makes of them. A run
takes `Request` with it; `Shown` and `Report` are computed from what is chosen
*now*, as the page does. `stored` is the style in local storage, which another
tab may write (`OtherTabEdits`). `DetectionMap` follows each step of the page
with what its maps do: a change of `Kind` mounts another map (`Remount`), any
other change runs the effects (`Redraw`), a map loads in its own time with what
it was mounted with (`MapLoads`), and the page may be rendered again for reasons
of its own (`Rerender`). A scene or a class is a name; tiles, geometry and
colours on the map are left out.

**WebForms.** `Forms` lists what each form requires, what it empties when it has
succeeded and whether it is a modal; `fields` live in the page, `points` and
`picture` in the map of the modal. `Draw` is `redraw` and `emit` together, the
first of which does nothing while the map is loading. `pending` is the request the
page follows and `older` counts the earlier ones still under way, whose handlers
run all the same: the button of a form is disabled while one is under way, but
the form of an area is sent by its style control too (`SubmitByStyle`).

The last four modules meet the rest of the system at their requests:
`RunAnswers` may give what `ModelRouter` lets the detector give, `CommitWrite`
is one of the handlers of the control plane.

## 3. What is checked

| Run | Instance | Shows |
|---|---|---|
| `DR_faults` | 2 executions, 1 area, 2 configurations, 2 answers; any statement may fail or lose its reply | `TypeOK`; `AlertMatchesEvidence` (an alert links the largest detection that could be stored; one that links none is of an answer without features or of an execution a statement of which failed; one for some classes has a stored detection of them); `CleanRunCompletes` (what an execution none of whose statements failed owes); `BroadcastAgreesWithJob`; `JobsFollowLifecycle`, the refinement of `JobLifecycle` |
| `DR_permits` | 2 executions, 1 area, 1 parcel uploaded and deleted, no faults, fairness | `VerdictsOfOneMoment`: one set of permits accounts for all the verdicts of a job; `VerdictsAreOwn`: no execution rewrites the verdicts of another; `RunningJobsEnd` |
| `DR_crash` | 2 executions, contexts expire, replicas die, fairness | `ExecutionsEnd`: every execution ends, also when its notification never does |
| `WS_hub` | 2 clients and a sender of one room, a sender of another, channels of 2, 3 messages, fairness of the hub only | `StreamsInOrder`, `LosesOnlyWhenFull`, `MembersAreConnected`; `HubNeverBlocks` though no client need read |
| `R_route` | 6 backends of every kind, lists of tags, preferences, consent or not, a host that changes | `OnlyRequestedTags`, `ProvenanceIsTrue`, `CloudNeedsConsent`, `FailuresAreContained` |
| `M_upgrade` | a replica with 2 files, two with 3, 2 faults, fairness | `RecordedMeansApplied`, `AppliedInOrder`, `ServingMeansMigrated`, `EveryReplicaServes` |
| `I_ingest` | 2 calls that meet on 1 of 4 scenes, one of them cloudy, pages of 2, every fault, fairness | `CountsAreTrue`, `PairsAreNewest`, `NewestPairIsCompared` |
| `W_session` | 2 tabs, 2 users, 2 tokens; expiry, refusals, failures, wrong passwords and reloads; strong fairness of restoring and redirecting | `TokenMatchesSession`: who a tab shows is who its requests are made as; `TabsSettle`: no tab stays on the spinner or the wrong page |
| `W_queries` | 14 tours of 1 or 2 queries and 2 or 3 pages, 1 or 2 changes per table; failures, other users, polling, ageing, forgetting; fairness of requests and intervals | `FreshShowsOwnWrites`: data that is fresh holds the writes made from its pages; `OwnWritesArrive`; `PolledPagesCatchUp` |
| `W_detection` | 6 tours of the controls, 4 scenes (one without date, one cloudy, two equally far from a date between them), 3 classes in 2 categories, 2 tours with the maps | `DatesKeepOrder`, `ReportAddsUp`, `ReopenedAsLeft`, `MapFollowsPage` |
| `W_forms` | 5 forms, 2 texts, 3 points, 4 points drawn and 3 requests under way at most | `ShapeIsSeen`: once the map has drawn since it was loaded, the shape to be saved is the one on it; `NothingSentTwice`: a form does not send again what it has sent and what has not failed, except the form of an area |

One run, `DR_unrecorded`, ends with a counterexample against a text of the
repository (quoted in `PROJECT.json`, `findings`): a job whose update failed, for
one because the 60 s of the request expired during the inference, stays
`running` though its success was broadcast.

### Other disagreements seen while modelling

They are visible in the code and in the actions that model it; no run is spent
on them.

- `StampPermits`: a verdict is given once; uploading or deleting a permit does
  not revise it (`permit_handlers.go:116`), and the compliance counts go on
  using it, while `0005_permits.sql:3-4` defines the verdicts by the permits
  there are.
- `Drain`: nobody closes the channel of a removed client, so after its
  connection has closed the writer may wait on it for ever and `Serve` not
  return (`hub.go:86`); `hub.go:67` says it pumps "until close".
- `FallBack`: polygons found by the fallback carry the name of the backend that
  failed (`router.py:69`); `0006_detection_model.sql:1` calls it the backend that
  "produced each detection".
- `Evaluate`: when the 12 scenes of a page share one date the evaluation answers
  "no earlier scene" (`alert_engine.go:148`) whatever else is in the catalog.
- `AreaForm`: with no class ticked the form sends an empty list
  (`watch-areas/page.tsx:50`), which means any class; the comment above it says
  that a subset alerts "only on those". `RunAnswers` has the same case.
- `SubmitByStyle`: the buttons of the style control (`ClassStyleControl.tsx:101`,
  `:122`) have no type, so within the form of an area (`watch-areas/page.tsx:180`)
  resetting the classes or expanding a category sends it, as soon as it has a name
  and a shape; `onSubmit` (lines 182-185) does not ask whether a request is under
  way, so a second press stores a second area. This is why `NothingSentTwice`
  leaves that form out.
- `SetDrawMode`: the buttons of the map have no type either. Enter in the field of
  the name presses the first of them, which clears the shape.
- `Notify`: the other channels have a client with a timeout; `email`
  (`notifiers.go:123`) calls `smtp.SendMail`, which has none.
- `RaiseAlert`: an evaluation whose job could not be inserted stores none of its
  detections and may raise an alert all the same, which links none.
- `Redraw`: `SwipeMap.tsx:153` says "Update rasters when scenes change"; the
  effect does nothing while the style or a tile is loading, and is not repeated.
- `NeedsUrban`: `changeClasses.ts:34-35` says that selecting any construction
  class switches to urban mode; `urban_growth` is left out (line 38).
- `Request`: `changeClasses.ts:22` says that a run classifies everything and the
  user picks what to show; the request names the classes ticked
  (`detection/page.tsx:104`), so a class ticked later has nothing to show.
- `Report`: the scenes and settings named by an exported report are those chosen
  when it is exported, the figures those of the run (`detection/page.tsx:138`).
- `RaiseAlert`: the insert of an alert ignores its error
  (`alert_engine.go:219`), so an alert may be notified and broadcast, with the
  nil id, that is not stored.
- `Migrate`: `db.go:33` says files are applied once; the look-up (`db.go:57`)
  and the record (`db.go:72`) are separate from the file itself and no lock is
  taken, so two replicas, or one that restarts, may run a file twice. The files
  of the repository are written to stand that.
- `Best`: `models/base.py:19` says a fallback walks the runtime tiers downward;
  `registry.py:52` orders candidates by `rank` alone, and a backend that raises
  falls to the heuristic at once (`FallBack`).
- `Resolve`: a request may name a tag twice (`schemas.py` does not forbid it);
  when the host changes between the two, the tag is given to two backends, both
  run, and the provenance, which `schemas.py` calls "which model actually
  produced each tag", names the last. `ProvenanceIsTrue` therefore speaks of
  requests without repetition (`Unrepeated`).
- `RunBackend`: a request for `urban_growth` runs the heuristic in urban mode
  (`router.py:53-55`), whose classifier has no such class, so the tag is
  accepted and nothing is ever returned for it.
- `DetectAnswers`: `schemas.py:20-21` calls the area of interest optional; `detect.py`
  raises without one. The control plane always sends it.
- `CreateJob`: nothing runs the jobs `createJob` leaves `queued`; `JobLifecycle`
  has no step out of that status.
- The hub belongs to one process, and the chart deploys two replicas
  (`values.yaml:23`): a client is not reached by what the other one broadcasts.

### Bounds

- `Run` has two members where executions interfere. Interference is through one
  row at a time (an area, the permits of a detection), by one other execution or
  by the actions of users, which are not bounded in number; three executions
  add only ways to do the same. `WatchArea` has one member: executions of
  different areas share no row. Its id is used once (`minted`), as a uuid is.
- Answers: `TwoResults` has a fraction at the threshold and one at twice the
  threshold, with a class outside and inside `alert_classes`, and two features of
  different areas, so that the choice of `topID` and the failure of one of two
  inserts happen. A fraction below the threshold takes the same path as a class
  filter that is not met; thresholds are integers, so all comparisons are exact.
  The larger feature comes first, so that the last one stored is not the one an
  alert links.
- Requests of `R_route` have up to three tags; one names the same tag twice.
- `Cap` (32 in the code) is 2, and `MaxSent`, the messages of each sender, is 3:
  a channel fills, loses a message, and drains.
- `Limit` (12 in the code) is 2 for 3 clear scenes and a cloudy one: pages are full,
  or not, and the newest scene may be one the search leaves out.
- `MaxFaults` is 2: a replica can lose the race for a row and die as well.
- Web: queries share nothing but the writes that reach them, so a behaviour of
  `WebQueries` follows one or two of them through the pages that observe or write
  them; each page and each query is in a tour. In `DetectionPage` the controls of
  a tour are touched together because they share state (scenes with dates and
  clouds; classes with runs; classes with colours and visits). `max` (1 or 2
  changes per table), `Date` (5) and `MaxPoints` (4: a polygon, and a third
  corner of a rectangle) and `MaxOlder` (2: three requests of one form at once) are the
  only bounds on counters. A token is issued once, so with two the second sign-in is
  the last; a tab is reloaded without limit.
- `Null` and `Star` stand for nil and the key `"*"` of the provenance.

Symmetry of executions is used in `DR_faults` only, whose properties are
invariants and a safety refinement. Deadlock is not checked: executions,
connections and ingests come to an end, and in each module the system may
really stop.

### Fairness

- `DetectionRuns`: weak fairness of `Work(r)`. Goroutines are scheduled, and every
  call an execution makes has a client timeout (5 min, 3 min, 30 s) or a context, so
  it returns. Nothing is assumed of users, expiry and crashes, nor of notifications,
  which run apart from the execution: `smtp.SendMail` has no timeout and may not
  return.
- `WsHub`: weak fairness of the steps inside the hub. None of `Drain`: a write
  to a peer that does not read may block, and `HubNeverBlocks` must hold even
  so.
- `Migrator`: weak fairness of each replica: one that has stopped is started again, by
  `restart: unless-stopped` in `deploy/demo/docker-compose.yml` and by default under
  the Helm chart. The compose file at the root of the repository has no such line;
  there `EveryReplicaServes` takes somebody who starts the replica again.
- `DetectOnIngest`: weak fairness of each call (every request of the worker has
  a timeout) and of the pending evaluations.

- `WebSession`: strong fairness of `Restores` and `Redirect` per tab: a request
  ends (the browser gives up otherwise) and an effect runs; strong, because a
  user may reload again and again. Nothing is assumed of users, tokens or other
  requests.
- `WebQueries`: strong fairness of serving and receiving per query, since a page
  that is left and reopened may ask again before an answer has come, and weak
  fairness of the interval of a page that polls. Failures remain possible:
  `OwnWritesArrive` excuses a query whose last request failed.

## 4. What is proved

Every safety property the passing runs check is also a theorem, for all values
of the constants that satisfy the `ASSUME` of the module. The assumptions
(`ConstantsAssumption`, `HubAssumption`, `RouterAssumption`, `MigratorAssumption`,
`IngestAssumption`, `SessionAssumption`, `TourAssumption`, `ClassAssumption`,
`PageAssumption`, `FormAssumption`) give the types of the constants and say that
nil values differ from the rest. Three say more, each a fact of the code: a
channel holds at least one message (`Cap`), the heuristic is not a cloud backend
and is always active and no two backends have the same rank, and a scene in the
catalog has a date.

In each proof the invariant was first checked by TLC on the instance of the run.

`DetectionRunsProofs`

| Theorem | Statement | Argument |
|---|---|---|
| `TypeCorrect` | `Spec => []TypeOK` | one lemma per action |
| `JobsRefinement` | `Spec => JobsFollowLifecycle` | a job that is `running` belongs to an execution that has yet to end (`JobPhase` ties each `jobs[r]` to the phases of `pc[r]` it is possible in), so no statement can write a job that has ended |
| `BroadcastsAgree` | `Spec => []BroadcastAgreesWithJob` | `SaidPhase`: which messages can have been sent in which phase; with `JobPhase`, the success is announced only on paths that can no longer write `failed`, and conversely |
| `AlertsMatchEvidence` | `Spec => []AlertMatchesEvidence` | `CountedAreStored`: a feature that was counted has a row and `top` is the largest counted; detections are never removed, so what justified the alert (`AlertsJustified`) stays; that nothing was counted although no statement failed is excluded by `NothingMissing`, below |
| `CleanRunsComplete` | `Spec => []CleanRunCompletes` | `NothingMissing`, below |
| `VerdictsKept` | `Spec => VerdictsAreOwn` | `RowsStay`: a step that is not the stamp of its own execution leaves of each row one with the same verdict |
| `VerdictsShareAMoment` | `Spec => []VerdictsOfOneMoment` | `UnjudgedEarly`: before its execution has stamped a row has no verdict, so the stamp finds none and judges all by the permits of its moment; afterwards no row comes and no verdict changes (`EarlyIsLeft`, `RowsCome`) |

`AlertMatchesEvidence` is not inductive: it speaks of alerts only, and the step that
inserts one needs to know what `counted` and `top` mean. `CountedAreStored` is
that knowledge, and it needs in turn that an execution past `persist` has an
answer (`Typed`/`Roles`: which locals are set in which phase). It and
`CleanRunCompletes` follow from one invariant (`InvariantHolds`).

`CleanRunCompletes` speaks of executions that have returned; its invariant says
how far one must be in each phase. `StepsTaken`: while every statement succeeded,
the features counted are exactly those before `next` and have rows without
verdict, from `verdict` on the job has succeeded, from `report` on the rows have
their verdicts. `AlertsAccounted`: the alerts of an execution are of its area and
severity, it returned "alerted" only when one was due, and then the alert is
there unless its area is gone, which needs that ids are not given out twice
(`AreasAreMinted`). Each action is either a step of the execution itself or one
that leaves its locals alone (`Elsewhere`), so interference is confined to
`RowsStay` and `AlertsStay`.

`MigratorProofs` has `RecordsAreTrue`, `FilesInOrder` and `ServingIsSafe` from
one invariant whose core is `Behind`: the files before the one a replica is at
have had their effect, and a replica about to record a file has run it. It is
preserved because `schema` only grows. It holds for any number of replicas and
releases and any number of faults.

Its `StateTyped` says that no replica looks for a file its binary lacks.

`WsHubProofs` has `StateTyped`, `RoomsFollowReaders`, `OrderKept` and
`NoSilentLoss`. The invariant adds to the properties what goroutines hold
(`Goroutines`: a client that has not joined has been sent nothing), that rooms
hold clients of their own only (`OwnRooms`), which clients a broadcast has yet to
reach (`Offers`: only members, because `Remove` needs the write lock, and none
once the read lock is given back), and that all a client has of a sender was sent
before what is being offered (`Earlier`). Order needs `Earlier`; that nothing is
lost silently needs `Offers`, for a client that is offered the newest message has
it coming, and one that is not has it or never was a member when it was sent.

`ModelRouterProofs` has `StateTyped`, `NothingUnrequested`, `ProvenanceTrue`,
`CloudOnlyWithConsent` and `FailuresContained`. `Resolving` says which tags have
a group half-way through the first loop, `Partition` that groups are disjoint (of
requests that name no tag twice), `Outcomes` that nothing has been found yet for
the tags of a backend that is still to run, and that provenance names whose
output was taken for those of one that has. That a backend's own output is all
there is for its tags rests on the groups being disjoint. `Consent` holds because
both the preference and the choice of the best ask for consent, and the
replacement of a failed backend is the heuristic.

`DetectOnIngestProofs` has `StateTyped`, `CountsTrue` and `NewestHandedOver`. The
counts are an invariant of where a call is (`CountsGo`: what has been counted in
each phase), and an item once stored is never gone (`LandedAreStored`). The pair
needs no history: a page holds nothing older than what it leaves out
(`PageIsNewest`), so its newest scene, and its newest of another date, are those
of the whole catalog (`PairIsNewest`), whatever the limit and the ties.

`WebQueriesProofs` has `CacheTyped` and `FreshShowsWrites`
(`Spec => []FreshShowsOwnWrites`). `AnswersShowOwn` orders what a query has to
show, what the control plane has read for it and what its request was sent after;
`OwnIsPast` and `CommitsAreReal` say that what is owed has happened. The step that
matters is the success of a write. `OwedAreNamed` shows, over the table of pages,
that the handler of each write names a prefix of every query of its page that the
write changes: this is where a forgotten invalidation would fail. As this table is
part of the module and not a constant, the theorem is about the pages of this
application; tours, numbers of changes and the changes of others are arbitrary.

`SessionFormsProofs` has, of `WebSession`, `SessionTyped` and `SessionsAgree`
(`Spec => []TokenMatchesSession`). The property is not inductive, as it says
nothing of a tab that is loading; `RestoringIsOld` adds that such a tab has a
request under way with a token that was issued, and that the token is no longer
the one stored once the tab has signed in meanwhile, because no token is issued
twice.

`DetectionPageProofs` has `PageTyped`, `ScenesInOrder`, `ReportsAddUp` and
`StyleSurvives`. The first two need no history: that two scenes closest to two
targets are in the order of the targets is a fact about distances and the order
of ties (`NearestKeepsOrder`). For the report the invariant
`FindsWhatWasTicked` ties a result to the classes ticked for its run, while it is
under way and after; for the style, `StyleIsStored` ties what the page holds, or
was left with, to what is stored, as long as no other tab has written.

It also has, of `DetectionMap`, `MapsFollow` (`MapSpec => []MapFollowsPage`), from the
invariant that a map rendered since it loaded is the one the page asks for, and
`MapsLeaveThePage` (`MapSpec => Spec`): what is proved of the page alone holds of
the page with its maps, which is what the run checks.

Of `WebForms`, `SessionFormsProofs` has `ShapesAreSeen` and `SentOnce`.
`SeenIsDrawn` says that a map that has drawn shows the points whose shape the
page holds; `SentIsGone` that what was sent and has not failed is under way or
emptied, which rests on each form requiring a field it empties
(`RequiredAreEmptied`). Both hold of the form of an area as well, with any number of
requests under way; `SentOnce` speaks of the other four, whose only way to send is
the button that is disabled meanwhile.

Only model-checked: liveness (`RunningJobsEnd`, `ExecutionsEnd`,
`HubNeverBlocks`, `EveryReplicaServes`, `NewestPairIsCompared`, `TabsSettle`,
`OwnWritesArrive`, `PolledPagesCatchUp`), which is beyond the prover: it speaks
of fairness and so of ENABLED. The counterexample of `DR_unrecorded` is TLC's.

## 5. What is not modelled

Access control (planned); read-only handlers, the catalog proxy, metrics and
documents (no state); pixel computations and classifiers (floating point; their
possible labels are constants); providers and thumbnails (input and output,
only their failure matters); of the web application, layout, wording, charts,
the theme and the language, the list of commands, the page of examples, and of
the maps the footprints, the basemap, the camera, pop-ups, colours and the
divider; several replicas of the hub
(the hub lives in one process, so clients of another replica are not reached);
wording and format of messages. The tenant: every statement is restricted to
one organisation, and one is modelled.

## 6. Plan

Done, in this order: the jobs and the engine, their life cycle and their proofs;
the hub; the router; the migrator and its proofs; the ingest side; the web
application (session, pages over their cache, detection page with its maps,
forms) and its proofs; the proofs of the remaining safety properties.

Next:

1. an abstract specification of detection on ingest (a scene that lands is
   compared) implemented by `DetectOnIngest`, with the refinement proved for its
   safety part;
2. an abstract hub (each client gets a subsequence of each sender's messages)
   implemented by `WsHub`, and a composition of hubs, one per replica, with the
   engine's broadcasts;
3. module `Access`: registration in one transaction, tokens that outlive roles,
   keys issued and revoked while requests are under way;
4. `WebSession` composed with `WebQueries`: whose answers the cache holds after
   another user has signed in.
