----------------------------- MODULE WebQueries -----------------------------
(***************************************************************************)
(* The pages of the web application over their cache of answers, in one    *)
(* browser tab.  A page observes some queries, polls some of them and      *)
(* offers some writes; a write that has succeeded invalidates or refetches *)
(* the queries its handler names.  A query is known by its key, a sequence *)
(* of strings, and an invalidation names a prefix.  The cache itself is    *)
(* @tanstack/react-query (external), modelled by what the pages use of it. *)
(*                                                                         *)
(* What the control plane stores is abstracted to one version per table;   *)
(* an answer is the versions of the tables the request reads.  Queries do  *)
(* not share anything but the writes, so a behaviour follows the few keys  *)
(* and the pages of one tour.                                              *)
(***************************************************************************)
EXTENDS Naturals, FiniteSets, SequencesExt

CONSTANTS
    Tour,    \* the choices of pages to visit, of keys to follow and of max,
             \* the bound on the changes of a table
    NoData   \* no answer is there yet

VARIABLES
    tour,     \* the tour of this behaviour
    page,     \* the page that is open
    version,  \* version[t]: the state of table t
    data,     \* data[k]: the answer the cache holds
    stale,    \* keys invalidated, or answered more than staleTime ago
    fetch,    \* fetch[k]: the request under way, and what it has read
    write,    \* write[w]: the mutation under way
    own,      \* history: own[k], the own writes that key k has to show
    excused   \* history: keys whose last request began too early, or failed

vars == <<tour, page, version, data, stale, fetch, write, own, excused>>

------------------------------------------------------------------------------
(* The pages: what each observes, polls and lets the user do *)

\* The two views of the alerts page are keys of their own.
AlertsPage(view) ==
    [observes |-> {<<"alerts", view>>}, polls |-> {<<"alerts", view>>},
     offers |-> {"ack"}]

AlertDetailPage ==
    [observes |-> {<<"alert", "id">>}, polls |-> {}, offers |-> {"ackHere"}]

DashboardPage ==
    [observes |-> {<<"collections">>, <<"scenes-all">>, <<"watch-areas">>,
                   <<"alerts">>, <<"analytics">>, <<"models">>,
                   <<"compliance">>, <<"detections">>},
     polls |-> {<<"alerts">>}, offers |-> {}]

JobsPage ==
    [observes |-> {<<"jobs">>}, polls |-> {<<"jobs">>}, offers |-> {}]

AnalyticsPage ==
    [observes |-> {<<"analytics">>}, polls |-> {}, offers |-> {}]

PermitsPage ==
    [observes |-> {<<"permits">>, <<"detections">>, <<"compliance">>},
     polls |-> {}, offers |-> {"uploadPermits", "removePermit"}]

\* The list of one collection is a key of its own.
LibraryPage(collection) ==
    [observes |-> {<<"collections">>, <<"scenes", collection>>},
     polls |-> {}, offers |-> {"ingest"}]

ProjectsPage ==
    [observes |-> {<<"projects">>, <<"collections">>}, polls |-> {},
     offers |-> {"createProject"}]

ApiKeysTab ==
    [observes |-> {<<"api-keys">>}, polls |-> {},
     offers |-> {"createKey", "revokeKey"}]

MembersTab == [observes |-> {<<"members">>}, polls |-> {}, offers |-> {}]

AuditTab == [observes |-> {<<"audit">>}, polls |-> {}, offers |-> {}]

WatchAreasPage ==
    [observes |-> {<<"watch-areas">>}, polls |-> {},
     offers |-> {"createArea", "removeArea", "evaluate"}]

WatchAreaDetailPage ==
    [observes |-> {<<"watch-areas">>, <<"detections", "id">>, <<"alerts">>},
     polls |-> {}, offers |-> {}]

DetectionPage ==
    [observes |-> {<<"models">>, <<"compliance">>, <<"scenes-all-det">>},
     polls |-> {}, offers |-> {"run"}]

Pages ==
    [alerts |-> AlertsPage("all"), openAlerts |-> AlertsPage("open"),
     alert |-> AlertDetailPage, dashboard |-> DashboardPage,
     jobs |-> JobsPage, analytics |-> AnalyticsPage,
     permits |-> PermitsPage, library |-> LibraryPage("any"),
     collection |-> LibraryPage("one"), projects |-> ProjectsPage,
     apiKeys |-> ApiKeysTab, members |-> MembersTab, audit |-> AuditTab,
     watchAreas |-> WatchAreasPage, watchArea |-> WatchAreaDetailPage,
     detection |-> DetectionPage]

Page == DOMAIN Pages
Key == UNION {Pages[p].observes : p \in Page}
Write == UNION {Pages[p].offers : p \in Page}

\* A tour follows keys that pages observe.
ASSUME TourAssumption ==
    \A t \in Tour : t.keys \in Seq(Key) /\ t.pages \subseteq Page /\ t.max \in Nat

------------------------------------------------------------------------------
(* What a request reads and a write changes *)

\* The tables behind the answer to each request.
Reads(k) ==
    CASE Head(k) \in {"alerts", "alert"} -> {"alerts"}
      [] Head(k) \in {"collections", "scenes", "scenes-all", "scenes-all-det"}
            -> {"items"}
      [] Head(k) = "analytics" -> 
                {"detections", "watch-areas", "alerts", "items"}
      [] Head(k) = "compliance" -> {"permits", "detections"}
      [] OTHER -> {Head(k)}

Table == UNION {Reads(k) : k \in Key}

\* The tables a write changes.
Changes(w) ==
    CASE w \in {"ack", "ackHere"} -> {"alerts"}
      [] w = "uploadPermits" -> {"permits", "audit"}
      [] w = "removePermit" -> {"permits"}
      [] w = "ingest" -> {"items", "jobs", "audit"}
      [] w = "createProject" -> {"projects", "audit"}
      [] w \in {"createKey", "revokeKey"} -> {"api-keys", "audit"}
      [] w = "createArea" -> {"watch-areas", "audit"}
      [] w = "removeArea" -> {"watch-areas", "alerts", "detections", "audit"}
      [] w = "evaluate" -> {"jobs", "detections", "alerts", "audit"}
      [] w = "run" -> {"jobs", "detections", "audit"}

\* Faulty variant: acknowledging an alert on its page forgets the lists.
Invalidates_OwnPageOnly(w) ==
    CASE w \in {"ack", "evaluate"} -> {<<"alerts">>}
      [] w = "ackHere" -> {<<"alert", "id">>}
      [] w \in {"uploadPermits", "removePermit"}
            -> {<<"permits">>, <<"compliance">>}
      [] w = "ingest" -> {<<"collections">>, <<"scenes">>}
      [] w = "createProject" -> {<<"projects">>}
      [] w \in {"createKey", "revokeKey"} -> {<<"api-keys">>}
      [] w \in {"createArea", "removeArea"} -> {<<"watch-areas">>}
      [] w = "run" -> {}

\* The prefixes the handler of each write invalidates when it has succeeded.
Invalidates(w) ==
    CASE w \in {"ack", "evaluate"} -> {<<"alerts">>}
      [] w = "ackHere" -> {<<"alert", "id">>, <<"alerts">>}
      [] w \in {"uploadPermits", "removePermit"}
            -> {<<"permits">>, <<"compliance">>}
      [] w = "ingest" -> {<<"collections">>, <<"scenes">>}
      [] w = "createProject" -> {<<"projects">>}
      [] w \in {"createKey", "revokeKey"} -> {<<"api-keys">>}
      [] w \in {"createArea", "removeArea"} -> {<<"watch-areas">>}
      [] w = "run" -> {}

\* The queries it fetches again without invalidating them.
Refetches(w) == IF w = "run" THEN {<<"compliance">>} ELSE {}

------------------------------------------------------------------------------
(* The tour: the pages and keys that a behaviour follows *)

Keys == Range(tour.keys)
Tables == UNION {Reads(k) : k \in Keys}
Writes == {w \in UNION {Pages[p].offers : p \in tour.pages} :
               Changes(w) \cap Tables # {}}
Observed(p) == Pages[p].observes \cap Keys
Polled(p) == Pages[p].polls \cap Keys

Snapshot(k) == [Reads(k) -> 0 .. tour.max]
Now(k) == [t \in Reads(k) |-> version[t]]

Idle == [at |-> "idle", saw |-> NoData]
Asked == [at |-> "asked", saw |-> NoData]
Answered(s) == [at |-> "answered", saw |-> s]

\* The keys some page that offers write w observes and w affects: what the
\* user expects to see changed; both views of the alerts for both ways to
\* acknowledge one.
Owed(w) ==
    {k \in Keys : /\ Reads(k) \cap Changes(w) # {}
                  /\ \/ \E p \in Page : w \in Pages[p].offers
                                          /\ k \in Pages[p].observes
                     \/ w = "ackHere" /\ Head(k) = "alerts"}

TypeOK ==
    /\ page \in tour.pages
    /\ version \in [Tables -> 0 .. tour.max]
    /\ DOMAIN data = Keys /\ DOMAIN fetch = Keys /\ DOMAIN own = Keys
    /\ \A k \in Keys :
          /\ data[k] \in Snapshot(k) \cup {NoData}
          /\ fetch[k] \in {Idle, Asked} \cup {Answered(s) : s \in Snapshot(k)}
          /\ own[k] \in Snapshot(k)
    /\ stale \subseteq {k \in Keys : data[k] # NoData}
    /\ excused \subseteq Keys
    /\ DOMAIN write = Writes
    /\ \A w \in Writes : write[w].at \in {"idle", "asked", "answered"}

------------------------------------------------------------------------------
(* Fetching *)

\* New requests for the keys K.  The answers to the requests they replace are
\* dropped, so one request per key is all there is to keep.
Start(f, K) == [k \in DOMAIN f |-> IF k \in K THEN Asked ELSE f[k]]

\* What a page does with a key it begins to observe: nothing when the data is
\* fresh, nor when a request is under way, which it then waits for.
Mounts(K) == {k \in K : /\ data[k] = NoData \/ k \in stale
                        /\ fetch[k].at = "idle"}

Init ==
    /\ tour \in Tour
    /\ page \in tour.pages
    /\ version = [t \in Tables |-> 0]
    /\ data = [k \in Keys |-> NoData]
    /\ stale = {}
    /\ fetch = Start([k \in Keys |-> Idle], Observed(page))
    /\ write = [w \in Writes |-> Idle]
    /\ own = [k \in Keys |-> [t \in Reads(k) |-> 0]]
    /\ excused = {}

\* The user opens another page.
Open(p) ==
    /\ p # page
    /\ page' = p
    /\ fetch' = Start(fetch, Mounts(Observed(p)))
    /\ excused' = excused \ Mounts(Observed(p))
    /\ UNCHANGED <<tour, version, data, stale, write, own>>

\* Faulty variant: the interval stops once there is an answer.
Poll_UntilAnswered(k) ==
    /\ k \in Polled(page)
    /\ fetch[k].at = "idle" /\ data[k] = NoData
    /\ fetch' = Start(fetch, {k})
    /\ excused' = excused \ {k}
    /\ UNCHANGED <<tour, page, version, data, stale, write, own>>

\* The interval of a polled query has elapsed.
Poll(k) ==
    /\ k \in Polled(page)
    /\ fetch[k].at = "idle"
    /\ fetch' = Start(fetch, {k})
    /\ excused' = excused \ {k}
    /\ UNCHANGED <<tour, page, version, data, stale, write, own>>

\* The control plane reads its tables for a request.
Serve(k) ==
    /\ fetch[k].at = "asked"
    /\ fetch' = [fetch EXCEPT ![k] = Answered(Now(k))]
    /\ UNCHANGED <<tour, page, version, data, stale, write, own, excused>>

\* The answer arrives, whether or not a page still observes the key: it is
\* fresh from now on.
Receive(k) ==
    /\ fetch[k].at = "answered"
    /\ data' = [data EXCEPT ![k] = fetch[k].saw]
    /\ stale' = stale \ {k}
    /\ fetch' = [fetch EXCEPT ![k] = Idle]
    /\ UNCHANGED <<tour, page, version, write, own, excused>>

\* The request and its retry fail.
FetchFails(k) ==
    /\ fetch[k].at # "idle"
    /\ fetch' = [fetch EXCEPT ![k] = Idle]
    /\ excused' = excused \cup {k}
    /\ UNCHANGED <<tour, page, version, data, stale, write, own>>

\* staleTime passes.
Age(k) ==
    /\ data[k] # NoData /\ k \notin stale
    /\ stale' = stale \cup {k}
    /\ UNCHANGED <<tour, page, version, data, fetch, write, own, excused>>

\* Faulty variant: the mark outlives the data.
Forget_KeepsMark(k) ==
    /\ k \notin Observed(page) /\ fetch[k].at = "idle" /\ data[k] # NoData
    /\ data' = [data EXCEPT ![k] = NoData]
    /\ UNCHANGED <<tour, page, version, stale, fetch, write, own, excused>>

\* A key nobody observes is forgotten after a while.
Forget(k) ==
    /\ k \notin Observed(page) /\ fetch[k].at = "idle" /\ data[k] # NoData
    /\ data' = [data EXCEPT ![k] = NoData]
    /\ stale' = stale \ {k}
    /\ UNCHANGED <<tour, page, version, fetch, write, own, excused>>

------------------------------------------------------------------------------
(* Writing *)

\* A button of the open page.  One that is disabled while its mutation is
\* pending cannot be pressed; of the others one call at a time is followed.
StartWrite(w) ==
    /\ w \in Pages[page].offers
    /\ write[w].at = "idle"
    /\ write' = [write EXCEPT ![w] = Asked]
    /\ UNCHANGED <<tour, page, version, data, stale, fetch, own, excused>>

Bump(T) == [t \in Tables |-> IF t \in T THEN version[t] + 1 ELSE version[t]]

\* The control plane commits it.
CommitWrite(w) ==
    /\ write[w].at = "asked"
    /\ \A t \in Changes(w) \cap Tables : version[t] < tour.max
    /\ version' = Bump(Changes(w))
    /\ write' = [write EXCEPT ![w] = Answered(version')]
    /\ UNCHANGED <<tour, page, data, stale, fetch, own, excused>>

Matching(prefixes) == {k \in Keys : \E q \in prefixes : IsPrefix(q, k)}

\* Faulty variant: an invalidation only marks what is old.
Renewed_None(K) == {}

\* Which of the keys K a refetch asks for again: those that have data, whose
\* request under way is cancelled, and those with no request under way.  A
\* first request under way is joined.
Renewed(K) == {k \in K : data[k] # NoData \/ fetch[k].at = "idle"}

\* The larger of what k owed before and of what the commit of w shows.
OwnAfter(w, k) ==
    [t \in Reads(k) |->
        IF k \in Owed(w) /\ t \in Changes(w) /\ write[w].saw[t] > own[k][t]
        THEN write[w].saw[t] ELSE own[k][t]]

\* The write has succeeded and its handler runs, on whatever page: matching
\* keys are stale, those the open page observes are fetched again.
WriteSucceeds(w) ==
    LET matched == Matching(Invalidates(w))
        wanted  == (matched \cap Observed(page)) \cup (Refetches(w) \cap Keys)
        renewed == Renewed(wanted)
        joined  == {k \in (matched \cup wanted) \ renewed :
                        fetch[k].at # "idle"}
    IN  /\ write[w].at = "answered"
        /\ write' = [write EXCEPT ![w] = Idle]
        /\ own' = [k \in Keys |-> OwnAfter(w, k)]
        /\ stale' = stale \cup {k \in matched : data[k] # NoData}
        /\ fetch' = Start(fetch, renewed)
        /\ excused' = (excused \ renewed) \cup joined
        /\ UNCHANGED <<tour, page, version, data>>

\* It fails, or its answer is lost: the cache is left as it is.
WriteFails(w) ==
    /\ write[w].at # "idle"
    /\ write' = [write EXCEPT ![w] = Idle]
    /\ UNCHANGED <<tour, page, version, data, stale, fetch, own, excused>>

\* Another user, or the engine, changes a table.
OthersWrite(t) ==
    /\ version[t] < tour.max
    /\ version' = Bump({t})
    /\ UNCHANGED <<tour, page, data, stale, fetch, write, own, excused>>

------------------------------------------------------------------------------

Fetching(k) == Poll(k) \/ Serve(k) \/ Receive(k) \/ FetchFails(k) \/ Age(k)
                  \/ Forget(k)
Writing(w) == StartWrite(w) \/ CommitWrite(w) \/ WriteSucceeds(w)
                 \/ WriteFails(w)

Next ==
    \/ \E p \in tour.pages : Open(p)
    \/ \E k \in Keys : Fetching(k)
    \/ \E w \in Writes : Writing(w)
    \/ \E t \in Tables : OthersWrite(t)

Spec == Init /\ [][Next]_vars

\* A request that is made again and again is served and answered in the end,
\* and the intervals of the open page elapse (the tab stays focused).  Tours
\* have at most two keys.
Fairness ==
    \A i \in 1 .. 2 :
       /\ WF_vars(i \in DOMAIN tour.keys /\ Poll(tour.keys[i]))
       /\ SF_vars(i \in DOMAIN tour.keys /\ Serve(tour.keys[i]))
       /\ SF_vars(i \in DOMAIN tour.keys /\ Receive(tour.keys[i]))

FairSpec == Spec /\ Fairness

------------------------------------------------------------------------------
(* Properties *)

\* A page shows the writes made from it: data that is fresh and settled holds
\* every write of this tab that has succeeded and affects a query of the page
\* that made it.  Excused are a first request that was under way when the
\* write succeeded, or one under way for a page that had been left: neither
\* is cancelled and both are taken for fresh; and a request that failed.
FreshShowsOwnWrites ==
    \A k \in Keys \ (stale \cup excused) :
       data[k] # NoData /\ fetch[k].at = "idle"
          => \A t \in Reads(k) : data[k][t] >= own[k][t]

Lacks(k) == data[k] = NoData \/ \E t \in Reads(k) : data[k][t] < own[k][t]

Observes(i) == i \in DOMAIN tour.keys /\ tour.keys[i] \in Observed(page)
Polls(i) == i \in DOMAIN tour.keys /\ tour.keys[i] \in Polled(page)

\* A write that has succeeded comes to be shown by a page that stays open:
\* the handler asks for the data again, it does not only mark it as old.
OwnWritesArrive ==
    \A i \in 1 .. 2 :
       Observes(i) ~> \/ ~Observes(i)
                      \/ tour.keys[i] \in excused
                      \/ ~Lacks(tour.keys[i])

\* A page that polls catches up with what others do, and with own writes
\* whatever requests they crossed: this is what bounds the excuses above.
PolledPagesCatchUp ==
    \A i \in 1 .. 2 :
       Polls(i) ~> \/ ~Polls(i)
                   \/ data[tour.keys[i]] = Now(tour.keys[i])

=============================================================================
