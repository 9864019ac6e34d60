-------------------------- MODULE WebQueriesProofs --------------------------
(***************************************************************************)
(* Proofs about WebQueries, for any choice of pages and keys to follow and *)
(* any number of changes of the tables.                                    *)
(***************************************************************************)
EXTENDS WebQueries, SequenceTheorems, TLAPS

\* A write that was answered has been committed.
CommitsAreReal ==
    \A w \in Writes : write[w].at = "answered" =>
       /\ write[w].saw \in [Tables -> 0 .. tour.max]
       /\ \A t \in Tables : write[w].saw[t] <= version[t]

\* What a key has to show is there to be read.
OwnIsPast == \A k \in Keys : \A t \in Reads(k) : own[k][t] <= version[t]

\* An answer that is under way, or that is held and fresh, shows the own writes.
AnswersShowOwn ==
    \A k \in Keys \ excused :
       /\ fetch[k].at = "answered" => \A t \in Reads(k) : fetch[k].saw[t] >= own[k][t]
       /\ fetch[k].at = "idle" /\ data[k] # NoData /\ k \notin stale =>
             \A t \in Reads(k) : data[k][t] >= own[k][t]

Inv == /\ tour \in Tour
       /\ TypeOK
       /\ CommitsAreReal /\ OwnIsPast /\ AnswersShowOwn

------------------------------------------------------------------------------
(* What the handlers of the writes name *)

\* The queries the handler of w invalidates or asks for again.
Named(w) == Matching(Invalidates(w)) \cup (Refetches(w) \cap Keys)

\* A query of one page that a write of this page affects is one the handler of the
\* write names.
NamesWhatItOwes(p) ==
    \A w \in Pages[p].offers, k \in Pages[p].observes :
       Reads(k) \cap Changes(w) # {} => \/ \E q \in Invalidates(w) : IsPrefix(q, k)
                                        \/ k \in Refetches(w)

LEMMA PrefixByElements ==
  ASSUME NEW S, NEW s \in Seq(S), NEW t \in Seq(S),
         Len(s) <= Len(t), \A i \in 1 .. Len(s) : s[i] = t[i]
  PROVE  IsPrefix(s, t)
<1>1. Len(s) \in Nat /\ Len(t) \in Nat /\ 1 \in Int
  OBVIOUS
<1>2. /\ \A i \in 1 .. Len(s) : s[i] \in S
      /\ \A i \in 1 .. Len(s) : t[i] \in S
  OBVIOUS
<1>3. /\ SubSeq(s, 1, Len(s)) \in Seq(S) /\ SubSeq(t, 1, Len(s)) \in Seq(S)
      /\ Len(SubSeq(s, 1, Len(s))) = Len(s) /\ Len(SubSeq(t, 1, Len(s))) = Len(s)
      /\ \A i \in 1 .. Len(s) : SubSeq(s, 1, Len(s))[i] = s[i]
      /\ \A i \in 1 .. Len(s) : SubSeq(t, 1, Len(s))[i] = t[i]
  BY <1>1, <1>2, SubSeqProperties
<1>4. SubSeq(s, 1, Len(s)) = SubSeq(t, 1, Len(s))
  BY <1>3, SeqEqual
<1>5. QED
  BY <1>4 DEF IsPrefix

\* A key begins with its head, which is how most invalidations name it.
LEMMA Heads == \A a, b : Head(<<a>>) = a /\ Head(<<a, b>>) = a
  OBVIOUS

LEMMA NamedByPrefix ==
  \A a, b : /\ IsPrefix(<<a>>, <<a>>) /\ IsPrefix(<<a>>, <<a, b>>)
            /\ IsPrefix(<<a, b>>, <<a, b>>)
<1> TAKE a, b
<1>1. /\ <<a>> \in Seq({a, b}) /\ <<a, b>> \in Seq({a, b})
      /\ Len(<<a>>) <= Len(<<a>>) /\ Len(<<a>>) <= Len(<<a, b>>)
      /\ Len(<<a, b>>) <= Len(<<a, b>>)
  OBVIOUS
<1>2. /\ \A i \in 1 .. Len(<<a>>) : <<a>>[i] = <<a>>[i]
      /\ \A i \in 1 .. Len(<<a, b>>) : <<a, b>>[i] = <<a, b>>[i]
      /\ \A i \in 1 .. Len(<<a>>) : <<a>>[i] = <<a, b>>[i]
  OBVIOUS
<1>3. QED
  BY <1>1, <1>2, PrefixByElements

\* The tables behind each kind of query.
LEMMA QueriesRead ==
  \A k : /\ Head(k) \in {"alerts", "alert"} => Reads(k) = {"alerts"}
         /\ Head(k) \in {"collections", "scenes", "scenes-all", "scenes-all-det"}
               => Reads(k) = {"items"}
         /\ Head(k) = "compliance" => Reads(k) = {"permits", "detections"}
         /\ Head(k) \in {"permits", "detections", "projects", "api-keys",
                         "watch-areas", "models"} => Reads(k) = {Head(k)}
  BY Zenon DEF Reads

\* The pages as the queries and the writes they have.
LEMMA PagesOffer ==
  \A p \in Page : Pages[p].offers # {} =>
     p \in {"alerts", "openAlerts", "alert", "permits", "library", "collection",
            "projects", "apiKeys", "watchAreas", "detection"}
  BY DEF Page, Pages, AlertsPage, AlertDetailPage, DashboardPage, JobsPage,
         AnalyticsPage, PermitsPage, LibraryPage, ProjectsPage, ApiKeysTab,
         MembersTab, AuditTab, WatchAreasPage, WatchAreaDetailPage, DetectionPage

\* The tables each write changes, and what its handler names.
LEMMA WritesName ==
  /\ Changes("ack") = {"alerts"} /\ Invalidates("ack") = {<<"alerts">>}
  /\ Changes("ackHere") = {"alerts"}
  /\ Invalidates("ackHere") = {<<"alert", "id">>, <<"alerts">>}
  /\ \A w \in {"uploadPermits", "removePermit"} :
        /\ Changes(w) \subseteq {"permits", "audit"}
        /\ Invalidates(w) = {<<"permits">>, <<"compliance">>}
  /\ Changes("ingest") = {"items", "jobs", "audit"}
  /\ Invalidates("ingest") = {<<"collections">>, <<"scenes">>}
  /\ Changes("createProject") = {"projects", "audit"}
  /\ Invalidates("createProject") = {<<"projects">>}
  /\ \A w \in {"createKey", "revokeKey"} :
        /\ Changes(w) = {"api-keys", "audit"} /\ Invalidates(w) = {<<"api-keys">>}
  /\ Invalidates("createArea") = {<<"watch-areas">>}
  /\ Invalidates("removeArea") = {<<"watch-areas">>}
  /\ Changes("evaluate") = {"jobs", "detections", "alerts", "audit"}
  /\ Changes("run") = {"jobs", "detections", "audit"}
  /\ Refetches("run") = {<<"compliance">>}
  BY Zenon DEF Changes, Invalidates, Refetches

LEMMA PagesName == \A p \in Page : NamesWhatItOwes(p)
<1>1. NamesWhatItOwes("alerts") /\ NamesWhatItOwes("openAlerts")
  <2>1. /\ Pages["alerts"].offers = {"ack"} /\ Pages["openAlerts"].offers = {"ack"}
        /\ Pages["alerts"].observes = {<<"alerts", "all">>}
        /\ Pages["openAlerts"].observes = {<<"alerts", "open">>}
    BY DEF Pages, AlertsPage
  <2>2. /\ <<"alerts">> \in Invalidates("ack")
        /\ IsPrefix(<<"alerts">>, <<"alerts", "all">>)
        /\ IsPrefix(<<"alerts">>, <<"alerts", "open">>)
    BY WritesName, NamedByPrefix
  <2>3. QED
    BY <2>1, <2>2 DEF NamesWhatItOwes
<1>2. NamesWhatItOwes("alert")
  <2>1. /\ Pages["alert"].offers = {"ackHere"}
        /\ Pages["alert"].observes = {<<"alert", "id">>}
    BY DEF Pages, AlertDetailPage
  <2>2. /\ <<"alert", "id">> \in Invalidates("ackHere")
        /\ IsPrefix(<<"alert", "id">>, <<"alert", "id">>)
    BY WritesName, NamedByPrefix
  <2>3. QED
    BY <2>1, <2>2 DEF NamesWhatItOwes
<1>3. NamesWhatItOwes("permits")
  <2>1. /\ Pages["permits"].offers = {"uploadPermits", "removePermit"}
        /\ Pages["permits"].observes = {<<"permits">>, <<"detections">>, <<"compliance">>}
    BY DEF Pages, PermitsPage
  <2>2. Reads(<<"detections">>) = {"detections"}
    BY QueriesRead, Heads
  <2>3. \A w \in Pages["permits"].offers :
           /\ Reads(<<"detections">>) \cap Changes(w) = {}
           /\ <<"permits">> \in Invalidates(w) /\ <<"compliance">> \in Invalidates(w)
    BY <2>1, <2>2, WritesName
  <2>4. /\ IsPrefix(<<"permits">>, <<"permits">>)
        /\ IsPrefix(<<"compliance">>, <<"compliance">>)
    BY NamedByPrefix
  <2>5. QED
    BY <2>1, <2>3, <2>4 DEF NamesWhatItOwes
<1>4. NamesWhatItOwes("library") /\ NamesWhatItOwes("collection")
  <2>1. /\ Pages["library"].offers = {"ingest"} /\ Pages["collection"].offers = {"ingest"}
        /\ Pages["library"].observes = {<<"collections">>, <<"scenes", "any">>}
        /\ Pages["collection"].observes = {<<"collections">>, <<"scenes", "one">>}
    BY DEF Pages, LibraryPage
  <2>2. <<"collections">> \in Invalidates("ingest") /\ <<"scenes">> \in Invalidates("ingest")
    BY WritesName
  <2>3. /\ IsPrefix(<<"collections">>, <<"collections">>)
        /\ IsPrefix(<<"scenes">>, <<"scenes", "any">>)
        /\ IsPrefix(<<"scenes">>, <<"scenes", "one">>)
    BY NamedByPrefix
  <2>4. QED
    BY <2>1, <2>2, <2>3 DEF NamesWhatItOwes
<1>5. NamesWhatItOwes("projects")
  <2>1. /\ Pages["projects"].offers = {"createProject"}
        /\ Pages["projects"].observes = {<<"projects">>, <<"collections">>}
    BY DEF Pages, ProjectsPage
  <2>2. Reads(<<"collections">>) \cap Changes("createProject") = {}
    BY QueriesRead, Heads, WritesName
  <2>3. /\ <<"projects">> \in Invalidates("createProject")
        /\ IsPrefix(<<"projects">>, <<"projects">>)
    BY WritesName, NamedByPrefix
  <2>4. QED
    BY <2>1, <2>2, <2>3 DEF NamesWhatItOwes
<1>6. NamesWhatItOwes("apiKeys")
  <2>1. /\ Pages["apiKeys"].offers = {"createKey", "revokeKey"}
        /\ Pages["apiKeys"].observes = {<<"api-keys">>}
    BY DEF Pages, ApiKeysTab
  <2>2. /\ \A w \in Pages["apiKeys"].offers : <<"api-keys">> \in Invalidates(w)
        /\ IsPrefix(<<"api-keys">>, <<"api-keys">>)
    BY <2>1, WritesName, NamedByPrefix
  <2>3. QED
    BY <2>1, <2>2 DEF NamesWhatItOwes
<1>7. NamesWhatItOwes("watchAreas")
  <2>1. /\ Pages["watchAreas"].offers = {"createArea", "removeArea", "evaluate"}
        /\ Pages["watchAreas"].observes = {<<"watch-areas">>}
    BY DEF Pages, WatchAreasPage
  <2>2. Reads(<<"watch-areas">>) \cap Changes("evaluate") = {}
    BY QueriesRead, Heads, WritesName
  <2>3. /\ \A w \in {"createArea", "removeArea"} : <<"watch-areas">> \in Invalidates(w)
        /\ IsPrefix(<<"watch-areas">>, <<"watch-areas">>)
    BY WritesName, NamedByPrefix
  <2>4. QED
    BY <2>1, <2>2, <2>3 DEF NamesWhatItOwes
<1>8. NamesWhatItOwes("detection")
  <2>1. /\ Pages["detection"].offers = {"run"}
        /\ Pages["detection"].observes =
              {<<"models">>, <<"compliance">>, <<"scenes-all-det">>}
    BY DEF Pages, DetectionPage
  <2>2. /\ Reads(<<"models">>) \cap Changes("run") = {}
        /\ Reads(<<"scenes-all-det">>) \cap Changes("run") = {}
        /\ <<"compliance">> \in Refetches("run")
    BY QueriesRead, Heads, WritesName
  <2>3. QED
    BY <2>1, <2>2 DEF NamesWhatItOwes
<1>9. \A p \in Page : Pages[p].offers = {} => NamesWhatItOwes(p)
  BY DEF NamesWhatItOwes
<1>10. QED
  BY <1>1, <1>2, <1>3, <1>4, <1>5, <1>6, <1>7, <1>8, <1>9, PagesOffer

\* Acknowledging an alert on its page names every list of alerts.
LEMMA ListsOfAlerts ==
  \A k \in Key : Head(k) = "alerts" => IsPrefix(<<"alerts">>, k)
<1> DEFINE Others == {<<"alert", "id">>, <<"collections">>, <<"scenes-all">>,
                      <<"watch-areas">>, <<"analytics">>, <<"models">>,
                      <<"compliance">>, <<"detections">>, <<"jobs">>, <<"permits">>,
                      <<"scenes", "any">>, <<"scenes", "one">>, <<"projects">>,
                      <<"api-keys">>, <<"members">>, <<"audit">>,
                      <<"detections", "id">>, <<"scenes-all-det">>}
<1> DEFINE Lists == {<<"alerts">>, <<"alerts", "all">>, <<"alerts", "open">>}
<1>1. \A p \in Page : Pages[p].observes \subseteq Others \cup Lists
  BY DEF Page, Pages, AlertsPage, AlertDetailPage, DashboardPage, JobsPage,
         AnalyticsPage, PermitsPage, LibraryPage, ProjectsPage, ApiKeysTab,
         MembersTab, AuditTab, WatchAreasPage, WatchAreaDetailPage, DetectionPage
<1>2. \A k \in Others : Head(k) # "alerts"
  BY Heads
<1>3. \A k \in Lists : IsPrefix(<<"alerts">>, k)
  BY NamedByPrefix
<1> HIDE DEF Others, Lists
<1>4. QED
  BY <1>1, <1>2, <1>3 DEF Key

\* What a write owes is what its handler names: no page makes a write whose handler
\* leaves out a query of this page that it affects, nor does a write to an alert
\* leave out a list of alerts.
LEMMA OwedAreNamed ==
  ASSUME tour \in Tour, NEW w
  PROVE  Owed(w) \subseteq Named(w)
<1> SUFFICES ASSUME NEW k \in Owed(w) PROVE k \in Named(w)
  OBVIOUS
<1>1. k \in Keys /\ k \in Key
  BY TourAssumption DEF Owed, Keys, Range
<1>2. CASE \E p \in Page : w \in Pages[p].offers /\ k \in Pages[p].observes
  BY <1>1, <1>2, PagesName DEF Owed, Named, Matching, NamesWhatItOwes
<1>3. CASE w = "ackHere" /\ Head(k) = "alerts"
  <2>1. <<"alerts">> \in Invalidates(w) /\ IsPrefix(<<"alerts">>, k)
    BY <1>1, <1>3, ListsOfAlerts, WritesName
  <2>2. QED
    BY <1>1, <2>1 DEF Named, Matching
<1>4. QED
  BY <1>2, <1>3 DEF Owed

------------------------------------------------------------------------------
(* The invariant *)

\* What a behaviour follows does not change.
LEMMA SameTour ==
  ASSUME tour' = tour
  PROVE  /\ Keys' = Keys /\ Tables' = Tables /\ Writes' = Writes
         /\ \A k : Snapshot(k)' = Snapshot(k)
  BY DEF Keys, Tables, Writes, Snapshot

\* A request under way is one of three things.
LEMMA Requests ==
  ASSUME TypeOK, NEW k \in Keys
  PROVE  /\ fetch[k].at \in {"idle", "asked", "answered"}
         /\ fetch[k].at = "answered" => fetch[k].saw \in Snapshot(k)
  BY DEF TypeOK, Idle, Asked, Answered

LEMMA InitInv == Init => Inv
<1> SUFFICES ASSUME Init PROVE Inv
  OBVIOUS
<1>1. tour \in Tour /\ tour.max \in Nat
  BY TourAssumption DEF Init
<1>2. TypeOK
  BY <1>1 DEF Init, TypeOK, Start, Snapshot, Idle, Asked
<1>3. CommitsAreReal /\ AnswersShowOwn
  BY DEF Init, CommitsAreReal, AnswersShowOwn, Start, Idle, Asked
<1>4. OwnIsPast
  BY DEF Init, OwnIsPast, Tables
<1>5. QED
  BY <1>1, <1>2, <1>3, <1>4 DEF Inv

\* New requests have seen nothing yet.
LEMMA StartInv ==
  ASSUME Inv, NEW p \in tour.pages, NEW K,
         page' = p, fetch' = Start(fetch, K), excused' = excused \ K,
         UNCHANGED <<tour, version, data, stale, write, own>>
  PROVE  Inv'
<1> USE SameTour DEF Inv
<1>1. \A k \in Keys : fetch'[k] = IF k \in K THEN Asked ELSE fetch[k]
  BY DEF Start, TypeOK
<1>2. TypeOK'
  BY <1>1 DEF TypeOK, Start
<1>3. CommitsAreReal' /\ OwnIsPast'
  BY DEF CommitsAreReal, OwnIsPast
<1>4. AnswersShowOwn'
  BY <1>1 DEF AnswersShowOwn, Asked
<1>5. QED
  BY <1>2, <1>3, <1>4

\* Opening a page and polling ask for queries again (useQuery, refetchInterval).
LEMMA AskInv ==
  ASSUME Inv, (\E p \in tour.pages : Open(p)) \/ (\E k \in Keys : Poll(k))
  PROVE  Inv'
<1>1. CASE \E p \in tour.pages : Open(p)
  BY <1>1, StartInv DEF Open
<1>2. CASE \E k \in Keys : Poll(k)
  BY <1>2, StartInv DEF Poll, Inv, TypeOK
<1>3. QED
  BY <1>1, <1>2

\* An answer shows the tables as they are when it is made.
LEMMA ServeInv == ASSUME Inv, NEW k \in Keys, Serve(k) PROVE Inv'
<1> USE SameTour DEF Inv, Serve
<1>1. Now(k) \in Snapshot(k)
  BY DEF TypeOK, Now, Snapshot, Tables
<1>2. \A j \in Keys : fetch'[j] = IF j = k THEN Answered(Now(k)) ELSE fetch[j]
  BY DEF TypeOK
<1>3. TypeOK'
  <2>1. \A j \in Keys : fetch'[j] \in {Idle, Asked} \cup {Answered(s) : s \in Snapshot(j)}
    BY <1>1, <1>2 DEF TypeOK
  <2>2. DOMAIN fetch' = Keys
    BY DEF TypeOK
  <2>3. QED
    BY <2>1, <2>2 DEF TypeOK
<1>4. CommitsAreReal' /\ OwnIsPast'
  BY DEF CommitsAreReal, OwnIsPast
<1>5. AnswersShowOwn'
  BY <1>2 DEF AnswersShowOwn, Answered, OwnIsPast, Now, TypeOK, Snapshot
<1>6. QED
  BY <1>3, <1>4, <1>5

\* An answer that arrives shows what it showed when it was made.
LEMMA ReceiveInv == ASSUME Inv, NEW k \in Keys, Receive(k) PROVE Inv'
<1> USE SameTour DEF Inv, Receive
<1>1. /\ \A j \in Keys : fetch'[j] = IF j = k THEN Idle ELSE fetch[j]
      /\ \A j \in Keys : data'[j] = IF j = k THEN fetch[k].saw ELSE data[j]
      /\ fetch[k].saw \in Snapshot(k)
  BY Requests DEF TypeOK
<1>2. TypeOK'
  <2>1. \A j \in Keys :
           /\ fetch'[j] \in {Idle, Asked} \cup {Answered(s) : s \in Snapshot(j)}
           /\ data'[j] \in Snapshot(j) \cup {NoData}
    BY <1>1 DEF TypeOK
  <2>2. DOMAIN fetch' = Keys /\ DOMAIN data' = Keys
    BY DEF TypeOK
  <2>3. stale' \subseteq {j \in Keys : data'[j] # NoData}
    BY <1>1 DEF TypeOK
  <2>4. QED
    BY <2>1, <2>2, <2>3 DEF TypeOK
<1>3. CommitsAreReal' /\ OwnIsPast'
  BY DEF CommitsAreReal, OwnIsPast
<1>4. AnswersShowOwn'
  BY <1>1 DEF AnswersShowOwn, Idle
<1>5. QED
  BY <1>2, <1>3, <1>4

\* A request that fails, data that grows old or is forgotten show less.
LEMMA LoseInv ==
  ASSUME Inv, NEW k \in Keys, FetchFails(k) \/ Age(k) \/ Forget(k)
  PROVE  Inv'
<1> USE SameTour DEF Inv
<1>1. CommitsAreReal' /\ OwnIsPast'
  BY DEF CommitsAreReal, OwnIsPast, FetchFails, Age, Forget
<1>2. CASE FetchFails(k)
  <2>1. \A j \in Keys : fetch'[j] = IF j = k THEN Idle ELSE fetch[j]
    BY <1>2 DEF FetchFails, TypeOK
  <2>2. TypeOK'
    BY <1>2, <2>1 DEF FetchFails, TypeOK
  <2>3. AnswersShowOwn'
    BY <1>2, <2>1 DEF FetchFails, AnswersShowOwn
  <2>4. QED
    BY <1>1, <1>2, <2>2, <2>3 DEF FetchFails
<1>3. CASE Age(k)
  BY <1>1, <1>3 DEF Age, TypeOK, AnswersShowOwn
<1>4. CASE Forget(k)
  <2>1. \A j \in Keys : data'[j] = IF j = k THEN NoData ELSE data[j]
    BY <1>4 DEF Forget, TypeOK
  <2>2. TypeOK'
    BY <1>4, <2>1 DEF Forget, TypeOK
  <2>3. AnswersShowOwn'
    BY <1>4, <2>1 DEF Forget, AnswersShowOwn
  <2>4. QED
    BY <1>1, <1>4, <2>2, <2>3 DEF Forget
<1>5. QED
  BY <1>2, <1>3, <1>4

\* The tables only move on: whoever changes one, what was read or committed
\* before is past.
LEMMA BumpInv ==
  ASSUME Inv, NEW T, \A t \in T \cap Tables : version[t] < tour.max,
         version' = Bump(T),
         UNCHANGED <<tour, page, data, stale, fetch, own, excused>>,
         DOMAIN write' = Writes,
         \A w \in Writes : write'[w] = write[w] \/ write'[w] = Answered(version')
  PROVE  Inv'
<1> USE SameTour DEF Inv
<1>1. /\ version' \in [Tables -> 0 .. tour.max]
      /\ \A t \in Tables : version[t] <= version'[t]
  BY TourAssumption DEF Bump, TypeOK
<1>2. TypeOK'
  BY <1>1 DEF TypeOK, Answered
<1>3. CommitsAreReal'
  <2> SUFFICES ASSUME NEW w \in Writes, write'[w].at = "answered"
               PROVE  /\ write'[w].saw \in [Tables -> 0 .. tour.max]
                      /\ \A t \in Tables : write'[w].saw[t] <= version'[t]
    BY DEF CommitsAreReal
  <2>1. CASE write'[w] = Answered(version')
    BY <1>1, <2>1, TourAssumption DEF Answered
  <2>2. CASE write'[w] = write[w]
    <3>1. /\ write[w].saw \in [Tables -> 0 .. tour.max]
          /\ \A t \in Tables : write[w].saw[t] <= version[t]
      BY <2>2 DEF CommitsAreReal
    <3>2. QED
      BY <1>1, <2>2, <3>1, TourAssumption DEF TypeOK
  <2>3. QED
    BY <2>1, <2>2
<1>4. OwnIsPast'
  <2> SUFFICES ASSUME NEW k \in Keys, NEW t \in Reads(k)
               PROVE  own[k][t] <= version'[t]
    BY DEF OwnIsPast
  <2>1. /\ t \in Tables
        /\ own[k][t] \in Nat /\ version[t] \in Nat /\ version'[t] \in Nat
        /\ own[k][t] <= version[t]
    BY <1>1, TourAssumption DEF OwnIsPast, TypeOK, Snapshot, Tables
  <2>2. QED
    BY <1>1, <2>1
<1>5. AnswersShowOwn'
  BY DEF AnswersShowOwn
<1>6. QED
  BY <1>2, <1>3, <1>4, <1>5

\* Writes begin, are committed and fail, and others write too.
LEMMA WriteInv ==
  ASSUME Inv,
         \/ \E w \in Writes : StartWrite(w) \/ CommitWrite(w) \/ WriteFails(w)
         \/ \E t \in Tables : OthersWrite(t)
  PROVE  Inv'
<1>1. ASSUME NEW w \in Writes, StartWrite(w) \/ WriteFails(w) PROVE Inv'
  <2> USE <1>1, SameTour DEF Inv, StartWrite, WriteFails
  <2>1. /\ \A v \in Writes : write'[v] = write[v] \/ write'[v] \in {Asked, Idle}
        /\ DOMAIN write' = Writes
    BY DEF TypeOK
  <2>2. TypeOK'
    BY <2>1 DEF TypeOK, Asked, Idle
  <2>3. CommitsAreReal' /\ OwnIsPast' /\ AnswersShowOwn'
    BY <2>1 DEF CommitsAreReal, OwnIsPast, AnswersShowOwn, Asked, Idle
  <2>4. QED
    BY <2>2, <2>3
<1>2. ASSUME NEW w \in Writes, CommitWrite(w) PROVE Inv'
  <2>1. /\ DOMAIN write' = Writes
        /\ \A v \in Writes : write'[v] = write[v] \/ write'[v] = Answered(version')
    BY <1>2 DEF CommitWrite, Inv, TypeOK
  <2>2. QED
    BY <1>2, <2>1, BumpInv DEF CommitWrite
<1>3. ASSUME NEW t \in Tables, OthersWrite(t) PROVE Inv'
  BY <1>3, BumpInv DEF OthersWrite, Inv, TypeOK
<1>4. QED
  BY <1>1, <1>2, <1>3

\* What a key owes after a write has succeeded is what it owed, or what the write
\* showed of a key it owes.
LEMMA OwnGrows ==
  ASSUME Inv, NEW w \in Writes, write[w].at = "answered", NEW k \in Keys
  PROVE  /\ OwnAfter(w, k) \in Snapshot(k)
         /\ \A t \in Reads(k) : OwnAfter(w, k)[t] <= version[t]
         /\ k \notin Owed(w) => OwnAfter(w, k) = own[k]
<1>1. own[k] \in [Reads(k) -> 0 .. tour.max]
  BY DEF Inv, TypeOK, Snapshot
<1>2. Reads(k) \subseteq Tables
  BY DEF Tables
<1>3. /\ write[w].saw \in [Tables -> 0 .. tour.max]
      /\ \A t \in Tables : write[w].saw[t] <= version[t]
  BY DEF Inv, CommitsAreReal
<1>4. OwnAfter(w, k) \in Snapshot(k)
  BY <1>1, <1>2, <1>3 DEF OwnAfter, Snapshot
<1>5. \A t \in Reads(k) : OwnAfter(w, k)[t] <= version[t]
  BY <1>2, <1>3 DEF OwnAfter, Inv, OwnIsPast
<1>6. k \notin Owed(w) => OwnAfter(w, k) = own[k]
  BY <1>1 DEF OwnAfter
<1>7. QED
  BY <1>4, <1>5, <1>6

\* When a write has succeeded, what it owes is old, is asked for again or has been
\* joined: nothing the page takes for fresh lacks the write (onSuccess handlers,
\* invalidateQueries and refetch).
LEMMA SucceedInv ==
  ASSUME Inv, NEW w \in Writes, WriteSucceeds(w)
  PROVE  Inv'
<1> DEFINE matched == Matching(Invalidates(w))
           wanted  == (matched \cap Observed(page)) \cup (Refetches(w) \cap Keys)
           renewed == Renewed(wanted)
           joined  == {k \in (matched \cup wanted) \ renewed : fetch[k].at # "idle"}
<1> USE SameTour DEF Inv
<1>1. /\ write[w].at = "answered" /\ write' = [write EXCEPT ![w] = Idle]
      /\ own' = [k \in Keys |-> OwnAfter(w, k)]
      /\ stale' = stale \cup {k \in matched : data[k] # NoData}
      /\ fetch' = Start(fetch, renewed)
      /\ excused' = (excused \ renewed) \cup joined
      /\ UNCHANGED <<tour, page, version, data>>
  BY DEF WriteSucceeds
<1>2. /\ matched \subseteq Keys /\ wanted \subseteq Keys
      /\ renewed \subseteq wanted /\ joined \subseteq Keys
  BY DEF Matching, Observed, Renewed
<1>3. \A k \in wanted \ renewed : data[k] = NoData /\ fetch[k].at # "idle"
  BY DEF Renewed
<1>4. Owed(w) \subseteq matched \cup wanted
  BY OwedAreNamed DEF Named
<1> HIDE DEF matched, wanted, renewed, joined
<1>5. \A k \in Keys : fetch'[k] = IF k \in renewed THEN Asked ELSE fetch[k]
  BY <1>1 DEF Start, TypeOK
<1>6. TypeOK'
  <2>1. \A k \in Keys : own'[k] \in Snapshot(k)
    BY <1>1, OwnGrows
  <2>2. DOMAIN own' = Keys /\ DOMAIN fetch' = Keys
    BY <1>1 DEF Start, TypeOK
  <2>3. /\ DOMAIN write' = Writes
        /\ \A v \in Writes : write'[v].at \in {"idle", "asked", "answered"}
    BY <1>1 DEF TypeOK, Idle
  <2>4. excused' \subseteq Keys /\ stale' \subseteq {k \in Keys : data[k] # NoData}
    BY <1>1, <1>2 DEF TypeOK
  <2>5. QED
    BY <1>1, <1>5, <2>1, <2>2, <2>3, <2>4 DEF TypeOK
<1>7. CommitsAreReal'
  BY <1>1 DEF CommitsAreReal, TypeOK, Idle
<1>8. OwnIsPast'
  BY <1>1, OwnGrows DEF OwnIsPast
<1>9. AnswersShowOwn'
  <2> SUFFICES ASSUME NEW k \in Keys \ excused'
               PROVE  /\ fetch'[k].at = "answered" =>
                            \A t \in Reads(k) : fetch'[k].saw[t] >= own'[k][t]
                      /\ fetch'[k].at = "idle" /\ data[k] # NoData /\ k \notin stale' =>
                            \A t \in Reads(k) : data[k][t] >= own'[k][t]
    BY <1>1 DEF AnswersShowOwn
  <2>1. CASE k \in renewed
    BY <1>5, <2>1 DEF Asked
  <2>2. CASE k \notin renewed /\ k \in matched \cup wanted
    <3>1. fetch'[k].at = "idle"
      BY <1>1, <1>5, <2>2 DEF joined
    <3>2. k \in matched
      BY <1>3, <1>5, <2>2, <3>1
    <3>3. QED
      BY <1>1, <3>1, <3>2
  <2>3. CASE k \notin matched \cup wanted
    <3>1. k \notin renewed /\ k \notin excused
      BY <1>1, <1>2, <2>3
    <3>2. own'[k] = own[k]
      BY <1>1, <1>4, <2>3, OwnGrows
    <3>3. QED
      BY <1>1, <1>5, <3>1, <3>2 DEF AnswersShowOwn
  <2>4. QED
    BY <2>1, <2>2, <2>3
<1>10. QED
  BY <1>1, <1>6, <1>7, <1>8, <1>9

LEMMA NextInv == Inv /\ [Next]_vars => Inv'
<1> SUFFICES ASSUME Inv, [Next]_vars PROVE Inv'
  OBVIOUS
<1>1. CASE UNCHANGED vars
  BY <1>1, SameTour DEF vars, Inv, TypeOK, CommitsAreReal, OwnIsPast, AnswersShowOwn
<1>2. CASE Next
  BY <1>2, AskInv, ServeInv, ReceiveInv, LoseInv, WriteInv, SucceedInv
     DEF Next, Fetching, Writing
<1>3. QED
  BY <1>1, <1>2

LEMMA CacheInvariant == Spec => []Inv
  BY InitInv, NextInv, PTL DEF Spec

------------------------------------------------------------------------------
(* The theorems *)

\* The cache, the requests and the mutations of a tab keep their shape on every
\* page (the query cache and useMutation).
THEOREM CacheTyped == Spec => []TypeOK
<1>1. Inv => TypeOK
  BY DEF Inv
<1>2. QED
  BY CacheInvariant, <1>1, PTL

\* Whichever pages are visited and whatever others do meanwhile, a page that shows
\* fresh data shows the writes made from it (the onSuccess handlers of web/src/app).
THEOREM FreshShowsWrites == Spec => []FreshShowsOwnWrites
<1>1. Inv => FreshShowsOwnWrites
  BY DEF Inv, AnswersShowOwn, FreshShowsOwnWrites
<1>2. QED
  BY CacheInvariant, <1>1, PTL

=============================================================================
