--------------------------- MODULE DetectOnIngest ---------------------------
(***************************************************************************)
(* How a new scene comes to be compared: the ingest worker (pipeline.py,   *)
(* stac_client.py) registers the rasters of a source one by one in the     *)
(* STAC catalog and notifies the control plane of each; onItemIngested     *)
(* evaluates the watch areas under it, and an evaluation searches the      *)
(* catalog and picks the pair of scenes to compare (alert_engine.go).      *)
(*                                                                         *)
(* Several ingests run at once, into one collection, and may meet on the   *)
(* same item: an item is named by a digest of its href.  Every call to the *)
(* catalog is an action of its own.  One watch area is modelled, under all *)
(* the footprints; what an evaluation does with its pair is modelled in    *)
(* DetectionRuns.                                                          *)
(***************************************************************************)
EXTENDS Naturals, Sequences, FiniteSets

CONSTANTS
    Call,     \* calls of ingest_source
    Scene,    \* rasters, and the items made of them
    Source,   \* the rasters the provider lists for each call
    Date,     \* the acquisition date each call gives a scene
    Clear,    \* scenes that pass the cloud filter of the area
    Limit,    \* scenes a search returns (12 in the code)
    Faults    \* faults of the environment

ASSUME IngestAssumption ==
    /\ Source \in [Call -> Seq(Scene)]
    /\ Date \in [Call -> [Scene -> Nat \ {0}]]
    /\ Clear \subseteq Scene
    /\ IsFiniteSet(Scene)
    /\ Limit \in Nat
    /\ Faults \subseteq {"raster", "source", "catalog", "notify"}

VARIABLES
    collection,  \* does the collection exist?
    catalog,     \* the date of each item, 0 if it is not there
    pc,          \* what each call does next
    at,          \* the raster it is at
    landed,      \* rasters counted as ingested
    failed,      \* rasters counted as failed
    events,      \* evaluations started by a notification, yet to search
    compared,    \* pairs of dated scenes handed to the detection
    answer,      \* what the last search led to
    missed       \* history: was an item stored or changed and not notified of,
                 \* or a notified evaluation unable to search?

vars == <<collection, catalog, pc, at, landed, failed, events, compared, answer, missed>>

Phase == {"idle", "exists", "post", "put", "list", "profile", "post_item", "put_item",
          "notify", "ok", "error"}

Dated == Scene \X Nat

TypeOK ==
    /\ collection \in BOOLEAN
    /\ catalog \in [Scene -> Nat]
    /\ pc \in [Call -> Phase]
    /\ at \in [Call -> Nat]
    /\ \A c \in Call : at[c] <= Len(Source[c])
    /\ landed \in [Call -> SUBSET Nat]
    /\ failed \in [Call -> SUBSET Nat]
    /\ events \subseteq Call \X Nat
    /\ compared \subseteq [before : Dated, after : Dated]
    /\ missed \in BOOLEAN
    /\ answer \in {"none", "too_few", "no_earlier", "pair", "error"}

Init ==
    /\ collection \in BOOLEAN
    /\ catalog = [s \in Scene |-> 0]
    /\ pc = [c \in Call |-> "idle"]
    /\ at = [c \in Call |-> 0]
    /\ landed = [c \in Call |-> {}]
    /\ failed = [c \in Call |-> {}]
    /\ events = {}
    /\ compared = {}
    /\ answer = "none"
    /\ missed = FALSE

-----------------------------------------------------------------------------
(* Helpers *)

Goto(c, phase) == pc' = [pc EXCEPT ![c] = phase]

Item(c) == Source[c][at[c]]

Store(c) == catalog' = [catalog EXCEPT ![Item(c)] = Date[c][Item(c)]]

Count(c) == landed' = [landed EXCEPT ![c] = @ \cup {at[c]}] /\ UNCHANGED failed

\* "keep going; report per-item failures"
Skip(c) ==
    /\ failed' = [failed EXCEPT ![c] = @ \cup {at[c]}]
    /\ Goto(c, "list")
    /\ UNCHANGED landed

\* Faulty variant: the status of the response is not looked at.
StoreItem_Unchecked(c) ==
    /\ Store(c) \/ ("catalog" \in Faults /\ UNCHANGED catalog)
    /\ Count(c)
    /\ Goto(c, "notify")
    /\ UNCHANGED missed

\* A request to the catalog that stores the item: it succeeds, or it fails and
\* the item is counted as failed, even when it is only the reply that is lost.
StoreItem(c) ==
    \/ Store(c) /\ Count(c) /\ Goto(c, "notify") /\ UNCHANGED missed
    \/ /\ "catalog" \in Faults
       /\ Skip(c)
       /\ (Store(c) /\ missed' = TRUE) \/ UNCHANGED <<catalog, missed>>

-----------------------------------------------------------------------------
(* ingest_source *)

Ingest(c) ==
    /\ pc[c] = "idle"
    /\ Goto(c, "exists")
    /\ UNCHANGED <<collection, catalog, at, landed, failed, events, compared, answer, missed>>

\* collection_exists: any status but 200 counts as absent; an exception ends
\* the call.
CheckCollection(c) ==
    /\ pc[c] = "exists"
    /\ \/ Goto(c, IF collection THEN "put" ELSE "post")
       \/ "catalog" \in Faults /\ (Goto(c, "post") \/ Goto(c, "error"))
    /\ UNCHANGED <<collection, catalog, at, landed, failed, events, compared, answer, missed>>

\* A collection that exists by now is a conflict, and raise_for_status ends
\* the call.
PostCollection(c) ==
    /\ pc[c] = "post"
    /\ \/ collection' = TRUE /\ Goto(c, IF collection THEN "error" ELSE "list")
       \/ /\ "catalog" \in Faults
          /\ collection' \in {collection, TRUE}
          /\ Goto(c, "error")
    /\ UNCHANGED <<catalog, at, landed, failed, events, compared, answer, missed>>

PutCollection(c) ==
    /\ pc[c] = "put"
    /\ \/ Goto(c, "list")
       \/ "catalog" \in Faults /\ Goto(c, "error")
    /\ UNCHANGED <<collection, catalog, at, landed, failed, events, compared, answer, missed>>

\* Faulty variant: the loop goes one beyond the end.
NextRaster_OneMore(c) ==
    /\ pc[c] = "list"
    /\ \/ /\ at[c] <= Len(Source[c])
          /\ at' = [at EXCEPT ![c] = @ + 1]
          /\ Goto(c, "profile")
       \/ at[c] > Len(Source[c]) /\ Goto(c, "ok") /\ UNCHANGED at
    /\ UNCHANGED <<collection, catalog, landed, failed, events, compared, answer, missed>>

\* The iterator of the provider may raise between two rasters, outside the try.
NextRaster(c) ==
    /\ pc[c] = "list"
    /\ \/ /\ at[c] < Len(Source[c])
          /\ at' = [at EXCEPT ![c] = @ + 1]
          /\ Goto(c, "profile")
       \/ at[c] = Len(Source[c]) /\ Goto(c, "ok") /\ UNCHANGED at
       \/ "source" \in Faults /\ Goto(c, "error") /\ UNCHANGED at
    /\ UNCHANGED <<collection, catalog, landed, failed, events, compared, answer, missed>>

\* build_profile reads the header and may raise; the thumbnail never does.
BuildProfile(c) ==
    /\ pc[c] = "profile"
    /\ \/ Goto(c, "post_item") /\ UNCHANGED <<landed, failed>>
       \/ "raster" \in Faults /\ Skip(c)
    /\ UNCHANGED <<collection, catalog, at, events, compared, answer, missed>>

\* upsert_item: 409 means that the item is there and is to be updated.
PostItem(c) ==
    /\ pc[c] = "post_item"
    /\ IF catalog[Item(c)] = 0 THEN StoreItem(c)
       ELSE /\ Goto(c, "put_item")
            /\ UNCHANGED <<catalog, landed, failed, missed>>
    /\ UNCHANGED <<collection, at, events, compared, answer>>

\* Faulty variant: an update is not notified.
PutItem_Silent(c) ==
    /\ pc[c] = "put_item"
    /\ Store(c) /\ Count(c) /\ Goto(c, "list")
    /\ UNCHANGED <<collection, at, events, compared, answer, missed>>

PutItem(c) ==
    /\ pc[c] = "put_item"
    /\ StoreItem(c)
    /\ UNCHANGED <<collection, at, events, compared, answer>>

\* _notify_control_plane: best effort, once, and the status is not looked at.
Notify(c) ==
    /\ pc[c] = "notify"
    /\ \/ events' = events \cup {<<c, at[c]>>} /\ UNCHANGED missed
       \/ "notify" \in Faults /\ missed' = TRUE /\ UNCHANGED events
    /\ Goto(c, "list")
    /\ UNCHANGED <<collection, catalog, at, landed, failed, compared, answer>>

-----------------------------------------------------------------------------
(* evaluateWatchArea, up to the request of the detection *)

\* Faulty variant: the search ignores the clouds.
Visible_AnyCloud == {s \in Scene : catalog[s] # 0}

Visible == {s \in Clear : catalog[s] # 0}

\* The scenes a search may return: newest first, as many as the limit allows.
Pages ==
    {page \in SUBSET Visible :
        /\ Cardinality(page) = IF Cardinality(Visible) < Limit
                               THEN Cardinality(Visible) ELSE Limit
        /\ \A s \in page, v \in Visible \ page : catalog[v] <= catalog[s]}

\* Faulty variant: the search is not sorted.
Newest_Unsorted(page) == page

Newest(page) == {s \in page : \A t \in page : catalog[t] <= catalog[s]}

\* scenes[0], and the first of the others whose date differs.
PairsOf(page) ==
    UNION {LET others == {s \in page : catalog[s] # catalog[a]} IN
           {[before |-> <<b, catalog[b]>>, after |-> <<a, catalog[a]>>] :
               b \in Newest(others)} : a \in Newest(page)}

Evaluate(e) ==
    /\ e \in events
    /\ events' = events \ {e}
    /\ \E page \in Pages :
         \/ /\ Cardinality(page) < 2
            /\ answer' = "too_few" /\ UNCHANGED compared
         \/ /\ Cardinality(page) >= 2 /\ PairsOf(page) = {}
            /\ answer' = "no_earlier" /\ UNCHANGED compared
         \/ /\ \E pair \in PairsOf(page) : compared' = compared \cup {pair}
            /\ answer' = "pair"
    /\ UNCHANGED <<collection, catalog, pc, at, landed, failed, missed>>

\* The status of the search is not looked at: an error with a body in JSON reads
\* as an answer without scenes.
SearchFails(e) ==
    /\ "catalog" \in Faults
    /\ e \in events
    /\ events' = events \ {e}
    /\ answer' \in {"error", "too_few"}
    /\ missed' = TRUE
    /\ UNCHANGED <<collection, catalog, pc, at, landed, failed, compared>>

-----------------------------------------------------------------------------

Work(c) ==
    \/ CheckCollection(c) \/ PostCollection(c) \/ PutCollection(c) \/ NextRaster(c)
    \/ BuildProfile(c) \/ PostItem(c) \/ PutItem(c) \/ Notify(c)

Next ==
    \/ \E c \in Call : Ingest(c) \/ Work(c)
    \/ \E e \in events : Evaluate(e) \/ SearchFails(e)

Spec == Init /\ [][Next]_vars

\* Every call of the worker returns or times out, and goroutines are scheduled.
FairSpec ==
    /\ Spec
    /\ \A c \in Call : WF_vars(Work(c))
    /\ WF_vars(\E e \in events : Evaluate(e) \/ SearchFails(e))

-----------------------------------------------------------------------------
(* Properties *)

\* The counts a call returns are true: every raster of the source is counted
\* once, and one that is counted as ingested is in the catalog, however calls
\* meet on an item and whichever requests fail (ingest_source and upsert_item).
CountsAreTrue ==
    \A c \in Call :
      /\ \A n \in landed[c] : catalog[Source[c][n]] # 0
      /\ landed[c] \cap failed[c] = {}
      /\ pc[c] = "ok" => landed[c] \cup failed[c] = 1..Len(Source[c])

\* An evaluation compares the newest clear scene with the newest clear one of those
\* of another, earlier date, as the catalog is when it searches it, however many
\* scenes share a date, whatever the clouds of the newest and whatever ingests are
\* under way (evaluateWatchArea).
PairsAreNewest ==
    [][\A pair \in compared' \ compared :
         LET old == pair.before[2]
             new == pair.after[2] IN
         /\ {pair.before[1], pair.after[1]} \subseteq Clear
         /\ old < new
         /\ \A s \in Clear : /\ catalog[s] <= new
                            /\ catalog[s] < new => catalog[s] <= old]_vars

\* Detection on ingest misses nothing: unless a notification, the reply to an
\* upsert or a search was lost, in the end the pair a search would choose has
\* been compared, in whatever order concurrent ingests stored their items and
\* the background evaluations ran (the notification follows the upsert).
NewestPairIsCompared ==
    <>[](missed \/ \A page \in Pages :
           PairsOf(page) # {} => \E p \in Pages : PairsOf(p) \cap compared # {})
=============================================================================
