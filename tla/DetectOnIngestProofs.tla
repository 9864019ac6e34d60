------------------------ MODULE DetectOnIngestProofs ------------------------
(***************************************************************************)
(* Safety of the ingest and of the choice of a pair, for any number of     *)
(* calls, scenes and dates, any sources that meet on any scenes, any limit *)
(* of a search and any faults.                                             *)
(***************************************************************************)
EXTENDS DetectOnIngest, TLAPS

-----------------------------------------------------------------------------
(* The counts *)

\* Where a call is says which rasters it has counted: none before the loop, those
\* before the one it is at while it works on that, and that one as well once it is
\* stored or skipped.
CountsGo(c) ==
    /\ landed[c] \cap failed[c] = {}
    /\ pc[c] \in {"idle", "exists", "post", "put"} =>
         at[c] = 0 /\ landed[c] = {} /\ failed[c] = {}
    /\ pc[c] \in {"profile", "post_item", "put_item"} =>
         at[c] >= 1 /\ landed[c] \cup failed[c] = 1 .. (at[c] - 1)
    /\ pc[c] = "notify" => at[c] >= 1
    /\ pc[c] \in {"notify", "list", "ok"} => landed[c] \cup failed[c] = 1 .. at[c]
    /\ pc[c] = "ok" => at[c] = Len(Source[c])
    /\ landed[c] \subseteq 1 .. Len(Source[c])

\* An item once stored is never gone: what was counted as ingested is in the catalog.
LandedAreStored == \A c \in Call : \A n \in landed[c] : catalog[Source[c][n]] # 0

Inv == TypeOK /\ LandedAreStored /\ \A c \in Call : CountsGo(c)

LEMMA SourceIsFinite == \A c \in Call : Len(Source[c]) \in Nat
  BY IngestAssumption

LEMMA InitInv == Init => Inv
<1> SUFFICES ASSUME Init PROVE Inv
  OBVIOUS
<1>1. TypeOK
  <2>1. \A c \in Call : at[c] <= Len(Source[c])
    BY SourceIsFinite DEF Init
  <2>2. QED
    BY <2>1 DEF Init, TypeOK, Phase
<1>2. LandedAreStored /\ \A c \in Call : CountsGo(c)
  BY DEF Init, LandedAreStored, CountsGo
<1>3. QED
  BY <1>1, <1>2 DEF Inv

\* The raster a call works on is one of its source, and what it would store of it
\* has a date.
LEMMA ItemIsScene ==
    ASSUME Inv, NEW c \in Call, pc[c] \in {"profile", "post_item", "put_item", "notify"}
    PROVE  /\ at[c] \in 1 .. Len(Source[c]) /\ Item(c) \in Scene
           /\ Date[c][Item(c)] \in Nat \ {0}
  BY IngestAssumption DEF Inv, TypeOK, CountsGo, Item

\* A step of one call that does not store or count leaves the counts of all true.
LEMMA OthersKeepCounts ==
    ASSUME Inv, NEW c \in Call,
           UNCHANGED <<catalog, landed, failed>>,
           \A d \in Call \ {c} : pc'[d] = pc[d] /\ at'[d] = at[d],
           CountsGo(c)'
    PROVE  LandedAreStored' /\ \A d \in Call : CountsGo(d)'
<1>1. LandedAreStored'
  BY DEF Inv, LandedAreStored
<1>2. ASSUME NEW d \in Call, d # c PROVE CountsGo(d)'
  BY <1>2 DEF Inv, CountsGo
<1>3. QED
  BY <1>1, <1>2

\* The collection is made sure of before anything is counted, and the loop goes from
\* one raster to the next when it has counted the one it was at.
LEMMA BetweenRasters ==
    ASSUME Inv, NEW c \in Call,
           Ingest(c) \/ CheckCollection(c) \/ PostCollection(c) \/ PutCollection(c)
             \/ NextRaster(c)
    PROVE  Inv'
<1> USE DEF Inv
<1>1. CASE Ingest(c) \/ CheckCollection(c) \/ PostCollection(c) \/ PutCollection(c)
  <2>1. /\ pc[c] \in {"idle", "exists", "post", "put"}
        /\ pc'[c] \in {"exists", "post", "put", "list", "error"}
        /\ pc' \in [Call -> Phase] /\ collection' \in BOOLEAN
        /\ \A d \in Call \ {c} : pc'[d] = pc[d]
        /\ UNCHANGED <<catalog, at, landed, failed, events, compared, answer, missed>>
    BY <1>1 DEF Ingest, CheckCollection, PostCollection, PutCollection, Goto, TypeOK, Phase
  <2>2. TypeOK'
    BY <2>1 DEF TypeOK
  <2>3. CountsGo(c)'
    BY <2>1 DEF CountsGo
  <2>4. QED
    BY <2>1, <2>2, <2>3, OthersKeepCounts
<1>2. CASE NextRaster(c)
  <2>1. /\ pc[c] = "list" /\ pc' \in [Call -> Phase]
        /\ \/ /\ at[c] < Len(Source[c]) /\ at' = [at EXCEPT ![c] = @ + 1]
              /\ pc'[c] = "profile"
           \/ at' = at /\ at[c] = Len(Source[c]) /\ pc'[c] = "ok"
           \/ at' = at /\ pc'[c] = "error"
        /\ \A d \in Call \ {c} : pc'[d] = pc[d]
        /\ UNCHANGED <<collection, catalog, landed, failed, events, compared, answer,
                       missed>>
    BY <1>2 DEF NextRaster, Goto, TypeOK, Phase
  <2>2. Len(Source[c]) \in Nat
    BY IngestAssumption
  <2>3. TypeOK'
    <3>1. at' \in [Call -> Nat] /\ \A d \in Call : at'[d] <= Len(Source[d])
      <4>1. CASE at[c] < Len(Source[c]) /\ at' = [at EXCEPT ![c] = @ + 1]
        <5>1. at' \in [Call -> Nat] /\ at'[c] <= Len(Source[c])
          BY <2>2, <4>1 DEF TypeOK
        <5>2. \A d \in Call \ {c} : at'[d] <= Len(Source[d])
          BY <4>1 DEF TypeOK
        <5>3. QED
          BY <5>1, <5>2
      <4>2. CASE at' = at
        BY <4>2 DEF TypeOK
      <4>3. QED
        BY <2>1, <4>1, <4>2
    <3>2. QED
      BY <2>1, <3>1 DEF TypeOK
  <2>4. CountsGo(c)'
    BY <2>1, <2>2 DEF CountsGo, TypeOK
  <2>5. \A d \in Call \ {c} : at'[d] = at[d]
    BY <2>1 DEF TypeOK
  <2>6. QED
    BY <2>1, <2>3, <2>4, <2>5, OthersKeepCounts
<1>3. QED
  BY <1>1, <1>2

\* A raster is stored or skipped (upsert_item and the handler of its exceptions):
\* it is counted once, as ingested only when it has been stored.
LEMMA OneRaster ==
    ASSUME Inv, NEW c \in Call,
           BuildProfile(c) \/ PostItem(c) \/ PutItem(c) \/ Notify(c)
    PROVE  Inv'
<1> USE DEF Inv
<1> DEFINE s == Item(c)
           stored == catalog' = [catalog EXCEPT ![s] = Date[c][s]]
           counts == landed' = [landed EXCEPT ![c] = @ \cup {at[c]}] /\ failed' = failed
           skips  == failed' = [failed EXCEPT ![c] = @ \cup {at[c]}] /\ landed' = landed
<1>1. /\ pc[c] \in {"profile", "post_item", "put_item", "notify"}
      /\ pc' \in [Call -> Phase] /\ \A d \in Call \ {c} : pc'[d] = pc[d]
      /\ missed' \in BOOLEAN /\ events' \subseteq Call \X Nat
      /\ UNCHANGED <<collection, at, compared, answer>>
  <2>1. CASE BuildProfile(c) \/ Notify(c)
    <3>1. /\ pc[c] \in {"profile", "notify"}
          /\ UNCHANGED <<collection, at, compared, answer>>
          /\ missed' \in {missed, TRUE} /\ events' \in {events, events \cup {<<c, at[c]>>}}
      BY <2>1 DEF BuildProfile, Notify
    <3>2. \E p \in {"post_item", "list"} : Goto(c, p)
      BY <2>1 DEF BuildProfile, Notify, Skip
    <3>3. pc' \in [Call -> Phase] /\ \A d \in Call \ {c} : pc'[d] = pc[d]
      BY <3>2 DEF Goto, TypeOK, Phase
    <3>4. <<c, at[c]>> \in Call \X Nat
      BY DEF TypeOK
    <3>5. QED
      BY <3>1, <3>3, <3>4 DEF TypeOK
  <2>2. CASE PostItem(c) \/ PutItem(c)
    <3>1. /\ pc[c] \in {"post_item", "put_item"}
          /\ UNCHANGED <<collection, at, events, compared, answer>>
      BY <2>2 DEF PostItem, PutItem
    <3>2. missed' \in BOOLEAN
      BY <2>2 DEF PostItem, PutItem, StoreItem, TypeOK
    <3>3. \E p \in {"notify", "list", "put_item"} : Goto(c, p)
      BY <2>2 DEF PostItem, PutItem, StoreItem, Skip
    <3>4. pc' \in [Call -> Phase] /\ \A d \in Call \ {c} : pc'[d] = pc[d]
      BY <3>3 DEF Goto, TypeOK, Phase
    <3>5. QED
      BY <3>1, <3>2, <3>4 DEF TypeOK
  <2>3. QED
    BY <2>1, <2>2
<1>2. /\ at[c] \in 1 .. Len(Source[c]) /\ s \in Scene /\ Date[c][s] \in Nat \ {0}
      /\ Source[c][at[c]] = s /\ Len(Source[c]) \in Nat
  BY <1>1, ItemIsScene, IngestAssumption DEF Item
<1>3. /\ catalog' \in [Scene -> Nat]
      /\ \A t \in Scene : catalog[t] # 0 => catalog'[t] # 0
  <2>1. stored \/ catalog' = catalog
    BY DEF BuildProfile, PostItem, PutItem, Notify, StoreItem, Store
  <2>2. QED
    BY <1>2, <2>1 DEF TypeOK
<1>4. \/ /\ pc[c] \in {"profile", "post_item", "put_item"} /\ pc'[c] = "notify"
         /\ stored /\ counts
      \/ /\ pc[c] \in {"profile", "post_item", "put_item"} /\ pc'[c] = "list" /\ skips
      \/ /\ pc[c] \in {"profile", "post_item"} /\ pc'[c] \in {"post_item", "put_item"}
         /\ UNCHANGED <<landed, failed>>
      \/ pc[c] = "notify" /\ pc'[c] = "list" /\ UNCHANGED <<landed, failed>>
  BY DEF BuildProfile, PostItem, PutItem, Notify, StoreItem, Store, Count, Skip, Goto, TypeOK
<1>5. TypeOK'
  <2>1. landed' \in [Call -> SUBSET Nat] /\ failed' \in [Call -> SUBSET Nat]
    <3>1. at[c] \in Nat /\ landed[c] \subseteq Nat /\ failed[c] \subseteq Nat
      BY DEF TypeOK
    <3>2. landed \in [Call -> SUBSET Nat] /\ failed \in [Call -> SUBSET Nat]
      BY DEF TypeOK
    <3>3. counts \/ skips \/ UNCHANGED <<landed, failed>>
      BY <1>4
    <3> HIDE DEF Inv
    <3>4. QED
      BY <3>1, <3>2, <3>3
  <2>2. QED
    BY <1>1, <1>3, <2>1 DEF TypeOK
<1>6. \A d \in Call : landed[d] \subseteq 1 .. Len(Source[d])
                      /\ \A n \in landed[d] : Source[d][n] \in Scene
  BY IngestAssumption DEF CountsGo
<1>7. LandedAreStored'
  <2>1. ASSUME NEW d \in Call, NEW n \in landed[d] PROVE catalog'[Source[d][n]] # 0
    BY <1>3, <1>6 DEF LandedAreStored
  <2>2. CASE counts /\ stored
    <3>1. catalog'[Source[c][at[c]]] # 0
      BY <1>2, <2>2 DEF TypeOK
    <3>2. QED
      BY <2>1, <2>2, <3>1 DEF LandedAreStored, TypeOK
  <2>3. CASE landed' = landed
    BY <2>1, <2>3 DEF LandedAreStored
  <2>4. QED
    BY <1>4, <2>2, <2>3
<1>8. ASSUME NEW d \in Call, d # c PROVE CountsGo(d)'
  <2>1. landed'[d] = landed[d] /\ failed'[d] = failed[d] /\ pc'[d] = pc[d]
    BY <1>1, <1>4, <1>8 DEF TypeOK
  <2>2. QED
    BY <1>1, <2>1 DEF CountsGo
<1>9. CountsGo(c)'
  <2>1. CASE counts /\ pc[c] \in {"profile", "post_item", "put_item"} /\ pc'[c] = "notify"
    <3>1. landed'[c] = landed[c] \cup {at[c]} /\ failed'[c] = failed[c]
      BY <2>1 DEF TypeOK
    <3>2. QED
      BY <1>1, <1>2, <2>1, <3>1 DEF CountsGo
  <2>2. CASE skips /\ pc[c] \in {"profile", "post_item", "put_item"} /\ pc'[c] = "list"
    <3>1. failed'[c] = failed[c] \cup {at[c]} /\ landed'[c] = landed[c]
      BY <2>2 DEF TypeOK
    <3>2. QED
      BY <1>1, <1>2, <2>2, <3>1 DEF CountsGo
  <2>3. CASE /\ UNCHANGED <<landed, failed>>
             /\ \/ /\ pc[c] \in {"profile", "post_item"}
                   /\ pc'[c] \in {"post_item", "put_item"}
                \/ pc[c] = "notify" /\ pc'[c] = "list"
    BY <1>1, <1>2, <2>3 DEF CountsGo
  <2>4. QED
    BY <1>4, <2>1, <2>2, <2>3
<1>10. QED
  BY <1>5, <1>7, <1>8, <1>9

-----------------------------------------------------------------------------
(* The choice of the pair *)

\* The scenes of a page are in the catalog, and none left out is newer than one of
\* them, whatever the limit cut off and however ties were broken.
LEMMA PageIsNewest ==
    ASSUME NEW page \in Pages
    PROVE  /\ page \subseteq Visible /\ Visible \subseteq Scene
           /\ \A s \in page, v \in Visible \ page : catalog[v] <= catalog[s]
  BY IngestAssumption DEF Pages, Visible

\* The first scene of a page and the first of another date are the newest of the
\* whole catalog, though only the page was looked at.
LEMMA PairIsNewest ==
    ASSUME TypeOK, NEW page \in Pages, NEW pair \in PairsOf(page)
    PROVE  LET old == pair.before[2]
               new == pair.after[2] IN
           /\ {pair.before[1], pair.after[1]} \subseteq Clear
           /\ old < new
           /\ \A s \in Clear : /\ catalog[s] <= new
                              /\ catalog[s] < new => catalog[s] <= old
<1>1. PICK a \in Newest(page) :
        LET others == {s \in page : catalog[s] # catalog[a]} IN
        \E b \in Newest(others) :
           pair = [before |-> <<b, catalog[b]>>, after |-> <<a, catalog[a]>>]
  BY DEF PairsOf
<1> DEFINE others == {s \in page : catalog[s] # catalog[a]}
<1>2. PICK b \in Newest(others) :
        pair = [before |-> <<b, catalog[b]>>, after |-> <<a, catalog[a]>>]
  BY <1>1
<1>3. pair.before = <<b, catalog[b]>> /\ pair.after = <<a, catalog[a]>>
  BY <1>2
<1>4. /\ a \in page /\ \A t \in page : catalog[t] <= catalog[a]
      /\ b \in page /\ catalog[b] # catalog[a]
      /\ \A t \in page : catalog[t] # catalog[a] => catalog[t] <= catalog[b]
  BY DEF Newest
<1>5. /\ page \subseteq Scene /\ \A s \in Scene : catalog[s] \in Nat
      /\ \A v \in Visible \ page : catalog[v] <= catalog[a] /\ catalog[v] <= catalog[b]
  BY <1>4, PageIsNewest DEF TypeOK
<1>6. catalog[b] < catalog[a]
  BY <1>4, <1>5
<1>7. ASSUME NEW v \in Clear
      PROVE  /\ catalog[v] <= catalog[a]
             /\ catalog[v] < catalog[a] => catalog[v] <= catalog[b]
  <2>1. catalog[v] \in Nat
    BY IngestAssumption DEF TypeOK
  <2>2. CASE v \in page
    BY <1>4, <1>5, <2>1, <2>2
  <2>3. CASE v \notin page /\ catalog[v] # 0
    BY <1>5, <2>3 DEF Visible
  <2>4. CASE catalog[v] = 0
    BY <1>4, <1>5, <2>4
  <2>5. QED
    BY <2>2, <2>3, <2>4
<1>8. {a, b} \subseteq Clear
  BY <1>4, PageIsNewest DEF Visible
<1>9. QED
  BY <1>3, <1>6, <1>7, <1>8

\* What is handed to the detection is two scenes with the dates they have now.
LEMMA PairTyped ==
    ASSUME TypeOK, NEW page \in Pages
    PROVE  PairsOf(page) \subseteq [before : Dated, after : Dated]
<1>1. page \subseteq Scene
  BY PageIsNewest
<1>2. QED
  BY <1>1 DEF PairsOf, Newest, Dated, TypeOK

LEMMA EvaluationInv ==
    ASSUME Inv, NEW e \in events, Evaluate(e) \/ SearchFails(e)
    PROVE  Inv'
<1> USE DEF Inv
<1>1. UNCHANGED <<collection, catalog, pc, at, landed, failed>>
  BY DEF Evaluate, SearchFails
<1>2. /\ events' \subseteq Call \X Nat /\ missed' \in BOOLEAN
      /\ answer' \in {"none", "too_few", "no_earlier", "pair", "error"}
  BY DEF Evaluate, SearchFails, TypeOK
<1>3. compared' \subseteq [before : Dated, after : Dated]
  <2>1. CASE Evaluate(e)
    BY <2>1, PairTyped DEF Evaluate, TypeOK
  <2>2. CASE SearchFails(e)
    BY <2>2 DEF SearchFails, TypeOK
  <2>3. QED
    BY <2>1, <2>2
<1>4. TypeOK'
  BY <1>1, <1>2, <1>3 DEF TypeOK
<1>5. QED
  BY <1>1, <1>4 DEF LandedAreStored, CountsGo

-----------------------------------------------------------------------------
(* The theorems *)

LEMMA NextInv == Inv /\ [Next]_vars => Inv'
<1> SUFFICES ASSUME Inv, [Next]_vars PROVE Inv'
  OBVIOUS
<1>1. CASE UNCHANGED vars
  BY <1>1 DEF vars, Inv, TypeOK, LandedAreStored, CountsGo
<1>2. CASE Next
  BY <1>2, BetweenRasters, OneRaster, EvaluationInv DEF Next, Work
<1>3. QED
  BY <1>1, <1>2

LEMMA IngestInvariant == Spec => []Inv
  BY InitInv, NextInv, PTL DEF Spec

\* The state of the calls, the catalog and the evaluations is typed; no call reads
\* beyond the end of its source (the loop of ingest_source).
THEOREM StateTyped == Spec => []TypeOK
<1>1. Inv => TypeOK
  BY DEF Inv
<1>2. QED
  BY <1>1, IngestInvariant, PTL

\* What a call answers is true: each raster is counted once, and one counted as
\* ingested is in the catalog (ingest_source and upsert_item).
THEOREM CountsTrue == Spec => []CountsAreTrue
<1>1. Inv => CountsAreTrue
  BY DEF Inv, LandedAreStored, CountsGo, CountsAreTrue
<1>2. QED
  BY <1>1, IngestInvariant, PTL

\* An evaluation hands over the newest scene and the newest of an earlier date
\* (searchScenes and the choice of the pair in evaluateWatchArea).
THEOREM NewestHandedOver == Spec => PairsAreNewest
<1> DEFINE TwoNewest(pair) ==
             LET old == pair.before[2]
                 new == pair.after[2] IN
             /\ {pair.before[1], pair.after[1]} \subseteq Clear
             /\ old < new
             /\ \A s \in Clear : /\ catalog[s] <= new
                                /\ catalog[s] < new => catalog[s] <= old
<1>1. Inv /\ [Next]_vars => [\A pair \in compared' \ compared : TwoNewest(pair)]_vars
  <2> SUFFICES ASSUME Inv, Next, NEW pair \in compared' \ compared
               PROVE  TwoNewest(pair)
    OBVIOUS
  <2>1. PICK e \in events : Evaluate(e)
    BY DEF Next, Work, Ingest, CheckCollection, PostCollection, PutCollection, NextRaster,
       BuildProfile, PostItem, PutItem, Notify, SearchFails
  <2>2. PICK page \in Pages : pair \in PairsOf(page)
    BY <2>1 DEF Evaluate
  <2>3. QED
    BY <2>2, PairIsNewest DEF Inv
<1>2. QED
  BY <1>1, IngestInvariant, PTL DEF Spec, PairsAreNewest
=============================================================================
