---------------------------- MODULE ModelRouter -----------------------------
(***************************************************************************)
(* One detection request in the ai-worker (detect.py, models/router.py,    *)
(* models/registry.py): the pair of scenes is read, a backend is resolved  *)
(* for each requested tag, every chosen backend runs once for its tags,    *)
(* and a backend that raises is replaced by the heuristic one.             *)
(*                                                                         *)
(* Requests share no state but what is installed on the host (modules and  *)
(* weights), which may change while a request is served, so one request is *)
(* modelled.  Of an image the model keeps which classes a backend finds.   *)
(***************************************************************************)
EXTENDS Naturals, Sequences, FiniteSets

CONSTANTS
    Backend,      \* BACKENDS of the registry
    Heuristic,    \* FALLBACK
    Tag,          \* change classes
    Declared,     \* the tags each backend declares, "change" and "custom" included
    Tier,         \* its runtime
    Rank,
    Gated,        \* backends that need modules or weights on the host
    Inactive,     \* adapters whose run() only raises
    Construction,     \* CATEGORY_TAGS["construction"]
    UrbanClasses,     \* what the heuristic labels in urban mode
    StandardClasses,  \* and otherwise
    Request,      \* [tags, models, cloud, urban]
    Star,         \* the key of the provenance of a request without tags
    Null

ASSUME RouterAssumption ==
    /\ Heuristic \in Backend \ (Gated \cup Inactive)
    /\ Declared \in [Backend -> SUBSET (Tag \cup {"change", "custom"})]
    /\ Tier \in [Backend -> {"gpu", "cloud", "cpu", "index"}]
    /\ Tier[Heuristic] # "cloud"
    /\ Rank \in [Backend -> Nat]
    /\ \A b, c \in Backend : Rank[b] = Rank[c] => b = c
    /\ IsFiniteSet(Backend)
    /\ Gated \subseteq Backend /\ Inactive \subseteq Backend
    /\ UrbanClasses \subseteq Tag /\ StandardClasses \subseteq Tag
    /\ Request \subseteq [tags : Seq(Tag), models : [Tag -> Backend \cup {Null}],
                          cloud : BOOLEAN, urban : BOOLEAN]
    /\ Star \notin Tag
    /\ Null \notin Backend \cup Request \cup [by : Backend, fallback : BOOLEAN]

VARIABLES
    installed,   \* gated backends whose requirements are met
    phase,       \* where the request is
    req,         \* the request
    left,        \* tags yet to be resolved
    groups,      \* backend_tags
    todo,        \* backends yet to be run
    provenance,  \* [by, fallback] of each tag
    features,    \* [cls, stamp] of the features kept, and by: who found them
    status,      \* what the caller gets
    served,      \* history: backends whose output was taken for a tag
    called,      \* history: backends whose run() was called
    raised       \* history: backends whose run() raised

vars == <<installed, phase, req, left, groups, todo, provenance, features, status,
          served, called, raised>>

Source == [by : Backend, fallback : BOOLEAN] \cup {Null}

TypeOK ==
    /\ installed \subseteq Gated
    /\ phase \in {"idle", "read", "legacy", "resolve", "run", "done"}
    /\ req \in Request \cup {Null}
    /\ left \in Seq(Tag)
    /\ groups \in [Backend -> SUBSET Tag]
    /\ todo \subseteq Backend
    /\ provenance \in [Tag \cup {Star} -> Source]
    /\ features \subseteq [cls : Tag, stamp : Backend, by : Backend]
    /\ status \in {"none", "ok", "failed"}
    /\ served \in [Tag -> SUBSET Backend]
    /\ called \subseteq Backend
    /\ raised \subseteq Backend

Init ==
    /\ installed \in SUBSET Gated
    /\ phase = "idle"
    /\ req = Null
    /\ left = <<>>
    /\ groups = [b \in Backend |-> {}]
    /\ todo = {}
    /\ provenance = [t \in Tag \cup {Star} |-> Null]
    /\ features = {}
    /\ status = "none"
    /\ served = [t \in Tag |-> {}]
    /\ called = {}
    /\ raised = {}

-----------------------------------------------------------------------------
(* The registry *)

Available(b) == b \notin Gated \/ b \in installed

Usable(b) == Available(b) /\ (req.cloud \/ Tier[b] # "cloud")

Covers(b, t) == Declared[b] \cap {t, "change", "custom"} # {}

Candidates(t) == {b \in Backend : Covers(b, t) /\ Usable(b)}

\* Faulty variant: a preference overrides the consent.
Preferred_AnyTier(t) ==
    LET b == req.models[t] IN IF b # Null /\ Available(b) THEN b ELSE Null

\* A preferred backend is taken if it can be used, whatever tags it declares.
Preferred(t) ==
    LET b == req.models[t] IN IF b # Null /\ Usable(b) THEN b ELSE Null

Best(t) ==
    CHOOSE b \in Candidates(t) : \A c \in Candidates(t) : Rank[c] <= Rank[b]

\* Faulty variant: no floor below the candidates.
Resolved_NoFloor(t) ==
    IF Preferred(t) # Null THEN Preferred(t)
    ELSE IF Candidates(t) # {} THEN Best(t) ELSE Null

Resolved(t) ==
    IF Preferred(t) # Null THEN Preferred(t)
    ELSE IF Candidates(t) # {} THEN Best(t) ELSE Heuristic

\* The labels a backend may give when it is run for some tags.
HeuristicClasses(urban) == IF urban THEN UrbanClasses ELSE StandardClasses

Emits(b, tags) ==
    IF b = Heuristic THEN HeuristicClasses(tags \cap Construction # {})
                     ELSE Declared[b] \cap Tag

\* Faulty variant: whatever the backend found is kept.
Kept_All(out, b, by) == {[cls |-> c, stamp |-> b, by |-> by] : c \in out}

\* Faulty variant: the tags of the whole request are kept.
Kept_AnyRequested(out, b, by) ==
    {[cls |-> c, stamp |-> b, by |-> by] : c \in out \cap UNION {groups[d] : d \in Backend}}

\* Only the tags routed to the backend are kept; the stamp is its name.
Kept(out, b, by) ==
    {[cls |-> c, stamp |-> b, by |-> by] : c \in out \cap groups[b]}

Served(b, by) ==
    served' = [t \in Tag |-> IF t \in groups[b] THEN served[t] \cup {by} ELSE served[t]]

-----------------------------------------------------------------------------
(* The request *)

Receive ==
    /\ phase = "idle"
    /\ \E q \in Request : req' = q /\ left' = q.tags
    /\ phase' = "read"
    /\ UNCHANGED <<installed, groups, todo, provenance, features, status, served, called,
                   raised>>

Fail ==
    /\ status' = "failed"
    /\ phase' = "done"

\* read_pair: no geometry, a scene that cannot be resolved or opened: 400 or 502.
ReadPair ==
    /\ phase = "read"
    /\ \/ phase' = (IF left = <<>> THEN "legacy" ELSE "resolve") /\ UNCHANGED status
       \/ Fail
    /\ UNCHANGED <<installed, req, left, groups, todo, provenance, features, served,
                   called, raised>>

\* Without tags the heuristic runs once, in the mode the request asks for.
LegacyRun ==
    /\ phase = "legacy"
    /\ called' = called \cup {Heuristic}
    /\ \/ /\ \E out \in SUBSET HeuristicClasses(req.urban) :
               features' = {[cls |-> c, stamp |-> Heuristic, by |-> Heuristic] : c \in out}
          /\ provenance' = [provenance EXCEPT ![Star] = [by |-> Heuristic, fallback |-> FALSE]]
          /\ phase' = "done" /\ status' = "ok"
          /\ UNCHANGED raised
       \/ /\ Fail
          /\ raised' = raised \cup {Heuristic}
          /\ UNCHANGED <<features, provenance>>
    /\ UNCHANGED <<installed, req, left, groups, todo, served>>

Resolve ==
    /\ phase = "resolve"
    /\ LET t == Head(left)
           b == Resolved(t) IN
       /\ groups' = [groups EXCEPT ![b] = @ \cup {t}]
       /\ todo' = todo \cup {b}
       /\ provenance' = [provenance EXCEPT ![t] = [by |-> b, fallback |-> FALSE]]
    /\ left' = Tail(left)
    /\ phase' = IF Tail(left) = <<>> THEN "run" ELSE "resolve"
    /\ UNCHANGED <<installed, req, features, status, served, called, raised>>

RunBackend(b) ==
    /\ phase = "run"
    /\ b \in todo \ Inactive
    /\ todo' = todo \ {b}
    /\ called' = called \cup {b}
    /\ \E out \in SUBSET Emits(b, groups[b]) : features' = features \cup Kept(out, b, b)
    /\ Served(b, b)
    /\ UNCHANGED <<installed, phase, req, left, groups, provenance, status, raised>>

\* Faulty variant: an exception of a backend ends the request.
FallBack_Sunk(b) ==
    /\ phase = "run"
    /\ b \in todo
    /\ called' = called \cup {b}
    /\ raised' = raised \cup {b}
    /\ Fail
    /\ UNCHANGED <<installed, req, left, groups, todo, provenance, features, served>>

\* "A backend failure must not sink the whole run": the heuristic runs instead,
\* in the same iteration; the stamp stays that of the backend that raised.
FallBack(b) ==
    /\ phase = "run"
    /\ b \in todo
    /\ todo' = todo \ {b}
    /\ called' = called \cup {b, Heuristic}
    /\ raised' = raised \cup {b}
    /\ \E out \in SUBSET Emits(Heuristic, groups[b]) :
          features' = features \cup Kept(out, b, Heuristic)
    /\ Served(b, Heuristic)
    /\ provenance' =
          [t \in DOMAIN provenance |->
             IF t \in groups[b] THEN [by |-> Heuristic, fallback |-> TRUE]
                                ELSE provenance[t]]
    /\ UNCHANGED <<installed, phase, req, left, groups, status>>

\* The heuristic raises too, and nothing catches it.
FallBackRaises(b) ==
    /\ phase = "run"
    /\ b \in todo
    /\ called' = called \cup {b, Heuristic}
    /\ raised' = raised \cup {b, Heuristic}
    /\ Fail
    /\ UNCHANGED <<installed, req, left, groups, todo, provenance, features, served>>

Answer ==
    /\ phase = "run"
    /\ todo = {}
    /\ phase' = "done"
    /\ status' = "ok"
    /\ UNCHANGED <<installed, req, left, groups, todo, provenance, features, served,
                   called, raised>>

\* Weights are mounted or unmounted, a module is installed.
HostChanges(b) ==
    /\ phase # "done"
    /\ installed' \in {installed \cup {b}, installed \ {b}}
    /\ UNCHANGED <<phase, req, left, groups, todo, provenance, features, status, served,
                   called, raised>>

-----------------------------------------------------------------------------

Next ==
    \/ Receive \/ ReadPair \/ LegacyRun \/ Resolve \/ Answer
    \/ \E b \in Backend : RunBackend(b) \/ FallBack(b) \/ FallBackRaises(b)
    \/ \E b \in Gated : HostChanges(b)

Spec == Init /\ [][Next]_vars

-----------------------------------------------------------------------------
(* Properties *)

Tags == {req.tags[i] : i \in 1..Len(req.tags)}

Unrepeated == \A i, j \in 1..Len(req.tags) : req.tags[i] = req.tags[j] => i = j

\* A request for some tags gets features of these tags only, from whichever
\* backend, the replacement of a failed one included (route_and_run's filter).
\* The control plane relies on it when an area alerts on some classes only.
OnlyRequestedTags ==
    req # Null /\ req.tags # <<>> => \A f \in features : f.cls \in Tags

\* The provenance of an answer is true: the output of exactly one backend was
\* taken for each requested tag, the backend that provenance names, and all the
\* features of the tag are its own, however backends fail and the host changes
\* ("which model actually produced each tag", schemas.py).  A request that names
\* a tag twice is left out: each time may resolve to a backend of its own, of
\* which provenance names the last.
ProvenanceIsTrue ==
    status = "ok" /\ req.tags # <<>> /\ Unrepeated =>
      /\ \A t \in Tags : provenance[t] # Null /\ served[t] = {provenance[t].by}
      /\ \A f \in features : f.by = provenance[f.cls].by

\* No cloud model runs for a request that does not allow it, be it preferred,
\* the best of its rank, or available only since the request began.
CloudNeedsConsent ==
    \A b \in called : Tier[b] = "cloud" => req.cloud

\* A run is sunk only by its scenes or by the heuristic itself: a failure of any
\* other backend is answered by the fallback (router.py: "must not sink").
FailuresAreContained ==
    status = "failed" => called = {} \/ Heuristic \in raised
=============================================================================
