------------------------- MODULE ModelRouterProofs --------------------------
(***************************************************************************)
(* Proofs about ModelRouter, for any registry, any requests and any        *)
(* failures of the backends and changes of the host.                       *)
(***************************************************************************)
EXTENDS ModelRouter, SequenceTheorems, FiniteSetTheorems, WellFoundedInduction, TLAPS

\* What each phase knows.
Phased ==
    /\ req = Null <=> phase = "idle"
    /\ phase \in {"idle", "read", "legacy"} =>
          todo = {} /\ groups = [b \in Backend |-> {}]
    /\ phase \in {"idle", "read", "legacy", "resolve"} =>
          /\ features = {} /\ called = {}
          /\ served = [t \in Tag |-> {}]
    /\ phase \in {"read", "legacy", "resolve", "run"} => status = "none"
    /\ phase = "idle" => left = <<>> /\ status = "none"
    /\ phase = "read" => left = req.tags
    /\ phase = "legacy" => req.tags = <<>> /\ left = <<>>
    /\ phase = "resolve" => left # <<>>
    /\ phase = "run" => left = <<>>
    /\ phase \in {"resolve", "run"} => req.tags # <<>>
    /\ status = "ok" => todo = {} /\ left = <<>>

\* The tags yet to be resolved are the last of the request, and each of the
\* others has been given to a backend.
Halfway(n) ==
    /\ Len(left) = Len(req.tags) - n
    /\ \A i \in 1..Len(left) : left[i] = req.tags[i + n]
    /\ \A i \in 1..n : \E b \in Backend : req.tags[i] \in groups[b]
    /\ \A b \in Backend : \A t \in groups[b] : \E i \in 1..n : req.tags[i] = t

Resolving == req # Null => \E n \in 0..Len(req.tags) : Halfway(n)

\* No tag is in two groups.
Partition ==
    req # Null /\ Unrepeated =>
      \A b, c \in Backend : groups[b] \cap groups[c] # {} => b = c

\* A backend yet to be run: nothing was found for its tags.
Untouched(b) ==
    \A t \in groups[b] :
      /\ served[t] = {}
      /\ \A f \in features : f.cls # t

\* One that has run: the provenance of its tags says whose output was taken.
Attributed(b) ==
    \A t \in groups[b] :
      /\ provenance[t] # Null
      /\ served[t] = {provenance[t].by}
      /\ \A f \in features : f.cls = t => f.by = provenance[t].by

Outcomes ==
    req # Null /\ Unrepeated =>
      /\ \A b \in todo : /\ Untouched(b)
                         /\ \A t \in groups[b] :
                              provenance[t] = [by |-> b, fallback |-> FALSE]
      /\ \A b \in Backend \ todo : Attributed(b)

\* Of a request with tags, nothing is kept but what was routed.
Filtered ==
    req # Null /\ req.tags # <<>> =>
      \A f \in features : \E b \in Backend : f.cls \in groups[b]

\* A cloud model is chosen only with consent, and only what is chosen is run.
Consent ==
    req # Null => \A b \in todo \cup called : Tier[b] = "cloud" => req.cloud

Inv == /\ TypeOK /\ Phased /\ Resolving /\ Partition /\ Outcomes /\ Filtered
       /\ Consent /\ FailuresAreContained

------------------------------------------------------------------------------
(* The registry *)

\* Of some candidates one has the highest rank: the set of those ranked higher
\* is minimal for it, and backends are finitely many.
LEMMA BestIsCandidate ==
  ASSUME NEW t, Candidates(t) # {}
  PROVE  Best(t) \in Candidates(t)
<1> DEFINE Above(b) == {c \in Candidates(t) : Rank[c] > Rank[b]}
           All == {Above(b) : b \in Candidates(t)}
           R == StrictSubsetOrdering(Backend)
<1>1. Candidates(t) \subseteq Backend /\ IsFiniteSet(Backend)
  BY RouterAssumption DEF Candidates
<1>2. All \subseteq FiniteSubsetsOf(Backend) /\ All # {}
  <2>1. \A b \in Candidates(t) : Above(b) \subseteq Backend
    BY <1>1
  <2>2. \A b \in Candidates(t) : IsFiniteSet(Above(b))
    BY <1>1, <2>1, FS_Subset
  <2>3. QED
    BY <2>1, <2>2 DEF FiniteSubsetsOf
<1>3. PICK b \in Candidates(t) :
         \A c \in Candidates(t) : <<Above(c), Above(b)>> \notin R
  <2>1. IsWellFoundedOn(R, FiniteSubsetsOf(Backend))
    BY FS_StrictSubsetOrderingWellFounded
  <2>2. \E x \in All : \A y \in All : ~(<<y, x>> \in R)
    BY <1>2, <2>1, WFMin
  <2>3. QED
    BY <2>2
<1>4. \A c \in Backend : Rank[c] \in Nat
  BY RouterAssumption
<1>5. ASSUME NEW c \in Candidates(t), ~(Rank[c] <= Rank[b]) PROVE FALSE
  <2>1. Rank[c] > Rank[b]
    BY <1>1, <1>4, <1>5
  <2>2. Above(c) \subseteq Above(b) /\ c \in Above(b) /\ c \notin Above(c)
    BY <1>1, <1>4, <2>1
  <2>3. Above(b) \subseteq Backend
    BY <1>1
  <2>4. <<Above(c), Above(b)>> \in R
    BY <2>2, <2>3 DEF StrictSubsetOrdering
  <2>5. QED
    BY <1>3, <2>4
<1>6. QED
  BY <1>5 DEF Best

\* What is chosen for a tag is a backend, with consent if it is in the cloud.
LEMMA ResolvedIsUsable ==
  ASSUME req \in Request, NEW t \in Tag
  PROVE  /\ Resolved(t) \in Backend
         /\ Tier[Resolved(t)] = "cloud" => req.cloud
<1>1. CASE Preferred(t) # Null
  BY <1>1, RouterAssumption DEF Resolved, Preferred, Usable
<1>2. CASE Preferred(t) = Null /\ Candidates(t) # {}
  BY <1>2, BestIsCandidate DEF Resolved, Candidates, Usable
<1>3. CASE Preferred(t) = Null /\ Candidates(t) = {}
  BY <1>3, RouterAssumption DEF Resolved
<1>4. QED
  BY <1>1, <1>2, <1>3

\* What a run leaves of the output of a backend.
LEMMA KeptFeatures ==
  ASSUME NEW b \in Backend, NEW by \in Backend, NEW tags,
         NEW out \in SUBSET Emits(by, tags)
  PROVE  /\ Kept(out, b, by) \subseteq [cls : Tag, stamp : Backend, by : Backend]
         /\ \A f \in Kept(out, b, by) : f.cls \in groups[b] /\ f.by = by
<1>1. out \subseteq Tag
  BY RouterAssumption DEF Emits, HeuristicClasses
<1>2. QED
  BY <1>1 DEF Kept

------------------------------------------------------------------------------
(* Typing *)

LEMMA InitInv == Init => Inv
<1> SUFFICES ASSUME Init PROVE Inv
  OBVIOUS
<1>1. TypeOK
  BY RouterAssumption DEF Init, TypeOK, Source
<1>2. QED
  BY <1>1, RouterAssumption
     DEF Init, Inv, Phased, Resolving, Partition, Outcomes, Filtered, Consent,
         FailuresAreContained

\* Turning to the next tag keeps the types: it is in the request, and what is
\* chosen for it is a backend.
LEMMA ResolveTyped ==
  ASSUME TypeOK, Phased, Resolve
  PROVE  TypeOK'
<1>1. req \in Request /\ left \in Seq(Tag) /\ left # <<>>
  BY DEF Resolve, TypeOK, Phased
<1> DEFINE t == Head(left)
           b == Resolved(t)
<1>2. t \in Tag /\ Tail(left) \in Seq(Tag)
  BY <1>1
<1>3. b \in Backend
  BY <1>1, <1>2, ResolvedIsUsable
<1>4. groups' \in [Backend -> SUBSET Tag]
  BY <1>2, <1>3 DEF Resolve, TypeOK
<1>5. todo' \subseteq Backend
  BY <1>3 DEF Resolve, TypeOK
<1>6. provenance' \in [Tag \cup {Star} -> Source]
  BY <1>2, <1>3 DEF Resolve, TypeOK, Source
<1>7. phase' \in {"run", "resolve"} /\ left' \in Seq(Tag)
  BY <1>2 DEF Resolve
<1>8. QED
  BY <1>4, <1>5, <1>6, <1>7 DEF Resolve, TypeOK

\* The output of a backend is taken for its tags.
LEMMA ServedTyped ==
  ASSUME TypeOK, NEW b \in Backend, NEW by \in Backend, Served(b, by)
  PROVE  served' \in [Tag -> SUBSET Backend]
  BY DEF TypeOK, Served

LEMMA NextTyped == TypeOK /\ Phased /\ [Next]_vars => TypeOK'
<1> SUFFICES ASSUME TypeOK, Phased, [Next]_vars PROVE TypeOK'
  OBVIOUS
<1>1. CASE Receive
  <2>1. \A q \in Request : q.tags \in Seq(Tag)
    BY RouterAssumption
  <2>2. QED
    BY <1>1, <2>1 DEF Receive, TypeOK
<1>2. CASE ReadPair
  BY <1>2 DEF ReadPair, Fail, TypeOK
<1>3. CASE LegacyRun
  <2>1. Heuristic \in Backend /\ HeuristicClasses(req.urban) \subseteq Tag
    BY RouterAssumption DEF HeuristicClasses
  <2>2. provenance' \in [Tag \cup {Star} -> Source]
    <3>1. [by |-> Heuristic, fallback |-> FALSE] \in Source
      BY <2>1 DEF Source
    <3>2. \/ UNCHANGED provenance
          \/ provenance' = [provenance EXCEPT ![Star] =
                              [by |-> Heuristic, fallback |-> FALSE]]
      BY <1>3 DEF LegacyRun
    <3>3. QED
      BY <3>1, <3>2 DEF TypeOK
  <2>3. features' \subseteq [cls : Tag, stamp : Backend, by : Backend]
    BY <1>3, <2>1 DEF LegacyRun, TypeOK
  <2>4. QED
    BY <1>3, <2>1, <2>2, <2>3 DEF LegacyRun, Fail, TypeOK
<1>4. CASE Resolve
  BY <1>4, ResolveTyped
<1>5. CASE Answer
  BY <1>5 DEF Answer, TypeOK
<1>6. ASSUME NEW b \in Backend, RunBackend(b) PROVE TypeOK'
  BY <1>6, KeptFeatures, ServedTyped DEF RunBackend, TypeOK
<1>7. ASSUME NEW b \in Backend, FallBack(b) PROVE TypeOK'
  <2>1. Heuristic \in Backend
    BY RouterAssumption
  <2>2. provenance' \in [Tag \cup {Star} -> Source]
    BY <1>7, <2>1 DEF FallBack, TypeOK, Source
  <2>3. features' \subseteq [cls : Tag, stamp : Backend, by : Backend]
    BY <1>7, <2>1, KeptFeatures DEF FallBack, TypeOK
  <2>4. QED
    BY <1>7, <2>1, <2>2, <2>3, ServedTyped DEF FallBack, TypeOK
<1>8. ASSUME NEW b \in Backend, FallBackRaises(b) PROVE TypeOK'
  BY <1>8, RouterAssumption DEF FallBackRaises, Fail, TypeOK
<1>9. ASSUME NEW b \in Gated, HostChanges(b) PROVE TypeOK'
  BY <1>9 DEF HostChanges, TypeOK
<1>10. CASE UNCHANGED vars
  BY <1>10 DEF vars, TypeOK, Source
<1>11. QED
  BY <1>1, <1>2, <1>3, <1>4, <1>5, <1>6, <1>7, <1>8, <1>9, <1>10 DEF Next

------------------------------------------------------------------------------
(* The request *)

LEMMA NextPhased == TypeOK /\ Phased /\ [Next]_vars => Phased'
<1> SUFFICES ASSUME TypeOK, Phased, [Next]_vars PROVE Phased'
  OBVIOUS
<1>1. CASE Receive
  BY <1>1, RouterAssumption DEF Receive, TypeOK, Phased
<1>2. CASE ReadPair
  BY <1>2 DEF ReadPair, Fail, Phased, TypeOK
<1>3. CASE LegacyRun
  BY <1>3 DEF LegacyRun, Fail, Phased, TypeOK
<1>4. CASE Resolve
  BY <1>4 DEF Resolve, Phased, TypeOK
<1>5. CASE Answer
  BY <1>5 DEF Answer, Phased, TypeOK
<1>6. ASSUME NEW b \in Backend, RunBackend(b) PROVE Phased'
  BY <1>6 DEF RunBackend, Phased, TypeOK
<1>7. ASSUME NEW b \in Backend, FallBack(b) PROVE Phased'
  BY <1>7 DEF FallBack, Phased, TypeOK
<1>8. ASSUME NEW b \in Backend, FallBackRaises(b) PROVE Phased'
  BY <1>8 DEF FallBackRaises, Fail, Phased, TypeOK
<1>9. ASSUME NEW b \in Gated, HostChanges(b) PROVE Phased'
  BY <1>9 DEF HostChanges, Phased, TypeOK
<1>10. CASE UNCHANGED vars
  BY <1>10 DEF vars, Phased
<1>11. QED
  BY <1>1, <1>2, <1>3, <1>4, <1>5, <1>6, <1>7, <1>8, <1>9, <1>10 DEF Next

\* The next tag of the request is the first of those left.
LEMMA ResolveResolves ==
  ASSUME TypeOK, Phased, NEW n \in 0..Len(req.tags), Halfway(n), Resolve
  PROVE  /\ n + 1 \in 0..Len(req.tags)
         /\ Head(left) = req.tags[n + 1]
         /\ Halfway(n + 1)'
<1>1. req \in Request /\ req' = req /\ req.tags \in Seq(Tag)
  BY RouterAssumption DEF Resolve, TypeOK, Phased
<1>2. left \in Seq(Tag) /\ left # <<>> /\ left' = Tail(left)
  BY DEF Resolve, TypeOK, Phased
<1> DEFINE t == Head(left)
           b == Resolved(t)
<1>3. Len(left) \in Nat \ {0} /\ n \in Nat /\ Len(req.tags) \in Nat
  BY <1>1, <1>2
<1>4. n + 1 \in 0..Len(req.tags) /\ t = left[1] /\ left[1] = req.tags[n + 1]
  <2>1. Len(left) = Len(req.tags) - n /\ left[1] = req.tags[1 + n]
    BY <1>3 DEF Halfway
  <2>2. n + 1 \in 0..Len(req.tags) /\ 1 + n = n + 1
    BY <1>3, <2>1
  <2>3. t = left[1]
    BY <1>2
  <2>4. QED
    BY <2>1, <2>2, <2>3
<1>5. Len(left') = Len(req.tags) - (n + 1)
  BY <1>2, <1>3 DEF Halfway
<1>6. \A i \in 1..Len(left') : left'[i] = req.tags[i + (n + 1)]
  <2> SUFFICES ASSUME NEW i \in 1..Len(left') PROVE left'[i] = req.tags[i + (n + 1)]
    OBVIOUS
  <2>1. Tail(left)[i] = left[i + 1] /\ i + 1 \in 1..Len(left)
    BY <1>2, <1>3, HeadTailProperties
  <2>2. (i + 1) + n = i + (n + 1)
    BY <1>3
  <2>3. QED
    BY <1>2, <2>1, <2>2 DEF Halfway
<1>7. t \in Tag /\ b \in Backend
  BY <1>1, <1>2, ResolvedIsUsable
<1>8. groups' = [groups EXCEPT ![b] = @ \cup {t}] /\ groups \in [Backend -> SUBSET Tag]
  BY DEF Resolve, TypeOK
<1>9. \A i \in 1..(n + 1) : \E c \in Backend : req.tags[i] \in groups'[c]
  <2> SUFFICES ASSUME NEW i \in 1..(n + 1)
               PROVE  \E c \in Backend : req.tags[i] \in groups'[c]
    OBVIOUS
  <2>1. CASE i = n + 1
    BY <1>4, <1>7, <1>8, <2>1
  <2>2. CASE i # n + 1
    <3>1. i \in 1..n
      BY <1>3, <2>2
    <3>2. PICK c \in Backend : req.tags[i] \in groups[c]
      BY <3>1 DEF Halfway
    <3>3. req.tags[i] \in groups'[c]
      BY <1>7, <1>8, <3>2
    <3>4. QED
      BY <3>3
  <2>3. QED
    BY <2>1, <2>2
<1>10. \A c \in Backend : \A u \in groups'[c] : \E i \in 1..(n + 1) : req.tags[i] = u
  <2> SUFFICES ASSUME NEW c \in Backend, NEW u \in groups'[c]
               PROVE  \E i \in 1..(n + 1) : req.tags[i] = u
    OBVIOUS
  <2>1. CASE u \in groups[c]
    BY <1>3, <2>1 DEF Halfway
  <2>2. CASE u \notin groups[c]
    <3>1. u = t
      BY <1>7, <1>8, <2>2
    <3>2. QED
      BY <1>3, <1>4, <3>1
  <2>3. QED
    BY <2>1, <2>2
<1>11. QED
  BY <1>1, <1>4, <1>5, <1>6, <1>9, <1>10 DEF Halfway

LEMMA NextResolving ==
  TypeOK /\ Phased /\ Resolving /\ [Next]_vars => Resolving'
<1> SUFFICES ASSUME TypeOK, Phased, Resolving, [Next]_vars PROVE Resolving'
  OBVIOUS
<1>1. CASE Receive
  <2>1. req' \in Request /\ left' = req'.tags /\ left' \in Seq(Tag)
    BY <1>1, RouterAssumption DEF Receive
  <2>2. \A c \in Backend : groups'[c] = {}
    BY <1>1 DEF Receive, Phased
  <2>3. 0 \in 0..Len(req'.tags) /\ Halfway(0)'
    BY <2>1, <2>2 DEF Halfway
  <2>4. QED
    BY <2>3 DEF Resolving
<1>2. CASE Resolve
  <2>1. PICK n \in 0..Len(req.tags) : Halfway(n)
    BY <1>2 DEF Resolving, Resolve, Phased
  <2>2. n + 1 \in 0..Len(req.tags) /\ Halfway(n + 1)' /\ req' = req
    BY <1>2, <2>1, ResolveResolves DEF Resolve
  <2>3. QED
    BY <2>2 DEF Resolving
<1>3. CASE UNCHANGED <<req, left, groups>>
  BY <1>3 DEF Resolving, Halfway
<1>4. QED
  BY <1>1, <1>2, <1>3 DEF Next, ReadPair, LegacyRun, Answer, RunBackend, FallBack,
                          FallBackRaises, HostChanges, vars

\* A tag of an unrepeated request that is resolved now is in no group yet.
LEMMA ResolvedIsNew ==
  ASSUME TypeOK, Phased, Resolving, req # Null, Unrepeated, Resolve
  PROVE  \A b \in Backend : Head(left) \notin groups[b]
<1>1. PICK n \in 0..Len(req.tags) : Halfway(n)
  BY DEF Resolving
<1>2. n + 1 \in 0..Len(req.tags) /\ Head(left) = req.tags[n + 1]
  BY <1>1, ResolveResolves
<1>3. \A i \in 1..n : req.tags[i] # req.tags[n + 1]
  <2>1. Len(req.tags) \in Nat
    BY RouterAssumption DEF TypeOK
  <2>2. n + 1 \in 1..Len(req.tags) /\ \A i \in 1..n : i \in 1..Len(req.tags) /\ i # n + 1
    BY <1>2, <2>1
  <2>3. QED
    BY <2>2 DEF Unrepeated
<1>4. QED
  BY <1>1, <1>2, <1>3 DEF Halfway

\* What a turn of the first loop leaves.
LEMMA ResolveEffect ==
  ASSUME TypeOK, Phased, Resolve
  PROVE  /\ req \in Request /\ req' = req /\ Head(left) \in Tag
         /\ Resolved(Head(left)) \in Backend
         /\ groups' = [groups EXCEPT ![Resolved(Head(left))] = @ \cup {Head(left)}]
<1>1. left \in Seq(Tag) /\ left # <<>> /\ req \in Request
  BY DEF Resolve, TypeOK, Phased
<1>2. Head(left) \in Tag
  BY <1>1
<1>3. QED
  BY <1>1, <1>2, ResolvedIsUsable DEF Resolve

LEMMA NextPartition ==
  TypeOK /\ Phased /\ Resolving /\ Partition /\ [Next]_vars => Partition'
<1> SUFFICES ASSUME TypeOK, Phased, Resolving, Partition, [Next]_vars
             PROVE  Partition'
  OBVIOUS
<1>1. CASE Receive
  <2>1. \A b \in Backend : groups'[b] = {}
    BY <1>1 DEF Receive, Phased
  <2>2. QED
    BY <2>1 DEF Partition
<1>2. CASE Resolve
  <2> SUFFICES ASSUME Unrepeated PROVE Partition'
    BY <1>2 DEF Resolve, Partition, Unrepeated
  <2>1. req # Null
    BY <1>2, ResolveEffect, RouterAssumption
  <2>2. \A b \in Backend : Head(left) \notin groups[b]
    BY <1>2, <2>1, ResolvedIsNew
  <2>3. \A b, c \in Backend : groups[b] \cap groups[c] # {} => b = c
    BY <2>1 DEF Partition
  <2>4. \A b, c \in Backend : groups'[b] \cap groups'[c] # {} => b = c
    BY <1>2, <2>2, <2>3, ResolveEffect DEF TypeOK
  <2>5. QED
    BY <2>4 DEF Partition
<1>3. CASE UNCHANGED <<req, groups>>
  BY <1>3 DEF Partition, Unrepeated
<1>4. QED
  BY <1>1, <1>2, <1>3 DEF Next, ReadPair, LegacyRun, Answer, RunBackend, FallBack,
                          FallBackRaises, HostChanges, vars

------------------------------------------------------------------------------
(* The backends *)

\* A backend's output is taken for its own tags: what it means for the others.
LEMMA OthersKeep ==
  ASSUME TypeOK, Partition, req # Null, Unrepeated,
         NEW b \in Backend, NEW by \in Backend, NEW c \in Backend, c # b,
         Served(b, by), UNCHANGED groups,
         features' \subseteq features \cup
            {f \in [cls : Tag, stamp : Backend, by : Backend] : f.cls \in groups[b]},
         \A t \in Tag \ groups[b] : provenance'[t] = provenance[t]
  PROVE  /\ Untouched(c) => Untouched(c)'
         /\ Attributed(c) => Attributed(c)'
         /\ \A t \in groups[c] : provenance'[t] = provenance[t]
<1>1. \A t \in groups[c] : t \in Tag \ groups[b]
  BY DEF Partition, TypeOK
<1>2. \A t \in groups[c] : served'[t] = served[t]
  BY <1>1 DEF Served
<1>3. \A t \in groups[c] : \A f \in features' : f.cls = t => f \in features
  BY <1>1
<1>4. QED
  BY <1>1, <1>2, <1>3 DEF Untouched, Attributed

\* After its turn, or that of the heuristic for it, a backend is attributed.
LEMMA RunAttributes ==
  ASSUME TypeOK, NEW b \in Backend, NEW by \in Backend, Untouched(b), Served(b, by),
         UNCHANGED groups, NEW tags, NEW out \in SUBSET Emits(by, tags),
         features' = features \cup Kept(out, b, by),
         \A t \in groups[b] : provenance'[t] # Null /\ provenance'[t].by = by
  PROVE  Attributed(b)'
<1>1. \A t \in groups[b] : t \in Tag /\ served'[t] = {by}
  BY DEF TypeOK, Served, Untouched
<1>2. \A t \in groups[b] : \A f \in features' : f.cls = t => f.by = by
  BY KeptFeatures DEF Untouched
<1>3. QED
  BY <1>1, <1>2 DEF Attributed

LEMMA TurnOutcomes ==
  ASSUME TypeOK, Partition, Outcomes, UNCHANGED <<req, groups>>,
         NEW b \in todo, NEW by \in Backend, todo' = todo \ {b}, Served(b, by),
         NEW tags, NEW out \in SUBSET Emits(by, tags),
         features' = features \cup Kept(out, b, by),
         \A t \in Tag \ groups[b] : provenance'[t] = provenance[t],
         \/ by = b /\ UNCHANGED provenance
         \/ \A t \in groups[b] : provenance'[t] = [by |-> by, fallback |-> TRUE]
  PROVE  Outcomes'
<1> SUFFICES ASSUME req # Null, Unrepeated PROVE Outcomes'
  BY DEF Outcomes, Unrepeated
<1>1. b \in Backend
  BY DEF TypeOK
<1>2. Untouched(b) /\ \A t \in groups[b] : provenance[t] = [by |-> b, fallback |-> FALSE]
  BY DEF Outcomes
<1>3. [by |-> b, fallback |-> FALSE] # Null /\ [by |-> by, fallback |-> TRUE] # Null
  <2>1. /\ [by |-> b, fallback |-> FALSE] \in [by : Backend, fallback : BOOLEAN]
        /\ [by |-> by, fallback |-> TRUE] \in [by : Backend, fallback : BOOLEAN]
    BY <1>1
  <2>2. Null \notin [by : Backend, fallback : BOOLEAN]
    BY RouterAssumption
  <2>3. QED
    BY <2>1, <2>2
<1>4. Attributed(b)'
  BY <1>1, <1>2, <1>3, RunAttributes
<1>5. features' \subseteq features \cup
         {f \in [cls : Tag, stamp : Backend, by : Backend] : f.cls \in groups[b]}
  BY <1>1, KeptFeatures
<1>6. ASSUME NEW c \in Backend, c # b
      PROVE  /\ Untouched(c) => Untouched(c)'
             /\ Attributed(c) => Attributed(c)'
             /\ \A t \in groups[c] : provenance'[t] = provenance[t]
  BY <1>1, <1>5, <1>6, OthersKeep
<1>7. \A c \in todo' : Untouched(c)' /\ \A t \in groups[c] :
                                          provenance'[t] = [by |-> c, fallback |-> FALSE]
  BY <1>6 DEF Outcomes, TypeOK
<1>8. \A c \in Backend \ todo' : Attributed(c)'
  BY <1>4, <1>6 DEF Outcomes, TypeOK
<1>9. QED
  BY <1>7, <1>8 DEF Outcomes

\* The heuristic takes over the tags of a backend that raised.
LEMMA FallBackEffect ==
  ASSUME TypeOK, NEW b \in Backend, FallBack(b)
  PROVE  /\ \A t \in Tag \ groups[b] : provenance'[t] = provenance[t]
         /\ \A t \in groups[b] : provenance'[t] = [by |-> Heuristic, fallback |-> TRUE]
  BY RouterAssumption DEF FallBack, TypeOK

LEMMA NextOutcomes ==
  TypeOK /\ Phased /\ Resolving /\ Partition /\ Outcomes /\ [Next]_vars => Outcomes'
<1> SUFFICES ASSUME TypeOK, Phased, Resolving, Partition, Outcomes, [Next]_vars
             PROVE  Outcomes'
  OBVIOUS
<1>1. CASE Receive
  <2>1. \A b \in Backend : groups'[b] = {}
    BY <1>1 DEF Receive, Phased
  <2>2. todo' = {}
    BY <1>1 DEF Receive, Phased
  <2>3. QED
    BY <2>1, <2>2 DEF Outcomes, Attributed
<1>2. CASE LegacyRun
  <2>1. (\A b \in Backend : groups'[b] = {}) /\ todo' = {}
    BY <1>2 DEF LegacyRun, Phased
  <2>2. QED
    BY <2>1 DEF Outcomes, Attributed
<1>3. CASE Resolve
  <2> SUFFICES ASSUME Unrepeated PROVE Outcomes'
    BY <1>3 DEF Resolve, Outcomes, Unrepeated
  <2> DEFINE t == Head(left)
             b == Resolved(t)
  <2>1. /\ req # Null /\ t \in Tag /\ b \in Backend
        /\ groups' = [groups EXCEPT ![b] = @ \cup {t}]
    BY <1>3, ResolveEffect, RouterAssumption
  <2>2. \A c \in Backend : t \notin groups[c]
    BY <1>3, <2>1, ResolvedIsNew
  <2>3. /\ provenance' = [provenance EXCEPT ![t] = [by |-> b, fallback |-> FALSE]]
        /\ todo' = todo \cup {b} /\ UNCHANGED <<features, served>>
        /\ features = {} /\ served = [u \in Tag |-> {}]
    BY <1>3 DEF Resolve, Phased
  <2>4. \A c \in Backend \ todo' : groups'[c] = groups[c]
    BY <2>1, <2>3 DEF TypeOK
  <2>5. \A c \in Backend \ todo' : Attributed(c)'
    BY <2>1, <2>2, <2>3, <2>4 DEF Outcomes, Attributed, TypeOK
  <2>6. \A c \in todo' : Untouched(c)'
    BY <2>1, <2>3 DEF Untouched, TypeOK
  <2>7. \A c \in todo' : \A u \in groups'[c] :
           provenance'[u] = [by |-> c, fallback |-> FALSE]
    <3>1. \A c \in Backend : \A u \in groups[c] :
             u # t /\ provenance[u] = [by |-> c, fallback |-> FALSE]
      <4>1. \A c \in Backend : \A u \in groups[c] : u \in Tag /\ served[u] = {}
        BY <2>3 DEF TypeOK
      <4>2. \A c \in Backend \ todo : groups[c] = {}
        BY <2>1, <4>1 DEF Outcomes, Attributed, TypeOK
      <4>3. QED
        BY <2>1, <2>2, <4>2 DEF Outcomes
    <3>2. \A c \in Backend : \A u \in groups'[c] : u \in groups[c] \/ (u = t /\ c = b)
      BY <2>1 DEF TypeOK
    <3>3. \A c \in Backend : \A u \in groups[c] : u \in Tag /\ provenance'[u] = provenance[u]
      BY <2>3, <3>1 DEF TypeOK
    <3>4. provenance'[t] = [by |-> b, fallback |-> FALSE] /\ todo' \subseteq Backend
      BY <2>1, <2>3 DEF TypeOK
    <3>5. QED
      BY <3>1, <3>2, <3>3, <3>4
  <2>8. QED
    BY <2>5, <2>6, <2>7 DEF Outcomes
<1>4. ASSUME NEW b \in Backend, RunBackend(b) PROVE Outcomes'
  BY <1>4, TurnOutcomes DEF RunBackend
<1>5. ASSUME NEW b \in Backend, FallBack(b) PROVE Outcomes'
  <2>1. PICK out \in SUBSET Emits(Heuristic, groups[b]) :
           features' = features \cup Kept(out, b, Heuristic)
    BY <1>5 DEF FallBack
  <2>2. Heuristic \in Backend /\ b \in todo /\ todo' = todo \ {b}
        /\ Served(b, Heuristic) /\ UNCHANGED <<req, groups>>
    BY <1>5, RouterAssumption DEF FallBack
  <2>3. QED
    BY <1>5, <2>1, <2>2, FallBackEffect, TurnOutcomes
<1>6. CASE UNCHANGED <<req, groups, todo, served, provenance, features>>
  BY <1>6 DEF Outcomes, Unrepeated, Untouched, Attributed
<1>7. QED
  BY <1>1, <1>2, <1>3, <1>4, <1>5, <1>6
     DEF Next, ReadPair, Answer, FallBackRaises, HostChanges, vars

LEMMA NextFiltered ==
  TypeOK /\ Phased /\ Filtered /\ [Next]_vars => Filtered'
<1> SUFFICES ASSUME TypeOK, Phased, Filtered, [Next]_vars PROVE Filtered'
  OBVIOUS
<1>1. CASE Receive
  BY <1>1 DEF Receive, Phased, Filtered
<1>2. CASE LegacyRun
  BY <1>2 DEF LegacyRun, Phased, Filtered
<1>3. CASE Resolve
  BY <1>3 DEF Resolve, Phased, Filtered
<1>4. ASSUME NEW b \in Backend, RunBackend(b) PROVE Filtered'
  BY <1>4, KeptFeatures DEF RunBackend, Filtered
<1>5. ASSUME NEW b \in Backend, FallBack(b) PROVE Filtered'
  BY <1>5, KeptFeatures, RouterAssumption DEF FallBack, Filtered
<1>6. CASE UNCHANGED <<req, groups, features>>
  BY <1>6 DEF Filtered
<1>7. QED
  BY <1>1, <1>2, <1>3, <1>4, <1>5, <1>6
     DEF Next, ReadPair, Answer, FallBackRaises, HostChanges, vars

LEMMA NextConsent ==
  TypeOK /\ Phased /\ Consent /\ [Next]_vars => Consent'
<1> SUFFICES ASSUME TypeOK, Phased, Consent, [Next]_vars PROVE Consent'
  OBVIOUS
<1>1. CASE Receive
  BY <1>1 DEF Receive, Phased, Consent
<1>2. CASE LegacyRun
  BY <1>2, RouterAssumption DEF LegacyRun, Consent
<1>3. CASE Resolve
  <2>1. todo' = todo \cup {Resolved(Head(left))} /\ UNCHANGED <<req, called>>
    BY <1>3 DEF Resolve
  <2>2. QED
    BY <1>3, <2>1, ResolveEffect, ResolvedIsUsable DEF Consent
<1>4. ASSUME NEW b \in Backend, RunBackend(b) PROVE Consent'
  BY <1>4 DEF RunBackend, Consent
<1>5. ASSUME NEW b \in Backend, FallBack(b) \/ FallBackRaises(b) PROVE Consent'
  BY <1>5, RouterAssumption DEF FallBack, FallBackRaises, Consent
<1>6. CASE UNCHANGED <<req, todo, called>>
  BY <1>6 DEF Consent
<1>7. QED
  BY <1>1, <1>2, <1>3, <1>4, <1>5, <1>6
     DEF Next, ReadPair, Answer, HostChanges, vars

LEMMA NextContained ==
  TypeOK /\ Phased /\ FailuresAreContained /\ [Next]_vars => FailuresAreContained'
<1> SUFFICES ASSUME TypeOK, Phased, FailuresAreContained, [Next]_vars
             PROVE  FailuresAreContained'
  OBVIOUS
<1>1. CASE Receive \/ Resolve \/ Answer \/ UNCHANGED vars
  BY <1>1 DEF Receive, Resolve, Answer, vars, FailuresAreContained
<1>2. CASE ReadPair
  BY <1>2 DEF ReadPair, Phased, FailuresAreContained
<1>3. CASE LegacyRun
  BY <1>3 DEF LegacyRun, FailuresAreContained
<1>4. ASSUME NEW b \in Backend, RunBackend(b) \/ FallBack(b) \/ FallBackRaises(b)
      PROVE  FailuresAreContained'
  BY <1>4 DEF RunBackend, FallBack, FallBackRaises, Phased, FailuresAreContained
<1>5. ASSUME NEW b \in Gated, HostChanges(b) PROVE FailuresAreContained'
  BY <1>5 DEF HostChanges, FailuresAreContained
<1>6. QED
  BY <1>1, <1>2, <1>3, <1>4, <1>5 DEF Next

LEMMA NextInv == Inv /\ [Next]_vars => Inv'
  BY NextTyped, NextPhased, NextResolving, NextPartition, NextOutcomes,
     NextFiltered, NextConsent, NextContained DEF Inv

------------------------------------------------------------------------------
(* The theorems *)

\* The state of a request keeps its types.
THEOREM StateTyped == Spec => []TypeOK
<1>1. Inv => TypeOK
  BY DEF Inv
<1>2. QED
  BY InitInv, NextInv, <1>1, PTL DEF Spec

\* Features are of the tags of the request only, that of a failed backend's
\* replacement included (the filter at the end of route_and_run).
THEOREM NothingUnrequested == Spec => []OnlyRequestedTags
<1>1. Inv => OnlyRequestedTags
  <2> SUFFICES ASSUME Inv, req # Null, req.tags # <<>>, NEW f \in features
               PROVE  f.cls \in Tags
    BY DEF OnlyRequestedTags
  <2>1. PICK b \in Backend : f.cls \in groups[b]
    BY DEF Inv, Filtered
  <2>2. PICK n \in 0..Len(req.tags) : Halfway(n)
    BY DEF Inv, Resolving
  <2>3. PICK i \in 1..n : req.tags[i] = f.cls
    BY <2>1, <2>2 DEF Halfway
  <2>4. i \in 1..Len(req.tags)
    BY RouterAssumption DEF Inv, TypeOK
  <2>5. QED
    BY <2>3, <2>4 DEF Tags
<1>2. QED
  BY InitInv, NextInv, <1>1, PTL DEF Spec

\* Provenance names the one backend whose output was taken for a tag.
THEOREM ProvenanceTrue == Spec => []ProvenanceIsTrue
<1>1. Inv => ProvenanceIsTrue
  <2> SUFFICES ASSUME Inv, status = "ok", req.tags # <<>>, Unrepeated
               PROVE  /\ \A t \in Tags : /\ provenance[t] # Null
                                         /\ served[t] = {provenance[t].by}
                      /\ \A f \in features : f.by = provenance[f.cls].by
    BY DEF ProvenanceIsTrue
  <2>1. req \in Request /\ req # Null /\ todo = {} /\ left = <<>>
    BY RouterAssumption DEF Inv, TypeOK, Phased
  <2>2. \A b \in Backend : Attributed(b)
    BY <2>1 DEF Inv, Outcomes
  <2>3. PICK n \in 0..Len(req.tags) : Halfway(n)
    BY <2>1 DEF Inv, Resolving
  <2>4. n = Len(req.tags)
    BY <2>1, <2>3, RouterAssumption DEF Halfway
  <2>5. \A t \in Tags : \E b \in Backend : t \in groups[b]
    BY <2>3, <2>4 DEF Halfway, Tags
  <2>6. \A f \in features : \E b \in Backend : f.cls \in groups[b]
    BY <2>1 DEF Inv, Filtered
  <2>7. QED
    BY <2>2, <2>5, <2>6 DEF Attributed
<1>2. QED
  BY InitInv, NextInv, <1>1, PTL DEF Spec

\* No cloud model runs without consent.
THEOREM CloudOnlyWithConsent == Spec => []CloudNeedsConsent
<1>1. Inv => CloudNeedsConsent
  BY RouterAssumption DEF Inv, Phased, Consent, CloudNeedsConsent
<1>2. QED
  BY InitInv, NextInv, <1>1, PTL DEF Spec

\* A failure of a backend other than the heuristic never sinks the request.
THEOREM FailuresContained == Spec => []FailuresAreContained
<1>1. Inv => FailuresAreContained
  BY DEF Inv
<1>2. QED
  BY InitInv, NextInv, <1>1, PTL DEF Spec
=============================================================================
