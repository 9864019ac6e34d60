--------------------------- MODULE MigratorProofs ---------------------------
(***************************************************************************)
(* Proofs about Migrator, for any number of replicas, any binaries and any *)
(* number of faults.                                                       *)
(***************************************************************************)
EXTENDS Migrator, TLAPS

\* A replica that is in the loop knows that the files before its index have had
\* their effect, and one about to record a file has run it.
Behind ==
    \A p \in Replica :
      /\ pc[p] \in {"check", "apply", "record", "up"} =>
            \A n \in 1..(at[p] - 1) : n \in schema
      /\ pc[p] = "record" => at[p] \in schema
      /\ pc[p] = "up" => at[p] > Files[p]

Inv == TypeOK /\ RecordedMeansApplied /\ AppliedInOrder /\ Behind

\* An empty database has nothing to be wrong about.
LEMMA InitInv == Init => Inv
  BY MigratorAssumption
     DEF Init, Inv, TypeOK, State, RecordedMeansApplied, AppliedInOrder, Behind

\* The statements of the migrator keep the types of its state.
LEMMA NextTyped == TypeOK /\ [Next]_vars => TypeOK'
<1> SUFFICES ASSUME TypeOK, [Next]_vars PROVE TypeOK'
  OBVIOUS
<1> USE MigratorAssumption DEF TypeOK, State, Goto
<1>1. ASSUME NEW p \in Replica, Start(p) PROVE TypeOK'
  BY <1>1 DEF Start
<1>2. ASSUME NEW p \in Replica, Bootstrap(p) PROVE TypeOK'
  BY <1>2 DEF Bootstrap
<1>3. ASSUME NEW p \in Replica, Check(p) PROVE TypeOK'
  BY <1>3 DEF Check
<1>4. ASSUME NEW p \in Replica, Apply(p) PROVE TypeOK'
  BY <1>4 DEF Apply
<1>5. ASSUME NEW p \in Replica, Record(p) PROVE TypeOK'
  <2>1. CASE at[p] \in recorded
    BY <1>5, <2>1 DEF Record
  <2>2. CASE at[p] \notin recorded
    <3>1. /\ recorded' = recorded \cup {at[p]} /\ at' = [at EXCEPT ![p] = @ + 1]
          /\ pc' = [pc EXCEPT ![p] = "check"] /\ UNCHANGED <<schema, faults>>
      BY <1>5, <2>2 DEF Record
    <3>2. at[p] \in Nat \ {0} /\ at[p] + 1 \in Nat \ {0}
      OBVIOUS
    <3>3. QED
      BY <3>1, <3>2
  <2>3. QED
    BY <2>1, <2>2
<1>6. ASSUME NEW p \in Replica, Stop(p) PROVE TypeOK'
  BY <1>6 DEF Stop
<1>7. CASE UNCHANGED vars
  BY <1>7 DEF vars
<1>8. QED
  BY <1>1, <1>2, <1>3, <1>4, <1>5, <1>6, <1>7 DEF Next, Migrate

\* The one step that extends the schema extends it by the next file in order,
\* because the files before the index of the replica are there.
LEMMA ApplyExtends ==
    ASSUME Inv, NEW p \in Replica, Apply(p)
    PROVE  AppliedInOrder' /\ Behind' /\ schema \subseteq schema'
<1> USE DEF Inv, TypeOK, State
<1>1. /\ schema' = schema \cup {at[p]} /\ at' = at
      /\ pc' = [pc EXCEPT ![p] = "record"] /\ pc[p] = "apply"
  BY DEF Apply, Goto
<1>2. AppliedInOrder'
  <2> SUFFICES ASSUME NEW n \in schema', NEW m \in 1..n PROVE m \in schema'
    BY DEF AppliedInOrder
  <2>1. CASE n \in schema
    BY <1>1, <2>1 DEF AppliedInOrder
  <2>2. CASE n = at[p]
    <3>1. m = at[p] \/ m \in 1..(at[p] - 1)
      BY <2>2
    <3>2. QED
      BY <1>1, <3>1 DEF Behind
  <2>3. QED
    BY <1>1, <2>1, <2>2
<1>3. Behind'
  BY <1>1 DEF Behind
<1>4. QED
  BY <1>1, <1>2, <1>3

\* The invariant holds across every step of every replica.
LEMMA NextInv == Inv /\ [Next]_vars => Inv'
<1> SUFFICES ASSUME Inv, [Next]_vars PROVE Inv'
  OBVIOUS
<1>1. TypeOK'
  BY NextTyped DEF Inv
<1> USE DEF Inv, TypeOK, State, Goto
<1>2. ASSUME NEW p \in Replica, Start(p) \/ Bootstrap(p) \/ Stop(p) PROVE Inv'
  BY <1>1, <1>2
     DEF Start, Bootstrap, Stop, RecordedMeansApplied, AppliedInOrder, Behind
<1>3. ASSUME NEW p \in Replica, Check(p) PROVE Inv'
  <2>1. RecordedMeansApplied' /\ AppliedInOrder'
    BY <1>3 DEF Check, RecordedMeansApplied, AppliedInOrder
  <2>2. CASE at[p] <= Files[p] /\ at[p] \in recorded
    <3>1. at' = [at EXCEPT ![p] = @ + 1] /\ UNCHANGED <<pc, schema>> /\ pc[p] = "check"
      BY <1>3, <2>2 DEF Check
    <3>2. \A n \in 1..at[p] : n \in schema
      BY <2>2, <3>1, MigratorAssumption DEF Behind, RecordedMeansApplied
    <3>3. Behind'
      BY <3>1, <3>2 DEF Behind
    <3>4. QED
      BY <1>1, <2>1, <3>3
  <2>3. CASE ~(at[p] <= Files[p] /\ at[p] \in recorded)
    BY <1>1, <1>3, <2>1, <2>3, MigratorAssumption DEF Check, Behind
  <2>4. QED
    BY <2>2, <2>3
<1>4. ASSUME NEW p \in Replica, Apply(p) PROVE Inv'
  BY <1>1, <1>4, ApplyExtends DEF Apply, RecordedMeansApplied
<1>5. ASSUME NEW p \in Replica, Record(p) PROVE Inv'
  <2>1. RecordedMeansApplied' /\ AppliedInOrder'
    BY <1>5 DEF Record, RecordedMeansApplied, AppliedInOrder, Behind
  <2>2. Behind'
    BY <1>5 DEF Record, Behind
  <2>3. QED
    BY <1>1, <2>1, <2>2
<1>6. CASE UNCHANGED vars
  BY <1>1, <1>6 DEF vars, RecordedMeansApplied, AppliedInOrder, Behind
<1>7. QED
  BY <1>2, <1>3, <1>4, <1>5, <1>6 DEF Next, Migrate

\* Every variable keeps its type: no replica looks for a file its binary lacks.
THEOREM StateTyped == Spec => []TypeOK
<1>1. Inv => TypeOK
  BY DEF Inv
<1>2. QED
  BY InitInv, NextInv, <1>1, PTL DEF Spec

\* A row of schema_migrations is never there before its file has had its effect,
\* whatever replicas race for it and wherever they die.
THEOREM RecordsAreTrue == Spec => []RecordedMeansApplied
<1>1. Inv => RecordedMeansApplied
  BY DEF Inv
<1>2. QED
  BY InitInv, NextInv, <1>1, PTL DEF Spec

\* No file ever runs on a schema that lacks an earlier one.
THEOREM FilesInOrder == Spec => []AppliedInOrder
<1>1. Inv => AppliedInOrder
  BY DEF Inv
<1>2. QED
  BY InitInv, NextInv, <1>1, PTL DEF Spec

\* A replica that serves requests has the whole schema its binary needs.
THEOREM ServingIsSafe == Spec => []ServingMeansMigrated
<1>1. Inv => ServingMeansMigrated
  BY MigratorAssumption DEF Inv, TypeOK, Behind, ServingMeansMigrated
<1>2. QED
  BY InitInv, NextInv, <1>1, PTL DEF Spec
=============================================================================
