------------------------------ MODULE Migrator ------------------------------
(***************************************************************************)
(* The start of a control-plane replica (cmd/server/main.go) and the       *)
(* migrator it runs (internal/db/db.go): for each embedded SQL file, in    *)
(* the order of their names, look it up in schema_migrations, run it if it *)
(* is not there, and record it.  The three are statements of their own,    *)
(* without a lock, so that replicas that start together interleave, and a  *)
(* replica may die between any two.                                        *)
(*                                                                         *)
(* A file is sent in one simple query, which PostgreSQL runs as a single   *)
(* transaction, and each of its statements says IF NOT EXISTS: running it  *)
(* again leaves the schema as it is.  During a rolling upgrade replicas of *)
(* an older binary embed fewer files.                                      *)
(***************************************************************************)
EXTENDS Naturals

CONSTANTS
    Replica,
    Files,      \* how many files the binary of each replica embeds
    MaxFaults   \* bound: errors, deaths and restarts of replicas

ASSUME MigratorAssumption ==
    /\ Files \in [Replica -> Nat]
    /\ MaxFaults \in Nat

VARIABLES
    schema,    \* files whose statements have taken effect
    recorded,  \* rows of schema_migrations
    pc,        \* what each replica does
    at,        \* the file it is at
    faults     \* errors, deaths and restarts so far

vars == <<schema, recorded, pc, at, faults>>

State == {"down", "boot", "check", "apply", "record", "up"}

TypeOK ==
    /\ schema \subseteq Nat
    /\ recorded \subseteq Nat
    /\ pc \in [Replica -> State]
    /\ at \in [Replica -> Nat \ {0}]
    /\ faults \in 0..MaxFaults

Init ==
    /\ schema = {}
    /\ recorded = {}
    /\ pc = [p \in Replica |-> "down"]
    /\ at = [p \in Replica |-> 1]
    /\ faults = 0

Goto(p, state) == pc' = [pc EXCEPT ![p] = state]

-----------------------------------------------------------------------------

\* The container is started, again if it had exited.
Start(p) ==
    /\ pc[p] = "down"
    /\ Goto(p, "boot")
    /\ UNCHANGED <<schema, recorded, at, faults>>

\* CREATE TABLE IF NOT EXISTS schema_migrations; the names are sorted.
Bootstrap(p) ==
    /\ pc[p] = "boot"
    /\ at' = [at EXCEPT ![p] = 1]
    /\ Goto(p, "check")
    /\ UNCHANGED <<schema, recorded, faults>>

\* Faulty variant: the first file found in the table ends the loop.
Check_Stops(p) ==
    /\ pc[p] = "check"
    /\ Goto(p, IF at[p] > Files[p] \/ at[p] \in recorded THEN "up" ELSE "apply")
    /\ UNCHANGED <<schema, recorded, at, faults>>

\* Faulty variant: the names are taken in any order.
Check_AnyOrder(p) ==
    /\ pc[p] = "check"
    /\ \E n \in 1..Files[p] : at' = [at EXCEPT ![p] = n]
    /\ Goto(p, IF \A n \in 1..Files[p] : n \in recorded THEN "up" ELSE "apply")
    /\ UNCHANGED <<schema, recorded, faults>>

\* Faulty variant: the file is recorded before it is run.
Check_RecordsFirst(p) ==
    /\ pc[p] = "check"
    /\ IF at[p] <= Files[p] /\ at[p] \in recorded
       THEN at' = [at EXCEPT ![p] = @ + 1] /\ UNCHANGED <<pc, recorded>>
       ELSE /\ Goto(p, IF at[p] > Files[p] THEN "up" ELSE "apply")
            /\ recorded' = IF at[p] > Files[p] THEN recorded ELSE recorded \cup {at[p]}
            /\ UNCHANGED at
    /\ UNCHANGED <<schema, faults>>

Check(p) ==
    /\ pc[p] = "check"
    /\ IF at[p] <= Files[p] /\ at[p] \in recorded
       THEN at' = [at EXCEPT ![p] = @ + 1] /\ UNCHANGED pc
       ELSE Goto(p, IF at[p] > Files[p] THEN "up" ELSE "apply") /\ UNCHANGED at
    /\ UNCHANGED <<schema, recorded, faults>>

\* Faulty variant: statements without IF NOT EXISTS fail the second time.
Apply_NotIdempotent(p) ==
    /\ pc[p] = "apply"
    /\ schema' = schema \cup {at[p]}
    /\ Goto(p, IF at[p] \in schema THEN "down" ELSE "record")
    /\ UNCHANGED <<recorded, at, faults>>

Apply(p) ==
    /\ pc[p] = "apply"
    /\ schema' = schema \cup {at[p]}
    /\ Goto(p, "record")
    /\ UNCHANGED <<recorded, at, faults>>

\* The version is the primary key: a second insert fails, Migrate returns the
\* error and the process exits.
Record(p) ==
    /\ pc[p] = "record"
    /\ IF at[p] \in recorded
       THEN Goto(p, "down") /\ UNCHANGED <<recorded, at>>
       ELSE /\ recorded' = recorded \cup {at[p]}
            /\ at' = [at EXCEPT ![p] = @ + 1]
            /\ Goto(p, "check")
    /\ UNCHANGED <<schema, faults>>

\* A statement fails, the replica dies, or it is restarted.
Stop(p) ==
    /\ pc[p] # "down"
    /\ faults < MaxFaults
    /\ faults' = faults + 1
    /\ Goto(p, "down")
    /\ UNCHANGED <<schema, recorded, at>>

-----------------------------------------------------------------------------

Migrate(p) == Start(p) \/ Bootstrap(p) \/ Check(p) \/ Apply(p) \/ Record(p)

Next == \E p \in Replica : Migrate(p) \/ Stop(p)

Spec == Init /\ [][Next]_vars

\* A replica that is alive runs on; one that has exited is restarted (restart:
\* unless-stopped in deploy/demo, and the default under the Helm chart).
FairSpec == Spec /\ \A p \in Replica : WF_vars(Migrate(p))

-----------------------------------------------------------------------------
(* Properties *)

\* A file in schema_migrations has had its effect, so that skipping it is safe,
\* whichever replica recorded it and wherever another one died (Migrate's order
\* of Exec and INSERT).
RecordedMeansApplied == recorded \subseteq schema

\* Files take effect in the order of their names, across replicas of different
\* binaries: no file runs on a schema that lacks an earlier one (0002 alters
\* what 0001 creates).
AppliedInOrder == \A n \in schema : \A m \in 1..n : m \in schema

\* A replica serves requests only on a schema that has all of its files
\* (main.go exits if Migrate returns an error).
ServingMeansMigrated ==
    \A p \in Replica : pc[p] = "up" => \A n \in 1..Files[p] : n \in schema

\* Once faults are over every replica comes to serve, even when it lost the race
\* for a row of schema_migrations or died after running a file it did not record.
EveryReplicaServes == \A p \in Replica : <>[](pc[p] = "up")
=============================================================================
