-------------------------- MODULE SchemaMigration --------------------------
(***************************************************************************)
(* SQLiteMigrationManager: every process that opens the database file, the *)
(* bot or a backfill, first brings its schema up to the version it knows.  *)
(* A migration is a script of statements and then its version number. The  *)
(* script is run by executescript, which commits what is open before it    *)
(* starts, so each statement takes effect on its own; CREATE ... IF NOT    *)
(* EXISTS can be run again, ALTER TABLE ... ADD COLUMN cannot.             *)
(***************************************************************************)
EXTENDS Naturals, FiniteSetsExt

CONSTANTS
    Processes,
    LastVersion, \* the number of migrations
    Lines,       \* how many statements each one has
    Once,        \* <<version, number>> of the statements that cannot be repeated
    Knows,       \* the latest version each process knows
    MaxHalts     \* bound: how often processes stop or wait too long for a lock

Versions == 1 .. LastVersion
Script(v) == {<<v, n>> : n \in 1 .. Lines[v]}
AllStatements == UNION {Script(v) : v \in Versions}

ASSUME VersionsAssumption == LastVersion \in Nat \ {0}
ASSUME LinesAssumption == Lines \in [Versions -> Nat \ {0}]
ASSUME OnceAssumption == Once \subseteq AllStatements
ASSUME KnowsAssumption == Knows \in [Processes -> Versions]
ASSUME HaltsAssumption == MaxHalts \in Nat

VARIABLES
    applied,   \* statements in effect in the file
    recorded,  \* versions in schema_version
    stage,     \* where each process is
    line,      \* <<version, number>> a process is about to run
    halts      \* stops so far

schemaVars == <<applied, recorded, stage, line, halts>>

Stages == {"down", "reading", "applying", "recording", "ready", "refused"}
SchemaVersion == IF recorded = {} THEN 0 ELSE Max(recorded)

SchemaInit ==
    /\ applied = {} /\ recorded = {} /\ halts = 0
    /\ stage = [p \in Processes |-> "down"] /\ line = [p \in Processes |-> <<1, 1>>]

(* A process connects and creates schema_version if it is missing.         *)
OpenFile(p) ==
    /\ stage[p] = "down" /\ stage' = [stage EXCEPT ![p] = "reading"]
    /\ UNCHANGED <<applied, recorded, line, halts>>

(* The version is read once; what follows trusts it.                       *)
ReadVersion(p) ==
    /\ stage[p] = "reading"
    /\ stage' = [stage EXCEPT ![p] = IF SchemaVersion > Knows[p] THEN "refused"
                               ELSE IF SchemaVersion = Knows[p] THEN "ready" ELSE "applying"]
    /\ line' = [line EXCEPT ![p] = IF SchemaVersion < Knows[p] THEN <<SchemaVersion + 1, 1>> ELSE @]
    /\ UNCHANGED <<applied, recorded, halts>>

(* A statement takes effect at once; one that cannot be repeated raises if *)
(* it has been run, and the process does not come up.                      *)
RunLine(p) ==
    /\ stage[p] = "applying"
    /\ IF line[p] \in applied \cap Once
       THEN stage' = [stage EXCEPT ![p] = "refused"] /\ UNCHANGED <<applied, line>>
       ELSE /\ applied' = applied \cup {line[p]}
            /\ line' = [line EXCEPT ![p] = <<@[1], @[2] + 1>>]
            /\ stage' = [stage EXCEPT ![p] = IF line[p][2] = Lines[line[p][1]] THEN "recording" ELSE @]
    /\ UNCHANGED <<recorded, halts>>

(* Mutant of Record: the loop ends one migration early.                    *)
RecordStopsEarly(p) ==
    /\ stage[p] = "recording" /\ recorded' = recorded \cup {line[p][1]}
    /\ stage' = [stage EXCEPT ![p] = IF line[p][1] + 1 >= Knows[p] THEN "ready" ELSE "applying"]
    /\ line' = [line EXCEPT ![p] = IF line[p][1] + 1 >= Knows[p] THEN @ ELSE <<@[1] + 1, 1>>]
    /\ UNCHANGED <<applied, halts>>

(* The version is recorded and committed; the next migration follows.      *)
Record(p) ==
    /\ stage[p] = "recording" /\ recorded' = recorded \cup {line[p][1]}
    /\ stage' = [stage EXCEPT ![p] = IF line[p][1] = Knows[p] THEN "ready" ELSE "applying"]
    /\ line' = [line EXCEPT ![p] = IF line[p][1] = Knows[p] THEN @ ELSE <<@[1] + 1, 1>>]
    /\ UNCHANGED <<applied, halts>>

(* A process that was refused ends, to be started again.                   *)
ExitRefused(p) ==
    /\ stage[p] = "refused" /\ stage' = [stage EXCEPT ![p] = "down"]
    /\ UNCHANGED <<applied, recorded, line, halts>>

(* The process stops, or a lock is not granted in time and it gives up.    *)
GiveUp(p) ==
    /\ stage[p] \notin {"down", "refused"} /\ halts < MaxHalts
    /\ stage' = [stage EXCEPT ![p] = "down"] /\ halts' = halts + 1
    /\ UNCHANGED <<applied, recorded, line>>

SchemaStep(p) == OpenFile(p) \/ ReadVersion(p) \/ RunLine(p) \/ Record(p) \/ ExitRefused(p)

SchemaNext == \E p \in Processes : SchemaStep(p) \/ GiveUp(p)

SchemaSpec == SchemaInit /\ [][SchemaNext]_schemaVars

-----------------------------------------------------------------------------
(* Properties.                                                             *)

(* Every variable stays in its type; a process is at a migration it knows  *)
(* and, about to run a statement, at one of that migration.                *)
SchemaTypeOK ==
    /\ applied \subseteq AllStatements /\ recorded \subseteq Versions
    /\ stage \in [Processes -> Stages] /\ halts \in 0 .. MaxHalts
    /\ line \in [Processes -> Nat \X Nat]
    /\ \A p \in Processes : /\ line[p][1] \in 1 .. Knows[p]
                            /\ stage[p] = "applying" => line[p] \in Script(line[p][1])

(* Whatever stops and whoever else migrates, a recorded version means that *)
(* every statement up to it is in effect, and a process that reports       *)
(* itself up has the schema it knows.                                      *)
Complete(v) == \A u \in 1 .. v : Script(u) \subseteq applied
VersionTellsSchema ==
    /\ \A v \in recorded : Complete(v)
    /\ \A p \in Processes : stage[p] = "ready" => Complete(Knows[p])

(* "Apply one schema migration transactionally" (the docstring of the     *)
(* code): a column of a migration that is not recorded belongs to a process*)
(* that is still applying it. It fails, and no run checks it: a process    *)
(* that stops after ALTER TABLE leaves the column behind, and every later  *)
(* start is refused on it.                                                 *)
MigrationIsAtomic == \A s \in applied \cap Once :
    \/ s[1] \in recorded
    \/ \E p \in Processes : /\ stage[p] \in {"applying", "recording"}
                            /\ line[p][1] = s[1] /\ line[p][2] > s[2]
=============================================================================
