--------------------------- MODULE ManifestSchema ---------------------------
(***************************************************************************)
(* manifest/db.py, _connect and _migrate: processes that open one manifest *)
(* and bring its schema up to date on the way, without a lock.  Each       *)
(* statement of a script commits by itself, and so does user_version.      *)
(***************************************************************************)
EXTENDS Integers, FiniteSets

CONSTANTS Openers, MaxOpens  \* processes, and a bound

ASSUME OpenerAssumption == MaxOpens \in Nat

SCHEMA_VERSION == 3

\* _MIGRATIONS: the first creates what is not there yet; the others add a
\* column, which fails on a table that has it.
Versions == 1..SCHEMA_VERSION
Repeatable == {1}

VARIABLES
    applied,      \* changes the tables have had
    userVersion,  \* PRAGMA user_version
    backups,      \* version -> the changes in manifest.db.bak.<version>
    opener,       \* process -> where it is, and the version it is about
    origin,       \* ghost: the version the manifest had before this release
    opens         \* ghost: for the bound

schemaVars == <<applied, userVersion, backups, opener, origin, opens>>

Closed == [at |-> "closed", version |-> 0]

SchemaInit ==
    /\ origin \in 0..(SCHEMA_VERSION + 1)
    /\ userVersion = origin /\ applied = 1..origin
    /\ backups = [v \in {} |-> {}] /\ opens = 0
    /\ opener = [p \in Openers |-> Closed]

At(p, where) == opener[p].at = where
OpenerGoes(p, where, v) == opener' = [opener EXCEPT ![p] = [at |-> where, version |-> v]]

----------------------------------------------------------------------------
(* ManifestDB._migrate *)

ReadVersion(p) ==
    /\ At(p, "closed") /\ opens < MaxOpens
    /\ opens' = opens + 1
    /\ CASE userVersion > SCHEMA_VERSION -> OpenerGoes(p, "failed", 0)
         [] userVersion = SCHEMA_VERSION -> OpenerGoes(p, "open", 0)
         [] userVersion = 0 -> OpenerGoes(p, "script", 1)
         [] OTHER -> OpenerGoes(p, "backup", userVersion)
    /\ UNCHANGED <<applied, userVersion, backups, origin>>

CopyTo(v) == backups' = [w \in DOMAIN backups \union {v} |->
                           IF w = v THEN applied ELSE backups[w]]
BackUpOver(p) ==
    /\ At(p, "backup")
    /\ OpenerGoes(p, "script", opener[p].version + 1) /\ CopyTo(opener[p].version)
    /\ UNCHANGED <<applied, userVersion, origin, opens>>

\* VACUUM INTO refuses a file that is there.
BackUp(p) ==
    /\ At(p, "backup")
    /\ LET v == opener[p].version
       IN  IF v \in DOMAIN backups
           THEN /\ OpenerGoes(p, "failed", 0) /\ UNCHANGED backups
           ELSE OpenerGoes(p, "script", v + 1) /\ CopyTo(v)
    /\ UNCHANGED <<applied, userVersion, origin, opens>>

Upgrade(p) ==
    /\ At(p, "script")
    /\ LET v == opener[p].version
       IN  IF v \in applied \ Repeatable
           THEN /\ OpenerGoes(p, "failed", 0) /\ UNCHANGED applied
           ELSE /\ OpenerGoes(p, "stamp", v) /\ applied' = applied \union {v}
    /\ UNCHANGED <<userVersion, backups, origin, opens>>

\* The version number is set to what this process has reached.
StampNext(v) == IF v < SCHEMA_VERSION THEN v + 1 ELSE v
Stamped(v) == v
Stamp(p) ==
    /\ At(p, "stamp")
    /\ LET v == opener[p].version
       IN  /\ userVersion' = Stamped(v)
           /\ IF v = SCHEMA_VERSION THEN OpenerGoes(p, "open", 0) ELSE OpenerGoes(p, "script", v + 1)
    /\ UNCHANGED <<applied, backups, origin, opens>>

\* The process closes the manifest, gives up, or is killed, anywhere.
LeaveManifest(p) ==
    /\ ~At(p, "closed") /\ opens < MaxOpens
    /\ OpenerGoes(p, "closed", 0)
    /\ UNCHANGED <<applied, userVersion, backups, origin, opens>>

SchemaNext == \E p \in Openers :
    ReadVersion(p) \/ BackUp(p) \/ Upgrade(p) \/ Stamp(p) \/ LeaveManifest(p)

SchemaSpec == SchemaInit /\ [][SchemaNext]_schemaVars

----------------------------------------------------------------------------
(* Properties *)

\* However openers and kills interleave, the version number never claims a
\* change the tables have not had, which the next opener would skip, and a
\* manifest that opened has every table and column.
VersionNeverAhead ==
    /\ userVersion <= SCHEMA_VERSION => 1..userVersion \subseteq applied
    /\ \A p \in Openers : At(p, "open") => Versions \subseteq applied

\* The manifest of an older release is changed only once a copy of it as it was
\* exists, and no later opener replaces that copy.
OldManifestIsKept ==
    /\ origin \in 1..(SCHEMA_VERSION - 1) /\ applied # 1..origin => origin \in DOMAIN backups
    /\ origin \in DOMAIN backups => backups[origin] = 1..origin

=============================================================================
