------------------------------ MODULE AuditChain ------------------------------
(***************************************************************************)
(* The audit trail of rebasis (audit/): records appended by several        *)
(* processes to one SQLite table, each sealed with the hash of its         *)
(* predecessor, the verification of that chain, and the command that       *)
(* prunes it.                                                              *)
(*                                                                         *)
(* A hash covers the whole content of a record, its predecessor's hash     *)
(* included, so distinct records have distinct hashes; a record's seq      *)
(* stands for its hash here.                                               *)
(***************************************************************************)
EXTENDS Integers, FiniteSetsExt, Functions

CONSTANTS
    Auditors,         \* processes that open the manifest
    MaxSeq, MaxClock, \* bounds on records written and on the clock
    MaxDamages        \* bound on rows altered or lost outside the program

ASSUME AuditAssumption ==
    MaxSeq \in Nat /\ MaxClock \in Nat /\ MaxDamages \in Nat

VARIABLES
    trail,    \* audit_records: seq -> row
    lastSeq,  \* SQLite's AUTOINCREMENT counter: no seq is used twice
    clock,
    auditor,  \* auditor[p]: the write or the prune that process p is in
    damages,  \* damages so far
    lost,     \* ghost: rows removed by something other than a prune
    exposed   \* ghost: rows altered, or whose removal left a successor behind

auditVars == <<trail, lastSeq, clock, auditor, damages, lost, exposed>>

GenesisHash == 0
Resting == [at |-> "idle", tip |-> GenesisHash, gap |-> 0, before |-> 0]
LatestOf(seqs) == IF seqs = {} THEN GenesisHash ELSE Max(seqs)
Tip == LatestOf(DOMAIN trail)

\* BEGIN IMMEDIATE takes the database's one write lock.
DeferredBegin == TRUE
WriteLockFree == \A p \in Auditors : auditor[p].at \notin {"begun", "sealed"}

AuditInit ==
    /\ trail = [s \in {} |-> {}] /\ lastSeq = 0 /\ clock = 1
    /\ auditor = [p \in Auditors |-> Resting]
    /\ damages = 0 /\ lost = {} /\ exposed = {}

----------------------------------------------------------------------------
(* AuditWriter.write: one transaction, the tip read inside it. *)

Begin(p) ==
    /\ auditor[p].at \in {"idle", "planned"} /\ WriteLockFree /\ lastSeq < MaxSeq
    /\ auditor' = [auditor EXCEPT ![p].at = "begun"]
    /\ UNCHANGED <<trail, lastSeq, clock, damages, lost, exposed>>

Seal(p) ==
    /\ auditor[p].at = "begun"
    /\ auditor' = [auditor EXCEPT ![p].at = "sealed", ![p].tip = Tip]
    /\ UNCHANGED <<trail, lastSeq, clock, damages, lost, exposed>>

Insert(p) ==
    LET row == [ts |-> clock, prev |-> auditor[p].tip, gap |-> auditor[p].gap, intact |-> TRUE]
    IN  /\ auditor[p].at = "sealed"
        /\ trail' = [s \in DOMAIN trail \union {lastSeq + 1} |->
                        IF s = lastSeq + 1 THEN row ELSE trail[s]]
        /\ lastSeq' = lastSeq + 1
        /\ auditor' = IF row.gap = 0 THEN [auditor EXCEPT ![p] = Resting]
                      ELSE [auditor EXCEPT ![p].at = "declared"]
        /\ UNCHANGED <<clock, damages, lost, exposed>>

\* busy_timeout runs out, or the process is killed: its transaction is undone.
GiveUp(p) ==
    /\ auditor[p].at # "idle"
    /\ auditor' = [auditor EXCEPT ![p] = Resting]
    /\ UNCHANGED <<trail, lastSeq, clock, damages, lost, exposed>>

----------------------------------------------------------------------------
(* rebasis audit prune: plan, declare the gap inside the chain, delete. *)

Older(before) == {s \in DOMAIN trail : trail[s].ts < before}

PlanPrune(p, before) ==
    /\ auditor[p].at = "idle" /\ Older(before) # {}
    /\ auditor' = [auditor EXCEPT ![p] =
           [Resting EXCEPT !.at = "planned", !.gap = LatestOf(Older(before)),
                           !.before = before]]
    /\ UNCHANGED <<trail, lastSeq, clock, damages, lost, exposed>>

\* Mutant: whatever is older goes, the record of the gap itself included.
AllOlder(p) == Older(auditor[p].before)
Doomed(p) == {s \in Older(auditor[p].before) : s <= auditor[p].gap}

Delete(p) ==
    /\ auditor[p].at = "declared" /\ WriteLockFree
    /\ trail' = Restrict(trail, DOMAIN trail \ Doomed(p))
    /\ auditor' = [auditor EXCEPT ![p] = Resting]
    /\ UNCHANGED <<lastSeq, clock, damages, lost, exposed>>

----------------------------------------------------------------------------
(* What happens to the table from outside: a row changed, a row gone. *)

Successors(s) == {t \in DOMAIN trail : trail[t].prev = s}

Alter(s) ==
    /\ damages < MaxDamages /\ WriteLockFree
    /\ trail' = [trail EXCEPT ![s].intact = FALSE]
    /\ damages' = damages + 1 /\ exposed' = exposed \union {s}
    /\ UNCHANGED <<lastSeq, clock, auditor, lost>>

Lose(s) ==
    /\ damages < MaxDamages /\ WriteLockFree
    /\ trail' = Restrict(trail, DOMAIN trail \ {s})
    /\ damages' = damages + 1 /\ lost' = lost \union {s}
    /\ exposed' = exposed \union Successors(s)
    /\ UNCHANGED <<lastSeq, clock, auditor>>

Tick ==
    /\ clock < MaxClock /\ clock' = clock + 1
    /\ UNCHANGED <<trail, lastSeq, auditor, damages, lost, exposed>>

AuditNext ==
    \/ \E p \in Auditors : Begin(p) \/ Seal(p) \/ Insert(p) \/ GiveUp(p) \/ Delete(p)
    \/ \E p \in Auditors, before \in 2..MaxClock + 1 : PlanPrune(p, before)
    \/ \E s \in DOMAIN trail : Alter(s) \/ Lose(s)
    \/ Tick

AuditSpec == AuditInit /\ [][AuditNext]_auditVars

----------------------------------------------------------------------------
(* verify_chain, with the gaps AuditReader.verify reads off the trail. *)

Gaps == {trail[s].gap : s \in DOMAIN trail} \ {0}
Expected(s) == LatestOf({t \in DOMAIN trail : t < s})

AnyLink(s) == TRUE
LinkHolds(s) == trail[s].prev = Expected(s) \/ s \in Gaps

ChainValid == \A s \in DOMAIN trail : trail[s].intact /\ LinkHolds(s)

----------------------------------------------------------------------------
(* Properties *)

\* Whatever processes write at the same time, are killed or prune, every record
\* is linked to the record written just before it: no two were sealed against
\* the same predecessor (writer.py: the tip is read inside the transaction).
TrailIsOneChain ==
    lost = {} => \A s \in DOMAIN trail : trail[s].prev = s - 1

\* A record that was altered, or whose predecessor was lost, fails verification
\* for as long as it is in the trail, except the one record an unfinished prune
\* may have declared a gap.  (A lost tail leaves nothing to find.)
DamageIsFound ==
    ChainValid => \A s \in DOMAIN trail : s \in exposed => trail[s].intact /\ s \in Gaps

\* A prune killed at any point removes no record that no surviving record
\* accounts for: the gap is declared before the rows go.
PrunesAreDeclared ==
    lost = {} => \A s \in (1..lastSeq) \ DOMAIN trail :
        \E t \in DOMAIN trail : trail[t].gap >= s

\* A prune "writes a record of its own saying where the gap is, so `audit verify`
\* reads a prune as a prune rather than as tampering" (cli/audit.py:276-278): a
\* trail that nothing but writes and prunes has touched verifies between them.
PrunedTrailVerifies ==
    lost = {} /\ exposed = {} /\ (\A p \in Auditors : auditor[p].at = "idle") => ChainValid

=============================================================================
