------------------------------ MODULE MCServices ------------------------------
(***************************************************************************)
(* One run for the components that share no state with each other: part,   *)
(* chosen in the first state and kept, is the one that moves, and the      *)
(* others rest.  The algorithms without a state of their own are tried on  *)
(* inputs (Trials); no step leads away from an input.                      *)
(***************************************************************************)
EXTENDS Collection, AuditChain, AtomicWrite, AdapterRefit, MixedSearch, EmbeddingCache,
        Cascade, ManifestSchema, RunControl, Trials, Durability, FaissStore,
        SampleAllocation, CorpusSample, IndexHealth

VARIABLE part

Parts == {"collection", "audit", "write", "refit", "mixed", "cache", "cascade", "schema",
          "control", "durability", "faiss", "sample", "health", "split", "trial"}

----------------------------------------------------------------------------
(* Values for the constants *)

\* A process of each command, and one more of any.
Crew == CHOOSE crew \in [Commands -> Procs] : \A c, d \in Commands : c # d => crew[c] # crew[d]
CrewCommands == \A c \in Commands : command[Crew[c]] = c

\* No calibrator, and all that turn no two scores round.
MCCalibrators == {NoCalibrator}
    \union {c \in [StoreScores -> 0..2] : \A s, t \in StoreScores : s <= t => c[s] <= c[t]}

MCRequests == {<<"a">>, <<"b", "a", "b">>}
MCRelevance == [d \in Docs |-> d]

\* A corpus seen from one probe: small with equal scores, and larger without.
MCCorpora == UNION {[1..n -> 1..3] : n \in 1..4}
    \union {s \in [1..5 -> 1..5] : \A i, j \in 1..5 : i # j => s[i] # s[j]}

\* Clusters of very different sizes, some of them empty.
MCClusterings == [counts : [1..4 -> {0, 1, 2, 5, 13}] \ {[c \in 1..4 |-> 0]},
                  size : {4, 5, 7, 9, 12, 20}]

----------------------------------------------------------------------------
(* Inputs of the algorithms *)

\* What a store returns: distinct ids, scores that do not rise, ranks from zero.
Scores == 1..3
HitLists == UNION {{[i \in 1..n |-> [id |-> d[i], score |-> s[i], rank |-> i - 1]] :
                       d \in {f \in [1..n -> 1..3] : \A i, j \in 1..n : i # j => f[i] # f[j]},
                       s \in {f \in [1..n -> Scores] : \A i \in 2..n : f[i] <= f[i - 1]}}
                     : n \in 0..2}
TrialCalibrators == {NoCalibrator, [s \in Scores |-> s], [s \in Scores |-> 2],
                     [s \in Scores |-> IF s < 3 THEN 1 ELSE 3]}
Merges == [kind : {"merge"}, old : HitLists, new : HitLists, k : {2, 3},
           calibrator : TrialCalibrators]

\* On both sides of every threshold of the decision rule.
MCRatios == {690, 700, 840, 850, 870, 940, 950, 1000}
Measurements == [kind : {"decision"}, arr : MCRatios,
                 gain : {Unknown, 980, 1010, 1020, 1030, 1100, 1250, 1500},
                 old : {Unknown, 650, 720, 880, 970, 1000}, tier : {"t1", "t2"},
                 uninformative : BOOLEAN, cascade : {Unknown, 900, 1000},
                 text : BOOLEAN, priced : BOOLEAN]

NoTrial == [kind |-> "none"]

----------------------------------------------------------------------------

ServicesInit ==
    /\ part \in Parts
    /\ \/ part # "trial" /\ trial = NoTrial
       \/ part = "trial" /\ trial \in Merges
       \/ part = "trial" /\ trial \in Measurements
    /\ IF part = "collection" THEN Init /\ CrewCommands ELSE Init /\ \A p \in Procs : command[p] = "gc"
    /\ AuditInit /\ WriteInit /\ RefitInit /\ MixedInit
    /\ CacheInit
    /\ \/ part = "cache"
       \/ cacheVersion = 0 /\ \A p \in Encoders : enc[p].profile = CHOOSE f \in Profiles : TRUE
    /\ CascadeInit /\ withText = Docs
    /\ SchemaInit /\ (part = "schema" \/ origin = 0)
    /\ ControlInit /\ FaissInit
    /\ DurabilityInit /\ (part = "durability" \/ ~shares)
    /\ SampleInit
    /\ \/ wordless = {}
       \/ part = "sample" /\ wordless = {CHOOSE d \in Sources : TRUE}
    /\ \/ part = "health" /\ HealthInit
       \/ part # "health" /\ scan = ScanOf(<<1>>, 1, 1)
    /\ \/ part = "split" /\ SplitInit
       \/ part # "split" /\ split = SplitOf(<<1>>, 1)

ServicesNext ==
    /\ UNCHANGED <<part, trial>>
    /\ \/ /\ part = "collection" /\ Next
          /\ UNCHANGED <<auditVars, writeVars, refitVars, mixedVars, cacheVars, cascadeVars,
                         schemaVars, controlVars, durabilityVars, faissVars, sampleVars,
                         healthVars, splitVars>>
       \/ /\ part = "audit" /\ AuditNext
          /\ UNCHANGED <<vars, writeVars, refitVars, mixedVars, cacheVars, cascadeVars,
                         schemaVars, controlVars, durabilityVars, faissVars, sampleVars,
                         healthVars, splitVars>>
       \/ /\ part = "write" /\ WriteNext
          /\ UNCHANGED <<vars, auditVars, refitVars, mixedVars, cacheVars, cascadeVars,
                         schemaVars, controlVars, durabilityVars, faissVars, sampleVars,
                         healthVars, splitVars>>
       \/ /\ part = "refit" /\ RefitNext
          /\ UNCHANGED <<vars, auditVars, writeVars, mixedVars, cacheVars, cascadeVars,
                         schemaVars, controlVars, durabilityVars, faissVars, sampleVars,
                         healthVars, splitVars>>
       \/ /\ part = "mixed" /\ MixedNext
          /\ UNCHANGED <<vars, auditVars, writeVars, refitVars, cacheVars, cascadeVars,
                         schemaVars, controlVars, durabilityVars, faissVars, sampleVars,
                         healthVars, splitVars>>
       \/ /\ part = "cache" /\ CacheNext
          /\ UNCHANGED <<vars, auditVars, writeVars, refitVars, mixedVars, cascadeVars,
                         schemaVars, controlVars, durabilityVars, faissVars, sampleVars,
                         healthVars, splitVars>>
       \/ /\ part = "cascade" /\ CascadeNext
          /\ UNCHANGED <<vars, auditVars, writeVars, refitVars, mixedVars, cacheVars,
                         schemaVars, controlVars, durabilityVars, faissVars, sampleVars,
                         healthVars, splitVars>>
       \/ /\ part = "schema" /\ SchemaNext
          /\ UNCHANGED <<vars, auditVars, writeVars, refitVars, mixedVars, cacheVars,
                         cascadeVars, controlVars, durabilityVars, faissVars, sampleVars,
                         healthVars, splitVars>>
       \/ /\ part = "control" /\ ControlNext
          /\ UNCHANGED <<vars, auditVars, writeVars, refitVars, mixedVars, cacheVars,
                         cascadeVars, schemaVars, durabilityVars, faissVars, sampleVars,
                         healthVars, splitVars>>
       \/ /\ part = "durability" /\ DurabilityNext
          /\ UNCHANGED <<vars, auditVars, writeVars, refitVars, mixedVars, cacheVars,
                         cascadeVars, schemaVars, controlVars, faissVars, sampleVars,
                         healthVars, splitVars>>
       \/ /\ part = "faiss" /\ FaissNext
          /\ UNCHANGED <<vars, auditVars, writeVars, refitVars, mixedVars, cacheVars,
                         cascadeVars, schemaVars, controlVars, durabilityVars, sampleVars,
                         healthVars, splitVars>>
       \/ /\ part = "sample" /\ SampleNext
          /\ UNCHANGED <<vars, auditVars, writeVars, refitVars, mixedVars, cacheVars,
                         cascadeVars, schemaVars, controlVars, durabilityVars, faissVars,
                         healthVars, splitVars>>
       \/ /\ part = "health" /\ HealthNext
          /\ UNCHANGED <<vars, auditVars, writeVars, refitVars, mixedVars, cacheVars,
                         cascadeVars, schemaVars, controlVars, durabilityVars, faissVars,
                         sampleVars, splitVars>>
       \/ /\ part = "split" /\ SplitNext
          /\ UNCHANGED <<vars, auditVars, writeVars, refitVars, mixedVars, cacheVars,
                         cascadeVars, schemaVars, controlVars, durabilityVars, faissVars,
                         sampleVars, healthVars>>

servicesVars == <<part, trial, vars, auditVars, writeVars, refitVars, mixedVars, cacheVars,
                  cascadeVars, schemaVars, controlVars, durabilityVars, faissVars, sampleVars,
                  healthVars, splitVars>>

ServicesSpec == ServicesInit /\ [][ServicesNext]_servicesVars

=============================================================================
