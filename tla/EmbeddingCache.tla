--------------------------- MODULE EmbeddingCache ---------------------------
(***************************************************************************)
(* storage/embedding_cache.py: processes that encode texts through one     *)
(* cache file.  A call looks its texts up, has the model encode the ones   *)
(* it did not find and the ones found at another width, stores what the    *)
(* model gave and stacks one row per text.                                 *)
(*                                                                         *)
(* The weights behind a profile may change between two runs: a vector is   *)
(* [of, width] with the text, kind and profile it encodes and the width    *)
(* its weights gave it.  A row may be cut short on disk.                   *)
(***************************************************************************)
EXTENDS Integers, Sequences, FiniteSets, SequencesExt

CONSTANTS
    Encoders,         \* processes
    Profiles,         \* fingerprints of encoding profiles
    Requests,         \* the calls made: sequences of texts
    MaxCalls, MaxCutRows \* bounds

ASSUME EncoderAssumption ==
    /\ \A r \in Requests : Len(r) > 0
    /\ MaxCalls \in Nat /\ MaxCutRows \in Nat

CACHE_SCHEMA_VERSION == 1
Kinds == {"query", "document"}
Widths == {1, 2}

VARIABLES
    rows,        \* key -> [vec, whole]; the committed table
    cacheVersion,     \* PRAGMA user_version
    weights,     \* the width the models give today
    enc,         \* process -> its profile, its file and the call in progress
    calls, cuts  \* ghost: for the bounds

cacheVars == <<rows, cacheVersion, weights, enc, calls, cuts>>

\* embedding_key: a digest of everything that can change the vector.
KeyOfText(profile, text, kind) == <<profile, text>>
EmbeddingKey(profile, text, kind) == <<profile, text, kind>>

Texts == UNION {Range(r) : r \in Requests}
AllKeys == {EmbeddingKey(f, t, kd) : f \in Profiles, t \in Texts, kd \in Kinds}
Started(f, w) == [profile |-> f, width |-> w, file |-> "closed", at |-> "idle",
                  texts |-> <<>>, kind |-> "query", asked |-> {}, held |-> <<>>,
                  produced |-> <<>>, answer |-> <<>>]

CacheInit ==
    /\ rows = <<>> /\ cacheVersion \in {0, CACHE_SCHEMA_VERSION, CACHE_SCHEMA_VERSION + 1}
    /\ weights = 1 /\ calls = 0 /\ cuts = 0
    /\ \E f \in [Encoders -> Profiles] :
         enc = [p \in Encoders |-> Started(f[p], 1)]

\* dict.update: what f holds once it was updated with g.
Updated(f, g) == [x \in DOMAIN f \union DOMAIN g |-> IF x \in DOMAIN g THEN g[x] ELSE f[x]]
Restricted(f, S) == [x \in DOMAIN f \cap S |-> f[x]]
KeysOf(c, texts, kind) == {EmbeddingKey(c.profile, t, kind) : t \in Range(texts)}

----------------------------------------------------------------------------
(* The file. *)

\* _prepare: a file of a newer release is left alone.
Refused(v) == v > CACHE_SCHEMA_VERSION

\* _open: once, and for good when it fails.
Opens(c) ==
    IF c.file # "closed" THEN {c.file}
    ELSE IF Refused(cacheVersion) THEN {"unusable"} ELSE {"open", "unusable"}

\* _select and _from_blob: a damaged row is a miss, and a read that fails on
\* the way leaves what it had read.
Readable(keys) == {k \in keys \cap DOMAIN rows : rows[k].whole}
ReadSets(file, keys) == IF file = "open" THEN SUBSET Readable(keys) ELSE {{}}

\* put: one transaction, or nothing.
Outcomes(c) ==
    LET written == [k \in DOMAIN c.produced |-> [vec |-> c.produced[k], whole |-> TRUE]]
    IN  IF c.file = "open" THEN {rows, Updated(rows, written)} ELSE {rows}

----------------------------------------------------------------------------
(* CachedEmbedder.encode *)

LookUp(p, texts, kind) ==
    /\ enc[p].at \in {"idle", "answered"} /\ calls < MaxCalls
    /\ calls' = calls + 1
    /\ \E file \in Opens(enc[p]) :
         LET keys == KeysOf(enc[p], texts, kind)
         IN  /\ cacheVersion' = IF file = "open" THEN CACHE_SCHEMA_VERSION ELSE cacheVersion
             /\ \E S \in ReadSets(file, keys) :
                  enc' = [enc EXCEPT ![p] =
                    [Started(@.profile, @.width) EXCEPT
                        !.file = file, !.at = "missing", !.texts = texts, !.kind = kind,
                        !.held = [k \in S |-> rows[k].vec]]]
    /\ UNCHANGED <<rows, weights, cuts>>

\* _run: the model encodes the texts behind some keys.
Run(c, keys) ==
    LET TextOf(k) == CHOOSE t \in Range(c.texts) : EmbeddingKey(c.profile, t, c.kind) = k
    IN  [k \in keys |-> [of |-> <<c.profile, TextOf(k), c.kind>>, width |-> c.width]]

NoneStale(found, width) == {}
Stale(found, width) == {k \in DOMAIN found : found[k].width # width}

\* The width of this call is the model's when a text was missing, and else that
\* of the first text's row.
Encode(p) ==
    LET c == enc[p]
        keys == KeysOf(c, c.texts, c.kind)
        missing == keys \ DOMAIN c.held
        width == IF missing # {} THEN c.width
                 ELSE c.held[EmbeddingKey(c.profile, c.texts[1], c.kind)].width
        stale == Stale(c.held, width)
    IN  /\ c.at = "missing"
        /\ enc' = [enc EXCEPT ![p].at = "produced", ![p].asked = missing,
                              ![p].held = Restricted(@, keys \ stale),
                              ![p].produced = Run(c, missing \union stale)]
        /\ UNCHANGED <<rows, cacheVersion, weights, calls, cuts>>

\* put, and the rows in the caller's order.
StoreAndStack(p) ==
    LET c == enc[p]
        all == Updated(c.held, c.produced)
    IN  /\ c.at = "produced"
        /\ rows' \in Outcomes(c)
        /\ enc' = [enc EXCEPT ![p].at = "answered",
                     ![p].answer = [i \in DOMAIN c.texts |->
                                      all[EmbeddingKey(c.profile, c.texts[i], c.kind)]]]
        /\ UNCHANGED <<cacheVersion, weights, calls, cuts>>

----------------------------------------------------------------------------
(* The surroundings. *)

\* A process ends, or is killed, at any moment; the next one has today's weights.
Restart(p) ==
    /\ enc[p].at # "idle"
    /\ enc' = [enc EXCEPT ![p] = Started(@.profile, weights)]
    /\ UNCHANGED <<rows, cacheVersion, weights, calls, cuts>>

NewWeights ==
    /\ weights = 1 /\ weights' = 2
    /\ UNCHANGED <<rows, cacheVersion, enc, calls, cuts>>

CutShort(k) ==
    /\ k \in DOMAIN rows /\ rows[k].whole /\ cuts < MaxCutRows
    /\ cuts' = cuts + 1
    /\ rows' = [rows EXCEPT ![k].whole = FALSE]
    /\ UNCHANGED <<cacheVersion, weights, enc, calls>>

CacheNext ==
    \/ \E p \in Encoders :
         \/ \E texts \in Requests, kind \in Kinds : LookUp(p, texts, kind)
         \/ Encode(p) \/ StoreAndStack(p) \/ Restart(p)
    \/ NewWeights
    \/ \E k \in AllKeys : CutShort(k)

CacheSpec == CacheInit /\ [][CacheNext]_cacheVars

----------------------------------------------------------------------------
(* Properties *)

CallAnswered(p) == enc[p].at = "answered"

\* Whatever other profiles, kinds and processes put into the file, and whatever
\* was lost from it, each text of a call gets, in the caller's order, a vector
\* of itself.
AnswersAreOfTheirTexts ==
    \A p \in Encoders : CallAnswered(p) =>
        \A i \in DOMAIN enc[p].texts :
            enc[p].answer[i].of = <<enc[p].profile, enc[p].texts[i], enc[p].kind>>

\* A call that had to ask the model gets rows of the model's width, though the
\* file holds what other weights left.
ModelSettlesTheWidth ==
    \A p \in Encoders : CallAnswered(p) /\ enc[p].asked # {} =>
        \A i \in DOMAIN enc[p].texts : enc[p].answer[i].width = enc[p].width

=============================================================================
