------------------------------ MODULE ServingProofs ------------------------------
(***************************************************************************)
(* What holds of the embedding cache (EmbeddingCache) for any number of    *)
(* processes, profiles, texts and damaged rows, of searches of a partly    *)
(* migrated index (MixedSearch) for any number of documents, results and   *)
(* steps of the migration, and of the cascade (Cascade) for any number of  *)
(* threads, documents, candidates and vectors in its cache.                *)
(***************************************************************************)
EXTENDS EmbeddingCache, MixedSearch, Cascade, AlgorithmProofs

----------------------------------------------------------------------------
(* The embedding cache *)

\* A vector of a key is one of the text, kind and profile that the key names.
OfItsKey(f) == \A k \in DOMAIN f : f[k].of = k

\* The call in progress has vectors of what it was asked for, all of them once
\* the model has answered, and of one width if the model was asked.
CallSound(c) ==
    /\ DOMAIN c = {"profile", "width", "file", "at", "texts", "kind", "asked", "held",
                   "produced", "answer"}
    /\ OfItsKey(c.held) /\ OfItsKey(c.produced)
    /\ c.at = "missing" => DOMAIN c.held \subseteq KeysOf(c, c.texts, c.kind)
    /\ c.at = "produced" =>
          /\ KeysOf(c, c.texts, c.kind) \subseteq DOMAIN c.held \union DOMAIN c.produced
          /\ c.asked # {} => /\ \A k \in DOMAIN c.held : c.held[k].width = c.width
                             /\ \A k \in DOMAIN c.produced : c.produced[k].width = c.width
    /\ c.at = "answered" =>
          \A i \in DOMAIN c.texts :
             /\ c.answer[i].of = <<c.profile, c.texts[i], c.kind>>
             /\ c.asked # {} => c.answer[i].width = c.width

CacheInv ==
    /\ enc = [p \in Encoders |-> enc[p]]
    /\ \A k \in DOMAIN rows : DOMAIN rows[k] = {"vec", "whole"} /\ rows[k].vec.of = k
    /\ \A p \in Encoders : CallSound(enc[p])

\* A process without a call in progress is sound.
LEMMA StartedIsSound == ASSUME NEW f, NEW w PROVE CallSound(Started(f, w))
  BY DEF CallSound, Started, OfItsKey

\* CacheInv holds of a cache nobody has used yet.
LEMMA CacheInvInit == CacheInit => CacheInv
  BY StartedIsSound DEF CacheInit, CacheInv

\* The model gives a vector of the text behind each key.
LEMMA RunIsOfItsKey ==
  ASSUME NEW c, NEW keys \in SUBSET KeysOf(c, c.texts, c.kind)
  PROVE  /\ DOMAIN Run(c, keys) = keys /\ OfItsKey(Run(c, keys))
         /\ \A k \in keys : Run(c, keys)[k].width = c.width
  <1> DEFINE TextAsked(k) == CHOOSE t \in Range(c.texts) : EmbeddingKey(c.profile, t, c.kind) = k
  <1>1. Run(c, keys) = [k \in keys |-> [of |-> <<c.profile, TextAsked(k), c.kind>>,
                                        width |-> c.width]]
    BY Zenon DEF Run
  <1>2. ASSUME NEW k \in keys PROVE <<c.profile, TextAsked(k), c.kind>> = k
    <2>1. \E t \in Range(c.texts) : EmbeddingKey(c.profile, t, c.kind) = k
      BY Zenon DEF KeysOf
    <2>2. EmbeddingKey(c.profile, TextAsked(k), c.kind) = k
      BY <2>1, Zenon
    <2>3. QED BY <2>2 DEF EmbeddingKey
  <1> HIDE DEF TextAsked
  <1>3. QED BY <1>1, <1>2 DEF OfItsKey

\* So is one that has looked its texts up and found vectors of them.
LEMMA LookedUpIsSound ==
  ASSUME NEW f, NEW w, NEW file, NEW texts, NEW kind, NEW h, OfItsKey(h),
         DOMAIN h \subseteq KeysOf(Started(f, w), texts, kind)
  PROVE  CallSound([Started(f, w) EXCEPT !.file = file, !.at = "missing", !.texts = texts,
                                         !.kind = kind, !.held = h])
  <1> DEFINE b == Started(f, w)
             c == [b EXCEPT !.file = file, !.at = "missing", !.texts = texts,
                            !.kind = kind, !.held = h]
  <1>1. /\ DOMAIN b = {"profile", "width", "file", "at", "texts", "kind", "asked", "held",
                       "produced", "answer"}
        /\ OfItsKey(b.produced)
    BY DEF Started, OfItsKey
  <1> HIDE DEF b
  <1>2. /\ DOMAIN c = DOMAIN b /\ c.held = h /\ c.produced = b.produced /\ c.at = "missing"
        /\ c.texts = texts /\ c.kind = kind /\ c.profile = b.profile
    BY <1>1
  <1> HIDE DEF c
  <1>3. KeysOf(c, c.texts, c.kind) = KeysOf(b, texts, kind)
    BY <1>2, Zenon DEF KeysOf
  <1>4. CallSound(c)
    BY <1>1, <1>2, <1>3 DEF CallSound, b
  <1>5. QED BY <1>4 DEF c, b

\* A process that moves to a sound call keeps CacheInv, with the table as it was.
LEMMA EncoderMoves ==
  ASSUME CacheInv, NEW p \in Encoders, NEW c, CallSound(c), enc' = [enc EXCEPT ![p] = c],
         \A k \in DOMAIN rows' : DOMAIN rows'[k] = {"vec", "whole"} /\ rows'[k].vec.of = k
  PROVE  CacheInv'
  <1>1. enc = [q \in Encoders |-> enc[q]] /\ \A q \in Encoders : CallSound(enc[q])
    BY DEF CacheInv
  <1>2. enc' = [q \in Encoders |-> enc'[q]] /\ \A q \in Encoders : CallSound(enc'[q])
    BY <1>1
  <1>3. QED BY <1>2 DEF CacheInv

\* What is looked up is read as the file has it.
LEMMA LookUpKeeps ==
  ASSUME CacheInv, NEW p \in Encoders, NEW texts \in Requests, NEW kind \in Kinds,
         LookUp(p, texts, kind)
  PROVE  CacheInv'
  <1> DEFINE c(file, S) == [Started(enc[p].profile, enc[p].width) EXCEPT
                 !.file = file, !.at = "missing", !.texts = texts, !.kind = kind,
                 !.held = [k \in S |-> rows[k].vec]]
  <1>1. PICK file \in Opens(enc[p]) :
           \E S \in ReadSets(file, KeysOf(enc[p], texts, kind)) :
              enc' = [enc EXCEPT ![p] = c(file, S)]
    BY Zenon DEF LookUp
  <1>2. PICK S \in ReadSets(file, KeysOf(enc[p], texts, kind)) :
              enc' = [enc EXCEPT ![p] = c(file, S)]
    BY <1>1
  <1>3. S \subseteq DOMAIN rows
    BY DEF ReadSets, Readable
  <1>4. UNCHANGED rows
    BY DEF LookUp
  <1>5. OfItsKey([k \in S |-> rows[k].vec])
    BY <1>3 DEF OfItsKey, CacheInv
  <1>6. CallSound(c(file, S))
    <2> DEFINE h == [k \in S |-> rows[k].vec]
    <2>1. OfItsKey(h)
      BY <1>5
    <2>2. DOMAIN h \subseteq KeysOf(Started(enc[p].profile, enc[p].width), texts, kind)
      <3>1. Started(enc[p].profile, enc[p].width).profile = enc[p].profile
        BY DEF Started
      <3>2. KeysOf(Started(enc[p].profile, enc[p].width), texts, kind)
              = KeysOf(enc[p], texts, kind)
        BY <3>1, Zenon DEF KeysOf
      <3>3. S \subseteq KeysOf(enc[p], texts, kind)
        BY DEF ReadSets, Readable
      <3>4. QED BY <3>2, <3>3
    <2> HIDE DEF h
    <2>3. CallSound([Started(enc[p].profile, enc[p].width) EXCEPT
                 !.file = file, !.at = "missing", !.texts = texts, !.kind = kind, !.held = h])
      BY <2>1, <2>2, LookedUpIsSound
    <2>4. QED BY <2>3 DEF h
  <1> HIDE DEF c
  <1>7. QED BY <1>2, <1>4, <1>6, EncoderMoves DEF CacheInv

\* The model gives the vectors that were missing and those of another width.
LEMMA EncodeKeeps ==
  ASSUME CacheInv, NEW p \in Encoders, Encode(p)
  PROVE  CacheInv'
  <1> DEFINE c == enc[p]
             keys == KeysOf(c, c.texts, c.kind)
             missing == keys \ DOMAIN c.held
             width == IF missing # {} THEN c.width
                      ELSE c.held[EmbeddingKey(c.profile, c.texts[1], c.kind)].width
             stale == Stale(c.held, width)
             held == Restricted(c.held, keys \ stale)
             produced == Run(c, missing \union stale)
             d == [c EXCEPT !.at = "produced", !.asked = missing, !.held = held,
                            !.produced = produced]
  <1>1. c.at = "missing" /\ CallSound(c)
    BY DEF Encode, CacheInv
  <1>2. enc' = [enc EXCEPT ![p] = d] /\ UNCHANGED rows
    BY DEF Encode
  <1>3. stale \subseteq keys
    BY <1>1 DEF CallSound, Stale
  <1>4. /\ DOMAIN produced = missing \union stale /\ OfItsKey(produced)
        /\ \A k \in missing \union stale : produced[k].width = c.width
    <2>1. missing \union stale \in SUBSET keys
      BY <1>3
    <2> HIDE DEF missing, stale
    <2>2. QED BY <2>1, RunIsOfItsKey
  <1>5. /\ DOMAIN held = DOMAIN c.held \intersect (keys \ stale)
        /\ \A k \in DOMAIN held : held[k] = c.held[k]
    BY DEF Restricted
  <1>6. missing # {} => \A k \in DOMAIN held : held[k].width = c.width
    BY <1>5 DEF Stale
  <1>7. keys \subseteq DOMAIN held \union DOMAIN produced
    BY <1>4, <1>5
  <1>8. OfItsKey(held)
    BY <1>1, <1>5 DEF CallSound, OfItsKey
  <1> HIDE DEF missing, stale, held, produced, c
  <1>9. /\ DOMAIN d = DOMAIN c /\ d.at = "produced" /\ d.asked = missing /\ d.held = held
        /\ d.produced = produced /\ d.texts = c.texts /\ d.kind = c.kind
        /\ d.profile = c.profile /\ d.width = c.width
    BY <1>1 DEF CallSound
  <1>10. KeysOf(d, d.texts, d.kind) = keys
    BY <1>9, Zenon DEF KeysOf
  <1> HIDE DEF keys, d
  <1>11. CallSound(d)
    BY <1>1, <1>4, <1>6, <1>7, <1>8, <1>9, <1>10 DEF CallSound
  <1>12. QED BY <1>2, <1>11, EncoderMoves DEF CacheInv

\* The rows are stacked by their texts, and the file takes them under their keys.
LEMMA StoreAndStackKeeps ==
  ASSUME CacheInv, NEW p \in Encoders, StoreAndStack(p)
  PROVE  CacheInv'
  <1> DEFINE c == enc[p]
             all == Updated(c.held, c.produced)
             stacked == [i \in DOMAIN c.texts |->
                          all[EmbeddingKey(c.profile, c.texts[i], c.kind)]]
             d == [c EXCEPT !.at = "answered", !.answer = stacked]
             written == [k \in DOMAIN c.produced |-> [vec |-> c.produced[k], whole |-> TRUE]]
  <1>1. c.at = "produced" /\ CallSound(c)
    BY DEF StoreAndStack, CacheInv
  <1>2. rows' \in Outcomes(c) /\ enc' = [enc EXCEPT ![p] = d]
    BY DEF StoreAndStack
  <1>3. /\ DOMAIN all = DOMAIN c.held \union DOMAIN c.produced
        /\ \A k \in DOMAIN all :
              \/ k \in DOMAIN c.held /\ all[k] = c.held[k]
              \/ k \in DOMAIN c.produced /\ all[k] = c.produced[k]
    BY DEF Updated
  <1>4. ASSUME NEW i \in DOMAIN c.texts
        PROVE  /\ stacked[i].of = <<c.profile, c.texts[i], c.kind>>
               /\ c.asked # {} => stacked[i].width = c.width
    <2> DEFINE k == EmbeddingKey(c.profile, c.texts[i], c.kind)
    <2>1. k \in KeysOf(c, c.texts, c.kind)
      BY Zenon DEF KeysOf, Range
    <2>2. k = <<c.profile, c.texts[i], c.kind>>
      BY DEF EmbeddingKey
    <2>3. stacked[i] = all[k]
      OBVIOUS
    <2> HIDE DEF k, all, stacked
    <2>4. k \in DOMAIN all
      BY ONLY <1>1, <1>3, <2>1 DEF CallSound
    <2>5. QED BY <1>1, <1>3, <2>2, <2>3, <2>4 DEF CallSound, OfItsKey
  <1>5. \A k \in DOMAIN rows' : DOMAIN rows'[k] = {"vec", "whole"} /\ rows'[k].vec.of = k
    <2>1. \A k \in DOMAIN written : DOMAIN written[k] = {"vec", "whole"} /\ written[k].vec.of = k
      BY <1>1 DEF CallSound, OfItsKey
    <2>2. rows' = rows \/ rows' = Updated(rows, written)
      BY <1>2 DEF Outcomes
    <2> HIDE DEF written
    <2>3. QED BY <2>1, <2>2 DEF CacheInv, Updated
  <1> HIDE DEF c, all, stacked
  <1>6. /\ DOMAIN d = DOMAIN c /\ d.at = "answered" /\ d.answer = stacked /\ d.texts = c.texts
        /\ d.kind = c.kind /\ d.profile = c.profile /\ d.width = c.width /\ d.asked = c.asked
        /\ d.held = c.held /\ d.produced = c.produced
    BY <1>1 DEF CallSound
  <1> HIDE DEF d
  <1>7. CallSound(d)
    BY <1>1, <1>4, <1>6 DEF CallSound
  <1>8. QED BY <1>2, <1>5, <1>7, EncoderMoves

\* CacheInv is inductive.
LEMMA CacheStep == CacheInv /\ [CacheNext]_cacheVars => CacheInv'
  <1> SUFFICES ASSUME CacheInv, [CacheNext]_cacheVars PROVE CacheInv'
    OBVIOUS
  <1>1. CASE UNCHANGED cacheVars
    BY <1>1 DEF cacheVars, CacheInv
  <1>2. ASSUME NEW p \in Encoders,
               \/ \E texts \in Requests, kind \in Kinds : LookUp(p, texts, kind)
               \/ Encode(p) \/ StoreAndStack(p) \/ Restart(p)
        PROVE  CacheInv'
    <2>1. CASE \E texts \in Requests, kind \in Kinds : LookUp(p, texts, kind)
      BY <2>1, LookUpKeeps
    <2>2. CASE Encode(p)
      BY <2>2, EncodeKeeps
    <2>3. CASE StoreAndStack(p)
      BY <2>3, StoreAndStackKeeps
    <2>4. CASE Restart(p)
      <3>1. CallSound(Started(enc[p].profile, weights)) /\ UNCHANGED rows
            /\ enc' = [enc EXCEPT ![p] = Started(enc[p].profile, weights)]
        BY <2>4, StartedIsSound DEF Restart
      <3>2. QED BY <3>1, EncoderMoves DEF CacheInv
    <2>5. QED BY <1>2, <2>1, <2>2, <2>3, <2>4
  <1>3. CASE NewWeights
    BY <1>3 DEF NewWeights, CacheInv
  <1>4. ASSUME NEW k \in AllKeys, CutShort(k) PROVE CacheInv'
    BY <1>4 DEF CutShort, CacheInv
  <1>5. QED BY <1>1, <1>2, <1>3, <1>4 DEF CacheNext

\* CacheInv holds in every reachable state.
THEOREM CacheAlways == CacheSpec => []CacheInv
  BY CacheInvInit, CacheStep, PTL DEF CacheSpec

\* Each text of a call gets a vector of itself, whatever else is in the file
\* (CachedEmbedder.encode).
THEOREM AnswersAreOfTheirTextsAlways == CacheSpec => []AnswersAreOfTheirTexts
  <1>1. CacheInv => AnswersAreOfTheirTexts
    BY DEF CacheInv, CallSound, AnswersAreOfTheirTexts, CallAnswered
  <1>2. QED BY <1>1, CacheAlways, PTL

\* A call that asked the model answers in the model's width, whatever widths the
\* file holds (CachedEmbedder.encode).
THEOREM ModelSettlesTheWidthAlways == CacheSpec => []ModelSettlesTheWidth
  <1>1. CacheInv => ModelSettlesTheWidth
    BY DEF CacheInv, CallSound, ModelSettlesTheWidth, CallAnswered
  <1>2. QED BY <1>1, CacheAlways, PTL

----------------------------------------------------------------------------
(* Searches of a partly migrated index *)

Searching == query.at \in {"new", "old", "lookup"}

MixedTypeOK ==
    /\ space \in [Documents -> {"old", "new"}] /\ state \in [Documents -> {"pending", "done"}]
    /\ DOMAIN query = {"at", "asked", "migrated", "bridged", "foreign"}
    /\ query.at \in {"closed", "idle", "new", "old", "lookup"}
    /\ query.foreign \subseteq {"new", "old"} \X Documents

\* A result scored across spaces is of a document that was between its write and
\* its mark during the query, or that the queue still sorts out.
Explained(d) ==
    /\ <<"new", d>> \in query.foreign => d \in touched \/ (space[d] = "old" /\ d \notin Marked)
    /\ <<"old", d>> \in query.foreign => d \in touched \/ (space[d] = "new" /\ d \in Marked)

MixedInv ==
    /\ MixedTypeOK
    /\ Searching => InFlight \subseteq touched /\ \A d \in Documents : Explained(d)
    /\ QueryAnswered => answer.foreign \subseteq touched

\* MixedInv holds before the first query.
LEMMA MixedInvInit == MixedInit => MixedInv
  BY DEF MixedInit, MixedInv, MixedTypeOK, Searching, QueryAnswered, NoQuery

\* The migration moves documents under a query: each is touched when it is.
LEMMA MigrationMoves ==
  ASSUME MixedInv, NEW d \in Documents, Write(d) \/ MarkDone(d) \/ RestoreOne(d) \/ Requeue(d)
  PROVE  MixedInv'
  <1>1. MixedTypeOK /\ UNCHANGED <<query, answer>> /\ Touch
    BY DEF MixedInv, Write, MarkDone, RestoreOne, Requeue
  <1>2. /\ space' \in [Documents -> {"old", "new"}] /\ state' \in [Documents -> {"pending", "done"}]
        /\ \A e \in Documents : e # d => space'[e] = space[e] /\ state'[e] = state[e]
    BY <1>1 DEF MixedTypeOK, Write, MarkDone, RestoreOne, Requeue
  <1>3. MixedTypeOK'
    BY <1>1, <1>2 DEF MixedTypeOK
  <1>4. QueryAnswered' => answer'.foreign \subseteq touched'
    BY <1>1 DEF MixedInv, QueryAnswered, Touch
  <1>5. ASSUME Searching PROVE InFlight' \subseteq touched' /\ \A e \in Documents : Explained(e)'
    <2>1. touched' = touched \union InFlight'
      BY <1>1, <1>5 DEF Touch, InFlight, Searching
    <2>2. InFlight \subseteq touched /\ \A e \in Documents : Explained(e)
      BY <1>5 DEF MixedInv
    <2>3. ASSUME NEW e \in Documents PROVE Explained(e)'
      <3>1. CASE e # d
        BY <1>1, <1>2, <2>1, <2>2, <3>1 DEF Explained, Marked
      <3>2. CASE e = d
        BY <1>1, <1>2, <2>1, <2>2, <3>2
        DEF Explained, InFlight, Marked, Rewritten, Write, MarkDone, RestoreOne, Requeue,
            MixedTypeOK
      <3>3. QED BY <3>1, <3>2
    <2>4. QED BY <2>1, <2>3
  <1>6. Searching' => Searching
    BY <1>1 DEF Searching
  <1>7. QED BY <1>3, <1>4, <1>5, <1>6 DEF MixedInv

\* A query starts with what is in flight touched, and collects what it finds.
LEMMA QueryMoves ==
  ASSUME MixedInv, Install \/ ReadProgress(MaxQueries) \/ SearchNew \/ SearchOld
  PROVE  MixedInv'
  <1>1. MixedTypeOK
    BY DEF MixedInv
  <1>2. CASE Install
    <2>1. /\ query' = NoQuery /\ UNCHANGED <<space, state>>
      BY <1>2 DEF Install
    <2>2. QED BY <1>1, <2>1 DEF MixedInv, MixedTypeOK, NoQuery, Searching, QueryAnswered
  <1>3. CASE ReadProgress(MaxQueries)
    <2>1. /\ query' = [NoQuery EXCEPT !.at = "new", !.asked = query.asked + 1]
          /\ touched' = InFlight /\ UNCHANGED <<space, state>>
      BY <1>3 DEF ReadProgress
    <2>2. /\ DOMAIN query' = {"at", "asked", "migrated", "bridged", "foreign"}
          /\ query'.at = "new" /\ query'.foreign = {}
      BY <2>1 DEF NoQuery
    <2>3. InFlight' = InFlight
      BY <2>1 DEF InFlight, Rewritten, Marked
    <2>4. QED BY <1>1, <2>1, <2>2, <2>3
              DEF MixedInv, MixedTypeOK, Searching, QueryAnswered, Explained
  <1>4. CASE SearchNew
    <2>1. PICK hits \in Results("new", reading) :
             query' = [query EXCEPT !.at = "old", !.migrated = hits,
                                    !.foreign = {<<"new", d>> : d \in Foreign(hits, "new")}]
      BY <1>4 DEF SearchNew
    <2> DEFINE F == {<<"new", d>> : d \in Foreign(hits, "new")}
    <2>2. query.at = "new" /\ UNCHANGED <<space, state, touched>>
      BY <1>4 DEF SearchNew
    <2>3. InFlight' = InFlight /\ InFlight \subseteq touched
      BY <2>2 DEF InFlight, Rewritten, Marked, MixedInv, Searching
    <2>4. \A e \in F : /\ e \in {"new", "old"} \X Documents
                       /\ \E d \in Documents : e = <<"new", d>> /\ space[d] # "new"
      BY DEF Foreign
    <2> HIDE DEF F
    <2>5. /\ DOMAIN query' = DOMAIN query /\ query'.at = "old" /\ query'.foreign = F
      BY <1>1, <2>1 DEF F, MixedTypeOK
    <2>6. ASSUME NEW d \in Documents PROVE Explained(d)'
      <3>1. <<"old", d>> \notin F
        BY <2>4
      <3>2. <<"new", d>> \in F => space[d] = "old"
        BY <1>1, <2>4 DEF MixedTypeOK
      <3>3. space[d] = "old" => d \in touched \/ d \notin Marked
        BY <2>3 DEF InFlight, Rewritten
      <3>4. Marked' = Marked
        BY <2>2 DEF Marked
      <3>5. QED BY <2>2, <2>5, <3>1, <3>2, <3>3, <3>4 DEF Explained
    <2>7. QED BY <1>1, <2>2, <2>3, <2>4, <2>5, <2>6
              DEF MixedInv, MixedTypeOK, Searching, QueryAnswered
  <1>5. CASE SearchOld
    <2>1. PICK hits \in Results("old", Indexed - reading) :
             query' = [query EXCEPT !.at = "lookup", !.bridged = hits,
                                    !.foreign = @ \union {<<"old", d>> : d \in Foreign(hits, "old")}]
      BY <1>5 DEF SearchOld
    <2> DEFINE F == {<<"old", d>> : d \in Foreign(hits, "old")}
    <2>2. query.at = "old" /\ UNCHANGED <<space, state, touched>>
      BY <1>5 DEF SearchOld
    <2>3. /\ InFlight' = InFlight /\ InFlight \subseteq touched /\ \A d \in Documents : Explained(d)
      BY <2>2 DEF InFlight, Rewritten, Marked, MixedInv, Searching
    <2>4. \A e \in F : /\ e \in {"new", "old"} \X Documents
                       /\ \E d \in Documents : e = <<"old", d>> /\ space[d] # "old"
      BY DEF Foreign
    <2> HIDE DEF F
    <2>5. /\ DOMAIN query' = DOMAIN query /\ query'.at = "lookup"
          /\ query'.foreign = query.foreign \union F
      BY <1>1, <2>1 DEF F, MixedTypeOK
    <2>6. ASSUME NEW d \in Documents PROVE Explained(d)'
      <3>1. <<"new", d>> \notin F
        BY <2>4
      <3>2. <<"old", d>> \in F => space[d] = "new"
        BY <1>1, <2>4 DEF MixedTypeOK
      <3>3. space[d] = "new" => d \in touched \/ d \in Marked
        BY <2>3 DEF InFlight, Rewritten
      <3>4. Marked' = Marked
        BY <2>2 DEF Marked
      <3>5. QED BY <2>2, <2>3, <2>5, <3>1, <3>2, <3>3, <3>4 DEF Explained
    <2>7. QED BY <1>1, <2>2, <2>3, <2>4, <2>5, <2>6
              DEF MixedInv, MixedTypeOK, Searching, QueryAnswered
  <1>6. QED BY <1>2, <1>3, <1>4, <1>5

\* The queue decides what each side keeps, and every foreign score that is left
\* is of a document the query saw moving.
LEMMA MergeMoves ==
  ASSUME MixedInv, LookUpAndMerge
  PROVE  MixedInv'
  <1> DEFINE new == NewSide(query.migrated, Marked)
             old == OldSide(query.bridged, Marked)
             foreign == {d \in new : <<"new", d>> \in query.foreign}
                          \union {d \in old : <<"old", d>> \in query.foreign}
  <1>1. /\ query.at = "lookup" /\ query' = [NoQuery EXCEPT !.asked = query.asked]
        /\ UNCHANGED <<space, state, touched>>
    BY DEF LookUpAndMerge
  <1>2. answer'.foreign = foreign
    BY DEF LookUpAndMerge
  <1>3. MixedTypeOK /\ \A d \in Documents : Explained(d)
    BY <1>1 DEF MixedInv, Searching
  <1>4. \A d : <<"new", d>> \in query.foreign \/ <<"old", d>> \in query.foreign => d \in Documents
    BY <1>3 DEF MixedTypeOK
  <1>5. foreign \subseteq touched
    BY <1>3, <1>4 DEF Explained, NewSide, OldSide
  <1> HIDE DEF foreign
  <1>6. /\ DOMAIN query' = {"at", "asked", "migrated", "bridged", "foreign"}
        /\ query'.at = "idle" /\ query'.foreign = {}
    BY <1>1 DEF NoQuery
  <1>7. QED BY <1>1, <1>2, <1>3, <1>5, <1>6
           DEF MixedInv, MixedTypeOK, Searching, QueryAnswered

\* MixedInv is inductive.
LEMMA MixedStep == MixedInv /\ [MixedNext]_mixedVars => MixedInv'
  <1> SUFFICES ASSUME MixedInv, [MixedNext]_mixedVars PROVE MixedInv'
    OBVIOUS
  <1>1. CASE UNCHANGED mixedVars
    BY <1>1 DEF mixedVars, MixedInv, MixedTypeOK, Searching, QueryAnswered, Explained, InFlight,
                Rewritten, Marked
  <1>2. CASE \E d \in Documents : Write(d) \/ MarkDone(d) \/ RestoreOne(d) \/ Requeue(d)
    BY <1>2, MigrationMoves
  <1>3. CASE BeginRollback
    BY <1>3 DEF BeginRollback, MixedInv, MixedTypeOK, Searching, QueryAnswered, Explained,
                InFlight, Rewritten, Marked
  <1>4. CASE Install \/ ReadProgress(MaxQueries) \/ SearchNew \/ SearchOld
    BY <1>4, QueryMoves
  <1>5. CASE LookUpAndMerge
    BY <1>5, MergeMoves
  <1>6. QED BY <1>1, <1>2, <1>3, <1>4, <1>5 DEF MixedNext

\* A document the migration did not touch during a query is merged with a score of
\* the space its vector is in, for any number of documents and results
\* (MixedSpaceSearch.search).
THEOREM SettledHitsAreInTheirSpaceAlways == MixedSpec => []SettledHitsAreInTheirSpace
  <1>1. MixedInv => SettledHitsAreInTheirSpace
    BY DEF MixedInv, SettledHitsAreInTheirSpace
  <1>2. QED BY <1>1, MixedInvInit, MixedStep, PTL DEF MixedSpec

\* The scores of a result are such as a calibrator maps.
StoreScored(hits) == \A i \in 1..Len(hits) : hits[i].score \in StoreScores

\* As many of the results as there are, in the order of the ranking.
FoundOf(hits, ranking, n) ==
    /\ Result(hits) /\ StoreScored(hits) /\ Len(hits) = n
    /\ \A i \in 1..n : hits[i].id = ranking[i]

\* What a search to a depth finds of a ranking.
LEMMA FoundIs ==
  ASSUME NEW p \in Rankings, NEW depth \in Nat
  PROVE  FoundOf(Found(p, depth), p, Smaller(Indexed, depth))
  <1> DEFINE all == [i \in Documents |-> [id |-> p[i], score |-> Indexed - i, rank |-> i - 1]]
             T == [id : Int, score : Int, rank : Nat]
             n == Smaller(Indexed, depth)
             hits == Found(p, depth)
  <1>1. Indexed \in Nat /\ n \in Nat /\ n <= Indexed
    BY MixedAssumption DEF Smaller
  <1>2. \A i \in 1..Indexed : p[i] \in Int /\ Indexed - i \in Int /\ i - 1 \in Nat
    BY <1>1 DEF Rankings, Documents
  <1>3. all \in [1..Indexed -> T]
    BY <1>2 DEF Documents
  <1>4. all \in Seq(T) /\ Len(all) = Indexed
    BY <1>1, <1>3
  <1>5. hits = SubSeq(all, 1, n)
    BY <1>4 DEF Found, Take, Smaller
  <1>6. \A i \in 1..Indexed : all[i] = [id |-> p[i], score |-> Indexed - i, rank |-> i - 1]
    BY DEF Documents
  <1> HIDE DEF all, T, n, hits
  <1>7. hits \in Seq(T) /\ Len(hits) = n /\ \A i \in 1..n : hits[i] = all[i]
    BY <1>1, <1>4, <1>5
  <1>8. \A i \in 1..n : i \in 1..Indexed
    BY <1>1
  <1>9. \A i \in 1..n : hits[i].id = p[i] /\ hits[i].score = Indexed - i /\ hits[i].rank = i - 1
    <2> SUFFICES ASSUME NEW i \in 1..n
                 PROVE  hits[i].id = p[i] /\ hits[i].score = Indexed - i /\ hits[i].rank = i - 1
      OBVIOUS
    <2>1. hits[i] = [id |-> p[i], score |-> Indexed - i, rank |-> i - 1]
      BY <1>6, <1>7, <1>8
    <2>2. QED BY <2>1
  <1>10. \A i, j \in 1..n : i # j => p[i] # p[j]
    BY <1>8 DEF Rankings, Documents
  <1>11. Result(hits)
    <2>1. hits \in [1..Len(hits) -> T] /\ Len(hits) \in Nat
      BY <1>7
    <2>2. \A i, j \in 1..n : i < j => hits[i].score >= hits[j].score
      BY <1>1, <1>9
    <2>3. QED BY <1>7, <1>9, <1>10, <2>1, <2>2 DEF Result, T
  <1>12. StoreScored(hits)
    <2>1. \A i \in 1..n : Indexed - i \in StoreScores
      BY <1>1 DEF StoreScores
    <2>2. QED BY <1>7, <1>9, <2>1 DEF StoreScored
  <1>13. QED BY <1>7, <1>9, <1>11, <1>12 DEF FoundOf, hits, n

\* A side without a search has no results.
LEMMA NothingFound == Result(<<>>) /\ StoreScored(<<>>) /\ Ids(<<>>) = {} /\ Len(<<>>) = 0
  BY DEF Result, StoreScored, Ids

\* What a side keeps is a result again, of the documents it keeps, with their scores.
LEMMA ThoseIs ==
  ASSUME NEW hits, Result(hits), NEW kept
  PROVE  /\ Result(Those(hits, kept)) /\ Ids(Those(hits, kept)) = Ids(hits) \intersect kept
         /\ StoreScored(hits) => StoreScored(Those(hits, kept))
  <1> DEFINE n == Len(hits)
             S == {i \in DOMAIN hits : hits[i].id \in kept}
             places == InPlace(S)
             m == Cardinality(S)
             T == [id : Int, score : Int, rank : Nat]
             those == Those(hits, kept)
  <1>1. /\ n \in Nat /\ DOMAIN hits = 1..n /\ hits \in [1..n -> T]
        /\ \A i, j \in 1..n : i # j => hits[i].id # hits[j].id
        /\ \A i, j \in 1..n : i < j => hits[i].score >= hits[j].score
    BY DEF Result
  <1>2. S \in SUBSET (1..n)
    BY <1>1
  <1>3. those = [j \in DOMAIN places |-> [hits[places[j]] EXCEPT !.rank = j - 1]]
    BY DEF Those, Renumber
  <1> HIDE DEF S
  <1>4. /\ m \in Nat /\ places \in [1..m -> S]
        /\ \A i \in S : \E j \in 1..m : places[j] = i
        /\ \A i, j \in 1..m : i < j => places[i] < places[j]
    BY <1>1, <1>2, InPlaceIs
  <1> HIDE DEF places, m, those
  <1>5. those = [j \in 1..m |-> [hits[places[j]] EXCEPT !.rank = j - 1]]
    BY <1>3, <1>4
  <1>6. \A j \in 1..m : places[j] \in 1..n /\ hits[places[j]] \in T
    BY <1>1, <1>2, <1>4
  <1>7. ASSUME NEW j \in 1..m
        PROVE  /\ those[j] \in T /\ those[j].id = hits[places[j]].id
               /\ those[j].score = hits[places[j]].score /\ those[j].rank = j - 1
    <2>1. j - 1 \in Nat
      BY <1>4
    <2>2. those[j] = [hits[places[j]] EXCEPT !.rank = j - 1]
      BY <1>5
    <2>3. hits[places[j]] \in T
      BY <1>6
    <2>4. \A h \in T, r \in Nat :
            /\ [h EXCEPT !.rank = r] \in T /\ [h EXCEPT !.rank = r].id = h.id
            /\ [h EXCEPT !.rank = r].score = h.score /\ [h EXCEPT !.rank = r].rank = r
      OBVIOUS
    <2> HIDE DEF T
    <2>5. QED BY <2>1, <2>2, <2>3, <2>4
  <1>8. those \in [1..m -> T] /\ Len(those) = m /\ DOMAIN those = 1..m
    <2> HIDE DEF T
    <2>1. those \in [1..m -> T]
      BY <1>5, <1>7
    <2>2. QED BY <1>4, <2>1
  <1>9. ASSUME NEW i \in 1..m, NEW j \in 1..m, i < j
        PROVE  those[i].id # those[j].id /\ those[i].score >= those[j].score
    <2>1. places[i] < places[j] /\ places[i] \in 1..n /\ places[j] \in 1..n
      BY <1>4, <1>6, <1>9
    <2>2. places[i] # places[j]
      BY <1>1, <2>1
    <2>3. QED BY <1>1, <1>7, <2>1, <2>2
  <1>10. Result(those)
    <2>1. \A i, j \in 1..m : i # j => those[i].id # those[j].id
      <3> SUFFICES ASSUME NEW i \in 1..m, NEW j \in 1..m, i # j PROVE those[i].id # those[j].id
        OBVIOUS
      <3>1. i < j \/ j < i
        BY <1>4
      <3>2. QED BY <1>9, <3>1
    <2>2. QED BY <1>4, <1>7, <1>8, <1>9, <2>1 DEF Result, T
  <1>11. Ids(those) = Ids(hits) \intersect kept
    <2>1. Ids(those) = {hits[places[j]].id : j \in 1..m}
      <3>1. Ids(those) = {those[j].id : j \in 1..m}
        BY <1>8 DEF Ids
      <3>2. \A j \in 1..m : those[j].id = hits[places[j]].id
        BY <1>7
      <3>3. QED BY <3>1, <3>2
    <2>2. Ids(hits) \intersect kept = {hits[i].id : i \in S}
      BY <1>1 DEF Ids, S
    <2>3. QED BY <1>4, <2>1, <2>2
  <1>12. StoreScored(hits) => StoreScored(those)
    BY <1>6, <1>7, <1>8 DEF StoreScored
  <1>13. QED BY <1>10, <1>11, <1>12 DEF those

\* A side that keeps all it found is what it found.
LEMMA ThoseAll ==
  ASSUME NEW hits, Result(hits), NEW kept, Ids(hits) \subseteq kept
  PROVE  Those(hits, kept) = hits
  <1> DEFINE n == Len(hits)
             S == {i \in DOMAIN hits : hits[i].id \in kept}
             places == InPlace(S)
             T == [id : Int, score : Int, rank : Nat]
  <1>1. /\ n \in Nat /\ DOMAIN hits = 1..n /\ hits \in [1..n -> T]
        /\ \A i \in 1..n : hits[i].rank = i - 1
    BY DEF Result
  <1>2. S = 1..n
    BY <1>1 DEF Ids
  <1>3. Cardinality(1..n) = n
    BY <1>1, FS_Interval
  <1>4. Those(hits, kept) = [j \in DOMAIN places |-> [hits[places[j]] EXCEPT !.rank = j - 1]]
    BY DEF Those, Renumber
  <1> HIDE DEF S
  <1>5. GoesUp(places, n)
    BY <1>1, <1>2, <1>3, InPlaceIs DEF GoesUp
  <1>6. places = [i \in 1..n |-> i]
    <2> HIDE DEF places
    <2>1. QED BY <1>1, <1>5, OneListOfNumbers
  <1> HIDE DEF places
  <1>7. Those(hits, kept) = [j \in 1..n |-> [hits[j] EXCEPT !.rank = j - 1]]
    BY <1>4, <1>6
  <1>8. \A j \in 1..n : [hits[j] EXCEPT !.rank = j - 1] = hits[j]
    <2>1. \A h \in T : \A r : h.rank = r => [h EXCEPT !.rank = r] = h
      OBVIOUS
    <2> HIDE DEF T
    <2>2. QED BY <1>1, <2>1
  <1>9. QED BY <1>1, <1>7, <1>8

\* A depth is at least what was asked for, on a side that has all documents, and
\* all documents, on a side that has no more of them than were asked for.
LEMMA DepthIs ==
  ASSUME NEW n \in 1..Indexed
  PROVE  /\ Depth(n) \in Nat /\ Depth(n) >= K
         /\ n <= K /\ Indexed <= K * MAX_OVER_FETCH => Depth(n) >= Indexed
  <1> DEFINE q == (K * Indexed) \div n
             most == K * MAX_OVER_FETCH
             all == K * Indexed
  <1>1. K \in Nat /\ K > 0 /\ Indexed \in Nat /\ MAX_OVER_FETCH \in Nat /\ MAX_OVER_FETCH > 0
        /\ n \in Nat /\ n > 0 /\ n <= Indexed
    BY MixedAssumption
  <1>2. all \in Nat /\ most \in Nat /\ most >= K
    BY <1>1
  <1>3. q \in Nat /\ all < n * (q + 1)
    <2> HIDE DEF all
    <2>1. \A a \in Nat : a \div n \in Nat /\ a < n * (a \div n + 1)
      BY <1>1
    <2>2. QED BY <1>2, <2>1 DEF all
  <1>4. Depth(n) = IF q + 1 < most THEN q + 1 ELSE most
    BY <1>1 DEF Depth
  <1> HIDE DEF q, most
  <1>5. q + 1 >= K
    <2> SUFFICES ASSUME q + 1 < K PROVE FALSE
      BY <1>1, <1>3
    <2>1. n * (q + 1) <= n * K
      <3>1. \A x, y \in Nat : x <= y => n * x <= n * y
        BY <1>1
      <3>2. QED BY <1>1, <1>3, <3>1
    <2>2. n * K <= all
      BY <1>1
    <2>3. n * (q + 1) \in Nat /\ n * K \in Nat
      BY <1>1, <1>3
    <2> HIDE DEF all
    <2>4. QED BY <1>2, <1>3, <2>1, <2>2, <2>3
  <1>6. n <= K => q + 1 >= Indexed
    <2> SUFFICES ASSUME n <= K, q + 1 < Indexed PROVE FALSE
      BY <1>1, <1>3
    <2>1. n * (q + 1) <= n * Indexed
      <3>1. \A x, y \in Nat : x <= y => n * x <= n * y
        BY <1>1
      <3>2. QED BY <1>1, <1>3, <3>1
    <2>2. n * Indexed <= all
      BY <1>1
    <2>3. n * (q + 1) \in Nat /\ n * Indexed \in Nat
      BY <1>1, <1>3
    <2> HIDE DEF all
    <2>4. QED BY <1>2, <1>3, <2>1, <2>2, <2>3
  <1>7. QED BY <1>1, <1>2, <1>3, <1>4, <1>5, <1>6 DEF most

\* A ranking has every document.
LEMMA RankingIsAll ==
  ASSUME NEW p \in Rankings
  PROVE  \A d \in Documents : \E i \in Documents : p[i] = d
  <1>1. p \in [Documents -> Documents] /\ \A i, j \in Documents : i # j => p[i] # p[j]
    BY DEF Rankings
  <1>2. p \in Injection(Documents, Documents)
    BY <1>1 DEF Injection, IsInjective
  <1>3. IsFiniteSet(Documents)
    BY MixedAssumption, FS_Interval DEF Documents
  <1>4. p \in Surjection(Documents, Documents)
    BY <1>2, <1>3, FS_Injection
  <1>5. QED BY <1>4 DEF Surjection

\* What one side of a query has: nothing where no document is expected, and else
\* the first of a ranking, to the depth of the share.
SideHas(hits, s, share) ==
    /\ Result(hits) /\ StoreScored(hits)
    /\ share = 0 => hits = <<>>
    /\ share # 0 => \E p \in RankingsIn(s) : FoundOf(hits, p, Smaller(Indexed, Depth(share)))

\* Every result of a search is one.
LEMMA SideIs ==
  ASSUME NEW s, NEW share \in 0..Indexed, NEW hits \in Results(s, share)
  PROVE  SideHas(hits, s, share)
  <1>1. CASE share = 0
    <2>1. hits = <<>>
      BY <1>1 DEF Results
    <2>2. QED BY <1>1, <2>1, NothingFound DEF SideHas
  <1>2. CASE share # 0
    <2>1. PICK p \in RankingsIn(s) : hits = Found(p, Depth(share))
      BY <1>2 DEF Results
    <2>2. share \in 1..Indexed
      BY <1>2, MixedAssumption
    <2>3. Depth(share) \in Nat
      BY <2>2, DepthIs
    <2>4. p \in Rankings
      BY DEF RankingsIn
    <2>5. FoundOf(hits, p, Smaller(Indexed, Depth(share)))
      BY <2>1, <2>3, <2>4, FoundIs
    <2>6. Result(hits) /\ StoreScored(hits)
      BY <2>5 DEF FoundOf
    <2>7. QED BY <1>2, <2>5, <2>6 DEF SideHas
  <1>3. QED BY <1>1, <1>2

\* A side searched to the depth of the index has every document.
LEMMA FullSide ==
  ASSUME NEW s, NEW share \in 1..Indexed, NEW hits, SideHas(hits, s, share),
         share <= K, Indexed <= K * MAX_OVER_FETCH
  PROVE  Ids(hits) = Documents
  <1>1. PICK p \in RankingsIn(s) : FoundOf(hits, p, Smaller(Indexed, Depth(share)))
    <2>1. share # 0
      OBVIOUS
    <2>2. QED BY <2>1 DEF SideHas
  <1>2. Smaller(Indexed, Depth(share)) = Indexed
    BY DepthIs, MixedAssumption DEF Smaller
  <1>3. p \in Rankings /\ p \in [Documents -> Documents]
    BY DEF RankingsIn, Rankings
  <1>4. DOMAIN hits = Documents /\ \A i \in Documents : hits[i].id = p[i]
    BY <1>1, <1>2 DEF FoundOf, Result, Documents
  <1>5. Ids(hits) = {p[i] : i \in Documents}
    BY <1>4 DEF Ids
  <1>6. QED BY <1>3, <1>5, RankingIsAll

\* Any of the calibrators maps what a side of a query has found.
LEMMA AnyCalibrates ==
  ASSUME NEW calibrator \in Calibrators, NEW hits, StoreScored(hits)
  PROVE  MayCalibrate(calibrator, hits)
  <1>1. StoreScores \in SUBSET Int
    BY MixedAssumption DEF StoreScores
  <1>2. calibrator # NoCalibrator => Calibrates(calibrator, StoreScores)
    BY CalibratorAssumption DEF Calibrates
  <1> HIDE DEF StoreScores
  <1>3. QED BY <1>1, <1>2 DEF MayCalibrate, StoreScored

\* Where all vectors are in one space, the search of that space is the answer of
\* the store, and merging it with nothing leaves it that.
LEMMA OneSpaceIsTheStores ==
  ASSUME NEW s, \A d \in Documents : space[d] = s,
         NEW hits, SideHas(hits, s, Indexed), NEW left, NEW right, Result(left), Result(right),
         OnlyOne(hits, left, right), NEW calibrator, MayCalibrate(calibrator, left)
  PROVE  IdsInOrder(CalibratedMerge(left, right, K, calibrator)) = Take(MostRelevantFirst, K)
  <1>1. Indexed \in Nat /\ Indexed \in 1..Indexed /\ K \in Nat
    BY MixedAssumption
  <1>2. PICK p \in RankingsIn(s) : FoundOf(hits, p, Smaller(Indexed, Depth(Indexed)))
    <2>1. Indexed # 0
      BY <1>1
    <2>2. QED BY <2>1 DEF SideHas
  <1>3. p \in Rankings /\ p \in [Documents -> Documents]
        /\ \A i, j \in Documents : i < j => p[i] > p[j]
    BY DEF RankingsIn, Rankings
  <1> DEFINE back == [i \in 1..Indexed |-> Indexed + 1 - p[i]]
  <1>4. GoesUp(back, Indexed)
    <2>1. \A i \in 1..Indexed : p[i] \in 1..Indexed /\ back[i] = Indexed + 1 - p[i]
      BY <1>3 DEF Documents
    <2>2. \A i \in 1..Indexed : Indexed + 1 - p[i] \in 1..Indexed
      BY <1>1, <2>1
    <2>3. \A i, j \in 1..Indexed : i < j => p[i] > p[j]
      BY <1>3 DEF Documents
    <2>4. \A i, j \in 1..Indexed : i < j => back[i] < back[j]
      BY <1>1, <2>1, <2>3
    <2>5. \A m \in 1..Indexed : \E i \in 1..Indexed : back[i] = m
      <3> SUFFICES ASSUME NEW m \in 1..Indexed PROVE \E i \in 1..Indexed : back[i] = m
        OBVIOUS
      <3>1. Indexed + 1 - m \in 1..Indexed
        BY <1>1
      <3>2. PICK i \in 1..Indexed : p[i] = Indexed + 1 - m
        BY <1>3, <3>1, RankingIsAll DEF Documents
      <3>3. back[i] = m
        BY <1>1, <2>1, <3>2
      <3>4. QED BY <3>3
    <2>6. back \in [1..Indexed -> 1..Indexed]
      BY <2>2
    <2> HIDE DEF back
    <2>7. QED BY <2>4, <2>5, <2>6 DEF GoesUp
  <1>5. \A i \in 1..Indexed : p[i] = Indexed + 1 - i
    <2>1. back = [i \in 1..Indexed |-> i]
      <3> HIDE DEF back
      <3>1. QED BY <1>1, <1>4, OneListOfNumbers
    <2>2. \A i \in 1..Indexed : p[i] \in Int /\ Indexed + 1 - p[i] = i
      BY <1>3, <2>1 DEF Documents
    <2>3. QED BY <1>1, <2>2
  <1> HIDE DEF back
  <1> DEFINE n == Smaller(Indexed, Depth(Indexed))
             m == Smaller(Indexed, K)
  <1>6. Depth(Indexed) \in Nat /\ Depth(Indexed) >= K
    BY <1>1, DepthIs
  <1>7. m \in Nat /\ m <= Indexed /\ Smaller(n, K) = m /\ \A i \in 1..m : i \in 1..n /\ i \in 1..Indexed
    BY <1>1, <1>6 DEF Smaller
  <1>8. Len(hits) = n /\ \A i \in 1..n : hits[i].id = p[i]
    BY <1>2 DEF FoundOf
  <1> HIDE DEF n, m
  <1>9. IdsInOrder(CalibratedMerge(left, right, K, calibrator)) = [i \in 1..m |-> hits[i].id]
    <2>1. IdsInOrder(CalibratedMerge(left, right, K, calibrator))
            = [i \in 1..Smaller(Len(hits), K) |-> hits[i].id]
      BY <1>1, MergeOfOne
    <2>2. QED BY <1>7, <1>8, <2>1
  <1>10. [i \in 1..m |-> hits[i].id] = [i \in 1..m |-> Indexed + 1 - i]
    BY <1>5, <1>7, <1>8
  <1>11. Take(MostRelevantFirst, K) = [i \in 1..m |-> Indexed + 1 - i]
    <2> DEFINE all == [i \in 1..Indexed |-> Indexed + 1 - i]
    <2>1. all \in Seq(Int) /\ Len(all) = Indexed
      <3>1. all \in [1..Indexed -> Int]
        BY <1>1
      <3>2. QED BY <1>1, <3>1
    <2>2. Take(all, K) = SubSeq(all, 1, m)
      BY <2>1 DEF Take, m, Smaller
    <2>3. \A i \in 1..Indexed : all[i] = Indexed + 1 - i
      OBVIOUS
    <2>4. Take(all, K) = Take(MostRelevantFirst, K)
      BY DEF Documents, MostRelevantFirst
    <2> HIDE DEF all
    <2>5. SubSeq(all, 1, m) = [i \in 1..m |-> all[i]]
      BY <1>1, <1>7, <2>1
    <2>6. QED BY <1>7, <2>2, <2>3, <2>4, <2>5
  <1>12. QED BY <1>9, <1>10, <1>11

\* What a query that nothing moved under has found is what a search of the index
\* as it is now would find, with the depths of the reading it began with.
AnswerInv ==
    /\ reading \in 0..Indexed
    /\ query.at \in {"old", "lookup"} /\ touched = {} => query.migrated \in Results("new", reading)
    /\ query.at = "lookup" /\ touched = {} => query.bridged \in Results("old", Indexed - reading)
    /\ EndsGiveTheStoresAnswer /\ RestingAnswerIsFull

\* The documents marked, and how many they can be.
LEMMA MarkedIs == Marked \subseteq Documents /\ Cardinality(Marked) \in 0..Indexed
                  /\ IsFiniteSet(Documents) /\ Cardinality(Documents) = Indexed
  <1>1. Indexed \in Nat /\ IsFiniteSet(Documents) /\ Cardinality(Documents) = Indexed
    BY MixedAssumption, FS_Interval DEF Documents
  <1>2. Marked \in SUBSET Documents
    BY DEF Marked
  <1>3. Cardinality(Marked) \in Nat /\ Cardinality(Marked) <= Indexed
    BY <1>1, <1>2, FS_Subset, FS_CardinalityType
  <1>4. QED BY <1>1, <1>2, <1>3

\* Nothing is read before the first query.
LEMMA AnswerInvInit == MixedInit => AnswerInv
  BY MixedAssumption DEF MixedInit, AnswerInv, NoQuery, QueryAnswered, EndsGiveTheStoresAnswer,
                         RestingAnswerIsFull

\* A step of the migration under a query leaves a document touched.
LEMMA MigrationTouches ==
  ASSUME MixedInv, AnswerInv, NEW d \in Documents,
         Write(d) \/ MarkDone(d) \/ RestoreOne(d) \/ Requeue(d)
  PROVE  AnswerInv'
  <1>1. UNCHANGED <<query, answer, reading>> /\ Touch
    BY DEF Write, MarkDone, RestoreOne, Requeue
  <1>2. CASE ~Searching
    <2>1. touched' = touched
      BY <1>1, <1>2 DEF Touch, Searching, MixedInv, MixedTypeOK
    <2>2. QED BY <1>1, <1>2, <2>1
              DEF AnswerInv, Searching, QueryAnswered, EndsGiveTheStoresAnswer, RestingAnswerIsFull
  <1>3. CASE Searching
    <2>1. touched' = touched \union InFlight' /\ InFlight \subseteq touched
      BY <1>1, <1>3 DEF Touch, InFlight, Searching, MixedInv
    <2>2. MixedTypeOK
      BY DEF MixedInv
    <2>3. d \in InFlight \/ d \in InFlight'
      <3>1. CASE Write(d)
        BY <2>2, <3>1 DEF Write, InFlight, Marked, Rewritten, MixedTypeOK
      <3>2. CASE MarkDone(d)
        BY <2>2, <3>2 DEF MarkDone, InFlight, Marked, Rewritten, MixedTypeOK
      <3>3. CASE RestoreOne(d)
        BY <2>2, <3>3 DEF RestoreOne, InFlight, Marked, Rewritten, MixedTypeOK
      <3>4. CASE Requeue(d)
        BY <2>2, <3>4 DEF Requeue, InFlight, Marked, Rewritten, MixedTypeOK
      <3>5. QED BY <3>1, <3>2, <3>3, <3>4
    <2>4. touched' # {}
      BY <2>1, <2>3
    <2>5. query'.at \notin {"idle", "closed"}
      BY <1>1, <1>3 DEF Searching
    <2>6. QED BY <1>1, <2>4, <2>5
              DEF AnswerInv, QueryAnswered, EndsGiveTheStoresAnswer, RestingAnswerIsFull
  <1>4. QED BY <1>2, <1>3

\* A query takes what it finds from the index as it is.
LEMMA QueryReads ==
  ASSUME MixedInv, AnswerInv, Install \/ ReadProgress(MaxQueries) \/ SearchNew \/ SearchOld
  PROVE  AnswerInv'
  <1>1. MixedTypeOK /\ reading \in 0..Indexed
    BY DEF MixedInv, AnswerInv
  <1>2. CASE Install
    <2>1. query' = NoQuery /\ reading' = Cardinality(Marked)
      BY <1>2 DEF Install
    <2>2. query'.at = "idle" /\ query'.asked = 0
      BY <2>1 DEF NoQuery
    <2>3. QED BY <2>1, <2>2, MarkedIs
              DEF AnswerInv, QueryAnswered, EndsGiveTheStoresAnswer, RestingAnswerIsFull
  <1>3. CASE ReadProgress(MaxQueries)
    <2>1. /\ query' = [NoQuery EXCEPT !.at = "new", !.asked = query.asked + 1]
          /\ reading' \in {reading, Cardinality(Marked)}
      BY <1>3 DEF ReadProgress
    <2>2. query'.at = "new"
      BY <2>1 DEF NoQuery
    <2>3. QED BY <1>1, <2>1, <2>2, MarkedIs
              DEF AnswerInv, QueryAnswered, EndsGiveTheStoresAnswer, RestingAnswerIsFull
  <1>4. CASE SearchNew
    <2>1. PICK hits \in Results("new", reading) :
             query' = [query EXCEPT !.at = "old", !.migrated = hits,
                                    !.foreign = {<<"new", d>> : d \in Foreign(hits, "new")}]
      BY <1>4 DEF SearchNew
    <2>2. UNCHANGED <<space, reading>>
      BY <1>4 DEF SearchNew
    <2>3. query'.at = "old" /\ query'.migrated = hits
      BY <1>1, <2>1 DEF MixedTypeOK
    <2>4. Results("new", reading)' = Results("new", reading)
      BY <2>2 DEF Results, RankingsIn
    <2>5. QED BY <1>1, <2>2, <2>3, <2>4
              DEF AnswerInv, QueryAnswered, EndsGiveTheStoresAnswer, RestingAnswerIsFull
  <1>5. CASE SearchOld
    <2>1. PICK hits \in Results("old", Indexed - reading) :
             query' = [query EXCEPT !.at = "lookup", !.bridged = hits,
                                    !.foreign = @ \union {<<"old", d>> : d \in Foreign(hits, "old")}]
      BY <1>5 DEF SearchOld
    <2>2. UNCHANGED <<space, reading, touched>> /\ query.at = "old"
      BY <1>5 DEF SearchOld
    <2>3. query'.at = "lookup" /\ query'.bridged = hits /\ query'.migrated = query.migrated
      BY <1>1, <2>1 DEF MixedTypeOK
    <2>4. /\ Results("new", reading)' = Results("new", reading)
          /\ Results("old", Indexed - reading)' = Results("old", Indexed - reading)
      BY <2>2 DEF Results, RankingsIn
    <2>5. QED BY <1>1, <2>2, <2>3, <2>4
              DEF AnswerInv, QueryAnswered, EndsGiveTheStoresAnswer, RestingAnswerIsFull
  <1>6. QED BY <1>2, <1>3, <1>4, <1>5

\* What is merged of a query that nothing moved under and that was made on a fresh
\* reading: each side is a search of its space, and keeps what is in it.
LEMMA MergedSides ==
  ASSUME MixedInv, AnswerInv, query.at = "lookup", touched = {}, reading = Cardinality(Marked)
  PROVE  /\ SideHas(query.migrated, "new", Cardinality(Marked))
         /\ SideHas(query.bridged, "old", Indexed - Cardinality(Marked))
         /\ Marked = Rewritten
  <1>1. /\ query.migrated \in Results("new", reading)
        /\ query.bridged \in Results("old", Indexed - reading)
    BY DEF AnswerInv
  <1>2. reading \in 0..Indexed /\ Indexed - reading \in 0..Indexed
    BY MixedAssumption DEF AnswerInv
  <1>3. InFlight = {}
    BY DEF MixedInv, Searching
  <1>4. SideHas(query.migrated, "new", reading)
    BY <1>1, <1>2, SideIs
  <1>5. SideHas(query.bridged, "old", Indexed - reading)
    BY <1>1, <1>2, SideIs
  <1>6. QED BY <1>3, <1>4, <1>5 DEF InFlight

\* At either end the merge is the answer of the store.
LEMMA MergeAtTheEnds ==
  ASSUME MixedInv, AnswerInv, LookUpAndMerge, touched = {}, reading = Cardinality(Marked),
         Cardinality(Marked) \in {0, Indexed}
  PROVE  answer'.hits = Take(MostRelevantFirst, K)
  <1> DEFINE mig == query.migrated
             bri == query.bridged
             new == NewSide(mig, Marked)
             old == OldSide(bri, Marked)
             left == Those(bri, old)
             right == Those(mig, new)
             m == Cardinality(Marked)
  <1>1. query.at = "lookup"
    BY DEF LookUpAndMerge
  <1>2. SideHas(mig, "new", m) /\ SideHas(bri, "old", Indexed - m) /\ Marked = Rewritten
    BY <1>1, MergedSides
  <1>3. PICK calibrator \in Calibrators :
           answer'.hits = IdsInOrder(CalibratedMerge(left, right, K, calibrator))
    BY DEF LookUpAndMerge
  <1>4. Result(mig) /\ Result(bri) /\ StoreScored(bri)
    BY <1>2 DEF SideHas
  <1>5. Result(left) /\ Result(right) /\ MayCalibrate(calibrator, left)
    <2>1. Result(left) /\ Result(right) /\ StoreScored(left)
      BY <1>4, ThoseIs
    <2>2. QED BY <2>1, AnyCalibrates
  <1>6. Indexed \in Nat /\ Indexed # 0 /\ IsFiniteSet(Documents) /\ Cardinality(Documents) = Indexed
        /\ Marked \in SUBSET Documents /\ IsFiniteSet(Marked)
    <2>1. Marked \in SUBSET Documents /\ IsFiniteSet(Documents) /\ Cardinality(Documents) = Indexed
      BY MarkedIs
    <2>2. QED BY <2>1, FS_Subset, MixedAssumption
  <1> HIDE DEF left, right, new, old, mig, bri, m
  <1>7. CASE m = 0
    <2>1. Marked = {}
      BY <1>6, <1>7, FS_EmptySet DEF m
    <2>2. \A d \in Documents : space[d] = "old"
      BY <1>2, <2>1 DEF Rewritten, MixedInv, MixedTypeOK
    <2>3. mig = <<>>
      BY <1>2, <1>7 DEF SideHas
    <2>4. left = bri
      <3>1. Ids(bri) \subseteq old
        BY <2>1 DEF old, OldSide
      <3>2. QED BY <1>4, <3>1, ThoseAll DEF left
    <2>5. Ids(right) = {}
      BY <1>4, <2>3, ThoseIs, NothingFound DEF right
    <2>6. OnlyOne(bri, left, right)
      BY <2>4, <2>5 DEF OnlyOne
    <2>7. SideHas(bri, "old", Indexed)
      <3>1. Indexed - m = Indexed
        BY <1>6, <1>7
      <3>2. QED BY <1>2, <3>1
    <2>8. QED BY <1>3, <1>5, <2>2, <2>6, <2>7, OneSpaceIsTheStores
  <1>8. CASE m = Indexed
    <2>1. Marked = Documents
      BY <1>6, <1>8, FS_Subset DEF m
    <2>2. \A d \in Documents : space[d] = "new"
      BY <1>2, <2>1 DEF Rewritten
    <2>3. bri = <<>>
      <3>1. Indexed - m = 0
        BY <1>6, <1>8
      <3>2. QED BY <1>2, <3>1 DEF SideHas
    <2>4. SideHas(mig, "new", Indexed)
      BY <1>2, <1>8
    <2>5. right = mig
      <3>1. Ids(mig) \subseteq Documents
        <4>1. PICK p \in RankingsIn("new") : FoundOf(mig, p, Smaller(Indexed, Depth(Indexed)))
          BY <1>6, <2>4 DEF SideHas
        <4>2. /\ Smaller(Indexed, Depth(Indexed)) \in Nat
              /\ Smaller(Indexed, Depth(Indexed)) <= Indexed
          <5>1. Indexed \in 1..Indexed
            BY <1>6
          <5>2. Depth(Indexed) \in Nat
            BY <5>1, DepthIs
          <5>3. QED BY <1>6, <5>2 DEF Smaller
        <4> DEFINE n == Smaller(Indexed, Depth(Indexed))
        <4>3. \A i \in 1..n : i \in Documents
          BY <1>6, <4>2 DEF Documents
        <4> HIDE DEF n
        <4>4. DOMAIN mig = 1..n /\ \A i \in 1..n : mig[i].id = p[i]
          BY <4>1 DEF FoundOf, Result, n
        <4>5. p \in [Documents -> Documents]
          BY <4>1 DEF RankingsIn, Rankings
        <4>6. QED BY <4>3, <4>4, <4>5 DEF Ids
      <3>2. Ids(mig) \subseteq new
        BY <2>1, <3>1 DEF new, NewSide
      <3>3. QED BY <1>4, <3>2, ThoseAll DEF right
    <2>6. Ids(left) = {}
      BY <1>4, <2>3, ThoseIs, NothingFound DEF left
    <2>7. OnlyOne(mig, left, right)
      BY <2>5, <2>6 DEF OnlyOne
    <2>8. QED BY <1>3, <1>5, <2>2, <2>4, <2>7, OneSpaceIsTheStores
  <1>9. QED BY <1>7, <1>8 DEF m

\* Where neither half is larger than what is asked for, the merge has it all.
LEMMA MergeIsFull ==
  ASSUME MixedInv, AnswerInv, LookUpAndMerge, touched = {}, reading = Cardinality(Marked),
         Cardinality(Marked) <= K, Indexed - Cardinality(Marked) <= K,
         Indexed <= K * MAX_OVER_FETCH
  PROVE  Len(answer'.hits) = (IF K < Indexed THEN K ELSE Indexed)
  <1> DEFINE mig == query.migrated
             bri == query.bridged
             new == NewSide(mig, Marked)
             old == OldSide(bri, Marked)
             left == Those(bri, old)
             right == Those(mig, new)
             m == Cardinality(Marked)
  <1>1. query.at = "lookup"
    BY DEF LookUpAndMerge
  <1>2. SideHas(mig, "new", m) /\ SideHas(bri, "old", Indexed - m) /\ Marked = Rewritten
    BY <1>1, MergedSides
  <1>3. PICK calibrator \in Calibrators :
           answer'.hits = IdsInOrder(CalibratedMerge(left, right, K, calibrator))
    BY DEF LookUpAndMerge
  <1>4. Result(mig) /\ Result(bri) /\ StoreScored(bri)
    BY <1>2 DEF SideHas
  <1>5. Result(left) /\ Result(right) /\ MayCalibrate(calibrator, left)
    <2>1. Result(left) /\ Result(right) /\ StoreScored(left)
      BY <1>4, ThoseIs
    <2>2. QED BY <2>1, AnyCalibrates
  <1> DEFINE merged == CalibratedMerge(left, right, K, calibrator)
  <1>6. Indexed \in Nat /\ K \in Nat /\ IsFiniteSet(Documents) /\ Cardinality(Documents) = Indexed
        /\ Marked \in SUBSET Documents /\ IsFiniteSet(Marked) /\ m \in 0..Indexed
    <2>1. Marked \in SUBSET Documents /\ IsFiniteSet(Documents) /\ Cardinality(Documents) = Indexed
          /\ m \in 0..Indexed
      BY MarkedIs
    <2>2. QED BY <2>1, FS_Subset, MixedAssumption
  <1>7. /\ Ids(left) = Ids(bri) \intersect (Ids(bri) \ Marked)
        /\ Ids(right) = Ids(mig) \intersect (Ids(mig) \intersect Marked)
    BY <1>4, ThoseIs DEF old, new, OldSide, NewSide
  <1> HIDE DEF left, right, new, old, mig, bri, m
  <1>8. Ids(right) = Marked
    <2>1. CASE m = 0
      <3>1. Marked = {}
        BY <1>6, <2>1, FS_EmptySet DEF m
      <3>2. QED BY <1>7, <3>1
    <2>2. CASE m # 0
      <3>1. m \in 1..Indexed /\ m <= K
        BY <1>6, <2>2 DEF m
      <3>2. Ids(mig) = Documents
        BY <1>2, <3>1, FullSide
      <3>3. QED BY <1>6, <1>7, <3>2
    <2>3. QED BY <2>1, <2>2
  <1>9. Ids(left) = Documents \ Marked
    <2>1. CASE m = Indexed
      <3>1. Marked = Documents
        BY <1>6, <2>1, FS_Subset DEF m
      <3>2. Indexed - m = 0
        BY <1>6, <2>1
      <3>3. bri = <<>>
        BY <1>2, <3>2 DEF SideHas
      <3>4. QED BY <1>7, <3>1, <3>3, NothingFound
    <2>2. CASE m # Indexed
      <3>1. Indexed - m \in 1..Indexed /\ Indexed - m <= K
        BY <1>6, <2>2 DEF m
      <3>2. Ids(bri) = Documents
        BY <1>2, <3>1, FullSide
      <3>3. QED BY <1>6, <1>7, <3>2
    <2>3. QED BY <2>1, <2>2
  <1>10. Ids(left) \union Ids(right) = Documents
    BY <1>6, <1>8, <1>9
  <1>11. DOMAIN merged = 1..Smaller(Indexed, K)
    <2>1. DOMAIN merged = 1..Smaller(Cardinality(Ids(left) \union Ids(right)), K)
      BY <1>5, <1>6, MergeLength
    <2>2. QED BY <1>6, <1>10, <2>1
  <1>12. Smaller(Indexed, K) = (IF K < Indexed THEN K ELSE Indexed)
    BY <1>6 DEF Smaller
  <1>13. answer'.hits = [i \in 1..Smaller(Indexed, K) |-> merged[i].id]
    BY <1>3, <1>11 DEF IdsInOrder
  <1>14. Smaller(Indexed, K) \in Nat
    BY <1>6 DEF Smaller
  <1>15. Len(answer'.hits) = Smaller(Indexed, K)
    BY <1>13, <1>14
  <1>16. QED BY <1>12, <1>15

\* AnswerInv is inductive, given MixedInv.
LEMMA AnswerStep == MixedInv /\ AnswerInv /\ [MixedNext]_mixedVars => AnswerInv'
  <1> SUFFICES ASSUME MixedInv, AnswerInv, [MixedNext]_mixedVars PROVE AnswerInv'
    OBVIOUS
  <1>1. CASE UNCHANGED mixedVars
    <2>1. /\ Results("new", reading)' = Results("new", reading)
          /\ Results("old", Indexed - reading)' = Results("old", Indexed - reading)
      BY <1>1 DEF mixedVars, Results, RankingsIn
    <2>2. QED BY <1>1, <2>1 DEF mixedVars, AnswerInv, QueryAnswered, EndsGiveTheStoresAnswer,
                                 RestingAnswerIsFull
  <1>2. CASE \E d \in Documents : Write(d) \/ MarkDone(d) \/ RestoreOne(d) \/ Requeue(d)
    BY <1>2, MigrationTouches
  <1>3. CASE BeginRollback
    <2>1. UNCHANGED <<space, reading, query, answer, touched>>
      BY <1>3 DEF BeginRollback
    <2>2. /\ Results("new", reading)' = Results("new", reading)
          /\ Results("old", Indexed - reading)' = Results("old", Indexed - reading)
      BY <2>1 DEF Results, RankingsIn
    <2>3. QED BY <2>1, <2>2 DEF AnswerInv, QueryAnswered, EndsGiveTheStoresAnswer,
                                 RestingAnswerIsFull
  <1>4. CASE Install \/ ReadProgress(MaxQueries) \/ SearchNew \/ SearchOld
    BY <1>4, QueryReads
  <1>5. CASE LookUpAndMerge
    <2>1. /\ query' = [NoQuery EXCEPT !.asked = query.asked] /\ UNCHANGED <<reading, touched>>
          /\ answer'.reading = reading /\ answer'.done = Cardinality(Marked)
      BY <1>5 DEF LookUpAndMerge
    <2>2. query'.at = "idle"
      BY <2>1 DEF NoQuery
    <2>3. EndsGiveTheStoresAnswer'
      <3> SUFFICES ASSUME touched = {}, reading = Cardinality(Marked),
                          Cardinality(Marked) \in {0, Indexed}
                   PROVE  answer'.hits = Take(MostRelevantFirst, K)
        BY <2>1 DEF EndsGiveTheStoresAnswer, Documents
      <3>1. QED BY <1>5, MergeAtTheEnds
    <2>4. RestingAnswerIsFull'
      <3> SUFFICES ASSUME touched = {}, reading = Cardinality(Marked), Cardinality(Marked) <= K,
                          Indexed - Cardinality(Marked) <= K, Indexed <= K * MAX_OVER_FETCH
                   PROVE  Len(answer'.hits) = (IF K < Indexed THEN K ELSE Indexed)
        BY <2>1 DEF RestingAnswerIsFull
      <3>1. QED BY <1>5, MergeIsFull
    <2>5. QED BY <2>1, <2>2, <2>3, <2>4 DEF AnswerInv
  <1>6. QED BY <1>1, <1>2, <1>3, <1>4, <1>5 DEF MixedNext

\* A query that nothing moved under is answered, at either end of a migration of
\* any number of documents, as the store alone would answer it
\* (MixedSpaceSearch.search).
THEOREM EndsGiveTheStoresAnswerAlways == MixedSpec => []EndsGiveTheStoresAnswer
  <1>1. AnswerInv => EndsGiveTheStoresAnswer
    BY DEF AnswerInv
  <1>2. QED BY <1>1, MixedInvInit, MixedStep, AnswerInvInit, AnswerStep, PTL DEF MixedSpec

\* A query that nothing moved under misses no result where the over-fetching
\* reaches the whole index, for any number of documents and results (_depth,
\* _renumber, calibrated_merge).
THEOREM RestingAnswerIsFullAlways == MixedSpec => []RestingAnswerIsFull
  <1>1. AnswerInv => RestingAnswerIsFull
    BY DEF AnswerInv
  <1>2. QED BY <1>1, MixedInvInit, MixedStep, AnswerInvInit, AnswerStep, PTL DEF MixedSpec

----------------------------------------------------------------------------
(* The cascade *)

\* The answer a query got is its candidates, placed.
Served(q) ==
    /\ DOMAIN q = {"at", "found", "known", "fresh", "hits"}
    /\ q.at \in {"idle", "found", "known", "embedded", "answered"}
    /\ q.at # "idle" => q.found \in Lists
    /\ q.at = "answered" =>
          q.hits = Placed(q.found, q.known \union Range(q.fresh), CascadeK)

CascadeInv == DOMAIN thread = Threads /\ \A t \in Threads : Served(thread[t])

\* A list of candidates has each of its documents once.
LEMMA ListsAre ==
  ASSUME NEW found \in Lists
  PROVE  /\ Len(found) \in Nat /\ found \in [1..Len(found) -> Docs]
         /\ \A i, j \in 1..Len(found) : i # j => found[i] # found[j]
  <1>1. Cardinality(Docs) \in Nat
    BY CascadeAssumption, FS_CardinalityType
  <1>2. PICK n \in 0..Cardinality(Docs) :
           found \in {s \in [1..n -> Docs] : \A i, j \in 1..n : i # j => s[i] # s[j]}
    BY DEF Lists
  <1>3. n \in Nat
    BY <1>1
  <1>4. Len(found) = n
    BY <1>2, <1>3
  <1>5. QED BY <1>2, <1>3, <1>4

\* What a query that placed its candidates can rely on.
Fair(found, scored, size, hits) ==
    /\ size \in Nat /\ hits \in [1..size -> Docs]
    /\ \A i, j \in 1..size : i # j => hits[i] # hits[j]
    /\ \A i \in 1..size : found[i] \in scored <=> hits[i] \in scored
    /\ \A i \in 1..size : found[i] \notin scored => hits[i] = found[i]
    /\ \A i, j \in 1..size : hits[i] \in scored /\ hits[j] \in scored /\ i < j =>
          Relevance[hits[i]] < Relevance[hits[j]]
    /\ \A d \in Range(found) \intersect scored :
          \/ \E i \in 1..size : hits[i] = d
          \/ \A i \in 1..size : hits[i] \in scored => Relevance[hits[i]] < Relevance[d]

\* What Placed makes of any candidates, whichever of them have a vector.
LEMMA PlacedIsFair ==
  ASSUME NEW found \in Lists, NEW scored, NEW size,
         size = IF Len(found) < CascadeK THEN Len(found) ELSE CascadeK
  PROVE  Fair(found, scored, size, Placed(found, scored, CascadeK))
  <1> DEFINE n == Len(found)
             S == Range(found) \intersect scored
             P == {i \in DOMAIN found : found[i] \in scored}
             v == [j \in P |-> j]
             order == ByRelevance(S)
             hits == Placed(found, scored, CascadeK)
  <1>1. /\ n \in Nat /\ found \in [1..n -> Docs]
        /\ \A i, j \in 1..n : i # j => found[i] # found[j]
    BY ListsAre
  <1>2. size \in Nat /\ \A i \in 1..size : i \in 1..n
    BY <1>1, CascadeAssumption
  <1>3. S \in SUBSET Docs /\ IsFiniteSet(S) /\ S = {found[i] : i \in P}
    <2>1. S \in SUBSET Docs /\ S = {found[i] : i \in P}
      BY <1>1 DEF Range
    <2> HIDE DEF S
    <2>2. QED BY <2>1, CascadeAssumption, FS_Subset
  <1>4. P \in SUBSET (1..n) /\ IsFiniteSet(P)
    <2>1. P \in SUBSET (1..n)
      BY <1>1
    <2>2. IsFiniteSet(1..n)
      BY <1>1, FS_Interval
    <2> HIDE DEF P
    <2>3. QED BY <2>1, <2>2, FS_Subset
  <1>5. Cardinality(P) = Cardinality(S)
    <2> DEFINE f == [i \in P |-> found[i]]
    <2>1. f \in [P -> S]
      BY <1>3
    <2>2. \A i, j \in P : f[i] = f[j] => i = j
      BY <1>1, <1>4
    <2>3. \A d \in S : \E i \in P : f[i] = d
      BY <1>3
    <2> HIDE DEF f, S, P
    <2>4. f \in Bijection(P, S)
      BY <2>1, <2>2, <2>3 DEF Bijection, Injection, Surjection, IsInjective
    <2>5. ExistsBijection(P, S)
      BY <2>4 DEF ExistsBijection
    <2>6. QED BY <1>4, <2>5, FS_Bijection
  <1>6. InOrder(order, S, Relevance)
    <2>1. \A d \in S : Relevance[d] \in Int
      BY <1>3, CascadeAssumption
    <2>2. \A d, e \in S : d # e => Relevance[d] # Relevance[e]
      BY <1>3, CascadeAssumption
    <2> HIDE DEF S
    <2>3. QED BY <1>3, <2>1, <2>2, EnumeratedInOrder DEF ByRelevance
  <1>7. /\ \A i \in P : v[i] = i
        /\ \A i \in P : Ahead(P, v, i) \in 0..Cardinality(P) - 1
        /\ \A i, j \in P : v[i] < v[j] => Ahead(P, v, i) < Ahead(P, v, j)
    <2>1. \A i \in P : v[i] = i
      OBVIOUS
    <2>2. \A i \in P : v[i] \in Int
      BY <1>1, <1>4
    <2>3. \A i, j \in P : i # j => v[i] # v[j]
      OBVIOUS
    <2> HIDE DEF v, P
    <2>4. \A i \in P : Ahead(P, v, i) \in 0..Cardinality(P) - 1
      BY <1>4, <2>2, <2>3, RanksAreAll
    <2>5. \A i, j \in P : v[i] < v[j] => Ahead(P, v, i) < Ahead(P, v, j)
      BY <1>4, <2>2, <2>3, RanksAreAll
    <2>6. QED BY <2>1, <2>4, <2>5
  <1>8. \A m \in 0..Cardinality(P) - 1 : \E i \in P : Ahead(P, v, i) = m
    <2>2. \A i \in P : v[i] \in Int
      BY <1>1, <1>4
    <2>3. \A i, j \in P : i # j => v[i] # v[j]
      OBVIOUS
    <2> HIDE DEF v, P
    <2>4. QED BY <1>4, <2>2, <2>3, RanksAreAll
  <1> DEFINE c == Cardinality(S)
             Nth(i) == 1 + Ahead(P, v, i)
  <1>9. hits = [i \in 1..size |-> IF i \in P THEN order[Nth(i)] ELSE found[i]]
    BY DEF Placed
  <1> HIDE DEF hits, order
  <1>10. /\ c \in Nat /\ order \in [1..c -> S]
         /\ \A d \in S : \E i \in 1..c : order[i] = d
         /\ \A i, j \in 1..c : i < j => Relevance[order[i]] < Relevance[order[j]]
    BY <1>6 DEF InOrder
  <1> HIDE DEF c
  <1>11. \A i \in P : Nth(i) \in 1..c
    BY <1>5, <1>7, <1>10 DEF c
  <1>12. \A i, j \in P : i < j => Nth(i) < Nth(j)
    <2> SUFFICES ASSUME NEW i \in P, NEW j \in P, i < j PROVE Nth(i) < Nth(j)
      OBVIOUS
    <2>1. Ahead(P, v, i) < Ahead(P, v, j)
      BY <1>7
    <2>2. Ahead(P, v, i) \in Int /\ Ahead(P, v, j) \in Int
      BY <1>5, <1>7, <1>10 DEF c
    <2>3. QED BY <2>1, <2>2
  <1>13. \A m \in 1..c : \E i \in P : Nth(i) = m
    <2> SUFFICES ASSUME NEW m \in 1..c PROVE \E i \in P : Nth(i) = m
      OBVIOUS
    <2>1. m - 1 \in 0..Cardinality(P) - 1 /\ 1 + (m - 1) = m
      BY <1>5, <1>10 DEF c
    <2>2. QED BY <1>8, <2>1
  <1> HIDE DEF Nth, v
  <1>14. \A i \in 1..n : i \in P <=> found[i] \in scored
    BY <1>1
  <1>15. S \in SUBSET scored /\ \A i \in P : i \in Int
    BY <1>4
  <1> HIDE DEF P, S
  <1>16. \A i \in 1..size : i \in P => hits[i] = order[Nth(i)] /\ hits[i] \in S
    BY <1>9, <1>10, <1>11
  <1>17. \A i \in 1..size : i \notin P => hits[i] = found[i] /\ hits[i] \notin scored
    BY <1>2, <1>9, <1>14
  <1>18. hits \in [1..size -> Docs]
    BY <1>1, <1>2, <1>3, <1>9, <1>16, <1>17
  <1>19. \A i \in 1..size : (found[i] \in scored <=> hits[i] \in scored)
                            /\ (found[i] \notin scored => hits[i] = found[i])
    BY <1>2, <1>14, <1>15, <1>16, <1>17
  <1>20. \A i, j \in 1..size : hits[i] \in scored /\ hits[j] \in scored /\ i < j =>
            Relevance[hits[i]] < Relevance[hits[j]]
    <2> SUFFICES ASSUME NEW i \in 1..size, NEW j \in 1..size, hits[i] \in scored,
                        hits[j] \in scored, i < j
                 PROVE  Relevance[hits[i]] < Relevance[hits[j]]
      OBVIOUS
    <2>1. i \in P /\ j \in P
      BY <1>17
    <2>2. QED BY <1>10, <1>11, <1>12, <1>16, <2>1
  <1>21. \A i, j \in 1..size : i # j => hits[i] # hits[j]
    <2> SUFFICES ASSUME NEW i \in 1..size, NEW j \in 1..size, i < j PROVE hits[i] # hits[j]
      BY <1>2
    <2>1. CASE hits[i] \in scored /\ hits[j] \in scored
      <3>1. Relevance[hits[i]] < Relevance[hits[j]] /\ Relevance[hits[i]] \in Int
        BY <1>18, <1>20, <2>1, CascadeAssumption
      <3>2. QED BY <3>1
    <2>2. CASE hits[i] \notin scored /\ hits[j] \notin scored
      <3>1. i \notin P /\ j \notin P /\ i # j
        BY <1>2, <1>15, <1>16, <2>2
      <3>2. QED BY <1>1, <1>2, <1>17, <3>1
    <2>3. QED BY <2>1, <2>2
  <1>22. ASSUME NEW d \in S
         PROVE  \/ \E i \in 1..size : hits[i] = d
                \/ \A i \in 1..size : hits[i] \in scored => Relevance[hits[i]] < Relevance[d]
    <2>1. PICK m \in 1..c : order[m] = d
      BY <1>10
    <2>2. PICK p \in P : Nth(p) = m
      BY <1>13
    <2>3. CASE p \in 1..size
      BY <1>16, <2>1, <2>2, <2>3
    <2>4. CASE p \notin 1..size
      <3> SUFFICES ASSUME NEW i \in 1..size, hits[i] \in scored PROVE Relevance[hits[i]] < Relevance[d]
        OBVIOUS
      <3>1. i \in P
        BY <1>17
      <3>2. i < p
        BY <1>2, <1>4, <2>4
      <3>3. Nth(i) < m /\ Nth(i) \in 1..c
        BY <1>11, <1>12, <2>2, <3>1, <3>2
      <3>4. QED BY <1>10, <1>16, <2>1, <3>1, <3>3
    <2>5. QED BY <2>3, <2>4
  <1>23. QED BY <1>2, <1>18, <1>19, <1>20, <1>21, <1>22 DEF Fair, S, hits

\* No query has begun.
LEMMA CascadeStarts == CascadeInit => CascadeInv
  BY DEF CascadeInit, CascadeInv, Served, Waiting

\* A step of a query keeps its candidates, and the last one places them.
LEMMA CascadeStep == CascadeInv /\ [CascadeNext]_cascadeVars => CascadeInv'
  <1> SUFFICES ASSUME CascadeInv, [CascadeNext]_cascadeVars PROVE CascadeInv'
    OBVIOUS
  <1>1. DOMAIN thread = Threads /\ \A u \in Threads : Served(thread[u])
    BY DEF CascadeInv
  <1>2. ASSUME NEW t \in Threads, Search(t) PROVE CascadeInv'
    <2>1. PICK found \in Lists :
             thread' = [thread EXCEPT ![t] = [Waiting EXCEPT !.at = "found", !.found = found]]
      BY <1>2 DEF Search
    <2>2. /\ DOMAIN thread' = Threads /\ \A u \in Threads \ {t} : thread'[u] = thread[u]
          /\ thread'[t].at = "found" /\ DOMAIN thread'[t] = {"at", "found", "known", "fresh", "hits"}
          /\ thread'[t].found = found
      BY <1>1, <2>1 DEF Waiting
    <2>3. Served(thread'[t])
      BY <1>1, <2>1, <2>2 DEF Served
    <2>4. QED BY <1>1, <2>2, <2>3 DEF CascadeInv
  <1>3. ASSUME NEW t \in Threads, TakeKnown(t) PROVE CascadeInv'
    <2>1. PICK known : thread[t].at = "found"
             /\ thread' = [thread EXCEPT ![t].at = "known", ![t].known = known]
      BY <1>3 DEF TakeKnown
    <2>2. /\ DOMAIN thread' = Threads /\ \A u \in Threads \ {t} : thread'[u] = thread[u]
          /\ thread'[t].at = "known" /\ DOMAIN thread'[t] = DOMAIN thread[t]
          /\ thread'[t].found = thread[t].found
      BY <1>1, <2>1
    <2>3. Served(thread'[t])
      BY <1>1, <2>1, <2>2 DEF Served
    <2>4. QED BY <1>1, <2>2, <2>3 DEF CascadeInv
  <1>4. ASSUME NEW t \in Threads, Embed(t) PROVE CascadeInv'
    <2>1. PICK fresh : thread[t].at = "known"
             /\ thread' = [thread EXCEPT ![t].at = "embedded", ![t].fresh = fresh]
      BY <1>4 DEF Embed
    <2>2. /\ DOMAIN thread' = Threads /\ \A u \in Threads \ {t} : thread'[u] = thread[u]
          /\ thread'[t].at = "embedded" /\ DOMAIN thread'[t] = DOMAIN thread[t]
          /\ thread'[t].found = thread[t].found
      BY <1>1, <2>1
    <2>3. Served(thread'[t])
      BY <1>1, <2>1, <2>2 DEF Served
    <2>4. QED BY <1>1, <2>2, <2>3 DEF CascadeInv
  <1>5. ASSUME NEW t \in Threads, StoreAndPlace(t) PROVE CascadeInv'
    <2> DEFINE hits == Placed(thread[t].found, thread[t].known \union Range(thread[t].fresh),
                              CascadeK)
    <2>1. thread[t].at = "embedded"
          /\ thread' = [thread EXCEPT ![t].at = "answered", ![t].hits = hits]
      BY <1>5 DEF StoreAndPlace
    <2>2. /\ DOMAIN thread' = Threads /\ \A u \in Threads \ {t} : thread'[u] = thread[u]
          /\ thread'[t].at = "answered" /\ DOMAIN thread'[t] = DOMAIN thread[t]
          /\ thread'[t].found = thread[t].found /\ thread'[t].known = thread[t].known
          /\ thread'[t].fresh = thread[t].fresh /\ thread'[t].hits = hits
      BY <1>1, <2>1
    <2>3. Served(thread'[t])
      BY <1>1, <2>1, <2>2 DEF Served
    <2>4. QED BY <1>1, <2>2, <2>3 DEF CascadeInv
  <1>6. CASE UNCHANGED thread
    BY <1>1, <1>6 DEF CascadeInv
  <1>7. QED
    BY <1>2, <1>3, <1>4, <1>5, <1>6 DEF CascadeNext, cascadeVars, RemoveText

\* In every reachable state, what a thread answered is its candidates, placed.
THEOREM CascadeAlways == CascadeSpec => []CascadeInv
  BY CascadeStarts, CascadeStep, PTL DEF CascadeSpec

\* So the answer of a thread is fair to its candidates.
LEMMA AnswersAreFair ==
  ASSUME CascadeInv, NEW t \in Threads, thread[t].at = "answered", NEW size,
         size = IF Len(thread[t].found) < CascadeK THEN Len(thread[t].found) ELSE CascadeK
  PROVE  Fair(thread[t].found, thread[t].known \union Range(thread[t].fresh), size,
              thread[t].hits)
  <1>1. thread[t].found \in Lists
        /\ thread[t].hits = Placed(thread[t].found,
                                   thread[t].known \union Range(thread[t].fresh), CascadeK)
    BY DEF CascadeInv, Served
  <1>2. QED BY <1>1, PlacedIsFair

\* No candidate is lost or repeated for want of a text (Cascade._rerank).
THEOREM NothingIsStrandedAlways == CascadeSpec => []NothingIsStranded
  <1>1. CascadeInv => NothingIsStranded
    <2> SUFFICES ASSUME CascadeInv, NEW t \in Threads, thread[t].at = "answered"
                 PROVE  LET q == thread[t]
                            scored == q.known \union Range(q.fresh)
                            size == IF Len(q.found) < CascadeK THEN Len(q.found) ELSE CascadeK
                        IN  /\ Len(q.hits) = size /\ Cardinality(Range(q.hits)) = size
                            /\ \A i \in 1..size : q.found[i] \notin scored => q.hits[i] = q.found[i]
      BY DEF NothingIsStranded
    <2> DEFINE q == thread[t]
               scored == q.known \union Range(q.fresh)
               size == IF Len(q.found) < CascadeK THEN Len(q.found) ELSE CascadeK
    <2>1. Fair(q.found, scored, size, q.hits)
      BY AnswersAreFair
    <2> HIDE DEF q, scored, size
    <2> DEFINE hits == q.hits
    <2>2. /\ size \in Nat /\ hits \in [1..size -> Docs]
          /\ \A i, j \in 1..size : i # j => hits[i] # hits[j]
      BY <2>1 DEF Fair
    <2> HIDE DEF hits
    <2>3. Len(hits) = size
      BY <2>2
    <2>4. Cardinality(Range(hits)) = size
      <3>1. hits \in Bijection(1..size, Range(hits))
        BY <2>2 DEF Bijection, Injection, Surjection, IsInjective, Range
      <3>2. ExistsBijection(1..size, Range(hits))
        BY <3>1 DEF ExistsBijection
      <3>3. IsFiniteSet(1..size) /\ Cardinality(1..size) = size
        <4>1. 1 \in Int /\ size \in Int /\ size - 1 + 1 = size /\ (1 > size => size = 0)
          BY <2>2
        <4>2. QED BY <4>1, FS_Interval
      <3>4. QED BY <3>2, <3>3, FS_Bijection
    <2>5. Len(q.hits) = size /\ Cardinality(Range(q.hits)) = size
      BY <2>3, <2>4 DEF hits
    <2>6. \A i \in 1..size : q.found[i] \notin scored => q.hits[i] = q.found[i]
      BY <2>1 DEF Fair
    <2>7. QED BY <2>5, <2>6 DEF q, scored, size
  <1>2. QED BY <1>1, CascadeAlways, PTL

\* The best of the candidates that have vectors are kept, in their order, whatever
\* other threads take out of the cache (Cascade.search).
THEOREM BestAreKeptAlways == CascadeSpec => []BestAreKept
  <1>1. CascadeInv => BestAreKept
    <2> SUFFICES ASSUME CascadeInv, NEW t \in Threads, thread[t].at = "answered",
                        NEW q, q = thread[t], NEW all, all = q.known \union Range(q.fresh),
                        NEW scored, scored = Range(q.found) \intersect all,
                        NEW kept, kept = {i \in DOMAIN q.hits : q.hits[i] \in scored}
                 PROVE  /\ \A i, j \in kept : i < j => Relevance[q.hits[i]] < Relevance[q.hits[j]]
                        /\ \A d \in scored : d \in Range(q.hits)
                               \/ \A i \in kept : Relevance[q.hits[i]] < Relevance[d]
      BY Zenon DEF BestAreKept
    <2> DEFINE size == IF Len(q.found) < CascadeK THEN Len(q.found) ELSE CascadeK
               hits == q.hits
    <2>1. Fair(q.found, all, size, hits)
      BY AnswersAreFair
    <2> HIDE DEF size, hits
    <2>2. DOMAIN hits = 1..size
      BY <2>1 DEF Fair
    <2>3. kept \in SUBSET (1..size) /\ \A i \in kept : hits[i] \in all
      BY <2>2 DEF hits
    <2>4. \A i, j \in kept : i < j => Relevance[hits[i]] < Relevance[hits[j]]
      BY <2>1, <2>3 DEF Fair
    <2>5. ASSUME NEW d \in scored
          PROVE  d \in Range(hits) \/ \A i \in kept : Relevance[hits[i]] < Relevance[d]
      <3>1. CASE \E i \in 1..size : hits[i] = d
        BY <2>2, <3>1 DEF Range
      <3>2. CASE \A i \in 1..size : hits[i] \in all => Relevance[hits[i]] < Relevance[d]
        BY <2>3, <3>2
      <3>3. QED BY <2>1, <3>1, <3>2 DEF Fair
    <2>6. QED BY <2>4, <2>5 DEF hits
  <1>2. QED BY <1>1, CascadeAlways, PTL

=============================================================================
