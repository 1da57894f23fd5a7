----------------------------- MODULE StorageProofs -----------------------------
(***************************************************************************)
(* What holds of the files a migration leaves, for every value of the      *)
(* constants: the schema of the manifest while processes upgrade it        *)
(* (ManifestSchema), a file written through a temporary name               *)
(* (AtomicWrite), the audit trail (AuditChain) for every number of         *)
(* processes, records, prunes and damages, and the FAISS index with its    *)
(* sidecar (FaissStore).                                                   *)
(***************************************************************************)
EXTENDS ManifestSchema, AtomicWrite, AuditChain, FaissStore, RankingProofs,
        WellFoundedInduction, TLAPS

----------------------------------------------------------------------------
(* ManifestSchema *)

Newest == SCHEMA_VERSION + 1

SchemaTypeOK ==
    /\ origin \in 0..Newest /\ userVersion \in 0..Newest
    /\ opener \in [Openers -> [at : {"closed", "failed", "open", "backup", "script", "stamp"},
                               version : 0..SCHEMA_VERSION]]
    /\ DOMAIN backups \subseteq 1..(SCHEMA_VERSION - 1)
    /\ \A p \in Openers : At(p, "script") \/ At(p, "stamp") => opener[p].version # 0
    /\ \A p \in Openers : At(p, "backup") => opener[p].version \in 1..(SCHEMA_VERSION - 1)

\* What a process relies on, whatever the others have done since it looked.
Reached(p) ==
    /\ At(p, "open") => 1..SCHEMA_VERSION \subseteq applied
    /\ At(p, "backup") \/ At(p, "stamp") => 1..opener[p].version \subseteq applied
    /\ At(p, "script") => 1..(opener[p].version - 1) \subseteq applied

ReachedByAll ==
    /\ userVersion <= SCHEMA_VERSION => 1..userVersion \subseteq applied
    /\ \A p \in Openers : Reached(p)

\* Nobody is past the backup of an old manifest that has none.
Untouched ==
    /\ applied = 1..origin /\ userVersion = origin
    /\ \A p \in Openers : /\ ~At(p, "script") /\ ~At(p, "stamp")
                          /\ At(p, "backup") => opener[p].version = origin

OldIsBackedUp == origin \in 1..(SCHEMA_VERSION - 1) =>
    /\ userVersion >= origin
    /\ \A p \in Openers : At(p, "backup") => opener[p].version >= origin
    /\ \A p \in Openers : At(p, "script") \/ At(p, "stamp") => opener[p].version > origin
    /\ origin \notin DOMAIN backups => Untouched
    /\ origin \in DOMAIN backups => backups[origin] = 1..origin

SchemaInv == SchemaTypeOK /\ ReachedByAll /\ OldIsBackedUp

\* SchemaInv holds of the manifest of any release, before anyone opens it.
LEMMA SchemaInvInit == SchemaInit => SchemaInv
  BY DEF SchemaInit, SchemaInv, SchemaTypeOK, ReachedByAll, Reached, OldIsBackedUp, Untouched,
         Closed, At, Newest, SCHEMA_VERSION

\* Every step of every opener, and its end wherever it is, keeps SchemaInv.
LEMMA SchemaStep == SchemaInv /\ [SchemaNext]_schemaVars => SchemaInv'
  <1> SUFFICES ASSUME SchemaInv, [SchemaNext]_schemaVars PROVE SchemaInv'
    OBVIOUS
  <1>1. SchemaTypeOK /\ ReachedByAll /\ OldIsBackedUp
    BY DEF SchemaInv
  <1> USE DEF At, OpenerGoes, Newest, SCHEMA_VERSION
  <1>2. ASSUME NEW p \in Openers, ReadVersion(p) PROVE SchemaInv'
    <2>1. /\ UNCHANGED <<applied, userVersion, backups, origin>>
          /\ \/ userVersion > 3 /\ opener' = [opener EXCEPT ![p] = [at |-> "failed", version |-> 0]]
             \/ userVersion = 3 /\ opener' = [opener EXCEPT ![p] = [at |-> "open", version |-> 0]]
             \/ userVersion = 0 /\ opener' = [opener EXCEPT ![p] = [at |-> "script", version |-> 1]]
             \/ userVersion \in 1..2
                /\ opener' = [opener EXCEPT ![p] = [at |-> "backup", version |-> userVersion]]
      BY <1>1, <1>2 DEF ReadVersion, SchemaTypeOK
    <2>2. SchemaTypeOK'
      BY <1>1, <2>1 DEF SchemaTypeOK
    <2>3. ReachedByAll'
      BY <1>1, <2>1 DEF SchemaTypeOK, ReachedByAll, Reached
    <2>4. OldIsBackedUp'
      BY <1>1, <2>1 DEF SchemaTypeOK, OldIsBackedUp, Untouched
    <2>5. QED BY <2>2, <2>3, <2>4 DEF SchemaInv
  <1>3. ASSUME NEW p \in Openers, BackUp(p) PROVE SchemaInv'
    <2> DEFINE v == opener[p].version
    <2>1. /\ opener[p].at = "backup" /\ UNCHANGED <<applied, userVersion, origin>>
          /\ v \in 1..2 /\ 1..v \subseteq applied
      BY <1>1, <1>3 DEF BackUp, SchemaTypeOK, ReachedByAll, Reached
    <2>2. CASE v \in DOMAIN backups
      <3>1. UNCHANGED backups /\ opener' = [opener EXCEPT ![p] = [at |-> "failed", version |-> 0]]
        BY <1>3, <2>2 DEF BackUp
      <3>2. SchemaTypeOK' /\ ReachedByAll'
        BY <1>1, <2>1, <3>1 DEF SchemaTypeOK, ReachedByAll, Reached
      <3>3. OldIsBackedUp'
        BY <1>1, <2>1, <3>1 DEF SchemaTypeOK, OldIsBackedUp, Untouched
      <3>4. QED BY <3>2, <3>3 DEF SchemaInv
    <2>3. CASE v \notin DOMAIN backups
      <3>1. /\ opener' = [opener EXCEPT ![p] = [at |-> "script", version |-> v + 1]]
            /\ backups' = [w \in DOMAIN backups \union {v} |->
                              IF w = v THEN applied ELSE backups[w]]
        BY <1>3, <2>3 DEF BackUp, CopyTo
      <3> HIDE DEF v
      <3>2. SchemaTypeOK'
        BY <1>1, <2>1, <3>1 DEF SchemaTypeOK
      <3>3. ReachedByAll'
        BY <1>1, <2>1, <3>1 DEF SchemaTypeOK, ReachedByAll, Reached
      <3>4. ASSUME origin \in 1..2 PROVE v >= origin
        BY <1>1, <2>1, <3>4 DEF v, SchemaTypeOK, OldIsBackedUp, Untouched
      <3>5. OldIsBackedUp'
        BY <1>1, <2>1, <2>3, <3>1, <3>4 DEF SchemaTypeOK, OldIsBackedUp, Untouched
      <3>6. QED BY <3>2, <3>3, <3>5 DEF SchemaInv
    <2>4. QED BY <2>2, <2>3
  <1>4. ASSUME NEW p \in Openers, Upgrade(p) PROVE SchemaInv'
    <2> DEFINE v == opener[p].version
    <2>1. /\ opener[p].at = "script" /\ UNCHANGED <<userVersion, backups, origin>>
          /\ v \in 1..3 /\ 1..(v - 1) \subseteq applied
      BY <1>1, <1>4 DEF Upgrade, SchemaTypeOK, ReachedByAll, Reached
    <2>2. \/ /\ applied' = applied
             /\ opener' = [opener EXCEPT ![p] = [at |-> "failed", version |-> 0]]
          \/ /\ applied' = applied \union {v}
             /\ opener' = [opener EXCEPT ![p] = [at |-> "stamp", version |-> v]]
      BY <1>4 DEF Upgrade
    <2> HIDE DEF v
    <2>3. SchemaTypeOK'
      BY <1>1, <2>1, <2>2 DEF SchemaTypeOK
    <2>4. ReachedByAll'
      BY <1>1, <2>1, <2>2 DEF SchemaTypeOK, ReachedByAll, Reached
    <2>5. OldIsBackedUp'
      BY <1>1, <2>1, <2>2 DEF v, SchemaTypeOK, OldIsBackedUp, Untouched
    <2>6. QED BY <2>3, <2>4, <2>5 DEF SchemaInv
  <1>5. ASSUME NEW p \in Openers, Stamp(p) PROVE SchemaInv'
    <2> DEFINE v == opener[p].version
    <2>1. /\ opener[p].at = "stamp" /\ UNCHANGED <<applied, backups, origin>>
          /\ v \in 1..3 /\ 1..v \subseteq applied /\ userVersion' = v
      BY <1>1, <1>5 DEF Stamp, Stamped, SchemaTypeOK, ReachedByAll, Reached
    <2>2. \/ v = 3 /\ opener' = [opener EXCEPT ![p] = [at |-> "open", version |-> 0]]
          \/ v \in 1..2 /\ opener' = [opener EXCEPT ![p] = [at |-> "script", version |-> v + 1]]
      BY <1>5, <2>1 DEF Stamp
    <2> HIDE DEF v
    <2>3. SchemaTypeOK'
      BY <1>1, <2>1, <2>2 DEF SchemaTypeOK
    <2>4. ReachedByAll'
      BY <1>1, <2>1, <2>2 DEF SchemaTypeOK, ReachedByAll, Reached
    <2>5. OldIsBackedUp'
      BY <1>1, <2>1, <2>2 DEF v, SchemaTypeOK, OldIsBackedUp, Untouched
    <2>6. QED BY <2>3, <2>4, <2>5 DEF SchemaInv
  <1>6. ASSUME NEW p \in Openers, LeaveManifest(p) PROVE SchemaInv'
    <2>1. UNCHANGED <<applied, userVersion, backups, origin>>
          /\ opener' = [opener EXCEPT ![p] = [at |-> "closed", version |-> 0]]
      BY <1>6 DEF LeaveManifest
    <2>2. SchemaTypeOK' /\ ReachedByAll'
      BY <1>1, <2>1 DEF SchemaTypeOK, ReachedByAll, Reached
    <2>3. OldIsBackedUp'
      BY <1>1, <2>1 DEF SchemaTypeOK, OldIsBackedUp, Untouched
    <2>4. QED BY <2>2, <2>3 DEF SchemaInv
  <1>7. CASE UNCHANGED schemaVars
    BY <1>1, <1>7
    DEF schemaVars, SchemaInv, SchemaTypeOK, ReachedByAll, Reached, OldIsBackedUp, Untouched
  <1>8. QED
    BY <1>2, <1>3, <1>4, <1>5, <1>6, <1>7 DEF SchemaNext

\* SchemaInv holds of every run of the program.
LEMMA SchemaAlways == SchemaSpec => []SchemaInv
  BY SchemaInvInit, SchemaStep, PTL DEF SchemaSpec

\* db.py, _migrate: whatever processes open a manifest at the same time and are
\* killed on the way, its version claims no change it has not had, and whoever has
\* it open has every table and column.
THEOREM VersionNeverAheadAlways == SchemaSpec => []VersionNeverAhead
  <1>1. SchemaInv => VersionNeverAhead
    BY DEF SchemaInv, ReachedByAll, Reached, VersionNeverAhead, Versions
  <1>2. QED BY <1>1, SchemaAlways, PTL

\* db.py, _migrate: the manifest of an older release is not changed
\* before a copy of it exists, and no later opener writes over that copy.
THEOREM OldManifestIsKeptAlways == SchemaSpec => []OldManifestIsKept
  <1>1. SchemaInv => OldManifestIsKept
    BY DEF SchemaInv, SchemaTypeOK, OldIsBackedUp, Untouched, OldManifestIsKept
  <1>2. QED BY <1>1, SchemaAlways, PTL

----------------------------------------------------------------------------
(* AtomicWrite *)

Contents == Nat \ {None}
Directories == [path : Nat, bak : [1..Keep -> Nat], tmp : SUBSET Nat]
Calls == [at : {"idle", "writing", "flushed", "swapped", "shifting", "rotated"}, v : Nat]

WriteTypeOK ==
    /\ dirs \in Seq(Directories) /\ dirs # <<>>
    /\ saver \in [Savers -> Calls]
    /\ spent \in [versions : Nat, cuts : Nat, rotations : Nat]
    /\ swapped \in Seq(Contents) /\ acked \subseteq Range(swapped)
    /\ flushed \subseteq 1..spent.versions /\ torn \subseteq 1..spent.versions
    /\ flushed \intersect torn = {}

\* A directory from which version v, once swapped in, has been lost by nothing but
\* a later swap: the target, when there is one, is v or later.
Carries(dir, v) ==
    /\ dir.path # None => dir.path \in SwappedSince(v)
    /\ Kept(dir) \intersect SwappedSince(v) # {}

\* What may be read after a power cut, or without one.
Sound(dir) == Kept(dir) \subseteq flushed /\ \A v \in acked : Carries(dir, v)
SoundDirectories == {dir \in Directories : Sound(dir)}

\* What a call in progress relies on.
SaverSound(w) ==
    /\ saver[w].at = "writing" => saver[w].v \in (1..spent.versions) \ torn
    /\ saver[w].at \in {"flushed", "swapped"} => saver[w].v \in flushed
    /\ saver[w].at = "swapped" => saver[w].v \in Range(swapped) /\ Carries(Now, saver[w].v)
    /\ saver[w].at = "shifting" => Now.path # None /\ saver[w].v \in 0..(Keep - 1)

OneRotation == \A w, x \in Savers : Rotating(w) /\ Rotating(x) => w = x

WriteInv ==
    WriteTypeOK /\ dirs \in Seq(SoundDirectories) /\ (\A w \in Savers : SaverSound(w)) /\ OneRotation

\* The directory as it is now is one of those it may be after a power cut.
LEMMA NowIsADirectory ==
  ASSUME WriteTypeOK
  PROVE  /\ Len(dirs) \in Nat \ {0} /\ Now = dirs[Len(dirs)] /\ Now \in Directories
         /\ \A n \in 1..Len(dirs) : dirs[n] \in Directories
  BY DEF WriteTypeOK, Now, Last

\* A rename adds one directory, which is the one there is now.
LEMMA RenamedIsNow ==
  ASSUME WriteTypeOK, NEW dir \in Directories, Renamed(dir)
  PROVE  /\ dirs' \in Seq(Directories) /\ dirs' # <<>> /\ Now' = dir
         /\ Len(dirs') = Len(dirs) + 1
         /\ \A n \in 1..Len(dirs) : dirs'[n] = dirs[n]
         /\ dirs'[Len(dirs) + 1] = dir
  BY DEF WriteTypeOK, Renamed, Now, Last

\* A flush, or a power cut, leaves one of the directories there were.
LEMMA OneDirectory ==
  ASSUME WriteTypeOK, NEW dir \in Directories, dirs' = <<dir>>
  PROVE  /\ dirs' \in Seq(Directories) /\ dirs' # <<>> /\ Now' = dir
         /\ Len(dirs') = 1 /\ dirs'[1] = dir
  BY DEF Now, Last

\* What a directory holds is its target and its backups.
LEMMA KeptIs ==
  ASSUME NEW dir \in Directories
  PROVE  Kept(dir) = {x \in Contents : x = dir.path \/ \E i \in 1..Keep : x = dir.bak[i]}
  BY DEF Kept, Directories, Contents, Range, None

\* A swap is later than itself and than every swap before it, and earlier ones are
\* forgotten by nothing.
LEMMA SwapIsLatest ==
  ASSUME swapped \in Seq(Contents), NEW u \in Contents, swapped' = Append(swapped, u)
  PROVE  /\ swapped' \in Seq(Contents) /\ Range(swapped) \subseteq Range(swapped')
         /\ u \in Range(swapped')
         /\ \A v : SwappedSince(v) \subseteq SwappedSince(v)'
         /\ \A v \in Range(swapped') : u \in SwappedSince(v)'
  <1>1. /\ swapped' \in Seq(Contents) /\ Len(swapped') = Len(swapped) + 1
        /\ DOMAIN swapped = 1..Len(swapped) /\ DOMAIN swapped' = 1..(Len(swapped) + 1)
        /\ Len(swapped) \in Nat /\ swapped'[Len(swapped) + 1] = u
        /\ \A n \in 1..Len(swapped) : swapped'[n] = swapped[n]
    OBVIOUS
  <1>2. Range(swapped) \subseteq Range(swapped') /\ u \in Range(swapped')
    BY <1>1 DEF Range
  <1>3. ASSUME NEW v, NEW x \in SwappedSince(v) PROVE x \in SwappedSince(v)'
    <2>1. PICK m \in 1..Len(swapped) : x = swapped[m] /\ \E first \in 1..m : swapped[first] = v
      BY <1>1, <1>3 DEF SwappedSince
    <2>2. m \in DOMAIN swapped' /\ x = swapped'[m] /\ \E first \in 1..m : swapped'[first] = v
      BY <1>1, <2>1
    <2>3. QED BY <2>2 DEF SwappedSince
  <1>4. ASSUME NEW v \in Range(swapped') PROVE u \in SwappedSince(v)'
    <2>1. PICK first \in 1..(Len(swapped) + 1) : swapped'[first] = v
      BY <1>1, <1>4 DEF Range
    <2>2. QED BY <1>1, <2>1 DEF SwappedSince
  <1>5. QED BY <1>1, <1>2, <1>3, <1>4

\* What makes a directory sound is not lost as contents are flushed and swapped.
LEMMA SoundStays ==
  ASSUME flushed \subseteq flushed', acked' = acked,
         \A v : SwappedSince(v) \subseteq SwappedSince(v)'
  PROVE  /\ SoundDirectories \subseteq SoundDirectories'
         /\ \A dir, v : Carries(dir, v) => (dir.path # None => dir.path \in SwappedSince(v)')
                                           /\ Kept(dir) \intersect SwappedSince(v)' # {}
  BY DEF SoundDirectories, Sound, Carries

\* Without a swap nothing becomes later than anything.
LEMMA SinceStays == swapped' = swapped => \A v : SwappedSince(v)' = SwappedSince(v)
  BY DEF SwappedSince

\* The directory there is now is sound.
LEMMA NowIsSound == WriteInv => Now \in Directories /\ Sound(Now)
  <1> SUFFICES ASSUME WriteInv PROVE Now \in Directories /\ Sound(Now)
    OBVIOUS
  <1>1. Now = dirs[Len(dirs)] /\ Len(dirs) \in Nat \ {0} /\ Now \in Directories
    BY NowIsADirectory DEF WriteInv
  <1>2. \A n \in 1..Len(dirs) : dirs[n] \in SoundDirectories
    BY DEF WriteInv
  <1>3. QED BY <1>1, <1>2 DEF SoundDirectories

\* A rename to a directory that is sound leaves only sound ones, and so does a
\* flush or a power cut.
LEMMA RenameKeepsSound ==
  ASSUME WriteInv, SoundDirectories \subseteq SoundDirectories',
         NEW dir \in SoundDirectories', Renamed(dir) \/ dirs' = <<dir>>
  PROVE  dirs' \in Seq(SoundDirectories)'
  <1>1. dirs \in Seq(SoundDirectories') /\ dirs # <<>>
    BY DEF WriteInv, WriteTypeOK
  <1> DEFINE S == SoundDirectories'
  <1>2. dirs \in Seq(S) /\ dir \in S
    BY <1>1
  <1> HIDE DEF S
  <1>3. Append(dirs, dir) \in Seq(S) /\ <<dir>> \in Seq(S)
    BY <1>2
  <1>5. dirs' = Append(dirs, dir) \/ dirs' = <<dir>>
    BY DEF Renamed
  <1>4. QED BY <1>3, <1>5 DEF S

\* A step that flushes, swaps and acks nothing keeps WriteInv when the directory it
\* leaves carries what the one before it did, and the call it moves is sound.
LEMMA QuietStepKeeps ==
  ASSUME WriteInv, UNCHANGED <<flushed, torn, swapped, acked>>,
         spent' \in [versions : Nat, cuts : Nat, rotations : Nat],
         spent.versions <= spent'.versions,
         saver' \in [Savers -> Calls],
         NEW dir \in Directories,
         (dirs' = dirs /\ dir = Now) \/ Renamed(dir) \/ dirs' = <<dir>>,
         Kept(dir) \subseteq Kept(Now), \A v : Carries(Now, v) => Carries(dir, v),
         \A x \in Savers : \/ saver'[x] = saver[x]
                              /\ (saver[x].at = "shifting" => dir.path # None)
                           \/ SaverSound(x)',
         OneRotation'
  PROVE  WriteInv'
  <1>1. WriteTypeOK /\ Now \in Directories /\ Sound(Now)
    BY NowIsSound DEF WriteInv
  <1>2. /\ \A v : SwappedSince(v)' = SwappedSince(v)
        /\ SoundDirectories \subseteq SoundDirectories'
    BY SinceStays, SoundStays
  <1>3. Sound(dir)
    BY <1>1 DEF Sound
  <1>4. dir \in SoundDirectories'
    BY <1>2, <1>3 DEF SoundDirectories
  <1>5. Now' = dir /\ dirs' \in Seq(Directories) /\ dirs' # <<>>
    <2>1. CASE dirs' = dirs /\ dir = Now
      BY <1>1, <2>1 DEF WriteTypeOK, Now
    <2>2. CASE Renamed(dir)
      BY <1>1, <2>2, RenamedIsNow
    <2>3. CASE dirs' = <<dir>>
      BY <1>1, <2>3, OneDirectory
    <2>4. QED BY <2>1, <2>2, <2>3
  <1>6. dirs' \in Seq(SoundDirectories)'
    <2>1. CASE dirs' = dirs
      <3>1. dirs \in Seq(SoundDirectories')
        BY <1>2 DEF WriteInv
      <3>2. QED BY <2>1, <3>1
    <2>2. CASE Renamed(dir) \/ dirs' = <<dir>>
      BY <1>2, <1>4, <2>2, RenameKeepsSound
    <2>3. QED BY <2>1, <2>2
  <1>7. WriteTypeOK'
    <2>1. \A n \in Nat : n \in 1..spent.versions => n \in 1..spent'.versions
      BY <1>1 DEF WriteTypeOK
    <2>2. QED BY <1>1, <1>5, <2>1 DEF WriteTypeOK
  <1>8. ASSUME NEW x \in Savers, saver'[x] = saver[x],
               saver[x].at = "shifting" => dir.path # None
        PROVE  SaverSound(x)'
    <2>1. SaverSound(x)
      BY DEF WriteInv
    <2>2. saver[x].at = "writing" => saver[x].v \in (1..spent'.versions) \ torn
      BY <1>1, <2>1 DEF SaverSound, WriteTypeOK
    <2>3. \A v : Carries(dir, v) => Carries(Now, v)'
      BY <1>2, <1>5 DEF Carries
    <2>4. QED BY <1>5, <1>8, <2>1, <2>2, <2>3 DEF SaverSound
  <1>9. QED BY <1>6, <1>7, <1>8 DEF WriteInv

\* Temporary files are neither targets nor backups.
LEMMA TemporariesAside ==
  ASSUME NEW dir \in Directories, NEW old \in Directories,
         dir.path = old.path, dir.bak = old.bak
  PROVE  Kept(dir) = Kept(old) /\ \A v : Carries(old, v) => Carries(dir, v)
  BY DEF Kept, Carries

\* One call that moves, and starts no rotation, leaves at most one rotating.
LEMMA RotationsStay ==
  ASSUME WriteInv, NEW w \in Savers, NEW s \in Calls, saver' = [saver EXCEPT ![w] = s],
         s.at \in {"shifting", "rotated"} => Rotating(w)
  PROVE  OneRotation' /\ saver' \in [Savers -> Calls]
         /\ \A x \in Savers : x # w => saver'[x] = saver[x]
         /\ saver'[w] = s
  BY DEF WriteInv, WriteTypeOK, OneRotation, Rotating

\* atomic_write_stream up to the swap, and what removes its temporary file: its
\* own failure, or somebody who collects it.
LEMMA TemporaryStepKeeps ==
  ASSUME WriteInv,
         \/ \E w \in Savers : CreateTemporary(w) \/ Fail(w)
         \/ \E v \in Now.tmp : CollectTemporary(v)
  PROVE  WriteInv'
  <1>1. WriteTypeOK /\ Now \in Directories /\ (\A w \in Savers : SaverSound(w)) /\ OneRotation
    BY NowIsSound DEF WriteInv
  <1>2. ASSUME NEW w \in Savers, CreateTemporary(w) PROVE WriteInv'
    <2> DEFINE n == spent.versions + 1
               dir == [Now EXCEPT !.tmp = Now.tmp \union {n}]
               s == [at |-> "writing", v |-> n]
    <2>1. /\ spent' = [spent EXCEPT !.versions = spent.versions + 1] /\ spent'.versions = n
          /\ n \in Nat /\ spent.versions <= n
      BY <1>1, <1>2 DEF CreateTemporary, WriteTypeOK
    <2>2. /\ UNCHANGED <<flushed, torn, swapped, acked>> /\ saver[w].at = "idle"
          /\ saver' = [saver EXCEPT ![w] = s] /\ Renamed(dir)
      BY <1>2, <2>1 DEF CreateTemporary
    <2>3. dir \in Directories /\ dir.path = Now.path /\ dir.bak = Now.bak
      BY <1>1, <2>1 DEF Directories
    <2>4. s \in Calls /\ s.at = "writing" /\ s.v = n
      BY <2>1 DEF Calls
    <2>5. n \in (1..n) \ torn
      BY <1>1, <2>1 DEF WriteTypeOK
    <2> HIDE DEF dir, s
    <2>6. OneRotation' /\ saver' \in [Savers -> Calls]
          /\ (\A x \in Savers : x # w => saver'[x] = saver[x]) /\ saver'[w] = s
      BY <2>2, <2>4, RotationsStay
    <2>7. SaverSound(w)'
      BY <2>1, <2>2, <2>4, <2>5, <2>6 DEF SaverSound
    <2>8. spent' \in [versions : Nat, cuts : Nat, rotations : Nat]
      BY <1>1, <2>1 DEF WriteTypeOK
    <2>9. /\ Kept(dir) \subseteq Kept(Now) /\ \A v : Carries(Now, v) => Carries(dir, v)
      BY <1>1, <2>3, TemporariesAside
    <2>10. \A x \in Savers : saver[x].at = "shifting" => dir.path # None
      BY <1>1, <2>3 DEF SaverSound
    <2>11. QED
      BY <2>1, <2>2, <2>3, <2>6, <2>7, <2>8, <2>9, <2>10, QuietStepKeeps
  <1>3. ASSUME NEW w \in Savers, Fail(w) PROVE WriteInv'
    <2> DEFINE dir == [Now EXCEPT !.tmp = Now.tmp \ {saver[w].v}]
    <2>1. /\ UNCHANGED <<flushed, torn, swapped, acked, spent>>
          /\ saver' = [saver EXCEPT ![w] = AtRest] /\ Renamed(dir)
      BY <1>3 DEF Fail
    <2>2. dir \in Directories /\ dir.path = Now.path /\ dir.bak = Now.bak
      BY <1>1 DEF Directories
    <2>3. AtRest \in Calls /\ AtRest.at = "idle"
      BY DEF AtRest, Calls, None
    <2> HIDE DEF dir
    <2>4. OneRotation' /\ saver' \in [Savers -> Calls]
          /\ (\A x \in Savers : x # w => saver'[x] = saver[x]) /\ saver'[w] = AtRest
      BY <2>1, <2>3, RotationsStay
    <2>5. SaverSound(w)'
      BY <2>3, <2>4 DEF SaverSound
    <2>6. /\ Kept(dir) \subseteq Kept(Now) /\ \A v : Carries(Now, v) => Carries(dir, v)
      BY <1>1, <2>2, TemporariesAside
    <2>7. \A x \in Savers : saver[x].at = "shifting" => dir.path # None
      BY <1>1, <2>2 DEF SaverSound
    <2>8. /\ spent' \in [versions : Nat, cuts : Nat, rotations : Nat]
          /\ spent.versions <= spent'.versions
      BY <1>1, <2>1 DEF WriteTypeOK
    <2>9. QED
      BY <2>1, <2>2, <2>4, <2>5, <2>6, <2>7, <2>8, QuietStepKeeps
  <1>4. ASSUME NEW v \in Now.tmp, CollectTemporary(v) PROVE WriteInv'
    <2> DEFINE dir == [Now EXCEPT !.tmp = Now.tmp \ {v}]
    <2>1. UNCHANGED <<flushed, torn, saver, swapped, acked, spent>> /\ Renamed(dir)
      BY <1>4 DEF CollectTemporary
    <2>2. dir \in Directories /\ dir.path = Now.path /\ dir.bak = Now.bak
      BY <1>1 DEF Directories
    <2> HIDE DEF dir
    <2>3. OneRotation' /\ saver' \in [Savers -> Calls]
      BY <1>1, <2>1 DEF OneRotation, Rotating, WriteTypeOK
    <2>4. /\ Kept(dir) \subseteq Kept(Now) /\ \A u : Carries(Now, u) => Carries(dir, u)
      BY <1>1, <2>2, TemporariesAside
    <2>5. \A x \in Savers : saver[x].at = "shifting" => dir.path # None
      BY <1>1, <2>2 DEF SaverSound
    <2>6. /\ spent' \in [versions : Nat, cuts : Nat, rotations : Nat]
          /\ spent.versions <= spent'.versions
      BY <1>1, <2>1 DEF WriteTypeOK
    <2>7. QED
      BY <2>1, <2>2, <2>3, <2>4, <2>5, <2>6, QuietStepKeeps
  <1>5. QED BY <1>2, <1>3, <1>4

\* A call that ends, wherever it is, and leaves the directory or flushes it.
LEMMA EndingKeeps ==
  ASSUME WriteInv, NEW w \in Savers, saver' = [saver EXCEPT ![w] = AtRest],
         dirs' = dirs \/ dirs' = <<Now>>,
         UNCHANGED <<flushed, torn, swapped, acked, spent>>
  PROVE  WriteInv'
  <1>1. WriteTypeOK /\ Now \in Directories /\ (\A x \in Savers : SaverSound(x))
    BY NowIsSound DEF WriteInv
  <1>2. AtRest \in Calls /\ AtRest.at = "idle"
    BY DEF AtRest, Calls, None
  <1>3. OneRotation' /\ saver' \in [Savers -> Calls]
        /\ (\A x \in Savers : x # w => saver'[x] = saver[x]) /\ saver'[w] = AtRest
    BY <1>2, RotationsStay
  <1>4. SaverSound(w)'
    BY <1>2, <1>3 DEF SaverSound
  <1>5. \A x \in Savers : saver[x].at = "shifting" => Now.path # None
    BY <1>1 DEF SaverSound
  <1>6. /\ spent' \in [versions : Nat, cuts : Nat, rotations : Nat]
        /\ spent.versions <= spent'.versions
    BY <1>1 DEF WriteTypeOK
  <1>7. QED BY <1>1, <1>3, <1>4, <1>5, <1>6, QuietStepKeeps

\* rotate_backup: the target stays where it is until the others have moved, and is
\* then the first backup; what is dropped before is older than the target.
LEMMA RotationKeeps ==
  ASSUME WriteInv, NEW w \in Savers, Rotate(w) \/ Shift(w) \/ MoveAside(w)
  PROVE  WriteInv'
  <1>1. WriteTypeOK /\ Now \in Directories /\ (\A x \in Savers : SaverSound(x)) /\ OneRotation
    BY NowIsSound DEF WriteInv
  <1>2. Keep \in Nat /\ Keep >= 1
    BY WriteAssumption
  <1>3. /\ spent' \in [versions : Nat, cuts : Nat, rotations : Nat]
        /\ spent.versions <= spent'.versions /\ UNCHANGED <<flushed, torn, swapped, acked>>
    BY <1>1 DEF Rotate, Shift, MoveAside, WriteTypeOK
  <1>4. CASE Rotate(w)
    <2> DEFINE dir == [Now EXCEPT !.bak = [Now.bak EXCEPT ![Keep] = None]]
               s == [at |-> "shifting", v |-> Keep - 1]
    <2>1. /\ Now.path # None /\ saver' = [saver EXCEPT ![w] = s] /\ Renamed(dir)
          /\ \A x \in Savers : ~Rotating(x)
      BY <1>4 DEF Rotate, Rotating
    <2>2. /\ dir \in Directories /\ dir.path = Now.path
          /\ \A i \in 1..Keep : dir.bak[i] \in {None, Now.bak[i]}
      BY <1>1, <1>2 DEF Directories, None
    <2>3. s \in Calls /\ s.at = "shifting" /\ s.v \in 0..(Keep - 1)
      BY <1>2 DEF Calls
    <2> HIDE DEF dir, s
    <2>4. /\ saver' \in [Savers -> Calls]
          /\ (\A x \in Savers : x # w => saver'[x] = saver[x]) /\ saver'[w] = s
      BY <1>1, <2>1, <2>3 DEF WriteTypeOK
    <2>5. OneRotation'
      BY <2>1, <2>4 DEF OneRotation, Rotating
    <2>6. Kept(dir) \subseteq Kept(Now)
      BY <1>1, <2>2, KeptIs DEF Contents
    <2>7. dir.path \in Kept(dir)
      BY <1>1, <2>1, <2>2, KeptIs DEF Contents, Directories
    <2>8. \A v : Carries(Now, v) => Carries(dir, v)
      BY <2>1, <2>2, <2>7 DEF Carries
    <2>9. Now' = dir
      BY <1>1, <2>1, <2>2, RenamedIsNow
    <2>10. SaverSound(w)'
      BY <2>1, <2>2, <2>3, <2>4, <2>9 DEF SaverSound
    <2>11. QED
      BY <1>3, <2>1, <2>2, <2>4, <2>5, <2>6, <2>8, <2>10, QuietStepKeeps
  <1>5. CASE Shift(w)
    <2> DEFINE n == saver[w].v
               dir == [Now EXCEPT !.bak = [Now.bak EXCEPT ![n + 1] = Now.bak[n], ![n] = None]]
               s == [saver[w] EXCEPT !.v = n - 1]
    <2>1. /\ saver[w].at = "shifting" /\ n > 0 /\ saver' = [saver EXCEPT ![w] = s]
          /\ dirs' = dirs \/ Renamed(dir)
      BY <1>1, <1>5 DEF Shift, WriteTypeOK
    <2>2. n \in 1..(Keep - 1) /\ Now.path # None
      BY <1>1, <1>2, <2>1 DEF SaverSound
    <2>3. /\ dir \in Directories /\ dir.path = Now.path
          /\ \A i \in 1..Keep : dir.bak[i] \in {None, Now.bak[i], Now.bak[n]}
      <3> DEFINE bak == Now.bak
      <3> DEFINE moved == [bak EXCEPT ![n + 1] = bak[n], ![n] = None]
      <3>0. bak \in [1..Keep -> Nat]
        BY <1>1 DEF Directories
      <3> HIDE DEF bak, n
      <3>1. n \in 1..Keep /\ n + 1 \in 1..Keep /\ n # n + 1 /\ bak \in [1..Keep -> Nat]
        BY <1>2, <2>2, <3>0
      <3>2. /\ moved \in [1..Keep -> Nat]
            /\ \A i \in 1..Keep : moved[i] \in {None, bak[i], bak[n]}
        BY <3>1 DEF None
      <3>3. dir = [Now EXCEPT !.bak = moved]
        BY DEF bak, n
      <3> HIDE DEF moved
      <3>4. QED BY <1>1, <3>2, <3>3 DEF Directories
    <2>4. s \in Calls /\ s.at = "shifting" /\ s.v \in 0..(Keep - 1)
      BY <1>1, <1>2, <2>1, <2>2 DEF Calls, WriteTypeOK
    <2>5. n \in 1..Keep
      BY <1>2, <2>2
    <2> HIDE DEF dir, s, n
    <2>6. OneRotation' /\ saver' \in [Savers -> Calls]
          /\ (\A x \in Savers : x # w => saver'[x] = saver[x]) /\ saver'[w] = s
      BY <2>1, <2>4, RotationsStay DEF Rotating
    <2>7. Kept(dir) \subseteq Kept(Now)
      BY <1>1, <2>3, <2>5, KeptIs DEF Contents
    <2>8. dir.path \in Kept(dir)
      BY <1>1, <2>2, <2>3, KeptIs DEF Contents, Directories
    <2>9. \A v : Carries(Now, v) => Carries(dir, v)
      BY <2>2, <2>3, <2>8 DEF Carries
    <2>10. CASE dirs' = dirs
      <3>1. Now' = Now
        BY <2>10 DEF Now
      <3>2. SaverSound(w)'
        BY <2>2, <2>4, <2>6, <3>1 DEF SaverSound
      <3>3. QED
        BY <1>1, <1>3, <2>2, <2>6, <2>10, <3>2, QuietStepKeeps
    <2>11. CASE Renamed(dir)
      <3>1. Now' = dir
        BY <1>1, <2>3, <2>11, RenamedIsNow
      <3>2. SaverSound(w)'
        BY <2>2, <2>3, <2>4, <2>6, <3>1 DEF SaverSound
      <3>3. QED
        BY <1>3, <2>2, <2>3, <2>6, <2>7, <2>9, <2>11, <3>2, QuietStepKeeps
    <2>12. QED BY <2>1, <2>10, <2>11
  <1>6. CASE MoveAside(w)
    <2> DEFINE dir == [Now EXCEPT !.bak = [Now.bak EXCEPT ![1] = Now.path], !.path = None]
               s == [saver[w] EXCEPT !.at = "rotated"]
    <2>1. /\ saver[w].at = "shifting" /\ saver' = [saver EXCEPT ![w] = s] /\ Renamed(dir)
      BY <1>1, <1>6 DEF MoveAside, Reaches, WriteTypeOK
    <2>2. Now.path # None /\ Now.path \in Nat
      BY <1>1, <2>1 DEF SaverSound, Directories
    <2>3. /\ dir \in Directories /\ dir.path = None /\ dir.bak[1] = Now.path
          /\ \A i \in 1..Keep : dir.bak[i] \in {Now.path, Now.bak[i]}
      <3> DEFINE bak == [Now.bak EXCEPT ![1] = Now.path]
      <3>1. /\ bak \in [1..Keep -> Nat] /\ bak[1] = Now.path
            /\ \A i \in 1..Keep : bak[i] \in {Now.path, Now.bak[i]}
        BY <1>1, <1>2 DEF Directories
      <3> HIDE DEF bak
      <3>2. dir = [Now EXCEPT !.bak = bak, !.path = None]
        BY DEF bak
      <3>3. QED BY <1>1, <3>1, <3>2 DEF Directories, None
    <2>4. s \in Calls /\ s.at = "rotated"
      BY <1>1 DEF Calls, WriteTypeOK
    <2> HIDE DEF dir, s
    <2>5. OneRotation' /\ saver' \in [Savers -> Calls]
          /\ (\A x \in Savers : x # w => saver'[x] = saver[x]) /\ saver'[w] = s
      BY <2>1, <2>4, RotationsStay DEF Rotating
    <2>6. Kept(dir) \subseteq Kept(Now)
      BY <1>1, <2>2, <2>3, KeptIs DEF Contents
    <2>7. Now.path \in Kept(dir)
      BY <1>2, <2>2, <2>3, KeptIs DEF Contents
    <2>8. \A v : Carries(Now, v) => Carries(dir, v)
      BY <2>2, <2>3, <2>7 DEF Carries
    <2>9. SaverSound(w)'
      BY <2>4, <2>5 DEF SaverSound
    <2>10. \A x \in Savers : x # w => saver[x].at # "shifting"
      BY <1>1, <2>1 DEF OneRotation, Rotating
    <2>11. QED
      BY <1>3, <2>1, <2>3, <2>5, <2>6, <2>8, <2>9, <2>10, QuietStepKeeps
  <1>7. QED BY <1>4, <1>5, <1>6

\* Contents that are flushed, and have not been torn before, never will be.
LEMMA FlushKeeps ==
  ASSUME WriteInv, NEW w \in Savers, FlushContent(w)
  PROVE  WriteInv'
  <1>1. WriteTypeOK /\ Now \in Directories /\ (\A x \in Savers : SaverSound(x))
    BY NowIsSound DEF WriteInv
  <1> DEFINE s == [saver[w] EXCEPT !.at = "flushed"]
  <1>2. /\ saver[w].at = "writing" /\ saver' = [saver EXCEPT ![w] = s]
        /\ flushed' = flushed \union {saver[w].v}
        /\ UNCHANGED <<dirs, torn, swapped, acked, spent>>
    BY <1>1 DEF FlushContent, Reaches, WriteTypeOK
  <1>3. saver[w].v \in (1..spent.versions) \ torn
    BY <1>1, <1>2 DEF SaverSound
  <1>4. s \in Calls /\ s.at = "flushed" /\ s.v = saver[w].v
    BY <1>1 DEF Calls, WriteTypeOK
  <1> HIDE DEF s
  <1>5. OneRotation' /\ saver' \in [Savers -> Calls]
        /\ (\A x \in Savers : x # w => saver'[x] = saver[x]) /\ saver'[w] = s
    BY <1>2, <1>4, RotationsStay
  <1>6. WriteTypeOK'
    BY <1>1, <1>2, <1>3, <1>5 DEF WriteTypeOK
  <1>7. SoundDirectories \subseteq SoundDirectories'
    BY <1>2, SinceStays, SoundStays
  <1>8. dirs' \in Seq(SoundDirectories)'
    <2>1. dirs \in Seq(SoundDirectories')
      BY <1>7 DEF WriteInv
    <2>2. QED BY <1>2, <2>1
  <1>9. \A v : Carries(Now, v)' <=> Carries(Now, v)
    BY <1>2, SinceStays DEF Carries, Now
  <1>10. ASSUME NEW x \in Savers PROVE SaverSound(x)'
    <2>1. CASE x = w
      BY <1>2, <1>4, <1>5, <2>1 DEF SaverSound
    <2>2. CASE x # w
      <3>1. SaverSound(x) /\ saver'[x] = saver[x] /\ Now' = Now
        BY <1>1, <1>2, <1>5, <2>2 DEF Now
      <3>2. QED BY <1>2, <1>9, <3>1 DEF SaverSound
    <2>3. QED BY <2>1, <2>2
  <1>11. QED BY <1>5, <1>6, <1>8, <1>10 DEF WriteInv

\* os.replace: a flushed version becomes the target, and is later than all.
LEMMA SwapKeeps ==
  ASSUME WriteInv, NEW w \in Savers, Swap(w)
  PROVE  WriteInv'
  <1>1. WriteTypeOK /\ Now \in Directories /\ Sound(Now) /\ (\A x \in Savers : SaverSound(x))
        /\ OneRotation
    BY NowIsSound DEF WriteInv
  <1> DEFINE u == saver[w].v
             dir == [Now EXCEPT !.path = u, !.tmp = Now.tmp \ {u}]
             s == [saver[w] EXCEPT !.at = "swapped"]
  <1>2. /\ saver[w].at = "flushed" /\ saver' = [saver EXCEPT ![w] = s]
        /\ Renamed(dir) /\ swapped' = Append(swapped, u)
        /\ UNCHANGED <<flushed, torn, acked, spent>>
    BY <1>1 DEF Swap, Reaches, WriteTypeOK
  <1>3. u \in flushed /\ u \in Contents
    BY <1>1, <1>2 DEF SaverSound, WriteTypeOK, Contents, None
  <1>4. s \in Calls /\ s.at = "swapped" /\ s.v = u
    BY <1>1 DEF Calls, WriteTypeOK
  <1>5. dir \in Directories /\ dir.path = u /\ dir.bak = Now.bak
    BY <1>1, <1>3 DEF Directories, Contents
  <1> HIDE DEF dir, s, u
  <1>6. OneRotation' /\ saver' \in [Savers -> Calls]
        /\ (\A x \in Savers : x # w => saver'[x] = saver[x]) /\ saver'[w] = s
    BY <1>2, <1>4, RotationsStay
  <1>7. /\ swapped' \in Seq(Contents) /\ Range(swapped) \subseteq Range(swapped')
        /\ u \in Range(swapped')
        /\ \A v : SwappedSince(v) \subseteq SwappedSince(v)'
        /\ \A v \in Range(swapped') : u \in SwappedSince(v)'
    <2>1. swapped \in Seq(Contents)
      BY <1>1 DEF WriteTypeOK
    <2>2. QED BY <1>2, <1>3, <2>1, SwapIsLatest
  <1>8. Now' = dir /\ dirs' \in Seq(Directories) /\ dirs' # <<>>
    BY <1>1, <1>2, <1>5, RenamedIsNow
  <1>9. u \in Kept(dir) /\ Kept(dir) \subseteq Kept(Now) \union {u}
    BY <1>1, <1>3, <1>5, KeptIs
  <1>10. ASSUME NEW v \in Range(swapped') PROVE Carries(Now, v)'
    <2>1. u \in SwappedSince(v)'
      BY <1>7
    <2>2. QED BY <1>5, <1>8, <1>9, <2>1 DEF Carries
  <1>11. WriteTypeOK'
    BY <1>1, <1>2, <1>6, <1>7, <1>8 DEF WriteTypeOK
  <1>12. Sound(Now)'
    <2>1. \A v \in acked' : Carries(Now, v)'
      BY <1>10, <1>11 DEF WriteTypeOK
    <2>2. Kept(dir) \subseteq flushed
      BY <1>1, <1>3, <1>9 DEF Sound
    <2>3. QED BY <1>2, <1>8, <2>1, <2>2 DEF Sound
  <1>13. dirs' \in Seq(SoundDirectories)'
    <2>1. SoundDirectories \subseteq SoundDirectories'
      BY <1>2, <1>7, SoundStays
    <2>2. dir \in SoundDirectories'
      BY <1>5, <1>8, <1>12 DEF SoundDirectories
    <2>3. QED BY <1>2, <2>1, <2>2, RenameKeepsSound
  <1>14. ASSUME NEW x \in Savers PROVE SaverSound(x)'
    <2>1. CASE x = w
      BY <1>2, <1>3, <1>4, <1>6, <1>7, <1>10, <2>1 DEF SaverSound
    <2>2. CASE x # w
      <3>1. SaverSound(x) /\ saver'[x] = saver[x] /\ dir.path # None
        BY <1>1, <1>3, <1>5, <1>6, <2>2 DEF Contents
      <3>2. QED BY <1>2, <1>7, <1>8, <1>10, <3>1 DEF SaverSound
    <2>3. QED BY <2>1, <2>2
  <1>15. QED BY <1>6, <1>11, <1>13, <1>14 DEF WriteInv

\* The directory is flushed: it can no longer be undone, and the call returns.
LEMMA FlushDirectoryKeeps ==
  ASSUME WriteInv, NEW w \in Savers, FlushDirectory(w)
  PROVE  WriteInv'
  <1>1. WriteTypeOK /\ Now \in Directories /\ Sound(Now) /\ (\A x \in Savers : SaverSound(x))
        /\ OneRotation
    BY NowIsSound DEF WriteInv
  <1>2. /\ saver[w].at = "swapped" /\ saver' = [saver EXCEPT ![w] = AtRest]
        /\ dirs' = <<Now>> /\ acked' = acked \union {saver[w].v}
        /\ UNCHANGED <<flushed, torn, swapped, spent>>
    BY DEF FlushDirectory
  <1>3. saver[w].v \in Range(swapped) /\ Carries(Now, saver[w].v)
    BY <1>1, <1>2 DEF SaverSound
  <1>4. AtRest \in Calls /\ AtRest.at = "idle"
    BY DEF AtRest, Calls, None
  <1>5. OneRotation' /\ saver' \in [Savers -> Calls]
        /\ (\A x \in Savers : x # w => saver'[x] = saver[x]) /\ saver'[w] = AtRest
    BY <1>2, <1>4, RotationsStay
  <1>6. Now' = Now /\ dirs' \in Seq(Directories) /\ dirs' # <<>>
    BY <1>1, <1>2, OneDirectory
  <1>7. \A v : Carries(Now, v) => Carries(Now, v)'
    BY <1>2, <1>6, SinceStays DEF Carries
  <1>8. Sound(Now)'
    BY <1>1, <1>2, <1>3, <1>6, <1>7 DEF Sound
  <1>9. dirs' \in Seq(SoundDirectories)'
    <2>1. Now \in SoundDirectories'
      BY <1>1, <1>6, <1>8 DEF SoundDirectories
    <2>2. QED BY <1>2, <2>1
  <1>10. WriteTypeOK'
    BY <1>1, <1>2, <1>3, <1>5, <1>6 DEF WriteTypeOK
  <1>11. ASSUME NEW x \in Savers PROVE SaverSound(x)'
    <2>1. CASE x = w
      BY <1>4, <1>5, <2>1 DEF SaverSound
    <2>2. CASE x # w
      <3>1. SaverSound(x) /\ saver'[x] = saver[x]
        BY <1>1, <1>5, <2>2
      <3>2. QED BY <1>2, <1>6, <1>7, <3>1 DEF SaverSound
    <2>3. QED BY <2>1, <2>2
  <1>12. QED BY <1>5, <1>9, <1>10, <1>11 DEF WriteInv

\* A power cut leaves the directory as it was after some rename since the last
\* flush, and destroys what was not flushed.
LEMMA PowerCutKeeps == WriteInv /\ PowerCut => WriteInv'
  <1> SUFFICES ASSUME WriteInv, PowerCut PROVE WriteInv'
    OBVIOUS
  <1>1. WriteTypeOK
    BY DEF WriteInv
  <1>2. PICK n \in DOMAIN dirs : dirs' = <<dirs[n]>>
    BY DEF PowerCut
  <1> DEFINE dir == dirs[n]
  <1>3. dir \in Directories /\ dir \in SoundDirectories
    BY <1>1 DEF WriteInv, WriteTypeOK
  <1> HIDE DEF dir
  <1>4. /\ torn' = torn \union ((1..spent.versions) \ flushed)
        /\ saver' = [w \in Savers |-> AtRest]
        /\ spent' = [spent EXCEPT !.cuts = spent.cuts + 1]
        /\ UNCHANGED <<flushed, swapped, acked>> /\ dirs' = <<dir>>
    BY <1>2 DEF PowerCut, dir
  <1>5. AtRest \in Calls /\ AtRest.at = "idle"
    BY DEF AtRest, Calls, None
  <1>6. \A x \in Savers : saver'[x].at = "idle"
    BY <1>4, <1>5
  <1>7. OneRotation' /\ \A x \in Savers : SaverSound(x)'
    BY <1>6 DEF OneRotation, Rotating, SaverSound
  <1>8. Now' = dir /\ dirs' \in Seq(Directories) /\ dirs' # <<>>
    BY <1>1, <1>3, <1>4, OneDirectory
  <1>9. spent' \in [versions : Nat, cuts : Nat, rotations : Nat]
        /\ spent'.versions = spent.versions
    BY <1>1, <1>4 DEF WriteTypeOK
  <1>10. WriteTypeOK'
    BY <1>1, <1>4, <1>5, <1>8, <1>9 DEF WriteTypeOK
  <1>11. dirs' \in Seq(SoundDirectories)'
    <2>1. dir \in SoundDirectories'
      BY <1>3, <1>4, SinceStays, SoundStays
    <2>2. QED BY <1>4, <2>1
  <1>12. QED BY <1>7, <1>10, <1>11 DEF WriteInv

\* WriteInv holds of a directory without the file.
LEMMA WriteInvInit == WriteInit => WriteInv
  <1> SUFFICES ASSUME WriteInit PROVE WriteInv
    OBVIOUS
  <1>1. EmptyDirectory \in Directories /\ Kept(EmptyDirectory) = {}
    BY KeptIs DEF EmptyDirectory, Directories, None, Contents
  <1>2. WriteTypeOK
    BY <1>1 DEF WriteInit, WriteTypeOK, Calls, AtRest, None, Range
  <1>3. EmptyDirectory \in SoundDirectories
    BY <1>1 DEF WriteInit, SoundDirectories, Sound
  <1>4. dirs \in Seq(SoundDirectories)
    BY <1>3 DEF WriteInit
  <1>5. OneRotation /\ \A x \in Savers : SaverSound(x)
    BY DEF WriteInit, OneRotation, Rotating, SaverSound, AtRest
  <1>6. QED BY <1>2, <1>4, <1>5 DEF WriteInv

\* Every step of every writer, of those who clean up and of the power supply keeps
\* WriteInv.
LEMMA WriteStep == WriteInv /\ [WriteNext]_writeVars => WriteInv'
  <1> SUFFICES ASSUME WriteInv, [WriteNext]_writeVars PROVE WriteInv'
    OBVIOUS
  <1>1. ASSUME NEW w \in Savers, CreateTemporary(w) \/ Fail(w) PROVE WriteInv'
    BY <1>1, TemporaryStepKeeps
  <1>2. ASSUME NEW v \in Now.tmp, CollectTemporary(v) PROVE WriteInv'
    BY <1>2, TemporaryStepKeeps
  <1>3. ASSUME NEW w \in Savers, FlushContent(w) PROVE WriteInv'
    BY <1>3, FlushKeeps
  <1>4. ASSUME NEW w \in Savers, Swap(w) PROVE WriteInv'
    BY <1>4, SwapKeeps
  <1>5. ASSUME NEW w \in Savers, FlushDirectory(w) PROVE WriteInv'
    BY <1>5, FlushDirectoryKeeps
  <1>6. ASSUME NEW w \in Savers, FlushUnsupported(w) \/ KillSaver(w) \/ EndRotation(w)
        PROVE  WriteInv'
    BY <1>6, EndingKeeps DEF FlushUnsupported, KillSaver, EndRotation
  <1>7. ASSUME NEW w \in Savers, Rotate(w) \/ Shift(w) \/ MoveAside(w) PROVE WriteInv'
    BY <1>7, RotationKeeps
  <1>8. CASE PowerCut
    BY <1>8, PowerCutKeeps
  <1>9. CASE UNCHANGED writeVars
    BY <1>9
    DEF writeVars, WriteInv, WriteTypeOK, SoundDirectories, Sound, Carries, SwappedSince,
        SaverSound, Now, OneRotation, Rotating
  <1>10. QED
    BY <1>1, <1>2, <1>3, <1>4, <1>5, <1>6, <1>7, <1>8, <1>9 DEF WriteNext

\* WriteInv holds whatever the writers, the file system and the power do.
LEMMA WriteAlways == WriteSpec => []WriteInv
  BY WriteInvInit, WriteStep, PTL DEF WriteSpec

\* atomic.py: a file is renamed into place only when its content is flushed, so
\* that neither the target nor a backup of it is ever seen written in part.
THEOREM TargetIsWholeAlways == WriteSpec => []TargetIsWhole
  <1>1. WriteInv => TargetIsWhole
    <2> SUFFICES ASSUME WriteInv PROVE TargetIsWhole
      OBVIOUS
    <2>1. Kept(Now) \subseteq flushed /\ flushed \intersect torn = {}
      BY NowIsSound DEF WriteInv, WriteTypeOK, Sound
    <2>2. QED BY <2>1 DEF TargetIsWhole
  <1>2. QED BY <1>1, WriteAlways, PTL

\* atomic.py: a version whose write returned with its directory flushed, or a later
\* one, is found after every kill, rotation and power cut.
THEOREM AckedSurvivesAlways == WriteSpec => []AckedSurvives
  <1>1. WriteInv => AckedSurvives
    <2> SUFFICES ASSUME WriteInv, NEW v \in acked, NEW n \in DOMAIN dirs
                 PROVE  Kept(dirs[n]) \intersect SwappedSince(v) # {}
      BY DEF AckedSurvives
    <2>1. dirs[n] \in SoundDirectories
      BY DEF WriteInv
    <2>2. QED BY <2>1 DEF SoundDirectories, Sound, Carries
  <1>2. QED BY <1>1, WriteAlways, PTL

----------------------------------------------------------------------------
(* AuditChain: the latest of some records *)

\* A set of numbers that is not empty has a least element.
LEMMA LeastExists ==
  ASSUME NEW T \in SUBSET Nat, T # {}
  PROVE  \E x \in T : \A y \in T : x <= y
  <1> DEFINE R == OpToRel(<, Nat)
  <1>1. R = {ss \in Nat \X Nat : ss[1] < ss[2]}
    BY Zenon DEF OpToRel
  <1>2. IsWellFoundedOn(R, Nat)
    BY NatLessThanWellFounded
  <1> HIDE DEF R
  <1>3. \E x \in T : \A y \in T : ~(<<y, x>> \in R)
    BY <1>2, WFMin
  <1>4. ASSUME NEW x \in Nat, NEW y \in Nat, y < x PROVE <<y, x>> \in R
    <2>1. <<y, x>> \in Nat \X Nat
      OBVIOUS
    <2>2. <<y, x>>[1] = y /\ <<y, x>>[2] = x
      OBVIOUS
    <2>3. <<y, x>> \in {ss \in Nat \X Nat : ss[1] < ss[2]}
      BY <1>4, <2>1, <2>2
    <2>4. QED BY <1>1, <2>3
  <1>5. PICK x \in T : \A y \in T : ~(<<y, x>> \in R)
    BY <1>3
  <1>6. \A y \in T : ~(y < x)
    BY <1>4, <1>5
  <1>7. QED BY <1>6

\* Records that are numbered no higher than some number have a latest one, and
\* without records the chain starts at its genesis.
LEMMA LatestIsOne ==
  ASSUME NEW n \in Nat, NEW S \in SUBSET (1..n)
  PROVE  /\ S # {} => LatestOf(S) \in S /\ \A s \in S : s <= LatestOf(S)
         /\ S = {} => LatestOf(S) = GenesisHash
  <1>1. CASE S = {}
    BY <1>1 DEF LatestOf
  <1>2. CASE S # {}
    <2> DEFINE T == {n - s : s \in S}
    <2>1. T \in SUBSET Nat /\ T # {}
      <3>1. \A s \in S : n - s \in Nat
        OBVIOUS
      <3>2. QED BY <1>2, <3>1
    <2>2. PICK x \in T : \A y \in T : x <= y
      <3> HIDE DEF T
      <3>1. QED BY <2>1, LeastExists
    <2>3. PICK m \in S : x = n - m
      BY <2>2
    <2>4. \A s \in S : n - m <= n - s
      BY <2>2, <2>3
    <2>5. \A s \in S : m >= s
      BY <2>4
    <2>6. Max(S) \in S /\ \A s \in S : Max(S) >= s
      BY <2>3, <2>5, Zenon DEF Max
    <2>7. QED BY <1>2, <2>6 DEF LatestOf
  <1>3. QED BY <1>1, <1>2

----------------------------------------------------------------------------
(* The invariant *)

Rows == [ts : Int, prev : Nat, gap : Nat, intact : BOOLEAN]

AuditTypeOK ==
    /\ lastSeq \in Nat /\ clock \in Int /\ DOMAIN trail \subseteq 1..lastSeq
    /\ trail = [s \in DOMAIN trail |-> trail[s]]
    /\ \A s \in DOMAIN trail : trail[s] \in Rows /\ trail[s].prev < s /\ trail[s].gap < s
    /\ auditor \in [Auditors -> [at : {"idle", "planned", "begun", "sealed", "declared"},
                                 tip : Nat, gap : Nat, before : Int]]
    /\ exposed \subseteq 1..lastSeq

InTransaction(p) == auditor[p].at \in {"begun", "sealed"}

\* One process writes at a time, and what it read is still the latest record when
\* it inserts its own.
TipIsRead ==
    /\ \A p, q \in Auditors : InTransaction(p) /\ InTransaction(q) => p = q
    /\ \A p \in Auditors : /\ auditor[p].at = "sealed" => auditor[p].tip = Tip
                           /\ auditor[p].gap <= lastSeq
                           /\ auditor[p].at = "declared" => auditor[p].gap < lastSeq

\* Prunes never remove the record written last, and what a prune is about to
\* remove is declared by a record later than all of it.
DeclaredFirst ==
    /\ lastSeq > 0 => lastSeq \in DOMAIN trail
    /\ \A s \in DOMAIN trail : trail[s].prev = s - 1
    /\ \A s \in (1..lastSeq) \ DOMAIN trail : \E t \in DOMAIN trail : trail[t].gap >= s
    /\ \A p \in Auditors : auditor[p].at = "declared" =>
           \E t \in DOMAIN trail : trail[t].gap >= auditor[p].gap

\* The predecessor a damaged record was sealed against never comes back.
DamageStays ==
    \A s \in exposed \intersect DOMAIN trail :
        ~trail[s].intact \/ (trail[s].prev # GenesisHash /\ trail[s].prev \notin DOMAIN trail)

AuditInv == AuditTypeOK /\ TipIsRead /\ (lost = {} => DeclaredFirst) /\ DamageStays

\* AuditInv holds of an empty trail.
LEMMA AuditInvInit == AuditInit => AuditInv
  BY AuditAssumption
  DEF AuditInit, AuditInv, AuditTypeOK, TipIsRead, DeclaredFirst, DamageStays, InTransaction,
      Resting, GenesisHash

\* A process that moves without touching the trail keeps AuditInv, if it takes no
\* lock, or finds it free, and claims nothing the trail does not hold.
LEMMA AuditorMoves ==
  ASSUME AuditInv, UNCHANGED <<trail, lastSeq, clock, lost, exposed>>,
         NEW p \in Auditors,
         NEW s \in [at : {"idle", "planned", "begun", "sealed", "declared"},
                    tip : Nat, gap : Nat, before : Int],
         auditor' = [auditor EXCEPT ![p] = s],
         s.at \in {"begun", "sealed"} => InTransaction(p) \/ WriteLockFree,
         s.at = "sealed" => s.tip = Tip, s.at # "declared", s.gap <= lastSeq
  PROVE  AuditInv'
  <1>1. AuditTypeOK /\ TipIsRead
    BY DEF AuditInv
  <1>2. AuditTypeOK'
    BY <1>1 DEF AuditTypeOK
  <1>3. \A q \in Auditors : auditor'[q] = IF q = p THEN s ELSE auditor[q]
    BY <1>1 DEF AuditTypeOK
  <1>4. Tip' = Tip
    BY DEF Tip
  <1>5. TipIsRead'
    BY <1>1, <1>3, <1>4 DEF TipIsRead, InTransaction, WriteLockFree
  <1>6. lost' = {} => DeclaredFirst'
    BY <1>3 DEF AuditInv, DeclaredFirst
  <1>7. DamageStays'
    BY DEF AuditInv, DamageStays
  <1>8. QED BY <1>2, <1>5, <1>6, <1>7 DEF AuditInv

\* A record is linked to the one before it, which its process read in the same
\* transaction.
LEMMA InsertKeeps ==
  ASSUME AuditInv, NEW p \in Auditors, Insert(p)
  PROVE  AuditInv'
  <1>1. AuditTypeOK /\ TipIsRead
    BY DEF AuditInv
  <1> DEFINE n == lastSeq + 1
             row == [ts |-> clock, prev |-> auditor[p].tip, gap |-> auditor[p].gap,
                     intact |-> TRUE]
  <1>2. /\ auditor[p].at = "sealed" /\ lastSeq' = n
        /\ trail' = [s \in DOMAIN trail \union {n} |-> IF s = n THEN row ELSE trail[s]]
        /\ UNCHANGED <<clock, lost, exposed>>
    BY DEF Insert
  <1>3. \/ auditor' = [auditor EXCEPT ![p] = Resting] /\ auditor[p].gap = 0
        \/ auditor' = [auditor EXCEPT ![p].at = "declared"]
    BY DEF Insert
  <1>4. n \in Nat /\ n > lastSeq /\ n \notin DOMAIN trail /\ n \notin exposed /\ lastSeq \in Nat
    BY <1>1 DEF AuditTypeOK
  <1>5. auditor[p].tip = Tip /\ auditor[p].gap <= lastSeq /\ auditor[p].gap \in Nat
    BY <1>1, <1>2 DEF TipIsRead, AuditTypeOK
  <1>6. Tip \in DOMAIN trail \union {0} /\ Tip < n /\ Tip \in Nat
        /\ \A s \in DOMAIN trail : s <= Tip
    BY <1>1, <1>4, LatestIsOne DEF Tip, AuditTypeOK, GenesisHash
  <1>7. row \in Rows /\ row.prev < n /\ row.gap < n /\ row.prev = Tip
        /\ row.gap = auditor[p].gap /\ row.intact
    BY <1>1, <1>4, <1>5, <1>6 DEF Rows, AuditTypeOK
  <1> HIDE DEF row, n
  <1>8. /\ DOMAIN trail' = DOMAIN trail \union {n} /\ trail'[n] = row
        /\ \A s \in DOMAIN trail : trail'[s] = trail[s]
    BY <1>2, <1>4
  <1>9. /\ \A q \in Auditors : q # p => auditor'[q] = auditor[q]
        /\ auditor'[p].at \in {"idle", "declared"} /\ auditor'[p].gap = auditor[p].gap
        /\ auditor' \in [Auditors -> [at : {"idle", "planned", "begun", "sealed", "declared"},
                                      tip : Nat, gap : Nat, before : Int]]
    <2>1. CASE auditor' = [auditor EXCEPT ![p] = Resting] /\ auditor[p].gap = 0
      BY <1>1, <2>1 DEF AuditTypeOK, Resting, GenesisHash
    <2>2. CASE auditor' = [auditor EXCEPT ![p].at = "declared"]
      BY <1>1, <2>2 DEF AuditTypeOK
    <2>3. QED BY <1>3, <2>1, <2>2
  <1>10. AuditTypeOK'
    <2>1. \A s \in DOMAIN trail : s \in 1..lastSeq
      BY <1>1 DEF AuditTypeOK
    <2>2. DOMAIN trail' \subseteq 1..n /\ exposed \subseteq 1..n
      BY <1>1, <1>4, <1>8, <2>1 DEF AuditTypeOK, n
    <2>3. trail' = [s \in DOMAIN trail' |-> trail'[s]]
      BY <1>2
    <2>4. \A s \in DOMAIN trail' : trail'[s] \in Rows /\ trail'[s].prev < s /\ trail'[s].gap < s
      BY <1>1, <1>7, <1>8 DEF AuditTypeOK
    <2>5. QED BY <1>1, <1>2, <1>4, <1>9, <2>2, <2>3, <2>4 DEF AuditTypeOK
  <1>11. TipIsRead'
    <2>1. \A q \in Auditors : InTransaction(q) => q = p
      BY <1>1, <1>2 DEF TipIsRead, InTransaction
    <2>2. \A q \in Auditors : ~InTransaction(q)'
      BY <1>9, <2>1 DEF InTransaction
    <2>3. \A q \in Auditors : auditor'[q].gap \in Nat /\ auditor'[q].gap <= lastSeq
      BY <1>1, <1>5, <1>9 DEF TipIsRead, AuditTypeOK
    <2>4. \A q \in Auditors : auditor'[q].gap < lastSeq'
      BY <1>2, <1>4, <2>3
    <2>5. QED BY <1>2, <1>4, <2>2, <2>3, <2>4 DEF TipIsRead, InTransaction
  <1>12. ASSUME lost' = {} PROVE DeclaredFirst'
    <2>1. DeclaredFirst
      BY <1>2, <1>12 DEF AuditInv
    <2>2. Tip = lastSeq
      <3>1. CASE lastSeq > 0
        BY <1>1, <1>4, <1>6, <2>1, <3>1 DEF DeclaredFirst, AuditTypeOK, n
      <3>2. CASE lastSeq = 0
        BY <1>4, <1>6, <3>2 DEF n
      <3>3. QED BY <1>4, <3>1, <3>2
    <2>3. row.prev = n - 1
      BY <1>4, <1>7, <2>2 DEF n
    <2>4. \A s \in DOMAIN trail' : trail'[s].prev = s - 1
      BY <1>8, <2>1, <2>3 DEF DeclaredFirst
    <2>5. ASSUME NEW s \in (1..lastSeq') \ DOMAIN trail'
          PROVE  \E t \in DOMAIN trail' : trail'[t].gap >= s
      <3>1. s \in (1..lastSeq) \ DOMAIN trail
        BY <1>2, <1>4, <1>8, <2>5 DEF n
      <3>2. PICK t \in DOMAIN trail : trail[t].gap >= s
        BY <2>1, <3>1 DEF DeclaredFirst
      <3>3. QED BY <1>8, <3>2
    <2>6. ASSUME NEW q \in Auditors, auditor'[q].at = "declared"
          PROVE  \E t \in DOMAIN trail' : trail'[t].gap >= auditor'[q].gap
      <3>1. CASE q = p
        BY <1>5, <1>7, <1>8, <1>9, <3>1
      <3>2. CASE q # p
        BY <1>8, <1>9, <2>1, <2>6, <3>2 DEF DeclaredFirst
      <3>3. QED BY <3>1, <3>2
    <2>7. lastSeq' \in DOMAIN trail'
      BY <1>2, <1>8
    <2>8. QED BY <2>4, <2>5, <2>6, <2>7 DEF DeclaredFirst
  <1>13. DamageStays'
    <2> SUFFICES ASSUME NEW s \in exposed \intersect DOMAIN trail'
                 PROVE  ~trail'[s].intact \/ (trail'[s].prev # GenesisHash
                                                /\ trail'[s].prev \notin DOMAIN trail')
      BY <1>2 DEF DamageStays
    <2>1. s \in DOMAIN trail /\ trail'[s] = trail[s] /\ trail[s].prev < n
      BY <1>1, <1>4, <1>8 DEF AuditTypeOK, Rows
    <2>2. trail[s].prev # n
      BY <1>1, <1>4, <2>1 DEF AuditTypeOK, Rows
    <2>3. QED BY <1>8, <2>1, <2>2 DEF AuditInv, DamageStays
  <1>14. QED BY <1>10, <1>11, <1>12, <1>13 DEF AuditInv

\* The steps of a write and of a prune that leave the trail alone.
LEMMA MovesKeep ==
  ASSUME AuditInv, NEW p \in Auditors,
         Begin(p) \/ Seal(p) \/ GiveUp(p) \/ \E before \in Int : PlanPrune(p, before)
  PROVE  AuditInv'
  <1>1. AuditTypeOK /\ TipIsRead
    BY DEF AuditInv
  <1>2. /\ auditor[p].gap \in Nat /\ auditor[p].gap <= lastSeq /\ lastSeq \in Nat
        /\ auditor[p].before \in Int /\ auditor[p].tip \in Nat
    BY <1>1 DEF AuditTypeOK, TipIsRead
  <1>3. Tip \in Nat
    BY <1>1, <1>2, LatestIsOne DEF Tip, AuditTypeOK, GenesisHash
  <1> DEFINE Moved(s) ==
        /\ auditor' = [auditor EXCEPT ![p] = s]
        /\ s \in [at : {"idle", "planned", "begun", "sealed", "declared"},
                  tip : Nat, gap : Nat, before : Int]
        /\ s.at \in {"begun", "sealed"} => InTransaction(p) \/ WriteLockFree
        /\ s.at = "sealed" => s.tip = Tip
        /\ s.at # "declared" /\ s.gap <= lastSeq
  <1>4. CASE Begin(p)
    <2>1. Moved([auditor[p] EXCEPT !.at = "begun"])
      BY <1>1, <1>2, <1>4 DEF Begin, AuditTypeOK
    <2>2. QED BY <1>4, <2>1, AuditorMoves DEF Begin
  <1>5. CASE Seal(p)
    <2>1. Moved([auditor[p] EXCEPT !.at = "sealed", !.tip = Tip])
      BY <1>1, <1>2, <1>3, <1>5 DEF Seal, AuditTypeOK, InTransaction
    <2>2. QED BY <1>5, <2>1, AuditorMoves DEF Seal
  <1>6. CASE GiveUp(p)
    <2>1. Moved(Resting)
      BY <1>2, <1>6 DEF GiveUp, Resting, GenesisHash
    <2>2. QED BY <1>6, <2>1, AuditorMoves DEF GiveUp
  <1>7. ASSUME NEW before \in Int, PlanPrune(p, before) PROVE AuditInv'
    <2> DEFINE S == Older(before)
    <2>1. S \in SUBSET (1..lastSeq) /\ S # {}
      BY <1>1, <1>7 DEF Older, PlanPrune, AuditTypeOK
    <2>2. LatestOf(S) \in Nat /\ LatestOf(S) <= lastSeq
      <3> HIDE DEF S
      <3>1. LatestOf(S) \in 1..lastSeq
        BY <1>2, <2>1, LatestIsOne
      <3>2. QED BY <1>2, <3>1
    <2>3. Moved([Resting EXCEPT !.at = "planned", !.gap = LatestOf(S), !.before = before])
      BY <1>2, <1>7, <2>2 DEF PlanPrune, Resting, GenesisHash
    <2>4. QED BY <1>7, <2>3, AuditorMoves DEF PlanPrune
  <1>8. QED BY <1>4, <1>5, <1>6, <1>7

\* Rows that are taken out while nothing is written leave a trail of the same
\* rows, no damage of which is undone.
LEMMA RemovalKeeps ==
  ASSUME AuditInv, WriteLockFree, NEW S \in SUBSET (DOMAIN trail),
         trail' = Restrict(trail, S), UNCHANGED <<lastSeq, clock>>,
         auditor' = auditor \/ \E p \in Auditors : auditor' = [auditor EXCEPT ![p] = Resting],
         exposed' \subseteq exposed
            \union {s \in DOMAIN trail : trail[s].prev \in DOMAIN trail \ S}
  PROVE  AuditTypeOK' /\ TipIsRead' /\ DamageStays'
  <1>1. AuditTypeOK /\ TipIsRead /\ DamageStays
    BY DEF AuditInv
  <1>2. DOMAIN trail' = S /\ trail' = [s \in S |-> trail[s]] /\ \A s \in S : trail'[s] = trail[s]
    BY DEF Restrict
  <1>3. /\ auditor' \in [Auditors -> [at : {"idle", "planned", "begun", "sealed", "declared"},
                                      tip : Nat, gap : Nat, before : Int]]
        /\ \A q \in Auditors : /\ ~InTransaction(q)'
                               /\ \/ auditor'[q] = auditor[q]
                                  \/ /\ auditor'[q].at = "idle"
                                     /\ auditor'[q].gap = 0
    BY <1>1 DEF AuditTypeOK, Resting, GenesisHash, WriteLockFree, InTransaction
  <1>4. AuditTypeOK'
    <2>1. trail' = [s \in DOMAIN trail' |-> trail'[s]]
      BY <1>2
    <2>2. \A s \in DOMAIN trail' :
             trail'[s] \in Rows /\ trail'[s].prev < s /\ trail'[s].gap < s
      BY <1>1, <1>2 DEF AuditTypeOK
    <2>3. exposed' \subseteq 1..lastSeq /\ DOMAIN trail' \subseteq 1..lastSeq
      BY <1>1, <1>2 DEF AuditTypeOK
    <2>4. QED BY <1>1, <1>3, <2>1, <2>2, <2>3 DEF AuditTypeOK
  <1>5. TipIsRead'
    <2>1. lastSeq \in Nat
      BY <1>1 DEF AuditTypeOK
    <2>2. QED BY <1>1, <1>3, <2>1 DEF TipIsRead, InTransaction
  <1>6. DamageStays'
    <2> SUFFICES ASSUME NEW s \in exposed', s \in S
                 PROVE  ~trail[s].intact \/ (trail[s].prev # GenesisHash /\ trail[s].prev \notin S)
      BY <1>2 DEF DamageStays
    <2>1. CASE s \in exposed
      BY <1>1, <2>1 DEF DamageStays
    <2>2. CASE trail[s].prev \in DOMAIN trail \ S
      BY <1>1, <2>2 DEF AuditTypeOK, GenesisHash
    <2>3. QED BY <2>1, <2>2
  <1>7. QED BY <1>4, <1>5, <1>6

\* A prune that takes its rows away leaves the record that declares them: it is
\* later than all of them.
LEMMA DeleteKeeps ==
  ASSUME AuditInv, NEW p \in Auditors, Delete(p)
  PROVE  AuditInv'
  <1> DEFINE S == DOMAIN trail \ Doomed(p)
             gap == auditor[p].gap
  <1>1. AuditTypeOK /\ TipIsRead
    BY DEF AuditInv
  <1>2. /\ auditor[p].at = "declared" /\ trail' = Restrict(trail, S)
        /\ auditor' = [auditor EXCEPT ![p] = Resting]
        /\ WriteLockFree /\ UNCHANGED <<lastSeq, clock, damages, lost, exposed>>
    BY DEF Delete
  <1>3. gap \in Nat /\ gap < lastSeq /\ lastSeq \in Nat
    BY <1>1, <1>2 DEF AuditTypeOK, TipIsRead
  <1>4. \A s \in DOMAIN trail : s \notin S => s <= gap
    BY DEF Doomed
  <1>5. S \in SUBSET (DOMAIN trail)
    OBVIOUS
  <1>6. \A s \in DOMAIN trail : s \in Nat /\ trail[s].gap \in Nat /\ trail[s].gap < s
    BY <1>1 DEF AuditTypeOK, Rows
  <1>7. \A q \in Auditors : auditor[q].gap \in Nat
    BY <1>1 DEF AuditTypeOK
  <1>8. \A q \in Auditors : q # p => auditor'[q] = auditor[q]
    BY <1>1, <1>2 DEF AuditTypeOK
  <1>9. auditor'[p].at = "idle"
    BY <1>1, <1>2 DEF AuditTypeOK, Resting
  <1> HIDE DEF S, gap
  <1>10. AuditTypeOK' /\ TipIsRead' /\ DamageStays'
    BY <1>2, <1>5, RemovalKeeps
  <1>11. DOMAIN trail' = S /\ \A s \in S : trail'[s] = trail[s]
    BY <1>2 DEF Restrict
  <1>12. ASSUME lost' = {} PROVE DeclaredFirst'
    <2>1. DeclaredFirst
      BY <1>2, <1>12 DEF AuditInv
    <2>2. PICK d \in DOMAIN trail : trail[d].gap >= gap
      BY <1>2, <2>1 DEF DeclaredFirst, gap
    <2>3. d \in S
      BY <1>3, <1>4, <1>6, <2>2
    <2>4. \A n \in Nat : (\E t \in DOMAIN trail : trail[t].gap >= n)
                            => \E t \in S : trail'[t].gap >= n
      <3> SUFFICES ASSUME NEW n \in Nat, NEW t \in DOMAIN trail, trail[t].gap >= n
                   PROVE  \E u \in S : trail'[u].gap >= n
        OBVIOUS
      <3>1. CASE t \in S
        BY <1>11, <3>1
      <3>2. CASE t \notin S
        <4>1. trail[d].gap >= n
          BY <1>3, <1>4, <1>6, <2>2, <3>2
        <4>2. QED BY <1>11, <2>3, <4>1
      <3>3. QED BY <3>1, <3>2
    <2>5. lastSeq > 0 => lastSeq \in S
      BY <1>3, <1>4, <2>1 DEF DeclaredFirst
    <2>6. \A s \in S : trail'[s].prev = s - 1
      BY <1>5, <1>11, <2>1 DEF DeclaredFirst
    <2>7. ASSUME NEW s \in (1..lastSeq) \ S PROVE \E t \in S : trail'[t].gap >= s
      <3>1. CASE s \in DOMAIN trail
        BY <1>3, <1>4, <1>6, <1>11, <2>2, <2>3, <2>7, <3>1
      <3>2. CASE s \notin DOMAIN trail
        BY <1>3, <2>1, <2>4, <3>2 DEF DeclaredFirst
      <3>3. QED BY <3>1, <3>2
    <2>8. ASSUME NEW q \in Auditors, auditor'[q].at = "declared"
          PROVE  \E t \in S : trail'[t].gap >= auditor'[q].gap
      BY <1>7, <1>8, <1>9, <2>1, <2>4, <2>8 DEF DeclaredFirst
    <2>9. QED BY <1>2, <1>11, <2>5, <2>6, <2>7, <2>8 DEF DeclaredFirst
  <1>13. QED BY <1>10, <1>12 DEF AuditInv

\* Damage is recorded: an altered row stays altered, and the successor of a lost
\* row stays without its predecessor.
LEMMA DamageKeeps ==
  ASSUME AuditInv, NEW s \in DOMAIN trail, Alter(s) \/ Lose(s)
  PROVE  AuditInv'
  <1>1. AuditTypeOK /\ TipIsRead /\ DamageStays
    BY DEF AuditInv
  <1>2. CASE Alter(s)
    <2>1. /\ DOMAIN trail' = DOMAIN trail
          /\ \A t \in DOMAIN trail : t # s => trail'[t] = trail[t]
          /\ trail'[s] = [trail[s] EXCEPT !.intact = FALSE]
      BY <1>2 DEF Alter
    <2>2. UNCHANGED <<lastSeq, clock, auditor, lost>> /\ exposed' = exposed \union {s}
          /\ WriteLockFree
      BY <1>2 DEF Alter
    <2>3. \A t \in DOMAIN trail : trail[t] \in Rows
      BY <1>1 DEF AuditTypeOK
    <2>4. /\ \A t \in DOMAIN trail : /\ trail'[t] \in Rows /\ trail'[t].prev = trail[t].prev
                                     /\ trail'[t].gap = trail[t].gap
          /\ ~trail'[s].intact
      BY <2>1, <2>3 DEF Rows
    <2>5. trail' = [t \in DOMAIN trail' |-> trail'[t]]
      BY <1>2 DEF Alter
    <2>6. AuditTypeOK'
      BY <1>1, <2>1, <2>2, <2>4, <2>5 DEF AuditTypeOK
    <2>7. TipIsRead'
      BY <1>1, <2>2 DEF TipIsRead, InTransaction, WriteLockFree
    <2>8. lost' = {} => DeclaredFirst'
      BY <2>1, <2>2, <2>4 DEF AuditInv, DeclaredFirst
    <2>9. DamageStays'
      BY <1>1, <2>1, <2>2, <2>4 DEF DamageStays
    <2>10. QED BY <2>6, <2>7, <2>8, <2>9 DEF AuditInv
  <1>3. CASE Lose(s)
    <2> DEFINE S == DOMAIN trail \ {s}
    <2>1. /\ trail' = Restrict(trail, S) /\ WriteLockFree /\ lost' # {}
          /\ UNCHANGED <<lastSeq, clock, auditor>>
          /\ exposed' = exposed \union Successors(s)
      BY <1>3 DEF Lose
    <2>2. Successors(s) \subseteq {t \in DOMAIN trail : trail[t].prev \in DOMAIN trail \ S}
      BY DEF Successors
    <2>3. S \in SUBSET (DOMAIN trail)
      OBVIOUS
    <2> HIDE DEF S
    <2>4. AuditTypeOK' /\ TipIsRead' /\ DamageStays'
      BY <2>1, <2>2, <2>3, RemovalKeeps
    <2>5. QED BY <2>1, <2>4 DEF AuditInv
  <1>4. QED BY <1>2, <1>3

\* AuditInv is inductive.
LEMMA AuditStep == AuditInv /\ [AuditNext]_auditVars => AuditInv'
  <1> SUFFICES ASSUME AuditInv, [AuditNext]_auditVars PROVE AuditInv'
    OBVIOUS
  <1>1. CASE UNCHANGED auditVars
    BY <1>1 DEF auditVars, AuditInv, AuditTypeOK, TipIsRead, DeclaredFirst, DamageStays,
                InTransaction, Tip
  <1>2. ASSUME NEW p \in Auditors,
               Begin(p) \/ Seal(p) \/ Insert(p) \/ GiveUp(p) \/ Delete(p)
        PROVE  AuditInv'
    <2>1. CASE Insert(p)
      BY <2>1, InsertKeeps
    <2>2. CASE Delete(p)
      BY <2>2, DeleteKeeps
    <2>3. CASE Begin(p) \/ Seal(p) \/ GiveUp(p)
      BY <2>3, MovesKeep
    <2>4. QED BY <1>2, <2>1, <2>2, <2>3
  <1>3. ASSUME NEW p \in Auditors, NEW before \in 2..MaxClock + 1, PlanPrune(p, before)
        PROVE  AuditInv'
    <2>1. before \in Int
      BY AuditAssumption
    <2>2. QED BY <1>3, <2>1, MovesKeep
  <1>4. ASSUME NEW s \in DOMAIN trail, Alter(s) \/ Lose(s) PROVE AuditInv'
    BY <1>4, DamageKeeps
  <1>5. CASE Tick
    <2>1. clock' \in Int /\ UNCHANGED <<trail, lastSeq, auditor, damages, lost, exposed>>
      BY <1>5 DEF Tick, AuditInv, AuditTypeOK
    <2>2. QED BY <2>1 DEF AuditInv, AuditTypeOK, TipIsRead, DeclaredFirst, DamageStays,
                         InTransaction, Tip
  <1>6. QED BY <1>1, <1>2, <1>3, <1>4, <1>5 DEF AuditNext

\* AuditInv holds in every reachable state.
THEOREM AuditAlways == AuditSpec => []AuditInv
  BY AuditInvInit, AuditStep, PTL DEF AuditSpec

----------------------------------------------------------------------------
(* What holds of every trail *)

\* However many processes write, prune and are killed, each record is linked to
\* the one written just before it (AuditWriter.write).
THEOREM TrailIsOneChainAlways == AuditSpec => []TrailIsOneChain
  <1>1. AuditInv => TrailIsOneChain
    BY DEF AuditInv, DeclaredFirst, TrailIsOneChain
  <1>2. QED BY <1>1, AuditAlways, PTL

\* Whatever a prune has removed, when it ends or is killed, a record that is left
\* declares it (rebasis audit prune).
THEOREM PrunesAreDeclaredAlways == AuditSpec => []PrunesAreDeclared
  <1>1. AuditInv => PrunesAreDeclared
    BY DEF AuditInv, DeclaredFirst, PrunesAreDeclared
  <1>2. QED BY <1>1, AuditAlways, PTL

\* A trail with an altered record, or one whose predecessor was lost, does not
\* verify, unless a declared gap ends at that record (verify_chain).
THEOREM DamageIsFoundAlways == AuditSpec => []DamageIsFound
  <1>1. ASSUME AuditInv, ChainValid, NEW s \in DOMAIN trail, s \in exposed
        PROVE  trail[s].intact /\ s \in Gaps
    <2>1. trail[s].intact /\ LinkHolds(s)
      BY <1>1 DEF ChainValid
    <2>2. trail[s].prev # GenesisHash /\ trail[s].prev \notin DOMAIN trail
      BY <1>1, <2>1 DEF AuditInv, DamageStays
    <2>3. Expected(s) = GenesisHash \/ Expected(s) \in DOMAIN trail
      <3> DEFINE S == {t \in DOMAIN trail : t < s}
      <3>1. lastSeq \in Nat /\ S \in SUBSET (1..lastSeq)
        BY <1>1 DEF AuditInv, AuditTypeOK
      <3>2. S \subseteq DOMAIN trail /\ Expected(s) = LatestOf(S)
        BY DEF Expected
      <3> HIDE DEF S
      <3>3. QED BY <3>1, <3>2, LatestIsOne
    <2>4. QED BY <2>1, <2>2, <2>3 DEF LinkHolds
  <1>2. AuditInv => DamageIsFound
    BY <1>1 DEF DamageIsFound
  <1>3. QED BY <1>2, AuditAlways, PTL

----------------------------------------------------------------------------
(* FaissStore *)

\* An index that has a row for every label, with the vector of that record.
Whole(rws) ==
    /\ rws \in [RowNumbers -> [label : RowNumbers, of : RowNumbers]]
    /\ \A k \in RowNumbers : rws[k].of = rws[k].label
    /\ \A n \in RowNumbers : \E k \in RowNumbers : rws[k].label = n

\* A batch of distinct records.
BatchOK(batch) ==
    /\ Len(batch) \in 1..2 /\ batch \in [1..Len(batch) -> RowNumbers]
    /\ \A i, j \in 1..Len(batch) : i # j => batch[i] # batch[j]

\* The index has a row for every record with its own vector, the records follow
\* the rows but while they are moved, and a whole file that is read next has the
\* rows as the records in memory know them.
FaissInv == ~halfSaved =>
    /\ upsert.at \in {"idle", "replacing", "resync", "truncate", "fill", "sidecar"}
    /\ DOMAIN upsert = {"at", "batch"}
    /\ upsert.at = "replacing" => BatchOK(upsert.batch)
    /\ Whole(index) /\ ids = labels
    /\ labels \in [RowNumbers -> RowNumbers]
    /\ \A n \in RowNumbers : \E k \in RowNumbers : labels[k] = n
    /\ upsert.at # "resync" => labels = LabelsOf(index)
    /\ upsert.at \in {"idle", "replacing", "resync"} /\ indexFile.whole =>
          LabelsOf(indexFile.rows) = labels
    /\ upsert.at = "fill" => ~indexFile.whole
    /\ upsert.at = "sidecar" => indexFile.rows = index
    /\ DOMAIN indexFile = {"whole", "rows"} /\ indexFile.whole \in BOOLEAN

\* There are as many rows as vectors.
LEMMA RowsCounted == IsFiniteSet(RowNumbers) /\ Cardinality(RowNumbers) = Vectors
  BY FS_Interval, FaissAssumption DEF RowNumbers

\* No two rows of a whole index have a label in common.
LEMMA OneRowEach ==
  ASSUME NEW rws, Whole(rws)
  PROVE  \A j, k \in RowNumbers : rws[j].label = rws[k].label => j = k
  <1> DEFINE f == [k \in RowNumbers |-> rws[k].label]
  <1>1. f \in [RowNumbers -> RowNumbers] /\ \A n \in RowNumbers : \E k \in RowNumbers : f[k] = n
    BY DEF Whole
  <1>2. f \in Surjection(RowNumbers, RowNumbers)
    BY <1>1 DEF Surjection
  <1>3. f \in Injection(RowNumbers, RowNumbers)
    BY <1>2, RowsCounted, FS_SurjSameCardinalityImpliesInj
  <1>4. \A j, k \in RowNumbers : f[j] = f[k] => j = k
    BY <1>3 DEF Injection, IsInjective
  <1>5. QED BY <1>4

\* A batch names as many rows as it has records.
LEMMA RowsOfABatch ==
  ASSUME NEW rws, Whole(rws), NEW batch, BatchOK(batch),
         NEW kept, kept = {k \in RowNumbers : rws[k].label \notin Range(batch)}
  PROVE  IsFiniteSet(kept) /\ Cardinality(kept) \in Nat
         /\ Cardinality(kept) + Len(batch) = Vectors
  <1> DEFINE gone == Range(batch)
             rest == RowNumbers \ gone
             f == [k \in kept |-> rws[k].label]
  <1>1. gone \in SUBSET RowNumbers /\ gone = {batch[i] : i \in 1..Len(batch)}
    BY DEF BatchOK, Range
  <1>2. Cardinality(gone) = Len(batch) /\ IsFiniteSet(gone)
    <2>1. batch \in Bijection(1..Len(batch), gone)
      BY <1>1 DEF BatchOK, Bijection, Injection, Surjection, IsInjective
    <2>2. IsFiniteSet(1..Len(batch)) /\ Cardinality(1..Len(batch)) = Len(batch)
      <3>1. 1 \in Int /\ Len(batch) \in Int /\ ~(1 > Len(batch)) /\ Len(batch) - 1 + 1 = Len(batch)
        BY DEF BatchOK
      <3>2. QED BY <3>1, FS_Interval
    <2>3. ExistsBijection(1..Len(batch), gone)
      BY <2>1 DEF ExistsBijection
    <2> HIDE DEF gone
    <2>4. QED BY <2>2, <2>3, FS_Bijection
  <1>3. Cardinality(rest) = Vectors - Len(batch) /\ IsFiniteSet(rest)
    <2>1. RowNumbers \intersect gone = gone
      BY <1>1
    <2> HIDE DEF gone
    <2>2. IsFiniteSet(RowNumbers \ gone)
          /\ Cardinality(RowNumbers \ gone) = Cardinality(RowNumbers) - Cardinality(gone)
      BY <2>1, RowsCounted, FS_Difference
    <2>3. QED BY <1>2, <2>2, RowsCounted
  <1>4. f \in Bijection(kept, rest)
    <2>1. f \in [kept -> rest]
      BY DEF Whole
    <2>2. \A j, k \in kept : f[j] = f[k] => j = k
      BY OneRowEach
    <2>3. \A n \in rest : \E k \in kept : f[k] = n
      BY DEF Whole
    <2> HIDE DEF f, rest
    <2>4. QED BY <2>1, <2>2, <2>3 DEF Bijection, Injection, Surjection, IsInjective
  <1>5. IsFiniteSet(kept)
    BY RowsCounted, FS_Subset
  <1>6. Cardinality(kept) = Cardinality(rest)
    <2>1. ExistsBijection(kept, rest)
      BY <1>4 DEF ExistsBijection
    <2> HIDE DEF rest
    <2>2. QED BY <1>5, <2>1, FS_Bijection
  <1>7. Cardinality(kept) \in Nat /\ Len(batch) \in Int /\ Vectors \in Int
    BY <1>5, FS_CardinalityType, FaissAssumption DEF BatchOK
  <1> HIDE DEF rest
  <1>8. QED BY <1>3, <1>5, <1>6, <1>7

\* What is left without some labels is the rows of the others, each once.
RowsOf(some, rws, kept) ==
    /\ Cardinality(kept) \in Nat
    /\ some \in [1..Cardinality(kept) -> [label : RowNumbers, of : RowNumbers]]
    /\ \A i \in 1..Cardinality(kept) : \E k \in kept : some[i] = rws[k]
    /\ \A k \in kept : \E i \in 1..Cardinality(kept) : some[i] = rws[k]

\* Taking rows out leaves all the others, as many as there are, and nothing else.
LEMMA WithoutKeepsTheOthers ==
  ASSUME NEW rws, Whole(rws), NEW gone, NEW kept,
         kept = {k \in RowNumbers : rws[k].label \notin gone}
  PROVE  RowsOf(Without(rws, gone), rws, kept)
  <1> DEFINE place == [k \in kept |-> k]
             order == Enumerated(kept, place)
             n == Cardinality(kept)
  <1>1. IsFiniteSet(kept)
    BY RowsCounted, FS_Subset
  <1>2. DOMAIN rws = RowNumbers
    BY DEF Whole
  <1>3. kept \in SUBSET Int
    BY DEF RowNumbers
  <1> HIDE DEF place
  <1>5. /\ n \in Nat /\ order \in [1..n -> kept]
        /\ \A k \in kept : \E i \in 1..n : order[i] = k
    <2>1. \A k \in kept : place[k] \in Int
      BY <1>3 DEF place
    <2>2. \A j, k \in kept : j # k => place[j] # place[k]
      BY DEF place
    <2>3. InOrder(order, kept, place)
      BY <1>1, <2>1, <2>2, EnumeratedInOrder
    <2> HIDE DEF order
    <2>4. QED BY <2>3 DEF InOrder
  <1>6. Without(rws, gone) = [i \in DOMAIN order |-> rws[order[i]]]
    BY <1>2 DEF Without, place
  <1> HIDE DEF order, n
  <1>7. Without(rws, gone) = [i \in 1..n |-> rws[order[i]]]
    BY <1>5, <1>6
  <1>8. \A k \in kept : rws[k] \in [label : RowNumbers, of : RowNumbers]
    BY DEF Whole
  <1>9. QED
    <2> SUFFICES /\ Without(rws, gone) \in [1..n -> [label : RowNumbers, of : RowNumbers]]
                 /\ \A i \in 1..n : \E k \in kept : Without(rws, gone)[i] = rws[k]
                 /\ \A k \in kept : \E i \in 1..n : Without(rws, gone)[i] = rws[k]
      BY <1>5 DEF n, RowsOf
    <2>1. \A i \in 1..n : order[i] \in kept /\ Without(rws, gone)[i] = rws[order[i]]
      BY <1>5, <1>7
    <2>2. QED BY <1>5, <1>7, <1>8, <2>1

\* A replacement leaves a whole index.
LEMMA ReplacedIsWhole ==
  ASSUME NEW rws, Whole(rws), NEW batch, BatchOK(batch),
         NEW added, added = [i \in DOMAIN batch |-> [label |-> batch[i], of |-> batch[i]]]
  PROVE  Whole(Without(rws, Range(LabelsOf(added))) \o added)
  <1> DEFINE R == [label : RowNumbers, of : RowNumbers]
             gone == Range(LabelsOf(added))
             kept == {k \in RowNumbers : rws[k].label \notin gone}
             w == Without(rws, gone)
             m == Cardinality(kept)
             b == Len(batch)
             both == w \o added
  <1>1. DOMAIN batch = 1..b /\ b \in 1..2
    BY DEF BatchOK
  <1>2. gone = Range(batch)
    <2>1. DOMAIN LabelsOf(added) = DOMAIN batch
          /\ \A i \in DOMAIN batch : LabelsOf(added)[i] = batch[i]
      BY DEF LabelsOf
    <2>2. QED BY <2>1 DEF Range
  <1>3. m \in Nat /\ m + b = Vectors
    BY <1>2, RowsOfABatch
  <1>4. /\ w \in [1..m -> R]
        /\ \A i \in 1..m : \E k \in kept : w[i] = rws[k]
        /\ \A k \in kept : \E i \in 1..m : w[i] = rws[k]
    <2> HIDE DEF w, R, m, kept
    <2>1. kept = {k \in RowNumbers : rws[k].label \notin gone}
      BY DEF kept
    <2> HIDE DEF gone
    <2>2. RowsOf(w, rws, kept)
      BY <2>1, WithoutKeepsTheOthers DEF w
    <2>3. QED BY <2>2 DEF RowsOf, R, m
  <1>5. added \in [1..b -> R] /\ \A i \in 1..b : added[i] = [label |-> batch[i], of |-> batch[i]]
    BY <1>1 DEF BatchOK
  <1> HIDE DEF w, m, b, R
  <1>6. w \in Seq(R) /\ Len(w) = m /\ added \in Seq(R) /\ Len(added) = b
    BY <1>1, <1>3, <1>4, <1>5
  <1>7. both \in Seq(R) /\ Len(both) = Vectors
    BY <1>3, <1>6
  <1>8. \A i \in 1..m : i \in RowNumbers /\ both[i] = w[i]
    BY <1>1, <1>3, <1>6 DEF RowNumbers
  <1>9. \A i \in 1..b : m + i \in RowNumbers /\ both[m + i] = added[i]
    BY <1>1, <1>3, <1>6 DEF RowNumbers
  <1>10. \A k \in RowNumbers : k \in 1..m \/ \E i \in 1..b : k = m + i
    <2> SUFFICES ASSUME NEW k \in RowNumbers, k \notin 1..m PROVE \E i \in 1..b : k = m + i
      OBVIOUS
    <2>1. k - m \in 1..b /\ k = m + (k - m)
      BY <1>1, <1>3 DEF RowNumbers
    <2>2. QED BY <2>1
  <1> HIDE DEF both
  <1>11. both \in [RowNumbers -> R]
    BY <1>7 DEF RowNumbers
  <1>12. \A k \in RowNumbers : both[k].of = both[k].label
    <2> SUFFICES ASSUME NEW k \in RowNumbers PROVE both[k].of = both[k].label
      OBVIOUS
    <2>1. CASE k \in 1..m
      BY <1>4, <1>8, <2>1 DEF Whole
    <2>2. CASE \E i \in 1..b : k = m + i
      BY <1>5, <1>9, <2>2
    <2>3. QED BY <1>10, <2>1, <2>2
  <1>13. \A n \in RowNumbers : \E k \in RowNumbers : both[k].label = n
    <2> SUFFICES ASSUME NEW n \in RowNumbers PROVE \E k \in RowNumbers : both[k].label = n
      OBVIOUS
    <2>1. CASE n \in gone
      <3>1. PICK i \in 1..b : batch[i] = n
        BY <1>1, <1>2, <2>1 DEF Range
      <3>2. QED BY <1>5, <1>9, <3>1
    <2>2. CASE n \notin gone
      <3>1. PICK k \in RowNumbers : rws[k].label = n
        BY DEF Whole
      <3>2. k \in kept
        BY <2>2, <3>1
      <3>3. PICK i \in 1..m : w[i] = rws[k]
        BY <1>4, <3>2
      <3>4. QED BY <1>8, <3>1, <3>3
    <2>3. QED BY <2>1, <2>2
  <1>14. QED BY <1>11, <1>12, <1>13 DEF Whole, R, both, w

\* In a process whose rows and records agree, a record reads as its own vector.
LEMMA WholeReadsTrue ==
  ASSUME Whole(index), ids = labels, labels = LabelsOf(index)
  PROVE  EachRecordIsItself
  <1>1. labels \in [RowNumbers -> RowNumbers] /\ \A k \in RowNumbers : labels[k] = index[k].label
    BY DEF Whole, LabelsOf
  <1>2. DOMAIN index = RowNumbers /\ DOMAIN ids = RowNumbers
    BY <1>1 DEF Whole
  <1>3. Range(ids) = RowNumbers
    BY <1>1, <1>2 DEF Whole, Range
  <1>4. Len(ids) = Vectors
    BY <1>2, FaissAssumption, <1>1 DEF RowNumbers
  <1>5. ASSUME NEW id \in RowNumbers PROVE Reading(id) = id
    <2>1. PICK k \in RowNumbers : index[k].label = id
      BY DEF Whole
    <2>2. Row(id) \in RowNumbers /\ ids[Row(id)] = id
      <3>1. \E j \in DOMAIN ids : ids[j] = id
        BY <1>1, <1>2, <2>1
      <3>2. Row(id) = CHOOSE j \in DOMAIN ids : ids[j] = id
        BY DEF Row
      <3>3. Row(id) \in DOMAIN ids /\ ids[Row(id)] = id
        BY <3>1, <3>2, Zenon
      <3>4. QED BY <1>2, <3>3
    <2>3. labels[Row(id)] = id
      BY <2>2
    <2> DEFINE j == CHOOSE j \in DOMAIN index : index[j].label = id
    <2>4. j \in DOMAIN index /\ index[j].label = id
      BY <1>2, <2>1, Zenon
    <2>5. Reading(id) = index[j].of
      BY <2>3 DEF Reading
    <2> HIDE DEF j
    <2>6. QED BY <1>2, <2>4, <2>5 DEF Whole
  <1>6. QED BY <1>3, <1>4, <1>5 DEF EachRecordIsItself

\* What a new index and its sidecar hold.
LEMMA FaissInvInit == FaissInit => FaissInv
  <1> SUFFICES ASSUME FaissInit PROVE FaissInv
    OBVIOUS
  <1>1. Whole(AsBuilt)
    BY DEF Whole, AsBuilt
  <1>2. labels \in [RowNumbers -> RowNumbers] /\ \A k \in RowNumbers : labels[k] = k
    BY DEF FaissInit, AsBuilt, LabelsOf
  <1>3. QED BY <1>1, <1>2 DEF FaissInit, FaissInv, NoUpsert

\* Each step of a replacement, a failed save and an opening of what was saved.
LEMMA FaissInvStep == FaissInv /\ [FaissNext]_faissVars => FaissInv'
  <1> SUFFICES ASSUME FaissInv, [FaissNext]_faissVars, ~halfSaved' PROVE FaissInv'
    BY DEF FaissInv
  <1>0. ~halfSaved
    BY DEF FaissNext, faissVars, StartUpsert, ReplaceRows, Resync, TruncateIndex, FillIndex,
           WriteSidecar, Reopened
  <1>1. CASE UNCHANGED faissVars
    BY <1>0, <1>1 DEF FaissInv, faissVars, Whole, BatchOK, LabelsOf
  <1>2. ASSUME NEW b \in Batches, StartUpsert(b) PROVE FaissInv'
    <2>1. BatchOK(b)
      <3>1. PICK n \in 1..2 : b \in [1..n -> RowNumbers]
        BY DEF Batches
      <3>2. Len(b) = n /\ DOMAIN b = 1..n
        BY <3>1
      <3>3. QED BY <3>1, <3>2 DEF BatchOK, Batches
    <2>2. upsert' = [at |-> "replacing", batch |-> b] /\ upsert.at = "idle"
      BY <1>2 DEF StartUpsert
    <2>3. BatchOK(upsert.batch)'
      BY <2>1, <2>2 DEF BatchOK
    <2>4. QED BY <1>0, <1>2, <2>2, <2>3 DEF FaissInv, StartUpsert, Whole, LabelsOf
  <1>3. CASE ReplaceRows
    <2> DEFINE batch == upsert.batch
    <2>1. BatchOK(batch) /\ upsert.at = "replacing" /\ Whole(index) /\ ids = labels
      BY <1>0, <1>3 DEF ReplaceRows, FaissInv
    <2>2. labels \in [RowNumbers -> RowNumbers] /\ \A n \in RowNumbers : \E k \in RowNumbers : labels[k] = n
      BY <1>0 DEF FaissInv
    <2>3. \A n \in RowNumbers : labels[Row(n)] = n
      <3> SUFFICES ASSUME NEW n \in RowNumbers PROVE labels[Row(n)] = n
        OBVIOUS
      <3>1. \E j \in DOMAIN ids : ids[j] = n
        BY <2>1, <2>2
      <3>2. Row(n) = CHOOSE j \in DOMAIN ids : ids[j] = n
        BY DEF Row
      <3>3. ids[Row(n)] = n
        BY <3>1, <3>2, Zenon
      <3>4. QED BY <2>1, <3>3
    <2>4. Added(batch) = [i \in DOMAIN batch |-> [label |-> batch[i], of |-> batch[i]]]
      BY <2>1, <2>3 DEF Added, BatchOK
    <2>5. index' = Without(index, Range(LabelsOf(Added(batch)))) \o Added(batch)
      BY <1>3 DEF ReplaceRows
    <2>6. Whole(Without(index, Range(LabelsOf(Added(batch)))) \o Added(batch))
      BY <2>1, <2>4, ReplacedIsWhole
    <2>7. Whole(index)'
      BY <2>5, <2>6 DEF Whole
    <2>8. /\ upsert'.at = "resync" /\ DOMAIN upsert' = DOMAIN upsert
          /\ UNCHANGED <<labels, ids, indexFile>>
      BY <1>0, <1>3 DEF ReplaceRows, FaissInv
    <2> HIDE DEF batch
    <2>9. QED BY <1>0, <2>1, <2>7, <2>8 DEF FaissInv, LabelsOf
  <1>4. CASE Resync
    <2>1. /\ upsert.at = "resync" /\ upsert'.at = "truncate" /\ DOMAIN upsert' = DOMAIN upsert
          /\ UNCHANGED <<index, indexFile>> /\ labels' = LabelsOf(index) /\ ids' = IdsOfRows
      BY <1>0, <1>4 DEF Resync, FaissInv
    <2>2. Whole(index) /\ ids = labels /\ labels \in [RowNumbers -> RowNumbers]
          /\ \A n \in RowNumbers : \E k \in RowNumbers : labels[k] = n
      BY <1>0 DEF FaissInv
    <2>3. \A n \in RowNumbers : ids[CHOOSE j \in DOMAIN labels : labels[j] = n] = n
      <3> SUFFICES ASSUME NEW n \in RowNumbers
                   PROVE  ids[CHOOSE j \in DOMAIN labels : labels[j] = n] = n
        OBVIOUS
      <3>1. \E j \in DOMAIN labels : labels[j] = n
        BY <2>2
      <3>2. labels[CHOOSE j \in DOMAIN labels : labels[j] = n] = n
        BY <3>1, Zenon
      <3>3. QED BY <2>2, <3>2
    <2>4. DOMAIN index = RowNumbers /\ \A k \in RowNumbers : index[k].label \in RowNumbers
      BY <2>2 DEF Whole
    <2>5. \A k \in RowNumbers : IdsOfRows[k] = index[k].label
      <3> SUFFICES ASSUME NEW k \in RowNumbers PROVE IdsOfRows[k] = index[k].label
        OBVIOUS
      <3>1. IdsOfRows[k] = ids[CHOOSE j \in DOMAIN labels : labels[j] = index[k].label]
        BY <2>4 DEF IdsOfRows
      <3>2. QED BY <2>3, <2>4, <3>1
    <2>6. IdsOfRows = [k \in RowNumbers |-> IdsOfRows[k]]
      BY <2>4 DEF IdsOfRows
    <2>7. IdsOfRows = LabelsOf(index)
      BY <2>4, <2>5, <2>6 DEF LabelsOf
    <2>8. LabelsOf(index) \in [RowNumbers -> RowNumbers]
          /\ \A n \in RowNumbers : \E k \in RowNumbers : LabelsOf(index)[k] = n
      BY <2>2, <2>4 DEF LabelsOf, Whole
    <2>9. Whole(index)' /\ LabelsOf(index)' = LabelsOf(index)
      BY <2>1, <2>2 DEF Whole, LabelsOf
    <2> HIDE DEF LabelsOf
    <2>10. QED BY <1>0, <2>1, <2>7, <2>8, <2>9 DEF FaissInv
  <1>5. CASE TruncateIndex
    <2>1. /\ upsert.at = "truncate" /\ upsert'.at = "fill" /\ DOMAIN upsert' = DOMAIN upsert
          /\ indexFile'.whole = FALSE /\ DOMAIN indexFile' = DOMAIN indexFile
          /\ UNCHANGED <<index, labels, ids>>
      BY <1>0, <1>5 DEF TruncateIndex, FaissInv
    <2>2. Whole(index)' /\ LabelsOf(index)' = LabelsOf(index)
      BY <1>0, <2>1 DEF FaissInv, Whole, LabelsOf
    <2>3. QED BY <1>0, <2>1, <2>2 DEF FaissInv
  <1>6. CASE FillIndex
    <2>1. upsert.at = "fill" /\ UNCHANGED <<index, labels, ids>>
      BY <1>6 DEF FillIndex
    <2>2. Whole(index)' /\ LabelsOf(index)' = LabelsOf(index)
      BY <1>0, <2>1 DEF FaissInv, Whole, LabelsOf
    <2>3. CASE indexFile' = [whole |-> TRUE, rows |-> index] /\ upsert' = [upsert EXCEPT !.at = "sidecar"]
      <3>1. upsert'.at = "sidecar" /\ DOMAIN upsert' = DOMAIN upsert
        BY <1>0, <2>3 DEF FaissInv
      <3>2. QED BY <1>0, <2>1, <2>2, <2>3, <3>1 DEF FaissInv
    <2>4. CASE upsert' = NoUpsert /\ UNCHANGED indexFile
      BY <1>0, <2>1, <2>2, <2>4 DEF FaissInv, NoUpsert
    <2>5. QED BY <1>6, <2>3, <2>4 DEF FillIndex
  <1>7. CASE WriteSidecar
    <2>1. upsert.at = "sidecar" /\ upsert' = NoUpsert /\ UNCHANGED <<index, labels, ids, indexFile>>
      BY <1>7 DEF WriteSidecar
    <2>2. Whole(index)' /\ LabelsOf(index)' = LabelsOf(index)
      BY <1>0, <2>1 DEF FaissInv, Whole, LabelsOf
    <2>3. QED BY <1>0, <2>1, <2>2 DEF FaissInv, NoUpsert
  <1>8. CASE Reopened
    <2>1. /\ Saved /\ indexFile.whole /\ index' = index /\ UNCHANGED indexFile
          /\ labels' = LabelsOf(index) /\ upsert' = NoUpsert
          /\ ids' = IF Len(ids) = Len(index) THEN ids ELSE LabelsOf(index)
      BY <1>0, <1>8 DEF Reopened, Saved
    <2>2. indexFile.rows = index
      BY <2>1 DEF Saved
    <2>3. upsert.at # "resync" \/ upsert.at = "resync"
      OBVIOUS
    <2>4. LabelsOf(index) = labels
      BY <1>0, <2>1, <2>2 DEF FaissInv
    <2>5. ids' = labels' /\ labels' = labels
      BY <1>0, <2>1, <2>4 DEF FaissInv
    <2>6. Whole(index)' /\ LabelsOf(index)' = LabelsOf(index)
      BY <1>0, <2>1 DEF FaissInv, Whole, LabelsOf
    <2>7. LabelsOf(indexFile.rows)' = LabelsOf(index)
      BY <2>1, <2>2 DEF LabelsOf
    <2> HIDE DEF LabelsOf
    <2>8. QED BY <1>0, <2>1, <2>4, <2>5, <2>6, <2>7 DEF FaissInv, NoUpsert
  <1>9. QED
    BY <1>1, <1>2, <1>3, <1>4, <1>5, <1>6, <1>7, <1>8 DEF FaissNext

\* The index is whole and named at every step, unless a process ended inside a save.
THEOREM FaissAlways == FaissSpec => []FaissInv
  BY FaissInvInit, FaissInvStep, PTL DEF FaissSpec

\* Whatever is replaced, in whatever order, and whatever writes fail, a record reads
\* as its own vector as long as no process ended inside a save (upsert_vectors).
THEOREM RecordsKeepTheirVectorsAlways == FaissSpec => []RecordsKeepTheirVectors
  <1>1. FaissInv => RecordsKeepTheirVectors
    <2>1. ASSUME FaissInv, ~halfSaved, upsert.at \notin {"replacing", "resync"}
          PROVE  EachRecordIsItself
      BY <2>1, WholeReadsTrue DEF FaissInv
    <2>2. QED BY <2>1 DEF RecordsKeepTheirVectors, EachRecordIsItself
  <1>2. QED BY <1>1, FaissAlways, PTL

=============================================================================
