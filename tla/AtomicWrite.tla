------------------------------ MODULE AtomicWrite ------------------------------
(***************************************************************************)
(* storage/atomic.py on a file system that loses power: a file is written  *)
(* under a temporary name, flushed, renamed over its target, and the       *)
(* directory flushed; rotate_backup moves the target out of the way; gc    *)
(* and cleanup_stale_temp_files remove temporary files left behind.        *)
(*                                                                         *)
(* A version is the content one call writes.  Renames reach the disk in    *)
(* order and at the latest when the directory is flushed; the content of a *)
(* file that was not flushed does not survive a power cut.                 *)
(***************************************************************************)
EXTENDS Integers, Sequences, SequencesExt

CONSTANTS
    Savers,                            \* threads or processes that write the file
    Keep,                              \* backups kept by a rotation
    MaxVersions, MaxPowerCuts, MaxRotations \* bounds

ASSUME WriteAssumption ==
    /\ Keep \in Nat \ {0} /\ MaxVersions \in Nat
    /\ MaxPowerCuts \in Nat /\ MaxRotations \in Nat

VARIABLES
    dirs,     \* the directory: on disk, after each later rename, now
    flushed,  \* versions whose content was fsynced
    torn,     \* versions whose content a power cut destroyed
    saver,    \* saver[w]: the step of the call w is in, and the version it writes
    swapped,  \* ghost: versions renamed over the target, in order
    acked,    \* ghost: versions whose write returned with its directory flushed
    spent     \* [versions, cuts, rotations] used so far

writeVars == <<dirs, flushed, torn, saver, swapped, acked, spent>>

None == 0
Now == Last(dirs)
AtRest == [at |-> "idle", v |-> None]
EmptyDirectory == [path |-> None, bak |-> [n \in 1..Keep |-> None], tmp |-> {}]

WriteInit ==
    /\ dirs = <<EmptyDirectory>> /\ flushed = {} /\ torn = {}
    /\ saver = [w \in Savers |-> AtRest]
    /\ swapped = <<>> /\ acked = {}
    /\ spent = [versions |-> 0, cuts |-> 0, rotations |-> 0]

Renamed(dir) == dirs' = Append(dirs, dir)
Reaches(w, step) == saver' = [saver EXCEPT ![w].at = step]

----------------------------------------------------------------------------
(* atomic_write_stream *)

CreateTemporary(w) ==
    /\ saver[w].at = "idle" /\ spent.versions < MaxVersions
    /\ spent' = [spent EXCEPT !.versions = @ + 1]
    /\ saver' = [saver EXCEPT ![w] = [at |-> "writing", v |-> spent'.versions]]
    /\ Renamed([Now EXCEPT !.tmp = @ \union {spent'.versions}])
    /\ UNCHANGED <<flushed, torn, swapped, acked>>

FlushSkipped(w) ==
    /\ saver[w].at = "writing" /\ Reaches(w, "flushed")
    /\ UNCHANGED <<dirs, flushed, torn, swapped, acked, spent>>

FlushContent(w) ==
    /\ saver[w].at = "writing" /\ Reaches(w, "flushed")
    /\ flushed' = flushed \union {saver[w].v}
    /\ UNCHANGED <<dirs, torn, swapped, acked, spent>>

Swap(w) ==
    /\ saver[w].at = "flushed" /\ saver[w].v \in Now.tmp
    /\ Renamed([Now EXCEPT !.path = saver[w].v, !.tmp = @ \ {saver[w].v}])
    /\ swapped' = Append(swapped, saver[w].v)
    /\ Reaches(w, "swapped")
    /\ UNCHANGED <<flushed, torn, acked, spent>>

ReturnUnflushed(w) ==
    /\ saver[w].at = "swapped" /\ acked' = acked \union {saver[w].v}
    /\ saver' = [saver EXCEPT ![w] = AtRest]
    /\ UNCHANGED <<dirs, flushed, torn, swapped, spent>>

FlushDirectory(w) ==
    /\ saver[w].at = "swapped"
    /\ dirs' = <<Now>> /\ acked' = acked \union {saver[w].v}
    /\ saver' = [saver EXCEPT ![w] = AtRest]
    /\ UNCHANGED <<flushed, torn, swapped, spent>>

\* _fsync_directory swallows the error of a file system that cannot do it.
FlushUnsupported(w) ==
    /\ saver[w].at \in {"swapped", "rotated"}
    /\ saver' = [saver EXCEPT ![w] = AtRest]
    /\ UNCHANGED <<dirs, flushed, torn, swapped, acked, spent>>

\* No space, an I/O error, Ctrl-C, or a temporary file someone collected: the
\* temporary file is removed and the error raised.
Fail(w) ==
    /\ saver[w].at \in {"writing", "flushed"}
    /\ saver' = [saver EXCEPT ![w] = AtRest]
    /\ Renamed([Now EXCEPT !.tmp = @ \ {saver[w].v}])
    /\ UNCHANGED <<flushed, torn, swapped, acked, spent>>

----------------------------------------------------------------------------
(* rotate_backup: the oldest backup goes, the others shift, the file moves. *)

Rotating(w) == saver[w].at \in {"shifting", "rotated"}

Rotate(w) ==
    /\ saver[w].at = "idle" /\ Now.path # None
    /\ \A other \in Savers : ~Rotating(other)
    /\ spent.rotations < MaxRotations
    /\ spent' = [spent EXCEPT !.rotations = @ + 1]
    /\ Renamed([Now EXCEPT !.bak[Keep] = None])
    /\ saver' = [saver EXCEPT ![w] = [at |-> "shifting", v |-> Keep - 1]]
    /\ UNCHANGED <<flushed, torn, swapped, acked>>

Shift(w) ==
    LET n == saver[w].v
    IN  /\ saver[w].at = "shifting" /\ n > 0
        /\ IF Now.bak[n] = None THEN dirs' = dirs
           ELSE Renamed([Now EXCEPT !.bak[n + 1] = Now.bak[n], !.bak[n] = None])
        /\ saver' = [saver EXCEPT ![w].v = n - 1]
        /\ UNCHANGED <<flushed, torn, swapped, acked, spent>>

MoveAside(w) ==
    /\ saver[w].at = "shifting" /\ saver[w].v = 0
    /\ Renamed([Now EXCEPT !.bak[1] = Now.path, !.path = None])
    /\ Reaches(w, "rotated")
    /\ UNCHANGED <<flushed, torn, swapped, acked, spent>>

EndRotation(w) ==
    /\ saver[w].at = "rotated" /\ dirs' = <<Now>>
    /\ saver' = [saver EXCEPT ![w] = AtRest]
    /\ UNCHANGED <<flushed, torn, swapped, acked, spent>>

----------------------------------------------------------------------------
(* The environment *)

\* cleanup_stale_temp_files, or gc: any temporary file may have grown old.
CollectTemporary(v) ==
    /\ v \in Now.tmp
    /\ Renamed([Now EXCEPT !.tmp = @ \ {v}])
    /\ UNCHANGED <<flushed, torn, saver, swapped, acked, spent>>

KillSaver(w) ==
    /\ saver[w].at # "idle"
    /\ saver' = [saver EXCEPT ![w] = AtRest]
    /\ UNCHANGED <<dirs, flushed, torn, swapped, acked, spent>>

PowerCut ==
    /\ spent.cuts < MaxPowerCuts
    /\ spent' = [spent EXCEPT !.cuts = @ + 1]
    /\ \E n \in DOMAIN dirs : dirs' = <<dirs[n]>>
    /\ torn' = torn \union ((1..spent.versions) \ flushed)
    /\ saver' = [w \in Savers |-> AtRest]
    /\ UNCHANGED <<flushed, swapped, acked>>

WriteNext ==
    \/ \E w \in Savers :
        \/ CreateTemporary(w) \/ FlushContent(w) \/ Swap(w)
        \/ FlushDirectory(w) \/ FlushUnsupported(w) \/ Fail(w)
        \/ Rotate(w) \/ Shift(w) \/ MoveAside(w) \/ EndRotation(w) \/ KillSaver(w)
    \/ \E v \in Now.tmp : CollectTemporary(v)
    \/ PowerCut

WriteSpec == WriteInit /\ [][WriteNext]_writeVars

----------------------------------------------------------------------------
(* Properties *)

Kept(dir) == ({dir.path} \union Range(dir.bak)) \ {None}
SwappedSince(v) ==
    {swapped[n] : n \in {m \in DOMAIN swapped :
                           \E first \in 1..m : swapped[first] = v}}

\* Whatever is killed, fails or loses power, neither the target nor a backup is
\* ever a file that was written in part.
TargetIsWhole == Kept(Now) \cap torn = {}

\* A version whose write returned with its directory flushed is on the disk, or
\* a later one is, whatever happens next; a rotation may have made it a backup.
AckedSurvives ==
    \A v \in acked, n \in DOMAIN dirs : Kept(dirs[n]) \cap SwappedSince(v) # {}

=============================================================================
