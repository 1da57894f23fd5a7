-------------------------- MODULE ReversibleRewrite --------------------------
(***************************************************************************)
(* What an in-place migration promises, whatever interrupts it: a record   *)
(* leaves its original vector only while a copy of the original is kept,   *)
(* and a copy once kept is never given up.  A migration run without        *)
(* --keep-original waives the promise for good.                            *)
(***************************************************************************)
VARIABLES
    moved,    \* records that no longer hold their original vector
    kept,     \* records whose original vector can be read from the shadow copy
    waived    \* some run was told not to keep originals

vars == <<moved, kept, waived>>

Init == moved = {} /\ kept = {} /\ waived = FALSE

Waive == waived' = TRUE /\ UNCHANGED <<moved, kept>>

Keep == kept \subseteq kept' /\ UNCHANGED <<moved, waived>>

Rewrite == (moved' \subseteq moved \cup kept \/ waived) /\ UNCHANGED <<kept, waived>>

Next == Waive \/ Keep \/ Rewrite

Spec == Init /\ [][Next]_vars

\* Every record that was moved can be put back.
Reversible == waived \/ moved \subseteq kept
=============================================================================
