----------------------------- MODULE MCMigration -----------------------------
(***************************************************************************)
(* Values for the constants of Migration that a cfg cannot write.          *)
(***************************************************************************)
EXTENDS MigrationProperties

\* --keep-original, its default, with or without --no-keep-original.
AlwaysKeep == {TRUE}
Either == {TRUE, FALSE}

\* --limit given, with a value a run reaches before its queue is empty, or not.
LimitOrNone == {1, N + 1}
NoLimit == {N + 1}

\* The application deletes records at any moment, or not while a batch is in hand
\* whose records are read back.
Anywhere == Locations
BetweenBatches == Locations \ Handling
=============================================================================
