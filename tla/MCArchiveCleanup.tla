-------------------------- MODULE MCArchiveCleanup --------------------------
(* TLC instance of ArchiveCleanup: two entries, so that a boundary can die *)
(* between them; two commits, so that a HEAD could move.                   *)
EXTENDS ArchiveCleanup
=============================================================================
