---- MODULE MCArchiveFiles ----
(* Two blocks to a run, three runs over each other's remains, two faults.    *)
EXTENDS ArchiveFiles
================================
