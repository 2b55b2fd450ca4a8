----------------------------- MODULE MCEntrySort -----------------------------
(***************************************************************************)
(* Small instances of EntrySort.  Init ranges over every assignment of     *)
(* names and of inherited names, so one run covers every inheritance       *)
(* graph of the given size, those with circles and repeated names included.*)
(***************************************************************************)
EXTENDS EntrySort
=============================================================================
