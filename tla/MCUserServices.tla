---- MODULE MCUserServices ----
(***************************************************************************)
(* A small instance: a statistic that is summed and one that keeps the     *)
(* largest number, two achievements, a friend, two fields, two files and   *)
(* two contacts.                                                            *)
(***************************************************************************)
EXTENDS UserServices

CONSTANTS summed, largest

Rules == summed :> "Sum" @@ largest :> "Largest"
Alike == Permutations(Achievement) \cup Permutations(Field) \cup Permutations(File) \cup Permutations(Contact)
=============================================================================
