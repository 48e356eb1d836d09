----------------------------- MODULE MCFileSearch -----------------------------
(* Slots of 2 units, 2 a day, 2 days a year; two sessions search.  The      *)
(* first file is longer than its slot and followed by one of the same day,  *)
(* then come days and a year without files; one request is for what the     *)
(* first file has in the slot of the second, one for the year without       *)
(* files, and one for the moment at which the last file ends.               *)
EXTENDS FileSearch, TLC
File(from, to) == [start |-> from, end |-> to]
MCClips == {File(1, 3), File(3, 5), File(16, 17)}
MCRequests == {2, 10, 17}
Symmetry == Permutations(Searchers)
===============================================================================
