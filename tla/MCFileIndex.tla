----------------------------- MODULE MCFileIndex -----------------------------
(* Six files on five days of three years, two of them on one day, the last *)
(* one beyond the table of years; two crashes and a write that fails.      *)
EXTENDS FileIndex
MCClips == {[start |-> t, end |-> t + 1] : t \in {1, 2, 3, 4, 7, 12}}
==============================================================================
