----------------------------- MODULE EncOutputs -----------------------------
(***************************************************************************)
(* The files the encoding pipeline writes, and which file gets the         *)
(* bitstream of which view.  With one view there is one file; in the       *)
(* ViewOutput mode of multi-view coding the two views go to one file       *)
(* together, to two separate files, or to two separate files and a third   *)
(* one that merges them.                                                   *)
(***************************************************************************)
EXTENDS Integers, Sequences

CONSTANT Pictures        \* how many pictures the source has, in each view

ASSUME PicturesAssumption == Pictures \in Nat

View == {0, 1}
File == {"first", "second", "merged"}
Mode == {"single", "together", "separate", "merged"}

\* One encoded frame of one view.
Unit == [view : View, frame : 0 .. Pictures - 1]

\* Whether the task pool has a second writer (it may be the first one again).
TwoViews(m) == m # "single"

OwnFile(m, v) == IF v = 1 /\ m \in {"separate", "merged"} THEN "second" ELSE "first"

\* The sets of files that one successful write may reach.  A duplicating writer
\* writes the merged file first and ignores what writing its own file returns.
Writes(m, v) == IF m = "merged" THEN {{OwnFile(m, v), "merged"}, {"merged"}}
                                ELSE {{OwnFile(m, v)}}

WriteTo(fs, file, u) ==
    [f \in File |-> IF f \in fs THEN Append(file[f], u) ELSE file[f]]
=============================================================================
