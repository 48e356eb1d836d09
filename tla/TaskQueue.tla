------------------------------ MODULE TaskQueue ------------------------------
(***************************************************************************)
(* What the task pool of the encoder promises: the units whose encoding    *)
(* was started are written in the order in which they were started, each   *)
(* one once and to the files of its view, and never more than Capacity of  *)
(* them are under way.  Only when the device was lost are the units under  *)
(* way given up, all of them together.                                     *)
(***************************************************************************)
EXTENDS EncOutputs

CONSTANT Capacity

VARIABLES mode, queue, file

vars == <<mode, queue, file>>

Init == /\ mode \in Mode
        /\ queue = <<>>
        /\ file = [f \in File |-> <<>>]

Submit(u) == /\ Len(queue) < Capacity
             /\ queue' = Append(queue, u)
             /\ UNCHANGED <<mode, file>>

Deliver == /\ queue # <<>>
           /\ \E fs \in Writes(mode, Head(queue).view) :
                 file' = WriteTo(fs, file, Head(queue))
           /\ queue' = Tail(queue)
           /\ UNCHANGED mode

GiveUp == queue' = <<>> /\ UNCHANGED <<mode, file>>

Next == (\E u \in Unit : Submit(u)) \/ Deliver \/ GiveUp

Spec == Init /\ [][Next]_vars
=============================================================================
