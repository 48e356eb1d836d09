------------------------------ MODULE MCPbSession ------------------------------
(* A session whose client asks for both directions, for speeds there are    *)
(* and are not, and for a time that is not acceptable.                      *)
EXTENDS PbSession

MCSeeks ==
  {[ts_sec |-> 1, speed |-> 1, direction |-> 0],
   [ts_sec |-> 2, speed |-> 8, direction |-> 1],
   [ts_sec |-> 2, speed |-> 3, direction |-> 0],
   [ts_sec |-> -1, speed |-> 1, direction |-> 0]}
===============================================================================
