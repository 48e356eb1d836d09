----------------------------- MODULE MCPbReader -----------------------------
(* Five files at two units a second: clusters with and without a key frame *)
(* or an OSD, an OSD that changes within a cluster, a file that ends       *)
(* within a second, one that is shorter than a second, a gap; the last one *)
(* is damaged.                                                             *)
EXTENDS PbReader
F(time, kind) == [time |-> time, kind |-> kind]
MCFiles == <<
  [clusters |-> {1, 5}, frames |-> <<F(4, "OSD"), F(4, "I"), F(5, "AUDIO"), F(6, "P"),
                                     F(7, "OSD"), F(7, "I"), F(8, "OSD"), F(9, "P")>>],
  [clusters |-> {1}, frames |-> <<F(10, "I"), F(11, "P")>>],
  [clusters |-> {1, 3, 4}, frames |-> <<F(14, "I"), F(15, "OSD"), F(16, "AUDIO"), F(16, "P"), F(17, "P"),
                                        F(19, "P")>>],
  [clusters |-> {1, 3}, frames |-> <<F(20, "OSD"), F(20, "I"), F(22, "OSD"), F(22, "I")>>],
  [clusters |-> {1}, frames |-> <<F(24, "I")>>]>>
MCRequests == {3, 8, 9, 12, 16, 17, 22}
=============================================================================
