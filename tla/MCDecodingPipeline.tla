------------------------- MODULE MCDecodingPipeline -------------------------
(* A stream of seven pictures whose size changes twice and comes back, so  *)
(* that frames of the first size are wanted again; the device is lost up   *)
(* to twice, and one wait times out.                                       *)
EXTENDS DecodingPipeline
P(size, header) == [size |-> size, header |-> header]
MCStream == <<P("small", TRUE), P("small", FALSE), P("large", TRUE), P("large", FALSE),
              P("large", TRUE), P("small", TRUE), P("small", FALSE)>>
MCNeed == [s \in {"small", "large"} |-> 2]
=============================================================================
