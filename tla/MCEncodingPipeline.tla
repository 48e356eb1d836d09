------------------------- MODULE MCEncodingPipeline -------------------------
(* The encoding pipeline with four tasks that go round more than once, VPP *)
(* and encoder holding back one unit each, and the device lost twice.      *)
EXTENDS EncodingPipeline
=============================================================================
