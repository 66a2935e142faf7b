----------------------------- MODULE MCBodyCodec -----------------------------
(* Small instance of BodyCodec.  The buffers keep the code's proportions: *)
(* the encoder keeps 9 bytes (12285 in the code) and the template holds   *)
(* the base64 text of at most 3 bytes twice (about 2940 in the code).     *)
EXTENDS BodyCodec

=============================================================================
