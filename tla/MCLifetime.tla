----------------------------- MODULE MCLifetime -----------------------------
(* Lifetime with every string encoding JS_ToCString distinguishes.         *)
EXTENDS Lifetime

MCEncodings == {"ascii", "other", "throws"}
=============================================================================
