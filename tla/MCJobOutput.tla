----------------------------- MODULE MCJobOutput -----------------------------
(* JobOutput for TLC: four lines, of which two are wider and one tells a    *)
(* progress, or none at all.                                                *)
EXTENDS JobOutput

MCWidth == <<1, 2, 2, 1>>
MCNoWidth == <<>>
=============================================================================
