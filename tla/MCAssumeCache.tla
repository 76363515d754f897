--------------------------- MODULE MCAssumeCache ----------------------------
(* One pod that may be there, and bound, when the shim starts (the entries *)
(* of different pods never meet), and two nodes that come and go.          *)
EXTENDS AssumeCache
=============================================================================
