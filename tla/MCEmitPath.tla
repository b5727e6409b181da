----------------------------- MODULE MCEmitPath -----------------------------
(* EmitPath on its own: one harness at a time. *)
EXTENDS EmitPath
=============================================================================
