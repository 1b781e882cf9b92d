-------------------------- MODULE MCServiceRunner --------------------------
(* ServiceRunner with its services as model values, for TLC. *)
EXTENDS ServiceRunner, TLC

CONSTANTS s1, s2, s3

MCServices == {s1, s2}
MCThreeServices == {s1, s2, s3}
MCPids == {"probe", "act"} \X MCServices
Symmetry == Permutations(MCServices)
=============================================================================
