------------------------- MODULE MCApprovalPipeline -------------------------
(* Model-checking instances of ApprovalPipeline: two /run commands.         *)
EXTENDS ApprovalPipeline

CONSTANTS p1, p2
=============================================================================
