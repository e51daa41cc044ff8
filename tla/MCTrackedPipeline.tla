-------------------------- MODULE MCTrackedPipeline --------------------------
(* Small instances of TrackedPipeline for TLC.                             *)
EXTENDS TrackedPipeline, TLC

CONSTANTS j1, t0, w1, v1, v2, e1, e2, e3, e4, e5

DefaultOnly == j1 :> t0
=============================================================================
