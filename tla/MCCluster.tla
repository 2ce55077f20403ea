----------------------------- MODULE MCCluster -----------------------------
(* Cluster on small instances: the jobs placed before the agents run. *)
EXTENDS Cluster
CONSTANTS j1, j2, j3
MCPlaced == <<j1, j2>>
=============================================================================
