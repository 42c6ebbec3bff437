------------------------- MODULE MCClusterLifecycle -------------------------
(* Small instances of ClusterLifecycle for TLC.  The run "moved" asks for  *)
(* other host ports than the rest, and "moved" and "changed" apply a       *)
(* checkout whose storage/bootstrap.sh differs.                            *)
EXTENDS ClusterLifecycle

MCPortsOf == [r \in Runs |-> IF r = "moved" THEN "others" ELSE "default"]
MCScriptOf == [r \in Runs |-> IF r \in {"moved", "changed"} THEN "edited" ELSE "original"]
=============================================================================
