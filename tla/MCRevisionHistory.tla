-------------------------- MODULE MCRevisionHistory --------------------------
(***************************************************************************)
(* Two manifests, two bodies and three revisions, over three commits: a    *)
(* file can be backfilled, changed, deleted and added again.               *)
(***************************************************************************)
EXTENDS RevisionHistory

CONSTANTS nodejson, gojson

TwoFiles  == {nodejson, gojson}
TwoBodies == {1, 2}
==============================================================================
