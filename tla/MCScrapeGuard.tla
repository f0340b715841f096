---------------------------- MODULE MCScrapeGuard ----------------------------
(***************************************************************************)
(* A small instance of ScrapeGuard for TLC: four versions against a        *)
(* retention of two, so that versions are evicted and the feed can offer   *)
(* them again; two contents, so that a version can be republished with     *)
(* other bytes; up to two candidates, so that one run can both admit and   *)
(* ignore.                                                                 *)
(***************************************************************************)
EXTENDS ScrapeGuard, TLC

CONSTANTS bytesA, bytesB

MCVersions == 1..4
MCContents == {bytesA, bytesB}

\* Contents are compared only for equality.
ContentSymmetry == Permutations(MCContents)
==============================================================================
