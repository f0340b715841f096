------------------------------- MODULE MCPlanner -------------------------------
(***************************************************************************)
(* One slot, two epochs, three revisions, two values of the pins and two   *)
(* builds that differ.                                                     *)
(***************************************************************************)
EXTENDS Planner

CONSTANTS php84, linux, msys, pinA, pinB, bytesA, bytesB

OneVersion  == {php84}
OnePlatform == {linux}
OneSource   == {msys}
Php84Linux  == <<php84, linux>>
TwoEpochs   == 1..2
ThreeKeys   == 1..3
TwoPins     == {pinA, pinB}
TwoContents == {bytesA, bytesB}
==============================================================================
