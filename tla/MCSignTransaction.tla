-------------------------- MODULE MCSignTransaction --------------------------
(***************************************************************************)
(* Small instances of SignTransaction for TLC: two scraped versions        *)
(* against a retention of one, one managed slot, two epochs and two keys.  *)
(***************************************************************************)
EXTENDS SignTransaction

CONSTANTS bytesA, php84, linux, msys

TwoVersions == 1..2
OneContent  == {bytesA}
OneVersion  == {php84}
OnePlatform == {linux}
OneSource   == {msys}
OneEpoch    == {1}
TwoEpochs   == 1..2
OneKey      == {1}
TwoKeys     == 1..2
Nothing     == {}

Offers(n)   == [up |-> TRUE, offers |-> {[version |-> n, content |-> bytesA]}]
Unreachable == [up |-> FALSE, offers |-> {}]

\* The feed goes down, publishes a successor, and rolls back.
AnyFeed    == {Offers(1), Offers(2), Unreachable}
\* The feed keeps listing the first version.
StillListed == {Offers(1)}
==============================================================================
