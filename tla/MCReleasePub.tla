---------------------------- MODULE MCReleasePub ----------------------------
(***************************************************************************)
(* Small instances of ReleasePub: two platforms that share a source        *)
(* tarball, or have one each, and two builds that differ.                  *)
(***************************************************************************)
EXTENDS ReleasePub

CONSTANTS unix, windows, tarball, zipball, bytesA, bytesB

TwoPlatforms == {unix, windows}
OneSource    == {tarball}
TwoSources   == {tarball, zipball}
Shared       == [p \in TwoPlatforms |-> tarball]
Apart        == [p \in TwoPlatforms |-> IF p = unix THEN tarball ELSE zipball]
TwoBuilds    == {bytesA, bytesB}
=============================================================================
