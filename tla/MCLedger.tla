------------------------------- MODULE MCLedger -------------------------------
(***************************************************************************)
(* A small instance of Ledger for TLC: one slot, one provider, two epochs, *)
(* revisions and contents, one queued record and one revocation file.      *)
(***************************************************************************)
EXTENDS Ledger, TLC

CONSTANTS php84, linux, msys, bytesA, bytesB

OneVersion   == {php84}
OnePlatform  == {linux}
NoPlatform   == {}
OneSource    == {msys}
TwoEpochs    == 1..2
TwoKeys      == 1..2
TwoContents  == {bytesA, bytesB}

ContentSymmetry == Permutations(TwoContents)
==============================================================================
