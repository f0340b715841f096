------------------------------ MODULE MCTrustKeys ------------------------------
(***************************************************************************)
(* A small instance of TrustKeys for TLC: ages in days, a signature is     *)
(* renewed after one, refused after three, and one run in two days lands.  *)
(***************************************************************************)
EXTENDS TrustKeys

CONSTANTS node, go

TwoManifests == {node, go}
TwoKeys      == {1, 2}

\* A clock far ahead, and one five days back.
Wrong == {4, -5}

Rotation(file, root, signer) ==
    [file |-> file, root |-> root, old |-> 1, new |-> 2, signer |-> signer]

\* The record of a rotation; the same under the name of the other root; one
\* signed by the new key; one of the release key.
SomeRecords == {Rotation("manifest", "manifest", 1), Rotation("release", "manifest", 1),
                Rotation("manifest", "manifest", 2), Rotation("release", "release", 1)}
==============================================================================
