-------------------------- MODULE PublishedManifest --------------------------
(***************************************************************************)
(* What main promises the clients that poll it, without saying how main is *)
(* produced: for every component one document at a time, each replacement  *)
(* carrying a greater revision.  What a document says does not matter.     *)
(*                                                                         *)
(* A client keeps a mark, the revision and the hash of the last document   *)
(* it accepted.  It refuses a document whose revision is below its mark,   *)
(* and one of equal revision with another hash.  Its mark can be any       *)
(* document main has ever served, because it may have polled at any time.  *)
(***************************************************************************)
EXTENDS Naturals

CONSTANT Components

VARIABLES doc,         \* the document main serves for each component
          published    \* every <<component, document>> main has ever served

vars == <<doc, published>>

Numbered(d) == d.revision \in Nat \ {0}

Served == {<<c, doc[c]>> : c \in Components}

Init == /\ \A c \in Components : Numbered(doc[c])
        /\ published = Served

Advances(old, new) == new = old \/ new.revision > old.revision

Publish ==
    /\ \A c \in Components : Numbered(doc'[c]) /\ Advances(doc[c], doc'[c])
    /\ published' = published \cup Served'

Spec == Init /\ [][Publish]_vars

TypeOK == /\ \A c \in Components : Numbered(doc[c])
          /\ \A m \in published : m[1] \in Components /\ Numbered(m[2])

(* Whatever document a client last accepted, it accepts the one main       *)
(* serves now: no two documents ever share a revision, and main never goes *)
(* back to an older one.                                                   *)
NoClientLockedOut == \A m \in published : Advances(m[2], doc[m[1]])

==============================================================================
