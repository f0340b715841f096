---------------------------- MODULE RevisionHistory ----------------------------
(***************************************************************************)
(* The revisions of the published manifests over the commits of main, and  *)
(* the gate that watches them (ci/check_revision_history.py).              *)
(*                                                                         *)
(* The automated writers compute the next revision from the file they      *)
(* replace and run the gate before they push.  People push as well, and    *)
(* for them the gate only reports: ci.yml runs on a push that has already  *)
(* happened, and Pages serves main.                                        *)
(*                                                                         *)
(* A blob is a file at a commit.  Revision 0 stands for a missing one; an  *)
(* integer that is no positive int64, which the gate reports on either     *)
(* side of a push, is left out.  A blob of kind "other" does not match     *)
(* is_component_manifest and has no revision.  The bytes of a manifest are *)
(* its revision and its body.                                              *)
(***************************************************************************)
EXTENDS Naturals, FiniteSets

CONSTANTS Files, Bodies,
          MaxRevision,   \* bound: greatest revision
          MaxCommits     \* bound: commits after the first

ASSUME HistoryAssumption == MaxRevision \in Nat \ {0} /\ MaxCommits \in Nat

VARIABLES tip,        \* the tree main serves
          commits,    \* bound: commits so far
          flagged,    \* the gate has reported some push
          published   \* history: every <<file, blob>> a client may have accepted

vars == <<tip, commits, flagged, published>>

Absent   == [kind |-> "absent", revision |-> 0, body |-> 0]
Other    == [kind |-> "other", revision |-> 0, body |-> 0]
Manifest == [kind : {"manifest"}, revision : 0..MaxRevision, body : Bodies]
Blob     == {Absent, Other} \cup Manifest
Tree     == [Files -> Blob]

Present(b) == b.kind # "absent"

------------------------------------------------------------------------------
(* check(base, head). *)

\* Slip: only the files of the head tree are looked at.
FileSet_HeadOnly(base, head) == {f \in Files : head[f].kind = "manifest"}

FileSet(base, head) == {f \in Files : "manifest" \in {base[f].kind, head[f].kind}}

KeptPresent(base, head) ==
    \A f \in FileSet(base, head) : Present(base[f]) => head[f].kind = "manifest"

HeadInvariant(base, head) ==
    \A f \in FileSet(base, head) : Present(head[f]) => head[f].revision >= 1

Bootstrap(base, head) == \A f \in FileSet(base, head) : base[f].revision = 0

BootstrapOK(base, head) ==
    \A f \in FileSet(base, head) :
        /\ head[f].revision = 1
        /\ Present(base[f]) => head[f].body = base[f].body

MonotoneOK(base, head) ==
    \A f \in FileSet(base, head) :
        IF Present(base[f])
        THEN \/ head[f] = base[f]
             \/ base[f].revision > 0 /\ head[f].revision > base[f].revision
        ELSE head[f].revision = 1

Check(base, head) ==
    /\ FileSet(base, head) # {}
    /\ KeptPresent(base, head) /\ HeadInvariant(base, head)
    /\ IF Bootstrap(base, head) THEN BootstrapOK(base, head) ELSE MonotoneOK(base, head)

------------------------------------------------------------------------------
\* A client can only take a mark from a manifest with a revision.
Marks(t) == {<<f, t[f]>> : f \in {g \in Files : t[g].kind = "manifest" /\ t[g].revision > 0}}

Init == /\ \E r \in {0, 1}, body \in Bodies :
              tip = [f \in Files |-> [kind |-> "manifest", revision |-> r, body |-> body]]
        /\ commits = 0 /\ flagged = FALSE
        /\ published = Marks(tip)

\* ci.yml compares every push with the tip it replaced.
Push(t) == /\ commits < MaxCommits /\ commits' = commits + 1
           /\ t # tip
           /\ tip' = t
           /\ flagged' = (flagged \/ ~Check(tip, t))
           /\ published' = published \cup Marks(t)

\* next_revision: a missing file starts at 1, a changed one increments.
NextRevision(prior, body) ==
    IF ~Present(prior) THEN 1
    ELSE IF prior.body = body THEN prior.revision ELSE prior.revision + 1

\* Slip: the fields of the prior file are kept, those of a missing one too.
Rebuilt_FromPrior(prior, body) ==
    [prior EXCEPT !.revision = NextRevision(prior, body), !.body = body]

Rebuilt(prior, body) ==
    [kind |-> "manifest", revision |-> NextRevision(prior, body), body |-> body]

(* An automated writer rebuilds a manifest.  A prior without a revision is *)
(* a SchemaError, and a commit the gate refuses is not pushed.             *)
Generate(f, body) ==
    LET t == [tip EXCEPT ![f] = Rebuilt(@, body)]
    IN  /\ Present(tip[f]) => tip[f].revision > 0
        /\ NextRevision(tip[f], body) <= MaxRevision
        /\ Check(tip, t)
        /\ Push(t)

\* A merged commit of any content: a backfill, a hand-edit, a bad merge, or
\* the `git revert` that README.md:118-121 offers for one.
Edit(t) == Push(t)

Next == \/ \E f \in Files, body \in Bodies : Generate(f, body)
        \/ \E t \in Tree : Edit(t)

Spec == Init /\ [][Next]_vars

------------------------------------------------------------------------------
TypeOK == /\ tip \in Tree
          /\ commits \in 0..MaxCommits /\ flagged \in BOOLEAN
          /\ published \subseteq Files \X Manifest

Accepts(mark, b) == b = mark \/ (b.kind = "manifest" /\ b.revision > mark.revision)

\* Whatever blob a client last accepted, it accepts the one main serves.
NoClientLockedOut == \A m \in published : Accepts(m[2], tip[m[1]])

(* As long as the gate has reported nothing, whatever was committed and by *)
(* whom, every client accepts what main serves: comparing each push with   *)
(* the tip it replaces is enough to protect marks taken at any time.       *)
GreenMeansSafe == ~flagged => NoClientLockedOut
==============================================================================
