------------------------- MODULE RevisionHistoryProofs -------------------------
(***************************************************************************)
(* The gate of RevisionHistory protects every client, for any number of    *)
(* files, revisions and commits, as long as it has reported nothing.       *)
(***************************************************************************)
EXTENDS RevisionHistory, TLAPS

\* Every mark names a file and a manifest that carries a revision.
MarksSound == \A m \in published : /\ m = <<m[1], m[2]>> /\ m[1] \in Files
                                   /\ m[2].kind = "manifest" /\ m[2].revision > 0

IInv == TypeOK /\ MarksSound /\ GreenMeansSafe

\* A blob of a tree has a kind and a revision, and a manifest is one of Manifest.
LEMMA BlobFacts ==
    ASSUME NEW b \in Blob
    PROVE  /\ b.kind \in {"absent", "other", "manifest"}
           /\ b.revision \in 0..MaxRevision
           /\ b.kind = "manifest" => b \in Manifest
  BY HistoryAssumption DEF Blob, Absent, Other, Manifest

\* What a tree adds to the marks is sound.
LEMMA MarksOfTree ==
    ASSUME NEW t \in Tree, NEW m \in Marks(t)
    PROVE  /\ m[1] \in Files /\ m[2] = t[m[1]] /\ m = <<m[1], m[2]>>
           /\ m[2].kind = "manifest" /\ m[2].revision > 0
           /\ m \in Files \X Manifest
  <1>1. PICK f \in Files : m = <<f, t[f]>> /\ t[f].kind = "manifest" /\ t[f].revision > 0
    BY DEF Marks
  <1>2. t[f] \in Manifest
    BY <1>1, BlobFacts DEF Tree
  <1> QED BY <1>1, <1>2

\* The heart of the argument: a push the gate passes keeps every mark that the
\* replaced tip accepted.  A mark on a file means that the replaced tree carries
\* a revision there, so the bootstrap rule cannot apply.
LEMMA CheckKeepsMarks ==
    ASSUME NEW base \in Tree, NEW head \in Tree, Check(base, head),
           NEW f \in Files, NEW mark \in Manifest,
           mark.revision > 0, Accepts(mark, base[f])
    PROVE  Accepts(mark, head[f])
  <1>1. /\ base[f] \in Blob /\ head[f] \in Blob
        /\ mark.kind = "manifest" /\ mark.revision \in Nat
    BY HistoryAssumption DEF Tree, Manifest
  <1>2. /\ base[f].revision \in Nat /\ head[f].revision \in Nat
    BY <1>1, BlobFacts, HistoryAssumption
  <1>3. base[f].kind = "manifest" /\ base[f].revision >= mark.revision
    BY <1>1, <1>2 DEF Accepts
  <1>4. f \in FileSet(base, head) /\ Present(base[f])
    BY <1>3 DEF FileSet, Present
  <1>5. ~Bootstrap(base, head)
    BY <1>1, <1>2, <1>3, <1>4 DEF Bootstrap
  <1>6. head[f].kind = "manifest"
    BY <1>4 DEF Check, KeptPresent
  <1>7. head[f] = base[f] \/ head[f].revision > base[f].revision
    BY <1>4, <1>5 DEF Check, MonotoneOK
  <1> QED BY <1>1, <1>2, <1>3, <1>6, <1>7 DEF Accepts

\* The trees the actions push are trees.
LEMMA PushesTrees ==
    ASSUME TypeOK, Next
    PROVE  \E t \in Tree : Push(t)
  <1>1. CASE \E f \in Files, body \in Bodies : Generate(f, body)
    <2>1. PICK f \in Files, body \in Bodies : Generate(f, body)
      BY <1>1
    <2> DEFINE t == [tip EXCEPT ![f] = Rebuilt(@, body)]
    <2>2. Push(t)
      BY <2>1 DEF Generate
    <2>3. tip \in Tree /\ tip[f] \in Blob
      BY DEF TypeOK, Tree
    <2>4. NextRevision(tip[f], body) \in 0..MaxRevision
      BY <2>1, <2>3, BlobFacts, HistoryAssumption DEF Generate, NextRevision
    <2>5. Rebuilt(tip[f], body) \in Blob
      BY <2>4 DEF Rebuilt, Blob, Manifest
    <2>6. t \in Tree
      BY <2>3, <2>5 DEF Tree
    <2> QED BY <2>2, <2>6
  <1>2. CASE \E t \in Tree : Edit(t)
    BY <1>2 DEF Edit
  <1> QED BY <1>1, <1>2 DEF Next

\* The first tree may lack revisions altogether: then there is no mark yet.
LEMMA InitIInv == ASSUME Init PROVE IInv
  <1>1. tip \in Tree
    BY HistoryAssumption DEF Init, Tree, Blob, Manifest
  <1>2. TypeOK
    <2>1. published \subseteq Files \X Manifest
      BY <1>1, MarksOfTree DEF Init
    <2>2. flagged \in BOOLEAN
      BY <1>1 DEF Init
    <2>3. commits \in 0..MaxCommits
      BY HistoryAssumption DEF Init
    <2> QED BY <1>1, <2>1, <2>2, <2>3 DEF TypeOK
  <1>3. MarksSound
    BY <1>1, MarksOfTree DEF Init, MarksSound
  <1>4. NoClientLockedOut
    BY <1>1, MarksOfTree DEF Init, NoClientLockedOut, Accepts
  <1> QED BY <1>2, <1>3, <1>4 DEF IInv, GreenMeansSafe

LEMMA PushIInv == ASSUME IInv, NEW t \in Tree, Push(t) PROVE IInv'
  <1> USE DEF IInv
  <1>1. tip \in Tree /\ tip' = t /\ published' = published \cup Marks(t)
    BY DEF TypeOK, Push
  <1>2. TypeOK'
    <2>1. published' \subseteq Files \X Manifest
      BY <1>1, MarksOfTree DEF TypeOK
    <2>2. commits' \in 0..MaxCommits
      BY HistoryAssumption DEF TypeOK, Push
    <2>3. flagged' \in BOOLEAN
      BY DEF TypeOK, Push
    <2> QED BY <1>1, <2>1, <2>2, <2>3 DEF TypeOK
  <1>3. MarksSound'
    BY <1>1, MarksOfTree DEF MarksSound
  <1>4. GreenMeansSafe'
    <2> SUFFICES ASSUME ~flagged', NEW m \in published'
                 PROVE  Accepts(m[2], t[m[1]])
      BY <1>1 DEF GreenMeansSafe, NoClientLockedOut
    <2>1. ~flagged /\ Check(tip, t)
      BY DEF Push
    <2>2. CASE m \in published
      <3>1. m[1] \in Files /\ m[2] \in Manifest /\ m[2].revision > 0
        BY <2>2 DEF TypeOK, MarksSound
      <3>2. Accepts(m[2], tip[m[1]])
        BY <2>1, <2>2 DEF GreenMeansSafe, NoClientLockedOut
      <3> QED BY <1>1, <2>1, <3>1, <3>2, CheckKeepsMarks
    <2>3. CASE m \in Marks(t)
      BY <2>3, MarksOfTree DEF Accepts
    <2> QED BY <1>1, <2>2, <2>3
  <1> QED BY <1>2, <1>3, <1>4

THEOREM Invariance == Spec => []IInv
  <1>1. Init => IInv
    BY InitIInv
  <1>2. IInv /\ [Next]_vars => IInv'
    <2> SUFFICES ASSUME IInv, [Next]_vars PROVE IInv'
      OBVIOUS
    <2>1. CASE Next
      BY <2>1, PushesTrees, PushIInv DEF IInv
    <2>2. CASE UNCHANGED vars
      BY <2>2 DEF vars, IInv, TypeOK, MarksSound, GreenMeansSafe, NoClientLockedOut
    <2> QED BY <2>1, <2>2
  <1> QED BY <1>1, <1>2, PTL DEF Spec

(* The tree, the flag and the marks stay in their domains.                 *)
THEOREM TypeCorrect == Spec => []TypeOK
  BY Invariance, PTL DEF IInv

(* As long as check_revision_history.py has reported no push, whatever was *)
(* committed and by whom, every client accepts what main serves.           *)
THEOREM GreenIsSafe == Spec => []GreenMeansSafe
  BY Invariance, PTL DEF IInv
==============================================================================
