----------------------------- MODULE ReleaseProofs -----------------------------
(***************************************************************************)
(* The safety of ReleasePub, for any platforms, any sharing of sources,    *)
(* any builds and any number of faults.                                    *)
(***************************************************************************)
EXTENDS ReleasePub, TLAPS

\* Before the release exists there is nothing in it, and no member is handled.
NothingYet == release = "none" => /\ \A n \in Names : asset[n] = "absent"
                                  /\ phase \notin {"source", "archive", "cleanup"}

\* In a draft already, an archive comes after its source; a source that
\* matches is never touched again.
SourceBefore == \A p \in Platforms : asset[p] # "absent" => asset[SourceOf[p]] = "upstream"

\* What publish works on was handed over by a leg and, once the leg's release
\* is being reconciled, is journalled.
HandedOver == /\ phase \notin {"idle", "legs"} => \A p \in todo : op.handoff[p] \in Builds
              /\ leg # NoLeg => /\ op.handoff[leg] \in Builds
                                /\ receipt[leg] = op.handoff[leg]

\* How far the loop over the members has come.
LoopSound == /\ phase \in {"archive", "cleanup"} => asset[SourceOf[leg]] = "upstream"
             /\ phase = "cleanup" => asset[leg] = op.handoff[leg]

Served(p, build) == /\ release = "public"
                    /\ asset[p] = build /\ receipt[p] = build
                    /\ asset[SourceOf[p]] = "upstream"

\* A leg counts as done only when its members are public.
DoneServed == /\ phase \in {"idle", "legs"} => done = {}
              /\ \A p \in done : op.handoff[p] \in Builds /\ Served(p, op.handoff[p])

IInv == /\ TypeOK /\ NothingYet /\ SourceBefore /\ ReceiptsBind
        /\ HandedOver /\ LoopSound /\ DoneServed /\ RecordsServed

LEMMA InitIInv == Init => IInv
  BY MembersAssumption, BuildsAssumption, FaultsAssumption
     DEF Init, IInv, TypeOK, NothingYet, SourceBefore, ReceiptsBind, HandedOver, LoopSound,
         DoneServed, RecordsServed, Served, NoOperation, Operation, Names, Remnant, Phases

LEMMA StepIInv ==
    ASSUME IInv, [Next]_vars
    PROVE  IInv'
  <1> USE MembersAssumption, BuildsAssumption, FaultsAssumption
          DEF IInv, TypeOK, NothingYet, SourceBefore, ReceiptsBind, HandedOver, LoopSound,
              DoneServed, RecordsServed, Served, Operation, Names, Remnant, Phases, github, main
  <1>1. ASSUME NEW S \in SUBSET Platforms, Plan(S) PROVE IInv'
    BY <1>1 DEF Plan, Uncovered
  <1>2. ASSUME NEW o \in {op, past}, Rerun(o) PROVE IInv'
    BY <1>2 DEF Rerun
  <1>3. ASSUME NEW p \in Platforms, NEW build \in Builds \cup {NoBuild}, LegEnds(p, build),
               faults' \in 0..MaxFaults
        PROVE  IInv'
    BY <1>3 DEF LegEnds
  <1>23. CASE Legs
    <2>1. UNCHANGED faults
      BY <1>23 DEF Legs, BuildLeg, RecoverLeg, RefuseLeg
    <2>2. \E p \in Platforms, build \in Builds \cup {NoBuild} : LegEnds(p, build)
      BY <1>23 DEF Legs, BuildLeg, RecoverLeg, RefuseLeg
    <2> QED BY <2>1, <2>2, <1>3
  <1>24. ASSUME NEW p \in Platforms, LoseLeg(p) PROVE IInv'
    <2>1. LegEnds(p, NoBuild) /\ faults' \in 0..MaxFaults
      BY <1>24 DEF LoseLeg, Fault
    <2> QED BY <2>1, <1>3
  <1>4. CASE StartPublish
    BY <1>4 DEF StartPublish
  <1>5. ASSUME NEW p \in Platforms, Journal(p) PROVE IInv'
    <2>1. op.handoff[p] \in Builds /\ receipt' = [receipt EXCEPT ![p] = op.handoff[p]]
      BY <1>5 DEF Journal
    <2>2. receipt[p] = NoBuild \/ receipt'= receipt
      BY <1>5 DEF Journal, Journalable
    <2>3. UNCHANGED <<release, asset, queued, manifest, op, done>>
      BY <1>5 DEF Journal
    <2>4. TypeOK'
      BY <1>5, <2>1 DEF Journal, NextLeg, Fault
    <2>5. NothingYet' /\ SourceBefore' /\ HandedOver' /\ LoopSound'
      BY <1>5, <2>1 DEF Journal, NextLeg
    <2>6. ReceiptsBind'
      BY <2>1, <2>2, <2>3
    <2>7. DoneServed'
      BY <1>5, <2>1, <2>2, <2>3 DEF Journal, NextLeg
    <2>8. RecordsServed'
      BY <2>1, <2>2, <2>3
    <2> QED BY <2>4, <2>5, <2>6, <2>7, <2>8
  <1>6. ASSUME NEW p \in Platforms, SkipLeg(p) PROVE IInv'
    BY <1>6 DEF SkipLeg, Fault
  <1>7. CASE Create
    BY <1>7 DEF Create, Call, NextLeg, Fault
  <1>8. CASE Resume
    BY <1>8 DEF Resume
  <1>9. CASE Adopt
    BY <1>9 DEF Adopt, InLoop, Member, NextMember, Digest
  <1>10. CASE Delete
    BY <1>10 DEF Delete, InLoop, Member, Mismatched, Replaceable, Digest, Call, NextLeg, Fault
  <1>11. CASE Refuse
    BY <1>11 DEF Refuse, InLoop, NextLeg
  <1>12. CASE Upload
    <2>1. leg \in Platforms /\ op.handoff[leg] \in Builds /\ receipt[leg] = op.handoff[leg]
      BY <1>12 DEF Upload, InLoop
    <2>2. release # "none" /\ UNCHANGED <<release, receipt, queued, manifest, op, todo, done>>
      BY <1>12 DEF Upload, InLoop
    <2>3. \/ phase' \in {"archive", "cleanup"} /\ leg' = leg /\ phase' = NextMember
          \/ phase' = "publish" /\ leg' = NoLeg
      BY <1>12 DEF Upload, InLoop, NextMember, Call, NextLeg
    <2>4. CASE phase = "source"
      <3>1. asset[SourceOf[leg]] = "absent" /\ SourceOf[leg] \in Sources
            /\ asset' = [asset EXCEPT ![SourceOf[leg]] = "upstream"]
        BY <1>12, <2>1, <2>4 DEF Upload, Member, Digest
      <3>2. TypeOK'
        <4>1. asset' \in [Names -> Remnant \cup {"damaged", "upstream"} \cup Builds]
          BY <3>1
        <4>2. /\ \A p \in Platforms : asset'[p] # "upstream"
              /\ \A n \in Sources : asset'[n] \notin Builds
          BY <3>1
        <4>3. faults' \in 0..MaxFaults
          BY <1>12 DEF Upload, Call, Fault
        <4> QED BY <1>12, <2>1, <2>2, <2>3, <4>1, <4>2, <4>3 DEF Upload
      <3>3. NothingYet' /\ SourceBefore' /\ ReceiptsBind' /\ HandedOver'
        BY <2>1, <2>2, <2>3, <2>4, <3>1
      <3>4. LoopSound'
        BY <2>1, <2>2, <2>3, <2>4, <3>1 DEF NextMember
      <3>5. \A q \in Platforms, build \in Builds : Served(q, build) => Served(q, build)'
        BY <2>2, <3>1
      <3>6. DoneServed'
        BY <2>2, <2>3, <2>4, <3>5
      <3>7. RecordsServed'
        <4> SUFFICES ASSUME NEW q \in Platforms, NEW build \in {queued[q], manifest[q]} \ {NoBuild}
                     PROVE  Served(q, build)'
          BY <2>2
        <4>1. build \in Builds /\ Served(q, build)
          OBVIOUS
        <4> QED BY <3>5, <4>1
      <3> QED BY <3>2, <3>3, <3>4, <3>6, <3>7
    <2>5. CASE phase = "archive"
      <3>1. asset[leg] = "absent" /\ leg \notin Sources
            /\ asset' = [asset EXCEPT ![leg] = op.handoff[leg]]
        BY <1>12, <2>1, <2>5 DEF Upload, Member, Digest
      <3>2. TypeOK'
        BY <1>12, <2>1, <2>3, <3>1 DEF Upload, Call, NextLeg, Fault
      <3>3. NothingYet' /\ SourceBefore' /\ ReceiptsBind' /\ HandedOver'
        BY <2>1, <2>2, <2>3, <2>5, <3>1
      <3>4. LoopSound'
        BY <2>1, <2>2, <2>3, <2>5, <3>1
      <3>5. \A q \in Platforms, build \in Builds : Served(q, build) => Served(q, build)'
        BY <2>2, <3>1
      <3>6. DoneServed'
        BY <2>2, <2>3, <2>5, <3>5
      <3>7. RecordsServed'
        <4> SUFFICES ASSUME NEW q \in Platforms, NEW build \in {queued[q], manifest[q]} \ {NoBuild}
                     PROVE  Served(q, build)'
          BY <2>2
        <4>1. build \in Builds /\ Served(q, build)
          OBVIOUS
        <4> QED BY <3>5, <4>1
      <3> QED BY <3>2, <3>3, <3>4, <3>6, <3>7
    <2> QED BY <1>12, <2>4, <2>5 DEF Upload, InLoop
  <1>13. CASE BadUpload
    BY <1>13 DEF BadUpload, InLoop, Member, NextLeg, Fault
  <1>14. ASSUME NEW n \in Names, Cleanup(n) PROVE IInv'
    BY <1>14 DEF Cleanup, Stray, Members, Call, NextLeg, Fault
  <1>15. CASE Undraft
    <2>1. /\ leg \in Platforms /\ op.handoff[leg] \in Builds /\ op' = op
          /\ release' = "public" /\ asset'[leg] = op.handoff[leg]
          /\ receipt'[leg] = op.handoff[leg] /\ asset'[SourceOf[leg]] = "upstream"
      BY <1>15 DEF Undraft
    <2>2. TypeOK'
      BY <1>15, <2>1 DEF Undraft, NextLeg, Fault
    <2>3. NothingYet' /\ SourceBefore' /\ ReceiptsBind' /\ HandedOver' /\ LoopSound'
      BY <1>15, <2>1 DEF Undraft, NextLeg
    <2>4. DoneServed'
      BY <1>15, <2>1 DEF Undraft, NextLeg
    <2>5. RecordsServed'
      <3>1. UNCHANGED <<asset, receipt, queued, manifest>> /\ release' = "public"
        BY <1>15 DEF Undraft
      <3> QED BY <3>1
    <2> QED BY <2>2, <2>3, <2>4, <2>5
  <1>16. CASE CallFails
    BY <1>16 DEF CallFails, NextLeg, Fault
  <1>17. CASE EndPublish
    BY <1>17 DEF EndPublish, EndJob
  <1>18. CASE Finalize
    BY <1>18 DEF Finalize, EndJob
  <1>19. CASE Crash
    BY <1>19 DEF Crash, EndJob, Fault
  <1>20. ASSUME NEW p \in Platforms, Bind(p) PROVE IInv'
    <2>1. TypeOK' /\ NothingYet' /\ SourceBefore' /\ ReceiptsBind' /\ HandedOver'
          /\ LoopSound' /\ DoneServed'
      BY <1>20 DEF Bind
    <2>2. RecordsServed'
      <3> SUFFICES ASSUME NEW q \in Platforms,
                          NEW build \in {queued'[q], manifest'[q]} \ {NoBuild}
                   PROVE  Served(q, build)'
        OBVIOUS
      <3>1. build \in {queued[q], manifest[q]} \ {NoBuild}
        BY <1>20 DEF Bind
      <3> QED BY <3>1, <1>20 DEF Bind
    <2> QED BY <2>1, <2>2
  <1>21. ASSUME NEW p \in Platforms, Expire(p) PROVE IInv'
    BY <1>21 DEF Expire
  <1>22. CASE UNCHANGED vars
    BY <1>22 DEF vars
  <1> HIDE DEF IInv
  <1> QED
    BY <1>1, <1>2, <1>4, <1>5, <1>6, <1>7, <1>8, <1>9, <1>10, <1>11, <1>12, <1>13,
       <1>14, <1>15, <1>16, <1>17, <1>18, <1>19, <1>20, <1>21, <1>22, <1>23, <1>24
       DEF Next, JobStep, Faulty, Reconcile

THEOREM Invariance == Spec => []IInv
  <1>1. IInv /\ [Next]_vars => IInv'
    BY StepIInv
  <1> QED BY InitIInv, <1>1, PTL DEF Spec

\* Every variable keeps its type.
THEOREM TypeCorrect == Spec => []TypeOK
  <1>1. IInv => TypeOK
    BY DEF IInv
  <1> QED BY Invariance, <1>1, PTL

\* No public archive without its source, whatever fails and in whatever order
\* the legs come (reconcile_release).
THEOREM SourceBeforeCode == Spec => []SourceFirst
  <1>1. IInv => SourceFirst
    BY DEF IInv, SourceBefore, SourceFirst, Remnant
  <1> QED BY Invariance, <1>1, PTL

\* What main names is public with the journalled bytes, for any sequence of
\* runs and reruns (publish, write_pending).
THEOREM NoBrokenRecord == Spec => []RecordsServed
  <1>1. IInv => RecordsServed
    BY DEF IInv
  <1> QED BY Invariance, <1>1, PTL

\* The release shows no intact archive but the journalled one (publish, recover).
THEOREM OneBuildPerReceipt == Spec => []ReceiptsBind
  <1>1. IInv => ReceiptsBind
    BY DEF IInv
  <1> QED BY Invariance, <1>1, PTL

\* Public bytes are never replaced or withdrawn, and receipts never rewritten
\* (reconcile_release, transactions.append).
THEOREM NeverReplaced == Spec => PublicImmutable
  <1> DEFINE Kept == /\ release = "public" =>
                          /\ release' = "public"
                          /\ \A n \in Names : asset[n] \notin Remnant => asset'[n] = asset[n]
                     /\ \A p \in Platforms : receipt[p] # NoBuild => receipt'[p] = receipt[p]
  <1>1. ASSUME IInv, [Next]_vars PROVE Kept
    <2> USE DEF IInv, TypeOK, Names, Remnant, github, main
    <2>1. ASSUME NEW p \in Platforms, Journal(p) PROVE Kept
      BY <2>1 DEF Journal, Journalable
    <2>2. CASE Create
      BY <2>2 DEF Create
    <2>3. CASE Delete
      BY <2>3 DEF Delete, Replaceable, InLoop, Member
    <2>4. CASE Upload
      BY <2>4 DEF Upload, InLoop, Member
    <2>5. CASE BadUpload
      BY <2>5 DEF BadUpload, InLoop, Member
    <2>6. ASSUME NEW n \in Names, Cleanup(n) PROVE Kept
      BY <2>6 DEF Cleanup, Stray
    <2>7. CASE Undraft
      BY <2>7 DEF Undraft
    <2>8. CASE UNCHANGED <<github, receipt>>
      BY <2>8
    <2>9. CASE UNCHANGED vars
      BY <2>9 DEF vars
    <2> QED
      <3> HIDE DEF IInv, TypeOK, Names, Remnant, main, Kept
      <3> QED
      BY <1>1, <2>1, <2>2, <2>3, <2>4, <2>5, <2>6, <2>7, <2>8, <2>9
         DEF Next, JobStep, Faulty, Legs, Reconcile, Plan, Rerun, BuildLeg, RecoverLeg, RefuseLeg,
             LoseLeg, LegEnds, StartPublish, SkipLeg, Resume, Adopt, Refuse, CallFails,
             EndPublish, Finalize, Crash, Bind, Expire, main
  <1>2. IInv /\ [Next]_vars => [Kept]_vars
    BY <1>1
  <1> QED BY Invariance, <1>2, PTL DEF Spec, PublicImmutable
=============================================================================
