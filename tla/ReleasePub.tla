------------------------------ MODULE ReleasePub ------------------------------
(***************************************************************************)
(* The publication of one revision of one component version: build legs    *)
(* (run_leg.py), the journal of receipts (publish_legs.py, receipts.py,    *)
(* transactions.py), the reconciliation of the GitHub Release              *)
(* (releasepub.py) and the queueing of pending records                     *)
(* (finalize_builds.py), over any number of runs of build-runtimes.        *)
(*                                                                         *)
(* Each platform is a leg that contributes two members to the release: a   *)
(* corresponding-source tarball, whose bytes upstream fixes, and an        *)
(* archive, whose bytes differ from build to build.  Platforms may share   *)
(* the tarball.  The archive of a platform carries the platform's name.    *)
(*                                                                         *)
(* The workflow's concurrency group runs one operation at a time, but an   *)
(* earlier operation can be run again, with the artifacts its legs built.  *)
(* The calls to GitHub are separate steps: any of them may fail, or take   *)
(* effect and lose its answer, and the runner may die between two.         *)
(***************************************************************************)
EXTENDS Naturals

CONSTANTS Platforms, Sources, SourceOf,
          Builds,       \* what a build can produce
          NoBuild, NoLeg,
          DraftsListed, \* whether the read-only token of plan and legs is shown drafts
          MaxFaults     \* bound: failures, crashes and lost answers, in total

ASSUME MembersAssumption == /\ SourceOf \in [Platforms -> Sources]
                            /\ Platforms \cap Sources = {}
ASSUME BuildsAssumption  == /\ NoBuild \notin Builds /\ NoLeg \notin Platforms
                            /\ Builds \cap {"absent", "starter", "damaged", "upstream"} = {}
ASSUME ListAssumption    == DraftsListed \in BOOLEAN
ASSUME FaultsAssumption  == MaxFaults \in Nat

VARIABLES release,   \* the GitHub Release of the tag
          asset,     \* its assets, by name
          receipt,   \* main: the build each journalled receipt binds
          queued,    \* main: the build each pending record names
          manifest,  \* main: the build the component manifest names
          lost,      \* platforms whose receipt's workflow artifact has expired
          phase,     \* where the running job is
          op,        \* the latest operation and what its legs handed over
          past,      \* the operation before it
          todo,      \* legs still to be run, or to be published
          leg,       \* the leg whose release is being reconciled
          done,      \* legs verified in this publish job (metas)
          faults

github == <<release, asset>>
main   == <<receipt, queued, manifest>>
vars   == <<release, asset, receipt, queued, manifest, lost,
            phase, op, past, todo, leg, done, faults>>

Names      == Platforms \cup Sources
Members(p) == {SourceOf[p], p}
Remnant    == {"absent", "starter"}
Phases     == {"idle", "legs", "publish", "open", "source", "archive", "cleanup", "finalize"}

Operation == [legs    : SUBSET Platforms,                   \* platforms with work
              handoff : [Platforms -> Builds \cup {NoBuild}],
              refs    : SUBSET Platforms]                   \* archives its checkout references

NoOperation == [legs |-> {}, handoff |-> [p \in Platforms |-> NoBuild], refs |-> {}]

TypeOK ==
    /\ release \in {"none", "draft", "public"}
    /\ asset \in [Names -> Remnant \cup {"damaged", "upstream"} \cup Builds]
    /\ \A p \in Platforms : asset[p] # "upstream"
    /\ \A n \in Sources : asset[n] \notin Builds
    /\ receipt  \in [Platforms -> Builds \cup {NoBuild}]
    /\ queued   \in [Platforms -> Builds \cup {NoBuild}]
    /\ manifest \in [Platforms -> Builds \cup {NoBuild}]
    /\ lost \subseteq Platforms
    /\ phase \in Phases
    /\ op \in Operation /\ past \in Operation
    /\ todo \subseteq Platforms
    /\ leg \in Platforms \cup {NoLeg}
    /\ (leg = NoLeg) <=> (phase \notin {"open", "source", "archive", "cleanup"})
    /\ done \subseteq Platforms
    /\ faults \in 0..MaxFaults

Init ==
    /\ release = "none" /\ asset = [n \in Names |-> "absent"]
    /\ receipt  = [p \in Platforms |-> NoBuild]
    /\ queued   = [p \in Platforms |-> NoBuild]
    /\ manifest = [p \in Platforms |-> NoBuild]
    /\ lost = {}
    /\ phase = "idle" /\ op = NoOperation /\ past = NoOperation
    /\ todo = {} /\ leg = NoLeg /\ done = {}
    /\ faults = 0

Fault == faults < MaxFaults /\ faults' = faults + 1

-----------------------------------------------------------------------------
(***************************************************************************)
(* The operation and its legs.                                             *)
(***************************************************************************)

\* What plan and the legs are shown: their token can only read, and GitHub lists
\* drafts to those who may push.  publish holds the push token.
Listed(n) == IF release = "public" \/ DraftsListed THEN asset[n] ELSE "absent"

\* Legs with work: decide() leaves out what the manifest already has.
Uncovered == {p \in Platforms : manifest[p] = NoBuild}

\* A dispatch, possibly filtered to some platforms.  A published archive with
\* no receipt is a PlanError.  The checkout may be older than the state read.
Plan(S) ==
    /\ phase = "idle"
    /\ S # {} /\ S \subseteq Uncovered
    /\ \A p \in S : Listed(p) # "absent" => receipt[p] # NoBuild
    /\ \E refs \in SUBSET (Platforms \ Uncovered) :
           op' = [legs |-> S, handoff |-> [p \in Platforms |-> NoBuild], refs |-> refs]
    /\ past' = op
    /\ todo' = S
    /\ phase' = "legs"
    /\ UNCHANGED <<github, main, lost, leg, done, faults>>

\* "Re-run failed jobs" on an operation: its successful legs are not run again.
Rerun(o) ==
    /\ phase = "idle" /\ o.legs # {}
    /\ op' = o
    /\ past' = IF o = op THEN past ELSE op
    /\ todo' = {p \in o.legs : o.handoff[p] = NoBuild}
    /\ phase' = "legs"
    /\ UNCHANGED <<github, main, lost, leg, done, faults>>

\* The digest the receipt, or the leg's metadata, gives for a member.
Digest(builds, n) == IF n \in Sources THEN "upstream" ELSE builds[n]

\* recover(): the bytes found must be the recorded ones, and what is missing must
\* still be in the original workflow artifact.
Recoverable(p) ==
    /\ \A n \in Members(p) : Listed(n) \in Remnant \cup {Digest(receipt, n)}
    /\ (\E n \in Members(p) : Listed(n) \in Remnant) => p \notin lost

LegEnds(p, build) ==
    /\ phase = "legs" /\ p \in todo
    /\ op' = [op EXCEPT !.handoff[p] = build]
    /\ todo' = todo \ {p}
    /\ UNCHANGED <<github, main, lost, phase, past, leg, done>>

BuildLeg(p, build) == receipt[p] = NoBuild /\ LegEnds(p, build) /\ UNCHANGED faults
RecoverLeg(p) == /\ receipt[p] # NoBuild /\ Recoverable(p)
                 /\ LegEnds(p, receipt[p]) /\ UNCHANGED faults
RefuseLeg(p)  == /\ receipt[p] # NoBuild /\ ~Recoverable(p)
                 /\ LegEnds(p, NoBuild) /\ UNCHANGED faults
LoseLeg(p)    == LegEnds(p, NoBuild) /\ Fault

\* publish starts when every leg has ended, and takes the successful ones.
StartPublish ==
    /\ phase = "legs" /\ todo = {}
    /\ phase' = "publish"
    /\ todo' = {p \in op.legs : op.handoff[p] # NoBuild}
    /\ UNCHANGED <<github, main, lost, op, past, leg, done, faults>>

-----------------------------------------------------------------------------
(***************************************************************************)
(* The publish job.  A call that took effect either answers, and the job   *)
(* goes on, or it does not, and the error is collected: the job turns to   *)
(* the next leg.                                                           *)
(***************************************************************************)

NextLeg      == phase' = "publish" /\ leg' = NoLeg
Call(next)   == \/ phase' = next /\ UNCHANGED <<leg, faults>>
                \/ NextLeg /\ Fault

\* Slip: the bytes are not compared with an existing receipt.
Journalable_AnyBytes(p) == TRUE

\* The bytes handed over are those of the receipt, or there is none yet.
Journalable(p) == receipt[p] \in {NoBuild, op.handoff[p]}

\* The receipt is on main before anything of the leg is uploaded.
Journal(p) ==
    /\ phase = "publish" /\ p \in todo
    /\ Journalable(p)
    /\ receipt' = [receipt EXCEPT ![p] = op.handoff[p]]
    /\ todo' = todo \ {p}
    /\ \/ phase' = "open" /\ leg' = p /\ UNCHANGED faults
       \/ NextLeg /\ Fault
    /\ UNCHANGED <<github, queued, manifest, lost, op, past, done>>

\* Rejected bytes, or an artifact that cannot be downloaded or authenticated.
SkipLeg(p) ==
    /\ phase = "publish" /\ p \in todo
    /\ todo' = todo \ {p}
    /\ \/ ~Journalable(p) /\ UNCHANGED faults
       \/ Fault
    /\ UNCHANGED <<github, main, lost, phase, op, past, leg, done>>

Create ==
    /\ phase = "open" /\ release = "none"
    /\ release' = "draft"
    /\ Call("source")
    /\ UNCHANGED <<asset, main, lost, op, past, todo, done>>

Resume ==
    /\ phase = "open" /\ release # "none"
    /\ phase' = "source"
    /\ UNCHANGED <<github, main, lost, op, past, todo, leg, done, faults>>

\* The member the loop is at: source first, object code last.
Member     == IF phase = "source" THEN SourceOf[leg] ELSE leg
NextMember == IF phase = "source" THEN "archive" ELSE "cleanup"
InLoop     == phase \in {"source", "archive"}

Adopt ==
    /\ InLoop
    /\ asset[Member] = Digest(op.handoff, Member)
    /\ phase' = NextMember
    /\ UNCHANGED <<github, main, lost, op, past, todo, leg, done, faults>>

Mismatched == asset[Member] \notin {"absent", Digest(op.handoff, Member)}

\* Slip: only the draft phase lets anything be replaced.
Replaceable_DraftOnly(n) == n \notin op.refs /\ release = "draft"

\* Slip: whatever no manifest references is replaced.
Replaceable_Unreferenced(n) == n \notin op.refs

\* A remnant of a failed upload always, other bytes only in a draft, and
\* nothing that a manifest references.
Replaceable(n) == n \notin op.refs /\ (asset[n] = "starter" \/ release = "draft")

Delete ==
    /\ InLoop /\ Mismatched /\ Replaceable(Member)
    /\ asset' = [asset EXCEPT ![Member] = "absent"]
    /\ Call(phase)
    /\ UNCHANGED <<release, main, lost, op, past, todo, done>>

Refuse ==
    /\ InLoop /\ Mismatched /\ ~Replaceable(Member)
    /\ NextLeg
    /\ UNCHANGED <<github, main, lost, op, past, todo, done, faults>>

\* The upload's digest is verified before the loop goes on.
Upload ==
    /\ InLoop /\ asset[Member] = "absent"
    /\ asset' = [asset EXCEPT ![Member] = Digest(op.handoff, Member)]
    /\ Call(NextMember)
    /\ UNCHANGED <<release, main, lost, op, past, todo, done>>

\* Slip: the digest of an upload is not verified.
BadUpload_Unverified ==
    /\ InLoop /\ asset[Member] = "absent"
    /\ asset' = [asset EXCEPT ![Member] = "damaged"]
    /\ phase' = NextMember /\ Fault
    /\ UNCHANGED <<release, main, lost, op, past, todo, leg, done>>

BadUpload ==
    /\ InLoop /\ asset[Member] = "absent"
    /\ \E left \in {"starter", "damaged"} : asset' = [asset EXCEPT ![Member] = left]
    /\ NextLeg /\ Fault
    /\ UNCHANGED <<release, main, lost, op, past, todo, done>>

\* Remnants of other uploads.
Stray == {n \in Names \ (Members(leg) \cup op.refs) : asset[n] = "starter"}

Cleanup(n) ==
    /\ phase = "cleanup" /\ n \in Stray
    /\ asset' = [asset EXCEPT ![n] = "absent"]
    /\ Call("cleanup")
    /\ UNCHANGED <<release, main, lost, op, past, todo, done>>

\* The draft becomes public; a release that was public already stays so.
Undraft ==
    /\ phase = "cleanup" /\ Stray = {}
    /\ release' = "public"
    /\ NextLeg
    /\ \/ done' = done \cup {leg} /\ UNCHANGED faults
       \/ release = "draft" /\ UNCHANGED done /\ Fault
    /\ UNCHANGED <<asset, main, lost, op, past, todo>>

\* A call, or a lookup, that fails without effect.
CallFails ==
    /\ leg # NoLeg
    /\ NextLeg /\ Fault
    /\ UNCHANGED <<github, main, lost, op, past, todo, done>>

-----------------------------------------------------------------------------
(***************************************************************************)
(* Finalize, and the others.                                               *)
(***************************************************************************)

\* Slip: the leg at hand is not forgotten.
EndJob_KeepsLeg == phase' = "idle" /\ todo' = {} /\ leg' = leg /\ done' = {}

EndJob == phase' = "idle" /\ todo' = {} /\ leg' = NoLeg /\ done' = {}

\* Metas are handed over even when some legs failed; without any, the job ends.
EndPublish ==
    /\ phase = "publish" /\ todo = {}
    /\ IF done # {} THEN phase' = "finalize" /\ UNCHANGED <<todo, leg, done>> ELSE EndJob
    /\ UNCHANGED <<github, main, lost, op, past, faults>>

\* Slip: every leg that was handed over is queued, verified or not.
Finalize_EveryLeg ==
    /\ phase = "finalize"
    /\ queued' = [p \in Platforms |-> IF op.handoff[p] # NoBuild THEN op.handoff[p] ELSE queued[p]]
    /\ EndJob
    /\ UNCHANGED <<github, receipt, manifest, lost, op, past, faults>>

\* One pending record per meta, each equal to its receipt, in one push.
Finalize ==
    /\ phase = "finalize"
    /\ \A p \in done : receipt[p] = op.handoff[p]
    /\ queued' = [p \in Platforms |-> IF p \in done THEN op.handoff[p] ELSE queued[p]]
    /\ EndJob
    /\ UNCHANGED <<github, receipt, manifest, lost, op, past, faults>>

\* A cancelled run, a dead runner, exhausted push retries.
Crash ==
    /\ phase # "idle" /\ EndJob /\ Fault
    /\ UNCHANGED <<github, main, lost, op, past>>

\* The signing run folds the pending record into the manifest.
Bind(p) ==
    /\ queued[p] # NoBuild
    /\ manifest' = [manifest EXCEPT ![p] = queued[p]]
    /\ queued' = [queued EXCEPT ![p] = NoBuild]
    /\ UNCHANGED <<github, receipt, lost, phase, op, past, todo, leg, done, faults>>

\* GitHub keeps a workflow artifact for a limited time.
Expire(p) ==
    /\ receipt[p] # NoBuild
    /\ lost' = lost \cup {p}
    /\ UNCHANGED <<github, main, phase, op, past, todo, leg, done, faults>>

Legs == \E p \in Platforms : \/ \E build \in Builds : BuildLeg(p, build)
                             \/ RecoverLeg(p) \/ RefuseLeg(p)
Reconcile == \/ Create \/ Resume \/ Adopt \/ Delete \/ Refuse \/ Upload
             \/ \E n \in Names : Cleanup(n)
             \/ Undraft
JobStep == \/ Legs \/ StartPublish
           \/ \E p \in Platforms : Journal(p) \/ SkipLeg(p)
           \/ Reconcile \/ EndPublish \/ Finalize
Faulty == \/ \E p \in Platforms : LoseLeg(p)
          \/ BadUpload \/ CallFails \/ Crash

Next == \/ \E S \in SUBSET Platforms : Plan(S)
        \/ \E o \in {op, past} : Rerun(o)
        \/ JobStep
        \/ Faulty
        \/ \E p \in Platforms : Bind(p) \/ Expire(p)

\* A runner that started a job goes on with it, and the weekly cron's run gets
\* its turn: queue: max keeps it waiting behind others instead of dropping it.
Fairness == WF_vars(JobStep) /\ SF_vars(Plan(Uncovered))

Spec == Init /\ [][Next]_vars /\ Fairness

-----------------------------------------------------------------------------
(***************************************************************************)
(* Properties.                                                             *)
(***************************************************************************)

\* No public object code without its corresponding source, whatever call fails
\* and whichever leg comes first (releasepub.py:11-15).
SourceFirst ==
    release = "public" =>
        \A p \in Platforms : asset[p] \notin Remnant => asset[SourceOf[p]] = "upstream"

\* What a pending record or the manifest names is public under its tag, with
\* the journalled bytes and with its source: clients never meet a missing or
\* different download, however runs were retried (finalize_builds.py:77-91).
RecordsServed ==
    \A p \in Platforms : \A build \in {queued[p], manifest[p]} \ {NoBuild} :
        /\ release = "public"
        /\ asset[p] = build /\ receipt[p] = build
        /\ asset[SourceOf[p]] = "upstream"

\* Intact archives in the release are those of the receipts, although an older
\* operation may be run again with other bytes (publish_legs.py:254-257).
ReceiptsBind == \A p \in Platforms : asset[p] \in Builds => asset[p] = receipt[p]

\* Bytes that were public once are never replaced or withdrawn, and receipts
\* are never rewritten (releasepub.py:97-104, transactions.py:37).
PublicImmutable ==
    [][/\ release = "public" =>
              /\ release' = "public"
              /\ \A n \in Names : asset[n] \notin Remnant => asset'[n] = asset[n]
       /\ \A p \in Platforms : receipt[p] # NoBuild => receipt'[p] = receipt[p]]_vars

Accepted(p) == queued[p] # NoBuild \/ manifest[p] # NoBuild
Stuck(p)    == receipt[p] # NoBuild /\ ~Recoverable(p)

\* Runs converge: unless some platform's recorded bytes can no longer be
\* recovered, every platform is queued or bound in the end
\* (publish_legs.py:10-13, README.md:100-103).
Converges == (\E p \in Platforms : <>[]Stuck(p)) \/ <>(\A p \in Platforms : Accepted(p))

\* A draft is made public only when every archive and source it shows is
\* verified, or missing (releasepub.py:11-13).
UndraftedVerified ==
    [][release = "draft" /\ release' = "public" =>
           \A n \in Names : asset[n] \in Remnant \cup {Digest(receipt, n)}]_vars

=============================================================================
