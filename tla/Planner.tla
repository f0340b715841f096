-------------------------------- MODULE Planner --------------------------------
(***************************************************************************)
(* The revisions of one built version on one platform, over any number of  *)
(* runs of build-runtimes: what plan.py decides from the state of main and *)
(* of the public releases, what the leg, the journal, the upload and       *)
(* finalize then do with the decision, and what the signing run makes of   *)
(* the records they queue, by the rules of LedgerRules.                    *)
(*                                                                         *)
(* The jobs of a run use the configuration and the pins of the commit it   *)
(* was started from, but plan and publish read receipts, queue and ledger  *)
(* from main as it is then (current_state.py).  A release is a platform's  *)
(* archive, public or absent; ReleasePub opens up what happens in between. *)
(* The concurrency group runs one operation at a time; an earlier one may  *)
(* be run again, with the decision and the artifact it had.                *)
(***************************************************************************)
EXTENDS LedgerRules

CONSTANTS Target, Provider,   \* the slot, and what builds it
          Pins, InitialPins,  \* values of the input pins
          NoBuild, NoReceipt,
          MaxEdits            \* bound: edits and reruns by people, faults, expiries

ASSUME TargetAssumption == Target \in Slots /\ Provider \in Built
ASSUME NoneAssumption   == /\ NoBuild \notin Contents
                           /\ NoReceipt \notin [build : Contents, pins : Pins]
ASSUME PinsAssumption   == InitialPins \in Pins
ASSUME EditsAssumption  == MaxEdits \in Nat

VARIABLES epoch, retired, pins,  \* the configuration on main
          ledger, pending,       \* state/asset-revisions.json and pending/
          receipt,               \* build-receipts/, by epoch and revision
          archive,               \* public archives, by revision
          lost,                  \* receipts whose workflow artifact has expired
          phase, op, past,       \* the running job, its operation, the one before
          edits

config == <<epoch, retired, pins>>
main   == <<ledger, pending, receipt>>
vars   == <<epoch, retired, pins, ledger, pending, receipt, archive, lost,
            phase, op, past, edits>>

Receipts  == Epochs \X Keys
Operation == [epoch : Epochs, pins : Pins, force : BOOLEAN,   \* of its commit and dispatch
              mode : {"none", "build", "finalize-only"},      \* none: not planned, or no work
              revision : Keys \cup {0},
              saved : BOOLEAN,                                 \* build-operations/ has it
              handoff : Contents \cup {NoBuild}]               \* what its leg uploaded

ConfigOf(e, r) == [retired |-> r, managed |-> {PlatformOf(Target)},
                   epoch |-> [p \in Platforms |-> e], source |-> [p \in Platforms |-> Provider]]

Record(e, k, c) == [slot |-> Target, epoch |-> e, source |-> Provider, key |-> k, content |-> c]

Init ==
    /\ epoch \in Epochs /\ (\A e \in Epochs : epoch <= e)
    /\ pins = InitialPins /\ retired = FALSE
    /\ ledger = Empty /\ pending = {}
    /\ receipt = [x \in Receipts |-> NoReceipt]
    /\ archive = [k \in Keys |-> NoBuild]
    /\ lost = {}
    /\ phase = "idle"
    /\ op = [epoch |-> epoch, pins |-> pins, force |-> FALSE, mode |-> "none",
             revision |-> 0, saved |-> FALSE, handoff |-> NoBuild]
    /\ past = op
    /\ edits = 0

Edit == edits < MaxEdits /\ edits' = edits + 1

------------------------------------------------------------------------------
(***************************************************************************)
(* plan_builds.                                                            *)
(***************************************************************************)

HasEntry   == Target \in DOMAIN ledger
Manifested == HasEntry /\ Served(ledger[Target])

Saved == {x \in Receipts : receipt[x] # NoReceipt}

\* Slip: only what is public counts as used.
Known_PublicOnly == {k \in Keys : archive[k] # NoBuild}

\* Every revision that was ever given out, whatever its epoch.
Known == {k \in Keys : archive[k] # NoBuild}
             \cup {x[2] : x \in Saved}
             \cup {r.key : r \in pending}
             \cup {ledger[s].key : s \in DOMAIN ledger}

\* The bound on revisions: none is left to give out.
Spent == \E k \in Known : k + 1 \notin Keys

NextRevision(n, R) == n \in Keys /\ IF R = {} THEN n = 1 ELSE n - 1 \in R /\ \A r \in R : r < n
Latest(n, R)       == n \in R /\ \A r \in R : r <= n

\* Nothing new is built unless asked for: what is already published is finalized.
Candidate(n) == /\ ~Manifested
                /\ IF pending = {} THEN Latest(n, Known) ELSE Latest(n, {x[2] : x \in Saved})

SameInputs(e, n, p)  == receipt[<<e, n>>] # NoReceipt /\ receipt[<<e, n>>].pins = p
OtherInputs(e, n, p) == receipt[<<e, n>>] # NoReceipt /\ receipt[<<e, n>>].pins # p

\* The line is looked up in the run's own checkout.
Dispatch(force) ==
    /\ phase = "idle" /\ ~retired
    /\ op' = [epoch |-> epoch, pins |-> pins, force |-> force, mode |-> "none",
              revision |-> 0, saved |-> FALSE, handoff |-> NoBuild]
    /\ past' = op
    /\ phase' = "plan"
    /\ UNCHANGED <<config, main, archive, lost>>

Decided(mode, n) == /\ op' = [op EXCEPT !.mode = mode, !.revision = n]
                    /\ phase' = "leg"

PlanBuild ==
    /\ \/ op.force
       \/ ~Manifested /\ pending = {} /\ Known = {}
       \/ \E n \in Keys : Candidate(n) /\ OtherInputs(op.epoch, n, op.pins)
    /\ \E n \in Keys : NextRevision(n, Known) /\ Decided("build", n)

PlanFinalize ==
    /\ ~op.force
    /\ \E n \in Keys : /\ Candidate(n) /\ SameInputs(op.epoch, n, op.pins)
                       /\ Decided("finalize-only", n)

\* Covered, or the PlanError of a published archive without a receipt.
PlanEnds ==
    /\ \/ ~op.force /\ (Manifested \/ (pending # {} /\ Saved = {}))
       \/ ~op.force /\ \E n \in Keys : Candidate(n) /\ receipt[<<op.epoch, n>>] = NoReceipt
       \/ HasEntry /\ ~Manifested          \* tombstoned: not the plan's business
       \/ Spent
    /\ phase' = "idle" /\ UNCHANGED op

Plan == /\ phase = "plan"
        /\ \/ (HasEntry => Manifested) /\ (PlanBuild \/ PlanFinalize)
           \/ PlanEnds
        /\ UNCHANGED <<config, main, archive, lost, past, edits>>

\* A run of a retired configuration plans nothing for the slot.
Skipped == phase = "idle" /\ retired /\ UNCHANGED vars

\* "Re-run failed jobs": the decision and a successful leg's artifact are kept.
\* "Re-run all jobs": the leg runs again, and so does the plan unless the journal
\* holds the operation, which a leg of another slot may have written.
Rerun(o) ==
    /\ phase = "idle" /\ Edit
    /\ past' = IF o = op THEN past ELSE op
    /\ \/ /\ o.mode # "none" /\ op' = o
          /\ phase' = IF o.handoff = NoBuild THEN "leg" ELSE "publish"
       \/ /\ o.mode # "none" /\ op' = [o EXCEPT !.handoff = NoBuild]
          /\ phase' = "leg"
       \/ /\ ~o.saved
          /\ op' = [o EXCEPT !.mode = "none", !.revision = 0, !.handoff = NoBuild]
          /\ phase' = "plan"
    /\ UNCHANGED <<config, main, archive, lost>>

------------------------------------------------------------------------------
(***************************************************************************)
(* The leg, publish and finalize.                                          *)
(***************************************************************************)

Mine == receipt[<<op.epoch, op.revision>>]

Recoverable(x) == \/ archive[x[2]] = receipt[x].build
                  \/ archive[x[2]] = NoBuild /\ x \notin lost

LegEnds(c) == /\ op' = [op EXCEPT !.handoff = c]
              /\ phase' = "publish"

Leg ==
    /\ phase = "leg"
    /\ \/ /\ SameInputs(op.epoch, op.revision, op.pins)
          /\ Recoverable(<<op.epoch, op.revision>>)
          /\ LegEnds(Mine.build)
       \/ /\ Mine = NoReceipt /\ op.mode = "build"
          /\ \E c \in Contents : LegEnds(c)
       \/ /\ \/ Mine = NoReceipt /\ op.mode = "finalize-only"
             \/ OtherInputs(op.epoch, op.revision, op.pins)
             \/ Mine # NoReceipt /\ ~Recoverable(<<op.epoch, op.revision>>)
          /\ phase' = "idle" /\ UNCHANGED op
    /\ UNCHANGED <<config, main, archive, lost, past, edits>>

\* The receipt is on main before the upload; an existing one must say the same.
Journal ==
    /\ phase = "publish"
    /\ IF \/ Mine = NoReceipt /\ op.mode = "build"
          \/ Mine = [build |-> op.handoff, pins |-> op.pins]
       THEN /\ receipt' = [receipt EXCEPT ![<<op.epoch, op.revision>>] =
                               [build |-> op.handoff, pins |-> op.pins]]
            /\ op' = [op EXCEPT !.saved = TRUE]
            /\ phase' = "upload"
       ELSE phase' = "idle" /\ UNCHANGED <<receipt, op>>
    /\ UNCHANGED <<config, ledger, pending, archive, lost, past, edits>>

\* Slip: an archive of the same name is replaced.
Uploadable_Always == TRUE

Uploadable == archive[op.revision] \in {NoBuild, op.handoff}

\* reconcile_release never replaces public bytes.
Upload ==
    /\ phase = "upload"
    /\ IF Uploadable
       THEN archive' = [archive EXCEPT ![op.revision] = op.handoff] /\ phase' = "finalize"
       ELSE phase' = "idle" /\ UNCHANGED archive
    /\ UNCHANGED <<config, main, lost, op, past, edits>>

Finalize ==
    /\ phase = "finalize"
    /\ LET r == Record(op.epoch, op.revision, op.handoff)
       IN  pending' = {q \in pending : PendingFile(q) # PendingFile(r)} \cup {r}
    /\ phase' = "idle"
    /\ UNCHANGED <<config, ledger, receipt, archive, lost, op, past, edits>>

\* A job fails or is lost between any two steps.
Crash == /\ phase # "idle" /\ Edit /\ phase' = "idle"
         /\ UNCHANGED <<config, main, archive, lost, op, past>>

------------------------------------------------------------------------------
(***************************************************************************)
(* The signing run, as one step: Ledger and SignTransaction show why it    *)
(* may be taken as one.  The records of one slot have different revisions, *)
(* so the fold leaves the newest of those that apply, in whatever order    *)
(* their files are read; a refused record lets nothing land.               *)
(***************************************************************************)

Now     == ConfigOf(epoch, retired)
Settled == Lifecycle(Now, ledger)
Taken   == {r \in pending : Applies(Now, Settled, r)}

Blocked == ~retired /\ ReactivationRefused(Now, ledger)

Sign ==
    /\ ~Blocked
    /\ \A r \in pending : r \in Taken \/ Discarded(Now, Settled, r)
    /\ pending # {} \/ Settled # ledger
    /\ IF Taken = {} THEN ledger' = Settled
       ELSE \E r \in Taken : /\ \A q \in Taken : q.key <= r.key
                             /\ ledger' = ApplyRecord(Settled, r)
    /\ pending' = {}
    /\ UNCHANGED <<config, receipt, archive, lost, phase, op, past, edits>>

------------------------------------------------------------------------------
(* People, and time. *)

\* Epochs only go up: the reviewers' rule, checked nowhere.
Configure(e, p, r) ==
    /\ Edit
    /\ <<e, p, r>> # config /\ e >= epoch
    /\ epoch' = e /\ pins' = p /\ retired' = r
    /\ UNCHANGED <<main, archive, lost, phase, op, past>>

Expire(x) == /\ Edit /\ x \in Saved \ lost
             /\ lost' = lost \cup {x}
             /\ UNCHANGED <<config, main, archive, phase, op, past>>

\* What a plan of the present main cannot get any further with: a published
\* revision without a receipt of this epoch, bytes that cannot be recovered, or
\* an entry of an older epoch, which no plan rebuilds by itself.
NeedsForce ==
    \/ \E n \in Keys : /\ Candidate(n)
                       /\ \/ receipt[<<epoch, n>>] = NoReceipt
                          \/ SameInputs(epoch, n, pins) /\ ~Recoverable(<<epoch, n>>)
    \/ Manifested /\ pending = {} /\ ledger[Target].epoch # epoch

Scheduled == Dispatch(FALSE) /\ UNCHANGED edits
Repair    == Dispatch(TRUE) /\ NeedsForce /\ UNCHANGED edits
Repack    == Dispatch(TRUE) /\ Edit

Step == Plan \/ Leg \/ Journal \/ Upload \/ Finalize

Next == \/ Scheduled \/ Repair \/ Repack \/ Skipped
        \/ Rerun(op) \/ Rerun(past)
        \/ Step \/ Crash \/ Sign
        \/ \E e \in Epochs, p \in Pins, r \in BOOLEAN : Configure(e, p, r)
        \/ \E x \in Receipts : Expire(x)

\* The schedule of build-runtimes queues behind whatever is run again; a red
\* run that asks for a forced revision gets one, sooner or later.
Spec == Init /\ [][Next]_vars /\ WF_vars(Step) /\ WF_vars(Sign)
             /\ SF_vars(Scheduled) /\ SF_vars(Repair)

------------------------------------------------------------------------------
TypeOK ==
    /\ epoch \in Epochs /\ pins \in Pins /\ retired \in BOOLEAN
    /\ ledger \in Ledger /\ DOMAIN ledger \subseteq {Target}
    /\ pending \subseteq {r \in PendingRecord : r.slot = Target /\ r.source = Provider}
    /\ receipt \in [Receipts -> [build : Contents, pins : Pins] \cup {NoReceipt}]
    /\ archive \in [Keys -> Contents \cup {NoBuild}]
    /\ lost \subseteq Receipts
    /\ phase \in {"idle", "plan", "leg", "publish", "upload", "finalize"}
    /\ op \in Operation /\ past \in Operation
    /\ phase \in {"publish", "upload", "finalize"} => op.handoff # NoBuild
    /\ edits \in 0..MaxEdits

(* Whatever is queued or in the ledger names public bytes: the archive of  *)
(* its revision holds exactly the content the record promises, although    *)
(* one archive name serves every epoch and an operation run again may      *)
(* bring other bytes for it.                                               *)
RecordsPublic ==
    /\ \A r \in pending : archive[r.key] = r.content
    /\ \A s \in DOMAIN ledger : archive[ledger[s].key] = ledger[s].content

KeepsRevision == \A s \in DOMAIN ledger :
    s \in DOMAIN ledger' /\ ledger'[s].epoch >= ledger[s].epoch /\ ledger'[s].key >= ledger[s].key

(* The revision a slot serves never goes down, not even across an epoch    *)
(* bump, where the ledger itself compares no keys: the planner gives every *)
(* operation of the new epoch a revision above the ones of the old epoch.  *)
RevisionNeverRegresses == [][KeepsRevision]_ledger

UpToDate == Manifested /\ ledger[Target].epoch = epoch

(* Whatever was interrupted, run again, rebuilt, expired or reconfigured,  *)
(* scheduled runs and the forced ones that a red run asks for end with an  *)
(* accepted revision of the configured epoch, unless the line is retired   *)
(* or waits for the bump that reactivates it.                              *)
Converges == <>[](UpToDate \/ retired \/ Blocked \/ Spent)
==============================================================================
