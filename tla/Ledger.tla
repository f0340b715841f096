-------------------------------- MODULE Ledger --------------------------------
(***************************************************************************)
(* The ordering ledger of one line over time, with every writer of it.     *)
(*                                                                         *)
(* main is what the branch holds: the configuration, the ledger, and the   *)
(* two queues of files a run consumes (pending/ and revocations/).  The    *)
(* signing run works on a copy: it settles the line's lifecycle, applies   *)
(* the revocations, folds the pending records one file after another, and  *)
(* pushes.  Any error or crash on the way discards the copy, and the push  *)
(* is a compare-and-swap: a commit by anyone else since the fetch makes    *)
(* the copy stale, and a stale copy can only be discarded.                 *)
(*                                                                         *)
(* A push that was accepted but reported as failed makes the loop fetch    *)
(* and start again; that is Push followed by StartRun.                     *)
(***************************************************************************)
EXTENDS LedgerRules

CONSTANTS Droppable,        \* bound: platforms a config commit may drop
          MaxPending,       \* bound: records queued at once
          MaxRevocations    \* bound: revocation files queued at once

ASSUME BoundsAssumption == MaxPending \in Nat /\ MaxRevocations \in Nat

VARIABLES
    cfg,          \* config/tracked-versions.toml
    ledger,       \* state/asset-revisions.json
    pending,      \* pending/*.json
    revocations,  \* revocations/*.json
    run,          \* the signing run and its working copy
    planned,      \* items some plan has emitted: their legs may finish at any time
    (* history, not part of the system *)
    served,       \* every (slot, epoch, key, content) ever served
    readmitted    \* slots a committed readmit has touched

vars == <<cfg, ledger, pending, revocations, run, planned, served, readmitted>>

RevocationRecord == [op : {"delete", "readmit"}, slot : Slots, epoch : Epochs,
                     source : Sources, key : Keys, content : Contents, by : Contents]

Run == [phase  : {"idle", "revocations", "pending"},
        stale  : BOOLEAN,
        ledger : Ledger,
        revs   : SUBSET RevocationRecord,
        recs   : SUBSET PendingRecord,
        readmits : SUBSET Slots]       \* history of this run

Idle == [phase |-> "idle", stale |-> FALSE, ledger |-> Empty,
         revs |-> {}, recs |-> {}, readmits |-> {}]

Init == /\ cfg \in {c \in Config : ~c.retired /\ c.managed = Platforms
                                   /\ \A p \in Platforms, e \in Epochs : c.epoch[p] <= e}
        /\ ledger = Empty
        /\ pending = {} /\ revocations = {}
        /\ run = Idle
        /\ planned = Plannable(cfg, ledger)
        /\ served = {} /\ readmitted = {}

Outdated == run' = IF run.phase = "idle" THEN run ELSE [run EXCEPT !.stale = TRUE]

------------------------------------------------------------------------------
(* The other writers of main. *)

\* A reviewed config commit: retire or restore the line, move a platform to
\* another source, bump its epoch, drop or restore it.  Reviewers never lower
\* an epoch; nothing in the repository checks it.
Reconfigure(c) ==
    /\ c # cfg /\ Platforms \ Droppable \subseteq c.managed
    /\ \A p \in Platforms : c.epoch[p] >= cfg.epoch[p]
    /\ cfg' = c
    /\ planned' = planned \cup Plannable(c, ledger)
    /\ Outdated
    /\ UNCHANGED <<ledger, pending, revocations, served, readmitted>>

\* finalize_builds: a leg of some plan, however old, queues its record.
Finalize(r) ==
    /\ [slot |-> r.slot, epoch |-> r.epoch, source |-> r.source] \in planned
    /\ PlatformOf(r.slot) \in cfg.managed
    /\ \E gone \in SUBSET {q \in pending : MayShareFile(q, r)} :
           /\ \A q \in pending : MustShareFile(q, r) => q \in gone
           /\ pending' = (pending \ gone) \cup {r}
    /\ Cardinality(pending') <= MaxPending
    /\ Outdated
    /\ UNCHANGED <<cfg, ledger, revocations, planned, served, readmitted>>

\* A reviewed revocation file, written against the entry main holds now.
Revoke(v) ==
    /\ Expects(ledger, v)
    /\ v.op = "delete" => v.by = v.content       \* a delete carries no replacement
    /\ Cardinality(revocations) < MaxRevocations
    /\ v \notin revocations
    /\ revocations' = revocations \cup {v}
    /\ Outdated
    /\ UNCHANGED <<cfg, ledger, pending, planned, served, readmitted>>

\* A revocation file that can no longer apply is withdrawn by hand.
Withdraw(v) ==
    /\ v \in revocations
    /\ revocations' = revocations \ {v}
    /\ Outdated
    /\ UNCHANGED <<cfg, ledger, pending, planned, served, readmitted>>

------------------------------------------------------------------------------
(* The signing run. *)

StartRun ==
    /\ run.phase = "idle"
    /\ ~cfg.retired => ~ReactivationRefused(cfg, ledger)
    /\ run' = [phase |-> "revocations", stale |-> FALSE, ledger |-> Lifecycle(cfg, ledger),
               revs |-> revocations, recs |-> {}, readmits |-> {}]
    /\ UNCHANGED <<cfg, ledger, pending, revocations, planned, served, readmitted>>

ApplyRevocation(v) ==
    /\ run.phase = "revocations" /\ ~run.stale /\ v \in run.revs
    /\ \/ /\ v.op = "delete" /\ Expects(run.ledger, v)
          /\ run' = [run EXCEPT !.ledger = Delete(@, v), !.revs = @ \ {v}]
       \/ /\ v.op = "readmit" /\ CanReadmit(run.ledger, v)
          /\ run' = [run EXCEPT !.ledger = Readmit(@, v, v.by), !.revs = @ \ {v},
                                !.readmits = @ \cup {v.slot}]
    /\ UNCHANGED <<cfg, ledger, pending, revocations, planned, served, readmitted>>

ReadPending ==
    /\ run.phase = "revocations" /\ ~run.stale /\ run.revs = {}
    /\ run' = [run EXCEPT !.phase = "pending", !.recs = pending]
    /\ UNCHANGED <<cfg, ledger, pending, revocations, planned, served, readmitted>>

Apply(r) ==
    /\ run.phase = "pending" /\ ~run.stale /\ r \in run.recs
    /\ Applies(cfg, run.ledger, r)
    /\ run' = [run EXCEPT !.ledger = ApplyRecord(@, r), !.recs = @ \ {r}]
    /\ UNCHANGED <<cfg, ledger, pending, revocations, planned, served, readmitted>>

Discard(r) ==
    /\ run.phase = "pending" /\ ~run.stale /\ r \in run.recs
    /\ Discarded(cfg, run.ledger, r)
    /\ run' = [run EXCEPT !.recs = @ \ {r}]
    /\ UNCHANGED <<cfg, ledger, pending, revocations, planned, served, readmitted>>

\* Slip: the push overwrites what others committed since the fetch.
Push_Forced ==
    /\ run.phase = "pending" /\ run.recs = {}
    /\ LedgerParity(cfg, run.ledger)
    /\ ledger' = run.ledger
    /\ pending' = {} /\ revocations' = {}
    /\ run' = Idle
    /\ UNCHANGED <<cfg, planned, served, readmitted>>

Push ==
    /\ run.phase = "pending" /\ ~run.stale /\ run.recs = {}
    /\ LedgerParity(cfg, run.ledger)
    /\ ledger' = run.ledger
    /\ pending' = {} /\ revocations' = {}
    /\ run' = Idle
    /\ planned' = planned \cup Plannable(cfg, ledger')
    /\ served' = served \cup
         {[slot |-> s, epoch |-> ledger'[s].epoch, key |-> ledger'[s].key,
           content |-> ledger'[s].content] : s \in {t \in DOMAIN ledger' : Served(ledger'[t])}}
    /\ readmitted' = readmitted \cup run.readmits
    /\ UNCHANGED cfg

\* A refused record, a failed gate, a rejected push or a crash.
Abort ==
    /\ run.phase # "idle"
    /\ run' = Idle
    /\ UNCHANGED <<cfg, ledger, pending, revocations, planned, served, readmitted>>

Next == \/ \E c \in Config : Reconfigure(c)
        \/ \E r \in PendingRecord : Finalize(r) \/ Apply(r) \/ Discard(r)
        \/ \E v \in RevocationRecord : Revoke(v) \/ Withdraw(v) \/ ApplyRevocation(v)
        \/ StartRun \/ ReadPending \/ Push \/ Abort

Spec == Init /\ [][Next]_vars

------------------------------------------------------------------------------
TypeOK == /\ cfg \in Config /\ ledger \in Ledger
          /\ pending \subseteq PendingRecord /\ revocations \subseteq RevocationRecord
          /\ run \in Run /\ planned \subseteq PlannedItem
          /\ readmitted \subseteq Slots
          /\ served \subseteq [slot : Slots, epoch : Epochs, key : Keys, content : Contents]

(* The order of an entry: its epoch, then its key. *)
AtLeast(e, f) == f.epoch > e.epoch \/ (f.epoch = e.epoch /\ f.source = e.source /\ f.key >= e.key)

KeepsOrder == \A s \in DOMAIN ledger : s \in DOMAIN ledger' /\ AtLeast(ledger[s], ledger'[s])

(* No commit moves a slot backward: an entry is never forgotten, never     *)
(* returns to an older epoch, and within an epoch never to an older key or *)
(* another source, whatever legs finish late and in whatever order their   *)
(* files are read.                                                         *)
OrderNeverRegresses == [][KeepsOrder]_vars

TakesNewest ==
    pending' = {} =>
        \A r \in pending :
            LET p == PlatformOf(r.slot)
            IN  ~cfg.retired /\ p \in cfg.managed /\ r.epoch >= cfg.epoch[p] =>
                  /\ r.slot \in DOMAIN ledger'
                  /\ ledger'[r.slot].epoch = r.epoch /\ ledger'[r.slot].key >= r.key

(* No queued record is lost: when a commit consumes a record of the        *)
(* current epoch of an active line, the ledger then holds that record or a *)
(* newer one.  The files of one slot are read by name, which is not the    *)
(* order of their revisions.                                               *)
NewestWins == [][TakesNewest]_vars

(* What a (slot, epoch, key) was served as does not change, unless a       *)
(* reviewed readmit changed it: a rebuilt leg that finishes late with      *)
(* other bytes cannot replace published ones.                              *)
BytesBound ==
    \A t, u \in served :
        t.slot = u.slot /\ t.epoch = u.epoch /\ t.key = u.key /\ t.content # u.content
            => t.slot \in readmitted

KeepsRevoked ==
    \A s \in DOMAIN ledger :
        ledger[s].revoked /\ ~ledger'[s].revoked =>
            s \in run.readmits \/ ledger'[s].epoch > ledger[s].epoch

(* A revoked entry is restored by a readmit or replaced by a record of a   *)
(* later epoch; a newer key of the same epoch, a retirement or a           *)
(* reactivation does not undo the revocation.                              *)
RevocationSticks == [][KeepsRevoked]_vars

Settles ==
    ledger' # ledger =>
        IF cfg.retired THEN \A s \in DOMAIN ledger' : Served(ledger'[s]) => s \in run.readmits
                       ELSE Tombstones(ledger') = {}

(* A commit of the ledger leaves no tombstone on an active line, and       *)
(* nothing served on a retired one: no record slips past the retirement.   *)
(* The one exception is a readmit.  Revocations run after the lifecycle,   *)
(* and retirement leaves revoked entries alone, so readmitting an entry of *)
(* a retired line serves it until the next run tombstones it.              *)
LifecycleSettled == [][Settles]_vars

ReturnsBumped ==
    \A s \in Tombstones(ledger) :
        s \notin Tombstones(ledger') =>
            /\ cfg.epoch[PlatformOf(s)] > ledger[s].epoch
            /\ ledger'[s].key # ledger[s].key => ledger'[s].epoch > ledger[s].epoch

(* A tombstoned entry returns only after the epoch of its platform was     *)
(* bumped past it, and comes back as it was or as a record of a later      *)
(* epoch: a record of the tombstone's own epoch never replaces it.         *)
TombstoneFence == [][ReturnsBumped]_vars
==============================================================================
