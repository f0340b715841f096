----------------------------- MODULE LedgerProofs -----------------------------
(***************************************************************************)
(* Proofs about the ordering ledger, for every set of slots, sources,      *)
(* epochs, keys and contents and whatever is queued.                       *)
(*                                                                         *)
(* The argument: while the signing run is live (started, and nobody else   *)
(* has committed since its fetch) its working copy is related to the       *)
(* committed ledger by LiveRun below.  Each property of a commit is the    *)
(* corresponding part of LiveRun, read when Push makes the copy the        *)
(* ledger.  A run that is not live never pushes.                           *)
(***************************************************************************)
EXTENDS Ledger, TLAPS

LEMMA LedgerIsFunction ==
    ASSUME NEW l
    PROVE  l \in Ledger <=> /\ DOMAIN l \subseteq Slots
                            /\ l = [s \in DOMAIN l |-> l[s]]
                            /\ \A s \in DOMAIN l : l[s] \in LedgerRecord
<1>1. ASSUME l \in Ledger PROVE /\ DOMAIN l \subseteq Slots
                                /\ l = [s \in DOMAIN l |-> l[s]]
                                /\ \A s \in DOMAIN l : l[s] \in LedgerRecord
    <2>1. PICK S \in SUBSET Slots : l \in [S -> LedgerRecord]
        BY <1>1 DEF Ledger
    <2>2. QED BY <2>1
<1>2. ASSUME DOMAIN l \subseteq Slots, l = [s \in DOMAIN l |-> l[s]],
             \A s \in DOMAIN l : l[s] \in LedgerRecord
      PROVE  l \in Ledger
    <2>1. l \in [DOMAIN l -> LedgerRecord]
        BY <1>2
    <2>2. QED BY <1>2, <2>1 DEF Ledger
<1>3. QED BY <1>1, <1>2

(* The orders are naturals. *)
LEMMA OrdersAreNat ==
    /\ \A e \in Epochs : e \in Nat
    /\ \A k \in Keys : k \in Nat
    /\ \A e \in LedgerRecord : e.epoch \in Nat /\ e.key \in Nat
<1>1. QED BY OrdersAssumption DEF LedgerRecord

(* Putting an entry changes that entry alone. *)
LEMMA PutFacts ==
    ASSUME NEW l \in Ledger, NEW s \in Slots, NEW e \in LedgerRecord
    PROVE  /\ Put(l, s, e) \in Ledger
           /\ DOMAIN Put(l, s, e) = DOMAIN l \cup {s}
           /\ Put(l, s, e)[s] = e
           /\ \A t \in DOMAIN l \ {s} : Put(l, s, e)[t] = l[t]
<1>1. DOMAIN l \subseteq Slots /\ \A t \in DOMAIN l : l[t] \in LedgerRecord
    BY LedgerIsFunction
<1>2. /\ DOMAIN Put(l, s, e) = DOMAIN l \cup {s}
      /\ Put(l, s, e)[s] = e
      /\ \A t \in DOMAIN l \ {s} : Put(l, s, e)[t] = l[t]
    BY DEF Put
<1>3. \A t \in DOMAIN Put(l, s, e) : Put(l, s, e)[t] \in LedgerRecord
    BY <1>1 DEF Put
<1>4. Put(l, s, e) = [t \in DOMAIN Put(l, s, e) |-> Put(l, s, e)[t]]
    BY DEF Put
<1>5. Put(l, s, e) \in Ledger
    BY <1>1, <1>2, <1>3, <1>4, LedgerIsFunction
<1>6. QED BY <1>2, <1>5

(* What settling the lifecycle does to each entry. *)
LEMMA LifecycleFacts ==
    ASSUME NEW c \in Config, NEW l \in Ledger,
           ~c.retired => ~ReactivationRefused(c, l),
           NEW w, w = Lifecycle(c, l)
    PROVE  /\ w \in Ledger /\ DOMAIN w = DOMAIN l
           /\ \A s \in DOMAIN l :
                /\ w[s].source = l[s].source /\ w[s].key = l[s].key
                /\ w[s].content = l[s].content /\ w[s].revoked = l[s].revoked
                /\ w[s].epoch >= l[s].epoch
           /\ c.retired => \A s \in DOMAIN l : ~Served(w[s]) /\ w[s].epoch = l[s].epoch
           /\ c.retired => Tombstones(l) \subseteq Tombstones(w)
           /\ ~c.retired => /\ Tombstones(w) = {}
                            /\ \A s \in Tombstones(l) : c.epoch[PlatformOf(s)] > l[s].epoch
<1>1. DOMAIN l \subseteq Slots /\ \A s \in DOMAIN l : l[s] \in LedgerRecord
    BY LedgerIsFunction
<1>2. \A s \in DOMAIN l : l[s].epoch \in Nat /\ l[s].status \in {"active", "tombstone"}
    BY <1>1, OrdersAreNat DEF LedgerRecord
<1>3. CASE c.retired
    <2>1. w = [s \in DOMAIN l |-> IF Served(l[s]) THEN [l[s] EXCEPT !.status = "tombstone"]
                                                  ELSE l[s]]
        BY <1>3 DEF Lifecycle, Retire
    <2>2. DOMAIN w = DOMAIN l /\ w = [s \in DOMAIN w |-> w[s]]
        BY <2>1
    <2>3. \A s \in DOMAIN l :
              /\ w[s] \in LedgerRecord
              /\ w[s].source = l[s].source /\ w[s].key = l[s].key
              /\ w[s].content = l[s].content /\ w[s].revoked = l[s].revoked
              /\ w[s].epoch = l[s].epoch
              /\ ~Served(w[s])
              /\ l[s].status = "tombstone" => w[s].status = "tombstone"
        BY <1>1, <2>1 DEF LedgerRecord, Served
    <2>4. w \in Ledger
        BY <1>1, <2>2, <2>3, LedgerIsFunction
    <2>5. QED BY <1>2, <1>3, <2>2, <2>3, <2>4 DEF Tombstones
<1>4. CASE ~c.retired
    <2>1. w = [s \in DOMAIN l |-> IF s \in Tombstones(l) THEN Restamp(c, PlatformOf(s), l[s])
                                                         ELSE l[s]]
        BY <1>4 DEF Lifecycle, Reactivate
    <2>2. DOMAIN w = DOMAIN l /\ w = [s \in DOMAIN w |-> w[s]]
        BY <2>1
    <2>3. \A s \in Tombstones(l) : /\ s \in DOMAIN l
                                   /\ PlatformOf(s) \in Platforms
                                   /\ c.epoch[PlatformOf(s)] > l[s].epoch
        BY <1>1, <1>4 DEF ReactivationRefused, Bumped, Tombstones, Slots, PlatformOf
    <2>4. \A p \in Platforms : c.epoch[p] \in Epochs
        BY DEF Config
    <2>5. ASSUME NEW s \in Tombstones(l)
          PROVE  /\ w[s] \in LedgerRecord
                 /\ w[s].source = l[s].source /\ w[s].key = l[s].key
                 /\ w[s].content = l[s].content /\ w[s].revoked = l[s].revoked
                 /\ w[s].epoch = l[s].epoch \/ w[s].epoch = c.epoch[PlatformOf(s)]
                 /\ w[s].status = "active"
        <3>1. l[s] \in LedgerRecord /\ w[s] = Restamp(c, PlatformOf(s), l[s])
            BY <1>1, <2>1, <2>3
        <3>2. QED BY <2>3, <2>4, <3>1 DEF Restamp, LedgerRecord
    <2>6. \A s \in DOMAIN l \ Tombstones(l) : w[s] = l[s] /\ w[s].status = "active"
        BY <1>2, <2>1 DEF Tombstones
    <2>7. \A s \in DOMAIN l : w[s] \in LedgerRecord /\ w[s].status = "active"
        BY <1>1, <2>5, <2>6
    <2>8. w \in Ledger
        BY <1>1, <2>2, <2>7, LedgerIsFunction
    <2>9. \A s \in DOMAIN l : w[s].epoch >= l[s].epoch
        <3>1. ASSUME NEW s \in Tombstones(l) PROVE w[s].epoch >= l[s].epoch
            BY <1>2, <2>3, <2>4, <2>5, OrdersAreNat
        <3>2. QED BY <1>2, <2>6, <3>1
    <2>10. Tombstones(w) = {}
        BY <2>2, <2>7 DEF Tombstones
    <2>11. QED BY <1>4, <2>2, <2>3, <2>5, <2>6, <2>8, <2>9, <2>10
<1>5. QED BY <1>3, <1>4

(* A revocation changes the entry it names, and not its order. *)
LEMMA RevocationFacts ==
    ASSUME NEW l \in Ledger, NEW v \in RevocationRecord, Expects(l, v),
           NEW w, w = Delete(l, v) \/ w = Readmit(l, v, v.by)
    PROVE  /\ w \in Ledger /\ DOMAIN w = DOMAIN l /\ v.slot \in DOMAIN l
           /\ \A s \in DOMAIN l \ {v.slot} : w[s] = l[s]
           /\ \A s \in DOMAIN l :
                /\ w[s].epoch = l[s].epoch /\ w[s].source = l[s].source
                /\ w[s].key = l[s].key /\ w[s].status = l[s].status
           /\ w = Delete(l, v) => w[v.slot].revoked /\ w[v.slot].content = l[v.slot].content
<1>1. v.slot \in DOMAIN l /\ v.slot \in Slots /\ l[v.slot] \in LedgerRecord /\ v.by \in Contents
    BY LedgerIsFunction DEF Expects, RevocationRecord
<1> DEFINE e == l[v.slot]
           d == [e EXCEPT !.revoked = TRUE]
           m == [e EXCEPT !.revoked = FALSE, !.content = v.by]
<1>2. /\ d \in LedgerRecord /\ m \in LedgerRecord
      /\ d.epoch = e.epoch /\ d.source = e.source /\ d.key = e.key /\ d.status = e.status
      /\ m.epoch = e.epoch /\ m.source = e.source /\ m.key = e.key /\ m.status = e.status
      /\ d.revoked /\ d.content = e.content
    BY <1>1 DEF LedgerRecord
<1>3. Delete(l, v) = Put(l, v.slot, d) /\ Readmit(l, v, v.by) = Put(l, v.slot, m)
    BY DEF Delete, Readmit
<1> HIDE DEF d, m
<1>4. CASE w = Delete(l, v)
    <2>1. /\ w \in Ledger /\ DOMAIN w = DOMAIN l \cup {v.slot} /\ w[v.slot] = d
          /\ \A t \in DOMAIN l \ {v.slot} : w[t] = l[t]
        BY <1>1, <1>2, <1>3, <1>4, PutFacts
    <2>2. QED BY <1>1, <1>2, <2>1
<1>5. CASE w = Readmit(l, v, v.by) /\ w # Delete(l, v)
    <2>1. /\ w \in Ledger /\ DOMAIN w = DOMAIN l \cup {v.slot} /\ w[v.slot] = m
          /\ \A t \in DOMAIN l \ {v.slot} : w[t] = l[t]
        BY <1>1, <1>2, <1>3, <1>5, PutFacts
    <2>2. QED BY <1>1, <1>2, <1>5, <2>1
<1>6. QED BY <1>4, <1>5

(* An applied record replaces the entry of its slot with a later one. *)
LEMMA ApplyFacts ==
    ASSUME NEW c \in Config, NEW l \in Ledger, NEW r \in PendingRecord, Applies(c, l, r),
           NEW w, w = ApplyRecord(l, r)
    PROVE  /\ w \in Ledger /\ DOMAIN w = DOMAIN l \cup {r.slot}
           /\ \A s \in DOMAIN l \ {r.slot} : w[s] = l[s]
           /\ w[r.slot].epoch = r.epoch /\ w[r.slot].key = r.key
           /\ w[r.slot].source = r.source /\ w[r.slot].content = r.content
           /\ w[r.slot].status = "active"
           /\ ~c.retired /\ r.epoch = c.epoch[PlatformOf(r.slot)]
           /\ r.slot \in DOMAIN l =>
                \/ l[r.slot].epoch < r.epoch
                \/ /\ l[r.slot].epoch = r.epoch /\ l[r.slot].source = r.source
                   /\ l[r.slot].key < r.key /\ ~l[r.slot].revoked
<1> DEFINE e == [epoch |-> r.epoch, source |-> r.source, key |-> r.key,
                 content |-> r.content, status |-> "active", revoked |-> FALSE]
<1>1. e \in LedgerRecord /\ r.slot \in Slots
    BY DEF PendingRecord, LedgerRecord
<1>2. w = Put(l, r.slot, e)
    BY DEF ApplyRecord
<1>a. /\ e.epoch = r.epoch /\ e.key = r.key /\ e.source = r.source
      /\ e.content = r.content /\ e.status = "active"
    OBVIOUS
<1> HIDE DEF e
<1>3. /\ w \in Ledger /\ DOMAIN w = DOMAIN l \cup {r.slot} /\ w[r.slot] = e
      /\ \A t \in DOMAIN l \ {r.slot} : w[t] = l[t]
    <2>1. /\ Put(l, r.slot, e) \in Ledger
          /\ DOMAIN Put(l, r.slot, e) = DOMAIN l \cup {r.slot}
          /\ Put(l, r.slot, e)[r.slot] = e
          /\ \A t \in DOMAIN l \ {r.slot} : Put(l, r.slot, e)[t] = l[t]
        BY <1>1, PutFacts
    <2>2. QED BY <1>2, <2>1
<1>4. ~c.retired /\ r.epoch = c.epoch[PlatformOf(r.slot)] /\ (Supersedes(l, r) \/ Newer(l, r))
    BY DEF Applies, LineActive, Binds
<1>5. r.slot \in DOMAIN l =>
          \/ l[r.slot].epoch < r.epoch
          \/ /\ l[r.slot].epoch = r.epoch /\ l[r.slot].source = r.source
             /\ l[r.slot].key < r.key /\ ~l[r.slot].revoked
    BY <1>4, <1>1, LedgerIsFunction, OrdersAreNat DEF Supersedes, Newer, Comparable, PendingRecord
<1>6. QED BY <1>a, <1>3, <1>4, <1>5

------------------------------------------------------------------------------
(***************************************************************************)
(* The inductive invariant.  Live names the runs that may still push;      *)
(* w is their working copy.                                                *)
(***************************************************************************)
Live == run.phase # "idle" /\ ~run.stale

\* Every committed entry is in the copy, at its own order or a later one.
Ahead == \A s \in DOMAIN ledger :
            s \in DOMAIN run.ledger /\ AtLeast(ledger[s], run.ledger[s])

Sticks == \A s \in DOMAIN ledger :
             ledger[s].revoked /\ ~run.ledger[s].revoked =>
                s \in run.readmits \/ run.ledger[s].epoch > ledger[s].epoch

Settled == IF cfg.retired
           THEN \A s \in DOMAIN run.ledger : Served(run.ledger[s]) => s \in run.readmits
           ELSE Tombstones(run.ledger) = {}

Fenced == \A s \in Tombstones(ledger) :
             s \notin Tombstones(run.ledger) =>
                /\ cfg.epoch[PlatformOf(s)] > ledger[s].epoch
                /\ run.ledger[s].key # ledger[s].key => run.ledger[s].epoch > ledger[s].epoch

\* Every record read and folded so far is in the copy, or was passed over
\* for a reason that still holds.
Folded == run.phase = "pending" =>
             \A r \in pending \ run.recs :
                LET p == PlatformOf(r.slot)
                IN  ~cfg.retired /\ p \in cfg.managed /\ r.epoch >= cfg.epoch[p] =>
                      /\ r.slot \in DOMAIN run.ledger
                      /\ run.ledger[r.slot].epoch = r.epoch
                      /\ run.ledger[r.slot].key >= r.key

\* What was served is in l, or something later is, or it was readmitted.
Accounts(l, readmits) ==
    \A t \in served :
        /\ t.slot \in DOMAIN l
        /\ \/ l[t.slot].epoch > t.epoch
           \/ l[t.slot].epoch = t.epoch /\ l[t.slot].key > t.key
           \/ /\ l[t.slot].epoch = t.epoch /\ l[t.slot].key = t.key
              /\ l[t.slot].content = t.content \/ t.slot \in readmits

LiveRun == Live => /\ Ahead /\ Sticks /\ Settled /\ Fenced /\ Folded
                   /\ Accounts(run.ledger, readmitted \cup run.readmits)

IInv == TypeOK /\ LiveRun /\ Accounts(ledger, readmitted) /\ BytesBound

(* The fields of the run. *)
LEMMA RunTypes ==
    ASSUME TypeOK
    PROVE  /\ cfg \in Config /\ ledger \in Ledger /\ run.ledger \in Ledger
           /\ run.phase \in {"idle", "revocations", "pending"} /\ run.stale \in BOOLEAN
           /\ run.revs \in SUBSET RevocationRecord /\ run.recs \in SUBSET PendingRecord
           /\ run.readmits \in SUBSET Slots
           /\ \A s \in DOMAIN ledger : s \in Slots /\ ledger[s] \in LedgerRecord
           /\ \A s \in DOMAIN run.ledger : s \in Slots /\ run.ledger[s] \in LedgerRecord
<1>1. run \in Run /\ cfg \in Config /\ ledger \in Ledger
    BY DEF TypeOK
<1>2. /\ run.ledger \in Ledger
      /\ run.phase \in {"idle", "revocations", "pending"} /\ run.stale \in BOOLEAN
      /\ run.revs \in SUBSET RevocationRecord /\ run.recs \in SUBSET PendingRecord
      /\ run.readmits \in SUBSET Slots
    BY <1>1 DEF Run
<1>3. QED BY <1>1, <1>2, LedgerIsFunction

LEMMA IdleType == Idle \in Run
<1>1. Empty \in Ledger
    BY LedgerIsFunction DEF Empty
<1>2. QED BY <1>1 DEF Idle, Run

LEMMA PlannableType == ASSUME NEW c, NEW l PROVE Plannable(c, l) \subseteq PlannedItem
<1>1. QED BY DEF Plannable

LEMMA InitIInv == Init => IInv
<1> SUFFICES ASSUME Init PROVE IInv
    OBVIOUS
<1>1. TypeOK
    <2>1. ledger \in Ledger
        BY LedgerIsFunction DEF Init, Empty
    <2>2. cfg \in Config /\ run \in Run /\ planned \subseteq PlannedItem
        BY IdleType, PlannableType DEF Init
    <2>3. QED BY <2>1, <2>2 DEF Init, TypeOK
<1>2. ~Live
    BY DEF Init, Idle, Live
<1>3. Accounts(ledger, readmitted) /\ BytesBound
    BY DEF Init, Accounts, BytesBound
<1>4. QED BY <1>1, <1>2, <1>3 DEF IInv, LiveRun

(* A commit by another writer leaves no live run, unless none was started. *)
LEMMA OutdatedNotLive == ASSUME TypeOK, Outdated PROVE ~Live' /\ run' \in Run
<1>1. run \in Run
    BY DEF TypeOK
<1>2. CASE run.phase = "idle"
    BY <1>1, <1>2 DEF Outdated, Live
<1>3. CASE run.phase # "idle"
    <2>1. run' = [run EXCEPT !.stale = TRUE]
        BY <1>3 DEF Outdated
    <2>2. run'.stale = TRUE /\ run' \in Run
        BY <1>1, <2>1 DEF Run
    <2>3. QED BY <2>2 DEF Live
<1>4. QED BY <1>2, <1>3

(* The other writers preserve the invariant: they leave the ledger and     *)
(* what was served alone, and end the life of the run.                     *)
LEMMA OthersIInv ==
    ASSUME IInv, Outdated, UNCHANGED <<ledger, served, readmitted>>,
           cfg' \in Config, pending' \subseteq PendingRecord,
           revocations' \subseteq RevocationRecord, planned' \subseteq PlannedItem
    PROVE  IInv'
<1>1. ~Live' /\ run' \in Run
    BY OutdatedNotLive DEF IInv
<1>2. TypeOK'
    BY <1>1 DEF IInv, TypeOK
<1>3. Accounts(ledger, readmitted)' /\ BytesBound'
    BY DEF IInv, Accounts, BytesBound
<1>4. QED BY <1>1, <1>2, <1>3 DEF IInv, LiveRun

(* A run that only reads what is left of its queues, or fails. *)
LEMMA SameCopyIInv ==
    ASSUME IInv, UNCHANGED <<cfg, ledger, pending, revocations, planned, served, readmitted>>,
           run' \in Run,
           Live' => /\ Live /\ run'.ledger = run.ledger /\ run'.readmits = run.readmits
                    /\ Folded'
    PROVE  IInv'
<1>1. TypeOK'
    BY DEF IInv, TypeOK
<1>2. Accounts(ledger, readmitted)' /\ BytesBound'
    BY DEF IInv, Accounts, BytesBound
<1>3. ASSUME Live'
      PROVE  /\ Ahead' /\ Sticks' /\ Settled' /\ Fenced' /\ Folded'
             /\ Accounts(run.ledger, readmitted \cup run.readmits)'
    <2>1. /\ Ahead /\ Sticks /\ Settled /\ Fenced
          /\ Accounts(run.ledger, readmitted \cup run.readmits)
        BY <1>3 DEF IInv, LiveRun
    <2>2. Ahead' /\ Sticks'
        BY <1>3, <2>1 DEF Ahead, Sticks
    <2>3. Settled' /\ Fenced'
        BY <1>3, <2>1 DEF Settled, Fenced, Tombstones
    <2>4. Accounts(run.ledger, readmitted \cup run.readmits)'
        BY <1>3, <2>1 DEF Accounts
    <2>5. QED BY <1>3, <2>2, <2>3, <2>4
<1>4. QED BY <1>1, <1>2, <1>3 DEF IInv, LiveRun

(* The run starts on what main holds, with the lifecycle settled. *)
LEMMA StartRunIInv == ASSUME IInv, StartRun PROVE IInv'
<1> DEFINE w == Lifecycle(cfg, ledger)
<1>1. TypeOK /\ Accounts(ledger, readmitted) /\ BytesBound
    BY DEF IInv
<1>2. /\ run' = [phase |-> "revocations", stale |-> FALSE, ledger |-> w,
                 revs |-> revocations, recs |-> {}, readmits |-> {}]
      /\ UNCHANGED <<cfg, ledger, pending, revocations, planned, served, readmitted>>
      /\ ~cfg.retired => ~ReactivationRefused(cfg, ledger)
    BY DEF StartRun
<1>3. /\ w \in Ledger /\ DOMAIN w = DOMAIN ledger
      /\ \A s \in DOMAIN ledger :
           /\ w[s].source = ledger[s].source /\ w[s].key = ledger[s].key
           /\ w[s].content = ledger[s].content /\ w[s].revoked = ledger[s].revoked
           /\ w[s].epoch >= ledger[s].epoch
      /\ cfg.retired => \A s \in DOMAIN ledger : ~Served(w[s]) /\ w[s].epoch = ledger[s].epoch
      /\ cfg.retired => Tombstones(ledger) \subseteq Tombstones(w)
      /\ ~cfg.retired => /\ Tombstones(w) = {}
                         /\ \A s \in Tombstones(ledger) : cfg.epoch[PlatformOf(s)] > ledger[s].epoch
    BY <1>1, <1>2, RunTypes, LifecycleFacts
<1> HIDE DEF w
<1>4. run'.ledger = w /\ run'.readmits = {} /\ run'.phase = "revocations" /\ run' \in Run
    BY <1>1, <1>2, <1>3 DEF Run, TypeOK
<1>5. \A s \in DOMAIN ledger : /\ ledger[s].epoch \in Nat /\ ledger[s].key \in Nat
                               /\ w[s].epoch \in Nat /\ w[s].key \in Nat
    BY <1>1, <1>3, RunTypes, LedgerIsFunction, OrdersAreNat
<1>6. TypeOK'
    BY <1>1, <1>2, <1>4 DEF TypeOK
<1>7. Ahead'
    BY <1>2, <1>3, <1>4, <1>5 DEF Ahead, AtLeast
<1>8. Sticks'
    BY <1>2, <1>3, <1>4 DEF Sticks
<1>9. Settled'
    BY <1>2, <1>3, <1>4 DEF Settled
<1>10. Fenced'
    BY <1>2, <1>3, <1>4 DEF Fenced, Tombstones
<1>11. Folded'
    BY <1>4 DEF Folded
<1>12. Accounts(w, readmitted)
    <2>1. ASSUME NEW t \in served
          PROVE  /\ t.slot \in DOMAIN w
                 /\ \/ w[t.slot].epoch > t.epoch
                    \/ w[t.slot].epoch = t.epoch /\ w[t.slot].key > t.key
                    \/ /\ w[t.slot].epoch = t.epoch /\ w[t.slot].key = t.key
                       /\ w[t.slot].content = t.content \/ t.slot \in readmitted
        <3>1. /\ t.slot \in DOMAIN ledger
              /\ \/ ledger[t.slot].epoch > t.epoch
                 \/ ledger[t.slot].epoch = t.epoch /\ ledger[t.slot].key > t.key
                 \/ /\ ledger[t.slot].epoch = t.epoch /\ ledger[t.slot].key = t.key
                    /\ ledger[t.slot].content = t.content \/ t.slot \in readmitted
            BY <1>1 DEF Accounts
        <3>2. t.epoch \in Nat
            BY <1>1, OrdersAreNat DEF TypeOK
        <3>3. w[t.slot].epoch = ledger[t.slot].epoch \/ w[t.slot].epoch > ledger[t.slot].epoch
            BY <1>3, <1>5, <3>1
        <3>4. QED BY <1>3, <1>5, <3>1, <3>2, <3>3
    <2>2. QED BY <2>1 DEF Accounts
<1>13. Accounts(run.ledger, readmitted \cup run.readmits)'
    BY <1>2, <1>4, <1>12 DEF Accounts
<1>14. Accounts(ledger, readmitted)' /\ BytesBound'
    BY <1>1, <1>2 DEF Accounts, BytesBound
<1>15. QED BY <1>6, <1>7, <1>8, <1>9, <1>10, <1>11, <1>13, <1>14 DEF IInv, LiveRun

(* A revocation touches one entry of the copy and not its order; only a    *)
(* readmit can serve it or change its bytes.                               *)
LEMMA ApplyRevocationIInv ==
    ASSUME IInv, NEW v \in RevocationRecord, ApplyRevocation(v)
    PROVE  IInv'
<1> DEFINE l == run.ledger
           w == run'.ledger
<1>1. /\ TypeOK /\ Accounts(ledger, readmitted) /\ BytesBound
      /\ run.phase = "revocations" /\ ~run.stale
      /\ UNCHANGED <<cfg, ledger, pending, revocations, planned, served, readmitted>>
    BY DEF IInv, ApplyRevocation
<1>2. /\ Ahead /\ Sticks /\ Settled /\ Fenced
      /\ Accounts(l, readmitted \cup run.readmits)
    BY <1>1 DEF IInv, LiveRun, Live
<1>3. /\ cfg \in Config /\ run \in Run /\ l \in Ledger
      /\ \A s \in DOMAIN l : s \in Slots /\ l[s] \in LedgerRecord
    BY <1>1, RunTypes DEF TypeOK
<1>4. /\ Expects(l, v)
      /\ \/ w = Delete(l, v) /\ run'.readmits = run.readmits
         \/ w = Readmit(l, v, v.by) /\ run'.readmits = run.readmits \cup {v.slot}
      /\ run'.phase = "revocations"
      /\ run' = [phase |-> run.phase, stale |-> run.stale, ledger |-> w, revs |-> run.revs \ {v},
                 recs |-> run.recs, readmits |-> run'.readmits]
    BY <1>1, <1>3 DEF ApplyRevocation, CanReadmit, Run
<1>5. /\ w \in Ledger /\ DOMAIN w = DOMAIN l /\ v.slot \in DOMAIN l
      /\ \A s \in DOMAIN l \ {v.slot} : w[s] = l[s]
      /\ \A s \in DOMAIN l :
           /\ w[s].epoch = l[s].epoch /\ w[s].source = l[s].source
           /\ w[s].key = l[s].key /\ w[s].status = l[s].status
      /\ w = Delete(l, v) => w[v.slot].revoked /\ w[v.slot].content = l[v.slot].content
    BY <1>3, <1>4, RevocationFacts
<1> HIDE DEF w
<1>6. v.slot \in Slots
    BY DEF RevocationRecord
<1>7. TypeOK'
    <2>1. run' \in Run
        BY <1>3, <1>4, <1>5, <1>6 DEF Run
    <2>2. QED BY <1>1, <2>1 DEF TypeOK
<1>8. Ahead'
    BY <1>1, <1>2, <1>5 DEF Ahead, AtLeast, w
<1>9. \A s \in DOMAIN l : /\ w[s].revoked = l[s].revoked \/ w[s].revoked \/ s \in run'.readmits
                          /\ w[s].content = l[s].content \/ s \in run'.readmits
                          /\ Served(w[s]) => Served(l[s]) \/ s \in run'.readmits
    BY <1>4, <1>5 DEF Served
<1>10. run.readmits \subseteq run'.readmits
    BY <1>4
<1>11. Sticks'
    BY <1>1, <1>2, <1>5, <1>9, <1>10 DEF Sticks, Ahead, w
<1>12. Settled'
    <2>1. Tombstones(w) = Tombstones(l)
        BY <1>5 DEF Tombstones
    <2>2. QED BY <1>1, <1>2, <1>5, <1>9, <1>10, <2>1 DEF Settled, w
<1>13. Fenced'
    <2>1. Tombstones(w) = Tombstones(l)
        BY <1>5 DEF Tombstones
    <2>2. \A s \in Tombstones(ledger) : s \in DOMAIN l
        BY <1>2 DEF Ahead, Tombstones
    <2>3. QED BY <1>1, <1>2, <1>5, <2>1, <2>2 DEF Fenced, w
<1>14. Folded'
    BY <1>4 DEF Folded
<1>15. Accounts(run.ledger, readmitted \cup run.readmits)'
    BY <1>1, <1>2, <1>5, <1>9, <1>10 DEF Accounts, w
<1>16. Accounts(ledger, readmitted)' /\ BytesBound'
    BY <1>1 DEF Accounts, BytesBound
<1>17. QED BY <1>7, <1>8, <1>11, <1>12, <1>13, <1>14, <1>15, <1>16 DEF IInv, LiveRun

LEMMA ReadPendingIInv == ASSUME IInv, ReadPending PROVE IInv'
<1>1. run \in Run /\ pending \subseteq PendingRecord
    BY DEF IInv, TypeOK
<1>2. /\ run.phase = "revocations" /\ ~run.stale
      /\ run' = [run EXCEPT !.phase = "pending", !.recs = pending]
      /\ UNCHANGED <<cfg, ledger, pending, revocations, planned, served, readmitted>>
    BY DEF ReadPending
<1>3. /\ run' \in Run /\ run'.ledger = run.ledger /\ run'.readmits = run.readmits
      /\ run'.recs = pending
    BY <1>1, <1>2 DEF Run
<1>4. Live /\ Folded'
    BY <1>2, <1>3 DEF Live, Folded
<1>5. QED BY <1>2, <1>3, <1>4, SameCopyIInv

(* A record passed over is covered by the entry, or by the config. *)
LEMMA DiscardIInv ==
    ASSUME IInv, NEW r \in PendingRecord, Discard(r)
    PROVE  IInv'
<1>1. /\ TypeOK /\ run.phase = "pending" /\ ~run.stale /\ r \in run.recs
      /\ Discarded(cfg, run.ledger, r)
      /\ run' = [run EXCEPT !.recs = @ \ {r}]
      /\ UNCHANGED <<cfg, ledger, pending, revocations, planned, served, readmitted>>
    BY DEF IInv, Discard
<1>2. run \in Run /\ Live /\ Folded
    BY <1>1 DEF IInv, TypeOK, LiveRun, Live
<1>3. /\ run' \in Run /\ run'.ledger = run.ledger /\ run'.readmits = run.readmits
      /\ run'.recs = run.recs \ {r} /\ run'.phase = "pending"
    BY <1>1, <1>2 DEF Run
<1>4. LET p == PlatformOf(r.slot)
      IN  ~cfg.retired /\ p \in cfg.managed /\ r.epoch >= cfg.epoch[p] =>
            /\ r.slot \in DOMAIN run.ledger
            /\ run.ledger[r.slot].epoch = r.epoch
            /\ run.ledger[r.slot].key >= r.key
    <2> DEFINE p == PlatformOf(r.slot)
    <2>1. SUFFICES ASSUME ~cfg.retired, p \in cfg.managed, r.epoch >= cfg.epoch[p]
                   PROVE  /\ r.slot \in DOMAIN run.ledger
                          /\ run.ledger[r.slot].epoch = r.epoch
                          /\ run.ledger[r.slot].key >= r.key
        OBVIOUS
    <2>2. r.epoch \in Nat /\ cfg.epoch[p] \in Nat /\ r.key \in Nat
        BY <1>1, OrdersAreNat DEF TypeOK, Config, PendingRecord, Slots, PlatformOf
    <2>3. ~(r.epoch < cfg.epoch[p])
        BY <2>1, <2>2
    <2>4. Stale(run.ledger, r)
        BY <1>1, <2>1, <2>3 DEF Discarded, LineActive, PreMigration
    <2>5. r.slot \in DOMAIN run.ledger => run.ledger[r.slot].key \in Nat
        BY <1>1, RunTypes, OrdersAreNat
    <2>6. QED BY <2>2, <2>4, <2>5 DEF Stale, Comparable
<1>5. Folded'
    BY <1>1, <1>2, <1>3, <1>4 DEF Folded
<1>6. QED BY <1>1, <1>2, <1>3, <1>5, SameCopyIInv

LEMMA ApplyIInv ==
    ASSUME IInv, NEW r \in PendingRecord, Apply(r)
    PROVE  IInv'
<1> DEFINE l == run.ledger
           w == run'.ledger
           k == r.slot
<1>1. /\ TypeOK /\ Accounts(ledger, readmitted) /\ BytesBound
      /\ run.phase = "pending" /\ ~run.stale /\ r \in run.recs
      /\ Applies(cfg, l, r)
      /\ run' = [run EXCEPT !.ledger = ApplyRecord(@, r), !.recs = @ \ {r}]
      /\ UNCHANGED <<cfg, ledger, pending, revocations, planned, served, readmitted>>
    BY DEF IInv, Apply
<1>2. /\ Ahead /\ Sticks /\ Settled /\ Fenced /\ Folded
      /\ Accounts(l, readmitted \cup run.readmits)
    BY <1>1 DEF IInv, LiveRun, Live
<1>3. /\ cfg \in Config /\ run \in Run /\ l \in Ledger
      /\ \A s \in DOMAIN l : s \in Slots /\ l[s] \in LedgerRecord
      /\ \A s \in DOMAIN ledger : s \in Slots /\ ledger[s] \in LedgerRecord
    BY <1>1, RunTypes DEF TypeOK
<1>4. /\ w = ApplyRecord(l, r) /\ run'.readmits = run.readmits
      /\ run'.recs = run.recs \ {r} /\ run'.phase = "pending"
      /\ run' = [phase |-> run.phase, stale |-> run.stale, ledger |-> w, revs |-> run.revs,
                 recs |-> run.recs \ {r}, readmits |-> run.readmits]
    BY <1>1, <1>3 DEF Run
<1>5. /\ w \in Ledger /\ DOMAIN w = DOMAIN l \cup {k}
      /\ \A s \in DOMAIN l \ {k} : w[s] = l[s]
      /\ w[k].epoch = r.epoch /\ w[k].key = r.key
      /\ w[k].source = r.source /\ w[k].content = r.content
      /\ w[k].status = "active"
      /\ ~cfg.retired /\ r.epoch = cfg.epoch[PlatformOf(k)]
      /\ k \in DOMAIN l =>
           \/ l[k].epoch < r.epoch
           \/ l[k].epoch = r.epoch /\ l[k].source = r.source /\ l[k].key < r.key /\ ~l[k].revoked
    <2>1. cfg \in Config /\ l \in Ledger /\ Applies(cfg, l, r) /\ w = ApplyRecord(l, r)
        BY <1>1, <1>3, <1>4
    <2> HIDE DEF l, w
    <2>2. QED BY <2>1, ApplyFacts
<1> HIDE DEF w
<1>6. /\ r.epoch \in Nat /\ r.key \in Nat
      /\ \A s \in DOMAIN l : l[s].epoch \in Nat /\ l[s].key \in Nat
      /\ \A s \in DOMAIN ledger : ledger[s].epoch \in Nat /\ ledger[s].key \in Nat
      /\ \A q \in pending : q.epoch \in Nat /\ q.key \in Nat
      /\ \A t \in served : t.epoch \in Nat /\ t.key \in Nat
    BY <1>1, <1>3, OrdersAreNat DEF PendingRecord, TypeOK
<1>7. TypeOK'
    <2>1. run' \in Run
        BY <1>3, <1>4, <1>5 DEF Run
    <2>2. QED BY <1>1, <2>1 DEF TypeOK
<1>8. Ahead'
    <2>1. ASSUME NEW s \in DOMAIN ledger
          PROVE  s \in DOMAIN w /\ AtLeast(ledger[s], w[s])
        <3>1. s \in DOMAIN l /\ AtLeast(ledger[s], l[s])
            BY <1>2 DEF Ahead
        <3>2. CASE s # k
            BY <1>5, <3>1, <3>2
        <3>3. CASE s = k
            BY <1>5, <1>6, <3>1, <3>3 DEF AtLeast
        <3>4. QED BY <3>2, <3>3
    <2>2. QED BY <1>1, <2>1 DEF Ahead, w
<1>9. Sticks'
    <2>1. ASSUME NEW s \in DOMAIN ledger, ledger[s].revoked, ~w[s].revoked
          PROVE  s \in run.readmits \/ w[s].epoch > ledger[s].epoch
        <3>1. /\ s \in DOMAIN l /\ AtLeast(ledger[s], l[s])
              /\ ~l[s].revoked => s \in run.readmits \/ l[s].epoch > ledger[s].epoch
            BY <1>2, <2>1 DEF Ahead, Sticks
        <3>2. CASE s # k
            BY <1>5, <2>1, <3>1, <3>2
        <3>3. CASE s = k
            BY <1>5, <1>6, <3>1, <3>3 DEF AtLeast
        <3>4. QED BY <3>2, <3>3
    <2>2. QED BY <1>1, <1>4, <2>1 DEF Sticks, w
<1>10. Tombstones(w) = {} /\ Tombstones(l) = {}
    <2>1. Tombstones(l) = {}
        BY <1>2, <1>5 DEF Settled
    <2>2. QED BY <1>5, <2>1 DEF Tombstones
<1>11. Settled'
    BY <1>1, <1>5, <1>10 DEF Settled, w
<1>12. Fenced'
    <2>1. ASSUME NEW s \in Tombstones(ledger)
          PROVE  /\ cfg.epoch[PlatformOf(s)] > ledger[s].epoch
                 /\ w[s].key # ledger[s].key => w[s].epoch > ledger[s].epoch
        <3>1. /\ cfg.epoch[PlatformOf(s)] > ledger[s].epoch
              /\ l[s].key # ledger[s].key => l[s].epoch > ledger[s].epoch
              /\ s \in DOMAIN l
            BY <1>2, <1>10 DEF Fenced, Ahead, Tombstones
        <3>2. CASE s # k
            BY <1>5, <3>1, <3>2
        <3>3. CASE s = k
            BY <1>5, <3>1, <3>3
        <3>4. QED BY <3>2, <3>3
    <2>2. QED BY <1>1, <2>1 DEF Fenced, w
<1>13. Folded'
    <2>1. ASSUME NEW q \in pending \ run'.recs, ~cfg.retired, PlatformOf(q.slot) \in cfg.managed,
                 q.epoch >= cfg.epoch[PlatformOf(q.slot)]
          PROVE  q.slot \in DOMAIN w /\ w[q.slot].epoch = q.epoch /\ w[q.slot].key >= q.key
        <3>1. CASE q = r
            BY <1>5, <1>6, <3>1
        <3>2. CASE q # r
            <4>1. q \in pending \ run.recs
                BY <1>4, <2>1, <3>2
            <4>2. /\ q.slot \in DOMAIN l /\ l[q.slot].epoch = q.epoch /\ l[q.slot].key >= q.key
                BY <1>1, <1>2, <2>1, <4>1 DEF Folded
            <4>3. CASE q.slot # k
                BY <1>5, <4>2, <4>3
            <4>4. CASE q.slot = k
                BY <1>5, <1>6, <2>1, <4>2, <4>4
            <4>5. QED BY <4>3, <4>4
        <3>3. QED BY <3>1, <3>2
    <2>2. QED BY <1>1, <2>1 DEF Folded, w
<1>14. Accounts(run.ledger, readmitted \cup run.readmits)'
    <2>1. ASSUME NEW t \in served
          PROVE  /\ t.slot \in DOMAIN w
                 /\ \/ w[t.slot].epoch > t.epoch
                    \/ w[t.slot].epoch = t.epoch /\ w[t.slot].key > t.key
                    \/ /\ w[t.slot].epoch = t.epoch /\ w[t.slot].key = t.key
                       /\ w[t.slot].content = t.content \/ t.slot \in readmitted \cup run.readmits
        <3>1. /\ t.slot \in DOMAIN l
              /\ \/ l[t.slot].epoch > t.epoch
                 \/ l[t.slot].epoch = t.epoch /\ l[t.slot].key > t.key
                 \/ /\ l[t.slot].epoch = t.epoch /\ l[t.slot].key = t.key
                    /\ l[t.slot].content = t.content \/ t.slot \in readmitted \cup run.readmits
            BY <1>2 DEF Accounts
        <3>2. CASE t.slot # k
            BY <1>5, <3>1, <3>2
        <3>3. CASE t.slot = k
            BY <1>5, <1>6, <3>1, <3>3
        <3>4. QED BY <3>2, <3>3
    <2>2. QED BY <1>1, <1>4, <2>1 DEF Accounts, w
<1>15. Accounts(ledger, readmitted)' /\ BytesBound'
    BY <1>1 DEF Accounts, BytesBound
<1>16. QED BY <1>7, <1>8, <1>9, <1>11, <1>12, <1>13, <1>14, <1>15 DEF IInv, LiveRun

(* What Push makes true of the committed ledger is what LiveRun says. *)
LEMMA PushFacts ==
    ASSUME IInv, Push
    PROVE  /\ ledger' = run.ledger /\ Ahead /\ Sticks /\ Settled /\ Fenced /\ Folded
           /\ Accounts(run.ledger, readmitted \cup run.readmits)
           /\ run.phase = "pending" /\ run.recs = {} /\ run' = Idle /\ cfg' = cfg
<1>1. QED BY DEF IInv, LiveRun, Live, Push

LEMMA PushIInv == ASSUME IInv, Push PROVE IInv'
<1> DEFINE l == run.ledger
           now == {[slot |-> s, epoch |-> l[s].epoch, key |-> l[s].key, content |-> l[s].content] :
                     s \in {t \in DOMAIN l : Served(l[t])}}
<1>1. /\ TypeOK /\ BytesBound
      /\ Accounts(l, readmitted \cup run.readmits)
      /\ ledger' = l /\ run' = Idle /\ cfg' = cfg
      /\ pending' = {} /\ revocations' = {}
      /\ planned' = planned \cup Plannable(cfg, ledger')
      /\ served' = served \cup now
      /\ readmitted' = readmitted \cup run.readmits
    BY PushFacts DEF IInv, Push
<1>2. /\ l \in Ledger /\ run.readmits \in SUBSET Slots
      /\ \A s \in DOMAIN l : s \in Slots /\ l[s] \in LedgerRecord
    BY <1>1, RunTypes
<1>3. \A t \in now : /\ t.slot \in DOMAIN l /\ t.epoch = l[t.slot].epoch
                     /\ t.key = l[t.slot].key /\ t.content = l[t.slot].content
    OBVIOUS
<1>4. TypeOK'
    <2>1. now \subseteq [slot : Slots, epoch : Epochs, key : Keys, content : Contents]
        BY <1>2 DEF LedgerRecord
    <2> HIDE DEF now
    <2>2. /\ run' \in Run /\ cfg' \in Config /\ ledger' \in Ledger /\ planned' \subseteq PlannedItem
        BY <1>1, <1>2, IdleType, PlannableType DEF TypeOK
    <2>3. QED BY <1>1, <1>2, <2>1, <2>2 DEF TypeOK
<1> HIDE DEF now
<1>5. Accounts(ledger, readmitted)'
    BY <1>1, <1>3 DEF Accounts
<1>6. BytesBound'
    <2>1. SUFFICES ASSUME NEW t \in served \cup now, NEW u \in served \cup now,
                          t.slot = u.slot, t.epoch = u.epoch, t.key = u.key,
                          t.content # u.content
                   PROVE  t.slot \in readmitted \cup run.readmits
        BY <1>1 DEF BytesBound
    <2>2. \A q \in served : q.epoch \in Nat /\ q.key \in Nat
        BY <1>1, OrdersAreNat DEF TypeOK
    <2>3. ASSUME NEW q \in served, NEW n \in now,
                 q.slot = n.slot, q.epoch = n.epoch, q.key = n.key, q.content # n.content
          PROVE  q.slot \in readmitted \cup run.readmits
        BY <1>1, <1>3, <2>2, <2>3 DEF Accounts
    <2>4. CASE t \in served /\ u \in served
        BY <1>1, <2>1, <2>4 DEF BytesBound
    <2>5. CASE t \in now /\ u \in now
        BY <1>3, <2>1, <2>5
    <2>6. CASE t \in served /\ u \in now
        BY <2>1, <2>3, <2>6
    <2>7. CASE t \in now /\ u \in served
        BY <2>1, <2>3, <2>7
    <2>8. QED BY <2>4, <2>5, <2>6, <2>7
<1>7. ~Live'
    BY <1>1 DEF Live, Idle
<1>8. QED BY <1>4, <1>5, <1>6, <1>7 DEF IInv, LiveRun

LEMMA NextIInv == IInv /\ [Next]_vars => IInv'
<1> SUFFICES ASSUME IInv, [Next]_vars PROVE IInv'
    OBVIOUS
<1>1. TypeOK
    BY DEF IInv
<1>2. ASSUME NEW c \in Config, Reconfigure(c) PROVE IInv'
    BY <1>1, <1>2, OthersIInv, PlannableType DEF Reconfigure, TypeOK
<1>3. ASSUME NEW r \in PendingRecord, Finalize(r) PROVE IInv'
    BY <1>1, <1>3, OthersIInv DEF Finalize, TypeOK
<1>4. ASSUME NEW v \in RevocationRecord, Revoke(v) \/ Withdraw(v) PROVE IInv'
    BY <1>1, <1>4, OthersIInv DEF Revoke, Withdraw, TypeOK
<1>5. CASE Abort
    <2>1. run' \in Run /\ ~Live'
        BY <1>5, IdleType DEF Abort, Live, Idle
    <2>2. QED BY <1>5, <2>1, SameCopyIInv DEF Abort
<1>6. CASE UNCHANGED vars
    <2>1. run' = run /\ UNCHANGED <<cfg, ledger, pending, revocations, planned, served, readmitted>>
        BY <1>6 DEF vars
    <2>2. run' \in Run
        BY <1>1, <2>1 DEF TypeOK
    <2>3. Live' => Live
        BY <2>1 DEF Live
    <2>4. Live => Folded'
        BY <2>1 DEF IInv, LiveRun, Folded
    <2>5. QED BY <2>1, <2>2, <2>3, <2>4, SameCopyIInv
<1>7. QED BY <1>2, <1>3, <1>4, <1>5, <1>6, StartRunIInv, ApplyRevocationIInv, ReadPendingIInv,
             ApplyIInv, DiscardIInv, PushIInv DEF Next

THEOREM Invariance == Spec => []IInv
<1>1. QED BY InitIInv, NextIInv, PTL DEF Spec

(* Every step but Push leaves the committed ledger alone. *)
LEMMA OnlyPushCommits ==
    ASSUME [Next]_vars, ~Push
    PROVE  ledger' = ledger /\ (pending' = {} => pending = {})
<1>1. ASSUME NEW r \in PendingRecord, Finalize(r) PROVE ledger' = ledger /\ pending' # {}
    BY <1>1 DEF Finalize
<1>2. QED BY <1>1 DEF Next, vars, Reconfigure, Apply, Discard, Revoke, Withdraw,
                      ApplyRevocation, StartRun, ReadPending, Abort

(* Everything in the model stays in its domain. *)
THEOREM TypeCorrect == Spec => []TypeOK
<1>1. IInv => TypeOK
    BY DEF IInv
<1>2. QED BY <1>1, Invariance, PTL

(* No commit moves a slot to an older epoch or key, or forgets it. *)
THEOREM OrderHolds == Spec => OrderNeverRegresses
<1>1. ASSUME IInv, [Next]_vars PROVE [KeepsOrder]_vars
    <2>1. CASE Push
        BY <1>1, <2>1, PushFacts DEF Ahead, KeepsOrder
    <2>2. CASE ~Push
        <3>1. ledger' = ledger
            BY <1>1, <2>2, OnlyPushCommits
        <3>2. \A s \in DOMAIN ledger : ledger[s].epoch \in Nat /\ ledger[s].key \in Nat
            BY <1>1, RunTypes, OrdersAreNat DEF IInv
        <3>3. QED BY <3>1, <3>2 DEF KeepsOrder, AtLeast
    <2>3. QED BY <2>1, <2>2
<1>2. QED BY <1>1, Invariance, PTL DEF Spec, OrderNeverRegresses

(* A consumed record is in the ledger, or something newer is, whatever the *)
(* order the files were read in.                                           *)
THEOREM NothingNewerIsLost == Spec => NewestWins
<1>1. ASSUME IInv, [Next]_vars PROVE [TakesNewest]_vars
    <2>1. CASE Push
        BY <1>1, <2>1, PushFacts DEF Folded, TakesNewest
    <2>2. CASE ~Push
        BY <1>1, <2>2, OnlyPushCommits DEF TakesNewest
    <2>3. QED BY <2>1, <2>2
<1>2. QED BY <1>1, Invariance, PTL DEF Spec, NewestWins

(* The bytes of a published (slot, epoch, key) change only by a readmit. *)
THEOREM BytesHold == Spec => []BytesBound
<1>1. IInv => BytesBound
    BY DEF IInv
<1>2. QED BY <1>1, Invariance, PTL

(* A revocation is undone by a readmit or a later epoch, by nothing else. *)
THEOREM RevocationHolds == Spec => RevocationSticks
<1>1. ASSUME IInv, [Next]_vars PROVE [KeepsRevoked]_vars
    <2>1. CASE Push
        BY <1>1, <2>1, PushFacts DEF Sticks, KeepsRevoked
    <2>2. CASE ~Push
        BY <1>1, <2>2, OnlyPushCommits DEF KeepsRevoked
    <2>3. QED BY <2>1, <2>2
<1>2. QED BY <1>1, Invariance, PTL DEF Spec, RevocationSticks

(* A commit settles the line's lifecycle, readmits apart. *)
THEOREM LifecycleHolds == Spec => LifecycleSettled
<1>1. ASSUME IInv, [Next]_vars PROVE [Settles]_vars
    <2>1. CASE Push
        BY <1>1, <2>1, PushFacts DEF Settled, Settles
    <2>2. CASE ~Push
        BY <1>1, <2>2, OnlyPushCommits DEF Settles
    <2>3. QED BY <2>1, <2>2
<1>2. QED BY <1>1, Invariance, PTL DEF Spec, LifecycleSettled

(* No record of a tombstone's own epoch replaces it. *)
THEOREM FenceHolds == Spec => TombstoneFence
<1>1. ASSUME IInv, [Next]_vars PROVE [ReturnsBumped]_vars
    <2>1. CASE Push
        BY <1>1, <2>1, PushFacts DEF Fenced, ReturnsBumped
    <2>2. CASE ~Push
        BY <1>1, <2>2, OnlyPushCommits DEF ReturnsBumped
    <2>3. QED BY <2>1, <2>2
<1>2. QED BY <1>1, Invariance, PTL DEF Spec, TombstoneFence
==============================================================================
