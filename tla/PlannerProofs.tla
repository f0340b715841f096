----------------------------- MODULE PlannerProofs -----------------------------
(***************************************************************************)
(* Theorems about Planner: type correctness, that records name public      *)
(* bytes, and that no slot goes back to a lower revision.                  *)
(*                                                                         *)
(* Within an epoch the ledger compares keys itself.  Across epochs it does *)
(* not, so the order rests on the planner: whatever carries a later epoch  *)
(* than the entry (a queued record, a receipt, an operation that may still *)
(* run or run again) carries a greater revision too (Ordered).  An entry   *)
(* only changes to the configured epoch, which nothing exceeds.            *)
(***************************************************************************)
EXTENDS Planner, TLAPS

\* A revision k of epoch e may replace the entry if its epoch lets it.
Above(e, k) == \A s \in DOMAIN ledger : e > ledger[s].epoch => k > ledger[s].key

InEpoch ==
    /\ op.epoch <= epoch /\ past.epoch <= epoch
    /\ \A r \in pending : r.epoch <= epoch
    /\ \A x \in Saved : x[1] <= epoch
    /\ \A s \in DOMAIN ledger : ledger[s].epoch <= epoch

DecisionOK(o) == o.mode # "none" => o.revision \in Keys /\ Above(o.epoch, o.revision)

Ordered ==
    /\ \A r \in pending : Above(r.epoch, r.key)
    /\ \A x \in Saved : Above(x[1], x[2])
    /\ DecisionOK(op) /\ DecisionOK(past)

Working == phase \in {"leg", "publish", "upload", "finalize"} => op.mode # "none"

Uploaded == phase = "finalize" => archive[op.revision] = op.handoff

Numbered == Working /\ (op.mode # "none" => op.revision \in Keys)

Rest == InEpoch /\ Ordered /\ Working /\ Uploaded /\ RecordsPublic
IInv == TypeOK /\ Rest

------------------------------------------------------------------------------
(* The rules of the ledger, for one slot. *)

LEMMA NatOrders == \A x \in Epochs \cup Keys : x \in Nat
BY OrdersAssumption

LEMMA LedgerOfSlot ==
    ASSUME NEW l
    PROVE  l \in Ledger <=> /\ DOMAIN l \subseteq Slots
                            /\ l = [s \in DOMAIN l |-> l[s]]
                            /\ \A s \in DOMAIN l : l[s] \in LedgerRecord
<1>1. ASSUME l \in Ledger PROVE /\ DOMAIN l \subseteq Slots
                                /\ l = [s \in DOMAIN l |-> l[s]]
                                /\ \A s \in DOMAIN l : l[s] \in LedgerRecord
    <2>1. PICK S \in SUBSET Slots : l \in [S -> LedgerRecord]
        BY <1>1 DEF Ledger
    <2> QED BY <2>1
<1>2. ASSUME DOMAIN l \subseteq Slots, l = [s \in DOMAIN l |-> l[s]],
             \A s \in DOMAIN l : l[s] \in LedgerRecord
      PROVE  l \in Ledger
    <2>1. l \in [DOMAIN l -> LedgerRecord]
        BY <1>2
    <2> QED BY <1>2, <2>1 DEF Ledger
<1> QED BY <1>1, <1>2

LEMMA TargetFacts == Target \in Slots /\ PlatformOf(Target) \in Platforms
BY TargetAssumption DEF Slots, PlatformOf

\* Settling keeps key and content; an epoch stays or becomes the configured one,
\* which is then a later one.
LEMMA SettledFacts ==
    ASSUME TypeOK, ~Blocked
    PROVE  /\ Settled \in Ledger /\ DOMAIN Settled = DOMAIN ledger
           /\ \A s \in DOMAIN ledger :
                /\ Settled[s].key = ledger[s].key /\ Settled[s].content = ledger[s].content
                /\ \/ Settled[s].epoch = ledger[s].epoch
                   \/ Settled[s].epoch = epoch /\ epoch > ledger[s].epoch
<1>1. /\ DOMAIN ledger \subseteq {Target} /\ DOMAIN ledger \subseteq Slots
      /\ \A s \in DOMAIN ledger : ledger[s] \in LedgerRecord
      /\ epoch \in Epochs
    BY LedgerOfSlot DEF TypeOK
<1>2. Now.retired = retired /\ Now.epoch[PlatformOf(Target)] = epoch
    BY TargetFacts DEF Now, ConfigOf
<1>3. CASE retired
    <2>1. Settled = [s \in DOMAIN ledger |->
              IF Served(ledger[s]) THEN [ledger[s] EXCEPT !.status = "tombstone"] ELSE ledger[s]]
        BY <1>2, <1>3 DEF Settled, Lifecycle, Retire
    <2>2. \A s \in DOMAIN ledger : /\ Settled[s] \in LedgerRecord
                                   /\ Settled[s].key = ledger[s].key
                                   /\ Settled[s].content = ledger[s].content
                                   /\ Settled[s].epoch = ledger[s].epoch
        BY <1>1, <2>1 DEF LedgerRecord
    <2>3. Settled \in Ledger
        BY <1>1, <2>1, <2>2, LedgerOfSlot
    <2> QED BY <2>1, <2>2, <2>3
<1>4. CASE ~retired
    <2>1. Settled = [s \in DOMAIN ledger |->
              IF s \in Tombstones(ledger) THEN Restamp(Now, PlatformOf(s), ledger[s])
                                          ELSE ledger[s]]
        BY <1>2, <1>4 DEF Settled, Lifecycle, Reactivate
    <2>2. \A s \in Tombstones(ledger) : s = Target /\ epoch > ledger[s].epoch
        BY <1>1, <1>2, <1>4 DEF Blocked, ReactivationRefused, Bumped, Tombstones
    <2>3. ASSUME NEW s \in DOMAIN ledger
          PROVE  /\ Settled[s] \in LedgerRecord
                 /\ Settled[s].key = ledger[s].key /\ Settled[s].content = ledger[s].content
                 /\ \/ Settled[s].epoch = ledger[s].epoch
                    \/ Settled[s].epoch = epoch /\ epoch > ledger[s].epoch
        <3>1. CASE s \in Tombstones(ledger)
            BY <1>1, <1>2, <2>1, <2>2, <3>1 DEF Restamp, LedgerRecord
        <3>2. CASE s \notin Tombstones(ledger)
            BY <1>1, <2>1, <3>2
        <3> QED BY <3>1, <3>2
    <2>4. Settled \in Ledger
        BY <1>1, <2>1, <2>3, LedgerOfSlot
    <2> QED BY <2>1, <2>3, <2>4
<1> QED BY <1>3, <1>4

\* What a signing run leaves in the slot: the settled entry, or a taken record
\* that is newer by epoch or by key.
LEMMA SignFacts ==
    ASSUME TypeOK, Sign
    PROVE  /\ ledger' \in Ledger /\ DOMAIN ledger' \subseteq {Target}
           /\ DOMAIN ledger \subseteq DOMAIN ledger'
           /\ \/ ledger' = Settled
              \/ \E r \in pending :
                    /\ DOMAIN ledger' = {Target} /\ r.epoch = epoch
                    /\ ledger'[Target].epoch = r.epoch /\ ledger'[Target].key = r.key
                    /\ ledger'[Target].content = r.content
                    /\ Target \in DOMAIN ledger =>
                         \/ Settled[Target].epoch < epoch
                         \/ Settled[Target].epoch = epoch /\ r.key > Settled[Target].key
<1>1. /\ Settled \in Ledger /\ DOMAIN Settled = DOMAIN ledger
      /\ DOMAIN ledger \subseteq {Target}
    BY SettledFacts DEF Sign, TypeOK
<1>2. CASE Taken = {}
    BY <1>1, <1>2 DEF Sign
<1>3. CASE Taken # {}
    <2>1. PICK r \in Taken : ledger' = ApplyRecord(Settled, r)
        BY <1>3 DEF Sign
    <2>2. r \in pending /\ r \in PendingRecord /\ r.slot = Target /\ Applies(Now, Settled, r)
        BY <2>1 DEF Taken, TypeOK
    <2>3. r.epoch = epoch
        BY <2>2, TargetFacts DEF Applies, Binds, Now, ConfigOf
    <2>4. Target \in DOMAIN ledger =>
              \/ Settled[Target].epoch < epoch
              \/ Settled[Target].epoch = epoch /\ r.key > Settled[Target].key
        BY <1>1, <2>2, <2>3 DEF Applies, Supersedes, Newer, Comparable
    <2>5. /\ ledger' = [t \in DOMAIN ledger' |-> ledger'[t]]
          /\ DOMAIN ledger' = {Target}
          /\ ledger'[Target] = [epoch |-> r.epoch, source |-> r.source, key |-> r.key,
                                content |-> r.content, status |-> "active", revoked |-> FALSE]
        BY <1>1, <2>1, <2>2 DEF ApplyRecord, Put
    <2>6. ledger'[Target] \in LedgerRecord
        BY <2>2, <2>5 DEF PendingRecord, LedgerRecord
    <2>7. ledger' \in Ledger
        BY <2>5, <2>6, TargetFacts, LedgerOfSlot
    <2> QED BY <1>1, <2>2, <2>3, <2>4, <2>5, <2>7
<1> QED BY <1>2, <1>3

------------------------------------------------------------------------------
(* Type correctness, one lemma per kind of step. *)

\* A receipt that is there has a build and pins.
LEMMA ReceiptType ==
    ASSUME TypeOK, NEW e \in Epochs, NEW n \in Keys, receipt[<<e, n>>] # NoReceipt
    PROVE  receipt[<<e, n>>].build \in Contents /\ receipt[<<e, n>>].pins \in Pins
<1>1. <<e, n>> \in Receipts
    BY DEF Receipts
<1>2. receipt[<<e, n>>] \in [build : Contents, pins : Pins]
    BY <1>1 DEF TypeOK
<1> QED BY <1>2

LEMMA EditType == ASSUME edits \in 0..MaxEdits, Edit PROVE edits' \in 0..MaxEdits
BY EditsAssumption DEF Edit

LEMMA DispatchType ==
    ASSUME TypeOK, NEW f \in BOOLEAN, Dispatch(f), edits' \in 0..MaxEdits
    PROVE  TypeOK'
<1>1. op' \in Operation /\ past' \in Operation /\ phase' = "plan"
    BY DEF TypeOK, Dispatch, Operation
<1> QED BY <1>1 DEF TypeOK, Dispatch, config, main

LEMMA PlanType == ASSUME TypeOK, Plan PROVE TypeOK'
<1>1. CASE \E m \in {"build", "finalize-only"}, n \in Keys : Decided(m, n)
    <2>1. op' \in Operation /\ phase' = "leg"
        BY <1>1 DEF Decided, TypeOK, Operation
    <2> QED BY <2>1 DEF TypeOK, Plan, config, main
<1>2. CASE phase' = "idle" /\ UNCHANGED op
    BY <1>2 DEF TypeOK, Plan, config, main
<1> QED BY <1>1, <1>2 DEF Plan, PlanBuild, PlanFinalize, PlanEnds

LEMMA RerunType == ASSUME TypeOK, NEW o \in {op, past}, Rerun(o) PROVE TypeOK'
<1>1. o \in Operation
    BY DEF TypeOK
<1>2. op' \in Operation /\ past' \in Operation
    BY <1>1 DEF TypeOK, Rerun, Operation
<1>3. phase' \in {"leg", "publish", "plan"} /\ (phase' = "publish" => op'.handoff # NoBuild)
    BY DEF Rerun
<1>4. edits' \in 0..MaxEdits
    BY EditType DEF TypeOK, Rerun
<1> QED BY <1>2, <1>3, <1>4 DEF TypeOK, Rerun, config, main

LEMMA LegType == ASSUME TypeOK, Numbered, Leg PROVE TypeOK'
<1>1. CASE \E c \in Contents : LegEnds(c)
    <2>1. op' \in Operation /\ op'.handoff # NoBuild /\ phase' = "publish"
        BY <1>1, NoneAssumption DEF LegEnds, TypeOK, Operation
    <2> QED BY <2>1 DEF TypeOK, Leg, config, main
<1>2. CASE phase' = "idle" /\ UNCHANGED op
    BY <1>2 DEF TypeOK, Leg, config, main
<1>3. SameInputs(op.epoch, op.revision, op.pins) => Mine.build \in Contents
    <2>1. op.mode # "none"
        BY DEF Numbered, Working, Leg
    <2>2. op.epoch \in Epochs /\ op.revision \in Keys
        BY <2>1 DEF TypeOK, Operation, Numbered
    <2> QED BY <2>2, ReceiptType DEF SameInputs, Mine
<1> QED BY <1>1, <1>2, <1>3 DEF Leg

\* What a publish job may rely on.
LEMMA PublishFacts ==
    ASSUME TypeOK, Numbered, phase \in {"publish", "upload", "finalize"}
    PROVE  /\ op.epoch \in Epochs /\ op.revision \in Keys /\ op.handoff \in Contents
           /\ op.pins \in Pins /\ <<op.epoch, op.revision>> \in Receipts
<1>1. op.mode # "none"
    BY DEF Numbered, Working
<1> QED BY <1>1 DEF TypeOK, Operation, Numbered, Receipts

LEMMA JournalType == ASSUME TypeOK, Numbered, Journal PROVE TypeOK'
<1>1. CASE phase' = "idle" /\ UNCHANGED <<receipt, op>>
    BY <1>1 DEF TypeOK, Journal, config
<1>2. CASE /\ receipt' = [receipt EXCEPT ![<<op.epoch, op.revision>>] =
                              [build |-> op.handoff, pins |-> op.pins]]
           /\ op' = [op EXCEPT !.saved = TRUE]
           /\ phase' = "upload"
    <2>1. receipt' \in [Receipts -> [build : Contents, pins : Pins] \cup {NoReceipt}]
        BY <1>2, PublishFacts DEF Journal, TypeOK
    <2>2. op' \in Operation /\ op'.handoff = op.handoff /\ op.handoff # NoBuild
        BY <1>2 DEF TypeOK, Operation, Journal
    <2> QED BY <1>2, <2>1, <2>2 DEF TypeOK, Journal, config
<1> QED BY <1>1, <1>2 DEF Journal

LEMMA UploadType == ASSUME TypeOK, Numbered, Upload PROVE TypeOK'
<1>1. archive' \in [Keys -> Contents \cup {NoBuild}]
    BY PublishFacts DEF Upload, TypeOK
<1>2. op' = op /\ op.handoff # NoBuild /\ phase' \in {"finalize", "idle"}
    BY DEF Upload, TypeOK
<1> QED BY <1>1, <1>2 DEF TypeOK, Upload, config, main

LEMMA FinalizeType == ASSUME TypeOK, Numbered, Finalize PROVE TypeOK'
<1>1. Record(op.epoch, op.revision, op.handoff) \in {r \in PendingRecord : r.slot = Target /\ r.source = Provider}
    BY PublishFacts, TargetAssumption, SourcesAssumption DEF Record, PendingRecord, Finalize
<1> QED BY <1>1 DEF TypeOK, Finalize, config

LEMMA SignType == ASSUME TypeOK, Sign PROVE TypeOK'
BY SignFacts DEF TypeOK, Sign, config

LEMMA OtherType ==
    ASSUME TypeOK,
           \/ Crash
           \/ \E e \in Epochs, p \in Pins, r \in BOOLEAN : Configure(e, p, r)
           \/ \E x \in Receipts : Expire(x)
    PROVE  TypeOK'
<1>1. edits' \in 0..MaxEdits
    BY EditType DEF TypeOK, Crash, Configure, Expire
<1>2. CASE Crash
    BY <1>1, <1>2 DEF TypeOK, Crash, config, main
<1>3. CASE \E e \in Epochs, p \in Pins, r \in BOOLEAN : Configure(e, p, r)
    BY <1>1, <1>3 DEF TypeOK, Configure, main
<1>4. CASE \E x \in Receipts : Expire(x)
    BY <1>1, <1>4 DEF TypeOK, Expire, config, main
<1> QED BY <1>2, <1>3, <1>4

------------------------------------------------------------------------------
(* The rest of the invariant, one lemma per kind of step. *)

LEMMA RestNumbered == Rest => Numbered
BY DEF Rest, Ordered, DecisionOK, Numbered

\* A revision never given out is above the entry, whatever the epoch.
LEMMA NextIsAbove ==
    ASSUME TypeOK, NEW n, NextRevision(n, Known)
    PROVE  n \in Keys /\ \A e \in Epochs : Above(e, n)
<1>1. \A s \in DOMAIN ledger : ledger[s].key \in Known
    BY DEF Known
<1>2. \A s \in DOMAIN ledger : ledger[s].key \in Keys
    BY LedgerOfSlot DEF TypeOK, LedgerRecord
<1>3. \A s \in DOMAIN ledger : ledger[s].key < n
    BY <1>1, <1>2 DEF NextRevision
<1> QED BY <1>2, <1>3, NatOrders DEF Above, NextRevision

LEMMA DispatchRest ==
    ASSUME IInv, NEW f \in BOOLEAN, Dispatch(f) PROVE Rest'
<1>1. InEpoch'
    BY NatOrders DEF Dispatch, config, main, IInv, Rest, TypeOK, InEpoch, Saved
<1>2. Ordered'
    BY DEF Dispatch, config, main, IInv, Rest, Ordered, DecisionOK, Above, Saved
<1> QED
    BY <1>1, <1>2 DEF Dispatch, config, main, IInv, Rest, Working, Uploaded, RecordsPublic

LEMMA PlanRest == ASSUME IInv, Plan PROVE Rest'
<1>1. CASE \E m \in {"build", "finalize-only"}, n \in Keys : Decided(m, n) /\ Above(op.epoch, n)
    <2>1. PICK m \in {"build", "finalize-only"}, n \in Keys : Decided(m, n) /\ Above(op.epoch, n)
        BY <1>1
    <2>2. op'.epoch = op.epoch /\ op'.revision = n /\ op'.mode = m /\ phase' = "leg"
        BY <2>1 DEF Decided, IInv, TypeOK, Operation
    <2> QED BY <2>1, <2>2 DEF Plan, config, main, IInv, Rest, InEpoch, Ordered, DecisionOK,
                              Above, Saved, Working, Uploaded, RecordsPublic
<1>2. CASE phase' = "idle" /\ UNCHANGED op
    BY <1>2 DEF Plan, config, main, IInv, Rest, InEpoch, Ordered, DecisionOK, Above, Saved,
                Working, Uploaded, RecordsPublic
<1>3. CASE PlanBuild
    <2>1. PICK n \in Keys : NextRevision(n, Known) /\ Decided("build", n)
        BY <1>3 DEF PlanBuild
    <2>2. Above(op.epoch, n)
        BY <2>1, NextIsAbove DEF IInv, TypeOK, Operation
    <2> QED BY <1>1, <2>1, <2>2
<1>4. CASE PlanFinalize
    <2>1. PICK n \in Keys : SameInputs(op.epoch, n, op.pins) /\ Decided("finalize-only", n)
        BY <1>4 DEF PlanFinalize
    <2>2. <<op.epoch, n>> \in Saved
        BY <2>1 DEF SameInputs, Saved, Receipts, IInv, TypeOK, Operation
    <2>3. Above(op.epoch, n)
        BY <2>2 DEF IInv, Rest, Ordered
    <2> QED BY <1>1, <2>1, <2>3
<1> QED BY <1>2, <1>3, <1>4 DEF Plan, PlanEnds

LEMMA RerunRest == ASSUME IInv, NEW o \in {op, past}, Rerun(o) PROVE Rest'
<1>1. o \in Operation /\ o.epoch <= epoch /\ DecisionOK(o)
    BY DEF IInv, Rest, TypeOK, InEpoch, Ordered
<1>2. /\ op'.epoch = o.epoch
      /\ op'.mode # "none" => op'.mode = o.mode /\ op'.revision = o.revision
      /\ phase' \in {"plan", "leg", "publish"} /\ (phase' # "plan" => op'.mode # "none")
    <2>1. CASE op' = o /\ o.mode # "none" /\ phase' \in {"leg", "publish"}
        BY <2>1
    <2>2. CASE op' = [o EXCEPT !.handoff = NoBuild] /\ o.mode # "none" /\ phase' = "leg"
        BY <1>1, <2>2 DEF Operation
    <2>3. CASE /\ op' = [o EXCEPT !.mode = "none", !.revision = 0, !.handoff = NoBuild]
               /\ phase' = "plan"
        BY <1>1, <2>3 DEF Operation
    <2> QED BY <2>1, <2>2, <2>3 DEF Rerun
<1>3. past' \in {op, past}
    BY DEF Rerun
<1>4. InEpoch'
    BY <1>1, <1>2, <1>3 DEF Rerun, config, main, IInv, Rest, InEpoch, Saved
<1>5. Ordered'
    BY <1>1, <1>2, <1>3 DEF Rerun, config, main, IInv, Rest, Ordered, DecisionOK, Above, Saved
<1> QED
    BY <1>2, <1>4, <1>5 DEF Rerun, config, main, IInv, Rest, Working, Uploaded, RecordsPublic

\* Steps after which the running operation has the decision it had.
LEMMA SameDecision ==
    ASSUME IInv, UNCHANGED <<epoch, ledger, pending, receipt, past>>,
           op'.epoch = op.epoch, op'.mode = op.mode, op'.revision = op.revision,
           phase' = "idle" \/ phase \in {"leg", "publish", "upload", "finalize"}
    PROVE  InEpoch' /\ Ordered' /\ Working'
<1>1. InEpoch'
    BY DEF IInv, Rest, InEpoch, Saved
<1>2. Ordered'
    BY DEF IInv, Rest, Ordered, DecisionOK, Above, Saved
<1>3. Working'
    BY DEF IInv, Rest, Working
<1> QED BY <1>1, <1>2, <1>3

LEMMA LegRest == ASSUME IInv, Leg PROVE Rest'
<1>1. op'.epoch = op.epoch /\ op'.mode = op.mode /\ op'.revision = op.revision
      /\ phase' \in {"idle", "publish"}
    BY DEF Leg, LegEnds, IInv, TypeOK, Operation
<1>2. InEpoch' /\ Ordered' /\ Working'
    BY <1>1, SameDecision DEF Leg, config, main
<1> QED BY <1>1, <1>2 DEF Leg, config, main, IInv, Rest, Uploaded, RecordsPublic

LEMMA JournalRest == ASSUME IInv, Journal PROVE Rest'
<1>1. op'.epoch = op.epoch /\ op'.mode = op.mode /\ op'.revision = op.revision
      /\ phase' \in {"idle", "upload"}
    BY DEF Journal, IInv, TypeOK, Operation
<1>2. DecisionOK(op) /\ op.mode # "none" /\ op.epoch <= epoch
    BY DEF Journal, IInv, Rest, Ordered, Working, InEpoch
<1>3. \A x \in Saved' : x \in Saved \/ (x[1] = op.epoch /\ x[2] = op.revision)
    BY DEF Journal, Saved, IInv, TypeOK
<1>4. InEpoch'
    BY <1>1, <1>2, <1>3 DEF Journal, config, IInv, Rest, InEpoch
<1>5. \A x \in Saved' : Above(x[1], x[2])
    BY <1>2, <1>3 DEF DecisionOK, IInv, Rest, Ordered
<1>6. Ordered'
    BY <1>1, <1>5 DEF Journal, IInv, Rest, Ordered, DecisionOK, Above
<1> QED
    BY <1>1, <1>2, <1>4, <1>6 DEF Journal, config, IInv, Rest, Working, Uploaded, RecordsPublic

\* Bytes that are public stay as they are.
LEMMA UploadKeeps ==
    ASSUME IInv, Upload
    PROVE  \A k \in Keys : archive[k] # NoBuild => archive'[k] = archive[k]
BY DEF Upload, Uploadable, IInv, TypeOK

LEMMA UploadRest == ASSUME IInv, Upload PROVE Rest'
<1>1. InEpoch' /\ Ordered' /\ Working'
    BY SameDecision DEF Upload, config, main
<1>2. Uploaded'
    BY PublishFacts, RestNumbered DEF Upload, Uploaded, IInv, TypeOK
<1>3. /\ \A r \in pending : r.key \in Keys /\ r.content # NoBuild
      /\ \A s \in DOMAIN ledger : ledger[s].key \in Keys /\ ledger[s].content # NoBuild
    BY LedgerOfSlot, NoneAssumption DEF IInv, TypeOK, PendingRecord, LedgerRecord
<1>4. RecordsPublic'
    BY <1>3, UploadKeeps DEF Upload, main, RecordsPublic, IInv, Rest
<1> QED BY <1>1, <1>2, <1>4 DEF Rest

LEMMA FinalizeRest == ASSUME IInv, Finalize PROVE Rest'
<1>1. DecisionOK(op) /\ op.mode # "none" /\ op.epoch <= epoch
      /\ archive[op.revision] = op.handoff
    BY DEF Finalize, IInv, Rest, Ordered, Working, InEpoch, Uploaded
<1>2. \A r \in pending' : \/ r \in pending
                          \/ /\ r.epoch = op.epoch /\ r.key = op.revision
                             /\ r.content = op.handoff
    BY DEF Finalize, Record
<1>3. InEpoch'
    BY <1>1, <1>2 DEF Finalize, config, IInv, Rest, InEpoch, Saved
<1>4. Ordered'
    BY <1>1, <1>2 DEF Finalize, IInv, Rest, Ordered, DecisionOK, Above, Saved
<1>5. RecordsPublic'
    BY <1>1, <1>2 DEF Finalize, IInv, Rest, RecordsPublic
<1> QED BY <1>3, <1>4, <1>5 DEF Finalize, Rest, Working, Uploaded

\* An entry that changes takes the configured epoch, or keeps its order.
LEMMA SignOrder ==
    ASSUME IInv, Sign
    PROVE  /\ \A s \in DOMAIN ledger :
                /\ s \in DOMAIN ledger'
                /\ ledger'[s].epoch >= ledger[s].epoch /\ ledger'[s].key >= ledger[s].key
           /\ \A s \in DOMAIN ledger' :
                \/ ledger'[s].epoch = epoch
                \/ /\ s \in DOMAIN ledger
                   /\ ledger'[s].epoch = ledger[s].epoch /\ ledger'[s].key = ledger[s].key
<1>1. /\ epoch \in Nat
      /\ \A s \in DOMAIN ledger : ledger[s].epoch \in Nat /\ ledger[s].key \in Nat
      /\ \A r \in pending : r.epoch \in Nat /\ r.key \in Nat
    BY LedgerOfSlot, NatOrders DEF IInv, TypeOK, LedgerRecord, PendingRecord
<1>2. \A s \in DOMAIN ledger :
          /\ s \in DOMAIN Settled /\ Settled[s].key = ledger[s].key
          /\ \/ Settled[s].epoch = ledger[s].epoch
             \/ Settled[s].epoch = epoch /\ epoch > ledger[s].epoch
    BY SettledFacts DEF Sign, IInv
<1>3. DOMAIN Settled = DOMAIN ledger /\ DOMAIN ledger \subseteq {Target}
    BY SettledFacts DEF Sign, IInv, TypeOK
<1>4. CASE ledger' = Settled
    BY <1>1, <1>2, <1>3, <1>4
<1>5. CASE \E r \in pending :
              /\ DOMAIN ledger' = {Target} /\ r.epoch = epoch
              /\ ledger'[Target].epoch = r.epoch /\ ledger'[Target].key = r.key
              /\ Target \in DOMAIN ledger =>
                   \/ Settled[Target].epoch < epoch
                   \/ Settled[Target].epoch = epoch /\ r.key > Settled[Target].key
    <2>1. PICK r \in pending :
              /\ DOMAIN ledger' = {Target} /\ r.epoch = epoch
              /\ ledger'[Target].epoch = r.epoch /\ ledger'[Target].key = r.key
              /\ Target \in DOMAIN ledger =>
                   \/ Settled[Target].epoch < epoch
                   \/ Settled[Target].epoch = epoch /\ r.key > Settled[Target].key
        BY <1>5
    <2>2. Target \in DOMAIN ledger =>
              r.epoch >= ledger[Target].epoch /\ r.key > ledger[Target].key
        <3>1. Above(r.epoch, r.key)
            BY DEF IInv, Rest, Ordered
        <3>2. CASE Target \in DOMAIN ledger /\ Settled[Target].epoch < epoch
            BY <1>1, <1>2, <2>1, <3>1, <3>2 DEF Above
        <3>3. CASE /\ Target \in DOMAIN ledger
                   /\ Settled[Target].epoch = epoch /\ r.key > Settled[Target].key
            BY <1>1, <1>2, <2>1, <3>3
        <3> QED BY <2>1, <3>2, <3>3
    <2> QED BY <1>1, <1>3, <2>1, <2>2
<1> QED BY <1>4, <1>5, SignFacts DEF IInv

LEMMA SignRest == ASSUME IInv, Sign PROVE Rest'
<1>1. /\ epoch \in Nat /\ pending' = {}
      /\ UNCHANGED <<epoch, receipt, archive, phase, op, past>>
    BY NatOrders DEF Sign, config, IInv, TypeOK
<1>2. \A s \in DOMAIN ledger' : ledger'[s].epoch <= epoch
    BY <1>1, SignOrder DEF IInv, Rest, InEpoch
<1>3. InEpoch'
    BY <1>1, <1>2 DEF IInv, Rest, InEpoch, Saved
<1>4. /\ op.epoch \in Nat /\ past.epoch \in Nat /\ \A x \in Saved : x[1] \in Nat
      /\ op.epoch <= epoch /\ past.epoch <= epoch /\ \A x \in Saved : x[1] <= epoch
    BY NatOrders DEF IInv, Rest, InEpoch, TypeOK, Operation, Saved, Receipts
<1>5. ASSUME NEW e \in Nat, NEW k, e <= epoch, Above(e, k) PROVE Above(e, k)'
    BY <1>1, <1>5, SignOrder DEF Above
<1>6. Ordered'
    BY <1>1, <1>4, <1>5 DEF IInv, Rest, Ordered, DecisionOK, Saved
<1>7. /\ \A s \in DOMAIN ledger : archive[Settled[s].key] = Settled[s].content
      /\ DOMAIN Settled = DOMAIN ledger
    BY SettledFacts DEF Sign, IInv, Rest, RecordsPublic
<1>8. RecordsPublic'
    BY <1>1, <1>7, SignFacts DEF IInv, Rest, RecordsPublic
<1> QED BY <1>1, <1>3, <1>6, <1>8 DEF IInv, Rest, Working, Uploaded

LEMMA OtherRest ==
    ASSUME IInv,
           \/ Crash
           \/ \E e \in Epochs, p \in Pins, r \in BOOLEAN : Configure(e, p, r)
           \/ \E x \in Receipts : Expire(x)
    PROVE  Rest'
<1>1. CASE Crash
    BY <1>1 DEF Crash, config, main, IInv, Rest, InEpoch, Ordered, DecisionOK, Above, Saved,
                Working, Uploaded, RecordsPublic
<1>2. CASE \E e \in Epochs, p \in Pins, r \in BOOLEAN : Configure(e, p, r)
    <2>1. PICK e \in Epochs : epoch' = e /\ e >= epoch
        BY <1>2 DEF Configure
    <2>2. UNCHANGED <<main, archive, phase, op, past>>
        BY <1>2 DEF Configure
    <2>3. /\ op.epoch \in Nat /\ past.epoch \in Nat /\ epoch \in Nat /\ e \in Nat
          /\ \A r \in pending : r.epoch \in Nat
          /\ \A x \in Saved : x[1] \in Nat
          /\ \A s \in DOMAIN ledger : ledger[s].epoch \in Nat
        BY NatOrders, LedgerOfSlot DEF IInv, TypeOK, Operation, PendingRecord, LedgerRecord,
                                       Saved, Receipts
    <2>4. InEpoch'
        BY <2>1, <2>2, <2>3 DEF main, IInv, Rest, InEpoch, Saved
    <2> QED BY <2>2, <2>4 DEF main, IInv, Rest, Ordered, DecisionOK, Above, Saved, Working,
                              Uploaded, RecordsPublic
<1>3. CASE \E x \in Receipts : Expire(x)
    BY <1>3 DEF Expire, config, main, IInv, Rest, InEpoch, Ordered, DecisionOK, Above, Saved,
                Working, Uploaded, RecordsPublic
<1> QED BY <1>1, <1>2, <1>3

------------------------------------------------------------------------------
LEMMA InitInv == Init => IInv
<1> SUFFICES ASSUME Init PROVE IInv
    OBVIOUS
<1>1. ledger \in Ledger /\ DOMAIN ledger = {}
    BY LedgerOfSlot DEF Init, Empty
<1>2. op \in Operation /\ op.epoch = epoch /\ op.mode = "none" /\ epoch \in Nat
    BY NatOrders, PinsAssumption DEF Init, Operation
<1>3. TypeOK
    <2>1. ledger \in Ledger /\ DOMAIN ledger \subseteq {Target} /\ edits \in 0..MaxEdits
        BY <1>1, EditsAssumption DEF Init
    <2>2. /\ receipt \in [Receipts -> [build : Contents, pins : Pins] \cup {NoReceipt}]
          /\ archive \in [Keys -> Contents \cup {NoBuild}]
        BY DEF Init
    <2>3. /\ epoch \in Epochs /\ pins \in Pins /\ retired \in BOOLEAN
          /\ pending = {} /\ lost = {} /\ phase = "idle" /\ past = op
        BY PinsAssumption DEF Init
    <2> QED BY <1>2, <2>1, <2>2, <2>3 DEF TypeOK
<1>4. Saved = {}
    BY DEF Init, Saved
<1>5. Rest
    BY <1>1, <1>2, <1>4 DEF Init, Rest, InEpoch, Ordered, DecisionOK, Working, Uploaded,
                            RecordsPublic
<1> QED BY <1>3, <1>5 DEF IInv

LEMMA StepInv == IInv /\ [Next]_vars => IInv'
<1> SUFFICES ASSUME IInv, [Next]_vars PROVE IInv'
    OBVIOUS
<1>1. TypeOK /\ Rest /\ Numbered
    BY RestNumbered DEF IInv
<1>2. CASE Scheduled \/ Repair \/ Repack
    <2>1. PICK f \in BOOLEAN : Dispatch(f) /\ edits' \in 0..MaxEdits
        BY <1>1, <1>2, EditType DEF Scheduled, Repair, Repack, TypeOK
    <2> QED BY <1>1, <2>1, DispatchType, DispatchRest DEF IInv
<1>3. CASE Rerun(op) \/ Rerun(past)
    BY <1>1, <1>3, RerunType, RerunRest DEF IInv
<1>4. CASE Plan
    BY <1>1, <1>4, PlanType, PlanRest DEF IInv
<1>5. CASE Leg
    BY <1>1, <1>5, LegType, LegRest DEF IInv
<1>6. CASE Journal
    BY <1>1, <1>6, JournalType, JournalRest DEF IInv
<1>7. CASE Upload
    BY <1>1, <1>7, UploadType, UploadRest DEF IInv
<1>8. CASE Finalize
    BY <1>1, <1>8, FinalizeType, FinalizeRest DEF IInv
<1>9. CASE Sign
    BY <1>1, <1>9, SignType, SignRest DEF IInv
<1>10. CASE \/ Crash
            \/ \E e \in Epochs, p \in Pins, r \in BOOLEAN : Configure(e, p, r)
            \/ \E x \in Receipts : Expire(x)
    BY <1>1, <1>10, OtherType, OtherRest DEF IInv
<1>11. CASE UNCHANGED vars
    BY <1>11 DEF vars, IInv, TypeOK, Rest, InEpoch, Ordered, DecisionOK, Above, Saved, Working,
                 Uploaded, RecordsPublic
<1> QED BY <1>2, <1>3, <1>4, <1>5, <1>6, <1>7, <1>8, <1>9, <1>10, <1>11
        DEF Next, Step, Skipped

LEMMA AlwaysIInv == Spec => []IInv
BY InitInv, StepInv, PTL DEF Spec

(* Configuration, ledger, receipts, archives and operations stay in their  *)
(* domains, for any slots, epochs, revisions, builds and pins.             *)
THEOREM TypeCorrect == Spec => []TypeOK
BY AlwaysIInv, PTL DEF IInv

(* Every queued record and every entry names public bytes, however often   *)
(* operations of any epoch are planned, interrupted and run again.         *)
THEOREM NothingDangles == Spec => []RecordsPublic
<1>1. IInv => RecordsPublic
    BY DEF IInv, Rest
<1> QED BY <1>1, AlwaysIInv, PTL

(* No slot goes back to an older epoch or a lower revision, also when a    *)
(* record of a later epoch replaces the entry without a look at its key.   *)
THEOREM RevisionsOnlyGrow == Spec => RevisionNeverRegresses
<1>1. IInv /\ [Next]_vars => [KeepsRevision]_ledger
    <2> SUFFICES ASSUME IInv, [Next]_vars, ledger' # ledger PROVE KeepsRevision
        OBVIOUS
    <2>1. Sign
        BY DEF Next, Step, Skipped, vars, Scheduled, Repair, Repack, Dispatch, Rerun, Plan, Leg,
               Journal, Upload, Finalize, Crash, Configure, Expire, main
    <2> QED BY <2>1, SignOrder DEF KeepsRevision
<1> QED BY <1>1, AlwaysIInv, PTL DEF Spec, RevisionNeverRegresses
==============================================================================
