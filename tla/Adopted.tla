-------------------------------- MODULE Adopted --------------------------------
(***************************************************************************)
(* The adopted assets of one line on one platform.  Nothing is built and   *)
(* nothing uploaded: a leg takes the upstream asset as it is, and the      *)
(* ledger orders what was taken by the upstream version.  What upstream    *)
(* lists, and the bytes behind it, change while runs are under way.        *)
(*                                                                         *)
(* The jobs are those of Planner, for an item without an archive and       *)
(* without input pins; the configuration stays as it is, and so every      *)
(* record is of the one epoch.  Two providers adopt.  theseus tags its     *)
(* releases with a full version (postgres 18.4.0) that the manifest        *)
(* shortens (18.4); astral offers one release at a time, whose versions    *)
(* (python 3.13.5) may have been offered before, under another tag.        *)
(***************************************************************************)
EXTENDS LedgerRules, VersionOrder

CONSTANTS Provider,              \* "theseus" or "astral"
          Line, Platform,
          Oldest,                \* what upstream lists first
          Revisions,             \* bound: of one manifest version
          ReadLast,              \* the revision whose file sorts behind the others, if any
          NoBytes, NoReceipt,
          MaxEdits               \* bound: faults, reruns, forced runs, upstream changes

ASSUME ProviderAssumption  == /\ Provider \in {"theseus", "astral"} \cap Sources /\ Built = {}
                              /\ Platform \in Platforms /\ 1 \in Epochs
ASSUME ListedAssumption    == Oldest \in Listed /\ IsFiniteSet(Listed)
ASSUME RevisionsAssumption == 1 \in Revisions /\ Revisions \subseteq Nat
ASSUME NoBytesAssumption   == NoBytes \notin Contents
ASSUME MaxEditsAssumption  == MaxEdits \in Nat

VARIABLES listing, upstream,     \* versions as upstream lists them, newest first, and their bytes
          ledger, pending,       \* state/asset-revisions.json and pending/
          receipt,               \* build-receipts/, by name and revision
          phase, op, past,       \* the running job, its operation, the one before
          edits

main == <<ledger, pending, receipt>>
vars == <<listing, upstream, ledger, pending, receipt, phase, op, past, edits>>

------------------------------------------------------------------------------
(* Versions, names and keys. *)

\* The manifest version: theseus_newest keeps two numbers, astral_newest three.
Name(s) == SubSeq(Parse(s).core, 1, IF Provider = "theseus" THEN 2 ELSE 3)
Slot(s) == <<Name(s), Platform>>

\* Cut at dots and dashes; text behind the last number stays with it.
SourceKey(s) ==
    [i \in DOMAIN s.core |-> IF i = Len(s.core) THEN <<s.core[i]>> \o s.tail ELSE <<s.core[i]>>]
        \o s.dashed

\* The rank of a source version under compare_provider_key.
Rank == [s \in Listed |->
            1 + Cardinality({t \in Listed : CompareProviderKey(SourceKey(t), SourceKey(s)) < 0})]

ASSUME NamesAssumption == \A s \in Listed : Name(s) \in Versions /\ Rank[s] \in Keys

\* The pattern of an astral asset, and how theseus tags: three numbers and no more.
ASSUME FullAssumption  == \A s \in Listed : Eligible(s, Line) => Len(s.core) = 3 /\ ~s.dressed

\* Slip: the assets of a release are not looked for.
Complete_Always(s) == TRUE

Complete(s) == upstream[s] # NoBytes

\* theseus takes the newest and may then miss its assets; astral skips what is
\* incomplete.  Nothing is the ResolveError.
Counted == IF Provider = "theseus" THEN Listed ELSE {s \in Listed : Complete(s)}
Newest  == {s \in Resolved(listing, Counted, Line) : Complete(s)}

\* The URL of an astral asset names the release it came with.
Fetchable(s, c) == Provider = "astral" \/ upstream[s] = c

------------------------------------------------------------------------------
NoVersion == Exactly(<<>>)

Receipt   == [source : Listed, content : Contents]
\* "Nothing yet" is no receipt.
ASSUME NoReceiptAssumption == NoReceipt \notin Receipt

Operation == [force : BOOLEAN,
              mode : {"none", "build", "finalize-only"},
              source : Listed \cup {NoVersion},
              revision : Revisions \cup {0},
              saved : BOOLEAN,                          \* build-operations/ has it
              handoff : Contents \cup {NoBytes}]        \* what its leg took

Fresh(force) == [force |-> force, mode |-> "none", source |-> NoVersion, revision |-> 0,
                 saved |-> FALSE, handoff |-> NoBytes]

Record(s, n, c) == [slot |-> Slot(s), epoch |-> 1, source |-> Provider, key |-> Rank[s],
                    content |-> c, revision |-> n]

Init ==
    /\ listing = <<Oldest>>
    /\ upstream \in [Listed -> Contents \cup {NoBytes}]
    /\ \A s \in Listed : upstream[s] = NoBytes <=> s # Oldest
    /\ ledger = Empty /\ pending = {}
    /\ receipt = [x \in Versions \X Revisions |-> NoReceipt]
    /\ phase = "idle" /\ op = Fresh(FALSE) /\ past = op
    /\ edits = 0

Edit == edits < MaxEdits /\ edits' = edits + 1

\* A release appears, in any order of versions, before its assets do.
Publish(s) ==
    /\ Edit /\ \A i \in DOMAIN listing : listing[i] # s
    /\ listing' = <<s>> \o listing
    /\ UNCHANGED <<upstream, main, phase, op, past>>

Attach(s, c) ==
    /\ \E i \in DOMAIN listing : listing[i] = s
    /\ ~Complete(s) /\ upstream' = [upstream EXCEPT ![s] = c]
    /\ UNCHANGED <<listing, main, phase, op, past, edits>>

\* The asset is replaced, or comes again with a later release.
Replace(s, c) ==
    /\ Edit /\ Complete(s) /\ c # upstream[s]
    /\ upstream' = [upstream EXCEPT ![s] = c]
    /\ UNCHANGED <<listing, main, phase, op, past>>

------------------------------------------------------------------------------
(* plan_builds. *)

Manifested(s) == Slot(s) \in DOMAIN ledger
Queued(s)     == {r \in pending : r.slot = Slot(s)}
Saved(s)      == {n \in Revisions : receipt[<<Name(s), n>>] # NoReceipt}

\* Slip: only what is queued counts as used.
Known_QueuedOnly(s) == {r.revision : r \in Queued(s)}

\* An adopted ledger entry does not say which revision it was.
Known(s) == Saved(s) \cup {r.revision : r \in Queued(s)}

Latest(n, R)       == n \in R /\ \A r \in R : r <= n
NextRevision(n, R) == n \in Revisions /\ IF R = {} THEN n = 1 ELSE Latest(n - 1, R)
Spent(s)           == \E n \in Known(s) : n + 1 \notin Revisions

\* The item's own receipt; one of another source version is refused.
Receipted(s, n) == /\ receipt[<<Name(s), n>>] # NoReceipt
                   /\ receipt[<<Name(s), n>>].source = s

Dispatch(force) ==
    /\ phase = "idle"
    /\ op' = Fresh(force) /\ past' = op
    /\ phase' = "plan"
    /\ UNCHANGED <<listing, upstream, main>>

NothingThere(s) == ~Manifested(s) /\ Queued(s) = {} /\ Saved(s) = {}

Decided(mode, s, n) ==
    /\ op' = [op EXCEPT !.mode = mode, !.source = s, !.revision = n]
    /\ phase' = "leg"

PlanBuild(s) ==
    /\ op.force \/ NothingThere(s)
    /\ \E n \in Revisions : NextRevision(n, Known(s)) /\ Decided("build", s, n)

\* What is queued or journaled, but not accepted, is observed once more.
PlanFinalize(s) ==
    /\ ~op.force /\ ~Manifested(s)
    /\ \E n \in Revisions : /\ Latest(n, Saved(s))
                            /\ Receipted(s, n)
                            /\ Decided("finalize-only", s, n)

\* Nothing to do, or an error: unresolved, or a receipt of another source version.
PlanEnds ==
    /\ \A s \in Newest :
          \/ op.force /\ Spent(s)
          \/ /\ ~op.force
             /\ Manifested(s) \/ \E n \in Saved(s) : Latest(n, Saved(s)) /\ ~Receipted(s, n)
    /\ phase' = "idle" /\ UNCHANGED op

Plan == /\ phase = "plan"
        /\ \/ \E s \in Newest : PlanBuild(s) \/ PlanFinalize(s)
           \/ PlanEnds
        /\ UNCHANGED <<listing, upstream, main, past, edits>>

\* "Re-run failed jobs" keeps the decision and a successful leg's artifact;
\* "Re-run all jobs" plans again unless the journal holds the operation.
Rerun(o) ==
    /\ phase = "idle" /\ Edit
    /\ past' = IF o = op THEN past ELSE op
    /\ \/ /\ o.mode # "none" /\ op' = o
          /\ phase' = IF o.handoff = NoBytes THEN "leg" ELSE "journal"
       \/ /\ o.mode # "none" /\ op' = [o EXCEPT !.handoff = NoBytes]
          /\ phase' = "leg"
       \/ /\ ~o.saved /\ op' = Fresh(o.force)
          /\ phase' = "plan"
    /\ UNCHANGED <<listing, upstream, main>>

------------------------------------------------------------------------------
(* The leg, publish, finalize. *)

Mine == receipt[<<Name(op.source), op.revision>>]

\* The receipt's URL still has the receipt's bytes.
Recoverable == Receipted(op.source, op.revision) /\ Fetchable(op.source, Mine.content)

\* The recipe asks upstream again, and takes nothing but the planned version.
Adoptable == Mine = NoReceipt /\ op.mode = "build" /\ op.source \in Newest

LegEnds(c) == op' = [op EXCEPT !.handoff = c] /\ phase' = "journal"

Leg ==
    /\ phase = "leg"
    /\ \/ Recoverable /\ LegEnds(Mine.content)
       \/ Adoptable /\ LegEnds(upstream[op.source])
       \/ ~Recoverable /\ ~Adoptable /\ phase' = "idle" /\ UNCHANGED op
    /\ UNCHANGED <<listing, upstream, main, past, edits>>

\* Slip: a later operation replaces the receipt in its place.
Journalable_Always == TRUE

Journalable == \/ Mine = NoReceipt /\ op.mode = "build"
               \/ Mine = [source |-> op.source, content |-> op.handoff]

Journal ==
    /\ phase = "journal"
    /\ IF Journalable
       THEN /\ receipt' = [receipt EXCEPT ![<<Name(op.source), op.revision>>] =
                               [source |-> op.source, content |-> op.handoff]]
            /\ op' = [op EXCEPT !.saved = TRUE]
            /\ phase' = "finalize"
       ELSE phase' = "idle" /\ UNCHANGED <<receipt, op>>
    /\ UNCHANGED <<listing, upstream, ledger, pending, past, edits>>

Finalize ==
    /\ phase = "finalize"
    /\ LET r == Record(op.source, op.revision, op.handoff)
       IN  pending' = {q \in pending : <<q.slot, q.revision>> # <<r.slot, r.revision>>} \cup {r}
    /\ phase' = "idle"
    /\ UNCHANGED <<listing, upstream, ledger, receipt, op, past, edits>>

Crash == /\ phase # "idle" /\ Edit /\ phase' = "idle"
         /\ UNCHANGED <<listing, upstream, main, op, past>>

------------------------------------------------------------------------------
(***************************************************************************)
(* The signing run folds the queue file by file, in the order of their     *)
(* names: by version, then revision, the first revision last where         *)
(* "-windows" sorts behind "-r2".  One refused file, and nothing lands.    *)
(***************************************************************************)
TheConfig == [retired |-> FALSE, managed |-> {Platform},
            epoch |-> [p \in {Platform} |-> 1], source |-> [p \in {Platform} |-> Provider]]

ReadBefore(q, r) ==
    LET place(n) == IF n = ReadLast THEN Cardinality(Revisions) + 1 ELSE n
        number(a, b) == a - b
    IN  \/ Ordered(number, q.slot[1], r.slot[1]) < 0
        \/ q.slot = r.slot /\ place(q.revision) < place(r.revision)

Outcome(l, r) == IF Applies(TheConfig, l, r)   THEN {ApplyRecord(l, r)}
            ELSE IF Discarded(TheConfig, l, r) THEN {l} ELSE {}

LastRead(P) == {r \in P : \A q \in P \ {r} : ReadBefore(q, r)}

\* The ledger after the records of Q, or nothing if one of them is refused.
After(Q) ==
    LET after[P \in SUBSET pending] ==
            IF P = {} THEN {ledger}
            ELSE UNION {UNION {Outcome(l, r) : l \in after[P \ {r}]} : r \in LastRead(P)}
    IN  after[Q]

Fold ==
    /\ pending # {}
    /\ \E l \in After(pending) : ledger' = l
    /\ pending' = {}
    /\ UNCHANGED <<listing, upstream, receipt, phase, op, past, edits>>

Refused == {r \in pending : LET earlier == {q \in pending : ReadBefore(q, r)}
                            IN  After(earlier) # {} /\ After(earlier \cup {r}) = {}}

\* Every signing run fails from here on; someone takes the file out by hand.
Withdraw ==
    /\ Refused # {}
    /\ pending' = pending \ Refused
    /\ UNCHANGED <<listing, upstream, ledger, receipt, phase, op, past, edits>>

------------------------------------------------------------------------------
\* A plan gets no further: the newest receipt is of another source version, or
\* upstream no longer has its bytes.
NeedsForce ==
    \E s \in Newest :
        /\ ~Manifested(s) /\ Queued(s) = {}
        /\ \E n \in Saved(s) :
              /\ Latest(n, Saved(s))
              /\ Receipted(s, n) => ~Fetchable(s, receipt[<<Name(s), n>>].content)

Scheduled == Dispatch(FALSE) /\ UNCHANGED edits
Repair    == Dispatch(TRUE) /\ NeedsForce /\ UNCHANGED edits
Repack    == Dispatch(TRUE) /\ Edit

Step == Plan \/ Leg \/ Journal \/ Finalize

Next == \/ \E s \in Listed : Publish(s)
        \/ \E s \in Listed, c \in Contents : Attach(s, c) \/ Replace(s, c)
        \/ Scheduled \/ Repair \/ Repack
        \/ Rerun(op) \/ Rerun(past)
        \/ Step \/ Crash \/ Fold \/ Withdraw

Spec == Init /\ [][Next]_vars /\ WF_vars(Step) /\ WF_vars(Fold) /\ WF_vars(Withdraw)
             /\ SF_vars(Scheduled) /\ SF_vars(Repair)

------------------------------------------------------------------------------
TypeOK ==
    /\ listing \in Seq(Listed) /\ upstream \in [Listed -> Contents \cup {NoBytes}]
    /\ ledger \in Ledger
    /\ \A r \in pending : \E s \in Listed, n \in Revisions, c \in Contents : r = Record(s, n, c)
    /\ receipt \in [Versions \X Revisions -> Receipt \cup {NoReceipt}]
    /\ phase \in {"idle", "plan", "leg", "journal", "finalize"}
    /\ op \in Operation /\ past \in Operation
    /\ phase \in {"leg", "journal", "finalize"} => op.mode # "none"
    /\ phase \in {"journal", "finalize"} => op.handoff # NoBytes
    /\ edits \in 0..MaxEdits

(* In whatever order upstream lists its versions, prereleases among them,  *)
(* what the line resolves to is a stable version no other one outranks,    *)
(* and nothing only if the line has none or it is not complete.            *)
NewestResolved ==
    LET rivals == {i \in DOMAIN listing :
                      /\ InLine(listing[i], Line) /\ ~IsPrerelease(Parse(listing[i]))
                      /\ Provider = "astral" => Complete(listing[i])}
    IN  /\ \A s \in Newest : /\ \E i \in rivals : listing[i] = s
                            /\ \A i \in rivals : CompareStr(listing[i], s) <= 0
        /\ Newest = {} => \A i \in rivals : \E j \in rivals :
               CompareStr(listing[j], listing[i]) >= 0 /\ ~Complete(listing[j])

\* The stable versions of the line with this key.
OfRank(k) == {s \in Listed : Rank[s] = k /\ Eligible(s, Line)}

(* What is queued or accepted, a receipt vouches for: a stable version of  *)
(* the line, the one it is ordered by, and the bytes a leg has had of it,  *)
(* although upstream may have replaced them, and other operations may have *)
(* planned the same name and revision for another version.                 *)
RecordsReceipted ==
    LET vouched(slot, key, c) ==
            \E n \in Revisions : LET x == receipt[<<slot[1], n>>]
                                 IN  /\ x # NoReceipt /\ x.source \in OfRank(key)
                                     /\ x.content = c
    IN  /\ \A r \in pending : vouched(r.slot, r.key, r.content)
        /\ \A t \in DOMAIN ledger : vouched(t, ledger[t].key, ledger[t].content)

KeepsSource ==
    \A t \in DOMAIN ledger :
        /\ t \in DOMAIN ledger'
        /\ \A s \in OfRank(ledger[t].key), u \in OfRank(ledger'[t].key) :
               /\ CompareStr(u, s) >= 0
               /\ CompareStr(u, s) = 0 => ledger'[t].content = ledger[t].content

(* The version served under a name only gets newer, in the order by which  *)
(* versions are resolved, and the bytes of one version are never replaced: *)
(* neither by a late run that took an older one, nor by a forced one after *)
(* upstream replaced the asset.                                            *)
SourceNeverRegresses == [][KeepsSource]_ledger

(* Whatever upstream lists, withholds or replaces, and whatever fails or   *)
(* is run again in between, the newest name of the line is served in the   *)
(* end, as long as refused files are withdrawn and a plan that asks for a  *)
(* forced revision gets one.                                               *)
Converges == <>[](\A s \in Newest : Manifested(s) \/ Spent(s))

(* What plan.py:156-157 says of a forced run: it "publishes the next       *)
(* unused revision even when up to date".  Its record is then one that the *)
(* signing run takes or leaves, never one that stops every signing run.    *)
ForcedAccepted == Refused = {}
==============================================================================
