----------------------------- MODULE LedgerRules -----------------------------
(***************************************************************************)
(* The rules of the ordering ledger for managed (built or adopted) assets: *)
(* how a pending record is classified (pending.py), how a reviewed         *)
(* revocation changes an entry (revoke.py) and how a line is retired and   *)
(* reactivated (lifecycle.py), as operators on the ledger of ONE line.     *)
(*                                                                         *)
(* A slot is a (version, platform) pair of the line.  A source stands for  *)
(* a provider together with its ordering kind.  A key is a revision number *)
(* (built) or the rank of a source version under compare_provider_key      *)
(* (adopted); keys are only ever compared when the sources are equal.  The *)
(* url, sha256, size_bytes and source_version of a tuple are one content.  *)
(* channel and released_at are derived from the configuration and from     *)
(* first publication, never decide an outcome here, and are left out.      *)
(***************************************************************************)
EXTENDS Naturals, FiniteSets

CONSTANTS Versions, Platforms,
          Sources, Built,   \* (provider, kind) pairs; those of kind "built"
          Epochs, Keys, Contents

ASSUME SourcesAssumption == Built \subseteq Sources
ASSUME OrdersAssumption  == Epochs \subseteq Nat \ {0} /\ Keys \subseteq Nat \ {0}

Slots == Versions \X Platforms
PlatformOf(s) == s[2]

Config == [retired : BOOLEAN,
           managed : SUBSET Platforms,            \* built/adopt keys of the line
           epoch   : [Platforms -> Epochs],
           source  : [Platforms -> Sources]]

PendingRecord == [slot : Slots, epoch : Epochs, source : Sources,
                  key : Keys, content : Contents]

LedgerRecord == [epoch : Epochs, source : Sources, key : Keys, content : Contents,
                 status : {"active", "tombstone"}, revoked : BOOLEAN]

\* A leg some plan has emitted; the record it leaves behind says the same.
PlannedItem == [slot : Slots, epoch : Epochs, source : Sources]

Ledger == UNION {[S -> LedgerRecord] : S \in SUBSET Slots}

Empty == [s \in {} |-> {}]

\* What recompose takes into the manifest.
Served(e) == e.status = "active" /\ ~e.revoked

\* build_leg_map: the keys a plan of this tree may build or finalize.
Plannable(c, l) ==
    {i \in PlannedItem :
        /\ ~c.retired
        /\ PlatformOf(i.slot) \in c.managed
        /\ i.epoch = c.epoch[PlatformOf(i.slot)]
        /\ i.source = c.source[PlatformOf(i.slot)]
        /\ i.slot \in DOMAIN l => Served(l[i.slot])}

\* pending_filename: two built records of one name overwrite each other in pending/.
PendingFile(r) == <<r.slot, r.key>>

\* An adopted record is named by a revision that does not order it, and that
\* is not part of the record here: it may or may not meet a file of its name.
MustShareFile(q, r) == {q.source, r.source} \subseteq Built /\ PendingFile(q) = PendingFile(r)
MayShareFile(q, r)  == IF {q.source, r.source} \subseteq Built THEN PendingFile(q) = PendingFile(r)
                                                              ELSE q.slot = r.slot

------------------------------------------------------------------------------
(* classify: the outcome of one pending record.                            *)

\* Slip: retirement is not looked at.
LineActive_AnyLine(c, r) == PlatformOf(r.slot) \in c.managed

LineActive(c, r) == ~c.retired /\ PlatformOf(r.slot) \in c.managed

PreMigration(c, r) == r.epoch < c.epoch[PlatformOf(r.slot)]

Binds(c, r) == /\ r.epoch = c.epoch[PlatformOf(r.slot)]
               /\ r.source = c.source[PlatformOf(r.slot)]

\* The record and the entry of its slot are ordered by their keys.
Comparable(l, r) == /\ r.slot \in DOMAIN l
                    /\ l[r.slot].epoch = r.epoch
                    /\ l[r.slot].source = r.source

\* No entry, or one of an older epoch, revoked or not: replaced wholesale.
Supersedes(l, r) == r.slot \in DOMAIN l => l[r.slot].epoch < r.epoch

\* Slip: the records of one epoch are taken in the order they are read.
Newer_AnyKey(l, r) == Comparable(l, r) /\ ~l[r.slot].revoked /\ r.key # l[r.slot].key

\* Slip: an equal key is taken again, whatever it binds.
Newer_EqualKey(l, r) == Comparable(l, r) /\ ~l[r.slot].revoked /\ r.key >= l[r.slot].key

\* Slip: a revoked entry is replaced by a newer key.
Newer_IgnoresRevoked(l, r) == Comparable(l, r) /\ r.key > l[r.slot].key

Newer(l, r) == Comparable(l, r) /\ ~l[r.slot].revoked /\ r.key > l[r.slot].key

\* Older than the entry, or the entry itself once more.
Stale(l, r) == /\ Comparable(l, r)
               /\ \/ r.key < l[r.slot].key
                  \/ r.key = l[r.slot].key /\ (l[r.slot].revoked \/ r.content = l[r.slot].content)

Applies(c, l, r)   == LineActive(c, r) /\ Binds(c, r) /\ (Supersedes(l, r) \/ Newer(l, r))
Discarded(c, l, r) == \/ ~LineActive(c, r)
                      \/ PreMigration(c, r)
                      \/ Binds(c, r) /\ Stale(l, r)

\* Any other record is a PendingError: from the future, bound to another
\* source, a conflict on an equal key, or newer than a revoked entry.

Put(l, s, e) == [t \in DOMAIN l \cup {s} |-> IF t = s THEN e ELSE l[t]]

ApplyRecord(l, r) ==
    Put(l, r.slot, [epoch |-> r.epoch, source |-> r.source, key |-> r.key,
                    content |-> r.content, status |-> "active", revoked |-> FALSE])

------------------------------------------------------------------------------
(* apply_managed: a revocation names the exact tuple and ordering identity *)
(* of the entry it was reviewed against.                                   *)
Expects(l, v) == /\ v.slot \in DOMAIN l
                 /\ l[v.slot].epoch = v.epoch /\ l[v.slot].source = v.source
                 /\ l[v.slot].key = v.key /\ l[v.slot].content = v.content

Delete(l, v)      == Put(l, v.slot, [l[v.slot] EXCEPT !.revoked = TRUE])
CanReadmit(l, v)  == Expects(l, v) /\ l[v.slot].revoked
Readmit(l, v, by) == Put(l, v.slot, [l[v.slot] EXCEPT !.revoked = FALSE, !.content = by])

------------------------------------------------------------------------------
(* apply_lifecycle: retire or reactivate the line as the config says.      *)

Retire(l) == [s \in DOMAIN l |-> IF Served(l[s]) THEN [l[s] EXCEPT !.status = "tombstone"]
                                                 ELSE l[s]]

Tombstones(l) == {s \in DOMAIN l : l[s].status = "tombstone"}

\* Slip: the tombstone's own epoch is enough.
Bumped_SameEpoch(c, l, s) == c.epoch[PlatformOf(s)] >= l[s].epoch

Bumped(c, l, s) == c.epoch[PlatformOf(s)] > l[s].epoch

\* LifecycleError, or ConfigError for a platform no longer configured.
ReactivationRefused(c, l) ==
    \E s \in Tombstones(l) : PlatformOf(s) \notin c.managed \/ ~Bumped(c, l, s)

\* Slip: the entry is stamped with the epoch after the configured one.
Restamp_Next(c, p, e) == [e EXCEPT !.status = "active", !.epoch = c.epoch[p] + 1]

\* The ordering floor survives a reactivation by the same source.
Restamp(c, p, e) ==
    [e EXCEPT !.status = "active",
              !.epoch  = IF c.source[p] = e.source THEN c.epoch[p] ELSE @]

Reactivate(c, l) ==
    [s \in DOMAIN l |-> IF s \in Tombstones(l) THEN Restamp(c, PlatformOf(s), l[s]) ELSE l[s]]

Lifecycle(c, l) == IF c.retired THEN Retire(l) ELSE Reactivate(c, l)

\* check_ledger_parity: every served entry is a managed key of the config.
LedgerParity(c, l) == \A s \in DOMAIN l : Served(l[s]) => PlatformOf(s) \in c.managed
==============================================================================
