----------------------------- MODULE ScrapeRules -----------------------------
(***************************************************************************)
(* The rules of the monotonic scrape guard (devxdk_manifest/merge.py) and  *)
(* of the reviewed overrides that act on it (revoke.py, lifecycle.py), as  *)
(* operators on ONE scrape record: the state kept for a single             *)
(* (component, line, platform) in state/scrape-versions.json.              *)
(*                                                                         *)
(* A version is its rank under versions.compare_str, so "newer" is ">".    *)
(* Everything else a tuple carries (url, sha256, size_bytes, channel,      *)
(* released_at) is compared only for equality and is one value of          *)
(* Contents.  The lists of the code are sets here: their order is the      *)
(* version order, which the code re-establishes after every insertion.     *)
(***************************************************************************)
EXTENDS Naturals, FiniteSets

CONSTANTS Versions,   \* ranks of the versions a feed may offer
          Contents,   \* what a tuple binds a version to
          Retain      \* retain_per_line of the line's configuration

ASSUME VersionsAssumption == Versions \subseteq Nat \ {0}
ASSUME RetainAssumption == Retain \in Nat \ {0}

NoFloor == 0          \* floor_version = None: the key never published

Tuple == [version : Versions, content : Contents]

ScrapeRecord == [status    : {"active", "tombstone"},
                 floor     : Versions \cup {NoFloor},
                 tuples    : SUBSET Tuple,
                 revoked   : SUBSET Tuple,
                 snapshots : SUBSET Tuple]

VersionsOf(ts) == {t.version : t \in ts}

\* What merge.seed stores for a configured key with nothing published.
EmptyRecord == [status |-> "active", floor |-> NoFloor, tuples |-> {},
                revoked |-> {}, snapshots |-> {}]

\* The first n of _cmp_sort_desc(ts).
Newest(ts, n) == {t \in ts : Cardinality({u \in ts : u.version > t.version}) < n}

\* Slip: the mark is the next version to accept, not the last one accepted.
HighWater_OnePast(floor, ts) ==
    1 + CHOOSE f \in VersionsOf(ts) \cup {floor} :
            \A v \in VersionsOf(ts) \cup {floor} : v <= f

\* The greatest of the floor and every version of ts.
HighWater(floor, ts) ==
    CHOOSE f \in VersionsOf(ts) \cup {floor} :
        \A v \in VersionsOf(ts) \cup {floor} : v <= f

\* merge.seed for a key whose tuples are already in a committed manifest.
Seed(ts) == [EmptyRecord EXCEPT !.tuples = Newest(ts, Retain),
                                !.floor  = HighWater(NoFloor, ts)]

------------------------------------------------------------------------------
(* reconcile_key: one feed refresh of one key. *)

\* GuardError: a candidate is revoked, or changes a committed version.
Refused(rec, cands) ==
    \E t \in cands :
        \/ t.version \in VersionsOf(rec.revoked)
        \/ t.version \in VersionsOf(rec.tuples) /\ t \notin rec.tuples

\* Slip: a version missing from the record counts as new.
Admitted_NoFloor(rec, cands) == {t \in cands : t.version \notin VersionsOf(rec.tuples)}

\* The candidates strictly above the floor; the others are ignored.
Admitted(rec, cands) ==
    {t \in cands : t.version \notin VersionsOf(rec.tuples) /\ t.version > rec.floor}

\* Slip: retention runs although nothing was admitted.
Reconcile_TrimsEveryRun(rec, cands) ==
    LET admits == Admitted(rec, cands)
    IN  [rec EXCEPT !.tuples = Newest(rec.tuples \cup admits, Retain),
                    !.floor  = HighWater(rec.floor, admits)]

Reconcile(rec, cands) ==
    LET admits == Admitted(rec, cands)
    IN  IF admits = {}
        THEN rec
        ELSE [rec EXCEPT !.tuples = Newest(rec.tuples \cup admits, Retain),
                         !.floor  = HighWater(rec.floor, admits)]

------------------------------------------------------------------------------
(* revoke.apply_scraped: each override names the exact tuple it expects. *)

\* Slip: the floor is recomputed from what is still served.
RevokeDelete_LowersFloor(rec, t) ==
    [rec EXCEPT !.tuples  = @ \ {t}, !.revoked = @ \cup {t},
                !.floor   = HighWater(NoFloor, rec.tuples \ {t})]

RevokeDelete(rec, t) == [rec EXCEPT !.tuples  = @ \ {t}, !.revoked = @ \cup {t}]

RevokeReplace(rec, t, c) ==
    [rec EXCEPT !.tuples = (@ \ {t}) \cup {[version |-> t.version, content |-> c]}]

\* Slip: the readmitted version stays on the revoked list.
RevokeReadmit_KeepsRevoked(rec, t, c) ==
    [rec EXCEPT !.tuples = @ \cup {[version |-> t.version, content |-> c]}]

RevokeReadmit(rec, t, c) ==
    [rec EXCEPT !.tuples  = @ \cup {[version |-> t.version, content |-> c]},
                !.revoked = @ \ {t}]

------------------------------------------------------------------------------
(* lifecycle.py and the reading of a record by recompose. *)

\* What recompose takes from the record into the published manifest.
Published(rec) == IF rec.status = "tombstone" THEN {} ELSE rec.tuples

\* retire_line; released is the line's part of the manifest being retired.
RetireScrape(rec, released) ==
    IF rec.status = "active"
    THEN [rec EXCEPT !.status = "tombstone",
                     !.snapshots = {t \in released :
                                      t.version \in VersionsOf(rec.tuples)}]
    ELSE rec

\* reactivate_line.
ReactivateScrape(rec) ==
    IF rec.status = "tombstone"
    THEN [rec EXCEPT !.status = "active", !.snapshots = {}]
    ELSE rec

\* check_snapshot_consistency, the part about one scrape record.
SnapshotsConsistent(rec) ==
    IF rec.status = "tombstone"
    THEN VersionsOf(rec.snapshots) = VersionsOf(rec.tuples)
    ELSE rec.snapshots = {}

\* check_scrape_parity, the part about one record and the tuples the committed
\* manifest holds for its key: both directions, tombstoned records included.
ScrapeParity(rec, manifested) == manifested = rec.tuples
==============================================================================
