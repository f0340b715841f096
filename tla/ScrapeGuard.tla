----------------------------- MODULE ScrapeGuard -----------------------------
(***************************************************************************)
(* One scrape key over time.  Each daily run offers the key the tuples of  *)
(* the upstream feed, which is not trusted: it may roll back, republish a  *)
(* version with other bytes, or offer a version that was pulled.  A human  *)
(* may override the guard with a reviewed revocation record.               *)
(*                                                                         *)
(* Every action is one committed change of the record.  A refused run      *)
(* (GuardError, RevocationError) changes nothing and is a stuttering step. *)
(* Retirement is not an action here: it spans both state files and the     *)
(* manifest, and is modelled with them in SignTransaction.                 *)
(***************************************************************************)
EXTENDS ScrapeRules

CONSTANT MaxCandidates   \* bound: tuples a feed offers one key in one run

VARIABLES
    rec,          \* the committed ScrapeRecord
    (* history, not part of the system *)
    everHeld,     \* every tuple the record has ever served
    authorised,   \* tuples a reviewed replace or readmit put in place
    evicted       \* versions retention has dropped

vars == <<rec, everHeld, authorised, evicted>>

OneTuplePerVersion(ts) == \A t, u \in ts : t.version = u.version => t = u

\* What a source adapter can hand to reconcile_key: a candidate manifest has one
\* release per version, hence one tuple per version and key.
Candidates == {cs \in SUBSET Tuple : /\ cs # {}
                                     /\ IsFiniteSet(cs)
                                     /\ Cardinality(cs) <= MaxCandidates
                                     /\ OneTuplePerVersion(cs)}

Init == /\ \E ts \in Candidates \cup {{}} : rec = Seed(ts)
        /\ everHeld = rec.tuples
        /\ authorised = {}
        /\ evicted = {}

------------------------------------------------------------------------------
(* scrape.py: reconcile one key with the feed. *)
Scrape(cands) ==
    /\ ~Refused(rec, cands)
    /\ rec' = Reconcile(rec, cands)
    /\ everHeld' = everHeld \cup rec'.tuples
    /\ evicted' = evicted \cup (VersionsOf(rec.tuples \cup Admitted(rec, cands))
                                  \ VersionsOf(rec'.tuples))
    /\ UNCHANGED authorised

(* apply_revocations.py: the three scraped operations. *)
Delete(t) ==
    /\ t \in rec.tuples
    /\ rec' = RevokeDelete(rec, t)
    /\ UNCHANGED <<everHeld, authorised, evicted>>

Replace(t, c) ==
    /\ t \in rec.tuples
    /\ rec' = RevokeReplace(rec, t, c)
    /\ everHeld' = everHeld \cup rec'.tuples
    /\ authorised' = authorised \cup {[version |-> t.version, content |-> c]}
    /\ UNCHANGED evicted

Readmit(t, c) ==
    /\ t \in rec.revoked
    /\ rec' = RevokeReadmit(rec, t, c)
    /\ everHeld' = everHeld \cup rec'.tuples
    /\ authorised' = authorised \cup {[version |-> t.version, content |-> c]}
    /\ UNCHANGED evicted

Next == \/ \E cands \in Candidates : Scrape(cands)
        \/ \E t \in Tuple : Delete(t)
        \/ \E t \in Tuple, c \in Contents : Replace(t, c)
        \/ \E t \in Tuple, c \in Contents : Readmit(t, c)

Spec == Init /\ [][Next]_vars

------------------------------------------------------------------------------
(* The type invariant: the record and the history stay in their domains. *)
TypeOK == /\ rec \in ScrapeRecord
          /\ everHeld \subseteq Tuple
          /\ authorised \subseteq Tuple
          /\ evicted \subseteq Versions

(* floor_version is the high-water mark of everything the key ever served, *)
(* and the version it names is still on record, served or revoked: neither *)
(* a revocation nor an eviction may leave the guard with a lower mark, or  *)
(* with one nothing on record accounts for.                                *)
FloorIsHighWater ==
    /\ \A t \in everHeld \cup rec.revoked : t.version <= rec.floor
    /\ rec.floor # NoFloor => rec.floor \in VersionsOf(rec.tuples \cup rec.revoked)

(* A revoked version is not served, and a served version has one tuple:    *)
(* whatever sequence of deletes, readmits, replaces and feed refreshes     *)
(* led here, the record never holds a version on both lists or twice.      *)
RevokedNotServed ==
    /\ VersionsOf(rec.tuples) \cap VersionsOf(rec.revoked) = {}
    /\ OneTuplePerVersion(rec.tuples)

(* The bytes of a published version change only by review: two different   *)
(* tuples ever served under one version mean a replace or readmit put one  *)
(* of them in place.  No feed, however it misbehaves, can do it.           *)
BytesImmutable ==
    \A t, u \in everHeld :
        t.version = u.version /\ t # u => t \in authorised \/ u \in authorised

(* A version that retention dropped never comes back, neither as served    *)
(* nor as revoked, whatever the feed offers later.                         *)
NoResurrection == evicted \cap VersionsOf(rec.tuples \cup rec.revoked) = {}

DropsOnlyForNewer ==
    LET dropped == VersionsOf(rec.tuples) \ VersionsOf(rec'.tuples \cup rec'.revoked)
    IN  dropped # {} => /\ rec'.floor > rec.floor
                        /\ \A v \in dropped, w \in VersionsOf(rec'.tuples) : v < w

(* A step that drops a version (other than by revoking it) admitted a      *)
(* strictly newer one, and dropped only versions older than all it keeps:  *)
(* a feed that shrinks or rolls back removes nothing.                      *)
OnlyNewerEvicts == [][DropsOnlyForNewer]_vars
==============================================================================
