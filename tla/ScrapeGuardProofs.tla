-------------------------- MODULE ScrapeGuardProofs --------------------------
(***************************************************************************)
(* Proofs about the scrape guard, for every set of versions and contents,  *)
(* every retention and every number of candidates per run.                 *)
(*                                                                         *)
(* The argument: the floor bounds every version the key has ever touched   *)
(* (Bounded below), so a version that is no longer on record is at or      *)
(* below the floor and can only return through a readmit, which needs it   *)
(* on the revoked list.                                                    *)
(***************************************************************************)
EXTENDS ScrapeGuard, FiniteSetTheorems, WellFoundedInduction, TLAPS

(* A finite non-empty set of naturals has a greatest element. *)
LEMMA FiniteMax ==
    ASSUME NEW S \in SUBSET Nat, IsFiniteSet(S), S # {}
    PROVE  \E m \in S : \A x \in S : x <= m
<1> DEFINE HasMax(U) == \E m \in U : \A x \in U : x <= m
           Bad == {U \in FiniteSubsetsOf(S) : U # {} /\ ~HasMax(U)}
<1>1. SUFFICES ASSUME Bad # {} PROVE FALSE
    BY DEF FiniteSubsetsOf
<1>2. IsWellFoundedOn(StrictSubsetOrdering(S), FiniteSubsetsOf(S))
    BY FS_StrictSubsetOrderingWellFounded
<1>3. Bad \subseteq FiniteSubsetsOf(S)
    OBVIOUS
<1>4. PICK U \in Bad : \A V \in Bad : ~(<<V, U>> \in StrictSubsetOrdering(S))
    <2> HIDE DEF Bad
    <2>1. QED BY <1>1, <1>2, <1>3, WFMin
<1>5. PICK x \in U : TRUE
    OBVIOUS
<1> DEFINE V == U \ {x}
<1>6. V \in FiniteSubsetsOf(S) /\ V # U /\ V \subseteq U /\ U \subseteq S
    BY <1>5, FS_RemoveElement DEF FiniteSubsetsOf
<1>7. V \notin Bad
    <2>1. <<V, U>> \in StrictSubsetOrdering(S)
        BY <1>6 DEF StrictSubsetOrdering, FiniteSubsetsOf
    <2>2. QED BY <1>4, <2>1
<1>8. CASE V = {}
    <2>1. U = {x} BY <1>8
    <2>2. HasMax(U) BY <2>1, <1>5, <1>6
    <2>3. QED BY <2>2
<1>9. CASE V # {}
    <2>1. PICK m \in V : \A y \in V : y <= m
        BY <1>6, <1>7, <1>9
    <2>2. x \in Nat /\ m \in Nat /\ m \in U /\ \A y \in U : y \in Nat
        BY <1>5, <1>6, <2>1
    <2>3. CASE x <= m
        BY <2>1, <2>2, <2>3
    <2>4. CASE ~(x <= m)
        <3>1. \A y \in U : y <= x
            BY <2>1, <2>2, <2>4
        <3>2. QED BY <3>1
    <2>5. QED BY <2>3, <2>4
<1>10. QED BY <1>8, <1>9

(* The versions of a finite set of tuples are finitely many naturals. *)
LEMMA VersionsFinite ==
    ASSUME NEW ts \in SUBSET Tuple, IsFiniteSet(ts)
    PROVE  VersionsOf(ts) \in SUBSET Nat /\ IsFiniteSet(VersionsOf(ts))
<1> DEFINE f == [t \in ts |-> t.version]
<1>1. f \in Surjection(ts, VersionsOf(ts))
    BY DEF Surjection, VersionsOf
<1>2. IsFiniteSet(VersionsOf(ts))
    BY <1>1, FS_Surjection
<1>3. QED BY <1>2, VersionsAssumption DEF VersionsOf, Tuple

(* HighWater is the greatest of the floor and the versions it is given. *)
LEMMA HighWaterIsMax ==
    ASSUME NEW ts \in SUBSET Tuple, IsFiniteSet(ts), NEW floor \in Nat
    PROVE  /\ HighWater(floor, ts) \in VersionsOf(ts) \cup {floor}
           /\ \A v \in VersionsOf(ts) \cup {floor} : v <= HighWater(floor, ts)
<1> DEFINE S == VersionsOf(ts) \cup {floor}
<1>1. S \in SUBSET Nat /\ IsFiniteSet(S) /\ S # {}
    BY VersionsFinite, FS_AddElement
<1>2. \E m \in S : \A x \in S : x <= m
    BY <1>1, FiniteMax
<1>3. QED BY <1>2 DEF HighWater

(* What retention keeps: a subset, the newest tuple among it, and nothing  *)
(* older than anything it drops.                                           *)
LEMMA NewestKeeps ==
    ASSUME NEW ts \in SUBSET Tuple, IsFiniteSet(ts), NEW n \in Nat \ {0}
    PROVE  /\ Newest(ts, n) \subseteq ts
           /\ \A m \in ts : (\A u \in ts : u.version <= m.version) => m \in Newest(ts, n)
           /\ \A t \in ts \ Newest(ts, n), w \in Newest(ts, n) : t.version < w.version
<1> DEFINE Above(t) == {u \in ts : u.version > t.version}
<1>0. \A t \in ts : t.version \in Nat
    BY VersionsAssumption DEF Tuple
<1>1. Newest(ts, n) = {t \in ts : Cardinality(Above(t)) < n}
    BY DEF Newest
<1>2. \A t \in ts : IsFiniteSet(Above(t)) /\ Cardinality(Above(t)) \in Nat
    BY FS_Subset, FS_CardinalityType
<1>3. ASSUME NEW m \in ts, \A u \in ts : u.version <= m.version
      PROVE  m \in Newest(ts, n)
    <2>1. Above(m) = {}
        BY <1>0, <1>3
    <2>2. Cardinality(Above(m)) = 0
        BY <2>1, FS_EmptySet
    <2>3. QED BY <1>1, <2>2
<1>4. ASSUME NEW t \in ts \ Newest(ts, n), NEW w \in Newest(ts, n)
      PROVE  t.version < w.version
    <2>1. SUFFICES ASSUME w.version <= t.version PROVE FALSE
        BY <1>0, <1>1
    <2>2. Above(t) \subseteq Above(w)
        BY <2>1, <1>0, <1>1
    <2>3. w \in ts /\ t \in ts
        BY <1>1
    <2>4. Cardinality(Above(t)) <= Cardinality(Above(w))
        BY <2>2, <2>3, <1>2, FS_Subset
    <2>5. Cardinality(Above(w)) < n /\ ~(Cardinality(Above(t)) < n)
        BY <1>1, <2>3
    <2> HIDE DEF Above
    <2>6. QED BY <2>3, <2>4, <2>5, <1>2
<1>5. QED BY <1>1, <1>3, <1>4

------------------------------------------------------------------------------
(***************************************************************************)
(* The inductive invariant.  Bounded is what makes it inductive: a version *)
(* that left the record (evicted), or sits on the revoked list, is not     *)
(* above the floor, so no feed can admit it again.                         *)
(***************************************************************************)
Bounded ==
    /\ \A t \in everHeld \cup rec.tuples \cup rec.revoked : t.version <= rec.floor
    /\ \A v \in evicted : v <= rec.floor

OnRecord ==
    /\ IsFiniteSet(rec.tuples)
    /\ rec.tuples \subseteq everHeld
    /\ rec.floor # NoFloor => rec.floor \in VersionsOf(rec.tuples \cup rec.revoked)
    /\ OneTuplePerVersion(rec.revoked)

IInv == /\ TypeOK
        /\ OnRecord
        /\ Bounded
        /\ RevokedNotServed
        /\ BytesImmutable
        /\ NoResurrection

(* The fields of a record of the right type. *)
LEMMA FieldTypes ==
    ASSUME TypeOK
    PROVE  /\ rec \in ScrapeRecord
           /\ rec.floor \in Versions \cup {NoFloor}
           /\ rec.floor \in Nat
           /\ rec.tuples \in SUBSET Tuple
           /\ rec.revoked \in SUBSET Tuple
<1>1. rec \in ScrapeRecord
    BY DEF TypeOK
<1>2. /\ rec.floor \in Versions \cup {NoFloor}
      /\ rec.tuples \in SUBSET Tuple
      /\ rec.revoked \in SUBSET Tuple
    BY <1>1 DEF ScrapeRecord
<1>3. \A v \in Versions : v \in Nat
    BY VersionsAssumption
<1>4. rec.floor \in Nat
    BY <1>2, <1>3 DEF NoFloor
<1>5. QED BY <1>1, <1>2, <1>4

(* What one successful refresh of a key does to its record. *)
LEMMA ReconcileStep ==
    ASSUME TypeOK, OnRecord, Bounded, RevokedNotServed,
           NEW cands \in Candidates, NEW r, r = Reconcile(rec, cands),
           NEW admits, admits = Admitted(rec, cands)
    PROVE  /\ r \in ScrapeRecord
           /\ r.revoked = rec.revoked /\ r.tuples \subseteq rec.tuples \cup admits
           /\ IsFiniteSet(r.tuples)
           /\ rec.floor <= r.floor /\ \A t \in admits : t.version <= r.floor
           /\ r.floor # NoFloor => r.floor \in VersionsOf(r.tuples \cup r.revoked)
           /\ \A v \in VersionsOf(rec.tuples) \ VersionsOf(r.tuples) :
                 /\ r.floor > rec.floor
                 /\ \A w \in VersionsOf(r.tuples) : v < w
<1>1. cands \in SUBSET Tuple /\ IsFiniteSet(cands)
    BY DEF Candidates
<1>2. admits \in SUBSET Tuple /\ IsFiniteSet(admits)
    BY <1>1, FS_Subset DEF Admitted
<1>3. rec \in ScrapeRecord /\ rec.floor \in Nat /\ rec.tuples \in SUBSET Tuple
    BY FieldTypes
<1>4. CASE admits = {}
    <2>1. r = rec
        BY <1>4 DEF Reconcile
    <2>2. QED BY <2>1, <1>3, <1>4 DEF OnRecord
<1>5. CASE admits # {}
    <2> DEFINE all == rec.tuples \cup admits
               hw == HighWater(rec.floor, admits)
    <2>1. r = [rec EXCEPT !.tuples = Newest(all, Retain), !.floor = hw]
        BY <1>5 DEF Reconcile
    <2>2. all \in SUBSET Tuple /\ IsFiniteSet(all)
        BY <1>2, <1>3, FS_Union DEF OnRecord
    <2>3. /\ hw \in VersionsOf(admits) \cup {rec.floor}
          /\ \A v \in VersionsOf(admits) \cup {rec.floor} : v <= hw
        BY <1>2, <1>3, HighWaterIsMax
    <2>4. /\ Newest(all, Retain) \subseteq all
          /\ \A m \in all : (\A u \in all : u.version <= m.version) => m \in Newest(all, Retain)
          /\ \A t \in all \ Newest(all, Retain), w \in Newest(all, Retain) : t.version < w.version
        BY <2>2, NewestKeeps, RetainAssumption
    <2>5. /\ r.tuples = Newest(all, Retain) /\ r.floor = hw /\ r.revoked = rec.revoked
          /\ r.status = rec.status /\ r.snapshots = rec.snapshots
          /\ r = [status |-> r.status, floor |-> r.floor, tuples |-> r.tuples,
                  revoked |-> r.revoked, snapshots |-> r.snapshots]
        BY <2>1, <1>3 DEF ScrapeRecord
    <2>6. hw > rec.floor /\ hw \in Versions
        <3>1. PICK t \in admits : TRUE
            BY <1>5
        <3>2. t.version > rec.floor /\ t.version \in VersionsOf(admits) /\ t.version \in Nat
            BY <1>2, <3>1, VersionsAssumption DEF Admitted, VersionsOf, Tuple
        <3>3. VersionsOf(admits) \subseteq Versions
            BY <1>2 DEF VersionsOf, Tuple
        <3>4. hw \in Nat /\ t.version <= hw
            BY <2>3, <3>2, <3>3, <1>3, VersionsAssumption
        <3>5. hw > rec.floor
            BY <3>2, <3>4, <1>3
        <3>6. QED BY <3>5, <2>3, <3>3, <1>3
    <2> HIDE DEF hw
    <2>7. r \in ScrapeRecord
        <3>1. r.tuples \in SUBSET Tuple /\ r.floor \in Versions \cup {NoFloor}
            BY <2>2, <2>4, <2>5, <2>6
        <3>2. /\ r.status \in {"active", "tombstone"}
              /\ r.revoked \in SUBSET Tuple /\ r.snapshots \in SUBSET Tuple
            BY <2>5, <1>3 DEF ScrapeRecord
        <3>3. QED BY <2>5, <3>1, <3>2 DEF ScrapeRecord
    <2>8. IsFiniteSet(r.tuples)
        <3>1. r.tuples \in SUBSET all
            BY <2>4, <2>5
        <3>2. QED BY <2>2, <3>1, FS_Subset
    <2>9. \A t \in admits : t.version <= hw
        BY <2>3 DEF VersionsOf
    <2>10. hw \in VersionsOf(r.tuples)
        <3>1. PICK m \in admits : m.version = hw
            BY <2>3, <2>6, <1>3 DEF VersionsOf
        <3>2. \A u \in all : u.version <= m.version
            <4>1. \A u \in rec.tuples : u.version <= rec.floor /\ u.version \in Nat
                BY <1>3, VersionsAssumption DEF Bounded, Tuple
            <4>2. hw \in Nat
                BY <2>6, VersionsAssumption
            <4>3. QED BY <4>1, <4>2, <2>6, <2>9, <3>1, <1>3
        <3>3. m \in r.tuples
            BY <2>4, <2>5, <3>1, <3>2
        <3>4. QED BY <3>1, <3>3 DEF VersionsOf
    <2>11. \A v \in VersionsOf(rec.tuples) \ VersionsOf(r.tuples), w \in VersionsOf(r.tuples) : v < w
        <3>1. SUFFICES ASSUME NEW v \in VersionsOf(rec.tuples) \ VersionsOf(r.tuples),
                              NEW w \in VersionsOf(r.tuples)
                       PROVE  v < w
            OBVIOUS
        <3>2. PICK t \in rec.tuples : v = t.version
            BY DEF VersionsOf
        <3>3. PICK u \in r.tuples : w = u.version
            BY DEF VersionsOf
        <3>4. t \notin r.tuples /\ t \in all
            BY <3>2 DEF VersionsOf
        <3>5. QED BY <2>4, <2>5, <3>2, <3>3, <3>4
    <2>12. r.floor # NoFloor => r.floor \in VersionsOf(r.tuples \cup r.revoked)
        BY <2>5, <2>10 DEF VersionsOf
    <2>13. rec.floor <= hw
        BY <2>3
    <2> HIDE DEF all
    <2>14. r.tuples \subseteq rec.tuples \cup admits
        BY <2>4, <2>5 DEF all
    <2>15. QED BY <2>5, <2>6, <2>7, <2>8, <2>9, <2>11, <2>12, <2>13, <2>14
<1>6. QED BY <1>4, <1>5

------------------------------------------------------------------------------
LEMMA InitIInv == Init => IInv
<1> SUFFICES ASSUME Init PROVE IInv
    OBVIOUS
<1>1. PICK ts \in Candidates \cup {{}} : rec = Seed(ts)
    BY DEF Init
<1>2. ts \in SUBSET Tuple /\ IsFiniteSet(ts) /\ OneTuplePerVersion(ts)
    BY FS_EmptySet DEF Candidates, OneTuplePerVersion
<1> DEFINE hw == HighWater(NoFloor, ts)
           kept == Newest(ts, Retain)
<1>3. hw \in VersionsOf(ts) \cup {NoFloor} /\ \A v \in VersionsOf(ts) : v <= hw
    BY <1>2, HighWaterIsMax DEF NoFloor
<1>4. /\ kept \subseteq ts
      /\ \A m \in ts : (\A u \in ts : u.version <= m.version) => m \in kept
    BY <1>2, NewestKeeps, RetainAssumption
<1>5. rec = [status |-> "active", floor |-> hw, tuples |-> kept,
             revoked |-> {}, snapshots |-> {}]
    BY <1>1 DEF Seed, EmptyRecord
<1> HIDE DEF hw, kept
<1>6. everHeld = kept /\ authorised = {} /\ evicted = {}
    BY <1>5 DEF Init
<1>7. hw # NoFloor => hw \in VersionsOf(kept)
    <2>1. SUFFICES ASSUME hw # NoFloor PROVE hw \in VersionsOf(kept)
        OBVIOUS
    <2>2. PICK m \in ts : m.version = hw
        BY <1>3, <2>1 DEF VersionsOf
    <2>3. \A u \in ts : u.version <= m.version
        BY <1>3, <2>2 DEF VersionsOf
    <2>4. m \in kept
        BY <1>4, <2>3
    <2>5. QED BY <2>2, <2>4 DEF VersionsOf
<1>8. TypeOK
    <2>1. hw \in Versions \cup {NoFloor}
        BY <1>2, <1>3 DEF VersionsOf, Tuple
    <2>2. kept \in SUBSET Tuple
        BY <1>2, <1>4
    <2>3. rec \in ScrapeRecord
        BY <1>5, <2>1, <2>2 DEF ScrapeRecord
    <2>4. QED BY <1>6, <2>2, <2>3 DEF TypeOK
<1>9. OnRecord
    <2>1. IsFiniteSet(kept)
        BY <1>2, <1>4, FS_Subset
    <2>2. QED BY <1>5, <1>6, <1>7, <2>1 DEF OnRecord, OneTuplePerVersion, VersionsOf
<1>10. Bounded
    <2>1. \A t \in kept : t.version <= hw
        BY <1>3, <1>4 DEF VersionsOf
    <2>2. QED BY <1>5, <1>6, <2>1 DEF Bounded
<1>11. RevokedNotServed
    BY <1>2, <1>4, <1>5 DEF RevokedNotServed, VersionsOf, OneTuplePerVersion
<1>12. BytesImmutable
    BY <1>2, <1>4, <1>6 DEF BytesImmutable, OneTuplePerVersion
<1>13. NoResurrection
    BY <1>6 DEF NoResurrection
<1>14. QED BY <1>8, <1>9, <1>10, <1>11, <1>12, <1>13 DEF IInv

(* A feed refresh preserves the invariant. *)
LEMMA ScrapeIInv ==
    ASSUME IInv, NEW cands \in Candidates, Scrape(cands)
    PROVE  IInv'
<1> DEFINE admits == Admitted(rec, cands)
<1>1. /\ ~Refused(rec, cands)
      /\ rec' = Reconcile(rec, cands)
      /\ everHeld' = everHeld \cup rec'.tuples
      /\ evicted' = evicted \cup (VersionsOf(rec.tuples \cup admits) \ VersionsOf(rec'.tuples))
      /\ authorised' = authorised
    BY DEF Scrape
<1>2. TypeOK /\ OnRecord /\ Bounded /\ RevokedNotServed /\ BytesImmutable /\ NoResurrection
    BY DEF IInv
<1>3. /\ rec' \in ScrapeRecord
      /\ rec'.revoked = rec.revoked /\ rec'.tuples \subseteq rec.tuples \cup admits
      /\ IsFiniteSet(rec'.tuples)
      /\ rec.floor <= rec'.floor /\ \A t \in admits : t.version <= rec'.floor
      /\ rec'.floor # NoFloor => rec'.floor \in VersionsOf(rec'.tuples \cup rec'.revoked)
    BY <1>1, <1>2, ReconcileStep
<1>4. /\ rec.floor \in Nat /\ rec.tuples \in SUBSET Tuple /\ rec.revoked \in SUBSET Tuple
      /\ everHeld \in SUBSET Tuple
      /\ \A v \in Versions : v \in Nat
      /\ \A t \in Tuple : t.version \in Versions
    BY <1>2, FieldTypes, VersionsAssumption DEF TypeOK, Tuple
<1>5. /\ rec'.floor \in Nat /\ rec'.tuples \in SUBSET Tuple
    BY <1>3, <1>4 DEF ScrapeRecord, NoFloor
<1>6. /\ admits \in SUBSET Tuple
      /\ OneTuplePerVersion(admits)
      /\ \A t \in admits : t.version > rec.floor
      /\ \A t \in admits : t.version \notin VersionsOf(rec.revoked)
    BY <1>1 DEF Candidates, Admitted, Refused, OneTuplePerVersion
<1> HIDE DEF admits
<1>7. TypeOK'
    <2>1. VersionsOf(rec.tuples \cup admits) \subseteq Versions
        BY <1>4, <1>6 DEF VersionsOf
    <2>2. QED BY <1>1, <1>2, <1>3, <1>5, <2>1 DEF TypeOK
<1>8. OnRecord'
    BY <1>1, <1>2, <1>3 DEF OnRecord
<1>9. Bounded'
    <2>1. \A t \in everHeld \cup rec.tuples \cup rec.revoked \cup admits :
             t.version <= rec'.floor /\ t.version \in Nat
        BY <1>2, <1>3, <1>4, <1>5, <1>6 DEF Bounded
    <2>2. \A v \in evicted : v <= rec'.floor
        BY <1>2, <1>3, <1>4, <1>5 DEF Bounded, TypeOK
    <2>3. \A v \in VersionsOf(rec.tuples \cup admits) : v <= rec'.floor
        BY <2>1 DEF VersionsOf
    <2>4. QED BY <1>1, <1>3, <2>1, <2>2, <2>3 DEF Bounded
<1>10. RevokedNotServed'
    <2>1. VersionsOf(rec'.tuples) \cap VersionsOf(rec'.revoked) = {}
        BY <1>2, <1>3, <1>6 DEF RevokedNotServed, VersionsOf
    <2>2. \A t \in rec.tuples, u \in admits : t.version # u.version
        BY <1>2, <1>4, <1>6 DEF Bounded
    <2>3. OneTuplePerVersion(rec'.tuples)
        BY <1>2, <1>3, <1>6, <2>2 DEF RevokedNotServed, OneTuplePerVersion
    <2>4. QED BY <2>1, <2>3 DEF RevokedNotServed
<1>11. BytesImmutable'
    <2>1. \A t \in everHeld, u \in admits : t.version # u.version
        BY <1>2, <1>4, <1>6 DEF Bounded
    <2>2. everHeld' \subseteq everHeld \cup admits
        BY <1>1, <1>2, <1>3 DEF OnRecord
    <2>3. QED BY <1>1, <1>2, <1>6, <2>1, <2>2 DEF BytesImmutable, OneTuplePerVersion
<1>12. NoResurrection'
    <2>1. \A v \in evicted, t \in admits : v # t.version
        BY <1>2, <1>4, <1>6 DEF Bounded, TypeOK
    <2>2. evicted \cap VersionsOf(rec'.tuples \cup rec'.revoked) = {}
        BY <1>2, <1>3, <2>1 DEF NoResurrection, VersionsOf
    <2>3. VersionsOf(rec.tuples \cup admits) \cap VersionsOf(rec'.revoked) = {}
        BY <1>2, <1>3, <1>6 DEF RevokedNotServed, VersionsOf
    <2>4. VersionsOf(rec'.tuples \cup rec'.revoked)
              = VersionsOf(rec'.tuples) \cup VersionsOf(rec'.revoked)
        BY DEF VersionsOf
    <2>5. QED BY <1>1, <2>2, <2>3, <2>4 DEF NoResurrection
<1>13. QED BY <1>7, <1>8, <1>9, <1>10, <1>11, <1>12 DEF IInv

(* What the three overrides share: the floor stays, and every version the  *)
(* new record holds was on record before.                                  *)
LEMMA OverrideFrame ==
    ASSUME IInv, NEW t \in Tuple, NEW c \in Contents,
           NEW new, new = [version |-> t.version, content |-> c],
           t \in rec.tuples \cup rec.revoked
    PROVE  /\ new \in Tuple /\ new.version = t.version
           /\ t.version <= rec.floor
           /\ t.version \notin evicted
           /\ rec.floor \in Nat /\ IsFiniteSet(rec.tuples)
<1>1. new \in Tuple /\ new.version = t.version
    BY DEF Tuple
<1>2. t.version <= rec.floor /\ IsFiniteSet(rec.tuples) /\ rec.floor \in Nat
    BY FieldTypes DEF IInv, Bounded, OnRecord
<1>3. t.version \notin evicted
    BY DEF IInv, NoResurrection, VersionsOf
<1>4. QED BY <1>1, <1>2, <1>3

(* A reviewed delete preserves the invariant. *)
LEMMA DeleteIInv ==
    ASSUME IInv, NEW t \in Tuple, Delete(t)
    PROVE  IInv'
<1>1. /\ t \in rec.tuples
      /\ everHeld' = everHeld /\ authorised' = authorised /\ evicted' = evicted
      /\ rec' = [rec EXCEPT !.tuples = @ \ {t}, !.revoked = @ \cup {t}]
    BY DEF Delete, RevokeDelete
<1>2. TypeOK /\ OnRecord /\ Bounded /\ RevokedNotServed /\ BytesImmutable /\ NoResurrection
    BY DEF IInv
<1>3. /\ rec \in ScrapeRecord /\ rec.tuples \in SUBSET Tuple /\ rec.revoked \in SUBSET Tuple
      /\ IsFiniteSet(rec.tuples)
    BY <1>2, FieldTypes DEF OnRecord
<1>4. /\ rec'.tuples = rec.tuples \ {t} /\ rec'.revoked = rec.revoked \cup {t}
      /\ rec'.floor = rec.floor /\ rec' \in ScrapeRecord
    BY <1>1, <1>3 DEF ScrapeRecord
<1>5. TypeOK'
    BY <1>1, <1>2, <1>4 DEF TypeOK
<1>6. OnRecord'
    <2>1. IsFiniteSet(rec'.tuples)
        BY <1>3, <1>4, FS_Subset
    <2>2. OneTuplePerVersion(rec'.revoked)
        BY <1>1, <1>2, <1>4 DEF OnRecord, OneTuplePerVersion, RevokedNotServed, VersionsOf
    <2>3. rec'.tuples \cup rec'.revoked = rec.tuples \cup rec.revoked
        BY <1>1, <1>4
    <2>4. QED BY <1>1, <1>2, <1>4, <2>1, <2>2, <2>3 DEF OnRecord
<1>7. Bounded'
    BY <1>1, <1>2, <1>4 DEF Bounded
<1>8. RevokedNotServed'
    BY <1>1, <1>2, <1>4 DEF RevokedNotServed, OneTuplePerVersion, VersionsOf
<1>9. BytesImmutable'
    BY <1>1, <1>2 DEF BytesImmutable
<1>10. NoResurrection'
    <2>1. rec'.tuples \cup rec'.revoked = rec.tuples \cup rec.revoked
        BY <1>1, <1>4
    <2>2. QED BY <1>1, <1>2, <2>1 DEF NoResurrection
<1>11. QED BY <1>5, <1>6, <1>7, <1>8, <1>9, <1>10 DEF IInv

(* A reviewed replace preserves the invariant. *)
LEMMA ReplaceIInv ==
    ASSUME IInv, NEW t \in Tuple, NEW c \in Contents, Replace(t, c)
    PROVE  IInv'
<1> DEFINE new == [version |-> t.version, content |-> c]
<1>1. /\ t \in rec.tuples /\ evicted' = evicted
      /\ everHeld' = everHeld \cup rec'.tuples /\ authorised' = authorised \cup {new}
      /\ rec' = [rec EXCEPT !.tuples = (@ \ {t}) \cup {new}]
    BY DEF Replace, RevokeReplace
<1>2. TypeOK /\ OnRecord /\ Bounded /\ RevokedNotServed /\ BytesImmutable /\ NoResurrection
    BY DEF IInv
<1>3. /\ new \in Tuple /\ new.version = t.version /\ t.version <= rec.floor
      /\ t.version \notin evicted /\ IsFiniteSet(rec.tuples)
    BY <1>1, OverrideFrame
<1> HIDE DEF new
<1>4. /\ rec'.tuples = (rec.tuples \ {t}) \cup {new} /\ rec'.revoked = rec.revoked
      /\ rec'.floor = rec.floor /\ rec' \in ScrapeRecord
    BY <1>1, <1>2, <1>3, FieldTypes DEF ScrapeRecord
<1>5. VersionsOf(rec'.tuples) = VersionsOf(rec.tuples)
    BY <1>1, <1>3, <1>4 DEF VersionsOf
<1>6. everHeld' = everHeld \cup {new}
    BY <1>1, <1>2, <1>4 DEF OnRecord
<1>7. TypeOK'
    BY <1>1, <1>2, <1>3, <1>4, <1>6 DEF TypeOK
<1>8. OnRecord'
    <2>1. IsFiniteSet(rec'.tuples)
        <3>1. IsFiniteSet(rec.tuples \ {t})
            BY <1>3, FS_RemoveElement
        <3>2. QED BY <1>4, <3>1, FS_AddElement
    <2>2. VersionsOf(rec'.tuples \cup rec'.revoked) = VersionsOf(rec.tuples \cup rec.revoked)
        BY <1>4, <1>5 DEF VersionsOf
    <2>3. QED BY <1>1, <1>2, <1>4, <2>1, <2>2 DEF OnRecord
<1>9. Bounded'
    BY <1>1, <1>2, <1>3, <1>4, <1>6 DEF Bounded
<1>10. RevokedNotServed'
    <2>1. OneTuplePerVersion(rec'.tuples)
        BY <1>1, <1>2, <1>3, <1>4 DEF RevokedNotServed, OneTuplePerVersion
    <2>2. QED BY <1>2, <1>4, <1>5, <2>1 DEF RevokedNotServed
<1>11. BytesImmutable'
    BY <1>1, <1>2, <1>6 DEF BytesImmutable
<1>12. NoResurrection'
    <2>1. VersionsOf(rec'.tuples \cup rec'.revoked) = VersionsOf(rec.tuples \cup rec.revoked)
        BY <1>4, <1>5 DEF VersionsOf
    <2>2. QED BY <1>1, <1>2, <2>1 DEF NoResurrection
<1>13. QED BY <1>7, <1>8, <1>9, <1>10, <1>11, <1>12 DEF IInv

(* A reviewed readmit preserves the invariant. *)
LEMMA ReadmitIInv ==
    ASSUME IInv, NEW t \in Tuple, NEW c \in Contents, Readmit(t, c)
    PROVE  IInv'
<1> DEFINE new == [version |-> t.version, content |-> c]
<1>1. /\ t \in rec.revoked /\ evicted' = evicted
      /\ everHeld' = everHeld \cup rec'.tuples /\ authorised' = authorised \cup {new}
      /\ rec' = [rec EXCEPT !.tuples = @ \cup {new}, !.revoked = @ \ {t}]
    BY DEF Readmit, RevokeReadmit
<1>2. TypeOK /\ OnRecord /\ Bounded /\ RevokedNotServed /\ BytesImmutable /\ NoResurrection
    BY DEF IInv
<1>3. /\ new \in Tuple /\ new.version = t.version /\ t.version <= rec.floor
      /\ t.version \notin evicted /\ IsFiniteSet(rec.tuples)
    BY <1>1, OverrideFrame
<1> HIDE DEF new
<1>4. /\ rec'.tuples = rec.tuples \cup {new} /\ rec'.revoked = rec.revoked \ {t}
      /\ rec'.floor = rec.floor /\ rec' \in ScrapeRecord
    BY <1>1, <1>2, <1>3, FieldTypes DEF ScrapeRecord
<1>5. everHeld' = everHeld \cup {new}
    BY <1>1, <1>2, <1>4 DEF OnRecord
<1>6. VersionsOf(rec'.tuples \cup rec'.revoked) = VersionsOf(rec.tuples \cup rec.revoked)
    BY <1>1, <1>3, <1>4 DEF VersionsOf
<1>7. TypeOK'
    BY <1>1, <1>2, <1>3, <1>4, <1>5 DEF TypeOK
<1>8. OnRecord'
    <2>1. IsFiniteSet(rec'.tuples)
        BY <1>3, <1>4, FS_AddElement
    <2>2. OneTuplePerVersion(rec'.revoked)
        BY <1>2, <1>4 DEF OnRecord, OneTuplePerVersion
    <2>3. QED BY <1>1, <1>2, <1>4, <1>6, <2>1, <2>2 DEF OnRecord
<1>9. Bounded'
    BY <1>1, <1>2, <1>3, <1>4, <1>5 DEF Bounded
<1>10. RevokedNotServed'
    <2>1. \A u \in rec.tuples : u.version # t.version
        BY <1>1, <1>2 DEF RevokedNotServed, VersionsOf
    <2>2. \A u \in rec'.revoked : u.version # t.version
        BY <1>1, <1>2, <1>4 DEF OnRecord, OneTuplePerVersion
    <2>3. OneTuplePerVersion(rec'.tuples)
        BY <1>2, <1>3, <1>4, <2>1 DEF RevokedNotServed, OneTuplePerVersion
    <2>4. VersionsOf(rec'.tuples) \cap VersionsOf(rec'.revoked) = {}
        BY <1>2, <1>3, <1>4, <2>2 DEF RevokedNotServed, VersionsOf
    <2>5. QED BY <2>3, <2>4 DEF RevokedNotServed
<1>11. BytesImmutable'
    BY <1>1, <1>2, <1>5 DEF BytesImmutable
<1>12. NoResurrection'
    BY <1>1, <1>2, <1>6 DEF NoResurrection
<1>13. QED BY <1>7, <1>8, <1>9, <1>10, <1>11, <1>12 DEF IInv

LEMMA NextIInv == IInv /\ [Next]_vars => IInv'
<1> SUFFICES ASSUME IInv, [Next]_vars PROVE IInv'
    OBVIOUS
<1>1. CASE UNCHANGED vars
    BY <1>1 DEF vars, IInv, TypeOK, OnRecord, Bounded, RevokedNotServed, BytesImmutable,
                NoResurrection
<1>2. CASE Next
    BY <1>2, ScrapeIInv, DeleteIInv, ReplaceIInv, ReadmitIInv DEF Next
<1>3. QED BY <1>1, <1>2

THEOREM Invariance == Spec => []IInv
<1>1. QED BY InitIInv, NextIInv, PTL DEF Spec

(* The record and its history stay in their domains. *)
THEOREM TypeCorrect == Spec => []TypeOK
<1>1. IInv => TypeOK
    BY DEF IInv
<1>2. QED BY <1>1, Invariance, PTL

(* floor_version is the high-water mark, and is accounted for on record. *)
THEOREM FloorCorrect == Spec => []FloorIsHighWater
<1>1. IInv => FloorIsHighWater
    BY DEF IInv, Bounded, OnRecord, FloorIsHighWater
<1>2. QED BY <1>1, Invariance, PTL

(* A revoked version is never served, and no version is served twice. *)
THEOREM RevocationHolds == Spec => []RevokedNotServed
<1>1. IInv => RevokedNotServed
    BY DEF IInv
<1>2. QED BY <1>1, Invariance, PTL

(* No sequence of feeds changes the bytes of a published version. *)
THEOREM BytesHold == Spec => []BytesImmutable
<1>1. IInv => BytesImmutable
    BY DEF IInv
<1>2. QED BY <1>1, Invariance, PTL

(* A version dropped by retention never returns. *)
THEOREM EvictionIsFinal == Spec => []NoResurrection
<1>1. IInv => NoResurrection
    BY DEF IInv
<1>2. QED BY <1>1, Invariance, PTL

(* Whatever leaves the record without being revoked was evicted by a       *)
(* strictly newer admission; nothing newer than what stays ever goes.      *)
THEOREM EvictionNeedsNewer == Spec => OnlyNewerEvicts
<1>1. ASSUME IInv, [Next]_vars PROVE [DropsOnlyForNewer]_vars
    <2>1. CASE UNCHANGED vars
        BY <2>1
    <2>2. ASSUME NEW cands \in Candidates, Scrape(cands) PROVE DropsOnlyForNewer
        <3>1. rec' = Reconcile(rec, cands)
            BY <2>2 DEF Scrape
        <3>2. \A v \in VersionsOf(rec.tuples) \ VersionsOf(rec'.tuples) :
                 /\ rec'.floor > rec.floor
                 /\ \A w \in VersionsOf(rec'.tuples) : v < w
            BY <1>1, <3>1, ReconcileStep DEF IInv
        <3>3. VersionsOf(rec'.tuples) \subseteq VersionsOf(rec'.tuples \cup rec'.revoked)
            BY DEF VersionsOf
        <3>4. QED BY <3>2, <3>3 DEF DropsOnlyForNewer
    <2>3. ASSUME NEW t \in Tuple, NEW c \in Contents, Replace(t, c) \/ Readmit(t, c)
          PROVE  DropsOnlyForNewer
        <3> DEFINE new == [version |-> t.version, content |-> c]
        <3>1. rec \in ScrapeRecord /\ new.version = t.version
            BY <1>1, FieldTypes DEF IInv
        <3>2. new \in rec'.tuples /\ rec.tuples \ {t} \subseteq rec'.tuples
            <4>1. CASE Replace(t, c)
                BY <3>1, <4>1 DEF Replace, RevokeReplace, ScrapeRecord
            <4>2. CASE Readmit(t, c)
                BY <3>1, <4>2 DEF Readmit, RevokeReadmit, ScrapeRecord
            <4>3. QED BY <2>3, <4>1, <4>2
        <3> HIDE DEF new
        <3>3. VersionsOf(rec.tuples) \subseteq VersionsOf(rec'.tuples \cup rec'.revoked)
            BY <3>1, <3>2 DEF VersionsOf
        <3>4. QED BY <3>3 DEF DropsOnlyForNewer
    <2>4. ASSUME NEW t \in Tuple, Delete(t) PROVE DropsOnlyForNewer
        <3>1. VersionsOf(rec.tuples) \subseteq VersionsOf(rec'.tuples \cup rec'.revoked)
            BY <1>1, <2>4, FieldTypes DEF IInv, Delete, RevokeDelete, VersionsOf, ScrapeRecord
        <3>2. QED BY <3>1 DEF DropsOnlyForNewer
    <2>5. QED BY <1>1, <2>1, <2>2, <2>3, <2>4 DEF Next
<1>2. QED BY <1>1, Invariance, PTL DEF Spec, OnlyNewerEvicts
==============================================================================
