----------------------------- MODULE AdoptedProofs -----------------------------
(***************************************************************************)
(* The orders of VersionOrder are orders, for versions and keys of any     *)
(* length and whatever they hold; one pass over a listing finds its        *)
(* newest version; and the ledger, which ranks what it adopted by another  *)
(* comparison than the one that resolved it, still never goes back.        *)
(*                                                                         *)
(* What is defined by recursion (the pass of the resolvers, the fold of    *)
(* the queue) is unfolded from the existence of its function, and every    *)
(* induction is a least counterexample: LeastExists.                       *)
(***************************************************************************)
EXTENDS Adopted, TLAPS, FiniteSetTheorems, WellFoundedInduction

LEMMA LeastExists ==
    ASSUME NEW B \in SUBSET Nat, B # {}
    PROVE  \E m \in B : \A k \in B : m <= k
  <1> DEFINE T == {0..n : n \in B}
  <1>1. T \subseteq FiniteSubsetsOf(Nat) /\ T # {}
    <2>1. \A n \in Nat : IsFiniteSet(0..n) /\ 0..n \subseteq Nat
      BY FS_Interval
    <2> QED BY <2>1 DEF FiniteSubsetsOf
  <1>2. IsWellFoundedOn(StrictSubsetOrdering(Nat), FiniteSubsetsOf(Nat))
    BY FS_StrictSubsetOrderingWellFounded
  <1>3. PICK x \in T : \A y \in T : ~ (<<y, x>> \in StrictSubsetOrdering(Nat))
    <2> HIDE DEF T
    <2> QED BY <1>1, <1>2, WFMin
  <1>4. PICK m \in B : x = 0..m
    OBVIOUS
  <1>5. ASSUME NEW k \in B, k < m PROVE FALSE
    <2>1. 0..k \in T /\ 0..k \subseteq 0..m /\ 0..k # 0..m
      BY <1>5
    <2>2. <<0..k, 0..m>> \in StrictSubsetOrdering(Nat)
      BY <2>1, <1>4 DEF StrictSubsetOrdering
    <2> QED BY <1>3, <1>4, <2>1, <2>2
  <1> QED BY <1>5

LEMMA FirstExists ==
    ASSUME NEW D \in SUBSET Nat, D # {}
    PROVE  FirstOf(D) \in D /\ \A j \in D : FirstOf(D) <= j
  BY LeastExists DEF FirstOf

Preorder(C, X) ==
    /\ \A a, b \in X : C[a][b] \in {-1, 0, 1} /\ C[a][b] = -C[b][a]
    /\ \A a, b, c \in X : C[a][b] <= 0 /\ C[b][c] <= 0 => C[a][c] <= 0

Differ(C, a, b) == {i \in DOMAIN a \cap DOMAIN b : C[a[i]][b[i]] # 0}

Lex(C, a, b) == IF Differ(C, a, b) = {} THEN Sign(Len(a) - Len(b))
                ELSE LET i == FirstOf(Differ(C, a, b)) IN C[a[i]][b[i]]

Lexical(C, X) == [a \in Seq(X) |-> [b \in Seq(X) |-> Lex(C, a, b)]]

LEMMA Strict ==
    ASSUME NEW X, NEW C, Preorder(C, X), NEW a \in X, NEW b \in X, NEW c \in X
    PROVE  /\ C[a][b] \in {-1, 0, 1} /\ C[b][c] \in {-1, 0, 1} /\ C[a][c] \in {-1, 0, 1}
           /\ C[a][b] = -1 /\ C[b][c] <= 0 => C[a][c] = -1
           /\ C[a][b] <= 0 /\ C[b][c] = -1 => C[a][c] = -1
           /\ C[a][b] = 0 => C[a][c] = C[b][c] /\ C[c][a] = C[c][b]
  BY DEF Preorder

\* Nothing differs before i.
SameUpTo(C, a, b, i) == /\ i \in Nat \ {0} /\ i <= Len(a) + 1 /\ i <= Len(b) + 1
                        /\ \A j \in 1..(i - 1) : C[a[j]][b[j]] = 0

LEMMA LexAt ==
    ASSUME NEW X, NEW C, Preorder(C, X), NEW a \in Seq(X), NEW b \in Seq(X),
           NEW i, SameUpTo(C, a, b, i)
    PROVE  /\ i <= Len(a) /\ i <= Len(b) /\ C[a[i]][b[i]] # 0 => Lex(C, a, b) = C[a[i]][b[i]]
           /\ i > Len(a) /\ i <= Len(b) => Lex(C, a, b) = -1
           /\ i <= Len(a) /\ i > Len(b) => Lex(C, a, b) = 1
           /\ i > Len(a) /\ i > Len(b)  => Lex(C, a, b) = 0
  <1>1. CASE i <= Len(a) /\ i <= Len(b) /\ C[a[i]][b[i]] # 0
    <2>1. i \in Differ(C, a, b) /\ Differ(C, a, b) \in SUBSET Nat
      BY <1>1 DEF Differ, SameUpTo
    <2>2. \A j \in Differ(C, a, b) : i <= j
      BY DEF Differ, SameUpTo
    <2>3. FirstOf(Differ(C, a, b)) = i
      BY <2>1, <2>2, FirstExists
    <2> QED BY <1>1, <2>1, <2>3 DEF Lex, SameUpTo
  <1>2. CASE i > Len(a) \/ i > Len(b)
    <2>1. Differ(C, a, b) = {}
      BY <1>2 DEF Differ, SameUpTo
    <2> QED BY <1>2, <2>1 DEF Lex, Sign, SameUpTo
  <1> QED BY <1>1, <1>2 DEF SameUpTo

LEMMA LexPosition ==
    ASSUME NEW X, NEW C, Preorder(C, X), NEW a \in Seq(X), NEW b \in Seq(X)
    PROVE  \E i \in Nat : /\ SameUpTo(C, a, b, i)
                          /\ i <= Len(a) /\ i <= Len(b) => C[a[i]][b[i]] # 0
  <1>1. CASE Differ(C, a, b) = {}
    <2> DEFINE i == IF Len(a) <= Len(b) THEN Len(a) + 1 ELSE Len(b) + 1
    <2>1. i \in Nat /\ SameUpTo(C, a, b, i)
      BY <1>1 DEF Differ, SameUpTo
    <2> QED BY <2>1
  <1>2. CASE Differ(C, a, b) # {}
    <2>1. Differ(C, a, b) \in SUBSET Nat
      BY DEF Differ
    <2>2. PICK i \in Differ(C, a, b) : \A j \in Differ(C, a, b) : i <= j
      BY <1>2, <2>1, LeastExists
    <2>3. SameUpTo(C, a, b, i)
      BY <2>2 DEF Differ, SameUpTo
    <2> QED BY <2>1, <2>2, <2>3 DEF Differ
  <1> QED BY <1>1, <1>2

LEMMA LexReverse ==
    ASSUME NEW X, NEW C, Preorder(C, X), NEW a \in Seq(X), NEW b \in Seq(X)
    PROVE  Lex(C, a, b) \in {-1, 0, 1} /\ Lex(C, a, b) = -Lex(C, b, a)
  <1>1. PICK i \in Nat : /\ SameUpTo(C, a, b, i)
                         /\ i <= Len(a) /\ i <= Len(b) => C[a[i]][b[i]] # 0
    BY LexPosition
  <1>2. /\ \A j \in 1..Len(a) : a[j] \in X
        /\ \A j \in 1..Len(b) : b[j] \in X
    OBVIOUS
  <1>3. SameUpTo(C, b, a, i)
    BY <1>1, <1>2 DEF SameUpTo, Preorder
  <1>4. i <= Len(a) /\ i <= Len(b) => C[a[i]][b[i]] \in {-1, 0, 1} /\ C[a[i]][b[i]] = -C[b[i]][a[i]]
    BY <1>1, <1>2 DEF SameUpTo, Preorder
  <1>5. CASE i <= Len(a) /\ i <= Len(b)
    <2>1. Lex(C, a, b) = C[a[i]][b[i]]
      BY <1>1, <1>5, LexAt
    <2>2. Lex(C, b, a) = C[b[i]][a[i]]
      BY <1>1, <1>3, <1>4, <1>5, LexAt
    <2> QED BY <1>4, <1>5, <2>1, <2>2
  <1>6. CASE i > Len(a) \/ i > Len(b)
    <2>1. Lex(C, a, b) = IF i > Len(a) THEN IF i > Len(b) THEN 0 ELSE -1 ELSE 1
      BY <1>1, <1>6, LexAt
    <2>2. Lex(C, b, a) = IF i > Len(a) THEN IF i > Len(b) THEN 0 ELSE 1 ELSE -1
      BY <1>3, <1>6, LexAt
    <2> QED BY <2>1, <2>2
  <1> QED BY <1>5, <1>6

LEMMA LexTransitive ==
    ASSUME NEW X, NEW C, Preorder(C, X),
           NEW a \in Seq(X), NEW b \in Seq(X), NEW c \in Seq(X),
           Lex(C, a, b) <= 0, Lex(C, b, c) <= 0
    PROVE  Lex(C, a, c) <= 0
  <1>1. PICK i \in Nat : /\ SameUpTo(C, a, b, i)
                         /\ i <= Len(a) /\ i <= Len(b) => C[a[i]][b[i]] # 0
    BY LexPosition
  <1>2. PICK k \in Nat : /\ SameUpTo(C, b, c, k)
                         /\ k <= Len(b) /\ k <= Len(c) => C[b[k]][c[k]] # 0
    BY LexPosition
  <1>3. /\ \A j \in 1..Len(a) : a[j] \in X
        /\ \A j \in 1..Len(b) : b[j] \in X
        /\ \A j \in 1..Len(c) : c[j] \in X
        /\ Len(a) \in Nat /\ Len(b) \in Nat /\ Len(c) \in Nat
    OBVIOUS
  <1>4. ASSUME NEW n \in Nat, SameUpTo(C, a, b, n), SameUpTo(C, b, c, n)
        PROVE  SameUpTo(C, a, c, n)
    <2>1. ASSUME NEW j \in 1..(n - 1) PROVE C[a[j]][c[j]] = 0
      <3>1. /\ a[j] \in X /\ b[j] \in X /\ c[j] \in X
            /\ C[a[j]][b[j]] = 0 /\ C[b[j]][c[j]] = 0
        BY <1>3, <1>4 DEF SameUpTo
      <3> QED BY <3>1, Strict
    <2> QED BY <1>4, <2>1 DEF SameUpTo
  <1>5. CASE i < k
    <2>1. SameUpTo(C, b, c, i) /\ i <= Len(b) /\ i <= Len(c) /\ C[b[i]][c[i]] = 0
      BY <1>1, <1>2, <1>3, <1>5 DEF SameUpTo
    <2>2. SameUpTo(C, a, c, i)
      BY <1>1, <1>4, <2>1
    <2>3. CASE i <= Len(a)
      <3>1. /\ a[i] \in X /\ b[i] \in X /\ c[i] \in X /\ C[a[i]][b[i]] # 0
            /\ Lex(C, a, b) = C[a[i]][b[i]]
        BY <1>1, <1>3, <2>1, <2>3, LexAt DEF SameUpTo
      <3>2. C[a[i]][c[i]] = -1
        BY <2>1, <3>1, Strict
      <3>3. Lex(C, a, c) = -1
        BY <2>1, <2>2, <2>3, <3>2, LexAt
      <3> QED BY <3>3
    <2>4. CASE i > Len(a)
      <3>1. Lex(C, a, c) = -1
        BY <2>1, <2>2, <2>4, LexAt
      <3> QED BY <3>1
    <2> QED BY <1>3, <2>3, <2>4
  <1>6. CASE k < i
    <2>1. SameUpTo(C, a, b, k) /\ k <= Len(a) /\ k <= Len(b) /\ C[a[k]][b[k]] = 0
      BY <1>1, <1>2, <1>3, <1>6 DEF SameUpTo
    <2>2. SameUpTo(C, a, c, k)
      BY <1>2, <1>4, <2>1
    <2>3. CASE k <= Len(c)
      <3>1. /\ a[k] \in X /\ b[k] \in X /\ c[k] \in X /\ C[b[k]][c[k]] # 0
            /\ Lex(C, b, c) = C[b[k]][c[k]]
        BY <1>2, <1>3, <2>1, <2>3, LexAt DEF SameUpTo
      <3>2. C[a[k]][c[k]] = -1
        BY <2>1, <3>1, Strict
      <3>3. Lex(C, a, c) = -1
        BY <2>1, <2>2, <2>3, <3>2, LexAt
      <3> QED BY <3>3
    <2>4. CASE k > Len(c)
      <3>1. Lex(C, b, c) = 1
        BY <1>2, <2>1, <2>4, LexAt
      <3> QED BY <3>1
    <2> QED BY <1>3, <2>3, <2>4
  <1>7. CASE i = k
    <2>1. SameUpTo(C, a, c, i) /\ SameUpTo(C, b, c, i)
      BY <1>1, <1>2, <1>4, <1>7
    <2>2. CASE i <= Len(a) /\ i <= Len(b) /\ i <= Len(c)
      <3>1. a[i] \in X /\ b[i] \in X /\ c[i] \in X
        BY <1>1, <1>3, <2>2 DEF SameUpTo
      <3>2. C[a[i]][b[i]] # 0 /\ Lex(C, a, b) = C[a[i]][b[i]]
        BY <1>1, <2>2, LexAt
      <3>3. C[b[i]][c[i]] # 0 /\ Lex(C, b, c) = C[b[i]][c[i]]
        BY <1>2, <1>7, <2>2, LexAt
      <3>4. C[a[i]][c[i]] = -1
        BY <3>1, <3>2, <3>3, Strict
      <3>5. Lex(C, a, c) = -1
        BY <2>1, <2>2, <3>4, LexAt
      <3> QED BY <3>5
    <2>3. ~(i <= Len(a) /\ i > Len(b)) /\ ~(i <= Len(b) /\ i > Len(c))
      <3>1. i <= Len(a) /\ i > Len(b) => Lex(C, a, b) = 1
        BY <1>1, LexAt
      <3>2. i <= Len(b) /\ i > Len(c) => Lex(C, b, c) = 1
        BY <2>1, LexAt
      <3> QED BY <3>1, <3>2
    <2>4. CASE i > Len(a)
      <3>1. Lex(C, a, c) \in {-1, 0}
        BY <1>3, <2>1, <2>4, LexAt
      <3> QED BY <3>1
    <2> QED BY <1>3, <2>2, <2>3, <2>4
  <1> QED BY <1>5, <1>6, <1>7

LEMMA LexicalPreorder ==
    ASSUME NEW X, NEW C, Preorder(C, X)
    PROVE  Preorder(Lexical(C, X), Seq(X))
  <1>1. \A a, b \in Seq(X) : Lexical(C, X)[a][b] = Lex(C, a, b)
    BY DEF Lexical
  <1>2. \A a, b \in Seq(X) : Lex(C, a, b) \in {-1, 0, 1} /\ Lex(C, a, b) = -Lex(C, b, a)
    BY LexReverse
  <1>3. \A a, b, c \in Seq(X) : Lex(C, a, b) <= 0 /\ Lex(C, b, c) <= 0 => Lex(C, a, c) <= 0
    BY LexTransitive
  <1> HIDE DEF Lexical, Lex
  <1> QED BY <1>1, <1>2, <1>3 DEF Preorder

------------------------------------------------------------------------------
RunOrder == [a \in Run |-> [b \in Run |-> CompareRun(a, b)]]

LEMMA RunTyped ==
    ASSUME NEW r \in Run
    PROVE  r.place \in Int /\ r.value \in Nat
  <1>1. CASE r \in Numeral
    <2>1. r.place \in {0} /\ r.value \in Values
      BY <1>1 DEF Numeral
    <2>2. r.place \in Int
      BY <2>1
    <2>3. r.value \in Nat
      BY <2>1, ValuesAssumption
    <2> QED BY <2>2, <2>3
  <1>2. CASE r \in Text
    <2>1. r.place \in Texts /\ r.value = 0
      BY <1>2 DEF Text
    <2>2. r.place \in Int
      BY <2>1, TextsAssumption
    <2> QED BY <2>1, <2>2
  <1> QED BY <1>1, <1>2 DEF Run

LEMMA SignFacts ==
    ASSUME NEW n \in Int
    PROVE  /\ Sign(n) \in {-1, 0, 1} /\ Sign(-n) = -Sign(n)
           /\ Sign(n) <= 0 <=> n <= 0
           /\ Sign(n) = 0 <=> n = 0
  BY DEF Sign

LEMMA RunPreorder == Preorder(RunOrder, Run)
  <1>1. \A a, b \in Run : RunOrder[a][b] =
            IF a.place = 0 /\ b.place = 0 THEN Sign(a.value - b.value) ELSE Sign(a.place - b.place)
    BY DEF RunOrder, CompareRun, Digits
  <1>2. \A a \in Run : a.place \in Int /\ a.value \in Nat
    BY RunTyped
  <1> HIDE DEF RunOrder
  <1>3. ASSUME NEW a \in Run, NEW b \in Run
        PROVE  RunOrder[a][b] \in {-1, 0, 1} /\ RunOrder[a][b] = -RunOrder[b][a]
    BY <1>1, <1>2 DEF Sign
  <1>4. ASSUME NEW a \in Run, NEW b \in Run, NEW c \in Run,
               RunOrder[a][b] <= 0, RunOrder[b][c] <= 0
        PROVE  RunOrder[a][c] <= 0
    <2> DEFINE Below(x, y) == IF x.place = 0 /\ y.place = 0 THEN x.value <= y.value
                                                            ELSE x.place <= y.place
    <2>1. \A x, y \in Run : RunOrder[x][y] <= 0 <=> Below(x, y)
      <3> SUFFICES ASSUME NEW x \in Run, NEW y \in Run
                   PROVE  RunOrder[x][y] <= 0 <=> Below(x, y)
        OBVIOUS
      <3>1. /\ x.value - y.value \in Int /\ x.place - y.place \in Int
            /\ x.value - y.value <= 0 <=> x.value <= y.value
            /\ x.place - y.place <= 0 <=> x.place <= y.place
        BY <1>2
      <3> QED BY <1>1, <3>1, SignFacts
    <2>2. Below(a, b) /\ Below(b, c) => Below(a, c)
      BY <1>2
    <2> QED BY <1>4, <2>1, <2>2
  <1> QED BY <1>3, <1>4 DEF Preorder

NaturalOrder == Lexical(RunOrder, Run)

LEMMA NaturalIsLexical ==
    ASSUME NEW a \in Seq(Run), NEW b \in Seq(Run)
    PROVE  CompareNatural(a, b) = NaturalOrder[a][b]
  <1>1. \A i \in DOMAIN a \cap DOMAIN b : RunOrder[a[i]][b[i]] = CompareRun(a[i], b[i])
    BY DEF RunOrder
  <1>2. Differ(RunOrder, a, b) = {i \in DOMAIN a \cap DOMAIN b : CompareRun(a[i], b[i]) # 0}
    BY <1>1 DEF Differ
  <1>3. Differ(RunOrder, a, b) # {} => FirstOf(Differ(RunOrder, a, b)) \in DOMAIN a \cap DOMAIN b
    <2>1. Differ(RunOrder, a, b) \in SUBSET Nat
      BY DEF Differ
    <2> QED BY <2>1, FirstExists DEF Differ
  <1>4. CompareNatural(a, b) = Lex(RunOrder, a, b)
    BY <1>1, <1>2, <1>3 DEF CompareNatural, Ordered, Lex
  <1> QED BY <1>4 DEF NaturalOrder, Lexical

LEMMA NaturalPreorder == Preorder(NaturalOrder, Seq(Run))
  BY RunPreorder, LexicalPreorder DEF NaturalOrder

KeyOrder == Lexical(NaturalOrder, Seq(Run))

LEMMA KeyPreorder == Preorder(KeyOrder, Seq(Seq(Run)))
  BY NaturalPreorder, LexicalPreorder DEF KeyOrder

LEMMA KeyIsLexical ==
    ASSUME NEW s \in Seq(Seq(Run)), NEW t \in Seq(Seq(Run))
    PROVE  CompareProviderKey(s, t) = KeyOrder[s][t]
  <1>1. \A i \in DOMAIN s \cap DOMAIN t : CompareNatural(s[i], t[i]) = NaturalOrder[s[i]][t[i]]
    BY NaturalIsLexical
  <1>2. Differ(NaturalOrder, s, t) = {i \in DOMAIN s \cap DOMAIN t : CompareNatural(s[i], t[i]) # 0}
    BY <1>1 DEF Differ
  <1>3. Differ(NaturalOrder, s, t) # {}
            => FirstOf(Differ(NaturalOrder, s, t)) \in DOMAIN s \cap DOMAIN t
    <2>1. Differ(NaturalOrder, s, t) \in SUBSET Nat
      BY DEF Differ
    <2> QED BY <2>1, FirstExists DEF Differ
  <1>4. CompareProviderKey(s, t) = Lex(NaturalOrder, s, t)
    BY <1>1, <1>2, <1>3 DEF CompareProviderKey, Ordered, Lex
  <1> QED BY <1>4 DEF KeyOrder, Lexical

------------------------------------------------------------------------------
CaselessOrder   == [a \in Seq(Run) |-> [b \in Seq(Run) |-> NaturalOrder[Lowered(a)][Lowered(b)]]]
PrereleaseOrder == Lexical(CaselessOrder, Seq(Run))

LEMMA LoweredTyped == ASSUME NEW a \in Seq(Run) PROVE Lowered(a) \in Seq(Run)
  <1>1. ASSUME NEW r \in Run
        PROVE  (IF Digits(r) THEN r ELSE [r EXCEPT !.place = Lower[@]]) \in Run
    <2>1. CASE r \in Numeral
      BY <2>1 DEF Digits, Numeral
    <2>2. CASE r \in Text
      BY <2>2, TextsAssumption DEF Text, Run
    <2> QED BY <2>1, <2>2 DEF Run
  <1>2. \A i \in 1..Len(a) : Lowered(a)[i] \in Run
    BY <1>1 DEF Lowered
  <1>3. /\ Len(a) \in Nat /\ DOMAIN Lowered(a) = 1..Len(a)
        /\ Lowered(a) = [i \in 1..Len(a) |-> Lowered(a)[i]]
    BY DEF Lowered
  <1> HIDE DEF Lowered
  <1>4. Lowered(a) \in [1..Len(a) -> Run]
    BY <1>2, <1>3
  <1> QED BY <1>3, <1>4

LEMMA PrereleasePreorder == Preorder(PrereleaseOrder, Seq(Seq(Run)))
  <1>1. \A a, b \in Seq(Run) : CaselessOrder[a][b] = NaturalOrder[Lowered(a)][Lowered(b)]
    BY DEF CaselessOrder
  <1>2. Preorder(CaselessOrder, Seq(Run))
    <2>1. ASSUME NEW a \in Seq(Run), NEW b \in Seq(Run)
          PROVE  /\ CaselessOrder[a][b] \in {-1, 0, 1}
                 /\ CaselessOrder[a][b] = -CaselessOrder[b][a]
      BY <1>1, LoweredTyped, NaturalPreorder DEF Preorder
    <2>2. ASSUME NEW a \in Seq(Run), NEW b \in Seq(Run), NEW c \in Seq(Run),
                 CaselessOrder[a][b] <= 0, CaselessOrder[b][c] <= 0
          PROVE  CaselessOrder[a][c] <= 0
      <3>1. Lowered(a) \in Seq(Run) /\ Lowered(b) \in Seq(Run) /\ Lowered(c) \in Seq(Run)
        BY LoweredTyped
      <3> QED BY <1>1, <2>2, <3>1, NaturalPreorder DEF Preorder
    <2> QED BY <2>1, <2>2 DEF Preorder
  <1> QED BY <1>2, LexicalPreorder DEF PrereleaseOrder

LEMMA PrereleaseIsLexical ==
    ASSUME NEW p \in Seq(Seq(Run)), NEW q \in Seq(Seq(Run))
    PROVE  ComparePrerelease(p, q) = PrereleaseOrder[p][q]
  <1> DEFINE Cmp(a, b) == CompareNatural(Lowered(a), Lowered(b))
  <1>1. \A i \in DOMAIN p \cap DOMAIN q : Cmp(p[i], q[i]) = CaselessOrder[p[i]][q[i]]
    BY NaturalIsLexical, LoweredTyped DEF CaselessOrder
  <1>2. Differ(CaselessOrder, p, q) = {i \in DOMAIN p \cap DOMAIN q : Cmp(p[i], q[i]) # 0}
    BY <1>1 DEF Differ
  <1>3. Differ(CaselessOrder, p, q) # {}
            => FirstOf(Differ(CaselessOrder, p, q)) \in DOMAIN p \cap DOMAIN q
    <2>1. Differ(CaselessOrder, p, q) \in SUBSET Nat
      BY DEF Differ
    <2> QED BY <2>1, FirstExists DEF Differ
  <1>4. ComparePrerelease(p, q) = Lex(CaselessOrder, p, q)
    BY <1>1, <1>2, <1>3 DEF ComparePrerelease, Ordered, Lex
  <1> QED BY <1>4 DEF PrereleaseOrder, Lexical

------------------------------------------------------------------------------
Parsed == [core : Seq(Nat), prerelease : Seq(Seq(Run))]

NumberOrder == [a \in Nat |-> [b \in Nat |-> Sign(a - b)]]
CoreOrder   == Lexical(NumberOrder, Nat)
ParsedOrder == [v \in Parsed |-> [w \in Parsed |-> CompareParsed(v, w)]]

LEMMA CorePreorder == Preorder(CoreOrder, Seq(Nat))
  <1>1. \A a, b \in Nat : NumberOrder[a][b] = Sign(a - b)
    BY DEF NumberOrder
  <1>2. Preorder(NumberOrder, Nat)
    BY <1>1 DEF Preorder, Sign
  <1> QED BY <1>2, LexicalPreorder DEF CoreOrder

LEMMA ParsedCases ==
    ASSUME NEW v \in Parsed, NEW w \in Parsed
    PROVE  CompareParsed(v, w) =
              IF CoreOrder[v.core][w.core] # 0 THEN CoreOrder[v.core][w.core]
              ELSE IF v.prerelease # <<>> /\ w.prerelease # <<>>
                   THEN PrereleaseOrder[v.prerelease][w.prerelease]
              ELSE (IF v.prerelease # <<>> THEN 0 ELSE 1) - (IF w.prerelease # <<>> THEN 0 ELSE 1)
  <1> DEFINE a == v.core
             b == w.core
             number(x, y) == Sign(x - y)
  <1>0. /\ a \in Seq(Nat) /\ b \in Seq(Nat)
        /\ v.prerelease \in Seq(Seq(Run)) /\ w.prerelease \in Seq(Seq(Run))
    BY DEF Parsed
  <1>1. \A i \in DOMAIN a \cap DOMAIN b : NumberOrder[a[i]][b[i]] = number(a[i], b[i])
    <2>1. \A i \in DOMAIN a \cap DOMAIN b : a[i] \in Nat /\ b[i] \in Nat
      BY <1>0
    <2> QED BY <2>1 DEF NumberOrder
  <1>2. Differ(NumberOrder, a, b) = {i \in DOMAIN a \cap DOMAIN b : number(a[i], b[i]) # 0}
    BY <1>1 DEF Differ
  <1>3. Differ(NumberOrder, a, b) # {}
            => FirstOf(Differ(NumberOrder, a, b)) \in DOMAIN a \cap DOMAIN b
    <2>1. Differ(NumberOrder, a, b) \in SUBSET Nat
      BY <1>0 DEF Differ
    <2> QED BY <2>1, FirstExists DEF Differ
  <1>4. Ordered(number, a, b) = Lex(NumberOrder, a, b)
    BY <1>1, <1>2, <1>3 DEF Ordered, Lex
  <1>5. Ordered(number, a, b) = CoreOrder[a][b]
    BY <1>0, <1>4 DEF CoreOrder, Lexical
  <1>6. ComparePrerelease(v.prerelease, w.prerelease) = PrereleaseOrder[v.prerelease][w.prerelease]
    BY <1>0, PrereleaseIsLexical
  <1> QED BY <1>5, <1>6 DEF CompareParsed, IsPrerelease

LEMMA ParsedPreorder == Preorder(ParsedOrder, Parsed)
  <1> DEFINE K(v, w) == CoreOrder[v.core][w.core]
             P(v, w) == PrereleaseOrder[v.prerelease][w.prerelease]
             R(v, w) == IF v.prerelease # <<>> /\ w.prerelease # <<>> THEN P(v, w)
                        ELSE (IF v.prerelease # <<>> THEN 0 ELSE 1)
                                - (IF w.prerelease # <<>> THEN 0 ELSE 1)
  <1>1. \A v, w \in Parsed : ParsedOrder[v][w] = IF K(v, w) # 0 THEN K(v, w) ELSE R(v, w)
    BY ParsedCases DEF ParsedOrder
  <1>2. \A v \in Parsed : v.core \in Seq(Nat) /\ v.prerelease \in Seq(Seq(Run))
    BY DEF Parsed
  <1>3. /\ \A v, w \in Parsed : K(v, w) \in {-1, 0, 1} /\ K(v, w) = -K(w, v)
        /\ \A v, w \in Parsed : P(v, w) \in {-1, 0, 1} /\ P(v, w) = -P(w, v)
    BY <1>2, CorePreorder, PrereleasePreorder DEF Preorder
  <1>4. ASSUME NEW u \in Parsed, NEW v \in Parsed, NEW w \in Parsed
        PROVE  /\ K(u, v) = -1 /\ K(v, w) <= 0 => K(u, w) = -1
               /\ K(u, v) <= 0 /\ K(v, w) = -1 => K(u, w) = -1
               /\ K(u, v) = 0 /\ K(v, w) = 0 => K(u, w) = 0
    BY <1>2, CorePreorder, Strict
  <1>5. ASSUME NEW u \in Parsed, NEW v \in Parsed, NEW w \in Parsed
        PROVE  P(u, v) <= 0 /\ P(v, w) <= 0 => P(u, w) <= 0
    BY <1>2, PrereleasePreorder DEF Preorder
  <1> HIDE DEF K, P, ParsedOrder
  <1>6. ASSUME NEW v \in Parsed, NEW w \in Parsed
        PROVE  ParsedOrder[v][w] \in {-1, 0, 1} /\ ParsedOrder[v][w] = -ParsedOrder[w][v]
    BY <1>1, <1>3
  <1>7. ASSUME NEW u \in Parsed, NEW v \in Parsed, NEW w \in Parsed,
               ParsedOrder[u][v] <= 0, ParsedOrder[v][w] <= 0
        PROVE  ParsedOrder[u][w] <= 0
    <2>1. /\ K(u, v) \in {-1, 0, 1} /\ K(v, w) \in {-1, 0, 1} /\ K(u, w) \in {-1, 0, 1}
          /\ P(u, v) \in {-1, 0, 1} /\ P(v, w) \in {-1, 0, 1} /\ P(u, w) \in {-1, 0, 1}
      BY <1>3
    <2>2. K(u, v) <= 0 /\ K(v, w) <= 0
      BY <1>1, <1>7, <2>1
    <2>3. R(u, v) <= 0 /\ R(v, w) <= 0 => R(u, w) <= 0
      BY <1>5, <2>1
    <2> QED BY <1>1, <1>4, <1>7, <2>1, <2>2, <2>3
  <1> QED BY <1>6, <1>7 DEF Preorder

LEMMA ParseTyped == ASSUME NEW s \in Listed PROVE Parse(s) \in Parsed
  <1> DEFINE core == [i \in 1..3 |-> IF i <= Len(s.core) THEN s.core[i].value ELSE 0]
             pre  == IF s.dashed # <<>> THEN s.dashed
                     ELSE IF s.tail # <<>> THEN <<s.tail>> ELSE <<>>
  <1>1. s.core \in Seq(Numeral) /\ s.tail \in Seq(Run) /\ s.dashed \in Seq(Seq(Run))
    BY WrittenAssumption
  <1>2. \A r \in Numeral : r.value \in Nat
    BY RunTyped DEF Run
  <1>3. ASSUME NEW i \in 1..3 PROVE core[i] \in Nat
    BY <1>1, <1>2
  <1>4. core \in [1..3 -> Nat]
    BY <1>3
  <1>5. core \in Seq(Nat)
    BY <1>4
  <1>6. pre \in Seq(Seq(Run))
    BY <1>1
  <1> HIDE DEF core, pre
  <1>7. [core |-> core, prerelease |-> pre] \in Parsed
    BY <1>5, <1>6 DEF Parsed
  <1> QED BY <1>7 DEF Parse, core, pre

(* compare_str is a total preorder on whatever a source may list: numbers  *)
(* of any size, prereleases of any length, text, case and leading zeros.   *)
(* A sort, a floor and a maximum by it mean something.                     *)
THEOREM VersionsOrdered == Preorder(Compared, Listed)
  <1>1. \A s, t \in Listed : Compared[s][t] = ParsedOrder[Parse(s)][Parse(t)]
    BY ParseTyped DEF Compared, ParsedOrder
  <1>2. \A s \in Listed : Parse(s) \in Parsed
    BY ParseTyped
  <1> HIDE DEF Compared
  <1> QED BY <1>1, <1>2, ParsedPreorder DEF Preorder

(* So are compare_prerelease and compare_provider_key, on identifiers and  *)
(* ordering keys of any length.                                            *)
THEOREM KeysOrdered ==
    /\ \A s, t \in Seq(Seq(Run)) :
          /\ CompareProviderKey(s, t) \in {-1, 0, 1}
          /\ CompareProviderKey(s, t) = -CompareProviderKey(t, s)
          /\ ComparePrerelease(s, t) \in {-1, 0, 1}
          /\ ComparePrerelease(s, t) = -ComparePrerelease(t, s)
    /\ \A s, t, u \in Seq(Seq(Run)) :
          /\ CompareProviderKey(s, t) <= 0 /\ CompareProviderKey(t, u) <= 0
                => CompareProviderKey(s, u) <= 0
          /\ ComparePrerelease(s, t) <= 0 /\ ComparePrerelease(t, u) <= 0
                => ComparePrerelease(s, u) <= 0
  <1>1. \A s, t \in Seq(Seq(Run)) : /\ CompareProviderKey(s, t) = KeyOrder[s][t]
                                    /\ ComparePrerelease(s, t) = PrereleaseOrder[s][t]
    BY KeyIsLexical, PrereleaseIsLexical
  <1>2. ASSUME NEW s \in Seq(Seq(Run)), NEW t \in Seq(Seq(Run))
        PROVE  /\ KeyOrder[s][t] \in {-1, 0, 1} /\ KeyOrder[s][t] = -KeyOrder[t][s]
               /\ PrereleaseOrder[s][t] \in {-1, 0, 1}
               /\ PrereleaseOrder[s][t] = -PrereleaseOrder[t][s]
    BY KeyPreorder, PrereleasePreorder DEF Preorder
  <1>3. ASSUME NEW s \in Seq(Seq(Run)), NEW t \in Seq(Seq(Run)), NEW u \in Seq(Seq(Run))
        PROVE  /\ KeyOrder[s][t] <= 0 /\ KeyOrder[t][u] <= 0 => KeyOrder[s][u] <= 0
               /\ PrereleaseOrder[s][t] <= 0 /\ PrereleaseOrder[t][u] <= 0
                     => PrereleaseOrder[s][u] <= 0
    BY KeyPreorder, PrereleasePreorder DEF Preorder
  <1>4. ASSUME NEW s \in Seq(Seq(Run)), NEW t \in Seq(Seq(Run))
        PROVE  /\ CompareProviderKey(s, t) \in {-1, 0, 1}
               /\ CompareProviderKey(s, t) = -CompareProviderKey(t, s)
               /\ ComparePrerelease(s, t) \in {-1, 0, 1}
               /\ ComparePrerelease(s, t) = -ComparePrerelease(t, s)
    BY <1>1, <1>2
  <1>5. ASSUME NEW s \in Seq(Seq(Run)), NEW t \in Seq(Seq(Run)), NEW u \in Seq(Seq(Run))
        PROVE  /\ CompareProviderKey(s, t) <= 0 /\ CompareProviderKey(t, u) <= 0
                      => CompareProviderKey(s, u) <= 0
               /\ ComparePrerelease(s, t) <= 0 /\ ComparePrerelease(t, u) <= 0
                      => ComparePrerelease(s, u) <= 0
    <2>1. /\ CompareProviderKey(s, t) = KeyOrder[s][t]
          /\ CompareProviderKey(t, u) = KeyOrder[t][u]
          /\ CompareProviderKey(s, u) = KeyOrder[s][u]
      BY <1>1
    <2>2. /\ ComparePrerelease(s, t) = PrereleaseOrder[s][t]
          /\ ComparePrerelease(t, u) = PrereleaseOrder[t][u]
          /\ ComparePrerelease(s, u) = PrereleaseOrder[s][u]
      BY <1>1
    <2> QED BY <1>3, <2>1, <2>2
  <1> QED BY <1>4, <1>5

LEMMA CompareFacts ==
    ASSUME NEW s \in Listed, NEW t \in Listed, NEW u \in Listed
    PROVE  /\ CompareStr(s, t) \in {-1, 0, 1} /\ CompareStr(s, t) = -CompareStr(t, s)
           /\ CompareStr(s, t) <= 0 /\ CompareStr(t, u) <= 0 => CompareStr(s, u) <= 0
  BY VersionsOrdered DEF Preorder, CompareStr

------------------------------------------------------------------------------
(* The resolvers. *)

\* A pass over the first n versions listed.
Pass(l, counted, line, n, g) ==
    g = [i \in 0..n |->
            IF i = 0 THEN {}
            ELSE IF /\ l[i] \in counted
                    /\ Eligible(l[i], line) /\ Better(l[i], g[i - 1])
                 THEN {l[i]} ELSE g[i - 1]]

LEMMA PassExists ==
    ASSUME NEW l \in Seq(Listed), NEW counted, NEW line
    PROVE  \A n \in 0..Len(l) : \E g : Pass(l, counted, line, n, g)
  <1> DEFINE Missing == {n \in 0..Len(l) : ~ \E g : Pass(l, counted, line, n, g)}
  <1> SUFFICES ASSUME Missing # {} PROVE FALSE
    OBVIOUS
  <1>1. PICK n \in Missing : \A k \in Missing : n <= k
    <2>1. Missing \in SUBSET Nat
      OBVIOUS
    <2> HIDE DEF Missing
    <2> QED BY <2>1, LeastExists
  <1>2. CASE n = 0
    <2>1. Pass(l, counted, line, 0, [i \in 0..0 |-> {}])
      BY DEF Pass
    <2> QED BY <1>2, <2>1
  <1>3. CASE n # 0
    <2>1. n - 1 \in 0..Len(l) /\ n - 1 \notin Missing /\ n \in Nat
      BY <1>1, <1>3
    <2>2. PICK g : Pass(l, counted, line, n - 1, g)
      BY <2>1
    <2> DEFINE next(i, h) == IF /\ l[i] \in counted
                                /\ Eligible(l[i], line) /\ Better(l[i], h[i - 1])
                             THEN {l[i]} ELSE h[i - 1]
               h == [i \in 0..n |-> IF i < n THEN g[i] ELSE next(i, g)]
    <2>3. \A i \in 0..n : h[i] = IF i < n THEN g[i] ELSE next(i, g)
      OBVIOUS
    <2>4. \A i \in 0..(n - 1) : g[i] = IF i = 0 THEN {} ELSE next(i, g)
      BY <2>1, <2>2 DEF Pass
    <2>5. ASSUME NEW i \in 0..n PROVE h[i] = IF i = 0 THEN {} ELSE next(i, h)
      <3>1. i # 0 => i - 1 \in 0..n /\ i - 1 < n
        BY <2>1
      <3>2. i # 0 => h[i - 1] = g[i - 1]
        BY <2>3, <3>1
      <3>3. i # 0 => next(i, h) = next(i, g)
        BY <3>2
      <3>4. i < n => i \in 0..(n - 1)
        BY <2>1
      <3> HIDE DEF h, next
      <3> QED BY <1>3, <2>3, <2>4, <3>3, <3>4
    <2>6. Pass(l, counted, line, n, h)
      <3> HIDE DEF next
      <3>1. h = [i \in 0..n |-> h[i]]
        OBVIOUS
      <3> HIDE DEF h
      <3>2. h = [i \in 0..n |-> IF i = 0 THEN {} ELSE next(i, h)]
        BY <2>5, <3>1
      <3> QED BY <3>2 DEF Pass, next
    <2> QED BY <2>6
  <1> QED BY <1>2, <1>3

(* What the one pass finds: nothing only where there is nothing to find,   *)
(* and otherwise a version that no other candidate outranks.               *)
LEMMA ResolvedNewest ==
    ASSUME NEW l \in Seq(Listed), NEW counted, NEW line,
           NEW candidates, candidates = {i \in DOMAIN l : l[i] \in counted /\ Eligible(l[i], line)}
    PROVE  /\ Resolved(l, counted, line) = {} => candidates = {}
           /\ \A s \in Resolved(l, counted, line) :
                 /\ \E i \in candidates : l[i] = s
                 /\ \A i \in candidates : CompareStr(l[i], s) <= 0
  <1> DEFINE best == CHOOSE g : Pass(l, counted, line, Len(l), g)
             Found(n) == /\ best[n] = {} => \A i \in candidates : i > n
                         /\ \A s, t \in best[n] : s = t
                         /\ \A s \in best[n] : /\ \E i \in candidates : l[i] = s
                                               /\ \A i \in candidates : i <= n => CompareStr(l[i], s) <= 0
             Wrong == {n \in 0..Len(l) : ~Found(n)}
  <1>1. Resolved(l, counted, line) = best[Len(l)]
    BY DEF Resolved, Pass
  <1>2. Pass(l, counted, line, Len(l), best)
    <2>1. \E g : Pass(l, counted, line, Len(l), g)
      BY PassExists
    <2> QED BY <2>1
  <1> HIDE DEF best
  <1>3. best[0] = {} /\ \A n \in 1..Len(l) :
            best[n] = IF l[n] \in counted /\ Eligible(l[n], line) /\ Better(l[n], best[n - 1])
                      THEN {l[n]} ELSE best[n - 1]
    <2> DEFINE next(i) == IF l[i] \in counted /\ Eligible(l[i], line) /\ Better(l[i], best[i - 1])
                          THEN {l[i]} ELSE best[i - 1]
    <2>1. best = [i \in 0..Len(l) |-> IF i = 0 THEN {} ELSE next(i)]
      BY <1>2 DEF Pass
    <2>2. \A i \in 0..Len(l) : best[i] = IF i = 0 THEN {} ELSE next(i)
      <3> HIDE DEF next
      <3> QED BY <2>1
    <2>3. best[0] = {} /\ \A n \in 1..Len(l) : best[n] = next(n)
      <3> HIDE DEF next
      <3>1. 0 \in 0..Len(l) /\ \A n \in 1..Len(l) : n \in 0..Len(l) /\ n # 0
        OBVIOUS
      <3> QED BY <2>2, <3>1
    <2> QED BY <2>3
  <1>4. \A i \in candidates : i \in 1..Len(l) /\ l[i] \in Listed
    OBVIOUS
  <1>5. ASSUME Wrong # {} PROVE FALSE
    <2>1. PICK n \in Wrong : \A k \in Wrong : n <= k
      <3>1. Wrong \in SUBSET Nat
        OBVIOUS
      <3> HIDE DEF Wrong
      <3> QED BY <1>5, <3>1, LeastExists
    <2>2. n # 0
      <3>1. Found(0)
        BY <1>3, <1>4
      <3> QED BY <2>1, <3>1
    <2>3. n \in 1..Len(l) /\ n - 1 \in 0..Len(l) /\ Found(n - 1)
      BY <2>1, <2>2
    <2>4. CASE ~(l[n] \in counted /\ Eligible(l[n], line))
      <3>1. best[n] = best[n - 1] /\ n \notin candidates
        BY <1>3, <2>3, <2>4
      <3>2. \A i \in candidates : (i > n - 1 => i > n) /\ (i <= n => i <= n - 1)
        BY <1>4, <2>3, <3>1
      <3>3. Found(n)
        BY <2>3, <3>1, <3>2
      <3> QED BY <2>1, <3>3
    <2>5. CASE l[n] \in counted /\ Eligible(l[n], line)
      <3>1. n \in candidates /\ l[n] \in Listed
        BY <2>3, <2>5
      <3>2. \A i \in candidates : i <= n => i = n \/ i <= n - 1
        BY <1>4, <2>3
      <3>3. \A s \in best[n - 1] : s \in Listed
        BY <1>4, <2>3
      <3>4. CASE Better(l[n], best[n - 1])
        <4>1. best[n] = {l[n]}
          BY <1>3, <2>3, <2>5, <3>4
        <4>2. ASSUME NEW i \in candidates, i <= n PROVE CompareStr(l[i], l[n]) <= 0
          <5>1. CASE i = n
            BY <3>1, <5>1, CompareFacts
          <5>2. CASE i <= n - 1
            <6>1. PICK s \in best[n - 1] : TRUE
              BY <2>3, <5>2, <1>4
            <6>2. CompareStr(l[i], s) <= 0 /\ CompareStr(l[n], s) > 0
              BY <2>3, <3>4, <5>2 DEF Better
            <6>3. CompareStr(s, l[n]) <= 0
              BY <3>1, <3>3, <6>2, CompareFacts
            <6> QED BY <1>4, <3>1, <3>3, <6>2, <6>3, CompareFacts
          <5> QED BY <3>2, <4>2, <5>1, <5>2
        <4>3. Found(n)
          BY <3>1, <4>1, <4>2
        <4> QED BY <2>1, <4>3
      <3>5. CASE ~Better(l[n], best[n - 1])
        <4>1. best[n] = best[n - 1]
          BY <1>3, <2>3, <3>5
        <4>2. PICK s \in best[n - 1] : ~(CompareStr(l[n], s) > 0)
          BY <3>5 DEF Better
        <4>3. CompareStr(l[n], s) <= 0
          BY <3>1, <3>3, <4>2, CompareFacts
        <4>4. \A t \in best[n] : t = s
          BY <2>3, <4>1
        <4>5. Found(n)
          BY <2>3, <3>2, <4>1, <4>3, <4>4
        <4> QED BY <2>1, <4>5
      <3> QED BY <3>4, <3>5
    <2> QED BY <2>4, <2>5
  <1>6. Found(Len(l))
    BY <1>5
  <1> QED BY <1>1, <1>4, <1>6

LEMMA NewestFacts ==
    ASSUME listing \in Seq(Listed)
    PROVE  \A s \in Newest : /\ s \in Listed /\ Eligible(s, Line) /\ Complete(s)
                             /\ \E i \in DOMAIN listing : listing[i] = s
  <1> DEFINE candidates == {i \in DOMAIN listing : listing[i] \in Counted /\ Eligible(listing[i], Line)}
  <1>1. \A s \in Resolved(listing, Counted, Line) : \E i \in candidates : listing[i] = s
    <2>1. candidates = {i \in DOMAIN listing : listing[i] \in Counted /\ Eligible(listing[i], Line)}
      OBVIOUS
    <2> HIDE DEF candidates
    <2> QED BY <2>1, ResolvedNewest
  <1> QED BY <1>1 DEF Newest

LEMMA NewestSound == ASSUME listing \in Seq(Listed) PROVE NewestResolved
  <1> DEFINE rivals == {i \in DOMAIN listing :
                           /\ InLine(listing[i], Line) /\ ~IsPrerelease(Parse(listing[i]))
                           /\ Provider = "astral" => Complete(listing[i])}
             found == Resolved(listing, Counted, Line)
  <1>1. \A i \in DOMAIN listing : listing[i] \in Listed
    OBVIOUS
  <1>2. rivals = {i \in DOMAIN listing : listing[i] \in Counted /\ Eligible(listing[i], Line)}
    BY <1>1, ProviderAssumption DEF Counted, Eligible
  <1>3. /\ found = {} => rivals = {}
        /\ \A s \in found : /\ \E i \in rivals : listing[i] = s
                            /\ \A i \in rivals : CompareStr(listing[i], s) <= 0
    <2> HIDE DEF rivals
    <2> QED BY <1>2, ResolvedNewest
  <1>4. ASSUME Newest = {}, NEW i \in rivals
        PROVE  \E j \in rivals : CompareStr(listing[j], listing[i]) >= 0 /\ ~Complete(listing[j])
    <2>1. PICK s \in found : TRUE
      BY <1>3, <1>4
    <2>2. ~Complete(s)
      BY <1>4 DEF Newest
    <2>3. PICK j \in rivals : listing[j] = s
      BY <1>3
    <2>4. CompareStr(listing[i], listing[j]) <= 0
      BY <1>3, <2>3
    <2>5. CompareStr(listing[j], listing[i]) >= 0
      BY <1>1, <2>4, CompareFacts
    <2> QED BY <2>2, <2>3, <2>5
  <1>5. \A s \in Newest : s \in found
    BY DEF Newest
  <1> HIDE DEF found
  <1> QED BY <1>3, <1>4, <1>5 DEF NewestResolved

------------------------------------------------------------------------------
(* The rank by which the ledger orders adopted records is, on the stable   *)
(* versions of the line, the order by which they are resolved.             *)

LEMMA Sequence ==
    ASSUME NEW X, NEW n \in Nat, NEW f \in [1..n -> X]
    PROVE  f \in Seq(X) /\ Len(f) = n /\ DOMAIN f = 1..n
  OBVIOUS

LEMMA LexSame ==
    ASSUME NEW C, NEW D, NEW a, NEW b, NEW c, NEW d,
           DOMAIN a = DOMAIN c, DOMAIN b = DOMAIN d, DOMAIN a \subseteq Nat,
           Len(a) = Len(c), Len(b) = Len(d),
           \A i \in DOMAIN a \cap DOMAIN b : C[a[i]][b[i]] = D[c[i]][d[i]]
    PROVE  Lex(C, a, b) = Lex(D, c, d)
  <1>1. Differ(C, a, b) = Differ(D, c, d)
    BY DEF Differ
  <1>2. Differ(C, a, b) # {} => FirstOf(Differ(C, a, b)) \in DOMAIN a \cap DOMAIN b
    <2>1. Differ(C, a, b) \in SUBSET Nat
      BY DEF Differ
    <2> QED BY <2>1, FirstExists DEF Differ
  <1> QED BY <1>1, <1>2 DEF Lex

LEMMA LexOfOne ==
    ASSUME NEW X, NEW C, Preorder(C, X), NEW a \in Seq(X), NEW b \in Seq(X),
           Len(a) = 1, Len(b) = 1
    PROVE  Lex(C, a, b) = C[a[1]][b[1]]
  <1>1. CASE C[a[1]][b[1]] # 0
    <2>1. SameUpTo(C, a, b, 1)
      BY DEF SameUpTo
    <2> QED BY <1>1, <2>1, LexAt
  <1>2. CASE C[a[1]][b[1]] = 0
    <2>1. SameUpTo(C, a, b, 2)
      <3>1. \A j \in 1..(2 - 1) : j = 1
        OBVIOUS
      <3> QED BY <1>2, <3>1 DEF SameUpTo
    <2>2. 2 > Len(a) /\ 2 > Len(b)
      OBVIOUS
    <2>3. Lex(C, a, b) = 0
      BY <2>1, <2>2, LexAt
    <2> QED BY <1>2, <2>3
  <1> QED BY <1>1, <1>2

LEMMA KeyTyped == ASSUME NEW s \in Listed PROVE SourceKey(s) \in Seq(Seq(Run))
  <1> DEFINE last == <<s.core[Len(s.core)]>> \o s.tail
             front == [i \in DOMAIN s.core |-> IF i = Len(s.core) THEN <<s.core[i]>> \o s.tail
                                                                  ELSE <<s.core[i]>>]
  <1>1. s.core \in Seq(Run) /\ s.tail \in Seq(Run) /\ s.dashed \in Seq(Seq(Run))
    <2>1. s.core \in Seq(Numeral)
      BY WrittenAssumption
    <2>2. s.core \in Seq(Run)
      BY <2>1 DEF Run
    <2> QED BY <2>2, WrittenAssumption
  <1>2. ASSUME NEW i \in 1..Len(s.core)
        PROVE  (IF i = Len(s.core) THEN <<s.core[i]>> \o s.tail ELSE <<s.core[i]>>) \in Seq(Run)
    BY <1>1
  <1>3. front \in [1..Len(s.core) -> Seq(Run)]
    BY <1>1, <1>2
  <1>4. front \in Seq(Seq(Run))
    <2>1. Len(s.core) \in Nat
      BY <1>1
    <2> HIDE DEF front
    <2> QED BY <1>3, <2>1
  <1> HIDE DEF front
  <1>5. front \o s.dashed \in Seq(Seq(Run))
    BY <1>1, <1>4
  <1> QED BY <1>5 DEF SourceKey, front

LEMMA FullVersion ==
    ASSUME NEW s \in Listed, Eligible(s, Line)
    PROVE  /\ Len(s.core) = 3 /\ Parse(s).prerelease = <<>>
           /\ Len(SourceKey(s)) = 3
           /\ \A i \in 1..3 : /\ s.core[i] \in Numeral
                              /\ SourceKey(s)[i] = <<s.core[i]>>
                              /\ Parse(s).core[i] = s.core[i].value
           /\ Len(Parse(s).core) = 3
  <1>1. s.core \in Seq(Numeral) /\ s.tail \in Seq(Run) /\ s.dashed \in Seq(Seq(Run))
    BY WrittenAssumption
  <1>2. Len(s.core) = 3
    BY FullAssumption
  <1>3. Parse(s).prerelease = <<>>
    BY DEF Eligible, IsPrerelease
  <1>4. s.dashed = <<>> /\ s.tail = <<>>
    <2>1. Parse(s).prerelease = IF s.dashed # <<>> THEN s.dashed
                                ELSE IF s.tail # <<>> THEN <<s.tail>> ELSE <<>>
      BY DEF Parse
    <2>2. <<s.tail>> # <<>>
      <3>1. Len(<<s.tail>>) = 1 /\ Len(<<>>) = 0
        OBVIOUS
      <3> QED BY <3>1
    <2> QED BY <1>3, <2>1, <2>2
  <1> DEFINE front == [i \in DOMAIN s.core |-> IF i = Len(s.core) THEN <<s.core[i]>> \o s.tail
                                                                  ELSE <<s.core[i]>>]
  <1>5. front \in Seq(Seq(Run)) /\ Len(front) = 3
        /\ \A i \in 1..3 : front[i] = <<s.core[i]>>
    <2>0. DOMAIN s.core = 1..3
      BY <1>1, <1>2
    <2>1. \A i \in 1..3 : s.core[i] \in Numeral /\ s.core[i] \in Run
      BY <1>1, <1>2 DEF Run
    <2>2. ASSUME NEW i \in 1..3 PROVE front[i] = <<s.core[i]>>
      BY <1>2, <1>4, <2>0, <2>1
    <2>3. DOMAIN front = 1..3
      BY <2>0
    <2>4. front = [i \in 1..3 |-> <<s.core[i]>>]
      BY <2>0, <2>2
    <2> HIDE DEF front
    <2>5. \A i \in 1..3 : <<s.core[i]>> \in Seq(Run)
      BY <2>1
    <2>6. front \in [1..3 -> Seq(Run)]
      BY <2>4, <2>5
    <2>7. \A i \in 1..3 : front[i] = <<s.core[i]>>
      BY <2>4
    <2>8. front \in Seq(Seq(Run)) /\ Len(front) = 3
      <3>1. 3 \in Nat
        OBVIOUS
      <3> QED BY <2>6, <3>1, Sequence
    <2> QED BY <2>7, <2>8
  <1>6. SourceKey(s) = front
    <2>1. SourceKey(s) = front \o <<>>
      BY <1>4 DEF SourceKey
    <2> HIDE DEF front
    <2> QED BY <1>5, <2>1
  <1>7. \A i \in 1..3 : s.core[i] \in Numeral /\ Parse(s).core[i] = s.core[i].value
    BY <1>1, <1>2 DEF Parse
  <1>8. Len(Parse(s).core) = 3
    <2>1. Parse(s).core = [i \in 1..3 |-> IF i <= Len(s.core) THEN s.core[i].value ELSE 0]
      BY DEF Parse
    <2>2. Parse(s).core \in Seq(Nat)
      BY ParseTyped DEF Parsed
    <2> QED BY <2>1, <2>2
  <1> HIDE DEF front
  <1> QED BY <1>2, <1>3, <1>5, <1>6, <1>7, <1>8

LEMMA KeysAgree ==
    ASSUME NEW s \in Listed, NEW u \in Listed, Eligible(s, Line), Eligible(u, Line)
    PROVE  CompareProviderKey(SourceKey(s), SourceKey(u)) = CompareStr(s, u)
  <1> DEFINE k(x) == SourceKey(x)
             c(x) == Parse(x).core
  <1>1. /\ Parse(s) \in Parsed /\ Parse(u) \in Parsed
        /\ c(s) \in Seq(Nat) /\ c(u) \in Seq(Nat)
    BY ParseTyped DEF Parsed
  <1>2. k(s) \in Seq(Seq(Run)) /\ k(u) \in Seq(Seq(Run))
    BY KeyTyped
  <1>3. CompareStr(s, u) = CoreOrder[c(s)][c(u)]
    <2>1. CompareStr(s, u) = CompareParsed(Parse(s), Parse(u))
      BY DEF CompareStr, Compared
    <2>2. Parse(s).prerelease = <<>> /\ Parse(u).prerelease = <<>>
      BY FullVersion
    <2>3. CoreOrder[c(s)][c(u)] \in {-1, 0, 1}
      BY <1>1, CorePreorder DEF Preorder
    <2> QED BY <1>1, <2>1, <2>2, <2>3, ParsedCases
  <1>4. ASSUME NEW i \in 1..3 PROVE NaturalOrder[k(s)[i]][k(u)[i]] = NumberOrder[c(s)[i]][c(u)[i]]
    <2> DEFINE a == s.core[i]
               b == u.core[i]
    <2>1. a \in Numeral /\ b \in Numeral
      BY FullVersion
    <2>2. a \in Run /\ b \in Run /\ a.place = 0 /\ b.place = 0
      BY <2>1 DEF Run, Numeral
    <2>3. /\ k(s)[i] = <<a>> /\ k(u)[i] = <<b>>
          /\ c(s)[i] = a.value /\ c(u)[i] = b.value
      BY FullVersion
    <2> HIDE DEF a, b
    <2>4. a.value \in Nat /\ b.value \in Nat
      BY <2>2, RunTyped
    <2>5. RunOrder[a][b] = Sign(a.value - b.value)
      BY <2>2 DEF RunOrder, CompareRun, Digits
    <2>6. Lex(RunOrder, <<a>>, <<b>>) = RunOrder[a][b]
      <3> DEFINE x == <<a>>
                 y == <<b>>
      <3>1. x \in Seq(Run) /\ y \in Seq(Run) /\ Len(x) = 1 /\ Len(y) = 1
            /\ x[1] = a /\ y[1] = b
        BY <2>2
      <3> HIDE DEF x, y
      <3>2. Lex(RunOrder, x, y) = RunOrder[a][b]
        BY <3>1, RunPreorder, LexOfOne
      <3> QED BY <3>2 DEF x, y
    <2>7. NaturalOrder[<<a>>][<<b>>] = RunOrder[a][b]
      <3>1. <<a>> \in Seq(Run) /\ <<b>> \in Seq(Run)
        BY <2>2
      <3> QED BY <2>6, <3>1 DEF NaturalOrder, Lexical
    <2>8. NumberOrder[a.value][b.value] = Sign(a.value - b.value)
      BY <2>4 DEF NumberOrder
    <2> QED BY <2>3, <2>5, <2>7, <2>8
  <1>5. Len(k(s)) = 3 /\ Len(k(u)) = 3 /\ Len(c(s)) = 3 /\ Len(c(u)) = 3
    BY FullVersion
  <1> HIDE DEF k, c
  <1>6. Lex(NaturalOrder, k(s), k(u)) = Lex(NumberOrder, c(s), c(u))
    <2>1. /\ DOMAIN k(s) = 1..3 /\ DOMAIN k(u) = 1..3
          /\ DOMAIN c(s) = 1..3 /\ DOMAIN c(u) = 1..3
      BY <1>1, <1>2, <1>5
    <2>2. \A i \in DOMAIN k(s) \cap DOMAIN k(u) :
              NaturalOrder[k(s)[i]][k(u)[i]] = NumberOrder[c(s)[i]][c(u)[i]]
      BY <1>4, <2>1
    <2>3. DOMAIN k(s) \subseteq Nat
      BY <2>1
    <2> QED BY <1>5, <2>1, <2>2, <2>3, LexSame
  <1>7. CompareProviderKey(k(s), k(u)) = Lex(NaturalOrder, k(s), k(u))
    BY <1>2, KeyIsLexical DEF KeyOrder, Lexical
  <1>8. CoreOrder[c(s)][c(u)] = Lex(NumberOrder, c(s), c(u))
    BY <1>1 DEF CoreOrder, Lexical
  <1> QED BY <1>3, <1>6, <1>7, <1>8 DEF k

LEMMA RankOrders ==
    ASSUME NEW s \in Listed, NEW u \in Listed
    PROVE  /\ Rank[s] \in Nat
           /\ Rank[s] <= Rank[u] <=> CompareProviderKey(SourceKey(s), SourceKey(u)) <= 0
  <1> DEFINE cmp(x, y) == CompareProviderKey(SourceKey(x), SourceKey(y))
             below(x)  == {t \in Listed : cmp(t, x) < 0}
  <1>1. \A x, y \in Listed : cmp(x, y) = KeyOrder[SourceKey(x)][SourceKey(y)]
    BY KeyTyped, KeyIsLexical
  <1>0. \A x \in Listed : SourceKey(x) \in Seq(Seq(Run))
    BY KeyTyped
  <1> HIDE DEF cmp
  <1>2. ASSUME NEW x \in Listed, NEW y \in Listed
        PROVE  cmp(x, y) \in {-1, 0, 1} /\ cmp(x, y) = -cmp(y, x)
    <2>1. /\ KeyOrder[SourceKey(x)][SourceKey(y)] \in {-1, 0, 1}
          /\ KeyOrder[SourceKey(x)][SourceKey(y)] = -KeyOrder[SourceKey(y)][SourceKey(x)]
      BY <1>0, KeyPreorder DEF Preorder
    <2> QED BY <1>1, <2>1
  <1>3. ASSUME NEW x \in Listed, NEW y \in Listed, NEW z \in Listed
        PROVE  cmp(x, y) = -1 /\ cmp(y, z) <= 0 => cmp(x, z) = -1
    <2>1. KeyOrder[SourceKey(x)][SourceKey(y)] = -1 /\ KeyOrder[SourceKey(y)][SourceKey(z)] <= 0
              => KeyOrder[SourceKey(x)][SourceKey(z)] = -1
      BY <1>0, KeyPreorder, Strict
    <2> QED BY <1>1, <2>1
  <1>4. \A x \in Listed : Rank[x] = 1 + Cardinality(below(x))
    BY DEF Rank, cmp
  <1>5. \A x \in Listed : below(x) \in SUBSET Listed /\ IsFiniteSet(below(x))
                          /\ Cardinality(below(x)) \in Nat
    <2>1. \A x \in Listed : below(x) \in SUBSET Listed
      OBVIOUS
    <2> HIDE DEF below
    <2> QED BY <2>1, ListedAssumption, FS_Subset, FS_CardinalityType
  <1>6. ASSUME NEW x \in Listed, NEW y \in Listed, cmp(x, y) <= 0 PROVE Rank[x] <= Rank[y]
    <2>1. \A t \in below(x) : t \in below(y)
      <3>1. \A t \in Listed : cmp(t, x) < 0 => cmp(t, x) = -1
        BY <1>2
      <3> QED BY <1>3, <1>6, <3>1
    <2>2. below(x) \subseteq below(y)
      BY <2>1
    <2> HIDE DEF below
    <2>3. Cardinality(below(x)) <= Cardinality(below(y))
      BY <1>5, <2>2, FS_Subset
    <2> QED BY <1>4, <1>5, <2>3
  <1>7. ASSUME NEW x \in Listed, NEW y \in Listed, cmp(x, y) < 0 PROVE Rank[x] < Rank[y]
    <2>1. below(x) \subseteq below(y) /\ below(x) # below(y)
      <3>1. cmp(x, y) <= 0 /\ cmp(x, y) = -1 /\ cmp(x, x) = 0
        BY <1>2, <1>7
      <3>2. \A t \in Listed : cmp(t, x) < 0 => cmp(t, y) < 0
        BY <1>2, <1>3, <3>1
      <3>3. x \in below(y) /\ x \notin below(x)
        BY <3>1
      <3> QED BY <3>2, <3>3
    <2> HIDE DEF below
    <2>2. Cardinality(below(x)) <= Cardinality(below(y))
          /\ Cardinality(below(x)) # Cardinality(below(y))
      BY <1>5, <2>1, FS_Subset
    <2>3. Cardinality(below(x)) < Cardinality(below(y))
      BY <1>5, <2>2
    <2> QED BY <1>4, <1>5, <2>3
  <1>8. Rank[s] \in Nat /\ Rank[u] \in Nat
    <2> HIDE DEF below
    <2> QED BY <1>4, <1>5
  <1>9. cmp(s, u) \in {-1, 0, 1} /\ (cmp(s, u) <= 0 \/ cmp(u, s) < 0)
    BY <1>2
  <1> QED BY <1>6, <1>7, <1>8, <1>9 DEF cmp

(* A line is resolved by compare_str, and what was taken is ordered by     *)
(* compare_provider_key: on the stable versions of the line the two agree. *)
THEOREM RankIsVersionOrder ==
    \A s, u \in {v \in Listed : Eligible(v, Line)} : Rank[s] <= Rank[u] <=> CompareStr(s, u) <= 0
  BY RankOrders, KeysAgree

------------------------------------------------------------------------------
(* The fold of the queue. *)

Pending == \A r \in pending : \E s \in Listed, n \in Revisions, c \in Contents : r = Record(s, n, c)

\* No key of the ledger falls, and an entry is replaced only under a higher one.
Grown(k, l) == \A t \in DOMAIN k : /\ t \in DOMAIN l /\ l[t].key >= k[t].key
                                   /\ l[t].key = k[t].key => l[t] = k[t]

\* What is new in a ledger comes from the records that were folded.
TakenFrom(k, Q, l) == \A t \in DOMAIN l :
                         \/ t \in DOMAIN k /\ l[t] = k[t]
                         \/ \E r \in Q : r.slot = t /\ r.key = l[t].key /\ r.content = l[t].content

LEMMA RecordTyped ==
    ASSUME NEW s \in Listed, NEW n \in Revisions, NEW c \in Contents
    PROVE  /\ Record(s, n, c).slot = Slot(s) /\ Slot(s) \in Slots
           /\ Record(s, n, c).epoch = 1 /\ 1 \in Epochs
           /\ Record(s, n, c).source = Provider /\ Provider \in Sources
           /\ Record(s, n, c).key = Rank[s] /\ Rank[s] \in Keys
           /\ Record(s, n, c).content = c
  BY ProviderAssumption, NamesAssumption DEF Record, Slots, Slot

LEMMA LedgerTyped ==
    ASSUME NEW l \in Ledger, NEW t \in DOMAIN l
    PROVE  /\ t \in Slots /\ l[t] \in LedgerRecord
           /\ l[t].key \in Nat /\ l[t].epoch \in Nat \ {0}
  <1>1. PICK S \in SUBSET Slots : l \in [S -> LedgerRecord]
    BY DEF Ledger
  <1>2. t \in Slots /\ l[t] \in LedgerRecord
    BY <1>1
  <1> QED BY <1>2, OrdersAssumption DEF LedgerRecord

LEMMA OutcomeGrows ==
    ASSUME NEW l \in Ledger, NEW s \in Listed, NEW n \in Revisions, NEW c \in Contents,
           NEW m \in Outcome(l, Record(s, n, c))
    PROVE  m \in Ledger /\ Grown(l, m) /\ TakenFrom(l, {Record(s, n, c)}, m)
  <1> DEFINE r == Record(s, n, c)
             e == [epoch |-> r.epoch, source |-> r.source, key |-> r.key,
                   content |-> r.content, status |-> "active", revoked |-> FALSE]
  <1>1. /\ r.slot \in Slots /\ r.epoch = 1 /\ 1 \in Epochs /\ r.source \in Sources
        /\ r.key \in Keys /\ r.content = c
    BY RecordTyped
  <1>2. e \in LedgerRecord
    BY <1>1 DEF LedgerRecord
  <1>3. PICK S \in SUBSET Slots : l \in [S -> LedgerRecord]
    BY DEF Ledger
  <1>4. /\ m = l \/ (m = ApplyRecord(l, r) /\ (Supersedes(l, r) \/ Newer(l, r)))
    BY DEF Outcome, Applies
  <1> HIDE DEF r
  <1>5. \A t \in DOMAIN l : l[t].epoch \in Nat \ {0} /\ l[t].key \in Nat
    BY LedgerTyped
  <1>6. r.key \in Nat
    BY <1>1, OrdersAssumption
  <1>7. CASE m = l
    <2>1. Grown(l, l)
      BY <1>5 DEF Grown
    <2>2. TakenFrom(l, {r}, l)
      BY DEF TakenFrom
    <2> QED BY <1>7, <2>1, <2>2 DEF r
  <1>8. CASE m = ApplyRecord(l, r) /\ (Supersedes(l, r) \/ Newer(l, r))
    <2>1. r.slot \in DOMAIN l => r.key > l[r.slot].key
      BY <1>1, <1>5, <1>8 DEF Supersedes, Newer
    <2>2. m = [t \in S \cup {r.slot} |-> IF t = r.slot THEN e ELSE l[t]]
      BY <1>3, <1>8 DEF ApplyRecord, Put
    <2>3. e.key = r.key /\ e.content = r.content
      OBVIOUS
    <2> HIDE DEF e
    <2>4. m \in [S \cup {r.slot} -> LedgerRecord]
      BY <1>2, <1>3, <2>2
    <2>5. m \in Ledger
      BY <1>1, <2>4 DEF Ledger
    <2>6. Grown(l, m)
      BY <1>3, <1>5, <1>6, <2>1, <2>2, <2>3 DEF Grown
    <2>7. TakenFrom(l, {r}, m)
      BY <1>3, <2>2, <2>3 DEF TakenFrom
    <2> QED BY <2>5, <2>6, <2>7 DEF r
  <1> QED BY <1>4, <1>7, <1>8

UpTo(n) == {P \in SUBSET pending : Cardinality(P) <= n}

Reading(P, g) == IF P = {} THEN {ledger}
                 ELSE UNION {UNION {Outcome(l, r) : l \in g[P \ {r}]} : r \in LastRead(P)}

\* A fold of all the parts of the queue with at most n records.
Folding(n, g) == g = [P \in UpTo(n) |-> Reading(P, g)]

LEMMA ReadingMembers ==
    ASSUME NEW P, NEW g, P # {}, NEW k
    PROVE  k \in Reading(P, g) <=> \E r \in LastRead(P) : \E m \in g[P \ {r}] : k \in Outcome(m, r)
  <1> DEFINE from(r) == UNION {Outcome(l, r) : l \in g[P \ {r}]}
  <1>1. \A r : k \in from(r) <=> \E m \in g[P \ {r}] : k \in Outcome(m, r)
    OBVIOUS
  <1>2. Reading(P, g) = UNION {from(r) : r \in LastRead(P)}
    BY DEF Reading
  <1> HIDE DEF from
  <1> QED BY <1>1, <1>2

LEMMA SmallerPart ==
    ASSUME IsFiniteSet(pending), NEW P \in SUBSET pending, NEW r \in LastRead(P)
    PROVE  /\ r \in P /\ P \ {r} \in SUBSET pending
           /\ Cardinality(P) \in Nat /\ Cardinality(P \ {r}) \in Nat
           /\ Cardinality(P \ {r}) = Cardinality(P) - 1
  <1>1. r \in P
    BY DEF LastRead
  <1>2. IsFiniteSet(P)
    BY FS_Subset
  <1>3. IsFiniteSet(P \ {r}) /\ Cardinality(P \ {r}) = Cardinality(P) - 1
    BY <1>1, <1>2, FS_RemoveElement
  <1> QED BY <1>1, <1>2, <1>3, FS_CardinalityType

LEMMA FoldingExists ==
    ASSUME IsFiniteSet(pending)
    PROVE  \A n \in Nat : \E g : Folding(n, g)
  <1> DEFINE Missing == {n \in Nat : ~ \E g : Folding(n, g)}
  <1> SUFFICES ASSUME Missing # {} PROVE FALSE
    OBVIOUS
  <1>0. \A P \in SUBSET pending : Cardinality(P) \in Nat /\ (Cardinality(P) <= 0 => P = {})
    <2> SUFFICES ASSUME NEW P \in SUBSET pending
                 PROVE  Cardinality(P) \in Nat /\ (Cardinality(P) <= 0 => P = {})
      OBVIOUS
    <2>1. IsFiniteSet(P)
      BY FS_Subset
    <2> QED BY <2>1, FS_CardinalityType, FS_EmptySet
  <1>1. PICK n \in Missing : \A k \in Missing : n <= k
    <2>1. Missing \in SUBSET Nat
      OBVIOUS
    <2> HIDE DEF Missing
    <2> QED BY <2>1, LeastExists
  <1>2. CASE n = 0
    <2> DEFINE h == [P \in UpTo(0) |-> {ledger}]
    <2>1. \A P \in UpTo(0) : Reading(P, h) = {ledger}
      BY <1>0 DEF UpTo, Reading
    <2> HIDE DEF h
    <2>2. [P \in UpTo(0) |-> Reading(P, h)] = [P \in UpTo(0) |-> {ledger}]
      BY <2>1
    <2>3. Folding(0, h)
      BY <2>2 DEF Folding, h
    <2> QED BY <1>2, <2>3
  <1>3. CASE n # 0
    <2>1. n - 1 \in Nat /\ n - 1 \notin Missing /\ n \in Nat
      BY <1>1, <1>3
    <2>2. PICK g : Folding(n - 1, g)
      BY <2>1
    <2> DEFINE h == [P \in UpTo(n) |-> IF Cardinality(P) <= n - 1 THEN g[P] ELSE Reading(P, g)]
    <2>3. \A P \in UpTo(n) : h[P] = IF Cardinality(P) <= n - 1 THEN g[P] ELSE Reading(P, g)
      OBVIOUS
    <2>4. DOMAIN h = UpTo(n)
      OBVIOUS
    <2>5. h = [P \in UpTo(n) |-> h[P]]
      BY <2>4
    <2> HIDE DEF h
    <2>6. \A P \in UpTo(n - 1) : g[P] = Reading(P, g)
      BY <2>2 DEF Folding
    <2>7. ASSUME NEW P \in UpTo(n) PROVE h[P] = Reading(P, h)
      <3>1. P \in SUBSET pending /\ Cardinality(P) \in Nat /\ Cardinality(P) <= n
        BY <1>0 DEF UpTo
      <3>2. ASSUME NEW r \in LastRead(P) PROVE h[P \ {r}] = g[P \ {r}]
        <4>1. P \ {r} \in UpTo(n) /\ Cardinality(P \ {r}) <= n - 1
          BY <2>1, <3>1, SmallerPart DEF UpTo
        <4> QED BY <2>3, <4>1
      <3>3. P # {} => \A k : k \in Reading(P, h) <=> k \in Reading(P, g)
        BY <3>2, ReadingMembers
      <3>4. Reading(P, h) = Reading(P, g)
        <4>1. CASE P = {}
          BY <4>1 DEF Reading
        <4>2. CASE P # {}
          BY <3>3, <4>2
        <4> QED BY <4>1, <4>2
      <3>5. Cardinality(P) <= n - 1 => P \in UpTo(n - 1)
        BY <3>1 DEF UpTo
      <3> QED BY <2>3, <2>6, <3>4, <3>5
    <2>8. [P \in UpTo(n) |-> h[P]] = [P \in UpTo(n) |-> Reading(P, h)]
      BY <2>7
    <2>9. Folding(n, h)
      BY <2>5, <2>8 DEF Folding
    <2> QED BY <2>9
  <1> QED BY <1>2, <1>3

(* The ledger after any part of the queue has been folded: every key has   *)
(* grown or stayed, and whatever is new is of a record of that part.       *)
LEMMA FoldGrows ==
    ASSUME IsFiniteSet(pending), Pending, ledger \in Ledger, NEW Q \in SUBSET pending,
           NEW l \in After(Q)
    PROVE  l \in Ledger /\ Grown(ledger, l) /\ TakenFrom(ledger, Q, l)
  <1> DEFINE after == CHOOSE g : g = [P \in SUBSET pending |-> Reading(P, g)]
             Good(P) == \A k \in after[P] : k \in Ledger /\ Grown(ledger, k) /\ TakenFrom(ledger, P, k)
             Bad == {n \in Nat : \E P \in SUBSET pending : Cardinality(P) = n /\ ~Good(P)}
  <1>1. After(Q) = after[Q]
    BY DEF After, Reading
  <1>2. \A P \in SUBSET pending : Cardinality(P) \in Nat /\ Cardinality(P) <= Cardinality(pending)
    BY FS_Subset, FS_CardinalityType
  <1>3. \E g : g = [P \in SUBSET pending |-> Reading(P, g)]
    <2>1. UpTo(Cardinality(pending)) = SUBSET pending
      BY <1>2 DEF UpTo
    <2>2. Cardinality(pending) \in Nat
      BY FS_CardinalityType
    <2>3. PICK g : Folding(Cardinality(pending), g)
      BY <2>2, FoldingExists
    <2> QED BY <2>1, <2>3 DEF Folding
  <1>4. after = [P \in SUBSET pending |-> Reading(P, after)]
    BY <1>3
  <1> HIDE DEF after
  <1>5. \A P \in SUBSET pending : after[P] = Reading(P, after)
    BY <1>4
  <1>6. ASSUME NEW P \in SUBSET pending, \A r \in LastRead(P) : Good(P \ {r})
        PROVE  Good(P)
    <2>1. CASE P = {}
      <3>1. after[P] = {ledger}
        BY <1>5, <2>1 DEF Reading
      <3>2. \A t \in DOMAIN ledger : ledger[t].key \in Nat
        BY LedgerTyped
      <3> QED BY <3>1, <3>2 DEF Grown, TakenFrom
    <2>2. CASE P # {}
      <3> SUFFICES ASSUME NEW k \in after[P]
                   PROVE  k \in Ledger /\ Grown(ledger, k) /\ TakenFrom(ledger, P, k)
        OBVIOUS
      <3>1. PICK r \in LastRead(P) : \E m \in after[P \ {r}] : k \in Outcome(m, r)
        BY <1>5, <2>2, ReadingMembers
      <3>2. r \in P /\ r \in pending
        BY DEF LastRead
      <3>9. PICK m \in after[P \ {r}] : k \in Outcome(m, r)
        BY <3>1
      <3>3. m \in Ledger /\ Grown(ledger, m) /\ TakenFrom(ledger, P \ {r}, m)
        BY <1>6, <3>1
      <3>4. PICK s \in Listed, n \in Revisions, c \in Contents : r = Record(s, n, c)
        BY <3>2 DEF Pending
      <3>5. k \in Ledger /\ Grown(m, k) /\ TakenFrom(m, {r}, k)
        BY <3>9, <3>3, <3>4, OutcomeGrows
      <3>6. /\ \A t \in DOMAIN ledger : ledger[t].key \in Nat
            /\ \A t \in DOMAIN m : m[t].key \in Nat
            /\ \A t \in DOMAIN k : k[t].key \in Nat
        BY <3>3, <3>5, LedgerTyped
      <3>7. Grown(ledger, k)
        BY <3>3, <3>5, <3>6 DEF Grown
      <3>8. TakenFrom(ledger, P, k)
        BY <3>2, <3>3, <3>5 DEF TakenFrom
      <3> QED BY <3>5, <3>7, <3>8
    <2> QED BY <2>1, <2>2
  <1>7. ASSUME Bad # {} PROVE FALSE
    <2>1. PICK n \in Bad : \A k \in Bad : n <= k
      <3>1. Bad \in SUBSET Nat
        OBVIOUS
      <3> HIDE DEF Bad
      <3> QED BY <1>7, <3>1, LeastExists
    <2>2. PICK P \in SUBSET pending : Cardinality(P) = n /\ ~Good(P)
      BY <2>1
    <2>3. ASSUME NEW r \in LastRead(P) PROVE Good(P \ {r})
      <3>1. P \ {r} \in SUBSET pending /\ Cardinality(P \ {r}) \in Nat /\ Cardinality(P \ {r}) < n
        BY <2>2, SmallerPart
      <3>2. Cardinality(P \ {r}) \notin Bad
        <4>1. n \in Nat /\ \A k \in Bad : ~(k < n)
          <5>1. \A k \in Bad : k \in Nat
            OBVIOUS
          <5> HIDE DEF Bad
          <5> QED BY <2>1, <5>1
        <4> HIDE DEF Bad
        <4> QED BY <3>1, <4>1
      <3> QED BY <3>1, <3>2
    <2> HIDE DEF Good
    <2> QED BY <1>6, <2>2, <2>3
  <1>8. Good(Q)
    BY <1>2, <1>7
  <1> QED BY <1>1, <1>8

------------------------------------------------------------------------------
(* The invariant. *)

World == listing \in Seq(Listed) /\ upstream \in [Listed -> Contents \cup {NoBytes}]
Books == /\ ledger \in Ledger /\ Pending
         /\ receipt \in [Versions \X Revisions -> Receipt \cup {NoReceipt}]
Job   == /\ phase \in {"idle", "plan", "leg", "journal", "finalize"}
         /\ op \in Operation /\ past \in Operation
         /\ phase \in {"leg", "journal", "finalize"} => op.mode # "none"
         /\ phase \in {"journal", "finalize"} => op.handoff # NoBytes
         /\ edits \in 0..MaxEdits

LEMMA TypeParts == TypeOK <=> World /\ Books /\ Job
  BY DEF TypeOK, World, Books, Pending, Job

\* What a plan decides on is a stable version of the line.
Planned(o) == o.mode # "none" => /\ o.source \in Listed /\ Eligible(o.source, Line)
                                 /\ o.revision \in Revisions

\* A leg that finalizes has its receipt in the journal.
Journaled == phase = "finalize" => Mine = [source |-> op.source, content |-> op.handoff]

Vouched(receipts, slot, key, c) ==
    \E n \in Revisions : LET x == receipts[<<slot[1], n>>]
                         IN  x # NoReceipt /\ x.source \in OfRank(key) /\ x.content = c

IInv == /\ World /\ Books /\ Job
        /\ IsFiniteSet(pending)
        /\ Planned(op) /\ Planned(past)
        /\ Journaled
        /\ RecordsReceipted

LEMMA ReceiptedParts ==
    RecordsReceipted <=> /\ \A r \in pending : Vouched(receipt, r.slot, r.key, r.content)
                         /\ \A t \in DOMAIN ledger : Vouched(receipt, t, ledger[t].key, ledger[t].content)
  BY DEF RecordsReceipted, Vouched

LEMMA FreshTyped ==
    ASSUME NEW force \in BOOLEAN
    PROVE  Fresh(force) \in Operation /\ Fresh(force).mode = "none"
  BY DEF Fresh, Operation

LEMMA NoVersionUnlisted == ASSUME NEW o \in Operation, o.mode # "none", Planned(o)
                           PROVE  /\ o.source \in Listed /\ Eligible(o.source, Line)
                                  /\ <<Name(o.source), o.revision>> \in Versions \X Revisions
  BY NamesAssumption DEF Planned

LEMMA InitHolds == Init => IInv
  <1> SUFFICES ASSUME Init PROVE IInv
    OBVIOUS
  <1> USE DEF Init
  <1>1. World
    BY ListedAssumption DEF World
  <1>2. Fresh(FALSE) \in Operation /\ Fresh(FALSE).mode = "none"
    BY FreshTyped
  <1>3. Job
    <2>1. 0 \in 0..MaxEdits
      BY MaxEditsAssumption
    <2> QED BY <1>2, <2>1 DEF Job
  <1>4. ledger \in Ledger /\ DOMAIN ledger = {}
    <2>1. {} \in SUBSET Slots
      OBVIOUS
    <2>2. Empty \in [{} -> LedgerRecord]
      BY DEF Empty
    <2> QED BY <2>1, <2>2 DEF Ledger
  <1>5. Books
    BY <1>4 DEF Books, Pending
  <1>6. IsFiniteSet(pending)
    BY FS_EmptySet
  <1>7. Planned(op) /\ Planned(past)
    BY <1>2 DEF Planned
  <1>8. Journaled
    BY DEF Journaled
  <1>9. RecordsReceipted
    BY <1>4 DEF RecordsReceipted
  <1> QED BY <1>1, <1>3, <1>5, <1>6, <1>7, <1>8, <1>9 DEF IInv

(* Steps of the world, of a plan and of a leg change no book. *)
LEMMA BooksKept ==
    ASSUME IInv, UNCHANGED main, World', Job', Planned(op)', Planned(past)',
           (phase # "finalize")' \/ (phase' = phase /\ op' = op)
    PROVE  IInv'
  <1>1. Books' /\ IsFiniteSet(pending)' /\ RecordsReceipted'
    BY DEF IInv, Books, Pending, RecordsReceipted, main
  <1>2. Journaled'
    BY DEF IInv, Journaled, Mine, main
  <1> QED BY <1>1, <1>2 DEF IInv

(* What is queued and accepted stays vouched for, when no receipt is lost  *)
(* and what is new has one.                                                *)
LEMMA StillReceipted ==
    ASSUME IInv,
           \A x \in Versions \X Revisions : receipt[x] # NoReceipt => receipt'[x] = receipt[x],
           \A r \in pending' : r \in pending \/ Vouched(receipt', r.slot, r.key, r.content),
           \A t \in DOMAIN ledger' :
               \/ t \in DOMAIN ledger /\ ledger'[t] = ledger[t]
               \/ \E r \in pending : /\ r.slot = t /\ r.key = ledger'[t].key
                                     /\ r.content = ledger'[t].content
    PROVE  RecordsReceipted'
  <1>1. /\ \A r \in pending : Vouched(receipt, r.slot, r.key, r.content)
        /\ \A t \in DOMAIN ledger : Vouched(receipt, t, ledger[t].key, ledger[t].content)
    BY ReceiptedParts DEF IInv
  <1>2. ASSUME NEW slot \in Slots, NEW key, NEW c, Vouched(receipt, slot, key, c)
        PROVE  Vouched(receipt', slot, key, c)
    <2>1. \A n \in Revisions : <<slot[1], n>> \in Versions \X Revisions
      BY DEF Slots
    <2> QED BY <1>2, <2>1 DEF Vouched
  <1>3. \A r \in pending : r.slot \in Slots
    BY RecordTyped DEF IInv, Books, Pending
  <1>4. \A t \in DOMAIN ledger : t \in Slots
    BY LedgerTyped DEF IInv, Books
  <1>5. \A r \in pending' : Vouched(receipt', r.slot, r.key, r.content)
    BY <1>1, <1>2, <1>3
  <1>6. ASSUME NEW t \in DOMAIN ledger'
        PROVE  Vouched(receipt', t, ledger'[t].key, ledger'[t].content)
    BY <1>1, <1>2, <1>3, <1>4
  <1> QED BY <1>5, <1>6 DEF RecordsReceipted, Vouched

LEMMA PublishStep == ASSUME IInv, NEW s \in Listed, Publish(s) PROVE IInv'
  <1>1. World'
    BY DEF IInv, World, Publish
  <1>2. Job'
    BY MaxEditsAssumption DEF IInv, Job, Publish, Edit
  <1> QED BY <1>1, <1>2, BooksKept DEF IInv, Publish, Planned

LEMMA AttachStep == ASSUME IInv, NEW s \in Listed, NEW c \in Contents, Attach(s, c) PROVE IInv'
  <1>1. World' /\ Job'
    BY DEF IInv, World, Job, Attach
  <1> QED BY <1>1, BooksKept DEF IInv, Attach, Planned

LEMMA ReplaceStep == ASSUME IInv, NEW s \in Listed, NEW c \in Contents, Replace(s, c) PROVE IInv'
  <1>1. World'
    BY DEF IInv, World, Replace
  <1>2. Job'
    BY MaxEditsAssumption DEF IInv, Job, Replace, Edit
  <1> QED BY <1>1, <1>2, BooksKept DEF IInv, Replace, Planned

LEMMA DispatchStep ==
    ASSUME IInv, NEW force \in BOOLEAN, Dispatch(force), edits' \in 0..MaxEdits
    PROVE  IInv'
  <1>1. World'
    BY DEF IInv, World, Dispatch
  <1>2. op' \in Operation /\ op'.mode = "none"
    BY FreshTyped DEF Dispatch
  <1>3. Job'
    BY <1>2 DEF IInv, Job, Dispatch
  <1> QED BY <1>1, <1>2, <1>3, BooksKept DEF IInv, Dispatch, Planned

LEMMA RerunStep == ASSUME IInv, NEW o \in {op, past}, Rerun(o) PROVE IInv'
  <1>1. o \in Operation /\ Planned(o)
    BY DEF IInv, Job
  <1>2. World' /\ UNCHANGED main /\ (phase # "finalize")'
    BY DEF IInv, World, Rerun
  <1>3. edits' \in 0..MaxEdits
    BY MaxEditsAssumption DEF IInv, Job, Rerun, Edit
  <1>4. past' \in Operation /\ Planned(past)'
    BY DEF IInv, Job, Rerun, Planned
  <1>5. /\ op' \in Operation /\ Planned(op)' /\ phase' \in {"plan", "leg", "journal"}
        /\ phase' \in {"leg", "journal"} => op'.mode # "none"
        /\ phase' = "journal" => op'.handoff # NoBytes
    <2>1. CASE /\ o.mode # "none" /\ op' = o
               /\ phase' = IF o.handoff = NoBytes THEN "leg" ELSE "journal"
      BY <1>1, <2>1 DEF Planned
    <2>2. CASE /\ o.mode # "none" /\ op' = [o EXCEPT !.handoff = NoBytes]
               /\ phase' = "leg"
      BY <1>1, <2>2 DEF Planned, Operation
    <2>3. CASE op' = Fresh(o.force) /\ phase' = "plan"
      <3>1. o.force \in BOOLEAN
        BY <1>1 DEF Operation
      <3> QED BY <2>3, <3>1, FreshTyped DEF Planned
    <2> QED BY <2>1, <2>2, <2>3 DEF Rerun
  <1>6. Job'
    BY <1>3, <1>4, <1>5 DEF Job
  <1> QED BY <1>2, <1>4, <1>5, <1>6, BooksKept

LEMMA PlanStep == ASSUME IInv, Plan PROVE IInv'
  <1>1. World' /\ UNCHANGED main /\ past' = past /\ edits' = edits
    BY DEF IInv, World, Plan
  <1>2. Planned(past)' /\ past' \in Operation /\ edits' \in 0..MaxEdits
    BY <1>1 DEF IInv, Planned, Job
  <1>3. CASE PlanEnds
    <2>1. op' = op /\ phase' = "idle"
      BY <1>3 DEF PlanEnds
    <2>2. Job' /\ Planned(op)'
      BY <1>2, <2>1 DEF IInv, Job, Planned
    <2> QED BY <1>1, <1>2, <2>1, <2>2, BooksKept
  <1>4. ASSUME NEW s \in Newest, PlanBuild(s) \/ PlanFinalize(s) PROVE IInv'
    <2>1. s \in Listed /\ Eligible(s, Line)
      BY NewestFacts DEF IInv, World
    <2>2. PICK n \in Revisions, mode \in {"build", "finalize-only"} : Decided(mode, s, n)
      BY <1>4 DEF PlanBuild, PlanFinalize
    <2>3. op \in Operation
      BY DEF IInv, Job
    <2>4. /\ op' \in Operation /\ phase' = "leg" /\ op'.mode # "none"
          /\ op'.source = s /\ op'.revision = n
      BY <2>1, <2>2, <2>3 DEF Decided, Operation
    <2>5. Job' /\ Planned(op)'
      BY <1>2, <2>1, <2>4 DEF Job, Planned
    <2> QED BY <1>1, <1>2, <2>4, <2>5, BooksKept
  <1> QED BY <1>3, <1>4 DEF Plan

LEMMA LegStep == ASSUME IInv, Leg PROVE IInv'
  <1>1. /\ World' /\ UNCHANGED main /\ past' = past /\ edits' = edits
        /\ op \in Operation /\ op.mode # "none" /\ Planned(op)
    BY DEF IInv, World, Job, Leg
  <1>2. Planned(past)' /\ past' \in Operation /\ edits' \in 0..MaxEdits
    BY <1>1 DEF IInv, Planned, Job
  <1>3. CASE phase' = "idle" /\ UNCHANGED op
    <2>1. Job' /\ Planned(op)'
      BY <1>1, <1>2, <1>3 DEF IInv, Job, Planned
    <2> QED BY <1>1, <1>2, <1>3, <2>1, BooksKept
  <1>4. ASSUME NEW c \in Contents, LegEnds(c) PROVE IInv'
    <2>1. c # NoBytes
      BY NoBytesAssumption
    <2>2. /\ op' \in Operation /\ phase' = "journal" /\ op'.mode = op.mode
          /\ op'.source = op.source /\ op'.revision = op.revision /\ op'.handoff = c
      BY <1>1, <1>4 DEF LegEnds, Operation
    <2>3. Job' /\ Planned(op)'
      BY <1>1, <1>2, <2>1, <2>2 DEF Job, Planned
    <2> QED BY <1>1, <1>2, <2>2, <2>3, BooksKept
  <1>5. Recoverable => Mine.content \in Contents
    <2>1. <<Name(op.source), op.revision>> \in Versions \X Revisions
      BY <1>1, NoVersionUnlisted
    <2>2. Mine \in Receipt \cup {NoReceipt}
      BY <2>1 DEF IInv, Books, Mine
    <2> QED BY <2>2 DEF Recoverable, Receipted, Mine, Receipt
  <1>6. Adoptable => upstream[op.source] \in Contents
    <2>1. Adoptable => op.source \in Listed /\ Complete(op.source)
      BY NewestFacts DEF IInv, World, Adoptable
    <2> QED BY <2>1 DEF IInv, World, Complete
  <1> QED BY <1>3, <1>4, <1>5, <1>6 DEF Leg

LEMMA JournalStep == ASSUME IInv, Journal PROVE IInv'
  <1> DEFINE mine == <<Name(op.source), op.revision>>
             new  == [source |-> op.source, content |-> op.handoff]
  <1>1. /\ World' /\ past' = past /\ edits' = edits
        /\ op \in Operation /\ op.mode # "none" /\ op.handoff # NoBytes /\ Planned(op)
        /\ ledger' = ledger /\ pending' = pending
    BY DEF IInv, World, Job, Journal
  <1>2. Planned(past)' /\ past' \in Operation /\ edits' \in 0..MaxEdits
    BY <1>1 DEF IInv, Planned, Job
  <1>3. CASE ~Journalable
    <2>1. phase' = "idle" /\ op' = op /\ UNCHANGED main
      BY <1>1, <1>3 DEF Journal, main
    <2>2. Job' /\ Planned(op)'
      BY <1>1, <1>2, <2>1 DEF Job, Planned
    <2> QED BY <1>1, <1>2, <2>1, <2>2, BooksKept
  <1>4. CASE Journalable
    <2>1. /\ receipt' = [receipt EXCEPT ![mine] = new]
          /\ op' = [op EXCEPT !.saved = TRUE] /\ phase' = "finalize"
      BY <1>4 DEF Journal
    <2>2. /\ op.source \in Listed /\ mine \in Versions \X Revisions
          /\ op.handoff \in Contents
      BY <1>1, NoVersionUnlisted DEF Operation
    <2>3. new \in Receipt
      BY <2>2 DEF Receipt
    <2>4. receipt \in [Versions \X Revisions -> Receipt \cup {NoReceipt}]
      BY DEF IInv, Books
    <2>5. /\ op' \in Operation /\ op'.mode = op.mode /\ op'.handoff = op.handoff
          /\ op'.source = op.source /\ op'.revision = op.revision
      BY <1>1, <2>1 DEF Operation
    <2>6. Job' /\ Planned(op)'
      BY <1>1, <1>2, <2>1, <2>5 DEF Job, Planned
    <2>7. receipt[mine] = NoReceipt \/ receipt[mine] = new
      BY <1>4 DEF Journalable, Mine
    <2> HIDE DEF mine, new
    <2>8. receipt' \in [Versions \X Revisions -> Receipt \cup {NoReceipt}]
      BY <2>1, <2>3, <2>4
    <2>9. receipt'[mine] = new
      BY <2>1, <2>2, <2>4
    <2>10. \A x \in Versions \X Revisions : receipt[x] # NoReceipt => receipt'[x] = receipt[x]
      BY <2>1, <2>2, <2>4, <2>7, <2>9
    <2>11. Books' /\ IsFiniteSet(pending)'
      BY <1>1, <2>8 DEF IInv, Books, Pending
    <2>12. Journaled'
      BY <2>5, <2>9 DEF Journaled, Mine, mine, new
    <2>13. RecordsReceipted'
      BY <1>1, <2>10, StillReceipted
    <2> QED BY <1>1, <1>2, <2>6, <2>11, <2>12, <2>13 DEF IInv
  <1> QED BY <1>3, <1>4

LEMMA FinalizeStep == ASSUME IInv, Finalize PROVE IInv'
  <1> DEFINE r == Record(op.source, op.revision, op.handoff)
  <1>1. /\ World' /\ past' = past /\ edits' = edits /\ op' = op /\ phase' = "idle"
        /\ op \in Operation /\ op.mode # "none" /\ op.handoff # NoBytes /\ Planned(op)
        /\ ledger' = ledger /\ receipt' = receipt /\ phase = "finalize"
        /\ pending' = {q \in pending : <<q.slot, q.revision>> # <<r.slot, r.revision>>} \cup {r}
    BY DEF IInv, World, Job, Finalize
  <1>2. Planned(past)' /\ Planned(op)' /\ Job' /\ Journaled'
    BY <1>1 DEF IInv, Planned, Job, Journaled
  <1>3. /\ op.source \in Listed /\ Eligible(op.source, Line) /\ op.revision \in Revisions
        /\ op.handoff \in Contents
    BY <1>1, NoVersionUnlisted DEF Operation
  <1>4. \A q \in pending' : q \in pending \/ q = r
    BY <1>1
  <1>5. Books'
    BY <1>1, <1>3, <1>4 DEF IInv, Books, Pending
  <1>6. IsFiniteSet(pending)'
    <2>1. IsFiniteSet({q \in pending : <<q.slot, q.revision>> # <<r.slot, r.revision>>})
      BY FS_Subset DEF IInv
    <2> QED BY <1>1, <2>1, FS_AddElement
  <1>7. Vouched(receipt', r.slot, r.key, r.content)
    <2>1. r.slot = Slot(op.source) /\ r.key = Rank[op.source] /\ r.content = op.handoff
      BY <1>3, RecordTyped
    <2>2. r.slot[1] = Name(op.source)
      BY <2>1 DEF Slot
    <2>3. op.source \in OfRank(r.key)
      BY <1>3, <2>1 DEF OfRank
    <2>4. receipt[<<Name(op.source), op.revision>>] = [source |-> op.source, content |-> op.handoff]
      BY <1>1 DEF IInv, Journaled, Mine
    <2>5. [source |-> op.source, content |-> op.handoff] \in Receipt
      BY <1>3 DEF Receipt
    <2> HIDE DEF r
    <2> QED BY <1>1, <1>3, <2>1, <2>2, <2>3, <2>4, <2>5, NoReceiptAssumption DEF Vouched
  <1> HIDE DEF r
  <1>8. RecordsReceipted'
    BY <1>1, <1>4, <1>7, StillReceipted
  <1> QED BY <1>1, <1>2, <1>5, <1>6, <1>8 DEF IInv

LEMMA CrashStep == ASSUME IInv, Crash PROVE IInv'
  <1>1. World'
    BY DEF IInv, World, Crash
  <1>2. Job'
    BY MaxEditsAssumption DEF IInv, Job, Crash, Edit
  <1> QED BY <1>1, <1>2, BooksKept DEF IInv, Crash, Planned

LEMMA FoldStep ==
    ASSUME IInv, Fold
    PROVE  IInv' /\ Grown(ledger, ledger') /\ ledger' \in Ledger
  <1>1. /\ ledger' \in After(pending) /\ pending' = {} /\ receipt' = receipt
        /\ phase' = phase /\ op' = op
    BY DEF Fold
  <1>2. World' /\ Job' /\ Planned(op)' /\ Planned(past)' /\ Journaled'
    BY DEF IInv, World, Job, Planned, Journaled, Mine, Fold
  <1>3. ledger' \in Ledger /\ Grown(ledger, ledger') /\ TakenFrom(ledger, pending, ledger')
    BY <1>1, FoldGrows DEF IInv, Books
  <1>4. Books' /\ IsFiniteSet(pending)'
    BY <1>1, <1>3, FS_EmptySet DEF IInv, Books, Pending
  <1>5. RecordsReceipted'
    BY <1>1, <1>3, StillReceipted DEF TakenFrom
  <1> QED BY <1>2, <1>3, <1>4, <1>5 DEF IInv

LEMMA WithdrawStep == ASSUME IInv, Withdraw PROVE IInv'
  <1>1. /\ pending' \subseteq pending /\ receipt' = receipt /\ ledger' = ledger
        /\ phase' = phase /\ op' = op
    BY DEF Withdraw
  <1>2. World' /\ Job' /\ Planned(op)' /\ Planned(past)' /\ Journaled'
    BY DEF IInv, World, Job, Planned, Journaled, Mine, Withdraw
  <1>3. Books' /\ IsFiniteSet(pending)'
    BY <1>1, FS_Subset DEF IInv, Books, Pending
  <1>4. RecordsReceipted'
    BY <1>1, StillReceipted
  <1> QED BY <1>2, <1>3, <1>4 DEF IInv

LEMMA StepHolds == IInv /\ [Next]_vars => IInv'
  <1> SUFFICES ASSUME IInv, [Next]_vars PROVE IInv'
    OBVIOUS
  <1>1. ASSUME NEW s \in Listed, Publish(s) PROVE IInv'
    BY <1>1, PublishStep
  <1>2. ASSUME NEW s \in Listed, NEW c \in Contents, Attach(s, c) \/ Replace(s, c) PROVE IInv'
    BY <1>2, AttachStep, ReplaceStep
  <1>3. CASE Scheduled \/ Repair
    <2>1. edits' \in 0..MaxEdits
      BY <1>3 DEF Scheduled, Repair, IInv, Job
    <2> QED BY <1>3, <2>1, DispatchStep DEF Scheduled, Repair
  <1>4. CASE Repack
    <2>1. edits' \in 0..MaxEdits
      BY <1>4, MaxEditsAssumption DEF Repack, Edit, IInv, Job
    <2> QED BY <1>4, <2>1, DispatchStep DEF Repack
  <1>5. CASE Rerun(op) \/ Rerun(past)
    BY <1>5, RerunStep
  <1>6. CASE Step
    BY <1>6, PlanStep, LegStep, JournalStep, FinalizeStep DEF Step
  <1>7. CASE Crash
    BY <1>7, CrashStep
  <1>8. CASE Fold
    BY <1>8, FoldStep
  <1>9. CASE Withdraw
    BY <1>9, WithdrawStep
  <1>10. CASE UNCHANGED vars
    BY <1>10, BooksKept DEF vars, main, IInv, World, Job, Planned
  <1> QED BY <1>1, <1>2, <1>3, <1>4, <1>5, <1>6, <1>7, <1>8, <1>9, <1>10 DEF Next

LEMMA Invariance == Spec => []IInv
  BY InitHolds, StepHolds, PTL DEF Spec

------------------------------------------------------------------------------
(* Every state of the pipeline of adopted assets is well-formed. *)
THEOREM TypeCorrect == Spec => []TypeOK
  <1>1. IInv => TypeOK
    BY TypeParts DEF IInv
  <1> QED BY <1>1, Invariance, PTL

(* resolvers.py: whatever the source lists, and in whatever order, the one *)
(* pass over it ends with a version no other candidate outranks.           *)
THEOREM NewestHolds == Spec => []NewestResolved
  <1>1. IInv => NewestResolved
    BY NewestSound DEF IInv, World
  <1> QED BY <1>1, Invariance, PTL

(* receipts.additions refuses a second receipt of other content for a name *)
(* and revision, and the journal is on main before a record is queued:     *)
(* what the queue and the ledger hold, a receipt vouches for.              *)
THEOREM ReceiptsVouch == Spec => []RecordsReceipted
  <1>1. IInv => RecordsReceipted
    BY DEF IInv
  <1> QED BY <1>1, Invariance, PTL

(* pending.py: no fold of a queue, whatever it holds and in whatever order *)
(* it is read, replaces a version by an older one, or the bytes of a       *)
(* version by others.                                                      *)
THEOREM SourceOnlyGetsNewer == Spec => SourceNeverRegresses
  <1>1. ASSUME IInv, [Next]_vars PROVE [KeepsSource]_ledger
    <2>1. CASE ledger' = ledger
      BY <2>1
    <2>2. CASE Fold
      <3>1. ledger \in Ledger /\ ledger' \in Ledger /\ Grown(ledger, ledger')
        BY <1>1, <2>2, FoldStep DEF IInv, Books
      <3>2. ASSUME NEW t \in DOMAIN ledger, NEW s \in OfRank(ledger[t].key),
                   NEW u \in OfRank(ledger'[t].key)
            PROVE  /\ CompareStr(u, s) >= 0
                   /\ CompareStr(u, s) = 0 => ledger'[t].content = ledger[t].content
        <4>1. /\ s \in Listed /\ Eligible(s, Line) /\ Rank[s] = ledger[t].key
              /\ u \in Listed /\ Eligible(u, Line) /\ Rank[u] = ledger'[t].key
          BY DEF OfRank
        <4>2. /\ Rank[s] <= Rank[u] <=> CompareStr(s, u) <= 0
              /\ Rank[u] <= Rank[s] <=> CompareStr(u, s) <= 0
          BY <4>1, RankIsVersionOrder
        <4>3. CompareStr(u, s) \in {-1, 0, 1} /\ CompareStr(u, s) = -CompareStr(s, u)
              /\ CompareStr(s, u) \in {-1, 0, 1}
          BY <4>1, CompareFacts
        <4>4. /\ ledger'[t].key >= ledger[t].key
              /\ ledger'[t].key = ledger[t].key => ledger'[t] = ledger[t]
          BY <3>1 DEF Grown
        <4>5. Rank[s] \in Nat /\ Rank[u] \in Nat
          BY <4>1, RankOrders
        <4> QED BY <4>1, <4>2, <4>3, <4>4, <4>5
      <3> QED BY <3>1, <3>2 DEF KeepsSource, Grown
    <2> QED
      BY <1>1, <2>1, <2>2 DEF Next, vars, main, Publish, Attach, Replace, Scheduled, Repair,
         Repack, Dispatch, Rerun, Step, Plan, Leg, Journal, Finalize, Crash, Withdraw
  <1> QED BY <1>1, Invariance, PTL DEF Spec, SourceNeverRegresses
==============================================================================
