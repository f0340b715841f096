----------------------------- MODULE VersionOrder -----------------------------
(***************************************************************************)
(* The orders behind every "newer" of the pipeline (versions.py), the      *)
(* lines of a component, and the resolvers that answer which version of a  *)
(* line is the newest.  ScrapeRules ranks versions, and LedgerRules keys,  *)
(* by naturals; Adopted ranks source versions by the orders given here.    *)
(*                                                                         *)
(* A string is what its parser cuts it into.  A numeral is a digit run,    *)
(* with or without leading zeros.  A text run is its place in byte order,  *)
(* negative before the digits and positive after them.                     *)
(***************************************************************************)
EXTENDS Integers, Sequences, FiniteSets

CONSTANTS Values,     \* of the numerals
          Texts,      \* places of the text runs
          Lower,      \* the place of a text run in lower case
          Listed      \* the versions that may be listed, as written

ASSUME ValuesAssumption == 0 \in Values /\ Values \subseteq Nat
ASSUME TextsAssumption  == Texts \subseteq Int \ {0} /\ Lower \in [Texts -> Texts]

Numeral == [place : {0}, value : Values, zeros : BOOLEAN]
Text    == [place : Texts, value : {0}, zeros : {FALSE}]
Run     == Numeral \cup Text

ASSUME WrittenAssumption == \A s \in Listed : /\ s.core \in Seq(Numeral)
                                             /\ s.tail \in Seq(Run)
                                             /\ s.dashed \in Seq(Seq(Run))

Digits(r) == r.place = 0

Plain(n) == [place |-> 0, value |-> n, zeros |-> FALSE]

Sign(n) == IF n < 0 THEN -1 ELSE IF n > 0 THEN 1 ELSE 0

------------------------------------------------------------------------------
(* The natural order. *)

\* Slip: digit runs are compared as text, the first digit first (below 100).
CompareRun_Bytes(a, b) ==
    LET lead(n) == IF n < 10 THEN n ELSE n \div 10
    IN  Sign(a.place - b.place + 100 * (lead(a.value) - lead(b.value)) + a.value - b.value)

\* Two digit runs as numbers, any other pair byte-wise.
CompareRun(a, b) == IF Digits(a) /\ Digits(b) THEN Sign(a.value - b.value)
                                              ELSE Sign(a.place - b.place)

FirstOf(D) == CHOOSE i \in D : \A j \in D : i <= j

\* The first difference decides, then the length.
Ordered(Cmp(_, _), a, b) ==
    LET D == {i \in DOMAIN a \cap DOMAIN b : Cmp(a[i], b[i]) # 0}
    IN  IF D = {} THEN Sign(Len(a) - Len(b)) ELSE Cmp(a[FirstOf(D)], b[FirstOf(D)])

CompareNatural(a, b) == Ordered(CompareRun, a, b)

Lowered(id)             == [i \in DOMAIN id |-> IF Digits(id[i]) THEN id[i]
                                                ELSE [id[i] EXCEPT !.place = Lower[@]]]
ComparePrerelease(p, q) == LET Cmp(a, b) == CompareNatural(Lowered(a), Lowered(b))
                           IN  Ordered(Cmp, p, q)

\* An ordering key of an adopted asset, cut at dots and dashes.
CompareProviderKey(s, t) == Ordered(CompareNatural, s, t)

------------------------------------------------------------------------------
(***************************************************************************)
(* Versions as written: dotted numerals, text that follows the last one    *)
(* ("8.6.0RC9"), what follows a dash, cut at its dots, and whether there   *)
(* is a leading "v" or "go" or build metadata.                             *)
(***************************************************************************)
Written(core, tail, dashed, dressed) ==
    [core |-> core, tail |-> tail, dashed |-> dashed, dressed |-> dressed]

Exactly(core) == Written(core, <<>>, <<>>, FALSE)

Parses(s) == Len(s.core) \in 1..3

Parse(s) == [core |-> [i \in 1..3 |-> IF i <= Len(s.core) THEN s.core[i].value ELSE 0],
             prerelease |-> IF s.dashed # <<>> THEN s.dashed
                            ELSE IF s.tail # <<>> THEN <<s.tail>> ELSE <<>>]

IsPrerelease(v) == v.prerelease # <<>>

CompareParsed(v, w) ==
    LET number(a, b) == Sign(a - b)
        c == Ordered(number, v.core, w.core)
        stable(x) == IF IsPrerelease(x) THEN 0 ELSE 1
    IN  IF c # 0 THEN c
        ELSE IF IsPrerelease(v) /\ IsPrerelease(w)
             THEN ComparePrerelease(v.prerelease, w.prerelease)
             ELSE stable(v) - stable(w)

Compared         == [s \in Listed |-> [t \in Listed |-> CompareParsed(Parse(s), Parse(t))]]
CompareStr(s, t) == Compared[s][t]

\* A line is written "8", "8.4" or "8.4.1"; the last holds one spelling.
InLine(s, line) ==
    /\ Parses(s)
    /\ IF Len(line) = 3 THEN s = Exactly([i \in 1..3 |-> Plain(line[i])])
                        ELSE SubSeq(Parse(s).core, 1, Len(line)) = line

------------------------------------------------------------------------------
(* The resolvers: one pass over what the source lists, in its order. *)

\* Slip: prereleases of the line count.
Eligible_Any(s, line) == InLine(s, line)

Eligible(s, line) == InLine(s, line) /\ ~IsPrerelease(Parse(s))

\* Slip: the last one listed.
Better_Last(s, best) == TRUE

Better(s, best) == \A b \in best : CompareStr(s, b) > 0

\* hashes_newest, nginx_newest and theseus_newest: the one version found among
\* those that count, or, where there is none, the ResolveError.
Resolved(listing, counted, line) ==
    LET best[i \in 0..Len(listing)] ==
            IF i = 0 THEN {}
            ELSE IF /\ listing[i] \in counted
                    /\ Eligible(listing[i], line) /\ Better(listing[i], best[i - 1])
                 THEN {listing[i]} ELSE best[i - 1]
    IN  best[Len(listing)]
==============================================================================
