------------------------------- MODULE MCAdopted -------------------------------
(***************************************************************************)
(* A line "1" of two names, 1.0 and 1.1: upstream starts at 1.0.2 and may  *)
(* come to list 1.0.10 (a number that is newer and a text that is older),  *)
(* 1.1.0 and 1.1.1-rc.  Two contents; three revisions of a name, the first *)
(* of which is read last, as on Windows.                                   *)
(*                                                                         *)
(* The orders themselves are compared over prereleases and keys that mix   *)
(* numbers, leading zeros, text and case.                                  *)
(***************************************************************************)
EXTENDS Adopted

CONSTANTS bytesA, bytesB, windows

TwoContents == {bytesA, bytesB}
OnePlatform == {windows}
NoSource    == {}
OneEpoch    == {1}
FourKeys    == 1..4
SomeValues  == {0, 1, 2, 10}
ThreeTexts  == {-1, 1, 2}                   \* "-", "RC" and "rc"
LowerCase   == [t \in ThreeTexts |-> IF t = 1 THEN 2 ELSE t]

Numbers(a, b, c) == <<Plain(a), Plain(b), Plain(c)>>
Word(t)          == [place |-> t, value |-> 0, zeros |-> FALSE]

MajorOne == <<1>>
First    == Exactly(Numbers(1, 0, 2))
Four     == {First, Exactly(Numbers(1, 0, 10)), Exactly(Numbers(1, 1, 0)),
             Written(Numbers(1, 1, 1), <<>>, <<<<Word(2)>>>>, FALSE)}
ProviderOnly == {Provider}
Names        == {<<1, 0>>, <<1, 1>>}
FullNames    == {<<1, 0, 2>>, <<1, 0, 10>>, <<1, 1, 0>>, <<1, 1, 1>>}
ThreeTries   == 1..3

------------------------------------------------------------------------------
\* "1", "01", "RC", "rc", "rc1", "rc01", "rc0", "-1", "1rc"
Zero    == Plain(0)
One     == Plain(1)
ZeroOne == [One EXCEPT !.zeros = TRUE]
Identifiers ==
    {<<One>>, <<ZeroOne>>, <<Word(1)>>, <<Word(2)>>, <<Word(2), One>>, <<Word(2), ZeroOne>>,
     <<Word(2), Zero>>, <<Word(-1), One>>, <<One, Word(2)>>}

\* Prereleases and keys of one or two identifiers, and versions with them.
Cut         == {<<a>> : a \in Identifiers} \cup {<<a, b>> : a, b \in Identifiers}
SomeWritten == {Written(c, t, d, dressed) :
                    c \in {<<One>>, <<One, Zero>>, <<One, One>>, <<One, ZeroOne>>,
                           <<One, One, One>>, <<Zero, One>>, <<One, One, Zero, Zero>>},
                    t \in {<<>>, <<Word(2), One>>}, d \in {<<>>, <<<<Word(2)>>>>},
                    dressed \in BOOLEAN}

\* An order that numbers its elements: antisymmetric, transitive, and equal
\* elements agree about every other one.
Ranked(Cmp(_, _), S) ==
    LET rank == [a \in S |-> Cardinality({b \in S : Cmp(b, a) < 0})]
    IN  \A a, b \in S : Cmp(a, b) = Sign(rank[a] - rank[b])

\* Evaluated by TLC before the run: a sort, a floor and a maximum mean something.
ASSUME OrdersRank ==
    /\ Ranked(CompareParsed, {Parse(s) : s \in {v \in SomeWritten : Parses(v)}})
    /\ Ranked(ComparePrerelease, Cut)
    /\ Ranked(CompareProviderKey, Cut)
==============================================================================
