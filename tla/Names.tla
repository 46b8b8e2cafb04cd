-------------------------------- MODULE Names --------------------------------
(***************************************************************************)
(* How confirmation of payee compares the name that a payer has typed with *)
(* that of the account: core/strings.js and name-enquiry/cop-service.js.   *)
(*                                                                         *)
(* A name is a sequence of words, a word a sequence of letters, a letter a *)
(* positive number: names as normalizeForCompare leaves them.  A           *)
(* similarity is a fraction [num, den], where the code has a double; the   *)
(* two differ only where a similarity is equal to a threshold.             *)
(***************************************************************************)
EXTENDS Naturals, Sequences, FiniteSets, SequencesExt

SPACE == 0

-----------------------------------------------------------------------------
(* Words.                                                                  *)

Before(v, w) ==
  \/ IsPrefix(v, w)
  \/ \E i \in DOMAIN v \cap DOMAIN w :
       v[i] < w[i] /\ SubSeq(v, 1, i - 1) = SubSeq(w, 1, i - 1)

Joined(words) == FoldLeft(LAMBDA text, w : IF text = << >> THEN w ELSE text \o <<SPACE>> \o w, << >>, words)

normalizeAndSortTokens(name) == Joined(SortSeq(name, Before))

\* Mutant: what the payer typed has to be all of the name.
tokensWithin(a, b) == ToSet(a) \subseteq ToSet(b)

tokensSubset(a, b) ==
  /\ a # << >> /\ b # << >>
  /\ IF Cardinality(ToSet(a)) <= Cardinality(ToSet(b)) THEN ToSet(a) \subseteq ToSet(b)
     ELSE ToSet(b) \subseteq ToSet(a)

-----------------------------------------------------------------------------
(* Jaro-Winkler.                                                           *)

\* Each letter of s1 is matched with the first equal one of s2 that is near
\* and not matched yet: pairs of positions, in the order of s1.
Matches(s1, s2) ==
  LET half == Max({Len(s1), Len(s2)}) \div 2
      window == IF half = 0 THEN 0 ELSE half - 1
      step(pairs, i) ==
        LET free == {j \in DOMAIN s2 : /\ j <= i + window /\ i <= j + window
                                       /\ s1[i] = s2[j]
                                       /\ \A n \in DOMAIN pairs : pairs[n][2] # j}
        IN IF free = {} THEN pairs ELSE Append(pairs, <<i, Min(free)>>)
  IN FoldLeft(step, << >>, [i \in DOMAIN s1 |-> i])

\* Matched letters that are not in the same order on both sides.
transpositions(s1, s2, pairs) ==
  LET second == SortSeq([n \in DOMAIN pairs |-> pairs[n][2]], LAMBDA j, k : j < k)
  IN Cardinality({n \in DOMAIN pairs : s1[pairs[n][1]] # s2[second[n]]})

jaro(s1, s2) ==
  LET pairs == Matches(s1, s2)
      m == Len(pairs)
      l1 == Len(s1)
      l2 == Len(s2)
  IN IF s1 = s2 THEN [num |-> 1, den |-> 1]
     ELSE IF m = 0 THEN [num |-> 0, den |-> 1]
     ELSE [num |-> 2 * m * m * (l1 + l2) + (2 * m - transpositions(s1, s2, pairs)) * l1 * l2,
           den |-> 6 * m * l1 * l2]

\* The letters that the two begin with, four at most.
common(s1, s2) ==
  Cardinality({i \in DOMAIN s1 \cap DOMAIN s2 \cap 1 .. 4 : SubSeq(s1, 1, i) = SubSeq(s2, 1, i)})

jaroWinkler(s1, s2) ==
  LET j == jaro(s1, s2) IN
  IF j.num = 0 THEN j
  ELSE [num |-> 10 * j.num + common(s1, s2) * (j.den - j.num), den |-> 10 * j.den]

-----------------------------------------------------------------------------
(* Confirmation of payee.                                                  *)

scoreFor(similarity, canonical, supplied) ==
  IF 100 * similarity.num >= 92 * similarity.den THEN "close-match"
  ELSE IF \/ 100 * similarity.num >= 75 * similarity.den
          \/ tokensSubset(canonical, supplied)
       THEN "partial-match" ELSE "no-match"

cop(canonical, supplied) ==
  LET s1 == normalizeAndSortTokens(canonical)
      s2 == normalizeAndSortTokens(supplied)
  IN IF s1 = s2 THEN "match" ELSE scoreFor(jaroWinkler(s1, s2), canonical, supplied)

\* Of all names: a similarity is a share, and whole only for what is equal
\* but for the order of the words; the order in which a payer types the words
\* changes nothing, only all of them match, and some of them match in part.
NamesAreComparedFairly(names) ==
  \A canonical, supplied \in names :
    LET similarity == jaroWinkler(normalizeAndSortTokens(canonical), normalizeAndSortTokens(supplied))
        score == cop(canonical, supplied)
        reorderings == {w \in names : /\ Len(w) = Len(supplied)
                                      /\ \E p \in [DOMAIN w -> DOMAIN w] :
                                           IsInjective(p) /\ w = [i \in DOMAIN w |-> supplied[p[i]]]}
    IN /\ similarity.num \in 0 .. similarity.den
       /\ (similarity.num = similarity.den) <=> (canonical \in reorderings)
       /\ (score = "match") <=> (canonical \in reorderings)
       /\ \A w \in reorderings : cop(canonical, w) = score
       /\ ToSet(supplied) \subseteq ToSet(canonical) => score # "no-match"

=============================================================================
