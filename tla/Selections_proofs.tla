------------------------- MODULE Selections_proofs --------------------------
(***************************************************************************)
(* What Selected returns, for every list: the facts about it that the      *)
(* proofs of the modules that filter lists cite.  The induction is over    *)
(* the places of the list, as a least counterexample.                      *)
(***************************************************************************)
EXTENDS Selections, SequenceTheorems, FiniteSetTheorems, WellFoundedInduction, TLAPS

LEMMA LeastNumber ==
  ASSUME NEW T, T \subseteq Nat, T # {}
  PROVE  \E x \in T : \A y \in T : x <= y
<1>1. PICK x \in T : \A y \in T : ~ (<<y, x>> \in OpToRel(<, Nat))
  BY NatLessThanWellFounded, WFMin
<1>2. \A y \in T : ~ (y < x)
  BY <1>1 DEF OpToRel
<1> QED  BY <1>2

\* The function by which Selected goes over the list exists.
GoesOver(f, list, at, m) ==
  f = [n \in 0 .. m |->
         IF n = 0 THEN <<>>
         ELSE IF n \in at THEN Append(f[n - 1], list[n]) ELSE f[n - 1]]

LEMMA GoesOverExists ==
  ASSUME NEW list, NEW at, NEW m \in Nat
  PROVE  \E f : GoesOver(f, list, at, m)
<1> DEFINE Bad == {n \in Nat : ~ \E f : GoesOver(f, list, at, n)}
<1> SUFFICES ASSUME Bad # {} PROVE FALSE
  OBVIOUS
<1>1. PICK n \in Bad : \A k \in Bad : n <= k
  BY LeastNumber
<1>2. CASE n = 0
  <2>1. GoesOver([k \in 0 .. 0 |-> <<>>], list, at, 0)
    BY DEF GoesOver
  <2> QED  BY <1>1, <1>2, <2>1
<1>3. CASE n # 0
  <2>1. n \in Nat /\ n - 1 \in Nat /\ n - 1 \notin Bad
    BY <1>1, <1>3
  <2>2. PICK f : GoesOver(f, list, at, n - 1)
    BY <2>1
  <2> DEFINE g == [k \in 0 .. n |->
                     IF k < n THEN f[k]
                     ELSE IF n \in at THEN Append(f[n - 1], list[n]) ELSE f[n - 1]]
  <2>3. \A k \in 0 .. n - 1 :
          f[k] = IF k = 0 THEN <<>>
                 ELSE IF k \in at THEN Append(f[k - 1], list[k]) ELSE f[k - 1]
    BY <2>1, <2>2 DEF GoesOver
  <2>4. \A k \in 0 .. n :
          g[k] = IF k = 0 THEN <<>>
                 ELSE IF k \in at THEN Append(g[k - 1], list[k]) ELSE g[k - 1]
    <3>1. ASSUME NEW k \in 0 .. n, k < n
          PROVE  g[k] = IF k = 0 THEN <<>>
                        ELSE IF k \in at THEN Append(g[k - 1], list[k]) ELSE g[k - 1]
      BY <2>1, <2>3, <3>1
    <3>2. g[n] = IF n \in at THEN Append(g[n - 1], list[n]) ELSE g[n - 1]
      BY <2>1
    <3> QED  BY <1>3, <2>1, <3>1, <3>2
  <2>5. GoesOver(g, list, at, n)
    <3>1. g = [k \in 0 .. n |-> g[k]]
      OBVIOUS
    <3> HIDE DEF g
    <3> QED  BY <2>4, <3>1 DEF GoesOver
  <2> QED  BY <1>1, <2>5
<1> QED  BY <1>2, <1>3

\* A selection of the first m elements of a list: p says where each element of
\* it comes from, in the order of the list, and misses no place of `at`.
Picks(out, S, list, at, m, p) ==
  /\ out \in Seq(S)
  /\ p \in [1 .. Len(out) -> 1 .. m]
  /\ \A k \in 1 .. Len(out) : p[k] \in at /\ out[k] = list[p[k]]
  /\ \A j, k \in 1 .. Len(out) : j < k => p[j] < p[k]
  /\ \A n \in at \cap (1 .. m) : \E k \in 1 .. Len(out) : p[k] = n

LEMMA PicksNothing ==
  ASSUME NEW S, NEW list, NEW at
  PROVE  Picks(<<>>, S, list, at, 0, <<>>)
<1>1. <<>> \in Seq(S) /\ Len(<<>>) = 0
  BY EmptySeq
<1>2. <<>> \in [1 .. 0 -> 1 .. 0]
  OBVIOUS
<1> QED  BY <1>1, <1>2 DEF Picks

LEMMA PicksOneMore ==
  ASSUME NEW S, NEW list \in Seq(S), NEW at, NEW m \in Nat \ {0}, m <= Len(list),
         NEW out, NEW p, Picks(out, S, list, at, m - 1, p)
  PROVE  \E q : Picks(IF m \in at THEN Append(out, list[m]) ELSE out,
                      S, list, at, m, q)
<1>1. out \in Seq(S) /\ Len(out) \in Nat /\ p \in [1 .. Len(out) -> 1 .. m - 1]
  BY LenProperties DEF Picks
<1>2. CASE m \notin at
  <2>1. p \in [1 .. Len(out) -> 1 .. m]
    BY <1>1
  <2>2. Picks(out, S, list, at, m, p)
    BY <1>1, <1>2, <2>1 DEF Picks
  <2> QED  BY <1>2, <2>2
<1>3. CASE m \in at
  <2> DEFINE more == Append(out, list[m])
             q == [k \in 1 .. Len(out) + 1 |-> IF k <= Len(out) THEN p[k] ELSE m]
  <2>1. list[m] \in S
    <3>1. m \in 1 .. Len(list)
      BY LenProperties
    <3> QED  BY <3>1, ElementOfSeq
  <2>2. /\ more \in Seq(S) /\ Len(more) = Len(out) + 1
        /\ \A k \in 1 .. Len(out) : more[k] = out[k]
        /\ more[Len(out) + 1] = list[m]
    BY <1>1, <2>1, AppendProperties
  <2>3. /\ q \in [1 .. Len(out) + 1 -> 1 .. m]
        /\ \A k \in 1 .. Len(out) : q[k] = p[k]
        /\ q[Len(out) + 1] = m
    BY <1>1
  <2> HIDE DEF more, q
  <2>4. \A k \in 1 .. Len(more) : q[k] \in at /\ more[k] = list[q[k]]
    BY <1>1, <1>3, <2>2, <2>3 DEF Picks
  <2>5. \A j, k \in 1 .. Len(more) : j < k => q[j] < q[k]
    <3> SUFFICES ASSUME NEW j \in 1 .. Len(more), NEW k \in 1 .. Len(more), j < k
                 PROVE  q[j] < q[k]
      OBVIOUS
    <3>1. j \in 1 .. Len(out) /\ q[j] = p[j] /\ p[j] \in 1 .. m - 1
      <4>1. j \in 1 .. Len(out) + 1 /\ k \in 1 .. Len(out) + 1
        BY <2>2
      <4>2. j \in 1 .. Len(out)
        BY <1>1, <4>1
      <4> QED  BY <1>1, <2>3, <4>2
    <3>2. CASE k = Len(out) + 1
      <4>1. q[k] = m
        BY <2>3, <3>2
      <4>2. PICK a \in 1 .. m - 1 : a = q[j]
        BY <3>1
      <4>3. a < m
        OBVIOUS
      <4> QED  BY <4>1, <4>2, <4>3
    <3>3. CASE k # Len(out) + 1
      <4>1. k \in 1 .. Len(out)
        <5>1. k \in 1 .. Len(out) + 1
          BY <2>2
        <5> QED  BY <1>1, <3>3, <5>1
      <4>2. q[k] = p[k]
        BY <2>3, <4>1
      <4> QED  BY <3>1, <4>1, <4>2 DEF Picks
    <3> QED  BY <3>2, <3>3
  <2>6. \A n \in at \cap (1 .. m) : \E k \in 1 .. Len(more) : q[k] = n
    <3>1. ASSUME NEW n \in at \cap (1 .. m), n # m
          PROVE  \E k \in 1 .. Len(more) : q[k] = n
      <4>1. n \in at \cap (1 .. m - 1)
        BY <3>1
      <4>2. PICK k \in 1 .. Len(out) : p[k] = n
        BY <4>1 DEF Picks
      <4> QED  BY <1>1, <2>2, <2>3, <4>2
    <3>2. Len(out) + 1 \in 1 .. Len(more)
      BY <1>1, <2>2
    <3> QED  BY <2>3, <3>1, <3>2
  <2>7. Picks(more, S, list, at, m, q)
    BY <2>2, <2>3, <2>4, <2>5, <2>6 DEF Picks
  <2> QED  BY <1>3, <2>7 DEF more
<1> QED  BY <1>2, <1>3

LEMMA GoesOverPicks ==
  ASSUME NEW S, NEW list \in Seq(S), NEW at, NEW f, GoesOver(f, list, at, Len(list))
  PROVE  \A m \in 0 .. Len(list) : \E p : Picks(f[m], S, list, at, m, p)
<1> DEFINE Bad == {m \in 0 .. Len(list) : ~ \E p : Picks(f[m], S, list, at, m, p)}
<1> SUFFICES ASSUME Bad # {} PROVE FALSE
  OBVIOUS
<1>1. Len(list) \in Nat
  BY LenProperties
<1>2. Bad \subseteq Nat
  BY <1>1
<1>3. PICK m \in Bad : \A k \in Bad : m <= k
  BY <1>2, LeastNumber
<1>4. f[m] = IF m = 0 THEN <<>>
             ELSE IF m \in at THEN Append(f[m - 1], list[m]) ELSE f[m - 1]
  BY <1>3 DEF GoesOver
<1>5. CASE m = 0
  BY <1>3, <1>4, <1>5, PicksNothing
<1>6. CASE m # 0
  <2>1. m \in Nat \ {0} /\ m <= Len(list) /\ m - 1 \in 0 .. Len(list) /\ m - 1 \notin Bad
    BY <1>1, <1>3, <1>6
  <2>2. PICK p : Picks(f[m - 1], S, list, at, m - 1, p)
    BY <2>1
  <2>3. \E q : Picks(f[m], S, list, at, m, q)
    BY <1>4, <1>6, <2>1, <2>2, PicksOneMore
  <2> QED  BY <1>3, <2>3
<1> QED  BY <1>5, <1>6

\* A selection has the elements at the places it was asked for, each of them
\* once and in the order of the list: the loops that drop the repeated links
\* and the messages that are trash lose and reorder nothing.
LEMMA SelectedPicks ==
  ASSUME NEW S, NEW list \in Seq(S), NEW at
  PROVE  \E p : Picks(Selected(list, at), S, list, at, Len(list), p)
<1> DEFINE f == CHOOSE g : GoesOver(g, list, at, Len(list))
<1>1. Len(list) \in Nat
  BY LenProperties
<1>2. GoesOver(f, list, at, Len(list))
  BY <1>1, GoesOverExists
<1>3. Selected(list, at) = f[Len(list)]
  BY DEF Selected, GoesOver
<1> HIDE DEF f
<1>4. Len(list) \in 0 .. Len(list)
  BY <1>1
<1> QED  BY <1>2, <1>3, <1>4, GoesOverPicks

LEMMA CountTo ==
  ASSUME NEW n \in Nat
  PROVE  IsFiniteSet(1 .. n) /\ Cardinality(1 .. n) = n
<1>1. /\ IsFiniteSet(1 .. n)
      /\ Cardinality(1 .. n) = IF 1 > n THEN 0 ELSE n - 1 + 1
  <2>1. 1 \in Int /\ n \in Int
    OBVIOUS
  <2> QED  BY <2>1, FS_Interval
<1> QED  BY <1>1

LEMMA CountBetween ==
  ASSUME NEW a \in Nat, NEW n \in Nat
  PROVE  IsFiniteSet(a .. a + n) /\ Cardinality(a .. a + n) = n + 1
<1> DEFINE b == a + n
<1>1. a \in Int /\ b \in Int /\ ~ (a > b) /\ b - a + 1 = n + 1
  OBVIOUS
<1> HIDE DEF b
<1>2. /\ IsFiniteSet(a .. b)
      /\ Cardinality(a .. b) = IF a > b THEN 0 ELSE b - a + 1
  BY <1>1, FS_Interval
<1> QED  BY <1>1, <1>2 DEF b

\* It has no more elements than the list, and just those at the places.
LEMMA SelectedFacts ==
  ASSUME NEW S, NEW list \in Seq(S), NEW at
  PROVE  /\ Selected(list, at) \in Seq(S)
         /\ Len(Selected(list, at)) <= Len(list)
         /\ Range(Selected(list, at)) = {list[k] : k \in at \cap DOMAIN list}
<1> DEFINE out == Selected(list, at)
<1>1. PICK p : Picks(out, S, list, at, Len(list), p)
  BY SelectedPicks
<1> HIDE DEF out
<1>2. /\ out \in Seq(S) /\ Len(out) \in Nat /\ DOMAIN out = 1 .. Len(out)
      /\ Len(list) \in Nat /\ DOMAIN list = 1 .. Len(list)
  BY <1>1, LenProperties DEF Picks
<1>3. Len(out) <= Len(list)
  <2>1. p \in [1 .. Len(out) -> 1 .. Len(list)]
    BY <1>1 DEF Picks
  <2>2. \A j, k \in 1 .. Len(out) : p[j] = p[k] => j = k
    <3> SUFFICES ASSUME NEW j \in 1 .. Len(out), NEW k \in 1 .. Len(out),
                        p[j] = p[k], j # k
                 PROVE  FALSE
      OBVIOUS
    <3>1. (j < k \/ k < j) /\ p[j] \in Nat /\ p[k] \in Nat
      BY <1>2, <2>1
    <3> QED  BY <1>1, <3>1 DEF Picks
  <2>3. p \in Injection(1 .. Len(out), 1 .. Len(list))
    BY <2>1, <2>2 DEF Injection, IsInjective
  <2>4. /\ IsFiniteSet(1 .. Len(list)) /\ Cardinality(1 .. Len(list)) = Len(list)
        /\ Cardinality(1 .. Len(out)) = Len(out)
    BY <1>2, CountTo
  <2> QED  BY <2>3, <2>4, FS_Injection
<1>4. Range(out) = {list[k] : k \in at \cap DOMAIN list}
  <2>1. ASSUME NEW k \in 1 .. Len(out)
        PROVE  out[k] \in {list[n] : n \in at \cap DOMAIN list}
    BY <1>1, <1>2, <2>1 DEF Picks
  <2>2. ASSUME NEW n \in at \cap DOMAIN list
        PROVE  \E k \in 1 .. Len(out) : out[k] = list[n]
    BY <1>1, <1>2, <2>2 DEF Picks
  <2> QED  BY <1>2, <2>1, <2>2 DEF Range
<1> QED  BY <1>2, <1>3, <1>4 DEF out

\* Places with different elements give a selection without repetitions.
LEMMA SelectedOnce ==
  ASSUME NEW S, NEW list \in Seq(S), NEW at,
         \A j, k \in at \cap DOMAIN list : list[j] = list[k] => j = k
  PROVE  IsInjective(Selected(list, at))
<1> DEFINE out == Selected(list, at)
<1>1. PICK p : Picks(out, S, list, at, Len(list), p)
  BY SelectedPicks
<1> HIDE DEF out
<1>2. /\ Len(out) \in Nat /\ DOMAIN out = 1 .. Len(out)
      /\ Len(list) \in Nat /\ DOMAIN list = 1 .. Len(list)
  BY <1>1, LenProperties DEF Picks
<1>3. ASSUME NEW j \in 1 .. Len(out), NEW k \in 1 .. Len(out), out[j] = out[k], j < k
      PROVE  FALSE
  <2>1. p[j] \in 1 .. Len(list) /\ p[k] \in 1 .. Len(list)
    BY <1>1 DEF Picks
  <2>2. p[j] = p[k] /\ p[j] < p[k]
    BY <1>1, <1>2, <1>3, <2>1 DEF Picks
  <2> QED  BY <2>1, <2>2
<1>4. \A j, k \in 1 .. Len(out) : out[j] = out[k] => j = k
  BY <1>2, <1>3
<1> QED  BY <1>2, <1>4 DEF out, IsInjective

\* What comes before an element in the list comes before it in the selection.
LEMMA SelectedInOrder ==
  ASSUME NEW S, NEW list \in Seq(S), NEW at, IsInjective(list),
         NEW j \in at \cap DOMAIN list, NEW k \in at \cap DOMAIN list, j < k,
         NEW i \in 1 .. Len(Selected(list, at)), Selected(list, at)[i] = list[k]
  PROVE  \E h \in 1 .. Len(Selected(list, at)) : h < i /\ Selected(list, at)[h] = list[j]
<1> DEFINE out == Selected(list, at)
<1>1. PICK p : Picks(out, S, list, at, Len(list), p)
  BY SelectedPicks
<1>2. i \in 1 .. Len(out) /\ out[i] = list[k]
  OBVIOUS
<1> HIDE DEF out
<1>3. Len(out) \in Nat /\ Len(list) \in Nat /\ DOMAIN list = 1 .. Len(list)
  BY <1>1, LenProperties DEF Picks
<1>4. p[i] = k
  <2>1. p[i] \in DOMAIN list /\ out[i] = list[p[i]]
    BY <1>1, <1>2, <1>3 DEF Picks
  <2> QED  BY <1>2, <2>1 DEF IsInjective
<1>5. PICK h \in 1 .. Len(out) : p[h] = j
  BY <1>1, <1>3 DEF Picks
<1>6. h < i
  <2>1. j \in Nat /\ k \in Nat /\ h \in Nat /\ i \in Nat
    BY <1>2, <1>3
  <2>2. i < h => p[i] < p[h]
    BY <1>1, <1>2 DEF Picks
  <2> QED  BY <1>4, <1>5, <2>1, <2>2
<1>7. out[h] = list[j]
  BY <1>1, <1>5 DEF Picks
<1> QED  BY <1>5, <1>6, <1>7 DEF out
=============================================================================
