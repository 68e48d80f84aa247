---------------------------- MODULE TableProofs ----------------------------
(***************************************************************************)
(* Lemmas about what the modules of tables use: numbers, counts, and the   *)
(* lists an ORDER BY makes of rows.                                        *)
(***************************************************************************)
EXTENDS Table, FiniteSetTheorems, SequenceTheorems, WellFoundedInduction, TLAPS

\* A part of a finite set that is not all of it has fewer elements.
LEMMA FewerThan ==
    ASSUME NEW S, IsFiniteSet(S), NEW T \in SUBSET S, T # S
    PROVE  /\ Cardinality(T) \in Nat /\ Cardinality(S) \in Nat
           /\ Cardinality(T) < Cardinality(S)
<1>1. /\ IsFiniteSet(T) /\ Cardinality(T) <= Cardinality(S)
      /\ Cardinality(T) # Cardinality(S)
  BY FS_Subset
<1>2. Cardinality(T) \in Nat /\ Cardinality(S) \in Nat
  BY <1>1, FS_CardinalityType
<1> QED BY <1>1, <1>2

\* Of a set of numbers one is the least.
LEMMA LeastNumber ==
    ASSUME NEW T \in SUBSET Nat, T # {}
    PROVE  \E m \in T : \A k \in T : m <= k
<1> DEFINE R == OpToRel(<, Nat)
<1>1. IsWellFoundedOn(R, Nat)
  BY NatLessThanWellFounded
<1>2. \A k, n \in Nat : k < n => <<k, n>> \in R
  BY DEF OpToRel
<1> HIDE DEF R
<1>3. PICK m \in T : \A k \in T : ~(<<k, m>> \in R)
  BY <1>1, WFMin
<1>4. m \in Nat /\ \A k \in T : k \in Nat /\ ~(k < m)
  BY <1>2, <1>3
<1> QED BY <1>3, <1>4

\* A strict order of all of S.
StrictlyOrders(before, S) ==
    /\ \A d \in S : <<d, d>> \notin before
    /\ \A c, d, e \in S : <<c, d>> \in before /\ <<d, e>> \in before => <<c, e>> \in before
    /\ \A d, e \in S : d = e \/ <<d, e>> \in before \/ <<e, d>> \in before

\* s is S, in order.
IsListing(s, S, before) ==
    /\ s \in [1 .. Cardinality(S) -> S]
    /\ \A i, j \in 1 .. Cardinality(S) : i < j => <<s[i], s[j]>> \in before

Below(S, before, e) == {d \in S : <<d, e>> \in before}

LEMMA BelowGrows ==
    ASSUME NEW S, IsFiniteSet(S), NEW before, StrictlyOrders(before, S), NEW d \in S
    PROVE  /\ Cardinality(S) \in Nat
           /\ Cardinality(Below(S, before, d)) \in 0 .. Cardinality(S) - 1
           /\ \A e \in S : <<d, e>> \in before =>
                Cardinality(Below(S, before, d)) < Cardinality(Below(S, before, e))
<1>0. \A e \in S : Below(S, before, e) \subseteq S /\ e \notin Below(S, before, e)
  BY DEF Below, StrictlyOrders
<1>1. \A e \in S : /\ IsFiniteSet(Below(S, before, e))
                   /\ Cardinality(Below(S, before, e)) \in Nat
                   /\ Cardinality(S) \in Nat
                   /\ Cardinality(Below(S, before, e)) < Cardinality(S)
  BY <1>0, FS_Subset, FewerThan
<1>2. ASSUME NEW e \in S, <<d, e>> \in before
      PROVE  Cardinality(Below(S, before, d)) < Cardinality(Below(S, before, e))
  <2>1. Below(S, before, d) \subseteq Below(S, before, e)
    BY <1>2 DEF Below, StrictlyOrders
  <2>2. d \in Below(S, before, e) /\ d \notin Below(S, before, d)
    BY <1>2 DEF Below, StrictlyOrders
  <2> QED BY <1>1, <2>1, <2>2, FewerThan
<1>3. Cardinality(Below(S, before, d)) \in 0 .. Cardinality(S) - 1
  BY <1>1
<1> QED BY <1>1, <1>2, <1>3

\* Whatever is finite and ordered can be listed.
LEMMA ListingIs ==
    ASSUME NEW S, IsFiniteSet(S), NEW before, StrictlyOrders(before, S)
    PROVE  IsListing(Listing(S, before), S, before)
<1> DEFINE n == Cardinality(S)
           Rank(e) == Cardinality(Below(S, before, e))
           rank == [e \in S |-> Rank(e)]
           at == [i \in 1 .. n |-> CHOOSE e \in S : rank[e] = i - 1]
<1>0. n \in Nat
  BY FS_CardinalityType
<1>1. \A e \in S : rank[e] \in 0 .. n - 1
  BY BelowGrows
<1>2. \A d, e \in S : <<d, e>> \in before => rank[d] < rank[e]
  BY BelowGrows
<1>3. rank \in [S -> 0 .. n - 1]
  BY <1>1
<1> HIDE DEF rank, Rank, n
<1>4. \A d, e \in S : rank[d] = rank[e] => d = e
  <2> SUFFICES ASSUME NEW d \in S, NEW e \in S, rank[d] = rank[e], d # e PROVE FALSE
    OBVIOUS
  <2>1. <<d, e>> \in before \/ <<e, d>> \in before
    BY DEF StrictlyOrders
  <2>2. rank[d] < rank[e] \/ rank[e] < rank[d]
    BY <1>2, <2>1
  <2>3. rank[d] \in Nat
    BY <1>0, <1>1
  <2> QED BY <2>2, <2>3
<1>5. rank \in Injection(S, 0 .. n - 1)
  BY <1>3, <1>4 DEF Injection, IsInjective
<1>6. IsFiniteSet(0 .. n - 1) /\ Cardinality(0 .. n - 1) = n
  <2>1. 0 \in Int /\ n - 1 \in Int
    BY <1>0
  <2>2. IsFiniteSet(0 .. n - 1) /\ Cardinality(0 .. n - 1) = IF 0 > n - 1 THEN 0 ELSE n - 1 - 0 + 1
    BY <2>1, FS_Interval
  <2> QED BY <1>0, <2>2
<1>7. rank \in Surjection(S, 0 .. n - 1)
  BY <1>5, <1>6, FS_Injection DEF n
<1>8. \A k \in 0 .. n - 1 : \E e \in S : rank[e] = k
  BY <1>7 DEF Surjection
<1>9. \A i \in 1 .. n : i - 1 \in 0 .. n - 1
  BY <1>0
<1>10. \A i \in 1 .. n : at[i] \in S /\ rank[at[i]] = i - 1
  BY <1>8, <1>9
<1> HIDE DEF at
<1>11. ASSUME NEW i \in 1 .. n, NEW j \in 1 .. n, i < j PROVE <<at[i], at[j]>> \in before
  <2>1. at[i] \in S /\ at[j] \in S /\ rank[at[i]] = i - 1 /\ rank[at[j]] = j - 1
    BY <1>10
  <2>2. i - 1 < j - 1 /\ i - 1 # j - 1 /\ ~(j - 1 < i - 1)
    BY <1>0, <1>11
  <2>3. at[i] # at[j] /\ ~(<<at[j], at[i]>> \in before)
    BY <1>2, <2>1, <2>2
  <2> QED BY <2>1, <2>3 DEF StrictlyOrders
<1>12. at \in [1 .. n -> S]
  BY <1>10 DEF at
<1>13. \E s \in [1 .. n -> S] : \A i, j \in DOMAIN s : i < j => <<s[i], s[j]>> \in before
  BY <1>11, <1>12
<1> QED BY <1>13 DEF Listing, IsListing, n

\* o has each of S once.
ListsAll(o, S) ==
    /\ o \in Seq(S) /\ Len(o) = Cardinality(S) /\ Len(o) \in Nat /\ DOMAIN o = 1 .. Len(o)
    /\ \A i, j \in DOMAIN o : o[i] = o[j] => i = j
    /\ \A e \in S : \E i \in DOMAIN o : o[i] = e

\* A list has every row, and each once.
LEMMA ListHasAll ==
    ASSUME NEW S, IsFiniteSet(S), NEW before, StrictlyOrders(before, S), NEW s, IsListing(s, S, before)
    PROVE  ListsAll(s, S)
<1> DEFINE n == Cardinality(S)
<1>0. n \in Nat
  BY FS_CardinalityType
<1>1. s \in [1 .. n -> S] /\ \A i, j \in 1 .. n : i < j => <<s[i], s[j]>> \in before
  BY DEF IsListing
<1>2. IsFiniteSet(1 .. n) /\ Cardinality(1 .. n) = n
  <2>1. 1 \in Int /\ n \in Int
    BY <1>0
  <2>2. IsFiniteSet(1 .. n) /\ Cardinality(1 .. n) = IF 1 > n THEN 0 ELSE n - 1 + 1
    BY <2>1, FS_Interval
  <2> QED BY <1>0, <2>2
<1> HIDE DEF n
<1>3. ASSUME NEW i \in 1 .. n, NEW j \in 1 .. n, s[i] = s[j] PROVE i = j
  <2>1. s[i] \in S /\ <<s[i], s[i]>> \notin before
    BY <1>1 DEF StrictlyOrders
  <2>2. ~(i < j) /\ ~(j < i)
    BY <1>1, <1>3, <2>1
  <2> QED BY <1>0, <2>2
<1>4. s \in Injection(1 .. n, S)
  BY <1>1, <1>3 DEF Injection, IsInjective
<1>5. s \in Surjection(1 .. n, S)
  BY <1>2, <1>4, FS_Injection DEF n
<1>6. s \in Seq(S) /\ Len(s) = n /\ DOMAIN s = 1 .. n
  BY <1>0, <1>1
<1>7. \A e \in S : \E i \in 1 .. n : s[i] = e
  BY <1>5 DEF Surjection
<1> QED BY <1>0, <1>3, <1>6, <1>7 DEF ListsAll, n

\* Rows that have each a number of their own are ordered by it.
LEMMA ByNumber ==
    ASSUME NEW S, IsFiniteSet(S), NEW number \in [S -> Nat],
           \A c, d \in S : number[c] = number[d] => c = d,
           NEW before, \A c, d \in S : <<c, d>> \in before <=> number[c] < number[d]
    PROVE  ListsAll(Listing(S, before), S)
<1>1. \A d \in S : number[d] \in Nat
  OBVIOUS
<1>2. \A d \in S : <<d, d>> \notin before
  BY <1>1
<1>3. \A c, d, e \in S : <<c, d>> \in before /\ <<d, e>> \in before => <<c, e>> \in before
  BY <1>1
<1>4. ASSUME NEW d \in S, NEW e \in S, d # e PROVE <<d, e>> \in before \/ <<e, d>> \in before
  <2>1. number[d] \in Nat /\ number[e] \in Nat /\ number[d] # number[e]
    BY <1>1, <1>4
  <2>2. number[d] < number[e] \/ number[e] < number[d]
    BY <2>1
  <2> QED BY <2>2
<1>5. StrictlyOrders(before, S)
  BY <1>2, <1>3, <1>4 DEF StrictlyOrders
<1>6. IsListing(Listing(S, before), S, before)
  BY <1>5, ListingIs
<1> QED BY <1>5, <1>6, ListHasAll
=============================================================================
