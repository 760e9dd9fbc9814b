----------------------------- MODULE StickProofs ----------------------------
(***************************************************************************)
(* For any official catalog that LoadOfficial takes, any packs, any ticks  *)
(* and any number of loads and jobs: what ends up on a shop's stick is     *)
(* what was ticked, with the image and the driver of each desktop, and it  *)
(* fits the partition that was planned for it.                             *)
(***************************************************************************)
EXTENDS ShopStick, FiniteSetTheorems, SequenceTheorems, TLAPS

-----------------------------------------------------------------------------
(* Sequences: some of their positions, in order.                           *)

Rank(P, i) == Cardinality({j \in P : j <= i})

LEMMA PositionsAreFinite ==
    ASSUME NEW n \in Nat, NEW P \in SUBSET (1 .. n)
    PROVE  IsFiniteSet(P) /\ Cardinality(P) \in Nat
<1>1. n \in Int /\ 1 \in Int
  OBVIOUS
<1>. QED  BY <1>1, FS_Interval, FS_Subset, FS_CardinalityType

LEMMA RankGrows ==
    ASSUME NEW n \in Nat, NEW P \in SUBSET (1 .. n), NEW i \in P
    PROVE  /\ Rank(P, i) \in 1 .. Cardinality(P)
           /\ \A j \in P : i < j => Rank(P, i) < Rank(P, j)
<1>. DEFINE Upto(k) == {j \in P : j <= k}
<1>1. \A k \in P : /\ IsFiniteSet(Upto(k)) /\ Rank(P, k) = Cardinality(Upto(k))
                   /\ Rank(P, k) \in Nat /\ Rank(P, k) <= Cardinality(P)
  <2>. SUFFICES ASSUME NEW k \in P
                PROVE  /\ IsFiniteSet(Upto(k)) /\ Rank(P, k) = Cardinality(Upto(k))
                       /\ Rank(P, k) \in Nat /\ Rank(P, k) <= Cardinality(P)
    OBVIOUS
  <2>1. Upto(k) \in SUBSET P /\ Rank(P, k) = Cardinality(Upto(k))
    BY DEF Rank
  <2>2. IsFiniteSet(P)
    BY PositionsAreFinite
  <2>. HIDE DEF Upto
  <2>. QED  BY <2>1, <2>2, FS_Subset, FS_CardinalityType
<1>2. Rank(P, i) # 0
  <2>1. i \in Upto(i)
    OBVIOUS
  <2>. HIDE DEF Upto
  <2>. QED  BY <1>1, <2>1, FS_EmptySet
<1>3. \A j \in P : i < j => Rank(P, i) < Rank(P, j)
  <2>. SUFFICES ASSUME NEW j \in P, i < j
                PROVE  Rank(P, i) < Rank(P, j)
    OBVIOUS
  <2>1. Upto(i) \in SUBSET Upto(j) /\ j \in Upto(j) /\ j \notin Upto(i)
    <3>1. i \in Int /\ j \in Int /\ \A k \in P : k \in Int
      OBVIOUS
    <3>2. j <= j /\ ~(j <= i) /\ \A k \in P : k <= i => k <= j
      BY <3>1
    <3>. QED  BY <3>2
  <2>. HIDE DEF Upto
  <2>2. Cardinality(Upto(i)) <= Cardinality(Upto(j))
        /\ Cardinality(Upto(i)) # Cardinality(Upto(j))
    BY <1>1, <2>1, FS_Subset
  <2>3. Cardinality(Upto(i)) \in Nat /\ Cardinality(Upto(j)) \in Nat
    BY <1>1
  <2>. QED  BY <1>1, <2>2, <2>3
<1>4. Cardinality(P) \in Nat
  BY PositionsAreFinite
<1>5. Rank(P, i) \in 1 .. Cardinality(P)
  <2>1. Rank(P, i) \in Nat /\ Rank(P, i) <= Cardinality(P)
    BY <1>1
  <2>. QED  BY <1>2, <1>4, <2>1
<1>. QED  BY <1>3, <1>5

LEMMA RankIsOnto ==
    ASSUME NEW n \in Nat, NEW P \in SUBSET (1 .. n),
           NEW k \in 1 .. Cardinality(P)
    PROVE  \E i \in P : Rank(P, i) = k /\ \A j \in P : Rank(P, j) = k => j = i
<1>. DEFINE r == [i \in P |-> Rank(P, i)]
            m == Cardinality(P)
<1>1. \A i, j \in P : Rank(P, i) = Rank(P, j) => i = j
  <2>. SUFFICES ASSUME NEW i \in P, NEW j \in P, i # j
                PROVE  Rank(P, i) # Rank(P, j)
    OBVIOUS
  <2>1. i < j \/ j < i
    OBVIOUS
  <2>2. /\ Rank(P, i) \in Nat /\ Rank(P, j) \in Nat
        /\ i < j => Rank(P, i) < Rank(P, j)
        /\ j < i => Rank(P, j) < Rank(P, i)
    <3>1. /\ Rank(P, i) \in 1 .. Cardinality(P) /\ Rank(P, j) \in 1 .. Cardinality(P)
          /\ i < j => Rank(P, i) < Rank(P, j)
          /\ j < i => Rank(P, j) < Rank(P, i)
      BY RankGrows
    <3>. QED  BY <3>1
  <2>. QED  BY <2>1, <2>2
<1>2. r \in Injection(P, 1 .. m)
  <2>1. \A i \in P : Rank(P, i) \in 1 .. m
    BY RankGrows
  <2>. HIDE DEF m
  <2>. QED  BY <1>1, <2>1 DEF Injection, IsInjective
<1>3. IsFiniteSet(1 .. m) /\ Cardinality(1 .. m) = m
  <2>1. m \in Nat /\ m \in Int /\ 1 \in Int
    BY PositionsAreFinite
  <2>. HIDE DEF m
  <2>2. IsFiniteSet(1 .. m) /\ Cardinality(1 .. m) = IF 1 > m THEN 0 ELSE m - 1 + 1
    BY <2>1, FS_Interval
  <2>. QED  BY <2>1, <2>2
<1>4. r \in Surjection(P, 1 .. m)
  <2>1. Cardinality(P) = Cardinality(1 .. m)
    BY <1>3
  <2>. HIDE DEF r, m
  <2>. QED  BY <1>2, <1>3, <2>1, FS_Injection
<1>5. PICK i \in P : r[i] = k
  <2>1. k \in 1 .. m
    OBVIOUS
  <2>. HIDE DEF r, m
  <2>. QED  BY <1>4, <2>1 DEF Surjection
<1>. QED  BY <1>1, <1>5

LEMMA LeastPosition ==
    ASSUME NEW n \in Nat, NEW P \in SUBSET (1 .. n), P # {}
    PROVE  \E i \in P : \A j \in P : i <= j
<1>1. Cardinality(P) # 0 /\ Cardinality(P) \in Nat
  BY PositionsAreFinite, FS_EmptySet
<1>2. 1 \in 1 .. Cardinality(P)
  BY <1>1
<1>3. PICK i \in P : Rank(P, i) = 1
  BY <1>2, RankIsOnto
<1>4. \A j \in P : ~(j < i)
  <2>. SUFFICES ASSUME NEW j \in P, j < i PROVE FALSE
    OBVIOUS
  <2>1. Rank(P, j) \in 1 .. Cardinality(P) /\ Rank(P, j) < Rank(P, i)
    BY RankGrows
  <2>. QED  BY <1>1, <1>3, <2>1
<1>5. \A j \in P : i <= j
  BY <1>4
<1>. QED  BY <1>5

\* t lists the elements of s at the positions P, one position each.
ListsAt(t, s, P) ==
    /\ DOMAIN t = 1 .. Cardinality(P) /\ Cardinality(P) \in Nat
    /\ Elems(t) = {s[i] : i \in P}
    /\ \E at \in [1 .. Cardinality(P) -> P] :
          /\ \A k, l \in 1 .. Cardinality(P) : at[k] = at[l] => k = l
          /\ \A k \in 1 .. Cardinality(P) : t[k] = s[at[k]]

\* Those(s, P) lists the elements at P, each once and in their order.
LEMMA ThoseIs ==
    ASSUME NEW s, NEW n \in Nat, DOMAIN s = 1 .. n, NEW P \in SUBSET (1 .. n)
    PROVE  ListsAt(Those(s, P), s, P)
<1>. DEFINE m == Cardinality(P)
            at == [k \in 1 .. m |-> CHOOSE i \in P : Rank(P, i) = k]
<1>1. m \in Nat
  BY PositionsAreFinite
<1>2. \A k \in 1 .. m : at[k] \in P /\ Rank(P, at[k]) = k
  BY RankIsOnto
<1>3. at \in [1 .. m -> P] /\ \A k, l \in 1 .. m : at[k] = at[l] => k = l
  BY <1>2
<1>4. /\ DOMAIN Those(s, P) = 1 .. m
      /\ \A k \in 1 .. m : Those(s, P)[k] = s[at[k]]
  BY DEF Those, Rank
<1>5. \A i \in P : \E k \in 1 .. m : at[k] = i
  <2>. SUFFICES ASSUME NEW i \in P PROVE \E k \in 1 .. m : at[k] = i
    OBVIOUS
  <2>1. Rank(P, i) \in 1 .. m
    BY RankGrows
  <2>2. at[Rank(P, i)] \in P /\ Rank(P, at[Rank(P, i)]) = Rank(P, i)
    BY <1>2, <2>1
  <2>3. at[Rank(P, i)] = i
    <3>. DEFINE k == Rank(P, i)
    <3>1. k \in 1 .. Cardinality(P)
      BY <2>1
    <3>. HIDE DEF k, at
    <3>2. PICK j \in P : \A l \in P : Rank(P, l) = k => l = j
      BY <3>1, RankIsOnto
    <3>3. at[k] \in P /\ Rank(P, at[k]) = k /\ Rank(P, i) = k
      BY <2>2 DEF k
    <3>4. at[k] = i
      BY <3>2, <3>3
    <3>. QED  BY <3>4 DEF k
  <2>. QED  BY <2>1, <2>3
<1>. HIDE DEF m, at
<1>6. Elems(Those(s, P)) = {s[i] : i \in P}
  <2>. DEFINE t == Those(s, P)
  <2>1. DOMAIN t = 1 .. m /\ \A k \in 1 .. m : t[k] = s[at[k]]
    BY <1>4
  <2>. HIDE DEF t
  <2>2. ASSUME NEW x \in Elems(t) PROVE x \in {s[i] : i \in P}
    <3>1. PICK k \in DOMAIN t : x = t[k]
      BY DEF Elems
    <3>2. k \in 1 .. m /\ x = s[at[k]]
      BY <2>1, <3>1
    <3>3. at[k] \in P
      BY <1>2, <3>2
    <3>. QED  BY <3>2, <3>3
  <2>3. ASSUME NEW i \in P PROVE s[i] \in Elems(t)
    <3>1. PICK k \in 1 .. m : at[k] = i
      BY <1>5
    <3>2. k \in DOMAIN t /\ t[k] = s[i]
      BY <2>1, <3>1
    <3>. QED  BY <3>2 DEF Elems
  <2>4. Elems(t) = {s[i] : i \in P}
    BY <2>2, <2>3
  <2>. QED  BY <2>4 DEF t
<1>. QED  BY <1>1, <1>3, <1>4, <1>6 DEF m, ListsAt

LEMMA FirstOfIs ==
    ASSUME NEW s, NEW n \in Nat, NEW P \in SUBSET (1 .. n), P # {}
    PROVE  \E i \in P : FirstOf(s, P) = s[i] /\ \A j \in P : i <= j
  BY LeastPosition DEF FirstOf

\* A list of TLA+ is one of IsList, and the other way round.
LEMMA ListIs ==
    ASSUME NEW s, IsList(s)
    PROVE  /\ \E n \in Nat : DOMAIN s = 1 .. n /\ Len(s) = n
           /\ s \in [DOMAIN s -> Elems(s)]
           /\ \A i \in DOMAIN s : s[i] \in Elems(s)
           /\ \A x \in Elems(s) : \E i \in DOMAIN s : s[i] = x
<1>1. Len(s) \in Nat /\ DOMAIN s = 1 .. Len(s) /\ s \in [1 .. Len(s) -> Elems(s)]
  BY LenProperties DEF IsList
<1>. QED  BY <1>1 DEF Elems

LEMMA IsAList ==
    ASSUME NEW n \in Nat, NEW s, s = [i \in 1 .. n |-> s[i]]
    PROVE  IsList(s) /\ DOMAIN s = 1 .. n
<1>1. DOMAIN s = 1 .. n
  OBVIOUS
<1>2. s \in [1 .. n -> Elems(s)]
  BY <1>1 DEF Elems
<1>. QED  BY <1>1, <1>2, SeqDef DEF IsList

\* What is found under a name.
LEMMA RowIs ==
    ASSUME NEW s, IsList(s), NEW id, Has(s, id)
    PROVE  Row(s, id) \in Elems(s) /\ Row(s, id).id = id
<1>. DEFINE P == {i \in DOMAIN s : s[i].id = id}
<1>1. PICK n \in Nat : DOMAIN s = 1 .. n
  BY ListIs
<1>2. P \in SUBSET (1 .. n) /\ P # {}
  BY <1>1 DEF Has, Elems
<1>3. Row(s, id) = FirstOf(s, P)
  BY DEF Row
<1>4. PICK i \in P : FirstOf(s, P) = s[i]
  <2>. HIDE DEF P
  <2>. QED  BY <1>2, FirstOfIs
<1>. QED  BY <1>3, <1>4 DEF Elems

LEMMA RowOfMember ==
    ASSUME NEW s, IsList(s), Distinct(Names(s)), NEW x \in Elems(s)
    PROVE  Has(s, x.id) /\ Row(s, x.id) = x
<1>1. Has(s, x.id)
  BY DEF Has
<1>2. Row(s, x.id) \in Elems(s) /\ Row(s, x.id).id = x.id
  BY <1>1, RowIs
<1>3. \A i, j \in DOMAIN s : s[i].id = s[j].id => i = j
  BY DEF Distinct, Names, Mapped
<1>. QED  BY <1>1, <1>2, <1>3 DEF Elems

LEMMA ThoseList ==
    ASSUME NEW s, IsList(s), NEW P \in SUBSET DOMAIN s
    PROVE  /\ IsList(Those(s, P)) /\ Elems(Those(s, P)) = {s[i] : i \in P}
           /\ Elems(Those(s, P)) \subseteq Elems(s)
           /\ Distinct(s) => Distinct(Those(s, P))
           /\ Distinct(Names(s)) => Distinct(Names(Those(s, P)))
<1>1. PICK n \in Nat : DOMAIN s = 1 .. n
  BY ListIs
<1>. DEFINE t == Those(s, P)
            m == Cardinality(P)
<1>2. /\ DOMAIN t = 1 .. m /\ m \in Nat /\ Elems(t) = {s[i] : i \in P}
      /\ \E at \in [1 .. m -> P] :
            /\ \A k, l \in 1 .. m : at[k] = at[l] => k = l
            /\ \A k \in 1 .. m : t[k] = s[at[k]]
  <2>1. ListsAt(Those(s, P), s, P)
    BY <1>1, ThoseIs
  <2>. QED  BY <2>1 DEF ListsAt
<1>3. t = [k \in 1 .. m |-> t[k]]
  BY DEF Those
<1>. HIDE DEF t, m
<1>4. IsList(t)
  BY <1>2, <1>3, IsAList
<1>5. PICK at \in [1 .. m -> P] : /\ \A k, l \in 1 .. m : at[k] = at[l] => k = l
                                  /\ \A k \in 1 .. m : t[k] = s[at[k]]
  BY <1>2
<1>6. Distinct(s) => Distinct(t)
  BY <1>2, <1>5 DEF Distinct
<1>7. Distinct(Names(s)) => Distinct(Names(t))
  <2>. SUFFICES ASSUME Distinct(Names(s)) PROVE Distinct(Names(t))
    OBVIOUS
  <2>1. \A i, j \in DOMAIN s : s[i].id = s[j].id => i = j
    BY DEF Distinct, Names, Mapped
  <2>2. \A k, l \in DOMAIN t : t[k].id = t[l].id => k = l
    BY <1>2, <1>5, <2>1
  <2>. QED  BY <2>2 DEF Distinct, Names, Mapped
<1>8. Elems(t) \subseteq Elems(s)
  BY <1>2 DEF Elems
<1>. QED  BY <1>2, <1>4, <1>6, <1>7, <1>8 DEF t

LEMMA NamesDistinct ==
    ASSUME NEW s
    PROVE  Distinct(Names(s)) <=> \A i, j \in DOMAIN s : s[i].id = s[j].id => i = j
  BY DEF Distinct, Names, Mapped

\* One list after another.
LEMMA JoinedIs ==
    ASSUME NEW s, NEW t, IsList(s), IsList(t)
    PROVE  /\ IsList(s \o t) /\ Elems(s \o t) = Elems(s) \cup Elems(t)
           /\ /\ Distinct(Names(s)) /\ Distinct(Names(t))
              /\ \A x \in Elems(s), y \in Elems(t) : x.id # y.id
              => Distinct(Names(s \o t))
<1>. DEFINE S == Elems(s) \cup Elems(t)
            u == s \o t
<1>1. s \in Seq(S) /\ t \in Seq(S)
  <2>1. s \in Seq(Elems(s)) /\ t \in Seq(Elems(t))
    BY DEF IsList
  <2>2. Elems(s) \subseteq S /\ Elems(t) \subseteq S
    OBVIOUS
  <2>. HIDE DEF S
  <2>. QED  BY <2>1, <2>2, SeqMonotonic
<1>2. /\ u \in Seq(S) /\ Len(u) = Len(s) + Len(t)
      /\ \A i \in 1 .. Len(s) + Len(t) :
            u[i] = IF i <= Len(s) THEN s[i] ELSE t[i - Len(s)]
  <2>. HIDE DEF S
  <2>. QED  BY <1>1, ConcatProperties
<1>3. /\ Len(s) \in Nat /\ Len(t) \in Nat /\ DOMAIN s = 1 .. Len(s)
      /\ DOMAIN t = 1 .. Len(t) /\ DOMAIN u = 1 .. Len(u)
      /\ u \in [1 .. Len(u) -> S]
  <2>. HIDE DEF S, u
  <2>. QED  BY <1>1, <1>2, LenProperties
<1>. HIDE DEF u
<1>4. \A i \in DOMAIN s : i \in DOMAIN u /\ u[i] = s[i]
  BY <1>2, <1>3
<1>5. \A i \in DOMAIN t : Len(s) + i \in DOMAIN u /\ u[Len(s) + i] = t[i]
  <2>. SUFFICES ASSUME NEW i \in DOMAIN t
                PROVE  Len(s) + i \in DOMAIN u /\ u[Len(s) + i] = t[i]
    OBVIOUS
  <2>1. /\ Len(s) + i \in 1 .. Len(s) + Len(t) /\ ~(Len(s) + i <= Len(s))
        /\ Len(s) + i - Len(s) = i
    BY <1>3
  <2>. QED  BY <1>2, <1>3, <2>1
<1>6. \A i \in DOMAIN u : \/ i \in DOMAIN s /\ u[i] = s[i]
                          \/ i - Len(s) \in DOMAIN t /\ u[i] = t[i - Len(s)]
  BY <1>2, <1>3
<1>7. Elems(u) = Elems(s) \cup Elems(t)
  BY <1>4, <1>5, <1>6 DEF Elems
<1>8. IsList(u)
  BY <1>2, <1>7 DEF IsList
<1>9. ASSUME Distinct(Names(s)), Distinct(Names(t)),
             \A x \in Elems(s), y \in Elems(t) : x.id # y.id
      PROVE  Distinct(Names(u))
  <2>. SUFFICES ASSUME NEW i \in DOMAIN u, NEW j \in DOMAIN u, u[i].id = u[j].id
                PROVE  i = j
    BY NamesDistinct
  <2>1. \A k, l \in DOMAIN s : s[k].id = s[l].id => k = l
    BY <1>9, NamesDistinct
  <2>2. \A k, l \in DOMAIN t : t[k].id = t[l].id => k = l
    BY <1>9, NamesDistinct
  <2>3. \A k \in DOMAIN s, l \in DOMAIN t : s[k].id # t[l].id
    BY <1>9 DEF Elems
  <2>4. \/ i \in DOMAIN s /\ u[i] = s[i]
        \/ i - Len(s) \in DOMAIN t /\ u[i] = t[i - Len(s)]
    BY <1>6
  <2>5. \/ j \in DOMAIN s /\ u[j] = s[j]
        \/ j - Len(s) \in DOMAIN t /\ u[j] = t[j - Len(s)]
    BY <1>6
  <2>6. i - Len(s) = j - Len(s) => i = j
    BY <1>3
  <2>. QED  BY <2>1, <2>2, <2>3, <2>4, <2>5, <2>6
<1>. QED  BY <1>7, <1>8, <1>9 DEF u

\* A list of things made from those of another.
LEMMA MappedList ==
    ASSUME NEW s, IsList(s), NEW t, t = [i \in DOMAIN s |-> t[i]]
    PROVE  IsList(t) /\ DOMAIN t = DOMAIN s
<1>1. PICK n \in Nat : DOMAIN s = 1 .. n
  BY ListIs
<1>. QED  BY <1>1, IsAList
-----------------------------------------------------------------------------
(* The ticks.                                                              *)

TicksOK(ticks) ==
    /\ IsList(ticks) /\ Distinct(ticks)
    /\ \A t \in Elems(ticks) : t = <<t[1], t[2]>>

\* The desktops ticked of a distro, each once.
LEMMA TickedIs ==
    ASSUME NEW ticks, TicksOK(ticks), NEW id
    PROVE  /\ IsList(TickedOf(ticks, id)) /\ Distinct(TickedOf(ticks, id))
           /\ \A x : x \in Elems(TickedOf(ticks, id)) <=> <<id, x>> \in Elems(ticks)
<1>. DEFINE P == {i \in DOMAIN ticks : ticks[i][1] = id}
            s == Those(ticks, P)
            t == TickedOf(ticks, id)
<1>1. t = [i \in DOMAIN s |-> s[i][2]]
  BY DEF TickedOf, Mapped
<1>2. P \in SUBSET DOMAIN ticks /\ IsList(ticks) /\ Distinct(ticks)
  BY DEF TicksOK
<1>3. IsList(s) /\ Elems(s) = {ticks[i] : i \in P} /\ Distinct(s)
  <2>. HIDE DEF P
  <2>. QED  BY <1>2, ThoseList
<1>4. IsList(t) /\ DOMAIN t = DOMAIN s
  <2>1. t = [i \in DOMAIN s |-> t[i]]
    BY <1>1
  <2>. HIDE DEF s, t
  <2>. QED  BY <1>3, <2>1, MappedList
<1>5. \A x \in Elems(s) : x = <<id, x[2]>> /\ x \in Elems(ticks)
  <2>. SUFFICES ASSUME NEW i \in P
                PROVE  ticks[i] = <<id, ticks[i][2]>> /\ ticks[i] \in Elems(ticks)
    BY <1>3
  <2>1. ticks[i] \in Elems(ticks) /\ ticks[i][1] = id
    BY DEF Elems
  <2>. QED  BY <2>1 DEF TicksOK
<1>. HIDE DEF s, t
<1>6. Distinct(t)
  <2>. SUFFICES ASSUME NEW i \in DOMAIN s, NEW j \in DOMAIN s, t[i] = t[j]
                PROVE  i = j
    BY <1>4 DEF Distinct
  <2>1. s[i] \in Elems(s) /\ s[j] \in Elems(s) /\ s[i][2] = s[j][2]
    BY <1>1 DEF Elems
  <2>2. s[i] = <<id, s[i][2]>> /\ s[j] = <<id, s[j][2]>>
    BY <1>5, <2>1
  <2>3. s[i] = s[j]
    BY <2>1, <2>2
  <2>. QED  BY <1>3, <2>3 DEF Distinct
<1>7. ASSUME NEW x PROVE x \in Elems(t) <=> <<id, x>> \in Elems(ticks)
  <2>1. ASSUME x \in Elems(t) PROVE <<id, x>> \in Elems(ticks)
    <3>1. PICK i \in DOMAIN s : t[i] = x
      BY <1>4, <2>1 DEF Elems
    <3>2. s[i] \in Elems(s) /\ s[i][2] = x
      BY <1>1, <3>1 DEF Elems
    <3>3. s[i] = <<id, s[i][2]>> /\ s[i] \in Elems(ticks)
      BY <1>5, <3>2
    <3>. QED  BY <3>2, <3>3
  <2>2. ASSUME <<id, x>> \in Elems(ticks) PROVE x \in Elems(t)
    <3>1. PICK i \in DOMAIN ticks : ticks[i] = <<id, x>>
      BY <2>2 DEF Elems
    <3>2. i \in P
      BY <3>1
    <3>3. <<id, x>> \in Elems(s)
      BY <1>3, <3>1, <3>2
    <3>4. PICK k \in DOMAIN s : s[k] = <<id, x>>
      BY <3>3 DEF Elems
    <3>5. t[k] = x
      BY <1>1, <3>4
    <3>. QED  BY <1>4, <3>4, <3>5 DEF Elems
  <2>. QED  BY <2>1, <2>2
<1>. QED  BY <1>4, <1>6, <1>7 DEF t

\* The ticked distros, each once.
LEMMA TickOrderIs ==
    ASSUME NEW ticks, TicksOK(ticks)
    PROVE  /\ IsList(TickOrder(ticks)) /\ Distinct(TickOrder(ticks))
           /\ Elems(TickOrder(ticks)) = {t[1] : t \in Elems(ticks)}
<1>. DEFINE P == {i \in DOMAIN ticks : \A j \in 1 .. i - 1 : ticks[j][1] # ticks[i][1]}
            s == Those(ticks, P)
            t == TickOrder(ticks)
<1>1. t = [k \in DOMAIN s |-> s[k][1]]
  BY DEF TickOrder, Mapped
<1>2. P \in SUBSET DOMAIN ticks /\ IsList(ticks)
  BY DEF TicksOK
<1>3. PICK n \in Nat : DOMAIN ticks = 1 .. n
  BY <1>2, ListIs
<1>4. /\ DOMAIN s = 1 .. Cardinality(P) /\ Elems(s) = {ticks[i] : i \in P}
      /\ \E at \in [1 .. Cardinality(P) -> P] :
            /\ \A k, l \in 1 .. Cardinality(P) : at[k] = at[l] => k = l
            /\ \A k \in 1 .. Cardinality(P) : s[k] = ticks[at[k]]
  <2>1. P \in SUBSET (1 .. n) /\ DOMAIN ticks = 1 .. n /\ n \in Nat
    BY <1>2, <1>3
  <2>. HIDE DEF P
  <2>2. ListsAt(Those(ticks, P), ticks, P)
    BY <2>1, ThoseIs
  <2>. QED  BY <2>2 DEF ListsAt
<1>5. IsList(s)
  <2>. HIDE DEF P
  <2>. QED  BY <1>2, ThoseList
<1>6. IsList(t) /\ DOMAIN t = DOMAIN s
  <2>1. t = [i \in DOMAIN s |-> t[i]]
    BY <1>1
  <2>. HIDE DEF s, t
  <2>. QED  BY <1>5, <2>1, MappedList
<1>7. \A i, j \in P : ticks[i][1] = ticks[j][1] => i = j
  <2>. SUFFICES ASSUME NEW i \in P, NEW j \in P, ticks[i][1] = ticks[j][1], i # j
                PROVE  FALSE
    OBVIOUS
  <2>1. i \in 1 .. j - 1 \/ j \in 1 .. i - 1
    BY <1>3
  <2>. QED  BY <2>1
<1>8. Distinct(t)
  <2>. HIDE DEF P, s, t
  <2>. QED  BY <1>1, <1>4, <1>6, <1>7 DEF Distinct
<1>9. \A i \in DOMAIN ticks : \E j \in P : ticks[j][1] = ticks[i][1]
  <2>. SUFFICES ASSUME NEW i \in DOMAIN ticks
                PROVE  \E j \in P : ticks[j][1] = ticks[i][1]
    OBVIOUS
  <2>. DEFINE Q == {j \in DOMAIN ticks : ticks[j][1] = ticks[i][1]}
  <2>1. Q \in SUBSET (1 .. n) /\ i \in Q
    BY <1>3
  <2>2. PICK j \in Q : \A k \in Q : j <= k
    <3>. HIDE DEF Q
    <3>. QED  BY <2>1, LeastPosition
  <2>3. \A k \in 1 .. j - 1 : ticks[k][1] # ticks[j][1]
    <3>. SUFFICES ASSUME NEW k \in 1 .. j - 1, ticks[k][1] = ticks[j][1]
                  PROVE  FALSE
      OBVIOUS
    <3>1. k \in Q /\ ~(j <= k)
      BY <1>3
    <3>. QED  BY <2>2, <3>1
  <2>4. j \in P
    BY <2>3
  <2>. QED  BY <2>4
<1>10. Elems(t) = {x[1] : x \in Elems(ticks)}
  <2>1. Elems(t) = {x[1] : x \in Elems(s)}
    <3>. HIDE DEF s, t
    <3>. QED  BY <1>1, <1>6 DEF Elems
  <2>2. {x[1] : x \in Elems(s)} = {ticks[i][1] : i \in P}
    <3>. HIDE DEF s, t, P
    <3>. QED  BY <1>4
  <2>3. {ticks[i][1] : i \in P} = {ticks[i][1] : i \in DOMAIN ticks}
    <3>1. \A i \in P : i \in DOMAIN ticks
      OBVIOUS
    <3>. HIDE DEF P
    <3>. QED  BY <1>9, <3>1
  <2>4. {ticks[i][1] : i \in DOMAIN ticks} = {x[1] : x \in Elems(ticks)}
    BY DEF Elems
  <2>. HIDE DEF s, t, P
  <2>. QED  BY <2>1, <2>2, <2>3, <2>4
<1>. QED  BY <1>6, <1>8, <1>10 DEF t
-----------------------------------------------------------------------------
(* The rows of the official catalog on a stick.                            *)

LEMMA OfficialIs ==
    ASSUME NEW d \in Elems(Official)
    PROVE  /\ IsList(d.editions) /\ Distinct(Names(d.editions))
           /\ Has(Official, d.id) /\ Row(Official, d.id) = d
           /\ \A e \in Elems(d.editions) : Has(d.editions, e.id) /\ Row(d.editions, e.id) = e
<1>1. IsList(Official) /\ Distinct(Names(Official))
  BY OfficialAssumption
<1>2. IsList(d.editions) /\ Distinct(Names(d.editions))
  BY OfficialAssumption
<1>. QED  BY <1>1, <1>2, RowOfMember

LEMMA DefaultIs ==
    ASSUME NEW d, IsList(d.editions), d.editions # << >>
    PROVE  DefaultEdition(d) \in Elems(d.editions)
<1>1. PICK n \in Nat : DOMAIN d.editions = 1 .. n /\ Len(d.editions) = n
  BY ListIs
<1>2. CASE \E e \in Elems(d.editions) : e.default
  <2>. DEFINE P == {i \in DOMAIN d.editions : d.editions[i].default}
  <2>1. P \in SUBSET (1 .. n) /\ P # {}
    BY <1>1, <1>2 DEF Elems
  <2>2. DefaultEdition(d) = FirstOf(d.editions, P)
    BY <1>2 DEF DefaultEdition
  <2>3. PICK i \in P : FirstOf(d.editions, P) = d.editions[i]
    <3>. HIDE DEF P
    <3>. QED  BY <2>1, FirstOfIs
  <2>. QED  BY <2>2, <2>3 DEF Elems
<1>3. CASE ~\E e \in Elems(d.editions) : e.default
  <2>1. n # 0
    BY <1>1, EmptySeq DEF IsList
  <2>2. 1 \in DOMAIN d.editions
    BY <1>1, <2>1
  <2>. QED  BY <1>3, <2>2 DEF DefaultEdition, Elems
<1>. QED  BY <1>2, <1>3

\* What may be ticked of a list of desktops.
SelectionOK(editions, selected) ==
    /\ IsList(selected) /\ Distinct(selected)
    /\ \A x \in Elems(selected) : Has(editions, x)

LEMMA SelectedRows ==
    ASSUME NEW d, NEW selected, IsList(d.editions), SelectionOK(d.editions, selected),
           NEW s, s = [i \in DOMAIN selected |-> Row(d.editions, selected[i])]
    PROVE  /\ IsList(s) /\ Distinct(Names(s)) /\ DOMAIN s = DOMAIN selected
           /\ \A i \in DOMAIN s : s[i] \in Elems(d.editions) /\ s[i].id = selected[i]
<1>1. s = [i \in DOMAIN selected |-> Row(d.editions, selected[i])]
  OBVIOUS
<1>2. IsList(s) /\ DOMAIN s = DOMAIN selected
  <2>1. s = [i \in DOMAIN selected |-> s[i]] /\ IsList(selected)
    BY <1>1 DEF SelectionOK
  <2>. QED  BY <2>1, MappedList
<1>3. \A i \in DOMAIN s : s[i] \in Elems(d.editions) /\ s[i].id = selected[i]
  <2>. SUFFICES ASSUME NEW i \in DOMAIN s
                PROVE  s[i] \in Elems(d.editions) /\ s[i].id = selected[i]
    OBVIOUS
  <2>1. selected[i] \in Elems(selected) /\ s[i] = Row(d.editions, selected[i])
    BY <1>1, <1>2 DEF Elems
  <2>2. Has(d.editions, selected[i])
    BY <2>1 DEF SelectionOK
  <2>. QED  BY <2>1, <2>2, RowIs
<1>4. Distinct(Names(s))
  <2>1. Distinct(selected)
    BY DEF SelectionOK
  <2>. QED  BY <1>2, <1>3, <2>1, NamesDistinct DEF Distinct
<1>. QED  BY <1>2, <1>3, <1>4

\* Ticked desktops first, the others after them, none lost or doubled.
LEMMA OrderedIs ==
    ASSUME NEW d, NEW selected, IsList(d.editions), Distinct(Names(d.editions)),
           SelectionOK(d.editions, selected)
    PROVE  /\ IsList(OrderedEditions(d, selected))
           /\ Elems(OrderedEditions(d, selected)) = Elems(d.editions)
           /\ Distinct(Names(OrderedEditions(d, selected)))
<1>. DEFINE s == Mapped(selected, LAMBDA id : Row(d.editions, id))
            P == {i \in DOMAIN d.editions : d.editions[i].id \notin Elems(selected)}
            t == Those(d.editions, P)
<1>1. OrderedEditions(d, selected) = s \o t
  BY DEF OrderedEditions
<1>2. /\ IsList(s) /\ Distinct(Names(s)) /\ DOMAIN s = DOMAIN selected
      /\ \A i \in DOMAIN s : s[i] \in Elems(d.editions) /\ s[i].id = selected[i]
  <2>1. s = [i \in DOMAIN selected |-> Row(d.editions, selected[i])]
    BY DEF Mapped
  <2>. HIDE DEF s
  <2>. QED  BY <2>1, SelectedRows
<1>3. IsList(t) /\ Distinct(Names(t)) /\ Elems(t) = {d.editions[i] : i \in P}
  <2>1. P \in SUBSET DOMAIN d.editions
    OBVIOUS
  <2>. HIDE DEF P
  <2>. QED  BY <2>1, ThoseList
<1>4. \A y \in Elems(t) : y \in Elems(d.editions) /\ y.id \notin Elems(selected)
  <2>. HIDE DEF t
  <2>. QED  BY <1>3 DEF Elems
<1>5. \A x \in Elems(s) : x \in Elems(d.editions) /\ x.id \in Elems(selected)
  <2>. HIDE DEF s
  <2>. QED  BY <1>2 DEF Elems
<1>6. \A e \in Elems(d.editions) : e \in Elems(s) \cup Elems(t)
  <2>. SUFFICES ASSUME NEW k \in DOMAIN d.editions
                PROVE  d.editions[k] \in Elems(s) \cup Elems(t)
    BY DEF Elems
  <2>. DEFINE e == d.editions[k]
  <2>1. CASE e.id \in Elems(selected)
    <3>1. PICK i \in DOMAIN selected : selected[i] = e.id
      BY <2>1 DEF Elems
    <3>2. s[i] \in Elems(d.editions) /\ s[i].id = e.id /\ i \in DOMAIN s
      BY <1>2, <3>1
    <3>3. s[i] = e
      <4>. HIDE DEF s
      <4>. QED  BY <3>2, NamesDistinct DEF Elems
    <3>. HIDE DEF s
    <3>. QED  BY <3>2, <3>3 DEF Elems
  <2>2. CASE e.id \notin Elems(selected)
    <3>1. k \in P
      BY <2>2
    <3>. HIDE DEF t
    <3>. QED  BY <1>3, <3>1
  <2>. QED  BY <2>1, <2>2
<1>. HIDE DEF s, t
<1>7. /\ IsList(s \o t) /\ Elems(s \o t) = Elems(s) \cup Elems(t)
      /\ Distinct(Names(s \o t))
  <2>1. \A x \in Elems(s), y \in Elems(t) : x.id # y.id
    BY <1>4, <1>5
  <2>. QED  BY <1>2, <1>3, <2>1, JoinedIs
<1>8. Elems(s) \cup Elems(t) = Elems(d.editions)
  BY <1>4, <1>5, <1>6
<1>. QED  BY <1>1, <1>7, <1>8

\* ShopDistro: the row has the pinned editions, each once, and one of them,
\* the featured one, as its default.
LEMMA ShopDistroIs ==
    ASSUME NEW d \in Elems(Official), NEW selected,
           SelectionOK(d.editions, selected), FeaturedIsPinned(d, selected),
           NEW r, r = ShopDistro(d, selected)
    PROVE  /\ r.id = d.id /\ r.install = d.install /\ r.secureBoot = d.secureBoot
           /\ IsList(r.editions) /\ Distinct(Names(r.editions))
           /\ \A e \in Elems(r.editions) : \E x \in Elems(d.editions) :
                 Pinned(x) /\ e = OfficialEditionRow(d, x, selected)
           /\ \A x \in Elems(d.editions) :
                 Pinned(x) => OfficialEditionRow(d, x, selected) \in Elems(r.editions)
<1>. DEFINE o == OrderedEditions(d, selected)
            P == {i \in DOMAIN o : Pinned(o[i])}
            s == Those(o, P)
            t == r.editions
<1>1. /\ r.id = d.id /\ r.install = d.install /\ r.secureBoot = d.secureBoot
      /\ t = [i \in DOMAIN s |-> OfficialEditionRow(d, s[i], selected)]
  BY DEF ShopDistro, PinnedEditions, Mapped
<1>2. IsList(o) /\ Elems(o) = Elems(d.editions) /\ Distinct(Names(o))
  <2>1. IsList(d.editions) /\ Distinct(Names(d.editions))
    BY OfficialIs
  <2>. HIDE DEF o
  <2>. QED  BY <2>1, OrderedIs DEF o
<1>. HIDE DEF o, t
<1>3. IsList(s) /\ Distinct(Names(s)) /\ Elems(s) = {o[i] : i \in P}
  <2>1. P \in SUBSET DOMAIN o
    OBVIOUS
  <2>. HIDE DEF P
  <2>. QED  BY <1>2, <2>1, ThoseList
<1>4. \A x : x \in Elems(s) <=> x \in Elems(d.editions) /\ Pinned(x)
  <2>1. \A x \in Elems(s) : x \in Elems(o) /\ Pinned(x)
    <3>. HIDE DEF s
    <3>. QED  BY <1>3 DEF Elems
  <2>2. \A i \in DOMAIN o : Pinned(o[i]) => o[i] \in Elems(s)
    <3>. HIDE DEF s
    <3>. QED  BY <1>3
  <2>3. \A x \in Elems(o) : Pinned(x) => x \in Elems(s)
    <3>. HIDE DEF s
    <3>. QED  BY <2>2 DEF Elems
  <2>. HIDE DEF s
  <2>. QED  BY <1>2, <2>1, <2>3
<1>. HIDE DEF s
<1>5. IsList(t) /\ DOMAIN t = DOMAIN s
  <2>1. t = [i \in DOMAIN s |-> t[i]]
    BY <1>1
  <2>. QED  BY <1>3, <2>1, MappedList
<1>6. \A x : OfficialEditionRow(d, x, selected).id = x.id
  BY DEF OfficialEditionRow
<1>7. Distinct(Names(t))
  <2>. SUFFICES ASSUME NEW i \in DOMAIN t, NEW j \in DOMAIN t, t[i].id = t[j].id
                PROVE  i = j
    BY NamesDistinct
  <2>1. s[i].id = s[j].id
    BY <1>1, <1>5, <1>6
  <2>. QED  BY <1>3, <1>5, <2>1, NamesDistinct
<1>8. \A e \in Elems(t) : \E x \in Elems(s) : e = OfficialEditionRow(d, x, selected)
  BY <1>1, <1>5 DEF Elems
<1>9. \A x \in Elems(s) : OfficialEditionRow(d, x, selected) \in Elems(t)
  BY <1>1, <1>5 DEF Elems
<1>. QED  BY <1>1, <1>4, <1>5, <1>7, <1>8, <1>9 DEF t
-----------------------------------------------------------------------------
(* What BuildShop makes of ticks and packs.                                *)

PackEditions ==
    [id : PackIds, default : BOOLEAN, filename : IsoNames,
     pin : {None} \cup DOMAIN Size, path : {None} \cup Places,
     image : {None} \cup DOMAIN Size]

\* A pack that was loaded, with the ISOs it has by now.
Packs ==
    {p \in [id : PackIds, secureBoot : BOOLEAN, editions : Seq(PackEditions)] :
        /\ p.id \in Ids /\ ~ReservedPackID(p.id)
        /\ Distinct(Names(p.editions))
        /\ \A e \in Elems(p.editions) : e.path = None <=> e.image = None}

OfficialRow(r, d, selected) ==
    /\ d \in Elems(Official) /\ Offerable(d)
    /\ SelectionOK(d.editions, selected) /\ FeaturedIsPinned(d, selected)
    /\ r = ShopDistro(d, selected)

PackRow(r, p, selected) ==
    /\ p \in Packs /\ SelectionOK(p.editions, selected) /\ selected # << >>
    /\ \A x \in Elems(selected) : PackCanStage(Row(p.editions, x))
    /\ r = ShopDistroFromPack(p, selected)

\* A shop as it was when its job started, and the ids of the packs it had.
Built(ticks, shop, ids) ==
    \E packs \in Seq(Packs) :
        /\ {p.id : p \in Elems(packs)} = ids
        /\ ticks \in TickLists /\ CanBuildShop(ticks, packs)
        /\ shop = BuildShop(ticks, packs)

LEMMA SeqIsList ==
    ASSUME NEW S, NEW s \in Seq(S)
    PROVE  IsList(s) /\ Elems(s) \subseteq S
<1>1. Len(s) \in Nat /\ DOMAIN s = 1 .. Len(s) /\ s \in [1 .. Len(s) -> S]
  BY LenProperties
<1>2. s = [i \in 1 .. Len(s) |-> s[i]]
  BY <1>1
<1>3. IsList(s)
  BY <1>1, <1>2, IsAList
<1>. QED  BY <1>1, <1>3 DEF Elems

LEMMA EmptyList ==
    ASSUME NEW s, IsList(s)
    PROVE  Elems(s) = {} <=> s = << >>
<1>1. PICK n \in Nat : DOMAIN s = 1 .. n /\ Len(s) = n
  BY ListIs
<1>2. n = 0 <=> s = << >>
  BY <1>1, EmptySeq DEF IsList
<1>3. n = 0 <=> DOMAIN s = {}
  BY <1>1
<1>. QED  BY <1>2, <1>3 DEF Elems

LEMMA TickListsOK ==
    ASSUME NEW ticks \in TickLists, Distinct(ticks)
    PROVE  TicksOK(ticks) /\ Elems(ticks) \subseteq Ticks
<1>1. PICK n \in 1 .. MaxTicks : ticks \in [1 .. n -> Ticks]
  BY DEF TickLists
<1>2. n \in Nat /\ ticks = [i \in 1 .. n |-> ticks[i]]
  BY <1>1
<1>3. IsList(ticks) /\ DOMAIN ticks = 1 .. n
  BY <1>2, IsAList
<1>4. Elems(ticks) \subseteq Ticks
  BY <1>1, <1>3 DEF Elems
<1>5. \A t \in Ticks : t = <<t[1], t[2]>>
  BY DEF Ticks, OfficialTicks
<1>. QED  BY <1>3, <1>4, <1>5 DEF TicksOK

\* The ticks of one distro are a selection of its desktops.
LEMMA SelectionStands ==
    ASSUME NEW ticks \in TickLists, NEW packs \in Seq(Packs),
           CanBuildShop(ticks, packs), NEW id
    PROVE  LET selected == TickedOf(ticks, id)
           IN  /\ Has(Official, id) =>
                     SelectionOK(Row(Official, id).editions, selected)
               /\ ~Has(Official, id) =>
                     /\ SelectionOK(Row(packs, id).editions, selected)
                     /\ \A x \in Elems(selected) :
                           PackCanStage(Row(Row(packs, id).editions, x))
               /\ (\E t \in Elems(ticks) : t[1] = id) => selected # << >>
               /\ ~(\E t \in Elems(ticks) : t[1] = id) => selected = << >>
<1>. DEFINE selected == TickedOf(ticks, id)
<1>1. TicksOK(ticks) /\ \A t \in Elems(ticks) : TickStands(t, packs)
  BY TickListsOK DEF CanBuildShop
<1>2. /\ IsList(selected) /\ Distinct(selected)
      /\ \A x : x \in Elems(selected) <=> <<id, x>> \in Elems(ticks)
  BY <1>1, TickedIs
<1>. HIDE DEF selected
<1>3. \A x \in Elems(selected) : TickStands(<<id, x>>, packs)
  BY <1>1, <1>2
<1>4. Has(Official, id) => SelectionOK(Row(Official, id).editions, selected)
  BY <1>2, <1>3 DEF SelectionOK, TickStands
<1>5. ~Has(Official, id) => /\ SelectionOK(Row(packs, id).editions, selected)
                            /\ \A x \in Elems(selected) :
                                  PackCanStage(Row(Row(packs, id).editions, x))
  BY <1>2, <1>3 DEF SelectionOK, TickStands
<1>6. Elems(selected) = {} <=> ~(\E t \in Elems(ticks) : t[1] = id)
  <2>1. \A t \in Elems(ticks) : t[1] = id => <<id, t[2]>> \in Elems(ticks)
    BY <1>1 DEF TicksOK
  <2>2. \A x : <<id, x>> \in Elems(ticks) => \E t \in Elems(ticks) : t[1] = id
    <3>. SUFFICES ASSUME NEW x, <<id, x>> \in Elems(ticks)
                  PROVE  \E t \in Elems(ticks) : t[1] = id
      OBVIOUS
    <3>1. <<id, x>>[1] = id
      OBVIOUS
    <3>. QED  BY <3>1
  <2>. QED  BY <1>2, <2>1, <2>2
<1>. QED  BY <1>2, <1>4, <1>5, <1>6, EmptyList DEF selected

LEMMA RecommendedIs ==
    ASSUME NEW ticks \in TickLists, NEW packs \in Seq(Packs),
           CanBuildShop(ticks, packs),
           NEW rows, rows = BuildShop(ticks, packs).recommended
    PROVE  /\ IsList(rows) /\ Distinct(Names(rows))
           /\ \A r \in Elems(rows) :
                 /\ \E t \in Elems(ticks) : t[1] = r.id
                 /\ \/ \E d \in Elems(Official) :
                          r.id = d.id /\ OfficialRow(r, d, TickedOf(ticks, d.id))
                    \/ \E p \in Elems(packs) :
                          r.id = p.id /\ PackRow(r, p, TickedOf(ticks, p.id))
           /\ \A t \in Elems(ticks) : \E r \in Elems(rows) : r.id = t[1]
<1>. DEFINE order == TickOrder(ticks)
            Made(id) == RecommendedRow(id, TickedOf(ticks, id), packs)
<1>1. TicksOK(ticks) /\ \A t \in Elems(ticks) : TickStands(t, packs)
  BY TickListsOK DEF CanBuildShop
<1>2. IsList(order) /\ Distinct(order) /\ Elems(order) = {t[1] : t \in Elems(ticks)}
  BY <1>1, TickOrderIs
<1>3. rows = [i \in DOMAIN order |-> Made(order[i])]
  BY DEF BuildShop, Mapped
<1>4. ASSUME NEW t \in Elems(ticks), NEW r, r = Made(t[1])
      PROVE  /\ r.id = t[1]
             /\ \/ \E d \in Elems(Official) :
                      r.id = d.id /\ OfficialRow(r, d, TickedOf(ticks, d.id))
                \/ \E p \in Elems(packs) :
                      r.id = p.id /\ PackRow(r, p, TickedOf(ticks, p.id))
  <2>. DEFINE id == t[1]
              selected == TickedOf(ticks, id)
  <2>1. TickStands(t, packs)
    BY <1>1
  <2>2. /\ Has(Official, id) => SelectionOK(Row(Official, id).editions, selected)
        /\ ~Has(Official, id) =>
              /\ SelectionOK(Row(packs, id).editions, selected)
              /\ \A x \in Elems(selected) :
                    PackCanStage(Row(Row(packs, id).editions, x))
        /\ selected # << >>
    BY SelectionStands
  <2>. HIDE DEF selected
  <2>3. CASE Has(Official, id)
    <3>1. PICK d : d = Row(Official, id)
      OBVIOUS
    <3>2. d \in Elems(Official) /\ d.id = id
      BY <2>3, <3>1, RowIs, OfficialAssumption
    <3>3. Offerable(d)
      BY <2>1, <2>3, <3>1 DEF TickStands
    <3>4. FeaturedIsPinned(d, selected)
      BY <3>2, <3>3 DEF CanBuildShop, selected
    <3>5. r = ShopDistro(d, selected)
      BY <1>4, <2>3, <3>1 DEF RecommendedRow, selected
    <3>6. r.id = id
      BY <3>2, <3>5 DEF ShopDistro
    <3>7. OfficialRow(r, d, selected)
      BY <2>2, <2>3, <3>1, <3>2, <3>3, <3>4, <3>5 DEF OfficialRow
    <3>. QED  BY <3>2, <3>6, <3>7 DEF selected
  <2>4. CASE ~Has(Official, id)
    <3>1. PICK p : p = Row(packs, id)
      OBVIOUS
    <3>2. Has(packs, id) /\ IsList(packs) /\ Elems(packs) \subseteq Packs
      BY <2>1, <2>4, SeqIsList DEF TickStands
    <3>3. p \in Elems(packs) /\ p.id = id /\ p \in Packs
      BY <3>1, <3>2, RowIs
    <3>4. r = ShopDistroFromPack(p, selected)
      BY <1>4, <2>4, <3>1 DEF RecommendedRow, selected
    <3>5. r.id = id
      BY <3>3, <3>4 DEF ShopDistroFromPack
    <3>6. PackRow(r, p, selected)
      BY <2>2, <2>4, <3>1, <3>3, <3>4 DEF PackRow
    <3>. QED  BY <3>3, <3>5, <3>6 DEF selected
  <2>. QED  BY <2>3, <2>4
<1>. HIDE DEF order, Made
<1>5. IsList(rows) /\ DOMAIN rows = DOMAIN order
  <2>1. rows = [i \in DOMAIN order |-> rows[i]]
    BY <1>3
  <2>. QED  BY <1>2, <2>1, MappedList
<1>6. \A i \in DOMAIN rows : \E t \in Elems(ticks) : order[i] = t[1] /\ rows[i] = Made(t[1])
  BY <1>2, <1>3, <1>5 DEF Elems
<1>7. \A i \in DOMAIN rows : rows[i].id = order[i]
  BY <1>4, <1>6
<1>8. Distinct(Names(rows))
  BY <1>2, <1>5, <1>7, NamesDistinct DEF Distinct
<1>9. \A r \in Elems(rows) : \E t \in Elems(ticks) : r = Made(t[1])
  BY <1>6 DEF Elems
<1>10. \A t \in Elems(ticks) : \E r \in Elems(rows) : r.id = t[1]
  <2>. SUFFICES ASSUME NEW t \in Elems(ticks)
                PROVE  \E r \in Elems(rows) : r.id = t[1]
    OBVIOUS
  <2>1. PICK i \in DOMAIN order : order[i] = t[1]
    BY <1>2 DEF Elems
  <2>. QED  BY <1>5, <1>7, <2>1 DEF Elems
<1>. QED  BY <1>4, <1>5, <1>8, <1>9, <1>10

LEMMA OthersAre ==
    ASSUME NEW ticks \in TickLists, NEW packs \in Seq(Packs),
           CanBuildShop(ticks, packs),
           NEW rows, rows = BuildShop(ticks, packs).catalog
    PROVE  /\ IsList(rows) /\ Distinct(Names(rows))
           /\ \A r \in Elems(rows) :
                 /\ \A t \in Elems(ticks) : t[1] # r.id
                 /\ \E d \in Elems(Official) : r.id = d.id /\ OfficialRow(r, d, << >>)
<1>. DEFINE P == {i \in DOMAIN Official :
                     /\ Offerable(Official[i])
                     /\ \A t \in Elems(ticks) : t[1] # Official[i].id}
            s == Those(Official, P)
<1>1. rows = [i \in DOMAIN s |-> ShopDistro(s[i], << >>)]
  BY DEF BuildShop, OtherRows, Mapped
<1>2. /\ IsList(s) /\ Distinct(Names(s)) /\ Elems(s) = {Official[i] : i \in P}
      /\ Elems(s) \subseteq Elems(Official)
  <2>1. P \in SUBSET DOMAIN Official /\ IsList(Official) /\ Distinct(Names(Official))
    BY OfficialAssumption
  <2>. HIDE DEF P
  <2>. QED  BY <2>1, ThoseList
<1>3. \A d \in Elems(s) : Offerable(d) /\ \A t \in Elems(ticks) : t[1] # d.id
  <2>. HIDE DEF s
  <2>. QED  BY <1>2
<1>. HIDE DEF s
<1>4. IsList(rows) /\ DOMAIN rows = DOMAIN s
  <2>1. rows = [i \in DOMAIN s |-> rows[i]]
    BY <1>1
  <2>. QED  BY <1>2, <2>1, MappedList
<1>5. ASSUME NEW i \in DOMAIN rows
      PROVE  /\ s[i] \in Elems(s) /\ rows[i].id = s[i].id
             /\ OfficialRow(rows[i], s[i], << >>)
  <2>. DEFINE d == s[i]
  <2>1. d \in Elems(s)
    BY <1>4 DEF Elems
  <2>2. d \in Elems(Official) /\ Offerable(d) /\ \A t \in Elems(ticks) : t[1] # d.id
    BY <1>2, <1>3, <2>1
  <2>3. Has(Official, d.id) /\ Row(Official, d.id) = d
    BY <2>2, OfficialIs
  <2>4. TickedOf(ticks, d.id) = << >> /\ SelectionOK(d.editions, << >>)
    <3>. HIDE DEF d
    <3>1. TickedOf(ticks, d.id) = << >>
      BY <2>2, SelectionStands
    <3>2. SelectionOK(Row(Official, d.id).editions, TickedOf(ticks, d.id))
      BY <2>3, SelectionStands
    <3>. QED  BY <2>3, <3>1, <3>2
  <2>5. FeaturedIsPinned(d, << >>)
    BY <2>2, <2>4 DEF CanBuildShop
  <2>6. rows[i] = ShopDistro(d, << >>)
    BY <1>1, <1>4
  <2>7. rows[i].id = d.id
    BY <2>6 DEF ShopDistro
  <2>. QED  BY <2>1, <2>2, <2>4, <2>5, <2>6, <2>7 DEF OfficialRow
<1>6. Distinct(Names(rows))
  BY <1>2, <1>4, <1>5, NamesDistinct
<1>7. ASSUME NEW r \in Elems(rows)
      PROVE  /\ \A t \in Elems(ticks) : t[1] # r.id
             /\ \E d \in Elems(Official) : r.id = d.id /\ OfficialRow(r, d, << >>)
  <2>1. PICK i \in DOMAIN rows : rows[i] = r
    BY DEF Elems
  <2>. QED  BY <1>2, <1>3, <1>5, <2>1
<1>. QED  BY <1>4, <1>6, <1>7
-----------------------------------------------------------------------------
(* The editions of a row.                                                  *)

\* The default desktop of an official distro, or the first ticked one.
LEMMA FeaturedIs ==
    ASSUME NEW d \in Elems(Official), NEW selected, SelectionOK(d.editions, selected)
    PROVE  \E e \in Elems(d.editions) : e.id = FeaturedEdition(d, selected)
<1>1. IsList(d.editions) /\ \E e \in Elems(d.editions) : e.default
  BY OfficialAssumption
<1>2. d.editions # << >>
  BY <1>1, EmptyList
<1>3. DefaultEdition(d) \in Elems(d.editions)
  BY <1>1, <1>2, DefaultIs
<1>4. CASE selected = << >> \/ DefaultEdition(d).id \in Elems(selected)
  BY <1>3, <1>4 DEF FeaturedEdition
<1>5. CASE ~(selected = << >> \/ DefaultEdition(d).id \in Elems(selected))
  <2>1. selected[1] \in Elems(selected)
    <3>1. IsList(selected)
      BY DEF SelectionOK
    <3>2. PICK n \in Nat : DOMAIN selected = 1 .. n /\ Len(selected) = n
      BY <3>1, ListIs
    <3>3. n # 0
      BY <1>5, <3>1, <3>2, EmptySeq DEF IsList
    <3>4. 1 \in DOMAIN selected
      BY <3>2, <3>3
    <3>. QED  BY <3>4 DEF Elems
  <2>2. Has(d.editions, selected[1])
    BY <2>1 DEF SelectionOK
  <2>. QED  BY <1>5, <2>2 DEF FeaturedEdition, Has
<1>. QED  BY <1>4, <1>5

\* An edition of an official row: what the catalog says of it, and where it
\* comes from.
LEMMA OfficialEditions ==
    ASSUME NEW r, NEW d, NEW selected, OfficialRow(r, d, selected)
    PROVE  /\ r.id = d.id /\ r.install = d.install /\ r.secureBoot = d.secureBoot
           /\ IsList(r.editions) /\ Distinct(Names(r.editions))
           /\ \A e \in Elems(r.editions) : \E x \in Elems(d.editions) :
                 /\ Pinned(x) /\ e = OfficialEditionRow(d, x, selected)
                 /\ InstallFor(r, e) = x.install /\ x.install \in Drivers \cap KebabIds
                 /\ x.filename \in PlainImages
           /\ \A x \in Elems(d.editions) :
                 Pinned(x) => OfficialEditionRow(d, x, selected) \in Elems(r.editions)
<1>1. /\ d \in Elems(Official) /\ r = ShopDistro(d, selected) /\ d.install # None
      /\ SelectionOK(d.editions, selected) /\ FeaturedIsPinned(d, selected)
  BY DEF OfficialRow, Offerable
<1>2. /\ r.id = d.id /\ r.install = d.install /\ r.secureBoot = d.secureBoot
      /\ IsList(r.editions) /\ Distinct(Names(r.editions))
      /\ \A e \in Elems(r.editions) : \E x \in Elems(d.editions) :
            Pinned(x) /\ e = OfficialEditionRow(d, x, selected)
      /\ \A x \in Elems(d.editions) :
            Pinned(x) => OfficialEditionRow(d, x, selected) \in Elems(r.editions)
  BY <1>1, ShopDistroIs
<1>3. ASSUME NEW x \in Elems(d.editions), NEW e, e = OfficialEditionRow(d, x, selected)
      PROVE  /\ InstallFor(r, e) = x.install /\ x.install \in Drivers \cap KebabIds
             /\ x.filename \in PlainImages
  <2>1. x.install # None /\ x.install \in {None} \cup (Drivers \cap KebabIds)
        /\ x.filename \in PlainImages
    BY <1>1, OfficialAssumption, OfficialNames
  <2>2. e.install = IF x.install = d.install THEN None ELSE x.install
    BY <1>3 DEF OfficialEditionRow, InstallOverride
  <2>. QED  BY <1>2, <2>1, <2>2 DEF InstallFor
<1>. QED  BY <1>2, <1>3

LEMMA PackEditionsAre ==
    ASSUME NEW r, NEW p, NEW selected, PackRow(r, p, selected)
    PROVE  /\ r.id = p.id /\ r.install = p.id /\ r.secureBoot = p.secureBoot
           /\ IsList(r.editions) /\ Distinct(Names(r.editions))
           /\ \A e \in Elems(r.editions) : \E x \in Elems(p.editions) :
                 /\ PackCanStage(x) /\ e = PackEditionRow(p, x, selected)
                 /\ x.id \in Elems(selected) /\ x \in PackEditions
                 /\ InstallFor(r, e) = p.id
           /\ \A id \in Elems(selected) : \E x \in Elems(p.editions) :
                 x.id = id /\ PackEditionRow(p, x, selected) \in Elems(r.editions)
<1>1. /\ p \in Packs /\ r = ShopDistroFromPack(p, selected)
      /\ SelectionOK(p.editions, selected)
      /\ \A x \in Elems(selected) : PackCanStage(Row(p.editions, x))
  BY DEF PackRow
<1>2. /\ IsList(p.editions) /\ Distinct(Names(p.editions))
      /\ Elems(p.editions) \subseteq PackEditions
  <2>1. p.editions \in Seq(PackEditions) /\ Distinct(Names(p.editions))
    BY <1>1 DEF Packs
  <2>. QED  BY <2>1, SeqIsList
<1>. DEFINE s == Mapped(selected, LAMBDA id : Row(p.editions, id))
            t == r.editions
<1>3. /\ r.id = p.id /\ r.install = p.id /\ r.secureBoot = p.secureBoot
      /\ t = [i \in DOMAIN s |-> PackEditionRow(p, s[i], selected)]
  BY <1>1 DEF ShopDistroFromPack, Mapped
<1>4. s = [i \in DOMAIN selected |-> Row(p.editions, selected[i])]
  BY DEF Mapped
<1>. HIDE DEF s, t
<1>5. /\ IsList(s) /\ Distinct(Names(s)) /\ DOMAIN s = DOMAIN selected
      /\ \A i \in DOMAIN s : s[i] \in Elems(p.editions) /\ s[i].id = selected[i]
  BY <1>1, <1>2, <1>4, SelectedRows
<1>6. IsList(t) /\ DOMAIN t = DOMAIN s
  <2>1. t = [i \in DOMAIN s |-> t[i]]
    BY <1>3
  <2>. QED  BY <1>5, <2>1, MappedList
<1>7. ASSUME NEW i \in DOMAIN t
      PROVE  /\ s[i] \in Elems(p.editions) /\ PackCanStage(s[i])
             /\ s[i].id = selected[i] /\ s[i].id \in Elems(selected)
             /\ t[i] = PackEditionRow(p, s[i], selected)
             /\ t[i].id = selected[i] /\ InstallFor(r, t[i]) = p.id
  <2>1. /\ s[i] \in Elems(p.editions) /\ s[i].id = selected[i] /\ i \in DOMAIN selected
        /\ s[i] = Row(p.editions, selected[i])
        /\ t[i] = PackEditionRow(p, s[i], selected)
    BY <1>3, <1>4, <1>5, <1>6
  <2>2. selected[i] \in Elems(selected)
    BY <2>1 DEF Elems
  <2>3. PackCanStage(s[i])
    BY <1>1, <2>1, <2>2
  <2>4. t[i].id = s[i].id /\ t[i].install = None
    BY <2>1 DEF PackEditionRow
  <2>5. InstallFor(r, t[i]) = p.id
    BY <1>3, <2>4 DEF InstallFor
  <2>. QED  BY <2>1, <2>2, <2>3, <2>4, <2>5
<1>8. Distinct(Names(t))
  <2>1. Distinct(selected)
    BY <1>1 DEF SelectionOK
  <2>. QED  BY <1>5, <1>6, <1>7, <2>1, NamesDistinct DEF Distinct
<1>9. \A e \in Elems(t) : \E x \in Elems(p.editions) :
         /\ PackCanStage(x) /\ e = PackEditionRow(p, x, selected)
         /\ x.id \in Elems(selected) /\ x \in PackEditions
         /\ InstallFor(r, e) = p.id
  <2>. SUFFICES ASSUME NEW i \in DOMAIN t
                PROVE  \E x \in Elems(p.editions) :
                          /\ PackCanStage(x) /\ t[i] = PackEditionRow(p, x, selected)
                          /\ x.id \in Elems(selected) /\ x \in PackEditions
                          /\ InstallFor(r, t[i]) = p.id
    BY DEF Elems
  <2>. QED  BY <1>2, <1>7
<1>10. \A id \in Elems(selected) : \E x \in Elems(p.editions) :
          x.id = id /\ PackEditionRow(p, x, selected) \in Elems(t)
  <2>. SUFFICES ASSUME NEW i \in DOMAIN selected
                PROVE  \E x \in Elems(p.editions) :
                          x.id = selected[i] /\ PackEditionRow(p, x, selected) \in Elems(t)
    BY DEF Elems
  <2>1. i \in DOMAIN t
    BY <1>5, <1>6
  <2>2. t[i] \in Elems(t)
    BY <2>1 DEF Elems
  <2>. QED  BY <1>7, <2>1, <2>2
<1>. QED  BY <1>3, <1>6, <1>8, <1>9, <1>10 DEF t
-----------------------------------------------------------------------------
(* The packs of the session.                                               *)

\* Every pack ever loaded is one, under its own name in the session; a driver
\* in packs/<id> came from a zip of that id.
PacksInv ==
    /\ object \in Seq(Packs)
    /\ loaded \in Seq(DOMAIN object)
    /\ Distinct(Names(SessionPacks))
    /\ cache \in [FileNames -> {None} \cup DOMAIN Size]
    /\ DOMAIN files = Ids
    /\ \A id \in Ids : files[id] # None =>
          \E z \in Zips : z.id = id /\ files[id] = z.driver

LEMMA SessionDistinct ==
    Distinct(Names(SessionPacks))
       <=> \A i, j \in DOMAIN loaded : object[loaded[i]].id = object[loaded[j]].id => i = j
  BY DEF Distinct, Names, SessionPacks, Mapped

LEMMA SessionIs ==
    ASSUME PacksInv
    PROVE  /\ SessionPacks \in Seq(Packs)
           /\ {p.id : p \in Elems(SessionPacks)} = {object[n].id : n \in Elems(loaded)}
<1>1. /\ IsList(loaded) /\ Elems(loaded) \subseteq DOMAIN object
      /\ \A n \in DOMAIN object : object[n] \in Packs
  <2>1. DOMAIN object = 1 .. Len(object) /\ object \in [1 .. Len(object) -> Packs]
    BY LenProperties DEF PacksInv
  <2>. QED  BY <2>1, SeqIsList DEF PacksInv
<1>2. SessionPacks = [i \in DOMAIN loaded |-> object[loaded[i]]]
  BY DEF SessionPacks, Mapped
<1>3. IsList(SessionPacks) /\ DOMAIN SessionPacks = DOMAIN loaded
  <2>1. SessionPacks = [i \in DOMAIN loaded |-> SessionPacks[i]]
    BY <1>2
  <2>. QED  BY <1>1, <2>1, MappedList
<1>4. Elems(SessionPacks) = {object[n] : n \in Elems(loaded)}
  BY <1>2, <1>3 DEF Elems
<1>5. Elems(SessionPacks) \subseteq Packs
  BY <1>1, <1>4
<1>6. SessionPacks \in Seq(Packs)
  BY <1>3, <1>5, SeqMonotonic DEF IsList
<1>. QED  BY <1>4, <1>6

LEMMA FoundIs ==
    ASSUME PacksInv, NEW zip \in Zips, NEW e \in Elems(zip.editions)
    PROVE  /\ FoundPath(zip, e) \in {None} \cup Places
           /\ FoundImage(zip, e) \in {None} \cup DOMAIN Size
           /\ FoundPath(zip, e) = None <=> FoundImage(zip, e) = None
<1>1. e.filename \in FileNames
  <2>. DEFINE Of(z) == {x.filename : x \in Elems(z.editions)}
  <2>1. e.filename \in Of(zip)
    OBVIOUS
  <2>2. Of(zip) \in {Of(z) : z \in Zips}
    OBVIOUS
  <2>3. UNION {Of(z) : z \in Zips} \subseteq FileNames
    BY DEF FileNames
  <2>. HIDE DEF Of
  <2>. QED  BY <2>1, <2>2, <2>3
<1>2. /\ cache[e.filename] \in {None} \cup DOMAIN Size
      /\ None \notin DOMAIN Size /\ None \notin Places
      /\ \A f \in DOMAIN zip.inside : zip.inside[f] \in DOMAIN Size
      /\ \A f \in DOMAIN zip.beside : zip.beside[f] \in DOMAIN Size
  BY <1>1, SizeAssumption, ZipsAssumption DEF PacksInv
<1>3. /\ <<"cache", e.filename>> \in Places
      /\ \A c \in DOMAIN Size : <<"own", c>> \in Places
  BY <1>1 DEF Places
<1>4. CASE e.filename \in DOMAIN zip.inside
  <2>1. FoundPath(zip, e) = <<"cache", e.filename>>
        /\ FoundImage(zip, e) = zip.inside[e.filename]
    BY <1>4 DEF FoundPath, FoundImage
  <2>. QED  BY <1>2, <1>3, <1>4, <2>1
<1>5. CASE e.filename \notin DOMAIN zip.inside /\ e.filename \in DOMAIN zip.beside
  <2>. DEFINE c == zip.beside[e.filename]
  <2>1. c \in DOMAIN Size /\ <<"own", c>> \in Places
    BY <1>2, <1>3, <1>5
  <2>2. FoundPath(zip, e) = <<"own", c>>
        /\ FoundImage(zip, e) = ContentAt(<<"own", c>>)
    BY <1>5 DEF FoundPath, FoundImage
  <2>. HIDE DEF c
  <2>3. ContentAt(<<"own", c>>) = c
    <3>1. <<"own", c>> # None
      BY <1>2, <2>1
    <3>. QED  BY <3>1 DEF ContentAt
  <2>. QED  BY <1>2, <2>1, <2>2, <2>3
<1>6. CASE e.filename \notin DOMAIN zip.inside \cup DOMAIN zip.beside
           /\ cache[e.filename] # None
  <2>1. FoundPath(zip, e) = <<"cache", e.filename>>
        /\ FoundImage(zip, e) = ContentAt(<<"cache", e.filename>>)
    BY <1>6 DEF FoundPath, FoundImage
  <2>2. ContentAt(<<"cache", e.filename>>) = cache[e.filename]
    BY <1>2, <1>3 DEF ContentAt
  <2>. QED  BY <1>2, <1>3, <1>6, <2>1, <2>2
<1>7. CASE e.filename \notin DOMAIN zip.inside \cup DOMAIN zip.beside
           /\ cache[e.filename] = None
  <2>1. FoundPath(zip, e) = None /\ FoundImage(zip, e) = ContentAt(None)
    BY <1>7 DEF FoundPath, FoundImage
  <2>. QED  BY <2>1 DEF ContentAt
<1>. QED  BY <1>4, <1>5, <1>6, <1>7

LEMMA NewPackIs ==
    ASSUME PacksInv, NEW zip \in Zips, ParsePackManifest(zip), ~ReservedPackID(zip.id)
    PROVE  NewPack(zip) \in Packs /\ NewPack(zip).id = zip.id
<1>. DEFINE Made(e) == [id |-> e.id, default |-> e.default, filename |-> e.filename,
                        pin |-> e.pin, path |-> FoundPath(zip, e),
                        image |-> FoundImage(zip, e)]
            t == [i \in DOMAIN zip.editions |-> Made(zip.editions[i])]
<1>1. NewPack(zip) = [id |-> zip.id, secureBoot |-> zip.secureBoot, editions |-> t]
  BY DEF NewPack, Mapped
<1>2. /\ IsList(zip.editions) /\ zip.secureBoot \in BOOLEAN
      /\ zip.id \in PackIds /\ zip.id \in Ids /\ Distinct(Names(zip.editions))
  BY ZipsAssumption DEF ParsePackManifest, Ids
<1>3. \A e \in Elems(zip.editions) :
         /\ Made(e) \in PackEditions /\ Made(e).id = e.id
         /\ Made(e).path = None <=> Made(e).image = None
  <2>. SUFFICES ASSUME NEW e \in Elems(zip.editions)
                PROVE  /\ Made(e) \in PackEditions /\ Made(e).id = e.id
                       /\ Made(e).path = None <=> Made(e).image = None
    OBVIOUS
  <2>1. /\ e.id \in PackIds /\ e.filename \in IsoNames /\ e.default \in BOOLEAN
        /\ e.pin \in {None} \cup DOMAIN Size
    BY ZipsAssumption DEF ParsePackManifest
  <2>. QED  BY <2>1, FoundIs DEF PackEditions
<1>. HIDE DEF Made
<1>4. IsList(t) /\ DOMAIN t = DOMAIN zip.editions
  <2>1. t = [i \in DOMAIN zip.editions |-> t[i]]
    OBVIOUS
  <2>. HIDE DEF t
  <2>. QED  BY <1>2, <2>1, MappedList
<1>5. \A i \in DOMAIN t : /\ t[i] \in PackEditions /\ t[i].id = zip.editions[i].id
                          /\ t[i].path = None <=> t[i].image = None
  BY <1>3, <1>4 DEF Elems
<1>. HIDE DEF t
<1>6. t \in Seq(PackEditions)
  <2>1. Elems(t) \subseteq PackEditions
    BY <1>5 DEF Elems
  <2>. QED  BY <1>4, <2>1, SeqMonotonic DEF IsList
<1>7. Distinct(Names(t))
  BY <1>2, <1>4, <1>5, NamesDistinct
<1>8. \A e \in Elems(t) : e.path = None <=> e.image = None
  BY <1>5 DEF Elems
<1>. QED  BY <1>1, <1>2, <1>6, <1>7, <1>8 DEF Packs

LEMMA WithoutIs ==
    ASSUME PacksInv, NEW id, NEW t, t = LoadedWithout(id)
    PROVE  /\ IsList(t) /\ Elems(t) \subseteq Elems(loaded)
           /\ \A n \in Elems(t) : object[n].id # id
           /\ \A i, j \in DOMAIN t : object[t[i]].id = object[t[j]].id => i = j
<1>. DEFINE P == {i \in DOMAIN loaded : object[loaded[i]].id # id}
<1>1. t = Those(loaded, P)
  BY DEF LoadedWithout
<1>2. IsList(loaded)
  BY SeqIsList DEF PacksInv
<1>3. PICK n \in Nat : DOMAIN loaded = 1 .. n
  BY <1>2, ListIs
<1>4. P \in SUBSET DOMAIN loaded /\ P \in SUBSET (1 .. n) /\ DOMAIN loaded = 1 .. n
  BY <1>3
<1>5. \A i \in P : object[loaded[i]].id # id
  OBVIOUS
<1>. HIDE DEF P
<1>6. IsList(t) /\ Elems(t) = {loaded[i] : i \in P} /\ Elems(t) \subseteq Elems(loaded)
  BY <1>1, <1>2, <1>4, ThoseList
<1>7. /\ DOMAIN Those(loaded, P) = 1 .. Cardinality(P) /\ Cardinality(P) \in Nat
      /\ Elems(Those(loaded, P)) = {loaded[i] : i \in P}
      /\ \E at \in [1 .. Cardinality(P) -> P] :
            /\ \A k, l \in 1 .. Cardinality(P) : at[k] = at[l] => k = l
            /\ \A k \in 1 .. Cardinality(P) : Those(loaded, P)[k] = loaded[at[k]]
  <2>1. ListsAt(Those(loaded, P), loaded, P)
    BY <1>4, ThoseIs
  <2>. QED  BY <2>1 DEF ListsAt
<1>8. \A i, j \in DOMAIN loaded : object[loaded[i]].id = object[loaded[j]].id => i = j
  BY SessionDistinct DEF PacksInv
<1>9. \A i, j \in DOMAIN t : object[t[i]].id = object[t[j]].id => i = j
  BY <1>1, <1>4, <1>7, <1>8
<1>10. \A m \in Elems(t) : object[m].id # id
  BY <1>5, <1>6
<1>. QED  BY <1>6, <1>9, <1>10

\* What the page does with the packs keeps each in shape and under its id.
PacksKeep ==
    /\ PacksInv'
    /\ \A n \in DOMAIN object : n \in DOMAIN object' /\ object'[n].id = object[n].id

LEMMA ObjectIs ==
    ASSUME PacksInv
    PROVE  /\ Len(object) \in Nat /\ DOMAIN object = 1 .. Len(object)
           /\ \A n \in DOMAIN object : object[n] \in Packs
           /\ IsList(loaded) /\ Elems(loaded) \subseteq DOMAIN object
<1>1. /\ Len(object) \in Nat /\ DOMAIN object = 1 .. Len(object)
      /\ object \in [1 .. Len(object) -> Packs]
  BY LenProperties DEF PacksInv
<1>. QED  BY <1>1, SeqIsList DEF PacksInv

LEMMA ListInSeq ==
    ASSUME NEW s, IsList(s), NEW S, Elems(s) \subseteq S
    PROVE  s \in Seq(S)
  BY SeqMonotonic DEF IsList

LEMMA LoadZipKeeps ==
    ASSUME PacksInv, NEW zip \in Zips, LoadZip(zip)
    PROVE  PacksKeep
<1>1. /\ ParsePackManifest(zip) /\ ~ReservedPackID(zip.id)
      /\ files' = [files EXCEPT ![zip.id] = zip.driver]
      /\ cache' = IF PackDriverLooksOK(zip)
                  THEN [f \in FileNames |-> IF f \in Extracted(zip)
                                            THEN zip.inside[f] ELSE cache[f]]
                  ELSE cache
  BY DEF LoadZip
<1>2. DOMAIN files' = Ids /\ \A id \in Ids : files'[id] # None =>
          \E z \in Zips : z.id = id /\ files'[id] = z.driver
  <2>1. DOMAIN files = Ids /\ zip.id \in Ids
    BY DEF PacksInv, Ids
  <2>2. /\ DOMAIN files' = Ids /\ files'[zip.id] = zip.driver
        /\ \A id \in Ids : id # zip.id => files'[id] = files[id]
    BY <1>1, <2>1
  <2>. QED  BY <2>2 DEF PacksInv
<1>3. cache' \in [FileNames -> {None} \cup DOMAIN Size]
  <2>1. cache \in [FileNames -> {None} \cup DOMAIN Size]
    BY DEF PacksInv
  <2>2. CASE PackDriverLooksOK(zip)
    <3>1. \A f \in Extracted(zip) : zip.inside[f] \in DOMAIN Size
      BY ZipsAssumption DEF Extracted
    <3>. QED  BY <1>1, <2>1, <2>2, <3>1
  <2>3. CASE ~PackDriverLooksOK(zip)
    BY <1>1, <2>1, <2>3
  <2>. QED  BY <2>2, <2>3
<1>4. /\ object' \in Seq(Packs) /\ loaded' \in Seq(DOMAIN object')
      /\ \A i, j \in DOMAIN loaded' :
            object'[loaded'[i]].id = object'[loaded'[j]].id => i = j
      /\ \A n \in DOMAIN object : n \in DOMAIN object' /\ object'[n].id = object[n].id
  <2>0. /\ Len(object) \in Nat /\ DOMAIN object = 1 .. Len(object)
        /\ IsList(loaded) /\ Elems(loaded) \subseteq DOMAIN object
    BY ObjectIs
  <2>1. CASE PackDriverLooksOK(zip) /\ HashesFit(zip)
    <3>. DEFINE p == NewPack(zip)
                t == LoadedWithout(zip.id)
                m == Len(object) + 1
    <3>1. object' = Append(object, p) /\ loaded' = Append(t, m)
      BY <2>1 DEF LoadZip
    <3>2. p \in Packs /\ p.id = zip.id
      BY <1>1, NewPackIs
    <3>3. /\ IsList(t) /\ Elems(t) \subseteq Elems(loaded)
          /\ \A n \in Elems(t) : object[n].id # zip.id
          /\ \A i, j \in DOMAIN t : object[t[i]].id = object[t[j]].id => i = j
      BY WithoutIs
    <3>. HIDE DEF p, t
    <3>4. object \in Seq(Packs)
      BY DEF PacksInv
    <3>5. /\ object' \in Seq(Packs) /\ Len(object') = m /\ object'[m] = p
          /\ \A n \in 1 .. Len(object) : object'[n] = object[n]
      BY <3>1, <3>2, <3>4, AppendProperties
    <3>6. DOMAIN object' = 1 .. m /\ m \in DOMAIN object'
      <4>1. DOMAIN object' = 1 .. Len(object')
        BY <3>5, LenProperties
      <4>. QED  BY <2>0, <3>5, <4>1
    <3>7. t \in Seq(DOMAIN object')
      BY <2>0, <3>3, <3>6, ListInSeq
    <3>8. /\ loaded' \in Seq(DOMAIN object') /\ Len(loaded') = Len(t) + 1
          /\ loaded'[Len(t) + 1] = m /\ \A i \in 1 .. Len(t) : loaded'[i] = t[i]
      BY <3>1, <3>6, <3>7, AppendProperties
    <3>9. /\ Len(t) \in Nat /\ DOMAIN t = 1 .. Len(t)
          /\ DOMAIN loaded' = 1 .. Len(t) + 1
      BY <3>7, <3>8, LenProperties
    <3>10. \A i \in 1 .. Len(t) : /\ object'[loaded'[i]] = object[t[i]]
                                  /\ object[t[i]].id # zip.id
      BY <2>0, <3>3, <3>5, <3>8, <3>9 DEF Elems
    <3>11. object'[loaded'[Len(t) + 1]].id = zip.id
      BY <3>2, <3>5, <3>8
    <3>12. \A i, j \in DOMAIN loaded' :
              object'[loaded'[i]].id = object'[loaded'[j]].id => i = j
      <4>. SUFFICES ASSUME NEW i \in DOMAIN loaded', NEW j \in DOMAIN loaded',
                           object'[loaded'[i]].id = object'[loaded'[j]].id
                    PROVE  i = j
        OBVIOUS
      <4>1. i \in 1 .. Len(t) \/ i = Len(t) + 1
        BY <3>9
      <4>2. j \in 1 .. Len(t) \/ j = Len(t) + 1
        BY <3>9
      <4>3. CASE i \in 1 .. Len(t) /\ j \in 1 .. Len(t)
        BY <3>3, <3>9, <3>10, <4>3
      <4>4. CASE i = Len(t) + 1 /\ j = Len(t) + 1
        BY <4>4
      <4>5. ~(i \in 1 .. Len(t) /\ j = Len(t) + 1)
        BY <3>10, <3>11
      <4>6. ~(j \in 1 .. Len(t) /\ i = Len(t) + 1)
        BY <3>10, <3>11
      <4>. QED  BY <4>1, <4>2, <4>3, <4>4, <4>5, <4>6
    <3>. QED  BY <2>0, <3>5, <3>6, <3>8, <3>12
  <2>2. CASE ~(PackDriverLooksOK(zip) /\ HashesFit(zip))
    <3>1. object' = object /\ loaded' = loaded
      BY <2>2 DEF LoadZip
    <3>. QED  BY <3>1, SessionDistinct DEF PacksInv
  <2>. QED  BY <2>1, <2>2
<1>. QED
  <2>1. Distinct(Names(SessionPacks))'
    BY <1>4 DEF Distinct, Names, SessionPacks, Mapped
  <2>. QED  BY <1>2, <1>3, <1>4, <2>1 DEF PacksKeep, PacksInv

LEMMA AttachISOKeeps ==
    ASSUME PacksInv, NEW n \in Elems(loaded), NEW i \in DOMAIN object[n].editions,
           NEW image \in OwnImages, AttachISO(n, i, image)
    PROVE  PacksKeep
<1>. DEFINE p == object[n]
            e == p.editions[i]
            fits == HashFits(e.pin, image)
            path == IF fits THEN <<"own", image>> ELSE None
            found == IF fits THEN image ELSE None
            e2 == [e EXCEPT !.path = path, !.image = found]
            t == [p.editions EXCEPT ![i] = e2]
            p2 == [p EXCEPT !.editions = t]
<1>1. /\ n \in DOMAIN object /\ p \in Packs
      /\ Len(object) \in Nat /\ DOMAIN object = 1 .. Len(object)
  BY ObjectIs
<1>2. object' = [object EXCEPT ![n] = p2]
  <2>1. object' = [object EXCEPT ![n].editions[i].path = path,
                                 ![n].editions[i].image = found]
    BY DEF AttachISO
  <2>2. p2 = [p EXCEPT !.editions[i].path = path, !.editions[i].image = found]
    <3>1. DOMAIN p = {"id", "secureBoot", "editions"}
      BY <1>1 DEF Packs
    <3>. QED  BY <3>1
  <2>. QED  BY <1>1, <2>1, <2>2
<1>3. UNCHANGED <<loaded, files, cache>>
  BY DEF AttachISO
<1>4. /\ p \in [id : PackIds, secureBoot : BOOLEAN, editions : Seq(PackEditions)]
      /\ p.id \in Ids /\ ~ReservedPackID(p.id) /\ Distinct(Names(p.editions))
      /\ \A x \in Elems(p.editions) : x.path = None <=> x.image = None
  BY <1>1 DEF Packs
<1>5. p.editions \in Seq(PackEditions) /\ e \in PackEditions
  BY <1>4, LenProperties
<1>6. path \in {None} \cup Places /\ found \in {None} \cup DOMAIN Size
      /\ (path = None <=> found = None)
  <2>1. image \in DOMAIN Size /\ None \notin DOMAIN Size /\ None \notin Places
    BY ZipsAssumption, SizeAssumption
  <2>2. <<"own", image>> \in Places
    BY <2>1 DEF Places
  <2>. QED  BY <2>1, <2>2
<1>. HIDE DEF path, found
<1>7. e2 \in PackEditions /\ e2.id = e.id /\ (e2.path = None <=> e2.image = None)
  BY <1>5, <1>6 DEF PackEditions
<1>8. /\ t \in Seq(PackEditions) /\ DOMAIN t = DOMAIN p.editions
      /\ \A k \in DOMAIN t : t[k] = IF k = i THEN e2 ELSE p.editions[k]
  BY <1>5, <1>7, ExceptSeq
<1>9. Distinct(Names(t)) /\ \A x \in Elems(t) : x.path = None <=> x.image = None
  <2>1. \A k \in DOMAIN t : t[k].id = p.editions[k].id
    BY <1>7, <1>8
  <2>2. \A k, l \in DOMAIN t : t[k].id = t[l].id => k = l
    BY <1>4, <1>8, <2>1, NamesDistinct
  <2>3. \A k \in DOMAIN t : t[k].path = None <=> t[k].image = None
    BY <1>4, <1>7, <1>8 DEF Elems
  <2>. QED  BY <2>2, <2>3, NamesDistinct DEF Elems
<1>10. p2 \in Packs /\ p2.id = p.id
  <2>. HIDE DEF t
  <2>1. /\ p2.id = p.id /\ p2.editions = t
        /\ p2 \in [id : PackIds, secureBoot : BOOLEAN, editions : Seq(PackEditions)]
    BY <1>4, <1>8
  <2>. QED  BY <1>4, <1>9, <2>1 DEF Packs
<1>. HIDE DEF p2
<1>11. /\ object' \in Seq(Packs) /\ DOMAIN object' = DOMAIN object
       /\ \A k \in DOMAIN object : object'[k].id = object[k].id
  <2>1. object \in Seq(Packs)
    BY DEF PacksInv
  <2>2. /\ object' \in Seq(Packs) /\ DOMAIN object' = DOMAIN object
        /\ \A k \in DOMAIN object : object'[k] = IF k = n THEN p2 ELSE object[k]
    BY <1>1, <1>2, <1>10, <2>1, ExceptSeq
  <2>. QED  BY <1>10, <2>2
<1>12. Distinct(Names(SessionPacks))'
  <2>1. \A k, l \in DOMAIN loaded : object[loaded[k]].id = object[loaded[l]].id => k = l
    BY SessionDistinct DEF PacksInv
  <2>2. \A k \in DOMAIN loaded : loaded[k] \in DOMAIN object
    BY ObjectIs DEF Elems
  <2>3. \A k, l \in DOMAIN loaded' :
           object'[loaded'[k]].id = object'[loaded'[l]].id => k = l
    BY <1>3, <1>11, <2>1, <2>2
  <2>. QED  BY <2>3 DEF Distinct, Names, SessionPacks, Mapped
<1>. QED  BY <1>3, <1>11, <1>12 DEF PacksKeep, PacksInv

LEMMA RemovePackKeeps ==
    ASSUME PacksInv, NEW id, RemovePack(id)
    PROVE  PacksKeep
<1>1. loaded' = LoadedWithout(id) /\ UNCHANGED <<object, files, cache>>
  BY DEF RemovePack
<1>2. /\ IsList(loaded') /\ Elems(loaded') \subseteq Elems(loaded)
      /\ \A i, j \in DOMAIN loaded' :
            object[loaded'[i]].id = object[loaded'[j]].id => i = j
  <2>. DEFINE t == LoadedWithout(id)
  <2>1. /\ IsList(t) /\ Elems(t) \subseteq Elems(loaded)
        /\ \A k \in Elems(t) : object[k].id # id
        /\ \A i, j \in DOMAIN t : object[t[i]].id = object[t[j]].id => i = j
    BY WithoutIs
  <2>. QED  BY <1>1, <2>1
<1>3. loaded' \in Seq(DOMAIN object')
  BY <1>1, <1>2, ObjectIs, ListInSeq
<1>4. Distinct(Names(SessionPacks))'
  BY <1>1, <1>2 DEF Distinct, Names, SessionPacks, Mapped
<1>. QED  BY <1>1, <1>3, <1>4 DEF PacksKeep, PacksInv

LEMMA PackRequestKeeps ==
    ASSUME PacksInv, PackRequest
    PROVE  PacksKeep
<1>1. CASE \E zip \in Zips : LoadZip(zip)
  BY <1>1, LoadZipKeeps
<1>2. CASE \E n \in Elems(loaded) : \E i \in DOMAIN object[n].editions :
              \E image \in OwnImages : AttachISO(n, i, image)
  BY <1>2, AttachISOKeeps
<1>3. CASE \E id \in Ids : RemovePack(id)
  BY <1>3, RemovePackKeeps
<1>. QED  BY <1>1, <1>2, <1>3 DEF PackRequest
-----------------------------------------------------------------------------
(* The job and the stick it leaves.                                        *)

RequestIds == {object[n].id : n \in Elems(request.packs)}

\* The images and extras of a shop lie where its catalog says.
HasImages(place, shop) ==
    LET locals == {l[2] : l \in LocalEditions(shop)}
    IN  /\ DOMAIN place.images = {e.file : e \in locals}
        /\ \A e \in locals :
              /\ place.images[e.file] = e.image
              /\ \A x \in Elems(e.extras) : <<e.file, x.name>> \in DOMAIN place.extras

\* The packs of a shop have a driver, some zip's of that id.
HasDrivers(custom, shop, ids) ==
    /\ DOMAIN custom = ids \cap {r.id : r \in Elems(shop.recommended)}
    /\ \A id \in DOMAIN custom :
          \E z \in Zips : z.id = id /\ z.driver # None /\ custom[id] = z.driver

JobInv ==
    /\ step \in {"idle", "fetch", "stage", "packs", "format"}
    /\ (step = "idle") <=> (request = NoRequest)
    /\ IsList(request.packs) /\ Elems(request.packs) \subseteq DOMAIN object
    /\ DOMAIN tree = {"images", "extras", "custom"}
    /\ step # "idle" => Built(request.ticks, request.shop, RequestIds)
    /\ step = "stage" => DOMAIN isos = {e.file : e \in Locals}
    /\ step \in {"packs", "format"} =>
          /\ HasImages(tree, request.shop)
          /\ tree.extras = [at \in StagedExtras |-> ExtraImage(at)]
    /\ step = "format" => HasDrivers(tree.custom, request.shop, RequestIds)

StickInv ==
    stick # None => \E ids :
        /\ Built(stick.ticks,
                 [recommended |-> stick.recommended, catalog |-> stick.catalog], ids)
        /\ HasImages(stick, stick)
        /\ HasDrivers(stick.custom, stick, ids)

IInv == PacksInv /\ JobInv /\ StickInv

LEMMA EmptyIs == IsList(<< >>) /\ Elems(<< >>) = {} /\ DOMAIN << >> = {}
<1>1. DOMAIN << >> = {}
  OBVIOUS
<1>2. Elems(<< >>) = {}
  BY <1>1 DEF Elems
<1>. QED  BY <1>1, <1>2, EmptySeq DEF IsList

LEMMA InitOK ==
    ASSUME Init
    PROVE  IInv
<1>1. /\ object = << >> /\ loaded = << >> /\ files = [id \in Ids |-> None]
      /\ cache = [f \in FileNames |-> None]
      /\ step = "idle" /\ request = NoRequest /\ tree = EmptyTree /\ stick = None
  BY DEF Init, PacksInit
<1>2. PacksInv
  <2>1. object \in Seq(Packs) /\ loaded \in Seq(DOMAIN object)
    BY <1>1, EmptySeq
  <2>2. Distinct(Names(SessionPacks))
    BY <1>1, EmptyIs, SessionDistinct
  <2>. QED  BY <1>1, <2>1, <2>2 DEF PacksInv
<1>3. JobInv
  <2>1. request.packs = << >>
    BY <1>1 DEF NoRequest
  <2>2. DOMAIN tree = {"images", "extras", "custom"}
    BY <1>1 DEF EmptyTree
  <2>. QED  BY <1>1, <2>1, <2>2, EmptyIs DEF JobInv
<1>. QED  BY <1>1, <1>2, <1>3 DEF IInv, StickInv

LEMMA PacksStay ==
    ASSUME PacksInv, UNCHANGED packVars, cache' = cache
    PROVE  PacksInv'
<1>1. object' = object /\ loaded' = loaded /\ files' = files
  BY DEF packVars
<1>2. SessionPacks' = SessionPacks
  BY <1>1 DEF SessionPacks, Mapped
<1>. QED  BY <1>1, <1>2 DEF PacksInv

LEMMA StickStays ==
    ASSUME StickInv, UNCHANGED stick
    PROVE  StickInv'
  BY DEF StickInv

\* The packs may change under a job: what it took stays what it took.
LEMMA JobStays ==
    ASSUME JobInv, UNCHANGED jobVars,
           \A n \in DOMAIN object : n \in DOMAIN object' /\ object'[n].id = object[n].id
    PROVE  JobInv'
<1>1. /\ step' = step /\ request' = request /\ isos' = isos /\ tree' = tree
  BY DEF jobVars
<1>2. Elems(request.packs) \subseteq DOMAIN object
  BY DEF JobInv
<1>3. RequestIds' = RequestIds
  BY <1>1, <1>2 DEF RequestIds
<1>4. Locals' = Locals /\ StagedExtras' = StagedExtras
      /\ \A at : ExtraImage(at)' = ExtraImage(at)
  BY <1>1 DEF Locals, StagedExtras, ExtraImage
<1>5. [at \in StagedExtras |-> ExtraImage(at)]' = [at \in StagedExtras |-> ExtraImage(at)]
  BY <1>1 DEF Locals, StagedExtras, ExtraImage
<1>6. IsList(request.packs)' /\ (Elems(request.packs) \subseteq DOMAIN object)'
  BY <1>1, <1>2 DEF JobInv
<1>. QED  BY <1>1, <1>3, <1>4, <1>5, <1>6 DEF JobInv

LEMMA NoJobIs ==
    ASSUME NoJob
    PROVE  JobInv'
<1>1. step' = "idle" /\ request' = NoRequest /\ tree' = EmptyTree
  BY DEF NoJob
<1>2. request'.packs = << >>
  BY <1>1 DEF NoRequest
<1>3. DOMAIN tree' = {"images", "extras", "custom"}
  BY <1>1 DEF EmptyTree
<1>. QED  BY <1>1, <1>2, <1>3, EmptyIs DEF JobInv

LEMMA PackRequestOK ==
    ASSUME IInv, PackRequest, UNCHANGED <<jobVars, stick>>
    PROVE  IInv'
<1>1. PacksKeep
  BY PackRequestKeeps DEF IInv
<1>2. JobInv'
  BY <1>1, JobStays DEF IInv, PacksKeep
<1>. QED  BY <1>1, <1>2, StickStays DEF IInv, PacksKeep

LEMMA StartOK ==
    ASSUME IInv, NEW ticks \in TickLists, Start(ticks)
    PROVE  IInv'
<1>1. /\ CanBuildShop(ticks, SessionPacks) /\ step' = "fetch"
      /\ request' = [ticks |-> ticks, shop |-> BuildShop(ticks, SessionPacks),
                     packs |-> loaded]
      /\ stick' = None /\ UNCHANGED <<packVars, cache, isos, tree>>
  BY DEF Start
<1>2. PacksInv'
  BY <1>1, PacksStay DEF IInv
<1>3. JobInv'
  <2>1. /\ request'.ticks = ticks /\ request'.packs = loaded
        /\ request'.shop = BuildShop(ticks, SessionPacks)
    BY <1>1
  <2>2. request' # NoRequest
    BY <1>1, <2>1 DEF NoRequest, CanBuildShop
  <2>3. object' = object /\ tree' = tree
    BY <1>1 DEF packVars
  <2>4. IsList(loaded) /\ Elems(loaded) \subseteq DOMAIN object
    BY ObjectIs DEF IInv
  <2>5. Built(ticks, BuildShop(ticks, SessionPacks), {object[n].id : n \in Elems(loaded)})
    BY <1>1, SessionIs DEF Built, IInv
  <2>6. RequestIds' = {object[n].id : n \in Elems(loaded)}
    BY <2>1, <2>3 DEF RequestIds
  <2>7. DOMAIN tree' = {"images", "extras", "custom"}
    BY <2>3 DEF IInv, JobInv
  <2>8. Built(request.ticks, request.shop, RequestIds)'
    BY <2>1, <2>5, <2>6
  <2>. QED  BY <1>1, <2>1, <2>2, <2>3, <2>4, <2>7, <2>8 DEF JobInv
<1>. QED  BY <1>1, <1>2, <1>3 DEF IInv, StickInv

\* The official image of a file name is that of an edition of the catalog.
LEMMA FirstFileIs ==
    ASSUME NEW editions, IsList(editions), NEW f,
           \E e \in Elems(editions) : e.filename = f
    PROVE  /\ FirstFile(editions, f) \in Elems(editions)
           /\ FirstFile(editions, f).filename = f
<1>. DEFINE P == {i \in DOMAIN editions : editions[i].filename = f}
<1>1. PICK n \in Nat : DOMAIN editions = 1 .. n
  BY ListIs
<1>2. P \in SUBSET (1 .. n) /\ P # {}
  BY <1>1 DEF Elems
<1>3. FirstFile(editions, f) = FirstOf(editions, P)
  BY DEF FirstFile
<1>4. PICK i \in P : FirstOf(editions, P) = editions[i]
  <2>. HIDE DEF P
  <2>. QED  BY <1>2, FirstOfIs
<1>. QED  BY <1>3, <1>4 DEF Elems

LEMMA WithFileIs ==
    ASSUME NEW s, IsList(s), NEW f,
           \E r \in Elems(s) : \E e \in Elems(r.editions) : e.filename = f
    PROVE  /\ WithFile(s, f) \in Elems(s)
           /\ \E e \in Elems(WithFile(s, f).editions) : e.filename = f
<1>. DEFINE P == {i \in DOMAIN s : \E e \in Elems(s[i].editions) : e.filename = f}
<1>1. PICK n \in Nat : DOMAIN s = 1 .. n
  BY ListIs
<1>2. P \in SUBSET (1 .. n) /\ P # {}
  <2>1. PICK r \in Elems(s) : \E e \in Elems(r.editions) : e.filename = f
    OBVIOUS
  <2>2. PICK i \in DOMAIN s : s[i] = r
    BY ListIs
  <2>3. i \in P
    BY <2>1, <2>2
  <2>. QED  BY <1>1, <2>3
<1>3. WithFile(s, f) = FirstOf(s, P)
  BY DEF WithFile
<1>4. PICK i \in P : FirstOf(s, P) = s[i]
  <2>. HIDE DEF P
  <2>. QED  BY <1>2, FirstOfIs
<1>5. s[i] \in Elems(s)
  BY DEF Elems
<1>. QED  BY <1>3, <1>4, <1>5

LEMMA OfficialEditionIs ==
    ASSUME NEW f \in OfficialFiles
    PROVE  \E d \in Elems(Official) : /\ OfficialEdition(f) \in Elems(d.editions)
                                      /\ OfficialEdition(f).filename = f
<1>1. \E r \in Elems(Official) : \E e \in Elems(r.editions) : e.filename = f
  BY DEF OfficialFiles
<1>2. IsList(Official)
  BY OfficialAssumption
<1>. DEFINE d == WithFile(Official, f)
<1>3. d \in Elems(Official) /\ \E e \in Elems(d.editions) : e.filename = f
  BY <1>1, <1>2, WithFileIs
<1>4. IsList(d.editions)
  BY <1>3, OfficialIs
<1>. HIDE DEF d
<1>5. /\ FirstFile(d.editions, f) \in Elems(d.editions)
      /\ FirstFile(d.editions, f).filename = f
  BY <1>3, <1>4, FirstFileIs
<1>. QED  BY <1>3, <1>5 DEF OfficialEdition, d

LEMMA FetchImagesOK ==
    ASSUME IInv, FetchImages
    PROVE  IInv'
<1>. DEFINE wanted == {e.file : e \in Locals}
<1>1. /\ step = "fetch" /\ step' = "stage"
      /\ cache' = [f \in FileNames |-> IF f \in wanted \cap OfficialFiles
                                       THEN OfficialEdition(f).image ELSE cache[f]]
      /\ DOMAIN isos' = wanted
      /\ UNCHANGED <<packVars, request, tree, stick>>
  BY DEF FetchImages
<1>2. cache' \in [FileNames -> {None} \cup DOMAIN Size]
  <2>1. cache \in [FileNames -> {None} \cup DOMAIN Size]
    BY DEF IInv, PacksInv
  <2>2. \A f \in OfficialFiles : OfficialEdition(f).image \in {None} \cup DOMAIN Size
    BY OfficialEditionIs, SizeAssumption
  <2>. HIDE DEF wanted
  <2>. QED  BY <1>1, <2>1, <2>2
<1>3. PacksInv'
  <2>1. object' = object /\ loaded' = loaded /\ files' = files
    BY <1>1 DEF packVars
  <2>2. SessionPacks' = SessionPacks
    BY <2>1 DEF SessionPacks, Mapped
  <2>. QED  BY <1>2, <2>1, <2>2 DEF IInv, PacksInv
<1>4. JobInv'
  <2>1. object' = object /\ request' = request /\ tree' = tree
    BY <1>1 DEF packVars
  <2>2. Locals' = Locals /\ RequestIds' = RequestIds
    BY <2>1 DEF Locals, RequestIds
  <2>3. DOMAIN isos' = {e.file : e \in Locals'}
    BY <1>1, <2>2
  <2>. QED  BY <1>1, <2>1, <2>2, <2>3 DEF IInv, JobInv
<1>5. StickInv'
  BY <1>1, StickStays DEF IInv
<1>. QED  BY <1>3, <1>4, <1>5 DEF IInv

LEMMA StageImagesOK ==
    ASSUME IInv, StageImages
    PROVE  IInv'
<1>1. /\ step = "stage" /\ step' = "packs"
      /\ \A e \in Locals : ContentAt(isos[e.file]) = e.image
      /\ tree' = [tree EXCEPT !.images = [f \in DOMAIN isos |-> ContentAt(isos[f])],
                              !.extras = [at \in StagedExtras |-> ExtraImage(at)]]
      /\ UNCHANGED <<packVars, cache, request, isos, stick>>
  BY DEF StageImages
<1>2. PacksInv' /\ StickInv'
  BY <1>1, PacksStay, StickStays DEF IInv
<1>3. /\ object' = object /\ request' = request
      /\ Locals' = Locals /\ RequestIds' = RequestIds /\ StagedExtras' = StagedExtras
  BY <1>1 DEF packVars, Locals, RequestIds, StagedExtras
<1>4. [at \in StagedExtras |-> ExtraImage(at)]' = [at \in StagedExtras |-> ExtraImage(at)]
  BY <1>3 DEF Locals, StagedExtras, ExtraImage
<1>5. DOMAIN tree = {"images", "extras", "custom"} /\ DOMAIN isos = {e.file : e \in Locals}
  BY <1>1 DEF IInv, JobInv
<1>6. /\ DOMAIN tree' = {"images", "extras", "custom"}
      /\ tree'.images = [f \in DOMAIN isos |-> ContentAt(isos[f])]
      /\ tree'.extras = [at \in StagedExtras |-> ExtraImage(at)]
  BY <1>1, <1>5
<1>7. HasImages(tree', request.shop)
  <2>1. DOMAIN tree'.images = {e.file : e \in Locals}
    BY <1>5, <1>6
  <2>2. \A e \in Locals : tree'.images[e.file] = e.image
    BY <1>1, <1>5, <1>6
  <2>3. \A e \in Locals : \A x \in Elems(e.extras) : <<e.file, x.name>> \in DOMAIN tree'.extras
    <3>1. DOMAIN tree'.extras = StagedExtras
      BY <1>6
    <3>. SUFFICES ASSUME NEW e \in Locals, NEW x \in Elems(e.extras)
                  PROVE  <<e.file, x.name>> \in StagedExtras
      BY <3>1
    <3>. DEFINE Of(l) == {<<l.file, y.name>> : y \in Elems(l.extras)}
    <3>2. <<e.file, x.name>> \in Of(e) /\ Of(e) \in {Of(l) : l \in Locals}
      OBVIOUS
    <3>3. StagedExtras = UNION {Of(l) : l \in Locals}
      BY DEF StagedExtras
    <3>. HIDE DEF Of
    <3>. QED  BY <3>2, <3>3
  <2>. QED  BY <2>1, <2>2, <2>3 DEF HasImages, Locals
<1>8. Built(request.ticks, request.shop, RequestIds)
  BY <1>1 DEF IInv, JobInv
<1>9. JobInv'
  <2>1. HasImages(tree, request.shop)'
    BY <1>3, <1>7
  <2>2. Built(request.ticks, request.shop, RequestIds)'
    BY <1>3, <1>8
  <2>3. (tree.extras = [at \in StagedExtras |-> ExtraImage(at)])'
    BY <1>4, <1>6
  <2>. QED  BY <1>1, <1>3, <1>6, <2>1, <2>2, <2>3 DEF IInv, JobInv
<1>. QED  BY <1>2, <1>9 DEF IInv

LEMMA CopyPacksOK ==
    ASSUME IInv, CopyPacks
    PROVE  IInv'
<1>1. /\ step = "packs" /\ step' = "format"
      /\ \A id \in PacksOnStick : files[id] # None
      /\ tree' = [tree EXCEPT !.custom = [id \in PacksOnStick |-> files[id]]]
      /\ UNCHANGED <<packVars, cache, request, isos, stick>>
  BY DEF CopyPacks
<1>2. PacksInv' /\ StickInv'
  BY <1>1, PacksStay, StickStays DEF IInv
<1>3. /\ object' = object /\ request' = request
      /\ Locals' = Locals /\ RequestIds' = RequestIds /\ StagedExtras' = StagedExtras
  BY <1>1 DEF packVars, Locals, RequestIds, StagedExtras
<1>4. [at \in StagedExtras |-> ExtraImage(at)]' = [at \in StagedExtras |-> ExtraImage(at)]
  BY <1>3 DEF Locals, StagedExtras, ExtraImage
<1>5. /\ DOMAIN tree = {"images", "extras", "custom"} /\ HasImages(tree, request.shop)
      /\ tree.extras = [at \in StagedExtras |-> ExtraImage(at)]
      /\ Built(request.ticks, request.shop, RequestIds)
  BY <1>1 DEF IInv, JobInv
<1>6. /\ DOMAIN tree' = {"images", "extras", "custom"} /\ tree'.images = tree.images
      /\ tree'.extras = tree.extras /\ tree'.custom = [id \in PacksOnStick |-> files[id]]
  BY <1>1, <1>5
<1>7. PacksOnStick = RequestIds \cap {r.id : r \in Elems(request.shop.recommended)}
  <2>1. RequestPacks = [i \in DOMAIN request.packs |-> object[request.packs[i]]]
    BY DEF RequestPacks, Mapped
  <2>2. {p.id : p \in Elems(RequestPacks)} = RequestIds
    BY <2>1 DEF RequestIds, Elems
  <2>. QED  BY <2>2 DEF PacksOnStick
<1>8. RequestIds \subseteq Ids
  BY ObjectIs DEF IInv, JobInv, RequestIds, Packs
<1>9. HasDrivers(tree'.custom, request.shop, RequestIds)
  <2>1. \A id \in PacksOnStick : \E z \in Zips :
            z.id = id /\ z.driver # None /\ files[id] = z.driver
    BY <1>1, <1>7, <1>8 DEF IInv, PacksInv
  <2>. HIDE DEF PacksOnStick
  <2>. QED  BY <1>6, <1>7, <2>1 DEF HasDrivers
<1>10. JobInv'
  <2>1. HasImages(tree, request.shop)'
    BY <1>3, <1>5, <1>6 DEF HasImages
  <2>2. Built(request.ticks, request.shop, RequestIds)'
    BY <1>3, <1>5
  <2>3. (tree.extras = [at \in StagedExtras |-> ExtraImage(at)])'
    BY <1>4, <1>5, <1>6
  <2>4. HasDrivers(tree.custom, request.shop, RequestIds)'
    BY <1>3, <1>9
  <2>. QED  BY <1>1, <1>3, <1>6, <2>1, <2>2, <2>3, <2>4 DEF IInv, JobInv
<1>. QED  BY <1>2, <1>10 DEF IInv

LEMMA FormatOK ==
    ASSUME IInv, Format
    PROVE  IInv'
<1>1. /\ step = "format"
      /\ stick' = [ticks |-> request.ticks, recommended |-> request.shop.recommended,
                   catalog |-> request.shop.catalog, images |-> tree.images,
                   extras |-> tree.extras, custom |-> tree.custom]
      /\ NoJob /\ UNCHANGED <<packVars, cache>>
  BY DEF Format
<1>2. PacksInv' /\ JobInv'
  BY <1>1, PacksStay, NoJobIs DEF IInv
<1>3. /\ Built(request.ticks, request.shop, RequestIds) /\ HasImages(tree, request.shop)
      /\ HasDrivers(tree.custom, request.shop, RequestIds)
  BY <1>1 DEF IInv, JobInv
<1>4. request.shop = [recommended |-> request.shop.recommended,
                      catalog |-> request.shop.catalog]
  BY <1>3 DEF Built, BuildShop
<1>5. /\ stick'.ticks = request.ticks /\ stick'.recommended = request.shop.recommended
      /\ stick'.catalog = request.shop.catalog /\ stick'.images = tree.images
      /\ stick'.extras = tree.extras /\ stick'.custom = tree.custom
  BY <1>1
<1>6. LocalEditions(stick') = LocalEditions(request.shop)
  BY <1>5 DEF LocalEditions
<1>7. HasImages(stick', stick')
  BY <1>3, <1>5, <1>6 DEF HasImages
<1>8. HasDrivers(stick'.custom, stick', RequestIds)
  BY <1>3, <1>5 DEF HasDrivers
<1>9. Built(stick'.ticks,
            [recommended |-> stick'.recommended, catalog |-> stick'.catalog], RequestIds)
  BY <1>3, <1>4, <1>5
<1>10. StickInv'
  BY <1>7, <1>8, <1>9 DEF StickInv
<1>. QED  BY <1>2, <1>10 DEF IInv

LEMMA JobFailsOK ==
    ASSUME IInv, JobFails
    PROVE  IInv'
<1>1. NoJob /\ UNCHANGED <<packVars, cache, stick>>
  BY DEF JobFails
<1>. QED  BY <1>1, NoJobIs, PacksStay, StickStays DEF IInv

LEMMA StutterOK ==
    ASSUME IInv, UNCHANGED vars
    PROVE  IInv'
<1>1. UNCHANGED packVars /\ cache' = cache /\ UNCHANGED jobVars /\ UNCHANGED stick
      /\ object' = object
  BY DEF vars, packVars
<1>. QED  BY <1>1, PacksStay, JobStays, StickStays DEF IInv

THEOREM IInvHolds == Spec => []IInv
<1>1. Init => IInv
  BY InitOK
<1>2. IInv /\ [Next]_vars => IInv'
  <2>. SUFFICES ASSUME IInv, [Next]_vars
                PROVE  IInv'
    OBVIOUS
  <2>1. CASE PackRequest /\ UNCHANGED <<jobVars, stick>>
    BY <2>1, PackRequestOK
  <2>2. CASE \E ticks \in TickLists : Start(ticks)
    BY <2>2, StartOK
  <2>3. CASE Job
    BY <2>3, FetchImagesOK, StageImagesOK, CopyPacksOK, FormatOK, JobFailsOK DEF Job
  <2>4. CASE UNCHANGED vars
    BY <2>4, StutterOK
  <2>. QED  BY <2>1, <2>2, <2>3, <2>4 DEF Next
<1>. QED  BY <1>1, <1>2, PTL DEF Spec

\* The state has its shape: an edition has a path and an image or neither, the
\* packs of the session have distinct ids, every pack a job took was loaded,
\* and the tree holds the files of the editions to stage (server.go, pack.go
\* and compose.go).
THEOREM TypeOKHolds == Spec => []TypeOK
<1>1. IInv => TypeOK
  <2>. SUFFICES ASSUME IInv PROVE TypeOK
    OBVIOUS
  <2>1. /\ IsList(loaded) /\ Elems(loaded) \subseteq DOMAIN object
        /\ \A n \in DOMAIN object : object[n] \in Packs
    BY ObjectIs DEF IInv
  <2>2. \A p \in Elems(object) : \A e \in Elems(p.editions) :
           e.path \in {None} \cup Places /\ (e.path = None <=> e.image = None)
    <3>. SUFFICES ASSUME NEW p \in Packs, NEW e \in Elems(p.editions)
                  PROVE  e.path \in {None} \cup Places /\ (e.path = None <=> e.image = None)
      BY <2>1 DEF Elems
    <3>1. /\ p.editions \in Seq(PackEditions)
          /\ \A x \in Elems(p.editions) : x.path = None <=> x.image = None
      BY DEF Packs
    <3>2. e \in PackEditions
      BY <3>1, SeqIsList
    <3>. QED  BY <3>1, <3>2 DEF PackEditions
  <2>3. step \in {"packs", "format"} => DOMAIN tree.images = {e.file : e \in Locals}
    BY DEF IInv, JobInv, HasImages, Locals
  <2>4. /\ Elems(request.packs) \subseteq DOMAIN object
        /\ step \in {"idle", "fetch", "stage", "packs", "format"}
        /\ (step = "idle") <=> (request = NoRequest)
    BY DEF IInv, JobInv
  <2>5. /\ Distinct(Names(SessionPacks))
        /\ cache \in [FileNames -> {None} \cup DOMAIN Size]
    BY DEF IInv, PacksInv
  <2>. QED  BY <2>1, <2>2, <2>3, <2>4, <2>5 DEF TypeOK
<1>. QED  BY <1>1, IInvHolds, PTL
-----------------------------------------------------------------------------
(* The rows of a shop, as the chooser reads them.                          *)

\* The creator's names for packs and images are those the chooser reads
\* (schemas/README.md).  The code takes a few more: "a--b" and "X.ISO".
SameNames == PackIds = KebabIds /\ IsoNames = PlainImages

\* The driver in a pack is one for the id of the pack (schemas/README.md).
OwnDrivers == \A z \in Zips : z.driver # None => z.driver.exports = z.id

\* A row the chooser takes, whose editions are on the stick or have a url, and
\* which has on the stick what was ticked of it.
RowStands(r, ticks) ==
    /\ RowLoads(r) /\ IsList(r.editions)
    /\ \A e \in Elems(r.editions) : ~e.local => e.url # None
    /\ \A y : (\E e \in Elems(r.editions) : e.id = y /\ e.local)
                 <=> <<r.id, y>> \in Elems(ticks)

LEMMA OneDefault ==
    ASSUME NEW editions, Distinct(Names(editions)), NEW id,
           \A e \in Elems(editions) : e.default <=> e.id = id,
           \E e \in Elems(editions) : e.id = id
    PROVE  Cardinality({e \in Elems(editions) : e.default}) = 1
<1>1. PICK e \in Elems(editions) : e.id = id
  OBVIOUS
<1>2. \A i, j \in DOMAIN editions : editions[i].id = editions[j].id => i = j
  BY NamesDistinct
<1>3. \A x \in Elems(editions) : x.default <=> x = e
  BY <1>1, <1>2 DEF Elems
<1>4. {x \in Elems(editions) : x.default} = {e}
  BY <1>1, <1>3
<1>. QED  BY <1>4, FS_Singleton

LEMMA ShopExtrasAre ==
    ASSUME NEW e, IsList(e.extras), Distinct(Mapped(e.extras, LAMBDA x : x.name))
    PROVE  /\ IsList(ShopExtras(e)) /\ Elems(ShopExtras(e)) \subseteq Elems(e.extras)
           /\ Distinct(Mapped(ShopExtras(e), LAMBDA x : x.name))
<1>. DEFINE P == {i \in DOMAIN e.extras : None \notin {e.extras[i].url, e.extras[i].image}}
            s == e.extras
            t == Those(s, P)
            m == Cardinality(P)
<1>1. ShopExtras(e) = t
  BY DEF ShopExtras
<1>2. PICK n \in Nat : DOMAIN s = 1 .. n
  BY ListIs
<1>3. P \in SUBSET (1 .. n) /\ P \in SUBSET DOMAIN s
  BY <1>2
<1>. HIDE DEF P
<1>4. IsList(t) /\ Elems(t) = {s[i] : i \in P} /\ Elems(t) \subseteq Elems(s)
  <2>. HIDE DEF s
  <2>1. IsList(s)
    BY DEF s
  <2>. QED  BY <1>3, <2>1, ThoseList
<1>5. PICK at \in [1 .. m -> P] :
         /\ \A k, l \in 1 .. m : at[k] = at[l] => k = l
         /\ \A k \in 1 .. m : t[k] = s[at[k]]
  <2>. HIDE DEF s
  <2>1. ListsAt(Those(s, P), s, P)
    BY <1>2, <1>3, ThoseIs
  <2>. QED  BY <2>1 DEF ListsAt
<1>6. DOMAIN t = 1 .. m
  BY DEF Those
<1>7. \A i, j \in DOMAIN s : s[i].name = s[j].name => i = j
  BY DEF Distinct, Mapped
<1>. HIDE DEF t, s
<1>8. \A k, l \in DOMAIN t : t[k].name = t[l].name => k = l
  BY <1>3, <1>5, <1>6, <1>7
<1>9. Distinct(Mapped(t, LAMBDA x : x.name))
  BY <1>8 DEF Distinct, Mapped
<1>. QED  BY <1>1, <1>4, <1>9 DEF s

LEMMA OfficialRowStands ==
    ASSUME NEW ticks \in TickLists, Distinct(ticks), NEW r, NEW d, NEW selected,
           OfficialRow(r, d, selected),
           \A y : y \in Elems(selected) <=> <<d.id, y>> \in Elems(ticks)
    PROVE  RowStands(r, ticks)
<1>1. /\ d \in Elems(Official) /\ Offerable(d) /\ SelectionOK(d.editions, selected)
      /\ FeaturedIsPinned(d, selected)
  BY DEF OfficialRow
<1>2. /\ r.id = d.id /\ r.install = d.install
      /\ IsList(r.editions) /\ Distinct(Names(r.editions))
      /\ \A e \in Elems(r.editions) : \E x \in Elems(d.editions) :
            /\ Pinned(x) /\ e = OfficialEditionRow(d, x, selected)
            /\ InstallFor(r, e) = x.install /\ x.install \in Drivers \cap KebabIds
            /\ x.filename \in PlainImages
      /\ \A x \in Elems(d.editions) :
            Pinned(x) => OfficialEditionRow(d, x, selected) \in Elems(r.editions)
  BY OfficialEditions
<1>3. /\ Has(Official, d.id) /\ Row(Official, d.id) = d
      /\ \A e \in Elems(d.editions) : Has(d.editions, e.id) /\ Row(d.editions, e.id) = e
  BY <1>1, OfficialIs
\* What is ticked can be staged.
<1>4. \A x \in Elems(d.editions) : x.id \in Elems(selected) => CanStageEdition(d, x)
  <2>. SUFFICES ASSUME NEW x \in Elems(d.editions), x.id \in Elems(selected)
                PROVE  CanStageEdition(d, x)
    OBVIOUS
  <2>1. <<d.id, x.id>> \in Ticks
    BY TickListsOK
  <2>2. \A z \in Zips : ~ReservedPackID(z.id) => z.id # d.id
    BY <1>3 DEF ReservedPackID
  <2>3. <<d.id, x.id>> \in OfficialTicks
    BY <2>1, <2>2 DEF Ticks
  <2>4. \E d2 \in Elems(Official) : \E x2 \in Elems(d2.editions) :
           CanStageEdition(d2, x2) /\ d2.id = d.id /\ x2.id = x.id
    <3>. DEFINE Of(o) == {<<o.id, y.id>> : y \in {z \in Elems(o.editions) :
                                                     CanStageEdition(o, z)}}
    <3>1. OfficialTicks = UNION {Of(o) : o \in {q \in Elems(Official) : Offerable(q)}}
      BY DEF OfficialTicks
    <3>2. PICK d2 \in Elems(Official) : <<d.id, x.id>> \in Of(d2)
      <4>. HIDE DEF Of
      <4>. QED  BY <2>3, <3>1
    <3>3. PICK x2 \in Elems(d2.editions) :
             CanStageEdition(d2, x2) /\ <<d.id, x.id>> = <<d2.id, x2.id>>
      BY <3>2
    <3>4. d2.id = d.id /\ x2.id = x.id
      BY <3>3
    <3>. QED  BY <3>3, <3>4
  <2>5. PICK d2 \in Elems(Official) : d2.id = d.id /\ \E x2 \in Elems(d2.editions) :
           CanStageEdition(d2, x2) /\ x2.id = x.id
    BY <2>4
  <2>6. d2 = d
    BY <1>3, <2>5, OfficialIs
  <2>7. PICK x2 \in Elems(d.editions) : CanStageEdition(d, x2) /\ x2.id = x.id
    BY <2>5, <2>6
  <2>8. x2 = x
    BY <1>3, <2>7
  <2>. QED  BY <2>7, <2>8
<1>5. \A x \in Elems(d.editions) : \A e :
         e = OfficialEditionRow(d, x, selected) =>
            /\ e.id = x.id /\ (e.default <=> e.id = FeaturedEdition(d, selected))
            /\ e.local <=> x.id \in Elems(selected)
            /\ e.local => e.file = x.filename
            /\ ~e.local => e.file = None /\ e.url = x.url
            /\ e.install \in {None, x.install} /\ e.extras = ShopExtras(x)
  <2>. SUFFICES ASSUME NEW x \in Elems(d.editions), NEW e,
                       e = OfficialEditionRow(d, x, selected)
                PROVE  /\ e.id = x.id /\ (e.default <=> e.id = FeaturedEdition(d, selected))
                       /\ e.local <=> x.id \in Elems(selected)
                       /\ e.local => e.file = x.filename
                       /\ ~e.local => e.file = None /\ e.url = x.url
                       /\ e.install \in {None, x.install} /\ e.extras = ShopExtras(x)
    OBVIOUS
  <2>. DEFINE local == x.id \in Elems(selected) /\ CanStageEdition(d, x)
              featured == x.id = FeaturedEdition(d, selected)
              override == InstallOverride(d, x)
  <2>1. e = [id |-> x.id, default |-> featured, local |-> local, install |-> override,
             file |-> IF local THEN x.filename ELSE None,
             url |-> IF local THEN None ELSE x.url,
             image |-> x.image, extras |-> ShopExtras(x)]
    BY DEF OfficialEditionRow
  <2>2. override \in {None, x.install}
    BY DEF InstallOverride
  <2>3. local <=> x.id \in Elems(selected)
    BY <1>4
  <2>. HIDE DEF local, featured, override
  <2>4. /\ e.id = x.id /\ e.default = featured /\ e.local = local
        /\ e.install = override /\ e.extras = ShopExtras(x)
    BY <2>1
  <2>5. /\ e.file = IF local THEN x.filename ELSE None
        /\ e.url = IF local THEN None ELSE x.url
    BY <2>1
  <2>6. e.default <=> e.id = FeaturedEdition(d, selected)
    BY <2>4, Zenon DEF featured
  <2>7. (e.local <=> local) /\ (e.local <=> x.id \in Elems(selected))
    BY <2>3, <2>4, Zenon
  <2>8. /\ e.local => e.file = x.filename
        /\ ~e.local => e.file = None /\ e.url = x.url
    BY <2>5, <2>7, Zenon
  <2>. QED  BY <2>2, <2>4, <2>6, <2>7, <2>8
<1>6. \A e \in Elems(r.editions) : EditionLoads(e) /\ (~e.local => e.url # None)
  <2>. SUFFICES ASSUME NEW e \in Elems(r.editions)
                PROVE  EditionLoads(e) /\ (~e.local => e.url # None)
    OBVIOUS
  <2>1. PICK x \in Elems(d.editions) :
           /\ Pinned(x) /\ e = OfficialEditionRow(d, x, selected)
           /\ x.install \in Drivers \cap KebabIds /\ x.filename \in PlainImages
    BY <1>2
  <2>2. x.id \in KebabIds
    BY <1>1, OfficialNames
  <2>3. x.url # None
    BY <2>1 DEF Pinned
  <2>4. Distinct(Mapped(e.extras, LAMBDA y : y.name))
    <3>1. IsList(x.extras) /\ Distinct(Mapped(x.extras, LAMBDA y : y.name))
      BY <1>1, OfficialAssumption
    <3>2. Distinct(Mapped(ShopExtras(x), LAMBDA y : y.name))
      BY <3>1, ShopExtrasAre
    <3>. QED  BY <1>5, <2>1, <3>2
  <2>5. /\ e.id = x.id /\ (e.local => e.file = x.filename)
        /\ ~e.local => e.file = None /\ e.url = x.url
        /\ e.install \in {None, x.install}
    BY <1>5, <2>1
  <2>. QED  BY <2>1, <2>2, <2>3, <2>4, <2>5 DEF EditionLoads
<1>7. \E e \in Elems(r.editions) : e.id = FeaturedEdition(d, selected)
  <2>1. PICK x \in Elems(d.editions) : x.id = FeaturedEdition(d, selected)
    BY <1>1, FeaturedIs
  <2>2. Pinned(x)
    BY <1>1, <1>3, <2>1 DEF FeaturedIsPinned
  <2>. QED  BY <1>2, <1>5, <2>1, <2>2
<1>8. Cardinality({e \in Elems(r.editions) : e.default}) = 1
  <2>1. \A e \in Elems(r.editions) : e.default <=> e.id = FeaturedEdition(d, selected)
    BY <1>2, <1>5
  <2>. QED  BY <1>2, <1>7, <2>1, OneDefault
<1>9. r.editions # << >>
  BY <1>2, <1>7, EmptyList
<1>10. {r.id, r.install} \subseteq KebabIds
  BY <1>1, <1>2, OfficialNames DEF Offerable
<1>11. \A y : (\E e \in Elems(r.editions) : e.id = y /\ e.local)
                 <=> <<r.id, y>> \in Elems(ticks)
  <2>. SUFFICES ASSUME NEW y
                PROVE  (\E e \in Elems(r.editions) : e.id = y /\ e.local)
                          <=> y \in Elems(selected)
    BY <1>2
  <2>1. ASSUME NEW e \in Elems(r.editions), e.id = y, e.local
        PROVE  y \in Elems(selected)
    BY <1>2, <1>5, <2>1
  <2>2. ASSUME y \in Elems(selected)
        PROVE  \E e \in Elems(r.editions) : e.id = y /\ e.local
    <3>1. PICK x \in Elems(d.editions) : x.id = y
      BY <1>1, <2>2 DEF SelectionOK, Has
    <3>2. Pinned(x)
      BY <1>4, <2>2, <3>1 DEF CanStageEdition
    <3>. QED  BY <1>2, <1>5, <2>2, <3>1, <3>2
  <2>. QED  BY <2>1, <2>2
<1>. QED  BY <1>2, <1>6, <1>8, <1>9, <1>10, <1>11 DEF RowStands, RowLoads

LEMMA PackRowStands ==
    ASSUME SameNames, NEW ticks, NEW r, NEW p, NEW selected, PackRow(r, p, selected),
           \A y : y \in Elems(selected) <=> <<p.id, y>> \in Elems(ticks)
    PROVE  RowStands(r, ticks)
<1>1. /\ p \in Packs /\ SelectionOK(p.editions, selected) /\ selected # << >>
  BY DEF PackRow
<1>2. /\ r.id = p.id /\ r.install = p.id
      /\ IsList(r.editions) /\ Distinct(Names(r.editions))
      /\ \A e \in Elems(r.editions) : \E x \in Elems(p.editions) :
            /\ PackCanStage(x) /\ e = PackEditionRow(p, x, selected)
            /\ x.id \in Elems(selected) /\ x \in PackEditions
            /\ InstallFor(r, e) = p.id
      /\ \A id \in Elems(selected) : \E x \in Elems(p.editions) :
            x.id = id /\ PackEditionRow(p, x, selected) \in Elems(r.editions)
  BY PackEditionsAre
<1>3. /\ PackIds = KebabIds /\ IsoNames = PlainImages
  BY DEF SameNames
<1>4. \A x, e : e = PackEditionRow(p, x, selected) =>
         /\ e.id = x.id /\ (e.default <=> e.id = FeaturedEdition(p, selected))
         /\ e.local = TRUE /\ e.file = x.filename /\ e.install = None
         /\ e.extras = << >>
  <2>. SUFFICES ASSUME NEW x, NEW e, e = PackEditionRow(p, x, selected)
                PROVE  /\ e.id = x.id /\ (e.default <=> e.id = FeaturedEdition(p, selected))
                       /\ e.local = TRUE /\ e.file = x.filename /\ e.install = None
                       /\ e.extras = << >>
    OBVIOUS
  <2>. DEFINE featured == x.id = FeaturedEdition(p, selected)
  <2>1. e = [id |-> x.id, default |-> featured, local |-> TRUE, install |-> None,
             file |-> x.filename, url |-> None, image |-> x.image, extras |-> << >>]
    BY DEF PackEditionRow
  <2>. HIDE DEF featured
  <2>2. /\ e.id = x.id /\ e.default = featured /\ e.local = TRUE /\ e.file = x.filename
        /\ e.install = None /\ e.extras = << >>
    BY <2>1
  <2>3. e.default <=> e.id = FeaturedEdition(p, selected)
    BY <2>2, Zenon DEF featured
  <2>. QED  BY <2>2, <2>3
<1>5. \A e \in Elems(r.editions) : EditionLoads(e) /\ e.local /\ e.id \in Elems(selected)
  <2>. SUFFICES ASSUME NEW e \in Elems(r.editions)
                PROVE  EditionLoads(e) /\ e.local /\ e.id \in Elems(selected)
    OBVIOUS
  <2>1. PICK x \in PackEditions : e = PackEditionRow(p, x, selected)
                                  /\ x.id \in Elems(selected)
    BY <1>2
  <2>2. /\ e.id = x.id /\ e.local = TRUE /\ e.file = x.filename /\ e.install = None
        /\ e.extras = << >>
    BY <1>4, <2>1
  <2>3. x.id \in KebabIds /\ x.filename \in PlainImages
    BY <1>3 DEF PackEditions
  <2>4. Distinct(Mapped(e.extras, LAMBDA y : y.name))
    BY <2>2, EmptyIs DEF Distinct, Mapped
  <2>. QED  BY <2>1, <2>2, <2>3, <2>4 DEF EditionLoads
<1>6. FeaturedEdition(p, selected) \in Elems(selected)
  <2>1. CASE DefaultEdition(p).id \in Elems(selected)
    BY <2>1 DEF FeaturedEdition
  <2>2. CASE DefaultEdition(p).id \notin Elems(selected)
    <3>1. IsList(selected)
      BY <1>1 DEF SelectionOK
    <3>2. PICK n \in Nat : DOMAIN selected = 1 .. n /\ Len(selected) = n
      BY <3>1, ListIs
    <3>3. DOMAIN selected # {}
      BY <1>1, <3>1, EmptyList DEF Elems
    <3>4. 1 \in DOMAIN selected
      BY <3>2, <3>3
    <3>5. FeaturedEdition(p, selected) = selected[1]
      BY <1>1, <2>2 DEF FeaturedEdition
    <3>. QED  BY <3>4, <3>5 DEF Elems
  <2>. QED  BY <2>1, <2>2
<1>7. \A y \in Elems(selected) : \E e \in Elems(r.editions) : e.id = y /\ e.local
  BY <1>2, <1>4
<1>8. Cardinality({e \in Elems(r.editions) : e.default}) = 1
  <2>1. \A e \in Elems(r.editions) : e.default <=> e.id = FeaturedEdition(p, selected)
    BY <1>2, <1>4
  <2>. QED  BY <1>2, <1>6, <1>7, <2>1, OneDefault
<1>9. r.editions # << >>
  BY <1>2, <1>6, <1>7, EmptyList
<1>10. {r.id, r.install} \subseteq KebabIds
  BY <1>1, <1>2, <1>3 DEF Packs
<1>11. \A y : (\E e \in Elems(r.editions) : e.id = y /\ e.local)
                 <=> <<r.id, y>> \in Elems(ticks)
  BY <1>2, <1>5, <1>7
<1>. QED  BY <1>2, <1>5, <1>8, <1>9, <1>10, <1>11 DEF RowStands, RowLoads
-----------------------------------------------------------------------------
(* The stick as the chooser reads it.                                      *)

\* What a stick was made of.
StickOf(packs) ==
    /\ packs \in Seq(Packs) /\ stick.ticks \in TickLists
    /\ CanBuildShop(stick.ticks, packs)
    /\ stick.recommended = BuildShop(stick.ticks, packs).recommended
    /\ stick.catalog = BuildShop(stick.ticks, packs).catalog
    /\ HasImages(stick, stick)
    /\ HasDrivers(stick.custom, stick, {p.id : p \in Elems(packs)})

LEMMA StickIs ==
    ASSUME StickInv, stick # None
    PROVE  \E packs : StickOf(packs)
<1>1. PICK ids :
         /\ Built(stick.ticks,
                  [recommended |-> stick.recommended, catalog |-> stick.catalog], ids)
         /\ HasImages(stick, stick)
         /\ HasDrivers(stick.custom, stick, ids)
  BY DEF StickInv
<1>. DEFINE shop == [recommended |-> stick.recommended, catalog |-> stick.catalog]
<1>2. PICK packs \in Seq(Packs) :
         /\ {p.id : p \in Elems(packs)} = ids
         /\ stick.ticks \in TickLists /\ CanBuildShop(stick.ticks, packs)
         /\ shop = BuildShop(stick.ticks, packs)
  BY <1>1 DEF Built
<1>3. shop.recommended = stick.recommended /\ shop.catalog = stick.catalog
  OBVIOUS
<1>. HIDE DEF shop
<1>4. StickOf(packs)
  BY <1>1, <1>2, <1>3 DEF StickOf
<1>. QED  BY <1>4

\* What every row of it is like.
LEMMA StickRows ==
    ASSUME NEW packs, StickOf(packs)
    PROVE  /\ TicksOK(stick.ticks) /\ Distinct(stick.ticks)
           /\ IsList(stick.recommended) /\ Distinct(Names(stick.recommended))
           /\ IsList(stick.catalog) /\ Distinct(Names(stick.catalog))
           /\ \A r \in Elems(stick.recommended) :
                 /\ \E t \in Elems(stick.ticks) : t[1] = r.id
                 /\ \/ \E d \in Elems(Official) :
                          r.id = d.id /\ OfficialRow(r, d, TickedOf(stick.ticks, d.id))
                    \/ \E p \in Elems(packs) :
                          r.id = p.id /\ PackRow(r, p, TickedOf(stick.ticks, p.id))
           /\ \A t \in Elems(stick.ticks) : \E r \in Elems(stick.recommended) : r.id = t[1]
           /\ \A r \in Elems(stick.catalog) :
                 /\ \A t \in Elems(stick.ticks) : t[1] # r.id
                 /\ \E d \in Elems(Official) : r.id = d.id /\ OfficialRow(r, d, << >>)
<1>1. /\ packs \in Seq(Packs) /\ stick.ticks \in TickLists
      /\ CanBuildShop(stick.ticks, packs)
      /\ stick.recommended = BuildShop(stick.ticks, packs).recommended
      /\ stick.catalog = BuildShop(stick.ticks, packs).catalog
  BY DEF StickOf
<1>2. Distinct(stick.ticks)
  BY <1>1 DEF CanBuildShop
<1>3. TicksOK(stick.ticks)
  BY <1>1, <1>2, TickListsOK
<1>. DEFINE ticks == stick.ticks
            rows == stick.recommended
            others == stick.catalog
<1>. HIDE DEF ticks, rows, others
<1>4. ticks \in TickLists /\ CanBuildShop(ticks, packs)
      /\ rows = BuildShop(ticks, packs).recommended
      /\ others = BuildShop(ticks, packs).catalog
  BY <1>1 DEF ticks, rows, others
<1>5. /\ IsList(rows) /\ Distinct(Names(rows))
      /\ \A r \in Elems(rows) :
            /\ \E t \in Elems(ticks) : t[1] = r.id
            /\ \/ \E d \in Elems(Official) :
                     r.id = d.id /\ OfficialRow(r, d, TickedOf(ticks, d.id))
               \/ \E p \in Elems(packs) :
                     r.id = p.id /\ PackRow(r, p, TickedOf(ticks, p.id))
      /\ \A t \in Elems(ticks) : \E r \in Elems(rows) : r.id = t[1]
  BY <1>1, <1>4, RecommendedIs
<1>6. /\ IsList(others) /\ Distinct(Names(others))
      /\ \A r \in Elems(others) :
            /\ \A t \in Elems(ticks) : t[1] # r.id
            /\ \E d \in Elems(Official) : r.id = d.id /\ OfficialRow(r, d, << >>)
  BY <1>1, <1>4, OthersAre
<1>. QED  BY <1>2, <1>3, <1>5, <1>6 DEF ticks, rows, others

LEMMA StickRowsStand ==
    ASSUME SameNames, NEW packs, StickOf(packs),
           NEW r \in Elems(stick.recommended) \cup Elems(stick.catalog)
    PROVE  RowStands(r, stick.ticks)
<1>1. stick.ticks \in TickLists /\ TicksOK(stick.ticks) /\ Distinct(stick.ticks)
  BY StickRows DEF StickOf
<1>2. \A id : \A y : y \in Elems(TickedOf(stick.ticks, id)) <=> <<id, y>> \in Elems(stick.ticks)
  BY <1>1, TickedIs
<1>3. CASE r \in Elems(stick.recommended)
  <2>1. CASE \E d \in Elems(Official) :
                r.id = d.id /\ OfficialRow(r, d, TickedOf(stick.ticks, d.id))
    BY <1>1, <1>2, <2>1, OfficialRowStands
  <2>2. CASE \E p \in Elems(packs) :
                r.id = p.id /\ PackRow(r, p, TickedOf(stick.ticks, p.id))
    BY <1>2, <2>2, PackRowStands
  <2>. QED  BY <1>3, <2>1, <2>2, StickRows
<1>4. CASE r \in Elems(stick.catalog)
  <2>1. PICK d \in Elems(Official) : r.id = d.id /\ OfficialRow(r, d, << >>)
    BY <1>4, StickRows
  <2>2. \A t \in Elems(stick.ticks) : t[1] # d.id
    BY <1>4, <2>1, StickRows
  <2>3. \A y : y \in Elems(<< >>) <=> <<d.id, y>> \in Elems(stick.ticks)
    BY <2>2, EmptyIs
  <2>. QED  BY <1>1, <2>1, <2>3, OfficialRowStands
<1>. QED  BY <1>3, <1>4

\* An edition that is on the stick by the catalog is there, and is its image.
LEMMA LocalIsPresent ==
    ASSUME SameNames, NEW packs, StickOf(packs), NEW r \in Elems(stick.recommended),
           NEW e \in Elems(r.editions), e.local
    PROVE  EditionIsPresent(stick, e) /\ stick.images[e.file] = e.image
<1>1. e.file \in PlainImages
  BY StickRowsStand DEF RowStands, RowLoads, EditionLoads
<1>2. ImageRel(e) = e.file
  BY <1>1 DEF ImageRel
<1>. DEFINE Of(q) == {<<q.id, x>> : x \in {y \in Elems(q.editions) : y.local}}
<1>3. <<r.id, e>> \in LocalEditions(stick)
  <2>1. <<r.id, e>> \in Of(r) /\ Of(r) \in {Of(q) : q \in Elems(stick.recommended)}
    OBVIOUS
  <2>2. LocalEditions(stick) = UNION {Of(q) : q \in Elems(stick.recommended)}
    BY DEF LocalEditions
  <2>. HIDE DEF Of
  <2>. QED  BY <2>1, <2>2
<1>4. e \in {l[2] : l \in LocalEditions(stick)}
  <2>1. <<r.id, e>>[2] = e
    OBVIOUS
  <2>. QED  BY <1>3, <2>1
<1>5. HasImages(stick, stick)
  BY DEF StickOf
<1>. QED  BY <1>2, <1>4, <1>5 DEF HasImages, EditionIsPresent

\* The cards are the editions on the stick, one for each tick.
LEMMA CardsAre ==
    ASSUME SameNames, NEW packs, StickOf(packs)
    PROVE  /\ Cards(stick) = UNION {{<<r, e>> : e \in {x \in Elems(r.editions) : x.local}} :
                                       r \in Elems(stick.recommended)}
           /\ TickedCards = Elems(stick.ticks)
<1>1. \A r \in Elems(stick.recommended) :
         Elems(CardsOf(r)) = {x \in Elems(r.editions) : x.local}
  <2>. SUFFICES ASSUME NEW r \in Elems(stick.recommended)
                PROVE  Elems(CardsOf(r)) = {x \in Elems(r.editions) : x.local}
    OBVIOUS
  <2>. DEFINE P == {i \in DOMAIN r.editions : r.editions[i].local}
  <2>1. IsList(r.editions) /\ \E e \in Elems(r.editions) : e.local
    <3>1. PICK t \in Elems(stick.ticks) : t[1] = r.id
      BY StickRows
    <3>2. <<r.id, t[2]>> \in Elems(stick.ticks)
      BY <3>1, StickRows DEF TicksOK
    <3>. QED  BY <3>2, StickRowsStand DEF RowStands
  <2>2. CardsOf(r) = Those(r.editions, P)
    BY <2>1 DEF CardsOf
  <2>3. Elems(Those(r.editions, P)) = {r.editions[i] : i \in P}
    <3>1. P \in SUBSET DOMAIN r.editions
      OBVIOUS
    <3>. HIDE DEF P
    <3>. QED  BY <2>1, <3>1, ThoseList
  <2>4. {r.editions[i] : i \in P} = {x \in Elems(r.editions) : x.local}
    BY Zenon DEF Elems
  <2>. QED  BY <2>2, <2>3, <2>4
<1>2. Cards(stick) = UNION {{<<r, e>> : e \in {x \in Elems(r.editions) : x.local}} :
                               r \in Elems(stick.recommended)}
  BY <1>1 DEF Cards
<1>. DEFINE Of(r) == {<<r, e>> : e \in {x \in Elems(r.editions) : x.local}}
<1>3. Cards(stick) = UNION {Of(r) : r \in Elems(stick.recommended)}
  BY <1>2
<1>4. ASSUME NEW c \in Cards(stick)
      PROVE  <<c[1].id, c[2].id>> \in Elems(stick.ticks)
  <2>1. PICK r \in Elems(stick.recommended) : c \in Of(r)
    <3>. HIDE DEF Of
    <3>. QED  BY <1>3
  <2>2. PICK e \in Elems(r.editions) : e.local /\ c = <<r, e>>
    BY <2>1
  <2>3. c[1] = r /\ c[2] = e
    BY <2>2
  <2>4. <<r.id, e.id>> \in Elems(stick.ticks)
    BY <2>2, StickRowsStand DEF RowStands
  <2>. QED  BY <2>3, <2>4
<1>5. ASSUME NEW t \in Elems(stick.ticks)
      PROVE  \E c \in Cards(stick) : t = <<c[1].id, c[2].id>>
  <2>1. t = <<t[1], t[2]>>
    BY StickRows DEF TicksOK
  <2>2. PICK r \in Elems(stick.recommended) : r.id = t[1]
    BY StickRows
  <2>3. PICK e \in Elems(r.editions) : e.id = t[2] /\ e.local
    BY <2>1, <2>2, StickRowsStand DEF RowStands
  <2>4. <<r, e>> \in Of(r)
    BY <2>3
  <2>5. <<r, e>> \in Cards(stick)
    <3>. HIDE DEF Of
    <3>. QED  BY <1>3, <2>2, <2>4
  <2>6. <<r, e>>[1] = r /\ <<r, e>>[2] = e
    OBVIOUS
  <2>7. t = << <<r, e>>[1].id, <<r, e>>[2].id >>
    BY <2>1, <2>2, <2>3, <2>6
  <2>. QED  BY <2>5, <2>7
<1>6. TickedCards = Elems(stick.ticks)
  BY <1>4, <1>5 DEF TickedCards
<1>. QED  BY <1>2, <1>6

\* The chooser takes a finished stick's catalog, shows a card for each ticked
\* desktop and no other, and behind each card lies the image the catalog names
\* (BuildShop and buildDATA against payload.py), when the creator's names are
\* the chooser's.
THEOREM ServesTheTicksHolds ==
    ASSUME SameNames
    PROVE  Spec => []ServesTheTicks
<1>1. IInv => ServesTheTicks
  <2>. SUFFICES ASSUME IInv, stick # None
                PROVE  /\ CatalogLoads(stick)
                       /\ TickedCards = Elems(stick.ticks)
                       /\ \A c \in Cards(stick) :
                             /\ EditionIsPresent(stick, c[2])
                             /\ stick.images[c[2].file] = c[2].image
    BY DEF ServesTheTicks
  <2>1. PICK packs : StickOf(packs)
    BY StickIs DEF IInv
  <2>2. CatalogLoads(stick)
    <3>. DEFINE rows == stick.recommended
                others == stick.catalog
    <3>1. /\ IsList(rows) /\ Distinct(Names(rows))
          /\ IsList(others) /\ Distinct(Names(others))
          /\ \A x \in Elems(rows), y \in Elems(others) : x.id # y.id
      <4>1. \A x \in Elems(rows) : \E t \in Elems(stick.ticks) : t[1] = x.id
        BY <2>1, StickRows
      <4>2. \A y \in Elems(others) : \A t \in Elems(stick.ticks) : t[1] # y.id
        BY <2>1, StickRows
      <4>. QED  BY <2>1, <4>1, <4>2, StickRows
    <3>2. \A r \in Elems(rows) \cup Elems(others) : RowLoads(r)
      BY <2>1, StickRowsStand DEF RowStands
    <3>. HIDE DEF rows, others
    <3>3. Elems(rows \o others) = Elems(rows) \cup Elems(others)
          /\ Distinct(Names(rows \o others))
      BY <3>1, JoinedIs
    <3>. QED  BY <3>2, <3>3 DEF CatalogLoads, AllRows, rows, others
  <2>3. TickedCards = Elems(stick.ticks)
    BY <2>1, CardsAre
  <2>4. ASSUME NEW c \in Cards(stick)
        PROVE  EditionIsPresent(stick, c[2]) /\ stick.images[c[2].file] = c[2].image
    <3>. DEFINE Of(r) == {<<r, e>> : e \in {x \in Elems(r.editions) : x.local}}
    <3>1. PICK r \in Elems(stick.recommended) : c \in Of(r)
      <4>1. Cards(stick) = UNION {Of(r) : r \in Elems(stick.recommended)}
        BY <2>1, CardsAre
      <4>. HIDE DEF Of
      <4>. QED  BY <4>1
    <3>2. PICK e \in Elems(r.editions) : e.local /\ c = <<r, e>>
      BY <3>1
    <3>3. c[2] = e
      BY <3>2
    <3>4. EditionIsPresent(stick, e) /\ stick.images[e.file] = e.image
      BY <2>1, <3>2, LocalIsPresent
    <3>. QED  BY <3>3, <3>4
  <2>. QED  BY <2>2, <2>3, <2>4
<1>. QED  BY <1>1, IInvHolds, PTL

\* The driver behind any edition of the stick.
LEMMA DriverIs ==
    ASSUME SameNames, OwnDrivers, NEW packs, StickOf(packs),
           NEW r \in Elems(stick.recommended) \cup Elems(stick.catalog),
           NEW e \in Elems(r.editions)
    PROVE  DriverFor(stick, InstallFor(r, e)) = OwnDriver(<<r.id, e.id>>)
           /\ DriverFor(stick, InstallFor(r, e))[1] # "none"
<1>. DEFINE tick == <<r.id, e.id>>
            install == InstallFor(r, e)
<1>0. tick[1] = r.id /\ tick[2] = e.id
  OBVIOUS
<1>. HIDE DEF tick, install
<1>1. ASSUME NEW d, NEW selected, OfficialRow(r, d, selected)
      PROVE  DriverFor(stick, install) = OwnDriver(tick)
             /\ DriverFor(stick, install)[1] # "none"
  <2>1. d \in Elems(Official) /\ r.id = d.id
    BY <1>1, OfficialEditions DEF OfficialRow
  <2>2. PICK x \in Elems(d.editions) :
           /\ e = OfficialEditionRow(d, x, selected)
           /\ install = x.install /\ x.install \in Drivers
    BY <1>1, OfficialEditions DEF install
  <2>3. e.id = x.id
    BY <2>2 DEF OfficialEditionRow
  <2>4. /\ Has(Official, d.id) /\ Row(Official, d.id) = d /\ Row(d.editions, x.id) = x
    BY <2>1, OfficialIs
  <2>5. DriverFor(stick, install) = <<"live", x.install>>
    BY <2>2 DEF DriverFor
  <2>6. OwnDriver(tick) = <<"live", x.install>>
    BY <1>0, <2>1, <2>3, <2>4 DEF OwnDriver
  <2>7. <<"live", x.install>>[1] # "none"
    OBVIOUS
  <2>. QED  BY <2>5, <2>6, <2>7
<1>2. ASSUME NEW p \in Elems(packs), NEW selected, PackRow(r, p, selected),
             r \in Elems(stick.recommended)
      PROVE  DriverFor(stick, install) = OwnDriver(tick)
             /\ DriverFor(stick, install)[1] # "none"
  <2>1. r.id = p.id /\ install = p.id
    BY <1>2, PackEditionsAre DEF install
  <2>2. p.id \in PackIds /\ ~ReservedPackID(p.id)
    BY <1>2 DEF PackRow, Packs
  <2>3. p.id \in KebabIds /\ p.id \notin Drivers /\ ~Has(Official, p.id)
    BY <2>2, DriversAssumption DEF SameNames, ReservedPackID
  <2>4. HasDrivers(stick.custom, stick, {q.id : q \in Elems(packs)})
    BY DEF StickOf
  <2>5. p.id \in DOMAIN stick.custom
    BY <1>2, <2>1, <2>4 DEF HasDrivers
  <2>6. PICK z \in Zips : z.id = p.id /\ z.driver # None /\ stick.custom[p.id] = z.driver
    BY <2>4, <2>5 DEF HasDrivers
  <2>7. stick.custom[p.id].exports = p.id
    BY <2>6 DEF OwnDrivers
  <2>8. DriverFor(stick, install) = <<"pack", p.id>>
    BY <2>1, <2>3, <2>5, <2>7 DEF DriverFor
  <2>9. OwnDriver(tick) = <<"pack", p.id>>
    BY <1>0, <2>1, <2>3 DEF OwnDriver
  <2>10. <<"pack", p.id>>[1] # "none"
    OBVIOUS
  <2>. QED  BY <2>8, <2>9, <2>10
<1>3. CASE r \in Elems(stick.recommended)
  BY <1>1, <1>2, <1>3, StickRows DEF tick, install
<1>4. CASE r \in Elems(stick.catalog)
  BY <1>1, <1>4, StickRows DEF tick, install
<1>. QED  BY <1>3, <1>4

\* A card runs the driver made for its desktop, of the live system or of the
\* pack (get_driver against the creator's ids), when the creator's names are the
\* chooser's and the driver in each zip is for the zip's id.
THEOREM RunsItsOwnDriverHolds ==
    ASSUME SameNames, OwnDrivers
    PROVE  Spec => []RunsItsOwnDriver
<1>1. IInv => RunsItsOwnDriver
  <2>. SUFFICES ASSUME IInv, stick # None, NEW c \in Cards(stick)
                PROVE  DriverFor(stick, InstallFor(c[1], c[2]))
                          = OwnDriver(<<c[1].id, c[2].id>>)
    BY DEF RunsItsOwnDriver
  <2>1. PICK packs : StickOf(packs)
    BY StickIs DEF IInv
  <2>. DEFINE Of(r) == {<<r, e>> : e \in {x \in Elems(r.editions) : x.local}}
  <2>2. PICK r \in Elems(stick.recommended) : c \in Of(r)
    <3>1. Cards(stick) = UNION {Of(r) : r \in Elems(stick.recommended)}
      BY <2>1, CardsAre
    <3>. HIDE DEF Of
    <3>. QED  BY <3>1
  <2>3. PICK e \in Elems(r.editions) : c = <<r, e>>
    BY <2>2
  <2>4. c[1] = r /\ c[2] = e
    BY <2>3
  <2>5. DriverFor(stick, InstallFor(r, e)) = OwnDriver(<<r.id, e.id>>)
    BY <2>1, DriverIs
  <2>. QED  BY <2>4, <2>5
<1>. QED  BY <1>1, IInvHolds, PTL

\* Whatever the chooser lists is installed or downloaded, except a recommended
\* edition that Secure Boot rules out (app.py _act), under the same conditions.
THEOREM OffersLeadSomewhereHolds ==
    ASSUME SameNames, OwnDrivers
    PROVE  Spec => []OffersLeadSomewhere
<1>1. IInv => OffersLeadSomewhere
  <2>. SUFFICES ASSUME IInv, stick # None, NEW on \in BOOLEAN,
                       NEW r \in OtherOptions(stick, on), NEW e \in Elems(r.editions)
                PROVE  \/ Choose(stick, r, e, on) \in {"install", "download"}
                       \/ /\ Choose(stick, r, e, on) = "warning"
                          /\ r \in Elems(stick.recommended)
    BY DEF OffersLeadSomewhere
  <2>1. PICK packs : StickOf(packs)
    BY StickIs DEF IInv
  <2>2. r \in Elems(stick.recommended) \cup Elems(stick.catalog)
        /\ (r \in Elems(stick.recommended) \/ r.secureBoot \/ ~on)
    BY DEF OtherOptions
  <2>3. DriverFor(stick, InstallFor(r, e))[1] # "none"
    BY <2>1, <2>2, DriverIs
  <2>4. EditionIsPresent(stick, e) \/ e.url # None
    <3>1. CASE e.local
      <4>1. r \in Elems(stick.recommended)
        <5>. SUFFICES ASSUME r \in Elems(stick.catalog) PROVE FALSE
          BY <2>2
        <5>1. <<r.id, e.id>> \in Elems(stick.ticks)
          BY <2>1, <2>2, <3>1, StickRowsStand DEF RowStands
        <5>2. <<r.id, e.id>>[1] = r.id
          OBVIOUS
        <5>. QED  BY <2>1, <5>1, <5>2, StickRows
      <4>. QED  BY <2>1, <3>1, <4>1, LocalIsPresent
    <3>2. CASE ~e.local
      BY <2>1, <2>2, <3>2, StickRowsStand DEF RowStands
    <3>. QED  BY <3>1, <3>2
  <2>. QED  BY <2>2, <2>3, <2>4 DEF Choose
<1>. QED  BY <1>1, IInvHolds, PTL
-----------------------------------------------------------------------------
(* Room for what is staged.                                                *)

LEMMA ElemsFinite ==
    ASSUME NEW s, IsList(s)
    PROVE  IsFiniteSet(Elems(s))
<1>1. PICK n \in Nat : DOMAIN s = 1 .. n
  BY ListIs
<1>2. IsFiniteSet(DOMAIN s)
  <2>1. n \in Int /\ 1 \in Int
    OBVIOUS
  <2>. QED  BY <1>1, <2>1, FS_Interval
<1>3. s \in Surjection(DOMAIN s, Elems(s))
  BY ListIs DEF Surjection
<1>. QED  BY <1>2, <1>3, FS_Surjection

\* What an edition on the stick takes is known.
LocalSized(e) ==
    /\ e.image \in DOMAIN Size /\ IsFiniteSet(Elems(e.extras))
    /\ \A x \in Elems(e.extras) : x.image \in DOMAIN Size

LEMMA LocalsAreSized ==
    ASSUME NEW ticks, NEW shop, NEW ids, Built(ticks, shop, ids)
    PROVE  /\ IsFiniteSet(LocalEditions(shop))
           /\ \A l \in LocalEditions(shop) : LocalSized(l[2])
<1>1. PICK packs \in Seq(Packs) :
         /\ ticks \in TickLists /\ CanBuildShop(ticks, packs)
         /\ shop = BuildShop(ticks, packs)
  BY DEF Built
<1>. DEFINE rows == shop.recommended
            Of(r) == {<<r.id, e>> : e \in {x \in Elems(r.editions) : x.local}}
<1>. HIDE DEF rows
<1>2. /\ IsList(rows)
      /\ \A r \in Elems(rows) :
            \/ \E d \in Elems(Official) : OfficialRow(r, d, TickedOf(ticks, d.id))
            \/ \E p \in Elems(packs) : PackRow(r, p, TickedOf(ticks, p.id))
  <2>1. rows = BuildShop(ticks, packs).recommended
    BY <1>1 DEF rows
  <2>2. /\ IsList(rows) /\ Distinct(Names(rows))
        /\ \A r \in Elems(rows) :
              /\ \E t \in Elems(ticks) : t[1] = r.id
              /\ \/ \E d \in Elems(Official) :
                       r.id = d.id /\ OfficialRow(r, d, TickedOf(ticks, d.id))
                 \/ \E p \in Elems(packs) :
                       r.id = p.id /\ PackRow(r, p, TickedOf(ticks, p.id))
        /\ \A t \in Elems(ticks) : \E r \in Elems(rows) : r.id = t[1]
    BY <1>1, <2>1, RecommendedIs
  <2>. QED  BY <2>2
<1>3. LocalEditions(shop) = UNION {Of(r) : r \in Elems(rows)}
  BY DEF LocalEditions, rows
<1>4. \A r \in Elems(rows) : IsList(r.editions) /\ \A e \in Elems(r.editions) : LocalSized(e)
  <2>. SUFFICES ASSUME NEW r \in Elems(rows)
                PROVE  IsList(r.editions) /\ \A e \in Elems(r.editions) : LocalSized(e)
    OBVIOUS
  <2>1. ASSUME NEW d, NEW selected, OfficialRow(r, d, selected)
        PROVE  IsList(r.editions) /\ \A e \in Elems(r.editions) : LocalSized(e)
    <3>1. /\ d \in Elems(Official) /\ IsList(r.editions)
          /\ \A e \in Elems(r.editions) : \E x \in Elems(d.editions) :
                Pinned(x) /\ e = OfficialEditionRow(d, x, selected)
      <4>1. /\ r.id = d.id /\ r.install = d.install /\ r.secureBoot = d.secureBoot
            /\ IsList(r.editions) /\ Distinct(Names(r.editions))
            /\ \A e \in Elems(r.editions) : \E x \in Elems(d.editions) :
                  /\ Pinned(x) /\ e = OfficialEditionRow(d, x, selected)
                  /\ InstallFor(r, e) = x.install /\ x.install \in Drivers \cap KebabIds
                  /\ x.filename \in PlainImages
            /\ \A x \in Elems(d.editions) :
                  Pinned(x) => OfficialEditionRow(d, x, selected) \in Elems(r.editions)
        BY <2>1, OfficialEditions
      <4>. QED  BY <2>1, <4>1 DEF OfficialRow
    <3>2. ASSUME NEW e \in Elems(r.editions)
          PROVE  LocalSized(e)
      <4>1. PICK x \in Elems(d.editions) :
               Pinned(x) /\ e = OfficialEditionRow(d, x, selected)
        BY <3>1
      <4>2. e.image = x.image /\ e.extras = ShopExtras(x)
        BY <4>1 DEF OfficialEditionRow
      <4>3. /\ x.image # None /\ \A y \in Elems(x.extras) : y.image # None
        BY <4>1 DEF Pinned
      <4>4. /\ x.image \in DOMAIN Size
            /\ \A y \in Elems(x.extras) : y.image \in DOMAIN Size
        BY <3>1, <4>3, SizeAssumption
      <4>5. IsList(x.extras) /\ Distinct(Mapped(x.extras, LAMBDA y : y.name))
        BY <3>1, OfficialAssumption
      <4>6. /\ IsList(ShopExtras(x)) /\ Elems(ShopExtras(x)) \subseteq Elems(x.extras)
        BY <4>5, ShopExtrasAre
      <4>7. IsFiniteSet(Elems(ShopExtras(x)))
        BY <4>6, ElemsFinite
      <4>. QED  BY <4>2, <4>4, <4>6, <4>7 DEF LocalSized
    <3>. QED  BY <3>1, <3>2
  <2>2. ASSUME NEW p, NEW selected, PackRow(r, p, selected)
        PROVE  IsList(r.editions) /\ \A e \in Elems(r.editions) : LocalSized(e)
    <3>1. /\ IsList(r.editions)
          /\ \A e \in Elems(r.editions) : \E x \in PackEditions :
                PackCanStage(x) /\ e = PackEditionRow(p, x, selected)
      <4>1. /\ r.id = p.id /\ r.install = p.id /\ r.secureBoot = p.secureBoot
            /\ IsList(r.editions) /\ Distinct(Names(r.editions))
            /\ \A e \in Elems(r.editions) : \E x \in Elems(p.editions) :
                  /\ PackCanStage(x) /\ e = PackEditionRow(p, x, selected)
                  /\ x.id \in Elems(selected) /\ x \in PackEditions
                  /\ InstallFor(r, e) = p.id
            /\ \A id \in Elems(selected) : \E x \in Elems(p.editions) :
                  x.id = id /\ PackEditionRow(p, x, selected) \in Elems(r.editions)
        BY <2>2, PackEditionsAre
      <4>. QED  BY <4>1
    <3>2. ASSUME NEW e \in Elems(r.editions)
          PROVE  LocalSized(e)
      <4>1. PICK x \in PackEditions :
               PackCanStage(x) /\ e = PackEditionRow(p, x, selected)
        BY <3>1
      <4>2. e.image = x.image /\ e.extras = << >>
        BY <4>1 DEF PackEditionRow
      <4>3. x.image \in DOMAIN Size
        BY <4>1 DEF PackEditions, PackCanStage
      <4>4. Elems(e.extras) = {}
        BY <4>2, EmptyIs
      <4>. QED  BY <4>2, <4>3, <4>4, FS_EmptySet DEF LocalSized
    <3>. QED  BY <3>1, <3>2
  <2>. QED  BY <1>2, <2>1, <2>2
<1>5. IsFiniteSet(LocalEditions(shop))
  <2>1. IsFiniteSet(Elems(rows))
    BY <1>2, ElemsFinite
  <2>. DEFINE of == [r \in Elems(rows) |-> Of(r)]
              All == {Of(r) : r \in Elems(rows)}
  <2>2. of \in Surjection(Elems(rows), All)
    BY DEF Surjection
  <2>3. IsFiniteSet(All)
    <3>. HIDE DEF of, All
    <3>. QED  BY <2>1, <2>2, FS_Surjection
  <2>4. \A T \in All : IsFiniteSet(T)
    <3>. SUFFICES ASSUME NEW r \in Elems(rows) PROVE IsFiniteSet(Of(r))
      OBVIOUS
    <3>. DEFINE here == {x \in Elems(r.editions) : x.local}
                pair == [e \in here |-> <<r.id, e>>]
    <3>1. IsFiniteSet(Elems(r.editions)) /\ here \in SUBSET Elems(r.editions)
      BY <1>4, ElemsFinite
    <3>2. IsFiniteSet(here)
      <4>. HIDE DEF here
      <4>. QED  BY <3>1, FS_Subset
    <3>3. pair \in Surjection(here, Of(r))
      BY DEF Surjection
    <3>. HIDE DEF pair, here, Of
    <3>. QED  BY <3>2, <3>3, FS_Surjection
  <2>5. IsFiniteSet(UNION All)
    <3>. HIDE DEF All
    <3>. QED  BY <2>3, <2>4, FS_UNION
  <2>. QED  BY <1>3, <2>5
<1>6. \A l \in LocalEditions(shop) : LocalSized(l[2])
  <2>. SUFFICES ASSUME NEW l \in LocalEditions(shop) PROVE LocalSized(l[2])
    OBVIOUS
  <2>1. PICK r \in Elems(rows) : l \in Of(r)
    <3>. HIDE DEF Of
    <3>. QED  BY <1>3
  <2>2. PICK e \in Elems(r.editions) : l = <<r.id, e>>
    BY <2>1
  <2>3. l[2] = e
    BY <2>2
  <2>. QED  BY <1>4, <2>3
<1>. QED  BY <1>5, <1>6

\* What is staged is what was planned for, at most.
LEMMA StagedIsPlanned ==
    ASSUME IInv, step = "format"
    PROVE  /\ TreeBytes \in Nat /\ LocalBytes(request.shop) \in Nat
           /\ TreeBytes <= LocalBytes(request.shop) + 24
<1>1. /\ Built(request.ticks, request.shop, RequestIds) /\ HasImages(tree, request.shop)
      /\ tree.extras = [at \in StagedExtras |-> ExtraImage(at)]
  BY DEF IInv, JobInv
<1>. DEFINE L == LocalEditions(request.shop)
            own == [l \in L |-> Size[l[2].image]]
            part == [l \in L |-> [x \in Elems(l[2].extras) |-> Size[x.image]]]
            more == [l \in L |-> Total(part[l])]
            all == [l \in L |-> LocalPayloadBytes(l[2])]
            images == [f \in DOMAIN tree.images |-> Size[tree.images[f]]]
            extras == [at \in DOMAIN tree.extras |-> Size[tree.extras[at]]]
<1>. HIDE DEF L
<1>2. IsFiniteSet(L) /\ \A l \in L : LocalSized(l[2])
  BY <1>1, LocalsAreSized DEF L
<1>3. Size \in [DOMAIN Size -> Nat]
  BY SizeAssumption
<1>4. Locals = {l[2] : l \in L}
  BY DEF Locals, L
<1>5. \A l \in L : /\ own[l] \in Nat /\ IsFiniteSet(DOMAIN part[l])
                   /\ \A x \in DOMAIN part[l] : part[l][x] \in Nat
  BY <1>2, <1>3 DEF LocalSized
<1>6. \A l \in L : more[l] \in Nat /\ more[l] = Total(part[l]) /\ all[l] = own[l] + more[l]
  <2>. SUFFICES ASSUME NEW l \in L
                PROVE  Total(part[l]) \in Nat /\ all[l] = own[l] + more[l]
    OBVIOUS
  <2>1. all[l] = own[l] + more[l]
    BY DEF LocalPayloadBytes
  <2>. DEFINE p == part[l]
  <2>2. IsFiniteSet(DOMAIN p) /\ \A x \in DOMAIN p : p[x] \in Nat
    BY <1>5
  <2>. HIDE DEF p
  <2>3. Total(p) \in Nat
    BY <2>2, UnitsAreFinite
  <2>. QED  BY <2>1, <2>3 DEF p
<1>7. LocalBytes(request.shop) = Total(all)
  BY DEF LocalBytes, L
<1>8. TreeBytes = Total(images) + Total(extras) + 16 + 8
  BY DEF TreeBytes
\* Each staged image is that of an edition.
<1>9. Total(images) <= Total(own) /\ Total(images) \in Nat /\ Total(own) \in Nat
  <2>. DEFINE g == [f \in DOMAIN images |-> CHOOSE l \in L : l[2].file = f]
  <2>1. \A f \in DOMAIN images : g[f] \in L /\ g[f][2].file = f
    <3>1. DOMAIN images = {e.file : e \in Locals}
      BY <1>1 DEF HasImages, Locals
    <3>2. \A f \in DOMAIN images : \E l \in L : l[2].file = f
      BY <1>4, <3>1
    <3>. QED  BY <3>2
  <2>2. \A f \in DOMAIN images : images[f] = own[g[f]]
    <3>. SUFFICES ASSUME NEW f \in DOMAIN images PROVE images[f] = own[g[f]]
      OBVIOUS
    <3>0. g[f] \in L /\ g[f][2].file = f
      BY <2>1
    <3>. HIDE DEF g
    <3>1. g[f] \in L /\ g[f][2].file = f /\ g[f][2] \in Locals
      BY <1>4, <3>0
    <3>2. tree.images[f] = g[f][2].image
      BY <1>1, <3>1 DEF HasImages, Locals
    <3>. QED  BY <3>1, <3>2
  <2>3. DOMAIN own = L /\ g \in [DOMAIN images -> L]
    BY <2>1
  <2>4. \A f, k \in DOMAIN images : g[f] = g[k] => f = k
    BY <2>1
  <2>. HIDE DEF g, images, own
  <2>5. \A f \in DOMAIN images : images[f] \in Nat /\ images[f] <= own[g[f]]
    BY <1>5, <2>1, <2>2
  <2>6. Total(images) <= Total(own) /\ Total(images) \in Nat
    BY <1>2, <1>5, <2>3, <2>4, <2>5, TotalEmbeds
  <2>. QED  BY <1>2, <1>5, <2>3, <2>6, UnitsAreFinite
\* Each staged extra is one of an edition.
<1>10. Total(extras) <= Total(more) /\ Total(extras) \in Nat /\ Total(more) \in Nat
  <2>. DEFINE Named(at) == UNION {Elems(e.extras) : e \in {l \in Locals : l.file = at[1]}}
              h == [at \in DOMAIN extras |-> CHOOSE x \in Named(at) : x.name = at[2]]
              g == [at \in DOMAIN extras |->
                       CHOOSE l \in L : l[2].file = at[1] /\ h[at] \in Elems(l[2].extras)]
  <2>1. DOMAIN extras = StagedExtras /\ \A at \in StagedExtras : tree.extras[at] = ExtraImage(at)
    BY <1>1
  <2>2. \A at \in StagedExtras : \E l \in L : \E x \in Elems(l[2].extras) :
           at = <<l[2].file, x.name>>
    <3>. SUFFICES ASSUME NEW at \in StagedExtras
                  PROVE  \E l \in L : \E x \in Elems(l[2].extras) : at = <<l[2].file, x.name>>
      OBVIOUS
    <3>. DEFINE Of(e) == {<<e.file, x.name>> : x \in Elems(e.extras)}
    <3>1. StagedExtras = UNION {Of(e) : e \in Locals}
      BY DEF StagedExtras
    <3>2. PICK e \in Locals : at \in Of(e)
      <4>. HIDE DEF Of
      <4>. QED  BY <3>1
    <3>3. PICK l \in L : l[2] = e
      BY <1>4
    <3>. QED  BY <3>2, <3>3
  <2>3. \A at \in DOMAIN extras : h[at] \in Named(at) /\ h[at].name = at[2]
    <3>. SUFFICES ASSUME NEW at \in DOMAIN extras
                  PROVE  \E x \in Named(at) : x.name = at[2]
      OBVIOUS
    <3>1. PICK l \in L : \E x \in Elems(l[2].extras) : at = <<l[2].file, x.name>>
      BY <2>1, <2>2
    <3>2. PICK x \in Elems(l[2].extras) : at = <<l[2].file, x.name>>
      BY <3>1
    <3>3. at[1] = l[2].file /\ at[2] = x.name
      BY <3>2
    <3>4. l[2] \in {k \in Locals : k.file = at[1]}
      BY <1>4, <3>3
    <3>5. x \in Named(at)
      BY <3>4
    <3>. QED  BY <3>3, <3>5
  <2>4. \A at \in DOMAIN extras : extras[at] = Size[h[at].image]
    BY <2>1 DEF ExtraImage
  <2>5. \A at \in DOMAIN extras : \E l \in L : l[2].file = at[1] /\ h[at] \in Elems(l[2].extras)
    <3>. SUFFICES ASSUME NEW at \in DOMAIN extras
                  PROVE  \E l \in L : l[2].file = at[1] /\ h[at] \in Elems(l[2].extras)
      OBVIOUS
    <3>1. h[at] \in Named(at)
      BY <2>3
    <3>. HIDE DEF h
    <3>2. PICK e \in Locals : e.file = at[1] /\ h[at] \in Elems(e.extras)
      BY <3>1
    <3>. QED  BY <1>4, <3>2
  <2>6. \A at \in DOMAIN extras : /\ g[at] \in L /\ g[at][2].file = at[1]
                                  /\ h[at] \in Elems(g[at][2].extras)
    <3>. HIDE DEF h
    <3>. QED  BY <2>5
  <2>7. \A at \in DOMAIN extras : at = <<at[1], at[2]>>
    BY <2>1, <2>2
  <2>. HIDE DEF g, h, Named
  <2>8. \A at, to \in DOMAIN extras : g[at] = g[to] /\ h[at] = h[to] => at = to
    BY <2>3, <2>6, <2>7
  <2>9. \A at \in DOMAIN extras :
           /\ h[at] \in DOMAIN part[g[at]]
           /\ extras[at] \in Nat /\ extras[at] <= part[g[at]][h[at]]
    <3>. SUFFICES ASSUME NEW at \in DOMAIN extras
                  PROVE  /\ h[at] \in DOMAIN part[g[at]]
                         /\ extras[at] \in Nat /\ extras[at] <= part[g[at]][h[at]]
      OBVIOUS
    <3>1. g[at] \in L /\ h[at] \in Elems(g[at][2].extras)
      BY <2>6
    <3>2. h[at] \in DOMAIN part[g[at]] /\ part[g[at]][h[at]] = Size[h[at].image]
      BY <3>1
    <3>3. part[g[at]][h[at]] \in Nat
      BY <1>5, <3>1, <3>2
    <3>4. extras[at] = part[g[at]][h[at]]
      BY <2>4, <3>2
    <3>. HIDE DEF extras, part
    <3>. QED  BY <3>2, <3>3, <3>4
  <2>10. DOMAIN part = L /\ DOMAIN more = L /\ g \in [DOMAIN extras -> L]
    BY <2>6 DEF g
  <2>. HIDE DEF extras, part, more
  <2>11. \A l \in L : /\ IsFiniteSet(DOMAIN part[l])
                      /\ \A y \in DOMAIN part[l] : part[l][y] \in Nat
                      /\ more[l] = Total(part[l])
    BY <1>5, <1>6
  <2>12. \A l \in L : more[l] \in Nat
    BY <1>6
  <2>13. PlacedIn(extras, part, more, g, h)
    <3>1. \A at \in DOMAIN extras : g[at] \in L
      BY <2>6
    <3>. QED  BY <1>2, <2>8, <2>9, <2>10, <2>11, <3>1 DEF PlacedIn
  <2>14. Total(extras) <= Total(more) /\ Total(extras) \in Nat
    BY <2>13, TotalOfParts
  <2>. QED  BY <1>2, <2>10, <2>12, <2>14, UnitsAreFinite
<1>11. Total(own) + Total(more) <= Total(all) /\ Total(all) \in Nat
  <2>1. DOMAIN own = L /\ DOMAIN more = L /\ DOMAIN all = L
    OBVIOUS
  <2>. HIDE DEF own, more, all
  <2>2. \A l \in L : own[l] \in Nat /\ more[l] \in Nat /\ all[l] = own[l] + more[l]
    BY <1>5, <1>6
  <2>3. \A l \in L : all[l] \in Nat
    BY <2>2
  <2>4. Total(own) + Total(more) <= Total(all)
    BY <1>2, <2>1, <2>2, TotalSplits
  <2>. QED  BY <1>2, <2>1, <2>3, <2>4, UnitsAreFinite
<1>. HIDE DEF own, more, all, images, extras, part
<1>. QED  BY <1>7, <1>8, <1>9, <1>10, <1>11

\* A tenth more and 64 MiB are enough for the file system's own blocks.
LEMMA SlackIsEnough ==
    ASSUME NEW local \in Nat, NEW used \in Nat, used <= local + 24,
           NEW slack, slack = local + 24 + (local + 33) \div 10 + 64,
           NEW planned, planned = IF slack < 256 THEN 256 ELSE slack
    PROVE  used + Ext4Overhead(planned) <= planned
<1>. DEFINE tenth == (local + 33) \div 10
            tables == planned \div 50
<1>1. tenth \in Nat /\ 10 * tenth <= local + 33 /\ local + 33 < 10 * tenth + 10
  OBVIOUS
<1>. HIDE DEF tenth
<1>2. slack = local + 24 + tenth + 64 /\ slack \in Nat
  BY <1>1 DEF tenth
<1>3. planned \in Nat /\ planned >= slack /\ planned >= 256
      /\ (planned = slack \/ (planned = 256 /\ slack < 256))
  BY <1>2
<1>4. tables \in Nat /\ 50 * tables <= planned /\ planned < 50 * tables + 50
  BY <1>3
<1>. HIDE DEF tables
<1>5. Ext4Overhead(planned)
         = tables + (IF planned < 1024 THEN 16 ELSE IF planned < 16384 THEN 64 ELSE 256)
  BY DEF Ext4Overhead, tables
<1>6. CASE planned = 256 /\ slack < 256
  BY <1>1, <1>2, <1>4, <1>5, <1>6
<1>7. CASE planned = slack /\ planned < 1024
  BY <1>1, <1>2, <1>4, <1>5, <1>7
<1>8. CASE planned = slack /\ planned >= 1024 /\ planned < 16384
  BY <1>1, <1>2, <1>4, <1>5, <1>8
<1>9. CASE planned = slack /\ planned >= 16384
  BY <1>1, <1>2, <1>4, <1>5, <1>9
<1>. QED  BY <1>3, <1>6, <1>7, <1>8, <1>9

\* The planned partition takes the staged tree and the file system's own blocks
\* (Plan against buildDATA and makeExt4).
THEOREM RoomForTheTreeHolds == Spec => []RoomForTheTree
<1>1. IInv => RoomForTheTree
  <2>. SUFFICES ASSUME IInv, step = "format"
                PROVE  TreeBytes + Ext4Overhead(DataBytes(request.shop))
                          <= DataBytes(request.shop)
    BY DEF RoomForTheTree
  <2>. DEFINE local == LocalBytes(request.shop)
              slack == local + 24 + (local + 33) \div 10 + 64
  <2>1. TreeBytes \in Nat /\ local \in Nat /\ TreeBytes <= local + 24
    BY StagedIsPlanned
  <2>2. DataBytes(request.shop) = IF slack < 256 THEN 256 ELSE slack
    <3>. HIDE DEF local
    <3>1. local + 16 + 8 = local + 24 /\ local + 24 + 9 = local + 33
      BY <2>1
    <3>. QED  BY <3>1 DEF DataBytes, local
  <2>. HIDE DEF local
  <2>. QED  BY <2>1, <2>2, SlackIsEnough
<1>. QED  BY <1>1, IInvHolds, PTL
-----------------------------------------------------------------------------
\* The folder of a pack holds the driver of that id (schemas/README.md:150), when
\* the driver in each zip is for the zip's id: a zip that is refused leaves its
\* driver in the folder of its own id, never in another's (LoadZip).
THEOREM DriverIsTheIdsHolds ==
    ASSUME OwnDrivers
    PROVE  Spec => []DriverIsTheIds
<1>1. IInv => DriverIsTheIds
  <2>. SUFFICES ASSUME IInv, stick # None, NEW id \in DOMAIN stick.custom
                PROVE  stick.custom[id].exports = id
    BY DEF DriverIsTheIds
  <2>1. PICK packs : StickOf(packs)
    BY StickIs DEF IInv
  <2>2. PICK z \in Zips : z.id = id /\ z.driver # None /\ stick.custom[id] = z.driver
    BY <2>1 DEF StickOf, HasDrivers
  <2>. QED  BY <2>2 DEF OwnDrivers
<1>. QED  BY <1>1, IInvHolds, PTL
=============================================================================
