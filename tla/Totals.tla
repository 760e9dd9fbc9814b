------------------------------- MODULE Totals -------------------------------
(***************************************************************************)
(* Adding up what each of finitely many things takes: the number of units  *)
(* of all of them together, so that sums can be reasoned about as sets.    *)
(***************************************************************************)
EXTENDS Naturals, FiniteSets, FiniteSetTheorems, TLAPS

Units(n) == UNION {{x} \X (1 .. n[x]) : x \in DOMAIN n}
Total(n) == Cardinality(Units(n))
-----------------------------------------------------------------------------
LEMMA UnitsAreFinite ==
    ASSUME NEW n, IsFiniteSet(DOMAIN n), \A x \in DOMAIN n : n[x] \in Nat
    PROVE  IsFiniteSet(Units(n)) /\ Total(n) \in Nat
<1>. DEFINE Of == [x \in DOMAIN n |-> {x} \X (1 .. n[x])]
            All == {{x} \X (1 .. n[x]) : x \in DOMAIN n}
<1>1. Of \in Surjection(DOMAIN n, All)
  BY DEF Surjection
<1>2. IsFiniteSet(All)
  <2>. HIDE DEF Of, All
  <2>. QED  BY <1>1, FS_Surjection
<1>3. \A T \in All : IsFiniteSet(T)
  <2>. SUFFICES ASSUME NEW x \in DOMAIN n PROVE IsFiniteSet({x} \X (1 .. n[x]))
    OBVIOUS
  <2>1. IsFiniteSet({x}) /\ IsFiniteSet(1 .. n[x])
    <3>1. n[x] \in Int /\ 1 \in Int
      OBVIOUS
    <3>. QED  BY <3>1, FS_Singleton, FS_Interval
  <2>. QED  BY <2>1, FS_Product
<1>4. IsFiniteSet(UNION All)
  <2>. HIDE DEF All
  <2>. QED  BY <1>2, <1>3, FS_UNION
<1>. QED  BY <1>4, FS_CardinalityType DEF Units, Total

\* What takes at most as much everywhere takes at most as much in all.
LEMMA TotalGrows ==
    ASSUME NEW n, NEW m, IsFiniteSet(DOMAIN m), DOMAIN n \subseteq DOMAIN m,
           \A x \in DOMAIN n : n[x] \in Nat,
           \A x \in DOMAIN m : m[x] \in Nat,
           \A x \in DOMAIN n : n[x] <= m[x]
    PROVE  Total(n) <= Total(m)
<1>1. Units(n) \subseteq Units(m)
  <2>. SUFFICES ASSUME NEW x \in DOMAIN n, NEW i \in 1 .. n[x]
                PROVE  <<x, i>> \in Units(m)
    BY DEF Units
  <2>1. x \in DOMAIN m /\ i \in 1 .. m[x]
    OBVIOUS
  <2>. QED  BY <2>1 DEF Units
<1>. QED  BY <1>1, UnitsAreFinite, FS_Subset DEF Total

\* One thing changes, the others stay.
LEMMA TotalChanges ==
    ASSUME NEW n, NEW m, IsFiniteSet(DOMAIN n), DOMAIN m = DOMAIN n,
           \A x \in DOMAIN n : n[x] \in Nat /\ m[x] \in Nat,
           NEW c \in DOMAIN n, \A x \in DOMAIN n : x # c => m[x] = n[x]
    PROVE  Total(m) = Total(n) - n[c] + m[c]
<1>. DEFINE Others == UNION {{x} \X (1 .. n[x]) : x \in DOMAIN n \ {c}}
<1>1. \A k \in Nat : /\ IsFiniteSet({c} \X (1 .. k))
                     /\ Cardinality({c} \X (1 .. k)) = k
  <2>. SUFFICES ASSUME NEW k \in Nat
                PROVE  /\ IsFiniteSet({c} \X (1 .. k))
                       /\ Cardinality({c} \X (1 .. k)) = k
    OBVIOUS
  <2>1. IsFiniteSet({c}) /\ Cardinality({c}) = 1
    BY FS_Singleton
  <2>2. IsFiniteSet(1 .. k) /\ Cardinality(1 .. k) = k
    <3>1. k \in Int /\ 1 \in Int
      OBVIOUS
    <3>2. IsFiniteSet(1 .. k)
          /\ Cardinality(1 .. k) = IF 1 > k THEN 0 ELSE k - 1 + 1
      BY <3>1, FS_Interval
    <3>. QED  BY <3>2
  <2>. DEFINE A == {c}
              B == 1 .. k
  <2>3. IsFiniteSet(A \X B) /\ Cardinality(A \X B) = 1 * k
    <3>. HIDE DEF A, B
    <3>1. IsFiniteSet(A) /\ IsFiniteSet(B) /\ Cardinality(A) = 1 /\ Cardinality(B) = k
      BY <2>1, <2>2 DEF A, B
    <3>. QED  BY <3>1, FS_Product
  <2>. QED  BY <2>3
<1>2. Units(n) = Others \cup ({c} \X (1 .. n[c]))
  BY DEF Units
<1>3. Units(m) = Others \cup ({c} \X (1 .. m[c]))
  BY DEF Units
<1>4. \A k \in Nat : Others \cap ({c} \X (1 .. k)) = {}
  OBVIOUS
<1>5. IsFiniteSet(Others)
  <2>1. IsFiniteSet(Units(n)) /\ Others \in SUBSET Units(n)
    BY <1>2, UnitsAreFinite
  <2>. QED  BY <2>1, FS_Subset
<1>6. Cardinality(Others) \in Nat
  BY <1>5, FS_CardinalityType
<1>7. \A k \in Nat : Cardinality(Others \cup ({c} \X (1 .. k)))
                        = Cardinality(Others) + k
  <2>. SUFFICES ASSUME NEW k \in Nat
                PROVE  Cardinality(Others \cup ({c} \X (1 .. k)))
                          = Cardinality(Others) + k
    OBVIOUS
  <2>. DEFINE C == {c} \X (1 .. k)
  <2>1. IsFiniteSet(C) /\ Cardinality(C) = k /\ Others \cap C = {}
    BY <1>1, <1>4
  <2>. HIDE DEF C, Others
  <2>2. Cardinality(Others \cup C)
           = Cardinality(Others) + Cardinality(C) - Cardinality(Others \cap C)
    BY <1>5, <2>1, FS_Union
  <2>3. Cardinality(Others \cap C) = 0
    BY <2>1, FS_EmptySet
  <2>4. Cardinality(Others \cup C) = Cardinality(Others) + k
    BY <1>6, <2>1, <2>2, <2>3
  <2>. QED  BY <2>4 DEF C
<1>. HIDE DEF Others
<1>8. Total(n) = Cardinality(Others) + n[c] /\ Total(m) = Cardinality(Others) + m[c]
  BY <1>2, <1>3, <1>7 DEF Total
<1>. QED  BY <1>6, <1>8

\* What is taken here, thing by thing, is taken there as well.
LEMMA TotalEmbeds ==
    ASSUME NEW n, NEW m, IsFiniteSet(DOMAIN m), \A x \in DOMAIN m : m[x] \in Nat,
           NEW g \in [DOMAIN n -> DOMAIN m],
           \A x, y \in DOMAIN n : g[x] = g[y] => x = y,
           \A x \in DOMAIN n : n[x] \in Nat /\ n[x] <= m[g[x]]
    PROVE  Total(n) <= Total(m) /\ Total(n) \in Nat
<1>. DEFINE f == [u \in Units(n) |-> <<g[u[1]], u[2]>>]
<1>1. \A u \in Units(n) : /\ u = <<u[1], u[2]>> /\ u[1] \in DOMAIN n
                          /\ u[2] \in 1 .. n[u[1]]
  BY DEF Units
<1>2. \A u \in Units(n) : f[u] \in Units(m)
  <2>. SUFFICES ASSUME NEW u \in Units(n) PROVE <<g[u[1]], u[2]>> \in Units(m)
    OBVIOUS
  <2>1. g[u[1]] \in DOMAIN m /\ u[2] \in 1 .. m[g[u[1]]]
    BY <1>1
  <2>. QED  BY <2>1 DEF Units
<1>3. \A u, v \in Units(n) : f[u] = f[v] => u = v
  <2>. SUFFICES ASSUME NEW u \in Units(n), NEW v \in Units(n), f[u] = f[v]
                PROVE  u = v
    OBVIOUS
  <2>1. g[u[1]] = g[v[1]] /\ u[2] = v[2]
    OBVIOUS
  <2>2. u[1] = v[1]
    BY <1>1, <2>1
  <2>. QED  BY <1>1, <2>1, <2>2
<1>4. f \in Injection(Units(n), Units(m))
  <2>. HIDE DEF f
  <2>1. f \in [Units(n) -> Units(m)] /\ DOMAIN f = Units(n)
    BY <1>2 DEF f
  <2>. QED  BY <1>3, <2>1 DEF Injection, IsInjective
<1>5. IsFiniteSet(Units(m))
  BY UnitsAreFinite
<1>. HIDE DEF f
<1>6. IsFiniteSet(Units(n)) /\ Cardinality(Units(n)) <= Cardinality(Units(m))
  BY <1>4, <1>5, FS_Injection
<1>. QED  BY <1>6, FS_CardinalityType DEF Total

\* Two takings of the same things, side by side.
LEMMA TotalSplits ==
    ASSUME NEW n, NEW m, NEW s, IsFiniteSet(DOMAIN s),
           DOMAIN n = DOMAIN s, DOMAIN m = DOMAIN s,
           \A x \in DOMAIN s : n[x] \in Nat /\ m[x] \in Nat /\ s[x] = n[x] + m[x]
    PROVE  Total(n) + Total(m) <= Total(s)
<1>. DEFINE f == [u \in Units(m) |-> <<u[1], n[u[1]] + u[2]>>]
            Rest == Units(s) \ Units(n)
<1>0. \A x \in DOMAIN s : s[x] \in Nat
  OBVIOUS
<1>1. IsFiniteSet(Units(s)) /\ IsFiniteSet(Units(n)) /\ IsFiniteSet(Units(m))
      /\ Total(n) \in Nat /\ Total(m) \in Nat /\ Total(s) \in Nat
  BY <1>0, UnitsAreFinite
<1>2. \A u \in Units(m) : /\ u = <<u[1], u[2]>> /\ u[1] \in DOMAIN s
                          /\ u[2] \in 1 .. m[u[1]]
  BY DEF Units
<1>3. \A u \in Units(m) : f[u] \in Rest
  <2>. SUFFICES ASSUME NEW u \in Units(m) PROVE <<u[1], n[u[1]] + u[2]>> \in Rest
    OBVIOUS
  <2>. DEFINE x == u[1]
              k == n[x] + u[2]
  <2>1. x \in DOMAIN s /\ u[2] \in 1 .. m[x] /\ n[x] \in Nat /\ m[x] \in Nat
        /\ s[x] = n[x] + m[x]
    BY <1>2
  <2>2. k \in 1 .. s[x] /\ k \notin 1 .. n[x]
    BY <2>1
  <2>3. <<x, k>> \in Units(s)
    BY <2>1, <2>2 DEF Units
  <2>4. <<x, k>> \notin Units(n)
    BY <2>2 DEF Units
  <2>. QED  BY <2>3, <2>4
<1>4. \A u, v \in Units(m) : f[u] = f[v] => u = v
  <2>. SUFFICES ASSUME NEW u \in Units(m), NEW v \in Units(m), f[u] = f[v]
                PROVE  u = v
    OBVIOUS
  <2>1. u[1] = v[1] /\ n[u[1]] + u[2] = n[v[1]] + v[2]
    OBVIOUS
  <2>2. n[u[1]] \in Nat /\ u[2] \in Int /\ v[2] \in Int
    BY <1>2
  <2>3. u[2] = v[2]
    BY <2>1, <2>2
  <2>. QED  BY <1>2, <2>1, <2>3
<1>5. f \in Injection(Units(m), Rest)
  <2>. HIDE DEF f, Rest
  <2>1. f \in [Units(m) -> Rest] /\ DOMAIN f = Units(m)
    BY <1>3 DEF f
  <2>. QED  BY <1>4, <2>1 DEF Injection, IsInjective
<1>6. Units(n) \subseteq Units(s)
  <2>. SUFFICES ASSUME NEW x \in DOMAIN s, NEW i \in 1 .. n[x]
                PROVE  <<x, i>> \in Units(s)
    BY DEF Units
  <2>1. i \in 1 .. s[x]
    OBVIOUS
  <2>. QED  BY <2>1 DEF Units
<1>7. IsFiniteSet(Rest) /\ Units(s) = Units(n) \cup Rest /\ Units(n) \cap Rest = {}
  <2>1. Rest \in SUBSET Units(s)
    OBVIOUS
  <2>. QED  BY <1>1, <1>6, <2>1, FS_Subset
<1>. HIDE DEF f, Rest
<1>8. Cardinality(Units(m)) <= Cardinality(Rest) /\ Cardinality(Rest) \in Nat
  BY <1>5, <1>7, FS_Injection, FS_CardinalityType
<1>9. Cardinality(Units(s)) = Cardinality(Units(n)) + Cardinality(Rest)
                                - Cardinality(Units(n) \cap Rest)
  BY <1>1, <1>7, FS_Union
<1>10. Cardinality(Units(n) \cap Rest) = 0
  BY <1>7, FS_EmptySet
<1>. QED  BY <1>1, <1>8, <1>9, <1>10 DEF Total

\* What is taken in n is taken in the parts of s: in the part g gives it, as the
\* thing h names.
PlacedIn(n, part, s, g, h) ==
    /\ DOMAIN part = DOMAIN s /\ IsFiniteSet(DOMAIN s)
    /\ \A x \in DOMAIN s : /\ IsFiniteSet(DOMAIN part[x])
                           /\ \A y \in DOMAIN part[x] : part[x][y] \in Nat
                           /\ s[x] = Total(part[x])
    /\ \A x \in DOMAIN n : /\ g[x] \in DOMAIN s /\ h[x] \in DOMAIN part[g[x]]
                           /\ n[x] \in Nat /\ n[x] <= part[g[x]][h[x]]
    /\ \A x, y \in DOMAIN n : g[x] = g[y] /\ h[x] = h[y] => x = y

LEMMA TotalOfParts ==
    ASSUME NEW n, NEW part, NEW s, NEW g, NEW h, PlacedIn(n, part, s, g, h)
    PROVE  Total(n) <= Total(s) /\ Total(n) \in Nat
<1>. USE DEF PlacedIn
<1>. DEFINE Counts(x, c) == c \in Surjection(1 .. s[x], Units(part[x]))
            count == [x \in DOMAIN s |-> CHOOSE c : Counts(x, c)]
            At(u) == CHOOSE k \in 1 .. s[g[u[1]]] : count[g[u[1]]][k] = <<h[u[1]], u[2]>>
            f == [u \in Units(n) |-> <<g[u[1]], At(u)>>]
<1>1. \A x \in DOMAIN s : s[x] \in Nat /\ Counts(x, count[x])
  <2>. SUFFICES ASSUME NEW x \in DOMAIN s PROVE s[x] \in Nat /\ Counts(x, count[x])
    OBVIOUS
  <2>. DEFINE p == part[x]
  <2>1. IsFiniteSet(DOMAIN p) /\ (\A y \in DOMAIN p : p[y] \in Nat) /\ s[x] = Total(p)
    OBVIOUS
  <2>. HIDE DEF p
  <2>2. IsFiniteSet(Units(p)) /\ Total(p) \in Nat
    BY <2>1, UnitsAreFinite
  <2>3. ExistsBijection(1 .. Total(p), Units(p))
    BY <2>2, FS_CardinalityType DEF Total
  <2>4. \E c : c \in Surjection(1 .. Total(p), Units(p))
    BY <2>3 DEF ExistsBijection, Bijection
  <2>5. \E c : Counts(x, c)
    BY <2>1, <2>4 DEF p
  <2>6. Counts(x, CHOOSE c : Counts(x, c))
    BY <2>5
  <2>. QED  BY <2>1, <2>2, <2>6
<1>2. \A u \in Units(n) : /\ u = <<u[1], u[2]>> /\ u[1] \in DOMAIN n
                          /\ u[2] \in 1 .. n[u[1]]
  BY DEF Units
<1>3. \A u \in Units(n) : /\ g[u[1]] \in DOMAIN s /\ At(u) \in 1 .. s[g[u[1]]]
                          /\ count[g[u[1]]][At(u)] = <<h[u[1]], u[2]>>
  <2>. SUFFICES ASSUME NEW u \in Units(n)
                PROVE  /\ g[u[1]] \in DOMAIN s /\ At(u) \in 1 .. s[g[u[1]]]
                       /\ count[g[u[1]]][At(u)] = <<h[u[1]], u[2]>>
    OBVIOUS
  <2>. DEFINE x == u[1]
              p == part[g[x]]
              c == count[g[x]]
  <2>1. x \in DOMAIN n /\ g[x] \in DOMAIN s
    BY <1>2
  <2>2. h[x] \in DOMAIN p /\ n[x] \in Nat /\ p[h[x]] \in Nat /\ n[x] <= p[h[x]]
    BY <2>1
  <2>3. u[2] \in 1 .. n[x]
    BY <1>2
  <2>4. u[2] \in 1 .. p[h[x]]
    <3>. HIDE DEF x, p
    <3>. QED  BY <2>2, <2>3
  <2>5. <<h[x], u[2]>> \in Units(p)
    <3>. HIDE DEF x, p
    <3>. QED  BY <2>2, <2>4 DEF Units
  <2>6. Counts(g[x], c)
    BY <1>1, <2>1
  <2>7. \E k \in 1 .. s[g[x]] : c[k] = <<h[x], u[2]>>
    <3>. HIDE DEF c
    <3>. QED  BY <2>5, <2>6 DEF Surjection
  <2>8. At(u) \in 1 .. s[g[x]] /\ c[At(u)] = <<h[x], u[2]>>
    <3>. HIDE DEF count
    <3>. QED  BY <2>7
  <2>. QED  BY <2>1, <2>8
<1>. HIDE DEF At, count
<1>4. \A u \in Units(n) : f[u] \in Units(s)
  BY <1>3 DEF Units
<1>5. \A u, v \in Units(n) : f[u] = f[v] => u = v
  <2>. SUFFICES ASSUME NEW u \in Units(n), NEW v \in Units(n), f[u] = f[v]
                PROVE  u = v
    OBVIOUS
  <2>1. g[u[1]] = g[v[1]] /\ At(u) = At(v)
    OBVIOUS
  <2>2. <<h[u[1]], u[2]>> = <<h[v[1]], v[2]>>
    BY <1>3, <2>1
  <2>3. h[u[1]] = h[v[1]] /\ u[2] = v[2]
    BY <2>2
  <2>4. u[1] = v[1]
    BY <1>2, <2>1, <2>3
  <2>. QED  BY <1>2, <2>3, <2>4
<1>6. f \in Injection(Units(n), Units(s))
  <2>. HIDE DEF f
  <2>1. f \in [Units(n) -> Units(s)] /\ DOMAIN f = Units(n)
    BY <1>4 DEF f
  <2>. QED  BY <1>5, <2>1 DEF Injection, IsInjective
<1>7. IsFiniteSet(Units(s))
  BY <1>1, UnitsAreFinite
<1>. HIDE DEF f
<1>8. IsFiniteSet(Units(n)) /\ Cardinality(Units(n)) <= Cardinality(Units(s))
  BY <1>6, <1>7, FS_Injection
<1>. QED  BY <1>8, FS_CardinalityType DEF Total
=============================================================================
