------------------------- MODULE SlotSummary_proofs -------------------------
(***************************************************************************)
(* Proofs about the slot summaries.  The first part is about the persistent *)
(* batch: whatever rows leave, join and move, the batch lists the rows of   *)
(* the step once each, decode rows first.  The second part is about what    *)
(* the slots hold.                                                          *)
(***************************************************************************)
EXTENDS SlotSummary, SequenceLemmas, FiniteSetTheorems

-----------------------------------------------------------------------------
(* Enumerations in ascending order *)

\* s lists the elements of S, each once and in ascending order.
Lists(s, S) ==
    /\ s \in [1 .. Cardinality(S) -> S]
    /\ \A i, j \in 1 .. Cardinality(S) : i < j => s[i] < s[j]
    /\ \A x \in S : \E i \in 1 .. Cardinality(S) : s[i] = x

\* Every finite set of numbers has such a list: take the least element first.
LEMMA ListExists ==
    ASSUME NEW S \in SUBSET Nat, IsFiniteSet(S)
    PROVE  \E s : Lists(s, S)
  <1> DEFINE Bad == {n \in Nat : \E T \in SUBSET Nat :
                        /\ IsFiniteSet(T) /\ Cardinality(T) = n
                        /\ \A s : ~Lists(s, T)}
  <1> SUFFICES ASSUME Bad # {} PROVE FALSE
    BY FS_CardinalityType
  <1>1. PICK n \in Bad : \A m \in Bad : n <= m
    BY LeastElement
  <1>2. PICK T \in SUBSET Nat : IsFiniteSet(T) /\ Cardinality(T) = n /\ \A s : ~Lists(s, T)
    BY <1>1
  <1>3. T # {}
    <2> SUFFICES ASSUME T = {} PROVE FALSE
      OBVIOUS
    <2>1. Cardinality(T) = 0 /\ 1 .. 0 = {}
      BY FS_EmptySet
    <2>2. Lists([i \in {} |-> 0], T)
      BY <2>1 DEF Lists
    <2> QED  BY <1>2, <2>2
  <1>4. PICK x \in T : \A y \in T : x <= y
    BY <1>3, LeastElement
  <1>5. /\ IsFiniteSet(T \ {x}) /\ Cardinality(T \ {x}) = n - 1 /\ n \in Nat /\ n - 1 \in Nat
    <2>1. IsFiniteSet(T \ {x}) /\ Cardinality(T \ {x}) = Cardinality(T) - 1
      BY <1>2, <1>4, FS_RemoveElement
    <2>2. Cardinality(T \ {x}) \in Nat
      BY <2>1, FS_CardinalityType
    <2> QED  BY <1>1, <1>2, <2>1, <2>2
  <1>6. PICK s : Lists(s, T \ {x})
    <2>1. n - 1 \notin Bad
      BY <1>1, <1>5
    <2> QED  BY <1>5, <2>1
  <1> HIDE DEF Bad
  <1>7. PICK m \in Nat : m = n - 1 /\ n = m + 1
    BY <1>5
  <1>8. /\ s \in [1 .. m -> T \ {x}]
        /\ \A i, j \in 1 .. m : i < j => s[i] < s[j]
        /\ \A y \in T \ {x} : \E i \in 1 .. m : s[i] = y
    BY <1>5, <1>6, <1>7 DEF Lists
  <1> DEFINE t == [i \in 1 .. m + 1 |-> IF i = 1 THEN x ELSE s[i - 1]]
  <1>9. \A i \in 1 .. m + 1 : i # 1 => i - 1 \in 1 .. m
    BY <1>7
  <1>10. t \in [1 .. m + 1 -> T]
    BY <1>8, <1>9
  <1>11. ASSUME NEW i \in 1 .. m + 1, NEW j \in 1 .. m + 1, i < j PROVE t[i] < t[j]
    <2>1. j # 1 /\ j - 1 \in 1 .. m /\ t[j] = s[j - 1] /\ t[j] \in T \ {x}
      BY <1>8, <1>9, <1>11
    <2>2. CASE i = 1
      <3>1. t[i] = x /\ x <= t[j] /\ x # t[j] /\ x \in Nat /\ t[j] \in Nat
        BY <1>4, <2>1, <2>2
      <3> QED  BY <3>1
    <2>3. CASE i # 1
      <3>1. i - 1 \in 1 .. m /\ i - 1 < j - 1 /\ t[i] = s[i - 1]
        BY <1>9, <1>11, <2>3
      <3> QED  BY <1>8, <2>1, <3>1
    <2> QED  BY <2>2, <2>3
  <1>12. ASSUME NEW y \in T PROVE \E i \in 1 .. m + 1 : t[i] = y
    <2>1. CASE y = x
      <3>1. 1 \in 1 .. m + 1 /\ t[1] = x
        BY <1>7
      <3> QED  BY <2>1, <3>1
    <2>2. CASE y # x
      <3>1. PICK i \in 1 .. m : s[i] = y
        BY <1>8, <2>2
      <3>2. i + 1 \in 1 .. m + 1 /\ i + 1 # 1 /\ (i + 1) - 1 = i
        BY <1>7
      <3>3. t[i + 1] = y
        BY <3>1, <3>2
      <3> QED  BY <3>2, <3>3
    <2> QED  BY <2>1, <2>2
  <1> HIDE DEF t
  <1>13. Lists(t, T)
    BY <1>2, <1>7, <1>10, <1>11, <1>12 DEF Lists
  <1> QED  BY <1>2, <1>13

\* Ascending(S) is such a list, whatever list CHOOSE takes.
LEMMA AscendingLists ==
    ASSUME NEW S \in SUBSET Nat, IsFiniteSet(S)
    PROVE  Lists(Ascending(S), S) /\ Cardinality(S) \in Nat
  <1> DEFINE n == Cardinality(S)
             Sorted(s) == \A i, j \in DOMAIN s : i < j => s[i] < s[j]
  <1>1. n \in Nat
    BY FS_CardinalityType
  <1>2. PICK s : Lists(s, S)
    BY ListExists
  <1>3. s \in SetToSeqs(S) /\ Sorted(s)
    <2>1. s \in [1 .. n -> S] /\ Sorted(s)
      BY <1>2 DEF Lists
    <2>2. ASSUME NEW i \in 1 .. n, NEW j \in 1 .. n, i # j PROVE s[i] # s[j]
      <3>1. i < j \/ j < i
        BY <1>1, <2>2
      <3>2. s[i] < s[j] \/ s[j] < s[i]
        BY <2>1, <3>1
      <3>3. s[i] \in Nat /\ s[j] \in Nat
        BY <2>1
      <3> QED  BY <3>2, <3>3
    <2> QED  BY <2>1, <2>2 DEF SetToSeqs
  <1>4. PICK t : t = Ascending(S) /\ t \in SetToSeqs(S) /\ Sorted(t)
    BY <1>3 DEF Ascending
  <1>5. t \in [1 .. n -> S] /\ \A i, j \in 1 .. n : i # j => t[i] # t[j]
    BY <1>4 DEF SetToSeqs
  <1>6. \A x \in S : \E i \in 1 .. n : t[i] = x
    <2>1. t \in Injection(1 .. n, S)
      BY <1>5 DEF Injection, IsInjective
    <2>2. Cardinality(1 .. n) = n /\ IsFiniteSet(1 .. n)
      BY <1>1, FS_Interval
    <2>3. t \in Surjection(1 .. n, S)
      BY <2>1, <2>2, FS_Injection
    <2> QED  BY <2>3 DEF Surjection
  <1>7. Lists(t, S)
    BY <1>4, <1>5, <1>6 DEF Lists
  <1> QED  BY <1>1, <1>4, <1>7

\* The position of an element in a list.
LEMMA PlaceInList ==
    ASSUME NEW S, NEW s, Lists(s, S), NEW x \in S,
           NEW k, k = CHOOSE j \in DOMAIN s : s[j] = x
    PROVE  k \in 1 .. Cardinality(S) /\ s[k] = x
  <1>1. DOMAIN s = 1 .. Cardinality(S) /\ \E i \in 1 .. Cardinality(S) : s[i] = x
    BY DEF Lists
  <1> QED  BY <1>1

\* A list has no element twice.
LEMMA ListInjective ==
    ASSUME NEW S \in SUBSET Nat, NEW s, Lists(s, S), Cardinality(S) \in Nat,
           NEW i \in 1 .. Cardinality(S), NEW j \in 1 .. Cardinality(S), s[i] = s[j]
    PROVE  i = j
  <1> SUFFICES ASSUME i # j PROVE FALSE
    OBVIOUS
  <1>1. i < j \/ j < i
    OBVIOUS
  <1>2. s[i] < s[j] \/ s[j] < s[i]
    BY <1>1 DEF Lists
  <1>3. s[i] \in Nat /\ s[j] \in Nat
    BY DEF Lists
  <1> QED  BY <1>2, <1>3

\* When W1 lies below W2, the first entries of the list of both are those of W1.
LEMMA LowerFirst ==
    ASSUME NEW W1 \in SUBSET Nat, NEW W2 \in SUBSET Nat, IsFiniteSet(W1), IsFiniteSet(W2),
           \A x \in W1, y \in W2 : x < y,
           NEW s, Lists(s, W1 \cup W2), NEW k \in 1 .. Cardinality(W1 \cup W2)
    PROVE  /\ Cardinality(W1) \in Nat /\ Cardinality(W2) \in Nat
           /\ Cardinality(W1 \cup W2) = Cardinality(W1) + Cardinality(W2)
           /\ s[k] \in W1 => k <= Cardinality(W1)
           /\ s[k] \in W2 => k > Cardinality(W1)
  <1>1. Cardinality(W1) \in Nat /\ Cardinality(W2) \in Nat
    BY FS_CardinalityType
  <1>2. Cardinality(W1 \cup W2) = Cardinality(W1) + Cardinality(W2)
    <2>1. W1 \cap W2 = {}
      <3> SUFFICES ASSUME NEW x \in W1, x \in W2 PROVE FALSE
        OBVIOUS
      <3>1. x < x /\ x \in Nat
        OBVIOUS
      <3> QED  BY <3>1
    <2>2. Cardinality(W1 \cap W2) = 0
      BY <2>1, FS_EmptySet
    <2>3. Cardinality(W1 \cup W2) = Cardinality(W1) + Cardinality(W2) - Cardinality(W1 \cap W2)
      BY FS_Union
    <2> QED  BY <1>1, <2>2, <2>3
  <1>3. PICK n1 \in Nat, n2 \in Nat, n \in Nat :
           n1 = Cardinality(W1) /\ n2 = Cardinality(W2) /\ n = n1 + n2 /\ n = Cardinality(W1 \cup W2)
    BY <1>1, <1>2
  <1>4. k \in 1 .. n /\ k \in Nat
    BY <1>3
  <1>5. /\ s \in [1 .. n -> W1 \cup W2]
        /\ \A i, j \in 1 .. n : i < j => s[i] < s[j]
        /\ \A i, j \in 1 .. n : s[i] = s[j] => i = j
    <2>1. \A i, j \in 1 .. n : s[i] = s[j] => i = j
      BY <1>3, ListInjective
    <2> QED  BY <1>3, <2>1 DEF Lists
  <1>6. ASSUME s[k] \in W1 PROVE k <= n1
    <2> DEFINE f == [j \in 1 .. k |-> s[j]]
    <2>1. ASSUME NEW j \in 1 .. k PROVE j \in 1 .. n /\ s[j] \in W1
      <3>1. j \in 1 .. n /\ (j = k \/ j < k)
        BY <1>4
      <3>2. CASE j < k
        <4>1. s[j] < s[k] /\ s[j] \in W1 \cup W2 /\ s[j] \in Nat /\ s[k] \in Nat
          BY <1>4, <1>5, <3>1, <3>2
        <4>2. ~(s[k] < s[j])
          BY <4>1
        <4> QED  BY <1>6, <3>1, <4>1, <4>2
      <3> QED  BY <1>6, <3>1, <3>2
    <2>2. f \in Injection(1 .. k, W1)
      BY <1>5, <2>1 DEF Injection, IsInjective
    <2>3. Cardinality(1 .. k) <= n1
      BY <1>3, <2>2, FS_Injection
    <2>4. Cardinality(1 .. k) = k
      BY <1>4, FS_Interval
    <2> QED  BY <2>3, <2>4
  <1>7. ASSUME s[k] \in W2 PROVE k > n1
    <2> DEFINE f == [j \in k .. n |-> s[j]]
    <2>1. ASSUME NEW j \in k .. n PROVE j \in 1 .. n /\ s[j] \in W2
      <3>1. j \in 1 .. n /\ (j = k \/ k < j)
        BY <1>4
      <3>2. CASE k < j
        <4>1. s[k] < s[j] /\ s[j] \in W1 \cup W2 /\ s[j] \in Nat /\ s[k] \in Nat
          BY <1>4, <1>5, <3>1, <3>2
        <4>2. ~(s[j] < s[k])
          BY <4>1
        <4> QED  BY <1>7, <3>1, <4>1, <4>2
      <3> QED  BY <1>7, <3>1, <3>2
    <2>2. f \in Injection(k .. n, W2)
      BY <1>5, <2>1 DEF Injection, IsInjective
    <2>3. Cardinality(k .. n) <= n2
      BY <1>3, <2>2, FS_Injection
    <2>4. Cardinality(k .. n) = n - k + 1
      BY <1>4, FS_Interval
    <2> QED  BY <1>3, <1>4, <2>3, <2>4
  <1> QED  BY <1>1, <1>2, <1>3, <1>6, <1>7

\* Sets of the same size have rests of the same size.
LEMMA SameRest ==
    ASSUME NEW A, NEW B, IsFiniteSet(A), IsFiniteSet(B), Cardinality(A) = Cardinality(B)
    PROVE  IsFiniteSet(A \ B) /\ IsFiniteSet(B \ A) /\ Cardinality(A \ B) = Cardinality(B \ A)
  <1>1. A \cap B = B \cap A
    OBVIOUS
  <1>2. IsFiniteSet(A \ B) /\ Cardinality(A \ B) = Cardinality(A) - Cardinality(A \cap B)
    BY FS_Difference
  <1>3. IsFiniteSet(B \ A) /\ Cardinality(B \ A) = Cardinality(B) - Cardinality(B \cap A)
    BY FS_Difference
  <1> QED  BY <1>1, <1>2, <1>3

-----------------------------------------------------------------------------
(* The persistent batch *)

\* b lists the requests of S, each once, and nothing else.
RowsOf(b, m, S) ==
    /\ b \in [1 .. m -> S]
    /\ \A i, j \in 1 .. m : b[i] = b[j] => i = j
    /\ \A r \in S : \E i \in 1 .. m : b[i] = r

\* The requests of a part D of the batch, and the places they have.
LEMMA PlacesOf ==
    ASSUME NEW m \in Nat, NEW S, NEW b, RowsOf(b, m, S), NEW D \in SUBSET S,
           NEW I, I = {i \in 1 .. m : b[i] \in D}
    PROVE  /\ IsFiniteSet(I) /\ IsFiniteSet(D) /\ Cardinality(I) = Cardinality(D)
           /\ Cardinality(D) \in 0 .. m
  <1>1. IsFiniteSet(1 .. m) /\ Cardinality(1 .. m) = m
    BY FS_Interval
  <1>2. IsFiniteSet(I) /\ Cardinality(I) <= m
    BY <1>1, FS_Subset
  <1> DEFINE f == [i \in I |-> b[i]]
  <1>3. f \in Bijection(I, D)
    BY DEF RowsOf, Bijection, Injection, Surjection, IsInjective
  <1>4. ExistsBijection(I, D)
    BY <1>3 DEF ExistsBijection
  <1>5. IsFiniteSet(D) /\ Cardinality(D) = Cardinality(I)
    BY <1>2, <1>4, FS_Bijection
  <1>6. Cardinality(D) \in Nat
    BY <1>5, FS_CardinalityType
  <1> QED  BY <1>2, <1>5, <1>6

\* p is b, of length m, with q rows put at the places of A.
Placing(p, m, b, A, places, q, rows) ==
    /\ m \in Nat /\ DOMAIN b = 1 .. m
    /\ A \in SUBSET (1 .. m) /\ Lists(places, A) /\ Cardinality(A) \in Nat
    /\ q \in Nat /\ DOMAIN rows = 1 .. q
    /\ p = Placed(b, places, rows)

\* What Placed does: the k-th row at the k-th place, the other places as they were.
LEMMA PlacedRows ==
    ASSUME NEW m, NEW b, NEW A, NEW places, NEW q, NEW rows, NEW p,
           Placing(p, m, b, A, places, q, rows)
    PROVE  /\ p = [i \in 1 .. m |-> p[i]]
           /\ \A i \in (1 .. m) \ A : p[i] = b[i]
           /\ \A k \in 1 .. Cardinality(A) :
                 /\ places[k] \in A
                 /\ k <= q => p[places[k]] = rows[k]
                 /\ k > q => p[places[k]] = b[places[k]]
  <1>0. /\ m \in Nat /\ DOMAIN b = 1 .. m
        /\ A \in SUBSET (1 .. m) /\ Lists(places, A) /\ Cardinality(A) \in Nat
        /\ q \in Nat /\ DOMAIN rows = 1 .. q
        /\ p = Placed(b, places, rows)
    BY DEF Placing
  <1>1. DOMAIN b = 1 .. m /\ DOMAIN places = 1 .. Cardinality(A) /\ A \in SUBSET Nat
    BY <1>0 DEF Lists
  <1>2. \A k \in 1 .. Cardinality(A) : places[k] \in A
    BY <1>0 DEF Lists
  <1>3. \A i \in 1 .. m :
          p[i] =
            IF \E k \in DOMAIN places \cap DOMAIN rows : places[k] = i
                THEN rows[CHOOSE k \in DOMAIN places : places[k] = i] ELSE b[i]
    BY <1>0, <1>1 DEF Placed
  <1>4. p = [i \in 1 .. m |-> p[i]]
    BY <1>0, <1>1 DEF Placed
  <1>5. ASSUME NEW i \in (1 .. m) \ A PROVE p[i] = b[i]
    <2>1. ~ \E k \in DOMAIN places \cap DOMAIN rows : places[k] = i
      BY <1>1, <1>2
    <2> QED  BY <1>3, <2>1
  <1>6. ASSUME NEW k \in 1 .. Cardinality(A)
        PROVE  /\ places[k] \in A
               /\ k <= q => p[places[k]] = rows[k]
               /\ k > q => p[places[k]] = b[places[k]]
    <2>1. places[k] \in A /\ places[k] \in 1 .. m
      BY <1>0, <1>2
    <2>2. PICK j : j = CHOOSE l \in DOMAIN places : places[l] = places[k]
      OBVIOUS
    <2>3. j \in 1 .. Cardinality(A) /\ places[j] = places[k]
      BY <1>0, <2>1, <2>2, PlaceInList
    <2>4. j = k
      BY <1>0, <1>1, <2>3, ListInjective
    <2>5. ASSUME k <= q PROVE p[places[k]] = rows[k]
      <3>1. k \in DOMAIN places \cap DOMAIN rows
        BY <1>0, <1>1, <2>5
      <3> QED  BY <1>3, <2>1, <2>2, <2>4, <3>1
    <2>6. ASSUME k > q PROVE p[places[k]] = b[places[k]]
      <3>1. ASSUME NEW l \in DOMAIN places \cap DOMAIN rows, places[l] = places[k] PROVE FALSE
        <4>1. l = k /\ l \in 1 .. q
          BY <1>0, <1>1, <3>1, ListInjective
        <4> QED  BY <1>0, <2>6, <4>1
      <3> QED  BY <1>3, <2>1, <3>1
    <2> QED  BY <2>1, <2>5, <2>6
  <1> QED  BY <1>4, <1>5, <1>6

\* reorder_batch_to_split_decodes_and_prefills: no row is lost or doubled, and
\* the decode rows come first.
LEMMA ReorderRows ==
    ASSUME NEW m \in Nat, NEW S, NEW b, RowsOf(b, m, S), NEW D \in SUBSET S
    PROVE  /\ RowsOf(Reorder(b, D), m, S)
           /\ \A i \in 1 .. Cardinality(D) : i \in 1 .. m /\ Reorder(b, D)[i] \in D
           /\ Cardinality(D) \in 0 .. m
  <1>1. PICK n \in Nat : n = Cardinality(D) /\ n <= m /\ IsFiniteSet(D)
    <2>1. PICK I : I = {i \in 1 .. m : b[i] \in D}
      OBVIOUS
    <2>2. IsFiniteSet(D) /\ Cardinality(D) \in 0 .. m
      BY <2>1, PlacesOf
    <2> QED  BY <2>2
  <1> DEFINE I == {i \in 1 .. m : b[i] \in D}
             W1 == (1 .. n) \ I
             W2 == I \ (1 .. n)
             W == W1 \cup W2
  <1>2. DOMAIN b = 1 .. m /\ b \in [1 .. m -> S]
    BY DEF RowsOf
  <1>3. /\ IsFiniteSet(W1) /\ IsFiniteSet(W2) /\ Cardinality(W1) = Cardinality(W2)
    <2>1. IsFiniteSet(I) /\ Cardinality(I) = n
      BY <1>1, PlacesOf
    <2>2. IsFiniteSet(1 .. n) /\ Cardinality(1 .. n) = n
      BY <1>1, FS_Interval
    <2> QED  BY <2>1, <2>2, SameRest
  <1>4. /\ W1 \in SUBSET Nat /\ W2 \in SUBSET Nat /\ W \in SUBSET Nat
        /\ W1 \subseteq 1 .. m /\ W2 \subseteq 1 .. m /\ \A x \in W1, y \in W2 : x < y
    BY <1>1
  <1>5. /\ {i \in DOMAIN b : (b[i] \in D) # (i <= n)} = W
        /\ {i \in W : b[i] \in D} = W2 /\ {i \in W : b[i] \notin D} = W1
    BY <1>1, <1>2
  <1>6. IsFiniteSet(W)
    BY <1>3, FS_Union
  <1>7. PICK to, f1, f2 :
          /\ to = Ascending(W) /\ Lists(to, W)
          /\ f1 = Ascending(W1) /\ Lists(f1, W1)
          /\ f2 = Ascending(W2) /\ Lists(f2, W2)
    BY <1>3, <1>4, <1>6, AscendingLists
  <1>8. PICK w \in Nat : w = Cardinality(W1) /\ w = Cardinality(W2)
    BY <1>3, FS_CardinalityType
  <1>9. PICK u, rows, r :
          /\ u = f2 \o f1 /\ rows = [k \in DOMAIN u |-> b[u[k]]]
          /\ r = Placed(b, to, rows) /\ r = Reorder(b, D)
    <2>1. {i \in DOMAIN b : (b[i] \in D) # (i <= Cardinality(D))} = W
      BY <1>1, <1>5
    <2> HIDE DEF W, W1, W2
    <2>2. PICK u : u = f2 \o f1
      OBVIOUS
    <2>3. PICK rows : rows = [k \in DOMAIN u |-> b[u[k]]]
      OBVIOUS
    <2>4. Reorder(b, D) = Placed(b, to, rows)
      BY <1>5, <1>7, <2>1, <2>2, <2>3, Zenon DEF Reorder
    <2> QED  BY <2>2, <2>3, <2>4
  <1> HIDE DEF I, W1, W2, W
  <1>10. /\ f1 \in [1 .. w -> W1] /\ f2 \in [1 .. w -> W2]
         /\ f1 \in Seq(Nat) /\ f2 \in Seq(Nat) /\ Len(f1) = w /\ Len(f2) = w
    <2>1. f1 \in [1 .. w -> W1] /\ f2 \in [1 .. w -> W2]
      BY <1>7, <1>8 DEF Lists
    <2>2. f1 \in [1 .. w -> Nat] /\ f2 \in [1 .. w -> Nat]
      BY <1>4, <2>1
    <2>3. f1 \in Seq(Nat) /\ f2 \in Seq(Nat)
      BY <2>2, SeqDef
    <2>4. Len(f1) = w /\ Len(f2) = w
      BY <2>2, <2>3, LenProperties
    <2> QED  BY <2>1, <2>3, <2>4
  <1>11. /\ DOMAIN u = 1 .. w + w
         /\ \A k \in 1 .. w : u[k] = f2[k]
         /\ \A k \in 1 .. w + w : k > w => k - w \in 1 .. w /\ u[k] = f1[k - w]
    BY <1>9, <1>10, ConcatIndices, SMTT(30)
  \* Misplaced rows come from the other side.
  <1>12. ASSUME NEW i \in W
         PROVE  \E k \in 1 .. w + w :
                    /\ to[k] = i /\ r[i] = b[u[k]]
                    /\ i \in W1 => k <= w /\ u[k] \in W2
                    /\ i \in W2 => k > w /\ u[k] \in W1
    <2>1. PICK k \in 1 .. Cardinality(W) : to[k] = i
      BY <1>7 DEF Lists
    <2>2. Lists(to, W1 \cup W2) /\ k \in 1 .. Cardinality(W1 \cup W2) /\ W = W1 \cup W2
      BY <1>7, <2>1 DEF W
    <2>3. /\ Cardinality(W1 \cup W2) = w + w
          /\ to[k] \in W1 => k <= w
          /\ to[k] \in W2 => k > w
      BY <1>3, <1>4, <1>8, <2>2, LowerFirst
    <2>4. k \in 1 .. w + w /\ Cardinality(W) = w + w
      BY <2>2, <2>3
    <2>5. r[i] = b[u[k]]
      <3>1. PICK q \in Nat : q = w + w /\ DOMAIN rows = 1 .. q /\ rows[k] = b[u[k]]
        BY <1>9, <1>11, <2>4
      <3>2. W \in SUBSET (1 .. m) /\ Cardinality(W) \in Nat /\ k <= q
        BY <1>4, <2>4, <3>1 DEF W
      <3>3. r[to[k]] = rows[k]
        <4>1. Placing(r, m, b, W, to, q, rows)
          BY <1>2, <1>7, <1>9, <3>1, <3>2 DEF Placing
        <4> QED  BY <2>1, <3>2, <4>1, PlacedRows
      <3> QED  BY <2>1, <3>1, <3>3
    <2>6. ASSUME i \in W1 PROVE k <= w /\ u[k] \in W2
      <3>1. k <= w /\ k \in 1 .. w
        BY <2>1, <2>3, <2>4, <2>6
      <3> QED  BY <1>10, <1>11, <3>1
    <2>7. ASSUME i \in W2 PROVE k > w /\ u[k] \in W1
      <3>1. k > w
        BY <2>1, <2>3, <2>7
      <3> QED  BY <1>10, <1>11, <2>4, <3>1
    <2> QED  BY <2>1, <2>4, <2>5, <2>6, <2>7
  <1>13. r = [i \in 1 .. m |-> r[i]] /\ \A i \in (1 .. m) \ W : r[i] = b[i]
    <2>1. W \in SUBSET (1 .. m) /\ Cardinality(W) \in Nat
      BY <1>4, <1>6, FS_CardinalityType DEF W
    <2>2. PICK q \in Nat : DOMAIN rows = 1 .. q
      BY <1>9, <1>11
    <2>3. Placing(r, m, b, W, to, q, rows)
      BY <1>2, <1>7, <1>9, <2>1, <2>2 DEF Placing
    <2> QED  BY <2>3, PlacedRows
  \* Each place has a source, and no two the same.
  <1>14. \E src \in [1 .. m -> 1 .. m] :
            /\ \A i \in 1 .. m : r[i] = b[src[i]]
            /\ \A i, j \in 1 .. m : src[i] = src[j] => i = j
    <2> DEFINE From(i) == CHOOSE k \in 1 .. w + w :
                            /\ to[k] = i /\ r[i] = b[u[k]]
                            /\ i \in W1 => k <= w /\ u[k] \in W2
                            /\ i \in W2 => k > w /\ u[k] \in W1
               src == [i \in 1 .. m |-> IF i \in W THEN u[From(i)] ELSE i]
    <2>1. ASSUME NEW i \in W
          PROVE  /\ From(i) \in 1 .. w + w /\ to[From(i)] = i /\ r[i] = b[u[From(i)]]
                 /\ i \in W1 => From(i) <= w /\ u[From(i)] \in W2
                 /\ i \in W2 => From(i) > w /\ u[From(i)] \in W1
      BY <1>12
    <2> HIDE DEF From
    <2>2. ASSUME NEW i \in W, NEW j \in W, u[From(i)] = u[From(j)] PROVE i = j
      <3>1. PICK k \in 1 .. w + w : k = From(i) /\ to[k] = i
        BY <2>1
      <3>2. PICK l \in 1 .. w + w : l = From(j) /\ to[l] = j
        BY <2>1
      <3>3. W1 \cap W2 = {}
        BY DEF W1, W2
      <3>4. CASE i \in W1
        <4>1. j \in W1
          BY <2>1, <2>2, <3>3, <3>4 DEF W
        <4>2. k \in 1 .. w /\ l \in 1 .. w /\ f2[k] = f2[l]
          BY <1>11, <2>1, <2>2, <3>1, <3>2, <3>4, <4>1
        <4>3. k = l
          BY <1>4, <1>7, <1>8, <4>2, ListInjective
        <4> QED  BY <3>1, <3>2, <4>3
      <3>5. CASE i \in W2
        <4>1. j \in W2
          BY <2>1, <2>2, <3>3, <3>5 DEF W
        <4>2. k > w /\ l > w /\ f1[k - w] = f1[l - w] /\ k - w \in 1 .. w /\ l - w \in 1 .. w
          BY <1>11, <2>1, <2>2, <3>1, <3>2, <3>5, <4>1
        <4>3. k - w = l - w
          BY <1>4, <1>7, <1>8, <4>2, ListInjective
        <4>4. k = l
          BY <4>3
        <4> QED  BY <3>1, <3>2, <4>4
      <3> QED  BY <3>4, <3>5 DEF W
    <2>3. ASSUME NEW i \in 1 .. m
          PROVE  src[i] \in 1 .. m /\ r[i] = b[src[i]] /\ (src[i] \in W <=> i \in W)
      BY <1>4, <1>13, <2>1 DEF W
    <2>4. \A i, j \in 1 .. m : src[i] = src[j] => i = j
      BY <2>2, <2>3
    <2> QED  BY <2>3, <2>4
  <1>15. PICK src \in [1 .. m -> 1 .. m] :
            /\ \A i \in 1 .. m : r[i] = b[src[i]]
            /\ \A i, j \in 1 .. m : src[i] = src[j] => i = j
    BY <1>14
  <1>17. ASSUME NEW i \in 1 .. m, NEW j \in 1 .. m, r[i] = r[j] PROVE i = j
    BY <1>15, <1>17 DEF RowsOf
  <1>18. r \in [1 .. m -> S]
    <2>1. \A i \in 1 .. m : r[i] \in S
      BY <1>2, <1>15
    <2> QED  BY <1>13, <2>1
  <1>19. \A x \in S : \E i \in 1 .. m : r[i] = x
    <2>1. r \in Injection(1 .. m, S)
      BY <1>17, <1>18 DEF Injection, IsInjective
    <2>2. IsFiniteSet(1 .. m) /\ Cardinality(1 .. m) = m
      BY FS_Interval
    <2>3. {i \in 1 .. m : b[i] \in S} = 1 .. m
      BY <1>2
    <2>4. IsFiniteSet(S) /\ Cardinality(S) = m
      BY <2>2, <2>3, PlacesOf, SMTT(30)
    <2>5. r \in Surjection(1 .. m, S)
      BY <2>1, <2>2, <2>4, FS_Injection
    <2> QED  BY <2>5 DEF Surjection
  <1>20. ASSUME NEW i \in 1 .. n PROVE i \in 1 .. m /\ r[i] \in D
    <2>1. i \in 1 .. m
      BY <1>1
    <2>2. CASE i \in I
      <3>1. i \notin W /\ b[i] \in D
        BY <2>2 DEF W, W1, W2, I
      <3> QED  BY <1>13, <2>1, <3>1
    <2>3. CASE i \notin I
      <3>1. i \in W1 /\ i \in W
        BY <2>3 DEF W, W1
      <3>2. PICK k \in 1 .. w + w : r[i] = b[u[k]] /\ u[k] \in W2
        BY <1>12, <3>1
      <3>3. b[u[k]] \in D
        BY <3>2 DEF W2, I
      <3> QED  BY <2>1, <3>2, <3>3
    <2> QED  BY <2>2, <2>3
  <1>21. RowsOf(r, m, S)
    BY <1>17, <1>18, <1>19 DEF RowsOf
  <1>22. \A i \in 1 .. n : i \in 1 .. m /\ r[i] \in D
    BY <1>20
  <1>23. n \in 0 .. m
    BY <1>1
  <1> QED  BY <1>1, <1>9, <1>21, <1>22, <1>23, Zenon

\* b lists the requests of S, each once, and has holes.
HoledRowsOf(b, m, S) ==
    /\ b \in [1 .. m -> S \cup {NoReq}] /\ NoReq \notin S
    /\ \A i, j \in 1 .. m : b[i] = b[j] /\ b[i] # NoReq => i = j
    /\ \A r \in S : \E i \in 1 .. m : b[i] = r

\* remove_request: those kept stay where they are.
LEMMA RemoveRows ==
    ASSUME NEW m \in Nat, NEW S, NEW b, RowsOf(b, m, S), NoReq \notin S,
           NEW keep, NEW K, K = S \cap keep
    PROVE  HoledRowsOf(RemoveRequests(b, keep), m, K)
  <1>1. DOMAIN b = 1 .. m
    BY DEF RowsOf
  <1>2. PICK r : r = RemoveRequests(b, keep) /\ r = [i \in 1 .. m |-> IF b[i] \in keep THEN b[i] ELSE NoReq]
    BY <1>1 DEF RemoveRequests
  <1>3. HoledRowsOf(r, m, K)
    BY <1>2 DEF RowsOf, HoledRowsOf
  <1> QED  BY <1>2, <1>3

\* condense: the holes are gone, and no request is lost or doubled.
LEMMA CondenseRows ==
    ASSUME NEW m \in Nat, NEW S, NEW b, HoledRowsOf(b, m, S)
    PROVE  \E n \in Nat : RowsOf(Condense(b), n, S)
  <1> DEFINE O == {i \in 1 .. m : b[i] # NoReq}
  <1>1. DOMAIN b = 1 .. m /\ Len(b) = m /\ b \in Seq(S \cup {NoReq})
    BY FunctionSeq DEF HoledRowsOf
  <1>2. PICK n \in Nat : n = Count(b) /\ n = Cardinality(O) /\ n <= m /\ IsFiniteSet(O)
    <2>1. IsFiniteSet(1 .. m) /\ Cardinality(1 .. m) = m
      BY FS_Interval
    <2>2. IsFiniteSet(O) /\ Cardinality(O) <= m
      BY <2>1, FS_Subset
    <2>3. Cardinality(O) \in Nat
      BY <2>2, FS_CardinalityType
    <2>4. Count(b) = Cardinality(O)
      BY <1>1 DEF Count
    <2> QED  BY <2>2, <2>3, <2>4
  <1> DEFINE H == (1 .. n) \ O
             L == O \ (1 .. n)
  <1>0. \A i \in 1 .. n : i \in 1 .. m
    BY <1>2
  <1>3. IsFiniteSet(H) /\ IsFiniteSet(L) /\ Cardinality(H) = Cardinality(L)
    <2>1. IsFiniteSet(1 .. n) /\ Cardinality(1 .. n) = n
      BY FS_Interval
    <2> QED  BY <1>2, <2>1, SameRest
  <1>4. {i \in 1 .. n : b[i] = NoReq} = H /\ {i \in n + 1 .. Len(b) : b[i] # NoReq} = L
    <2>1. {i \in 1 .. n : b[i] = NoReq} = H
      BY <1>0
    <2>2. \A i \in Nat : i \in n + 1 .. m <=> i \in 1 .. m /\ i \notin 1 .. n
      BY <1>2
    <2>3. {i \in n + 1 .. m : b[i] # NoReq} = L
      BY <2>2
    <2> QED  BY <1>1, <2>1, <2>3
  <1>5. H \in SUBSET Nat /\ L \in SUBSET Nat /\ H \in SUBSET (1 .. m)
    BY <1>2
  <1>6. PICK holes, l : /\ holes = Ascending(H) /\ Lists(holes, H)
                        /\ l = Ascending(L) /\ Lists(l, L)
    BY <1>3, <1>5, AscendingLists
  <1>7. PICK w \in Nat : w = Cardinality(H) /\ w = Cardinality(L)
    BY <1>3, FS_CardinalityType
  <1>8. PICK last, rows, p, c :
          /\ last = Reverse(l) /\ rows = [k \in DOMAIN last |-> b[last[k]]]
          /\ p = Placed(b, holes, rows) /\ c = SubSeq(p, 1, n) /\ c = Condense(b)
    <2> HIDE DEF H, L
    <2>1. {i \in 1 .. Count(b) : b[i] = NoReq} = H
          /\ {i \in Count(b) + 1 .. Len(b) : b[i] # NoReq} = L
      BY <1>2, <1>4
    <2>2. PICK last : last = Reverse(l)
      OBVIOUS
    <2>3. PICK rows : rows = [k \in DOMAIN last |-> b[last[k]]]
      OBVIOUS
    <2>4. Condense(b) = SubSeq(Placed(b, holes, rows), 1, n)
      BY <1>2, <1>6, <2>1, <2>2, <2>3, Zenon DEF Condense
    <2> QED  BY <2>2, <2>3, <2>4
  <1> HIDE DEF O, H, L
  <1>9. /\ last \in [1 .. w -> L] /\ DOMAIN rows = 1 .. w
        /\ \A k \in 1 .. w : rows[k] = b[last[k]]
        /\ \A j, k \in 1 .. w : last[j] = last[k] => j = k
    <2>1. l \in [1 .. w -> L]
      BY <1>6, <1>7 DEF Lists
    <2>2. Len(l) = w
      BY <2>1, FunctionSeq
    <2>3. last = [k \in 1 .. w |-> l[(w - k) + 1]]
      BY <1>8, <2>2 DEF Reverse
    <2>4. \A k \in 1 .. w : (w - k) + 1 \in 1 .. w
      OBVIOUS
    <2>5. last \in [1 .. w -> L]
      BY <2>1, <2>3, <2>4
    <2>6. ASSUME NEW j \in 1 .. w, NEW k \in 1 .. w, last[j] = last[k] PROVE j = k
      <3>1. PICK x \in 1 .. w, y \in 1 .. w : x = (w - j) + 1 /\ y = (w - k) + 1
        BY <2>4
      <3>2. l[x] = l[y]
        BY <2>3, <2>6, <3>1
      <3>3. x = y
        BY <1>5, <1>6, <1>7, <3>2, ListInjective
      <3> QED  BY <3>1, <3>3
    <2> QED  BY <1>8, <2>5, <2>6
  <1>10. /\ p = [i \in 1 .. m |-> p[i]]
         /\ \A i \in (1 .. m) \ H : p[i] = b[i]
         /\ \A k \in 1 .. w : holes[k] \in H /\ p[holes[k]] = b[last[k]]
    <2>1. Placing(p, m, b, H, holes, w, rows)
      BY <1>1, <1>5, <1>6, <1>7, <1>8, <1>9 DEF Placing
    <2>2. /\ p = [i \in 1 .. m |-> p[i]]
          /\ \A i \in (1 .. m) \ H : p[i] = b[i]
          /\ \A k \in 1 .. Cardinality(H) : holes[k] \in H /\ (k <= w => p[holes[k]] = rows[k])
      BY <2>1, PlacedRows
    <2>3. \A k \in 1 .. w : k <= w
      OBVIOUS
    <2> QED  BY <1>7, <1>9, <2>2, <2>3
  <1>11. ASSUME NEW i \in 1 .. n
         PROVE  \E s \in O : /\ p[i] = b[s]
                             /\ i \in O => s = i
                             /\ i \notin O => s \in L /\ \E k \in 1 .. w : holes[k] = i /\ s = last[k]
    <2>1. CASE i \in O
      <3>1. i \in (1 .. m) \ H
        BY <2>1 DEF O, H
      <3> QED  BY <1>10, <2>1, <3>1
    <2>2. CASE i \notin O
      <3>1. i \in H
        BY <2>2 DEF H
      <3>2. PICK k \in 1 .. w : holes[k] = i
        BY <1>6, <1>7, <3>1 DEF Lists
      <3>3. last[k] \in L /\ last[k] \in O /\ p[i] = b[last[k]]
        BY <1>9, <1>10, <3>2 DEF L
      <3> QED  BY <2>2, <3>2, <3>3
    <2> QED  BY <2>1, <2>2
  <1>12. c \in [1 .. n -> S] /\ \A i \in 1 .. n : c[i] = p[i]
    <2>1. \A s \in O : b[s] \in S
      BY DEF O, HoledRowsOf
    <2>2. \A i \in 1 .. n : p[i] \in S
      BY <1>11, <2>1
    <2>3. c \in Seq(S) /\ Len(c) = n /\ \A i \in 1 .. n : c[i] = p[i]
      <3>1. /\ c \in Seq(S) /\ Len(c) = IF 1 <= n THEN n - 1 + 1 ELSE 0
            /\ \A i \in 1 .. n - 1 + 1 : c[i] = p[1 + i - 1]
        BY <1>8, <2>2, SubSeqProperties
      <3>2. n - 1 + 1 = n /\ \A i \in 1 .. n : 1 + i - 1 = i
        OBVIOUS
      <3>3. Len(c) = n
        BY <3>1
      <3> QED  BY <3>1, <3>2, <3>3
    <2>4. DOMAIN c = 1 .. n
      BY <2>3, LenProperties
    <2> QED  BY <2>2, <2>3, <2>4, LenProperties
  <1>13. ASSUME NEW i \in 1 .. n, NEW j \in 1 .. n, c[i] = c[j] PROVE i = j
    <2>1. PICK s \in O :
            /\ c[i] = b[s] /\ (i \in O => s = i)
            /\ i \notin O => s \in L /\ \E k \in 1 .. w : holes[k] = i /\ s = last[k]
      BY <1>11, <1>12
    <2>2. PICK t \in O :
            /\ c[j] = b[t] /\ (j \in O => t = j)
            /\ j \notin O => t \in L /\ \E k \in 1 .. w : holes[k] = j /\ t = last[k]
      BY <1>11, <1>12
    <2>3. s = t
      BY <1>13, <2>1, <2>2 DEF O, HoledRowsOf
    <2>4. \A x \in L : x \notin 1 .. n
      BY DEF L
    <2>5. CASE i \in O /\ j \in O
      BY <2>1, <2>2, <2>3, <2>5
    <2>6. CASE i \notin O /\ j \notin O
      BY <1>9, <2>1, <2>2, <2>3, <2>6
    <2>7. CASE (i \in O /\ j \notin O) \/ (i \notin O /\ j \in O)
      BY <2>1, <2>2, <2>3, <2>4, <2>7
    <2> QED  BY <2>5, <2>6, <2>7
  <1>14. \A r \in S : \E i \in 1 .. n : c[i] = r
    <2>1. c \in Injection(1 .. n, S)
      BY <1>12, <1>13 DEF Injection, IsInjective
    <2>2. IsFiniteSet(1 .. n) /\ Cardinality(1 .. n) = n
      BY FS_Interval
    <2> DEFINE f == [i \in O |-> b[i]]
    <2>3. f \in Bijection(O, S)
      BY DEF O, HoledRowsOf, Bijection, Injection, Surjection, IsInjective
    <2>4. IsFiniteSet(S) /\ Cardinality(S) = n
      <3>1. ExistsBijection(O, S)
        BY <2>3 DEF ExistsBijection
      <3> QED  BY <1>2, <3>1, FS_Bijection
    <2>5. c \in Surjection(1 .. n, S)
      BY <2>1, <2>2, <2>4, FS_Injection
    <2> QED  BY <2>5 DEF Surjection
  <1>15. RowsOf(c, n, S)
    BY <1>12, <1>13, <1>14 DEF RowsOf
  <1> QED  BY <1>8, <1>15

\* add_request: the new requests, and those there before.
LEMMA AddRows ==
    ASSUME NEW m \in Nat, NEW K, NEW b, HoledRowsOf(b, m, K),
           NEW q \in Nat, NEW N, NEW new, RowsOf(new, q, N), NoReq \notin N, N \cap K = {}
    PROVE  \E l \in Nat : HoledRowsOf(AddAll(b, new), l, K \cup N)
  <1> DEFINE H == {i \in 1 .. m : b[i] = NoReq}
             X == K \cup N \cup {NoReq}
  <1>1. DOMAIN b = 1 .. m /\ DOMAIN new = 1 .. q /\ Len(new) = q /\ new \in [1 .. q -> N]
    BY FunctionSeq DEF HoledRowsOf, RowsOf
  <1>2. IsFiniteSet(H) /\ H \in SUBSET (1 .. m) /\ H \in SUBSET Nat
    <2>1. IsFiniteSet(1 .. m)
      BY FS_Interval
    <2> QED  BY <2>1, FS_Subset
  <1>3. PICK holes : holes = Ascending(H) /\ Lists(holes, H)
    BY <1>2, AscendingLists
  <1>4. PICK h \in Nat : h = Cardinality(H) /\ h = Len(holes)
    <2>1. Cardinality(H) \in Nat
      BY <1>2, FS_CardinalityType
    <2>2. holes \in [1 .. Cardinality(H) -> H]
      BY <1>3 DEF Lists
    <2>3. Len(holes) = Cardinality(H)
      BY <2>1, <2>2, FunctionSeq
    <2> QED  BY <2>1, <2>3
  <1>5. PICK p, rest, a : /\ p = Placed(b, holes, new) /\ rest = SubSeq(new, h + 1, q)
                          /\ a = p \o rest /\ a = AddAll(b, new)
    <2> HIDE DEF H
    <2>1. {i \in DOMAIN b : b[i] = NoReq} = H
      BY <1>1 DEF H
    <2>2. AddAll(b, new) = Placed(b, holes, new) \o SubSeq(new, h + 1, q)
      BY <1>1, <1>3, <1>4, <2>1 DEF AddAll
    <2> QED  BY <2>2
  <1> HIDE DEF H, X
  <1>6. /\ p = [i \in 1 .. m |-> p[i]]
        /\ \A i \in (1 .. m) \ H : p[i] = b[i]
        /\ \A k \in 1 .. h : /\ holes[k] \in H
                             /\ k <= q => p[holes[k]] = new[k]
                             /\ k > q => p[holes[k]] = b[holes[k]]
    <2>1. Placing(p, m, b, H, holes, q, new)
      BY <1>1, <1>2, <1>3, <1>4, <1>5 DEF Placing
    <2>2. /\ p = [i \in 1 .. m |-> p[i]]
          /\ \A i \in (1 .. m) \ H : p[i] = b[i]
          /\ \A k \in 1 .. Cardinality(H) :
                /\ holes[k] \in H
                /\ k <= q => p[holes[k]] = new[k]
                /\ k > q => p[holes[k]] = b[holes[k]]
      BY <2>1, PlacedRows
    <2> QED  BY <1>4, <2>2
  \* What is at a place of the old batch.
  <1>7. ASSUME NEW i \in 1 .. m
        PROVE  \/ i \notin H /\ p[i] = b[i] /\ p[i] \in K
               \/ p[i] = NoReq
               \/ \E k \in 1 .. q : k <= h /\ holes[k] = i /\ p[i] = new[k]
    <2>1. CASE i \notin H
      BY <1>6, <2>1 DEF H, HoledRowsOf
    <2>2. CASE i \in H
      <3>1. PICK k \in 1 .. h : holes[k] = i
        BY <1>3, <1>4, <2>2 DEF Lists
      <3>2. CASE k <= q
        <4>1. k \in 1 .. q /\ k <= h /\ p[i] = new[k]
          BY <1>6, <3>1, <3>2
        <4> QED  BY <3>1, <4>1
      <3>3. CASE ~(k <= q)
        <4>1. k > q /\ p[i] = b[i]
          BY <1>6, <3>1, <3>3
        <4> QED  BY <2>2, <4>1 DEF H
      <3> QED  BY <3>2, <3>3
    <2> QED  BY <2>1, <2>2
  <1>8. PICK g \in Nat : /\ rest \in Seq(X) /\ Len(rest) = g
                         /\ \A i \in 1 .. g : h + i \in 1 .. q /\ rest[i] = new[h + i]
                         /\ \A k \in 1 .. q : k > h => k - h \in 1 .. g
    <2>1. \A i \in h + 1 .. q : new[i] \in X
      BY <1>1 DEF X
    <2>2. /\ rest \in Seq(X) /\ Len(rest) = IF h + 1 <= q THEN q - (h + 1) + 1 ELSE 0
          /\ \A i \in 1 .. q - (h + 1) + 1 : rest[i] = new[(h + 1) + i - 1]
      BY <1>5, <2>1, SubSeqProperties
    <2>3. CASE h + 1 <= q
      <3>1. Len(rest) = q - h /\ q - h \in Nat
        BY <2>2, <2>3
      <3>2. \A i \in 1 .. q - h : i \in 1 .. q - (h + 1) + 1 /\ (h + 1) + i - 1 = h + i /\ h + i \in 1 .. q
        BY <2>3
      <3>3. \A i \in 1 .. q - h : rest[i] = new[h + i]
        BY <2>2, <3>2
      <3>4. \A k \in 1 .. q : k > h => k - h \in 1 .. q - h
        OBVIOUS
      <3> QED  BY <2>2, <3>1, <3>2, <3>3, <3>4
    <2>4. CASE ~(h + 1 <= q)
      <3>1. Len(rest) = 0 /\ \A k \in 1 .. q : ~(k > h)
        BY <2>2, <2>4
      <3> QED  BY <2>2, <3>1
    <2> QED  BY <2>3, <2>4
  <1>9. p \in [1 .. m -> X] /\ p \in Seq(X) /\ Len(p) = m
    <2>1. \A i \in 1 .. m : p[i] \in X
      BY <1>1, <1>7 DEF X
    <2>2. p \in [1 .. m -> X]
      BY <1>6, <2>1
    <2> QED  BY <2>2, FunctionSeq
  <1>10. PICK l \in Nat :
           /\ l = m + g /\ a \in Seq(X) /\ Len(a) = l /\ DOMAIN a = 1 .. l
           /\ \A i \in 1 .. m : a[i] = p[i]
           /\ \A i \in 1 .. l : i > m => i - m \in 1 .. g /\ a[i] = rest[i - m]
    <2>1. /\ a \in Seq(X) /\ Len(a) = Len(p) + Len(rest) /\ DOMAIN a = 1 .. Len(p) + Len(rest)
          /\ \A i \in 1 .. Len(p) : a[i] = p[i]
          /\ \A i \in 1 .. Len(p) + Len(rest) :
                i > Len(p) => i - Len(p) \in 1 .. Len(rest) /\ a[i] = rest[i - Len(p)]
      <3>1. p \in Seq(X) /\ rest \in Seq(X) /\ a = p \o rest
        BY <1>5, <1>8, <1>9
      <3> QED  BY ONLY <3>1, ConcatIndices
    <2>2. PICK l \in Nat : l = m + g
      OBVIOUS
    <2>3. /\ a \in Seq(X) /\ Len(a) = l /\ DOMAIN a = 1 .. l
          /\ \A i \in 1 .. m : a[i] = p[i]
          /\ \A i \in 1 .. l : i > m => i - m \in 1 .. g /\ a[i] = rest[i - m]
      BY <1>8, <1>9, <2>1, <2>2
    <2> QED  BY <2>2, <2>3
  <1>11. ASSUME NEW i \in 1 .. l
         PROVE  \/ i \in 1 .. m /\ i \notin H /\ a[i] = b[i] /\ a[i] \in K
                \/ a[i] = NoReq
                \/ \E k \in 1 .. q : /\ a[i] = new[k]
                                     /\ \/ i \in 1 .. m /\ k <= h /\ holes[k] = i
                                        \/ i > m /\ k > h /\ i - m = k - h
    <2>1. CASE i <= m
      <3>1. i \in 1 .. m /\ a[i] = p[i]
        BY <1>10, <2>1
      <3> QED  BY <1>7, <3>1
    <2>2. CASE ~(i <= m)
      <3>1. i > m /\ i - m \in 1 .. g /\ a[i] = rest[i - m]
        BY <1>10, <2>2
      <3>2. h + (i - m) \in 1 .. q /\ a[i] = new[h + (i - m)]
        BY <1>8, <3>1
      <3>3. h + (i - m) > h /\ i - m = (h + (i - m)) - h
        BY <3>1
      <3> QED  BY <3>1, <3>2, <3>3
    <2> QED  BY <2>1, <2>2
  <1>12. a \in [1 .. l -> (K \cup N) \cup {NoReq}]
    <2>1. \A i \in 1 .. l : a[i] \in (K \cup N) \cup {NoReq}
      BY <1>1, <1>11
    <2>2. a = [i \in 1 .. l |-> a[i]]
      BY <1>10, LenProperties
    <2> QED  BY <2>1, <2>2
  <1>13. ASSUME NEW i \in 1 .. l, NEW j \in 1 .. l, a[i] = a[j], a[i] # NoReq PROVE i = j
    <2>1. CASE a[i] \in K
      <3>1. a[i] \notin N
        BY <2>1
      <3>2. i \in 1 .. m /\ a[i] = b[i]
        BY <1>1, <1>11, <1>13, <3>1
      <3>3. j \in 1 .. m /\ a[j] = b[j]
        BY <1>1, <1>11, <1>13, <3>1
      <3> QED  BY <1>13, <3>2, <3>3 DEF HoledRowsOf
    <2>2. CASE a[i] \notin K
      <3>1. PICK k \in 1 .. q : /\ a[i] = new[k]
                                /\ \/ i \in 1 .. m /\ k <= h /\ holes[k] = i
                                   \/ i > m /\ k > h /\ i - m = k - h
        BY <1>11, <1>13, <2>2
      <3>2. PICK y \in 1 .. q : /\ a[j] = new[y]
                                /\ \/ j \in 1 .. m /\ y <= h /\ holes[y] = j
                                   \/ j > m /\ y > h /\ j - m = y - h
        BY <1>11, <1>13, <2>2
      <3>3. k = y
        BY <1>13, <3>1, <3>2 DEF RowsOf
      <3>4. CASE k <= h
        BY <3>1, <3>2, <3>3, <3>4
      <3>5. CASE ~(k <= h)
        BY <3>1, <3>2, <3>3, <3>5
      <3> QED  BY <3>4, <3>5
    <2> QED  BY <2>1, <2>2
  <1>14. ASSUME NEW r \in K \cup N PROVE \E i \in 1 .. l : a[i] = r
    <2>1. CASE r \in K
      <3>1. PICK i \in 1 .. m : b[i] = r
        BY <2>1 DEF HoledRowsOf
      <3>2. i \notin H /\ i \in 1 .. l
        BY <1>10, <2>1, <3>1 DEF H, HoledRowsOf
      <3>3. a[i] = r
        BY <1>6, <1>10, <3>1, <3>2
      <3> QED  BY <3>2, <3>3
    <2>2. CASE r \in N
      <3>1. PICK k \in 1 .. q : new[k] = r
        BY <2>2 DEF RowsOf
      <3>2. CASE k <= h
        <4>1. k \in 1 .. h /\ k <= q
          BY <3>2
        <4>2. holes[k] \in 1 .. m /\ p[holes[k]] = r
          BY <1>2, <1>6, <3>1, <4>1
        <4>3. holes[k] \in 1 .. l
          BY <1>10, <4>2
        <4> QED  BY <1>10, <4>2, <4>3
      <3>3. CASE ~(k <= h)
        <4>0. k > h
          BY <3>3
        <4>1. k - h \in 1 .. g
          BY <1>8, <4>0
        <4>2. rest[k - h] = new[h + (k - h)] /\ h + (k - h) = k
          BY <1>8, <4>1
        <4>3. PICK i \in 1 .. l : i = m + (k - h) /\ i > m /\ i - m = k - h
          BY <1>10, <4>1
        <4>4. a[i] = rest[k - h]
          BY <1>10, <4>3
        <4> QED  BY <3>1, <4>2, <4>4
      <3> QED  BY <3>2, <3>3
    <2> QED  BY <2>1, <2>2
  <1>15. NoReq \notin K \cup N
    BY DEF HoledRowsOf
  <1>16. HoledRowsOf(a, l, K \cup N)
    BY <1>12, <1>13, <1>14, <1>15 DEF HoledRowsOf
  <1> QED  BY <1>5, <1>16

\* _update_states: from a batch without repetitions, the rows of the step once
\* each, the decode rows first.
LEMMA UpdateRows ==
    ASSUME batch \in Seq(Requests), IsInjective(batch),
           NEW D \in SUBSET Requests, NEW P \in SUBSET Requests, D \cap P = {},
           NEW new \in SetToSeqs((D \ ToSet(batch)) \cup P)
    PROVE  \E n \in Nat :
              /\ RowsOf(UpdateStates(D, new), n, D \cup P)
              /\ Cardinality(D) \in 0 .. n
              /\ \A i \in 1 .. Cardinality(D) : UpdateStates(D, new)[i] \in D
  <1> DEFINE B == ToSet(batch)
             N == (D \ B) \cup P
             K == B \cap (D \ ToSet(new))
  <1>1. PICK m \in Nat : m = Len(batch) /\ DOMAIN batch = 1 .. m /\ batch \in [1 .. m -> Requests]
    BY LenProperties
  <1>2. RowsOf(batch, m, B) /\ NoReq \notin B /\ B \subseteq Requests
    BY <1>1, SlotAssumption DEF RowsOf, ToSet, IsInjective
  <1>3. IsFiniteSet(N) /\ N \subseteq Requests
    BY <1>2, SlotAssumption, FS_Subset
  <1>4. PICK q \in Nat : q = Cardinality(N)
    BY <1>3, FS_CardinalityType
  <1>5. RowsOf(new, q, N) /\ ToSet(new) = N
    <2>1. new \in [1 .. q -> N] /\ \A i, j \in 1 .. q : i # j => new[i] # new[j]
      BY <1>4 DEF SetToSeqs
    <2>2. new \in Injection(1 .. q, N)
      BY <2>1 DEF Injection, IsInjective
    <2>3. IsFiniteSet(1 .. q) /\ Cardinality(1 .. q) = q
      BY FS_Interval
    <2>4. new \in Surjection(1 .. q, N)
      BY <1>3, <1>4, <2>2, <2>3, FS_Injection
    <2>5. \A r \in N : \E i \in 1 .. q : new[i] = r
      BY <2>4 DEF Surjection
    <2> QED  BY <2>1, <2>5 DEF RowsOf, ToSet
  <1>6. K \cup N = D \cup P /\ N \cap K = {} /\ NoReq \notin N
    BY <1>3, <1>5, SlotAssumption
  <1> HIDE DEF B, N, K
  <1>7. PICK b1 : b1 = RemoveRequests(batch, D \ ToSet(new)) /\ HoledRowsOf(b1, m, K)
    BY <1>2, RemoveRows DEF K
  <1>8. PICK b2, l : l \in Nat /\ b2 = AddAll(b1, new) /\ HoledRowsOf(b2, l, K \cup N)
    BY <1>5, <1>6, <1>7, AddRows
  <1>9. PICK b3, n : n \in Nat /\ b3 = Condense(b2) /\ RowsOf(b3, n, K \cup N)
    BY <1>8, CondenseRows
  <1>10. PICK b4 : b4 = Reorder(b3, D) /\ b4 = UpdateStates(D, new)
    BY <1>7, <1>8, <1>9 DEF UpdateStates
  <1>11. D \in SUBSET (D \cup P) /\ RowsOf(b3, n, D \cup P)
    BY <1>6, <1>9
  <1>12. /\ RowsOf(b4, n, D \cup P)
         /\ \A i \in 1 .. Cardinality(D) : i \in 1 .. n /\ b4[i] \in D
         /\ Cardinality(D) \in 0 .. n
    <2>1. /\ RowsOf(Reorder(b3, D), n, D \cup P)
          /\ \A i \in 1 .. Cardinality(D) : i \in 1 .. n /\ Reorder(b3, D)[i] \in D
          /\ Cardinality(D) \in 0 .. n
      BY <1>9, <1>11, ReorderRows
    <2> QED  BY <1>10, <2>1
  <1> QED  BY <1>9, <1>10, <1>12

-----------------------------------------------------------------------------
(* Blocks of tokens *)

USE SlotAssumption

LEMMA LessByAPage ==
    ASSUME NEW a \in Nat, NEW b \in Nat, a < b
    PROVE  a * PageSize + PageSize <= b * PageSize
  <1>1. PICK d \in Nat : b = a + 1 + d
    <2>1. b - a - 1 \in Nat /\ b = a + 1 + (b - a - 1)
      OBVIOUS
    <2> QED  BY <2>1
  <1>2. b * PageSize = a * PageSize + PageSize + d * PageSize
    BY <1>1
  <1>3. d * PageSize \in Nat
    OBVIOUS
  <1> QED  BY <1>2, <1>3

LEMMA BlkBounds ==
    ASSUME NEW x \in Nat
    PROVE  /\ Blk(x) \in Nat /\ Blk(x) * PageSize \in Nat
           /\ x <= Blk(x) * PageSize /\ Blk(x) * PageSize < x + PageSize
  BY DEF Blk

\* More tokens, no fewer blocks; some tokens, some block.
LEMMA BlkMono ==
    ASSUME NEW x \in Nat, NEW y \in Nat, x <= y
    PROVE  Blk(x) <= Blk(y) /\ (x >= 1 => Blk(x) >= 1)
  <1>1. PICK a \in Nat : /\ a = Blk(x) /\ a * PageSize \in Nat
                         /\ x <= a * PageSize /\ a * PageSize < x + PageSize
    BY BlkBounds
  <1>2. PICK b \in Nat : b = Blk(y) /\ b * PageSize \in Nat /\ y <= b * PageSize
    BY BlkBounds
  <1>3. ~(b < a)
    <2> SUFFICES ASSUME b < a PROVE FALSE
      OBVIOUS
    <2>1. b * PageSize + PageSize <= a * PageSize
      BY LessByAPage
    <2> QED  BY <1>1, <1>2, <2>1
  <1>4. x >= 1 => a >= 1
    <2> SUFFICES ASSUME x >= 1, a = 0 PROVE FALSE
      OBVIOUS
    <2>1. a * PageSize = 0
      OBVIOUS
    <2> QED  BY <1>1, <2>1
  <1> QED  BY <1>1, <1>2, <1>3, <1>4

\* One more token takes a new block just when the last one is full.
LEMMA BlkNext ==
    ASSUME NEW x \in Nat
    PROVE  /\ x % PageSize = 0 => Blk(x + 1) = Blk(x) + 1
           /\ x % PageSize # 0 => Blk(x + 1) = Blk(x)
  <1>1. PICK a \in Nat : /\ a = Blk(x) /\ a * PageSize \in Nat
                         /\ x <= a * PageSize /\ a * PageSize < x + PageSize
    BY BlkBounds
  <1>2. PICK b \in Nat : /\ b = Blk(x + 1) /\ b * PageSize \in Nat
                         /\ x + 1 <= b * PageSize /\ b * PageSize < x + 1 + PageSize
    <2>1. PICK y \in Nat : y = x + 1
      OBVIOUS
    <2> QED  BY <2>1, BlkBounds
  <1>3. PICK q \in Nat, r \in Nat : /\ r = x % PageSize /\ r < PageSize
                                    /\ x = q * PageSize + r /\ q * PageSize \in Nat
    <2>1. PICK q \in Nat : q = x \div PageSize
      OBVIOUS
    <2>2. PICK r \in Nat : r = x % PageSize
      OBVIOUS
    <2>3. r < PageSize /\ x = PageSize * q + r
      BY <2>1, <2>2
    <2>4. PageSize * q = q * PageSize /\ q * PageSize \in Nat
      OBVIOUS
    <2> QED  BY <2>2, <2>3, <2>4
  <1>4. a <= b
    <2>1. x <= x + 1 /\ x + 1 \in Nat
      OBVIOUS
    <2> QED  BY <1>1, <1>2, <2>1, BlkMono
  <1>5. b <= a + 1
    <2> SUFFICES ASSUME a + 1 < b PROVE FALSE
      OBVIOUS
    <2>1. (a + 1) * PageSize + PageSize <= b * PageSize
      BY LessByAPage
    <2>2. (a + 1) * PageSize = a * PageSize + PageSize
      OBVIOUS
    <2> QED  BY <1>1, <1>2, <2>1, <2>2
  <1>6. ASSUME r = 0 PROVE b = a + 1
    <2>1. ~(q < a)
      <3> SUFFICES ASSUME q < a PROVE FALSE
        OBVIOUS
      <3>1. q * PageSize + PageSize <= a * PageSize
        BY LessByAPage
      <3> QED  BY <1>1, <1>3, <1>6, <3>1
    <2>2. a # b
      <3> SUFFICES ASSUME a = b PROVE FALSE
        OBVIOUS
      <3>1. q < a
        <4> SUFFICES ASSUME a <= q PROVE FALSE
          OBVIOUS
        <4>1. a * PageSize <= q * PageSize
          <5>1. CASE a = q
            BY <1>3, <5>1
          <5>2. CASE a < q
            <6>1. a * PageSize + PageSize <= q * PageSize
              BY <5>2, LessByAPage
            <6> QED  BY <1>1, <1>3, <6>1
          <5> QED  BY <5>1, <5>2
        <4> QED  BY <1>1, <1>2, <1>3, <1>6, <4>1
      <3> QED  BY <2>1, <3>1
    <2> QED  BY <1>4, <1>5, <2>2
  <1>7. ASSUME r # 0 PROVE b = a
    <2>1. q < a
      <3> SUFFICES ASSUME a <= q PROVE FALSE
        OBVIOUS
      <3>1. a * PageSize <= q * PageSize
        <4>1. CASE a = q
          BY <1>3, <4>1
        <4>2. CASE a < q
          <5>1. a * PageSize + PageSize <= q * PageSize
            BY <4>2, LessByAPage
          <5> QED  BY <1>1, <1>3, <5>1
        <4> QED  BY <4>1, <4>2
      <3> QED  BY <1>1, <1>3, <1>7, <3>1
    <2>2. q * PageSize + PageSize <= a * PageSize
      BY <2>1, LessByAPage
    <2>3. x + 1 <= a * PageSize
      BY <1>1, <1>3, <2>2
    <2>4. ~(a < b)
      <3> SUFFICES ASSUME a < b PROVE FALSE
        OBVIOUS
      <3>1. a * PageSize + PageSize <= b * PageSize
        BY LessByAPage
      <3> QED  BY <1>1, <1>2, <2>3, <3>1
    <2> QED  BY <1>4, <2>4
  <1> QED  BY <1>1, <1>2, <1>3, <1>6, <1>7

-----------------------------------------------------------------------------
(* What the slots hold *)

\* The types, as functions and sequences.
SlotTyped ==
    /\ status \in [Requests -> {"waiting", "running", "preempted", "finished"}]
    /\ len \in [Requests -> 1 .. MaxLen]
    /\ table \in [Requests -> Seq(Pages)]
    /\ given \subseteq Refs
    /\ kv \in [Pages -> Refs \cup {Garbage}]
    /\ preempts \in 0 .. MaxPreempt
    /\ batch \in Seq(Requests) /\ IsInjective(batch)
    /\ nd \in 0 .. Len(batch) /\ nd <= MaxBs
    /\ owner \in [Slots -> Pages \cup {NoPage}]
    /\ prev \in [Slots -> 0 .. MaxLen]
    /\ codes \in [Slots -> [1 .. MaxLen -> Refs \cup {Garbage}]]
    /\ occupant \in [Slots -> Requests \cup {NoReq}]
    /\ excuse \in [Slots -> {"none", "inherited", "lossy"}]
    /\ down \in BOOLEAN

\* A running request has the blocks of its tokens.
TablesFit == \A r \in Requests : status[r] = "running" => Len(table[r]) = Blk(len[r])

\* A page that was not given away holds the block it was allocated for: pages are
\* only taken from those no request holds.
PagesHoldOwn == \A r \in Held : kv[table[r[1]][r[2]]] = r

\* A slot without an excuse holds the codes of its occupant, as far as they were
\* filled in, wherever the occupant is now.
SlotsHoldOwn ==
    \A b \in Slots : excuse[b] = "none" /\ occupant[b] # NoReq =>
        \A t \in 1 .. prev[b] : codes[b][t] = <<occupant[b], Blk(t)>>

\* The slots of the decode rows are up to date.
RowsInSlots ==
    \A b \in 1 .. nd :
        /\ occupant[b] = batch[b] /\ prev[b] = len[batch[b]]
        /\ status[batch[b]] = "running" => owner[b] = table[batch[b]][1]

SlotInv == SlotTyped /\ TablesFit /\ PagesHoldOwn /\ SlotsHoldOwn /\ RowsInSlots

\* What an engine step is made of: the decode and prefill rows, the new batch,
\* lengths and tables, and the pages allocated.
Shape(D, P, alloc, rows, n, l, tbl) ==
    /\ D \in SUBSET Requests /\ P \in SUBSET Requests /\ D \cap P = {}
    /\ \A r \in D : status[r] = "running"
    /\ n \in 0 .. Len(rows) /\ n <= MaxBs
    /\ rows \in Seq(Requests) /\ IsInjective(rows) /\ \A i \in 1 .. n : rows[i] \in D
    /\ l \in [Requests -> 1 .. MaxLen]
    /\ \A r \in D : l[r] = len[r] + 1
    /\ \A r \in Requests \ (D \cup P) : l[r] = len[r]
    /\ DOMAIN alloc \subseteq Refs /\ alloc \in [DOMAIN alloc -> Free] /\ IsInjective(alloc)
    /\ tbl \in [Requests -> Seq(Pages)]
    /\ \A r \in D \cup P : Len(tbl[r]) = Blk(l[r])
    /\ \A r \in D \cup P : \A i \in 1 .. Blk(l[r]) :
          \/ <<r, i>> \in DOMAIN alloc /\ tbl[r][i] = alloc[<<r, i>>]
          \/ r \in D /\ i \in 1 .. Blk(len[r]) /\ tbl[r][i] = table[r][i]
    /\ \A r \in D : \A i \in 1 .. Blk(len[r]) : tbl[r][i] = table[r][i]
    /\ \A r \in Requests \ (D \cup P) : tbl[r] = table[r]
    /\ status' = [r \in Requests |-> IF r \in P THEN "running" ELSE status[r]]
    /\ len' = l /\ table' = tbl /\ batch' = rows /\ nd' = n
    /\ kv' = [p \in Pages |-> IF \E r \in DOMAIN alloc : alloc[r] = p
                                 THEN CHOOSE r \in DOMAIN alloc : alloc[r] = p ELSE kv[p]]
    /\ FillSlots(rows, n, tbl, l) /\ Note(rows, n, tbl, l)
    /\ UNCHANGED <<given, preempts, down>>

LEMMA LenFacts ==
    ASSUME SlotTyped, NEW r \in Requests
    PROVE  len[r] \in Nat /\ len[r] >= 1 /\ len[r] <= MaxLen
  BY DEF SlotTyped

LEMMA StepShape ==
    ASSUME SlotInv, EngineStep
    PROVE  \E D, P, alloc, rows, n, l, tbl : Shape(D, P, alloc, rows, n, l, tbl)
  <1>1. PICK D \in SUBSET Runnable, P \in SUBSET Waiting :
          LET new == (D \ ToSet(batch)) \cup P
              needed == {<<r, Blk(len[r] + 1)>> : r \in {d \in D : len[d] % PageSize = 0}}
                        \cup {r \in Refs : r[1] \in P /\ r[2] <= Blk(Upto(r[1]))}
          IN  /\ Cardinality(D) <= MaxBs
              /\ \E order \in SetToSeqs(new), alloc \in Injection(needed, Free) :
                   Step(D, P, order, alloc)
    BY DEF EngineStep
  <1> DEFINE needed == {<<r, Blk(len[r] + 1)>> : r \in {d \in D : len[d] % PageSize = 0}}
                       \cup {r \in Refs : r[1] \in P /\ r[2] <= Blk(Upto(r[1]))}
             new == (D \ ToSet(batch)) \cup P
             l == [r \in Requests |-> IF r \in D \cup P THEN Upto(r) ELSE len[r]]
  <1>2. PICK order \in SetToSeqs(new), alloc \in Injection(needed, Free) : Step(D, P, order, alloc)
    BY <1>1
  <1>3. /\ D \in SUBSET Requests /\ P \in SUBSET Requests /\ D \cap P = {}
        /\ \A r \in D : status[r] = "running" /\ len[r] < MaxLen
        /\ \A r \in P : Upto(r) <= MaxLen
        /\ \A r \in D : Upto(r) = len[r] + 1
    BY DEF Runnable, Waiting, Upto
  <1>4. /\ DOMAIN alloc = needed /\ alloc \in [needed -> Free] /\ IsInjective(alloc)
    BY <1>2 DEF Injection
  <1> DEFINE tbl == [r \in Requests |->
                       IF r \in D \cup P
                           THEN [i \in 1 .. Blk(l[r]) |->
                                   IF <<r, i>> \in DOMAIN alloc THEN alloc[<<r, i>>] ELSE table[r][i]]
                           ELSE table[r]]
  <1>5. PICK rows, n : /\ rows = UpdateStates(D, order) /\ n = Cardinality(D)
                       /\ n <= MaxBs
    BY <1>1
  <1>6. /\ n \in 0 .. Len(rows) /\ rows \in Seq(Requests) /\ IsInjective(rows)
        /\ \A i \in 1 .. n : rows[i] \in D
    <2>1. batch \in Seq(Requests) /\ IsInjective(batch)
      BY DEF SlotInv, SlotTyped
    <2>2. PICK m \in Nat : /\ RowsOf(rows, m, D \cup P) /\ n \in 0 .. m
                           /\ \A i \in 1 .. n : rows[i] \in D
      <3>1. \E m \in Nat : /\ RowsOf(UpdateStates(D, order), m, D \cup P)
                           /\ Cardinality(D) \in 0 .. m
                           /\ \A i \in 1 .. Cardinality(D) : UpdateStates(D, order)[i] \in D
        BY <1>2, <1>3, <2>1, UpdateRows
      <3> QED  BY <1>5, <3>1
    <2>3. rows \in [1 .. m -> Requests]
      BY <1>3, <2>2 DEF RowsOf
    <2>4. rows \in Seq(Requests) /\ Len(rows) = m
      BY <2>3, FunctionSeq
    <2>5. IsInjective(rows)
      BY <2>2 DEF RowsOf, IsInjective
    <2> QED  BY <2>2, <2>4, <2>5
  <1>7. /\ l \in [Requests -> 1 .. MaxLen]
        /\ \A r \in D : l[r] = len[r] + 1
        /\ \A r \in P : l[r] = Upto(r)
        /\ \A r \in Requests \ (D \cup P) : l[r] = len[r]
    <2>1. ASSUME NEW r \in Requests PROVE l[r] \in 1 .. MaxLen
      <3>1. len[r] \in Nat /\ len[r] >= 1 /\ len[r] <= MaxLen
        BY LenFacts DEF SlotInv
      <3>2. Upto(r) \in Nat /\ Upto(r) >= 1
        BY <3>1 DEF Upto
      <3> QED  BY <1>3, <3>1, <3>2
    <2> QED  BY <1>3, <2>1
  <1> HIDE DEF l
  <1>8. ASSUME NEW r \in D
        PROVE  /\ Len(table[r]) = Blk(len[r]) /\ Blk(len[r]) \in Nat /\ Blk(l[r]) \in Nat
               /\ table[r] \in Seq(Pages)
               /\ \A i \in 1 .. Blk(len[r]) : <<r, i>> \notin needed /\ i \in 1 .. Blk(l[r])
               /\ \A i \in 1 .. Blk(l[r]) : <<r, i>> \notin needed => i \in 1 .. Blk(len[r])
    <2>1. PICK x \in Nat : x = len[r] /\ l[r] = x + 1
      BY <1>3, <1>7, LenFacts DEF SlotInv
    <2>2. Len(table[r]) = Blk(x) /\ Blk(x) \in Nat /\ Blk(x + 1) \in Nat /\ table[r] \in Seq(Pages)
      <3>1. PICK y \in Nat : y = x + 1
        OBVIOUS
      <3> QED  BY <1>3, <2>1, <3>1, BlkBounds DEF SlotInv, TablesFit, SlotTyped
    <2>3. /\ x % PageSize = 0 => Blk(x + 1) = Blk(x) + 1
          /\ x % PageSize # 0 => Blk(x + 1) = Blk(x)
      BY BlkNext
    <2>4. \A i : <<r, i>> \in needed <=> x % PageSize = 0 /\ i = Blk(x + 1)
      <3>1. r \notin P
        BY <1>3
      <3> QED  BY <2>1, <3>1, Zenon
    <2>5. PICK a \in Nat, b \in Nat : a = Blk(x) /\ b = Blk(x + 1)
      BY <2>2
    <2>6. a <= b /\ (x % PageSize = 0 => b = a + 1) /\ (x % PageSize # 0 => b = a)
      BY <2>3, <2>5
    <2>7. \A i \in 1 .. a : <<r, i>> \notin needed /\ i \in 1 .. b
      BY <2>4, <2>5, <2>6
    <2>8. \A i \in 1 .. b : <<r, i>> \notin needed => i \in 1 .. a
      BY <2>4, <2>5, <2>6
    <2> QED  BY <2>1, <2>2, <2>5, <2>7, <2>8
  <1>9. ASSUME NEW r \in P
        PROVE  Blk(l[r]) \in Nat /\ \A i \in 1 .. Blk(l[r]) : <<r, i>> \in needed
    <2>1. PICK x \in Nat : x = Upto(r) /\ l[r] = x /\ x <= MaxLen
      BY <1>3, <1>7
    <2>2. Blk(x) \in Nat /\ Blk(MaxLen) \in Nat /\ Blk(x) <= Blk(MaxLen)
      BY <2>1, BlkBounds, BlkMono
    <2>3. ASSUME NEW i \in 1 .. Blk(x) PROVE <<r, i>> \in needed
      <3>1. i \in 1 .. Blk(MaxLen) /\ i <= Blk(x)
        BY <2>2
      <3>2. <<r, i>> \in Refs
        BY <1>3, <3>1 DEF Refs
      <3> QED  BY <2>1, <3>1, <3>2
    <2> QED  BY <2>1, <2>2, <2>3
  <1>10. needed \subseteq Refs
    <2>1. ASSUME NEW r \in D PROVE <<r, Blk(len[r] + 1)>> \in Refs
      <3>1. PICK x \in Nat : x = len[r] + 1 /\ x >= 1 /\ x <= MaxLen
        BY <1>3, LenFacts DEF SlotInv
      <3>2. Blk(x) \in Nat /\ Blk(MaxLen) \in Nat /\ Blk(x) <= Blk(MaxLen) /\ Blk(x) >= 1
        BY <3>1, BlkBounds, BlkMono
      <3>3. Blk(x) \in 1 .. Blk(MaxLen)
        BY <3>2
      <3> QED  BY <1>3, <3>1, <3>3 DEF Refs
    <2> QED  BY <2>1
  <1>11. Free \subseteq Pages
    BY DEF Free
  <1> HIDE DEF needed
  <1>12. ASSUME NEW r \in D \cup P
         PROVE  /\ tbl[r] \in Seq(Pages) /\ Len(tbl[r]) = Blk(l[r])
                /\ \A i \in 1 .. Blk(l[r]) :
                      \/ <<r, i>> \in DOMAIN alloc /\ tbl[r][i] = alloc[<<r, i>>]
                      \/ r \in D /\ i \in 1 .. Blk(len[r]) /\ tbl[r][i] = table[r][i]
                /\ r \in D => \A i \in 1 .. Blk(len[r]) : tbl[r][i] = table[r][i]
    <2>1. PICK t : t = tbl[r] /\ t = [i \in 1 .. Blk(l[r]) |->
                     IF <<r, i>> \in DOMAIN alloc THEN alloc[<<r, i>>] ELSE table[r][i]]
      BY <1>3
    <2> HIDE DEF tbl
    <2>2. Blk(l[r]) \in Nat
      BY <1>8, <1>9
    <2>3. ASSUME NEW i \in 1 .. Blk(l[r])
          PROVE  /\ \/ <<r, i>> \in DOMAIN alloc /\ t[i] = alloc[<<r, i>>]
                    \/ r \in D /\ i \in 1 .. Blk(len[r]) /\ t[i] = table[r][i]
                 /\ t[i] \in Pages
      <3>1. CASE <<r, i>> \in needed
        BY <1>4, <1>11, <2>1, <3>1
      <3>2. CASE <<r, i>> \notin needed
        <4>1. r \in D /\ i \in 1 .. Blk(len[r]) /\ t[i] = table[r][i]
          BY <1>4, <1>8, <1>9, <2>1, <3>2
        <4>2. table[r][i] \in Pages
          BY <1>8, <4>1, ElementOfSeq
        <4> QED  BY <4>1, <4>2
      <3> QED  BY <3>1, <3>2
    <2>4. t \in [1 .. Blk(l[r]) -> Pages]
      BY <2>1, <2>3
    <2>5. t \in Seq(Pages) /\ Len(t) = Blk(l[r])
      BY <2>2, <2>4, FunctionSeq
    <2>6. r \in D => \A i \in 1 .. Blk(len[r]) : t[i] = table[r][i]
      BY <1>4, <1>8, <2>1
    <2> QED  BY <2>1, <2>3, <2>5, <2>6
  <1>13. tbl \in [Requests -> Seq(Pages)] /\ \A r \in Requests \ (D \cup P) : tbl[r] = table[r]
    <2>1. table \in [Requests -> Seq(Pages)]
      BY DEF SlotInv, SlotTyped
    <2>2. \A r \in Requests \ (D \cup P) : tbl[r] = table[r]
      OBVIOUS
    <2>3. DOMAIN tbl = Requests /\ tbl = [r \in Requests |-> tbl[r]]
      OBVIOUS
    <2> HIDE DEF tbl
    <2>4. \A r \in Requests : tbl[r] \in Seq(Pages)
      BY <1>12, <2>1, <2>2
    <2> QED  BY <2>2, <2>3, <2>4
  <1>14. /\ status' = [r \in Requests |-> IF r \in P THEN "running" ELSE status[r]]
         /\ len' = l /\ table' = tbl /\ batch' = rows /\ nd' = n
         /\ kv' = [p \in Pages |-> IF \E r \in DOMAIN alloc : alloc[r] = p
                                      THEN CHOOSE r \in DOMAIN alloc : alloc[r] = p ELSE kv[p]]
         /\ FillSlots(rows, n, tbl, l) /\ Note(rows, n, tbl, l)
         /\ UNCHANGED <<given, preempts, down>>
    BY <1>2, <1>5, Zenon DEF Step, l
  <1> HIDE DEF tbl
  <1>15. Shape(D, P, alloc, rows, n, l, tbl)
    BY <1>3, <1>4, <1>5, <1>6, <1>7, <1>10, <1>12, <1>13, <1>14, Zenon DEF Shape
  <1> QED  BY <1>15

\* What the step writes into the slot of a decode row: the codes of the row.
LEMMA SlotFilled ==
    ASSUME SlotInv, NEW D, NEW P, NEW alloc, NEW rows, NEW n, NEW l, NEW tbl,
           Shape(D, P, alloc, rows, n, l, tbl), NEW b \in 1 .. n
    PROVE  /\ b \in Slots /\ rows[b] \in Requests /\ l[rows[b]] \in 1 .. MaxLen
           /\ owner'[b] = tbl[rows[b]][1] /\ owner'[b] \in Pages
           /\ prev'[b] = l[rows[b]] /\ occupant'[b] = rows[b]
           /\ codes'[b] \in [1 .. MaxLen -> Refs \cup {Garbage}]
           /\ excuse'[b] \in {"none", "inherited", "lossy"}
           /\ excuse'[b] = "none" =>
                \A t \in 1 .. l[rows[b]] : codes'[b][t] = <<rows[b], Blk(t)>>
           /\ owner[b] = tbl[rows[b]][1] /\ prev[b] = len[rows[b]] =>
                \A t \in 1 .. len[rows[b]] : codes'[b][t] = codes[b][t]
  <1>0. /\ \A i \in D : l[i] = len[i] + 1
        /\ l \in [Requests -> 1 .. MaxLen] /\ tbl \in [Requests -> Seq(Pages)]
        /\ \A i \in D \cup P : Len(tbl[i]) = Blk(l[i])
        /\ \A k \in D : \A i \in 1 .. Blk(len[k]) : tbl[k][i] = table[k][i]
    BY Zenon DEF Shape
  <1>1. PICK r \in Requests : r = rows[b] /\ r \in D /\ status[r] = "running"
    BY DEF Shape
  <1>2. b \in Slots
    BY DEF Shape, Slots
  <1>3. PICK x \in Nat : x = len[r] /\ x >= 1 /\ l[r] = x + 1 /\ x + 1 \in 1 .. MaxLen
    <2>1. len[r] \in Nat /\ len[r] >= 1
      BY LenFacts DEF SlotInv
    <2>2. l[r] = len[r] + 1 /\ l[r] \in 1 .. MaxLen
      BY <1>0, <1>1
    <2> QED  BY <2>1, <2>2
  <1>4. PICK first : first = tbl[r][1] /\ first \in Pages
    <2>1. tbl[r] \in Seq(Pages) /\ Len(tbl[r]) = Blk(x + 1)
      BY <1>0, <1>1, <1>3
    <2>2. Blk(x + 1) \in Nat /\ Blk(x + 1) >= 1
      <3>1. PICK y \in Nat : y = x + 1 /\ y >= 1 /\ y <= y
        OBVIOUS
      <3> QED  BY <3>1, BlkBounds, BlkMono
    <2>3. 1 \in 1 .. Len(tbl[r])
      BY <2>1, <2>2
    <2> QED  BY <2>1, <2>3, ElementOfSeq
  <1>5. /\ owner'[b] = first /\ prev'[b] = x + 1 /\ occupant'[b] = r
        /\ codes'[b] = [(IF Changed(b, first, x + 1) THEN InitLayer(tbl[r], x + 1 - 1) ELSE codes[b])
                          EXCEPT ![x + 1] = <<r, Blk(x + 1)>>]
        /\ excuse'[b] = IF LooksLikeOccupant(b, first, x + 1)
                          THEN IF occupant[b] # r THEN "inherited" ELSE excuse[b]
                          ELSE IF \E i \in 1 .. Blk(x + 1 - 1) : <<r, i>> \in given
                                   THEN "lossy" ELSE "none"
    <2>1. b <= n /\ ~(b > n)
      BY DEF Shape
    <2>2. FillSlots(rows, n, tbl, l) /\ Note(rows, n, tbl, l)
      BY DEF Shape
    <2>3. owner'[b] = first /\ prev'[b] = x + 1
      BY <1>1, <1>2, <1>3, <1>4, <2>1, <2>2 DEF FillSlots
    <2>4. codes'[b] = [(IF Changed(b, first, x + 1) THEN InitLayer(tbl[r], x + 1 - 1) ELSE codes[b])
                          EXCEPT ![x + 1] = <<r, Blk(x + 1)>>]
      BY <1>1, <1>2, <1>3, <1>4, <2>1, <2>2 DEF FillSlots
    <2>5. occupant'[b] = r
      BY <1>1, <1>2, <2>1, <2>2 DEF Note
    <2>6. excuse'[b] = IF LooksLikeOccupant(b, first, x + 1)
                          THEN IF occupant[b] # r THEN "inherited" ELSE excuse[b]
                          ELSE IF \E i \in 1 .. Blk(x + 1 - 1) : <<r, i>> \in given
                                   THEN "lossy" ELSE "none"
      BY <1>1, <1>2, <1>3, <1>4, <2>1, <2>2 DEF Note
    <2> QED  BY <2>3, <2>4, <2>5, <2>6
  <1>6. /\ prev[b] \in 0 .. MaxLen /\ codes[b] \in [1 .. MaxLen -> Refs \cup {Garbage}]
        /\ excuse[b] \in {"none", "inherited", "lossy"}
    BY <1>2 DEF SlotInv, SlotTyped
  <1>7. Changed(b, first, x + 1) <=> ~LooksLikeOccupant(b, first, x + 1)
    BY <1>3, <1>6, SMTT(30) DEF Changed, LooksLikeOccupant
  <1>8. x + 1 - 1 = x
    BY <1>3
  \* The codes read from the pages.
  <1>9. PICK fill : /\ fill = InitLayer(tbl[r], x)
                    /\ fill = [t \in 1 .. MaxLen |-> IF t <= x THEN kv[tbl[r][Blk(t)]] ELSE Garbage]
    BY DEF InitLayer
  <1>10. ASSUME NEW t \in 1 .. MaxLen, t <= x
         PROVE  /\ Blk(t) \in 1 .. Blk(x) /\ <<r, Blk(t)>> \in Refs
                /\ tbl[r][Blk(t)] \in Pages
                /\ <<r, Blk(t)>> \notin given => fill[t] = <<r, Blk(t)>>
    <2>1. /\ Blk(t) \in Nat /\ Blk(x) \in Nat /\ Blk(t) <= Blk(x) /\ Blk(t) >= 1
          /\ Blk(MaxLen) \in Nat /\ Blk(t) <= Blk(MaxLen)
      <3>1. t \in Nat /\ t >= 1 /\ t <= MaxLen
        OBVIOUS
      <3> QED  BY <1>10, <3>1, BlkBounds, BlkMono
    <2>2. PICK i \in Nat : i = Blk(t) /\ i \in 1 .. Blk(x) /\ i \in 1 .. Blk(MaxLen)
      BY <2>1
    <2>3. table[r] \in Seq(Pages) /\ Len(table[r]) = Blk(x)
      BY <1>1, <1>3 DEF SlotInv, SlotTyped, TablesFit
    <2>4. i \in DOMAIN table[r] /\ table[r][i] \in Pages
      BY <2>2, <2>3, LenProperties, ElementOfSeq
    <2>5. tbl[r][i] = table[r][i]
      BY <1>0, <1>1, <1>3, <2>2
    <2>6. <<r, i>> \in Refs
      BY <2>2 DEF Refs
    <2>7. ASSUME <<r, i>> \notin given PROVE kv[table[r][i]] = <<r, i>>
      <3>1. <<r, i>> \in Held
        BY <1>1, <2>4, <2>6, <2>7 DEF Held
      <3> QED  BY <3>1 DEF SlotInv, PagesHoldOwn
    <2>8. fill[t] = kv[tbl[r][Blk(t)]]
      BY <1>9, <1>10
    <2> QED  BY <2>2, <2>4, <2>5, <2>6, <2>7, <2>8
  <1>11. fill \in [1 .. MaxLen -> Refs \cup {Garbage}]
    <2>1. kv \in [Pages -> Refs \cup {Garbage}]
      BY DEF SlotInv, SlotTyped
    <2>2. \A t \in 1 .. MaxLen : fill[t] \in Refs \cup {Garbage}
      BY <1>9, <1>10, <2>1
    <2> QED  BY <1>9, <2>2
  <1>12. PICK base \in [1 .. MaxLen -> Refs \cup {Garbage}] :
           /\ base = IF Changed(b, first, x + 1) THEN fill ELSE codes[b]
           /\ codes'[b] = [base EXCEPT ![x + 1] = <<r, Blk(x + 1)>>]
    BY <1>5, <1>6, <1>8, <1>9, <1>11
  <1>13. <<r, Blk(x + 1)>> \in Refs
    <2>1. PICK y \in Nat : y = x + 1 /\ y >= 1 /\ y <= MaxLen
      BY <1>3
    <2>2. Blk(y) \in Nat /\ Blk(MaxLen) \in Nat /\ Blk(y) <= Blk(MaxLen) /\ Blk(y) >= 1
      BY <2>1, BlkBounds, BlkMono
    <2>3. Blk(y) \in 1 .. Blk(MaxLen)
      BY <2>2
    <2> QED  BY <2>1, <2>3 DEF Refs
  <1>14. /\ codes'[b] \in [1 .. MaxLen -> Refs \cup {Garbage}]
         /\ codes'[b][x + 1] = <<r, Blk(x + 1)>>
         /\ \A t \in 1 .. x : t \in 1 .. MaxLen /\ codes'[b][t] = base[t]
    BY <1>3, <1>12, <1>13, SMTT(30)
  <1>15. ASSUME excuse'[b] = "none", NEW t \in 1 .. x PROVE base[t] = <<r, Blk(t)>>
    <2>1. t \in 1 .. MaxLen /\ t <= x
      BY <1>14
    <2>2. CASE Changed(b, first, x + 1)
      <3>1. ~ \E i \in 1 .. Blk(x) : <<r, i>> \in given
        BY <1>5, <1>7, <1>8, <1>15, <2>2
      <3> QED  BY <1>10, <1>12, <2>1, <2>2, <3>1
    <2>3. CASE ~Changed(b, first, x + 1)
      <3>1. occupant[b] = r /\ excuse[b] = "none"
        BY <1>5, <1>7, <1>15, <2>3
      <3>2. x <= prev[b]
        BY <1>3, <1>6, <2>3 DEF Changed
      <3>3. t \in 1 .. prev[b] /\ r # NoReq
        BY <1>6, <3>2
      <3>4. codes[b][t] = <<r, Blk(t)>>
        BY <1>2, <3>1, <3>3 DEF SlotInv, SlotsHoldOwn
      <3> QED  BY <1>12, <2>3, <3>4
    <2> QED  BY <2>2, <2>3
  <1>16. ASSUME excuse'[b] = "none", NEW t \in 1 .. x + 1 PROVE codes'[b][t] = <<r, Blk(t)>>
    <2>1. t = x + 1 \/ t \in 1 .. x
      BY <1>3
    <2> QED  BY <1>14, <1>15, <1>16, <2>1
  <1>17. ASSUME owner[b] = first, prev[b] = x, NEW t \in 1 .. x PROVE codes'[b][t] = codes[b][t]
    <2>1. ~Changed(b, first, x + 1)
      BY <1>17 DEF Changed
    <2> QED  BY <1>12, <1>14, <2>1
  <1>18. excuse'[b] \in {"none", "inherited", "lossy"}
    BY <1>5, <1>6
  <1>19. /\ b \in Slots /\ r \in Requests /\ l[r] \in 1 .. MaxLen
         /\ owner'[b] = tbl[r][1] /\ owner'[b] \in Pages
         /\ prev'[b] = l[r] /\ occupant'[b] = r
    BY <1>2, <1>3, <1>4, <1>5
  <1>20. excuse'[b] = "none" => \A t \in 1 .. l[r] : codes'[b][t] = <<r, Blk(t)>>
    BY <1>3, <1>16
  <1>21. (owner[b] = tbl[r][1] /\ prev[b] = len[r]) => \A t \in 1 .. len[r] : codes'[b][t] = codes[b][t]
    BY <1>3, <1>4, <1>17
  <1> QED  BY <1>1, <1>14, <1>18, <1>19, <1>20, <1>21, Zenon

-----------------------------------------------------------------------------
(* The invariant *)

LEMMA SlotInit == Init => SlotInv
  <1> SUFFICES ASSUME Init PROVE SlotInv
    OBVIOUS
  <1> USE DEF Init
  <1>1. SlotTyped
    <2>1. PICK e : e = <<>> /\ e \in Seq(Requests) /\ e \in Seq(Pages) /\ Len(e) = 0
      BY EmptySeq
    <2>2. batch \in Seq(Requests) /\ IsInjective(batch) /\ nd \in 0 .. Len(batch) /\ nd <= MaxBs
      <3>1. DOMAIN batch = {}
        OBVIOUS
      <3>2. IsInjective(batch)
        BY <3>1, Zenon DEF IsInjective
      <3> QED  BY <2>1, <3>2
    <2>3. table \in [Requests -> Seq(Pages)]
      BY <2>1
    <2>4. /\ owner \in [Slots -> Pages \cup {NoPage}] /\ prev \in [Slots -> 0 .. MaxLen]
          /\ codes \in [Slots -> [1 .. MaxLen -> Refs \cup {Garbage}]]
          /\ occupant \in [Slots -> Requests \cup {NoReq}]
          /\ excuse \in [Slots -> {"none", "inherited", "lossy"}]
      OBVIOUS
    <2>5. /\ status \in [Requests -> {"waiting", "running", "preempted", "finished"}]
          /\ given \subseteq Refs /\ kv \in [Pages -> Refs \cup {Garbage}]
          /\ preempts \in 0 .. MaxPreempt
      OBVIOUS
    <2>6. len \in [Requests -> 1 .. MaxLen]
      OBVIOUS
    <2>7. down \in BOOLEAN
      BY Zenon
    <2> QED  BY <2>2, <2>3, <2>4, <2>5, <2>6, <2>7, Zenon DEF SlotTyped
  <1>2. TablesFit
    BY DEF TablesFit
  <1>3. PagesHoldOwn
    <2>1. \A r \in Refs : r[1] \in Requests
      BY DEF Refs
    <2> QED  BY <2>1 DEF PagesHoldOwn, Held
  <1>4. SlotsHoldOwn
    BY DEF SlotsHoldOwn
  <1>5. RowsInSlots
    BY DEF RowsInSlots
  <1> QED  BY <1>1, <1>2, <1>3, <1>4, <1>5 DEF SlotInv

\* A step outside the builder: requests may stop running and blocks may be given
\* away, and nothing else changes.
LEMMA Quiet ==
    ASSUME SlotInv, SlotTyped', UNCHANGED <<len, kv, batch, nd, slotVars>>,
           \A r \in Requests : status'[r] = "running" =>
               status[r] = "running" /\ table'[r] = table[r],
           \A r \in Refs : status'[r[1]] = "running" /\ r \notin given' => r \notin given
    PROVE  SlotInv'
  <1>1. /\ len' = len /\ kv' = kv /\ batch' = batch /\ nd' = nd /\ owner' = owner /\ prev' = prev
        /\ codes' = codes /\ occupant' = occupant /\ excuse' = excuse
    BY DEF slotVars
  <1>2. TablesFit'
    BY <1>1 DEF SlotInv, TablesFit
  <1>3. PagesHoldOwn'
    <2> SUFFICES ASSUME NEW g \in Held' PROVE kv'[table'[g[1]][g[2]]] = g
      BY Zenon DEF PagesHoldOwn
    <2>1. g \in Refs /\ status'[g[1]] = "running" /\ g[2] \in DOMAIN table'[g[1]] /\ g \notin given'
      BY Zenon DEF Held
    <2>2. g[1] \in Requests
      BY <2>1 DEF Refs
    <2>3. status[g[1]] = "running" /\ table'[g[1]] = table[g[1]] /\ g \notin given
      BY <2>1, <2>2
    <2>4. g \in Held
      BY <2>1, <2>3 DEF Held
    <2> QED  BY <1>1, <2>3, <2>4 DEF SlotInv, PagesHoldOwn
  <1>4. SlotsHoldOwn'
    BY <1>1, Zenon DEF SlotInv, SlotsHoldOwn
  <1>5. RowsInSlots'
    <2>1. batch \in Seq(Requests) /\ nd \in 0 .. Len(batch)
      BY DEF SlotInv, SlotTyped
    <2> SUFFICES ASSUME NEW b \in 1 .. nd
                 PROVE  /\ occupant[b] = batch[b] /\ prev[b] = len[batch[b]]
                        /\ status'[batch[b]] = "running" => owner[b] = table'[batch[b]][1]
      BY <1>1, Zenon DEF RowsInSlots
    <2>2. batch[b] \in Requests
      <3>1. b \in 1 .. Len(batch)
        BY <2>1
      <3> QED  BY <2>1, <3>1, ElementOfSeq
    <2>3. /\ occupant[b] = batch[b] /\ prev[b] = len[batch[b]]
          /\ status[batch[b]] = "running" => owner[b] = table[batch[b]][1]
      BY DEF SlotInv, RowsInSlots
    <2> QED  BY <2>2, <2>3
  <1> QED  BY <1>2, <1>3, <1>4, <1>5 DEF SlotInv

\* A request that leaves, for good or to come back.
LEMMA LeaveKeeps ==
    ASSUME SlotInv, NEW r \in Requests, NEW s \in {"preempted", "finished"},
           status' = [status EXCEPT ![r] = s], table' = [table EXCEPT ![r] = <<>>],
           given' = {g \in given : g[1] # r}, preempts' \in 0 .. MaxPreempt,
           UNCHANGED <<len, kv, batch, nd, slotVars, down>>
    PROVE  SlotInv'
  <1>1. /\ len' = len /\ kv' = kv /\ batch' = batch /\ nd' = nd /\ owner' = owner /\ prev' = prev
        /\ codes' = codes /\ occupant' = occupant /\ excuse' = excuse /\ down' = down
    BY DEF slotVars
  <1>2. SlotTyped'
    <2>1. status' \in [Requests -> {"waiting", "running", "preempted", "finished"}]
      BY DEF SlotInv, SlotTyped
    <2>2. table' \in [Requests -> Seq(Pages)]
      BY DEF SlotInv, SlotTyped
    <2>3. given' \subseteq Refs
      BY DEF SlotInv, SlotTyped
    <2> QED  BY <1>1, <2>1, <2>2, <2>3, Zenon DEF SlotInv, SlotTyped
  <1>3. \A i \in Requests : status'[i] = "running" => status[i] = "running" /\ table'[i] = table[i]
    BY DEF SlotInv, SlotTyped
  <1>4. \A g \in Refs : status'[g[1]] = "running" /\ g \notin given' => g \notin given
    <2>1. \A g \in Refs : g[1] \in Requests
      BY DEF Refs
    <2> QED  BY <2>1 DEF SlotInv, SlotTyped
  <1>5. UNCHANGED <<len, kv, batch, nd, slotVars>>
    BY <1>1 DEF slotVars
  <1> QED  BY <1>2, <1>3, <1>4, <1>5, Quiet

\* A page is allocated to one block, which it holds from then on; the pages of the
\* blocks already held are left alone.
LEMMA StepPages ==
    ASSUME SlotInv, NEW D, NEW P, NEW alloc, NEW rows, NEW n, NEW l, NEW tbl,
           Shape(D, P, alloc, rows, n, l, tbl)
    PROVE  kv' \in [Pages -> Refs \cup {Garbage}] /\ TablesFit' /\ PagesHoldOwn'
  <1>1. /\ D \in SUBSET Requests /\ P \in SUBSET Requests
        /\ \A r \in D : status[r] = "running"
        /\ \A r \in Requests \ (D \cup P) : l[r] = len[r]
        /\ DOMAIN alloc \subseteq Refs /\ alloc \in [DOMAIN alloc -> Free] /\ IsInjective(alloc)
    BY Zenon DEF Shape
  <1>2. /\ tbl \in [Requests -> Seq(Pages)]
        /\ \A r \in D \cup P : Len(tbl[r]) = Blk(l[r])
        /\ \A r \in D \cup P : \A i \in 1 .. Blk(l[r]) :
              \/ <<r, i>> \in DOMAIN alloc /\ tbl[r][i] = alloc[<<r, i>>]
              \/ r \in D /\ i \in 1 .. Blk(len[r]) /\ tbl[r][i] = table[r][i]
        /\ \A r \in Requests \ (D \cup P) : tbl[r] = table[r]
    BY Zenon DEF Shape
  <1>3. /\ status' = [r \in Requests |-> IF r \in P THEN "running" ELSE status[r]]
        /\ len' = l /\ table' = tbl /\ given' = given
    BY DEF Shape
  <1>4. kv' = [p \in Pages |-> IF \E r \in DOMAIN alloc : alloc[r] = p
                                   THEN CHOOSE r \in DOMAIN alloc : alloc[r] = p ELSE kv[p]]
    BY Zenon DEF Shape
  <1>5. kv \in [Pages -> Refs \cup {Garbage}]
    BY DEF SlotInv, SlotTyped
  <1>6. kv' \in [Pages -> Refs \cup {Garbage}]
    <2>1. ASSUME NEW p \in Pages PROVE kv'[p] \in Refs \cup {Garbage}
      <3>1. CASE \E r \in DOMAIN alloc : alloc[r] = p
        <4>1. (CHOOSE r \in DOMAIN alloc : alloc[r] = p) \in DOMAIN alloc
          BY <3>1, Zenon
        <4>2. kv'[p] = CHOOSE r \in DOMAIN alloc : alloc[r] = p
          BY <1>4, <3>1, Zenon
        <4> QED  BY <1>1, <4>1, <4>2
      <3>2. CASE ~ \E r \in DOMAIN alloc : alloc[r] = p
        BY <1>4, <1>5, <3>2
      <3> QED  BY <3>1, <3>2
    <2> QED  BY <1>4, <2>1
  <1>7. TablesFit'
    <2> SUFFICES ASSUME NEW r \in Requests, status'[r] = "running" PROVE Len(tbl[r]) = Blk(l[r])
      BY <1>3, Zenon DEF TablesFit
    <2>1. CASE r \in D \cup P
      BY <1>2, <2>1
    <2>2. CASE r \notin D \cup P
      BY <1>1, <1>2, <1>3, <2>2 DEF SlotInv, TablesFit
    <2> QED  BY <2>1, <2>2
  <1>8. PagesHoldOwn'
    <2> SUFFICES ASSUME NEW g \in Held' PROVE kv'[tbl[g[1]][g[2]]] = g
      BY <1>3, Zenon DEF PagesHoldOwn
    <2>1. g \in Refs /\ status'[g[1]] = "running" /\ g[2] \in DOMAIN tbl[g[1]] /\ g \notin given
      BY <1>3, Zenon DEF Held
    <2>2. PICK r \in Requests, i \in 1 .. Blk(MaxLen) : g = <<r, i>>
      BY <2>1 DEF Refs
    <2>3. status'[r] = "running" /\ i \in DOMAIN tbl[r]
      BY <2>1, <2>2
    <2>4. i \in 1 .. Len(tbl[r]) /\ tbl[r] \in Seq(Pages) /\ tbl[r][i] \in Pages
      BY <1>2, <2>3, LenProperties, ElementOfSeq
    <2>5. \/ g \in DOMAIN alloc /\ tbl[r][i] = alloc[g]
          \/ status[r] = "running" /\ i \in DOMAIN table[r] /\ tbl[r][i] = table[r][i]
      <3>1. CASE r \in D \cup P
        <4>1. \/ g \in DOMAIN alloc /\ tbl[r][i] = alloc[g]
              \/ r \in D /\ i \in 1 .. Blk(len[r]) /\ tbl[r][i] = table[r][i]
          BY <1>2, <2>2, <2>4, <3>1
        <4>2. ASSUME r \in D, i \in 1 .. Blk(len[r]) PROVE i \in DOMAIN table[r]
          <5>1. table[r] \in Seq(Pages) /\ Len(table[r]) = Blk(len[r])
            BY <1>1, <4>2 DEF SlotInv, SlotTyped, TablesFit
          <5> QED  BY <4>2, <5>1, LenProperties
        <4> QED  BY <1>1, <4>1, <4>2
      <3>2. CASE r \notin D \cup P
        BY <1>2, <1>3, <2>3, <3>2
      <3> QED  BY <3>1, <3>2
    <2>6. CASE g \in DOMAIN alloc /\ tbl[r][i] = alloc[g]
      <3>1. \E k \in DOMAIN alloc : alloc[k] = alloc[g]
        BY <2>6
      <3>2. kv'[alloc[g]] = CHOOSE k \in DOMAIN alloc : alloc[k] = alloc[g]
        <4>1. alloc[g] \in Pages
          BY <2>4, <2>6
        <4> QED  BY <1>4, <3>1, <4>1, Zenon
      <3>3. (CHOOSE k \in DOMAIN alloc : alloc[k] = alloc[g]) = g
        <4>1. \A k \in DOMAIN alloc : alloc[k] = alloc[g] => k = g
          BY <1>1, <2>6, Zenon DEF IsInjective
        <4> QED  BY <3>1, <4>1, Zenon
      <3>4. kv'[tbl[r][i]] = g
        BY <2>6, <3>2, <3>3
      <3> QED  BY <2>2, <3>4
    <2>7. CASE status[r] = "running" /\ i \in DOMAIN table[r] /\ tbl[r][i] = table[r][i]
      <3>1. g \in Held /\ g[1] = r /\ g[2] = i
        BY <2>1, <2>2, <2>7 DEF Held
      <3>2. table[r][i] \notin Free
        BY <3>1 DEF Free
      <3>3. ~ \E k \in DOMAIN alloc : alloc[k] = table[r][i]
        BY <1>1, <3>2
      <3>4. kv[table[r][i]] = g
        BY <3>1 DEF SlotInv, PagesHoldOwn
      <3>5. kv'[table[r][i]] = kv[table[r][i]]
        BY <1>4, <2>4, <2>7, <3>3
      <3> QED  BY <2>7, <3>1, <3>4, <3>5
    <2> QED  BY <2>5, <2>6, <2>7
  <1> QED  BY <1>6, <1>7, <1>8

\* The slots beyond the decode rows keep what they hold.
LEMMA SlotsApart ==
    ASSUME NEW D, NEW P, NEW alloc, NEW rows, NEW n, NEW l, NEW tbl,
           Shape(D, P, alloc, rows, n, l, tbl)
    PROVE  /\ DOMAIN owner' = Slots /\ DOMAIN prev' = Slots /\ DOMAIN codes' = Slots
           /\ DOMAIN occupant' = Slots /\ DOMAIN excuse' = Slots
           /\ owner' = [b \in Slots |-> owner'[b]] /\ prev' = [b \in Slots |-> prev'[b]]
           /\ codes' = [b \in Slots |-> codes'[b]] /\ occupant' = [b \in Slots |-> occupant'[b]]
           /\ excuse' = [b \in Slots |-> excuse'[b]]
           /\ \A b \in Slots : b \notin 1 .. n =>
                 /\ owner'[b] = owner[b] /\ prev'[b] = prev[b] /\ codes'[b] = codes[b]
                 /\ occupant'[b] = occupant[b] /\ excuse'[b] = excuse[b]
  <1>1. FillSlots(rows, n, tbl, l) /\ Note(rows, n, tbl, l) /\ n \in 0 .. Len(rows)
    BY DEF Shape
  <1>2. rows \in Seq(Requests)
    BY DEF Shape
  <1>3. n \in Int
    BY <1>1, <1>2
  <1>4. \A b \in Slots : b \notin 1 .. n => b > n /\ ~(b <= n)
    BY <1>3 DEF Slots
  <1>5. /\ DOMAIN owner' = Slots /\ DOMAIN prev' = Slots /\ DOMAIN codes' = Slots
        /\ owner' = [b \in Slots |-> owner'[b]] /\ prev' = [b \in Slots |-> prev'[b]]
        /\ codes' = [b \in Slots |-> codes'[b]]
    BY <1>1 DEF FillSlots
  <1>6. /\ DOMAIN occupant' = Slots /\ DOMAIN excuse' = Slots
        /\ occupant' = [b \in Slots |-> occupant'[b]] /\ excuse' = [b \in Slots |-> excuse'[b]]
    BY <1>1 DEF Note
  <1>7. ASSUME NEW b \in Slots, b \notin 1 .. n
        PROVE  owner'[b] = owner[b] /\ prev'[b] = prev[b] /\ codes'[b] = codes[b]
    BY <1>1, <1>4, <1>7 DEF FillSlots
  <1>8. ASSUME NEW b \in Slots, b \notin 1 .. n
        PROVE  occupant'[b] = occupant[b] /\ excuse'[b] = excuse[b]
    BY <1>1, <1>4, <1>8 DEF Note
  <1> QED  BY <1>5, <1>6, <1>7, <1>8

LEMMA StepKeeps ==
    ASSUME SlotInv, EngineStep
    PROVE  SlotInv'
  <1>1. PICK D, P, alloc, rows, n, l, tbl : Shape(D, P, alloc, rows, n, l, tbl)
    BY StepShape
  <1>2. kv' \in [Pages -> Refs \cup {Garbage}] /\ TablesFit' /\ PagesHoldOwn'
    BY <1>1, StepPages
  <1>3. /\ n \in 0 .. Len(rows) /\ n <= MaxBs /\ rows \in Seq(Requests) /\ IsInjective(rows)
        /\ l \in [Requests -> 1 .. MaxLen] /\ tbl \in [Requests -> Seq(Pages)]
        /\ P \in SUBSET Requests
    BY <1>1, Zenon DEF Shape
  <1>4. /\ status' = [r \in Requests |-> IF r \in P THEN "running" ELSE status[r]]
        /\ len' = l /\ table' = tbl /\ batch' = rows /\ nd' = n
        /\ given' = given /\ preempts' = preempts /\ down' = down
    BY <1>1 DEF Shape
  <1>5. ASSUME NEW b \in 1 .. n
        PROVE  /\ b \in Slots /\ rows[b] \in Requests /\ l[rows[b]] \in 1 .. MaxLen
               /\ owner'[b] = tbl[rows[b]][1] /\ owner'[b] \in Pages
               /\ prev'[b] = l[rows[b]] /\ occupant'[b] = rows[b]
               /\ codes'[b] \in [1 .. MaxLen -> Refs \cup {Garbage}]
               /\ excuse'[b] \in {"none", "inherited", "lossy"}
               /\ excuse'[b] = "none" =>
                    \A t \in 1 .. l[rows[b]] : codes'[b][t] = <<rows[b], Blk(t)>>
    BY <1>1, SlotFilled
  <1>6. /\ owner' = [b \in Slots |-> owner'[b]] /\ prev' = [b \in Slots |-> prev'[b]]
        /\ codes' = [b \in Slots |-> codes'[b]] /\ occupant' = [b \in Slots |-> occupant'[b]]
        /\ excuse' = [b \in Slots |-> excuse'[b]]
        /\ \A b \in Slots : b \notin 1 .. n =>
              /\ owner'[b] = owner[b] /\ prev'[b] = prev[b] /\ codes'[b] = codes[b]
              /\ occupant'[b] = occupant[b] /\ excuse'[b] = excuse[b]
    BY <1>1, SlotsApart
  <1>7. SlotTyped'
    <2>1. ASSUME NEW b \in Slots
          PROVE  /\ owner'[b] \in Pages \cup {NoPage} /\ prev'[b] \in 0 .. MaxLen
                 /\ codes'[b] \in [1 .. MaxLen -> Refs \cup {Garbage}]
                 /\ occupant'[b] \in Requests \cup {NoReq}
                 /\ excuse'[b] \in {"none", "inherited", "lossy"}
      <3>1. CASE b \in 1 .. n
        <4>1. prev'[b] \in 0 .. MaxLen
          BY <1>5, <3>1
        <4> QED  BY <1>5, <3>1, <4>1
      <3>2. CASE b \notin 1 .. n
        <4>1. /\ owner[b] \in Pages \cup {NoPage} /\ prev[b] \in 0 .. MaxLen
              /\ codes[b] \in [1 .. MaxLen -> Refs \cup {Garbage}]
              /\ occupant[b] \in Requests \cup {NoReq}
              /\ excuse[b] \in {"none", "inherited", "lossy"}
          BY DEF SlotInv, SlotTyped
        <4> QED  BY <1>6, <3>2, <4>1
      <3> QED  BY <3>1, <3>2
    <2>2. owner' \in [Slots -> Pages \cup {NoPage}]
      BY <1>6, <2>1
    <2>3. prev' \in [Slots -> 0 .. MaxLen]
      BY <1>6, <2>1
    <2>4. codes' \in [Slots -> [1 .. MaxLen -> Refs \cup {Garbage}]]
      <3>1. PICK C : C = [1 .. MaxLen -> Refs \cup {Garbage}]
        OBVIOUS
      <3>2. codes' = [b \in Slots |-> codes'[b]] /\ \A b \in Slots : codes'[b] \in C
        BY <1>6, <2>1, <3>1
      <3>3. codes' \in [Slots -> C]
        BY <3>2
      <3> QED  BY <3>1, <3>3
    <2>5. occupant' \in [Slots -> Requests \cup {NoReq}]
      BY <1>6, <2>1
    <2>6. excuse' \in [Slots -> {"none", "inherited", "lossy"}]
      BY <1>6, <2>1
    <2>7. status' \in [Requests -> {"waiting", "running", "preempted", "finished"}]
      BY <1>4 DEF SlotInv, SlotTyped
    <2>8. given \subseteq Refs /\ preempts \in 0 .. MaxPreempt /\ down \in BOOLEAN
      BY Zenon DEF SlotInv, SlotTyped
    <2> QED  BY <1>2, <1>3, <1>4, <2>2, <2>3, <2>4, <2>5, <2>6, <2>7, <2>8, Zenon DEF SlotTyped
  <1>8. SlotsHoldOwn'
    <2> SUFFICES ASSUME NEW b \in Slots, excuse'[b] = "none", occupant'[b] # NoReq,
                        NEW t \in 1 .. prev'[b]
                 PROVE  codes'[b][t] = <<occupant'[b], Blk(t)>>
      BY Zenon DEF SlotsHoldOwn
    <2>1. CASE b \in 1 .. n
      BY <1>5, <2>1
    <2>2. CASE b \notin 1 .. n
      <3>1. /\ prev'[b] = prev[b] /\ codes'[b] = codes[b]
            /\ occupant'[b] = occupant[b] /\ excuse'[b] = excuse[b]
        BY <1>6, <2>2
      <3> QED  BY <3>1 DEF SlotInv, SlotsHoldOwn
    <2> QED  BY <2>1, <2>2
  <1>9. RowsInSlots'
    <2> SUFFICES ASSUME NEW b \in 1 .. n
                 PROVE  /\ occupant'[b] = rows[b] /\ prev'[b] = l[rows[b]]
                        /\ owner'[b] = tbl[rows[b]][1]
      BY <1>4, Zenon DEF RowsInSlots
    <2> QED  BY <1>5
  <1> QED  BY <1>2, <1>7, <1>8, <1>9 DEF SlotInv

\* Finish, _preempt_request, the freeing of an offloaded block and the builder's
\* exception touch no slot.
LEMMA OthersKeep ==
    ASSUME SlotInv,
           \/ TooManyRows
           \/ \E r \in Requests : Finish(r)
           \/ \E r \in Requests : Preempt(r)
           \/ \E r \in Refs : TrueFree(r[1], r[2])
           \/ UNCHANGED vars
    PROVE  SlotInv' /\ codes' = codes
  <1>1. CASE TooManyRows \/ UNCHANGED vars
    <2>1. /\ status' = status /\ len' = len /\ table' = table /\ given' = given /\ kv' = kv
          /\ preempts' = preempts /\ batch' = batch /\ nd' = nd
          /\ owner' = owner /\ prev' = prev /\ codes' = codes /\ occupant' = occupant
          /\ excuse' = excuse
      BY <1>1 DEF TooManyRows, vars, reqVars, slotVars
    <2>2. down' \in BOOLEAN
      <3>1. down' = TRUE \/ down' = down
        BY <1>1, Zenon DEF TooManyRows, vars
      <3>2. down \in BOOLEAN
        BY Zenon DEF SlotInv, SlotTyped
      <3> QED  BY <3>1, <3>2, Zenon
    <2>3. SlotTyped'
      BY <2>1, <2>2, Zenon DEF SlotInv, SlotTyped
    <2>4. UNCHANGED <<len, kv, batch, nd, slotVars>>
      BY <2>1 DEF slotVars
    <2>5. SlotInv'
      BY <2>1, <2>3, <2>4, Quiet
    <2> QED  BY <2>1, <2>5
  <1>2. ASSUME NEW r \in Requests, Finish(r) PROVE SlotInv' /\ codes' = codes
    <2>1. preempts' \in 0 .. MaxPreempt
      BY <1>2 DEF Finish, SlotInv, SlotTyped
    <2>2. /\ status' = [status EXCEPT ![r] = "finished"] /\ table' = [table EXCEPT ![r] = <<>>]
          /\ given' = {g \in given : g[1] # r}
          /\ UNCHANGED <<len, kv, batch, nd, slotVars, down>>
      BY <1>2, Zenon DEF Finish
    <2>3. codes' = codes
      BY <2>2 DEF slotVars
    <2> QED  BY <2>1, <2>2, <2>3, LeaveKeeps
  <1>3. ASSUME NEW r \in Requests, Preempt(r) PROVE SlotInv' /\ codes' = codes
    <2>1. preempts' \in 0 .. MaxPreempt
      BY <1>3 DEF Preempt, SlotInv, SlotTyped
    <2>2. /\ status' = [status EXCEPT ![r] = "preempted"] /\ table' = [table EXCEPT ![r] = <<>>]
          /\ given' = {g \in given : g[1] # r}
          /\ UNCHANGED <<len, kv, batch, nd, slotVars, down>>
      BY <1>3, Zenon DEF Preempt
    <2>3. codes' = codes
      BY <2>2 DEF slotVars
    <2> QED  BY <2>1, <2>2, <2>3, LeaveKeeps
  <1>4. ASSUME NEW r \in Refs, TrueFree(r[1], r[2]) PROVE SlotInv' /\ codes' = codes
    <2>1. /\ <<r[1], r[2]>> \in Held /\ given' = given \cup {<<r[1], r[2]>>}
          /\ UNCHANGED <<status, len, table, kv, preempts, batch, nd, slotVars, down>>
      BY <1>4, Zenon DEF TrueFree
    <2>2. /\ status' = status /\ len' = len /\ table' = table /\ kv' = kv
          /\ preempts' = preempts /\ batch' = batch /\ nd' = nd /\ down' = down
          /\ owner' = owner /\ prev' = prev /\ codes' = codes /\ occupant' = occupant
          /\ excuse' = excuse
      BY <2>1 DEF slotVars
    <2>3. given' \subseteq Refs
      <3>1. given \subseteq Refs
        BY Zenon DEF SlotInv, SlotTyped
      <3> QED  BY <2>1, <3>1, Zenon DEF Held
    <2>4. SlotTyped'
      BY <2>2, <2>3, Zenon DEF SlotInv, SlotTyped
    <2>5. \A g \in Refs : g \notin given' => g \notin given
      BY <2>1
    <2>6. UNCHANGED <<len, kv, batch, nd, slotVars>>
      BY <2>2 DEF slotVars
    <2>7. SlotInv'
      BY <2>2, <2>4, <2>5, <2>6, Quiet
    <2> QED  BY <2>2, <2>7
  <1> QED  BY <1>1, <1>2, <1>3, <1>4

-----------------------------------------------------------------------------
(* Theorems *)

\* The metadata builder and the persistent batch keep SlotInv: the batch lists
\* every row once with the decode rows first, pages hold the blocks they were
\* allocated for, and a slot belongs to the row at its position.
THEOREM SlotInvariant == Spec => []SlotInv
  <1>1. SlotInv /\ [Next]_vars => SlotInv'
    BY StepKeeps, OthersKeep DEF Next
  <1> QED  BY <1>1, SlotInit, PTL DEF Spec

\* remove_request, add_request, condense and the reordering leave no hole in the
\* batch and no request in it twice, and _sk_fill_slots writes entries of the
\* slots' types only.
THEOREM SlotTypeCorrect == Spec => []SlotTypeOK
  <1>1. SlotInv => SlotTypeOK
    <2> SUFFICES ASSUME SlotInv PROVE SlotTypeOK
      OBVIOUS
    <2>1. \A r \in Requests : ToSet(table[r]) \subseteq Pages
      <3> SUFFICES ASSUME NEW r \in Requests, NEW i \in DOMAIN table[r] PROVE table[r][i] \in Pages
        BY Zenon DEF ToSet
      <3>1. table[r] \in Seq(Pages)
        BY DEF SlotInv, SlotTyped
      <3> QED  BY <3>1, LenProperties, ElementOfSeq
    <2>2. ToSet(batch) \subseteq Requests
      <3> SUFFICES ASSUME NEW i \in DOMAIN batch PROVE batch[i] \in Requests
        BY Zenon DEF ToSet
      <3>1. batch \in Seq(Requests)
        BY DEF SlotInv, SlotTyped
      <3> QED  BY <3>1, LenProperties, ElementOfSeq
    <2> QED  BY <2>1, <2>2, Zenon DEF SlotInv, SlotTyped, SlotTypeOK
  <1> QED  BY <1>1, SlotInvariant, PTL

\* _sk_fill_slots and the append of the forward pass: the codes a decode row is
\* scored with are those of its own tokens, for any number of requests, slots and
\* pages and any order of joining, leaving, moving and freeing, unless the slot was
\* taken over unnoticed or rebuilt from freed pages.
THEOREM RowsAreScoredWithOwnCodes == Spec => []CodesAreOwn
  <1>1. SlotInv => CodesAreOwn
    <2> SUFFICES ASSUME SlotInv, NEW b \in 1 .. nd, excuse[b] = "none",
                        NEW t \in 1 .. len[batch[b]]
                 PROVE  codes[b][t] = <<batch[b], Blk(t)>>
      BY Zenon DEF CodesAreOwn, Own
    <2>1. batch \in Seq(Requests) /\ nd \in 0 .. Len(batch) /\ nd <= MaxBs
      BY DEF SlotInv, SlotTyped
    <2>2. b \in Slots /\ b \in 1 .. Len(batch)
      BY <2>1 DEF Slots
    <2>3. batch[b] \in Requests /\ batch[b] # NoReq
      BY <2>1, <2>2, ElementOfSeq
    <2>4. occupant[b] = batch[b] /\ prev[b] = len[batch[b]]
      BY DEF SlotInv, RowsInSlots
    <2> QED  BY <2>2, <2>3, <2>4 DEF SlotInv, SlotsHoldOwn
  <1> QED  BY <1>1, SlotInvariant, PTL

\* _sk_fill_slots finds no change in a row that kept its place: its codes are
\* extended by the new token and never rebuilt, whatever became of its pages.
THEOREM SteadyRowsAreNotRebuilt == Spec => SteadyRowsKeepCodes
  <1> DEFINE Steady == \A b \in 1 .. nd :
               b <= nd' /\ batch'[b] = batch[b] =>
                   \A t \in 1 .. len[batch[b]] : codes'[b][t] = codes[b][t]
  <1>1. ASSUME SlotInv, EngineStep PROVE Steady
    <2>1. PICK D, P, alloc, rows, n, l, tbl : Shape(D, P, alloc, rows, n, l, tbl)
      BY <1>1, StepShape
    <2>2. /\ batch' = rows /\ nd' = n /\ n \in 0 .. Len(rows) /\ rows \in Seq(Requests)
          /\ D \in SUBSET Requests /\ \A i \in 1 .. n : rows[i] \in D
          /\ \A r \in D : status[r] = "running"
          /\ \A r \in D : \A i \in 1 .. Blk(len[r]) : tbl[r][i] = table[r][i]
      BY <2>1, Zenon DEF Shape
    <2> SUFFICES ASSUME NEW b \in 1 .. nd, b <= n, rows[b] = batch[b],
                        NEW t \in 1 .. len[batch[b]]
                 PROVE  codes'[b][t] = codes[b][t]
      BY <2>2, Zenon
    <2>3. b \in 1 .. n
      BY <2>2
    <2>4. PICK r \in D : r = rows[b] /\ r \in Requests /\ status[r] = "running"
      BY <2>2, <2>3
    <2>5. owner[b] = table[r][1] /\ prev[b] = len[r]
      BY <1>1, <2>4 DEF SlotInv, RowsInSlots
    <2>6. tbl[r][1] = table[r][1]
      <3>1. PICK x \in Nat : x = len[r] /\ x >= 1
        BY <1>1, <2>4, LenFacts DEF SlotInv
      <3>2. Blk(x) \in Nat /\ Blk(x) >= 1
        BY <3>1, BlkBounds, BlkMono
      <3>3. 1 \in 1 .. Blk(x)
        BY <3>2
      <3> QED  BY <2>2, <3>1, <3>3
    <2>7. owner[b] = tbl[rows[b]][1] /\ prev[b] = len[rows[b]] =>
            \A i \in 1 .. len[rows[b]] : codes'[b][i] = codes[b][i]
      BY <1>1, <2>1, <2>3, SlotFilled
    <2> QED  BY <2>4, <2>5, <2>6, <2>7
  <1>2. ASSUME SlotInv, [Next]_vars PROVE Steady
    <2>1. CASE EngineStep
      BY <1>1, <1>2, <2>1
    <2>2. CASE ~EngineStep
      <3>1. codes' = codes
        BY <1>2, <2>2, OthersKeep DEF Next
      <3> QED  BY <3>1
    <2> QED  BY <2>1, <2>2
  <1>3. SlotInv /\ [Next]_vars => [Steady]_vars
    BY <1>2
  <1> QED  BY <1>3, SlotInvariant, PTL DEF Spec, SteadyRowsKeepCodes

=============================================================================
