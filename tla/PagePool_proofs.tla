--------------------------- MODULE PagePool_proofs ---------------------------
(***************************************************************************)
(* Proofs about the page pool: the references and the free queue, the       *)
(* hashes, and what the pages and the CPU copies hold.                      *)
(***************************************************************************)
EXTENDS PagePool, SequenceLemmas, FiniteSetTheorems

-----------------------------------------------------------------------------
(* Sequences and places *)

\* The numbers of a finite set are counted from its least element up.
Rank(D) == [i \in D |-> Cardinality({j \in D : j <= i})]

LEMMA Ranks ==
    ASSUME NEW D \in SUBSET Nat, IsFiniteSet(D)
    PROVE  /\ Cardinality(D) \in Nat /\ Rank(D) \in [D -> 1 .. Cardinality(D)]
           /\ \A i, j \in D : i < j => Rank(D)[i] < Rank(D)[j]
           /\ \A k \in 1 .. Cardinality(D) : \E i \in D : Rank(D)[i] = k
  <1>0. PICK rank : rank = Rank(D) /\ rank = [i \in D |-> Cardinality({j \in D : j <= i})]
    BY DEF Rank
  <1>1. PICK n \in Nat : n = Cardinality(D)
    BY FS_CardinalityType
  <1>2. ASSUME NEW i \in D
        PROVE  /\ IsFiniteSet({j \in D : j <= i}) /\ rank[i] \in 1 .. n
               /\ rank[i] = Cardinality({j \in D : j <= i})
    <2>1. PICK L : L = {j \in D : j <= i}
      OBVIOUS
    <2>2. IsFiniteSet(L) /\ Cardinality(L) <= n /\ Cardinality(L) \in Nat
      BY <1>1, <2>1, FS_Subset, FS_CardinalityType
    <2>3. i \in L
      BY <2>1
    <2>4. Cardinality(L) # 0
      BY <2>2, <2>3, FS_EmptySet
    <2> QED  BY <1>0, <2>1, <2>2, <2>4
  <1>3. ASSUME NEW i \in D, NEW j \in D, i < j PROVE rank[i] < rank[j]
    <2>1. PICK L, M : L = {x \in D : x <= i} /\ M = {x \in D : x <= j}
      OBVIOUS
    <2>2. L \in SUBSET M /\ j \in M /\ j \notin L
      <3>1. i \in Nat /\ j \in Nat /\ \A x \in D : x \in Nat
        OBVIOUS
      <3>2. \A x \in D : x <= i => x <= j
        BY <1>3, <3>1
      <3>3. j <= j /\ ~(j <= i)
        BY <1>3, <3>1
      <3> QED  BY <2>1, <3>2, <3>3
    <2>3. IsFiniteSet(M) /\ Cardinality(M) = rank[j] /\ Cardinality(L) = rank[i]
      BY <1>2, <2>1, Zenon
    <2>4. Cardinality(L) <= Cardinality(M) /\ (Cardinality(M) = Cardinality(L) => M = L)
      BY <2>2, <2>3, FS_Subset
    <2>5. rank[i] \in 1 .. n /\ rank[j] \in 1 .. n
      BY <1>2, Zenon
    <2>6. rank[i] <= rank[j] /\ rank[i] # rank[j]
      BY <2>2, <2>3, <2>4
    <2> QED  BY <2>5, <2>6
  <1>4. rank \in Injection(D, 1 .. n)
    <2>1. \A i, j \in D : rank[i] = rank[j] => i = j
      <3> SUFFICES ASSUME NEW i \in D, NEW j \in D, rank[i] = rank[j], i # j PROVE FALSE
        OBVIOUS
      <3>1. i < j \/ j < i
        OBVIOUS
      <3>2. rank[i] < rank[j] \/ rank[j] < rank[i]
        BY <1>3, <3>1
      <3>3. rank[i] \in 1 .. n /\ rank[j] \in 1 .. n
        BY <1>2
      <3> QED  BY <3>2, <3>3
    <2>2. rank \in [D -> 1 .. n]
      BY <1>0, <1>2
    <2> QED  BY <2>1, <2>2 DEF Injection, IsInjective
  <1>5. IsFiniteSet(1 .. n) /\ Cardinality(1 .. n) = n
    BY FS_Interval
  <1>6. rank \in Surjection(D, 1 .. n)
    BY <1>1, <1>4, <1>5, FS_Injection
  <1> QED  BY <1>0, <1>1, <1>2, <1>3, <1>6 DEF Surjection

\* f lists the places D in ascending order, a the entries of s at them.
Picks(a, s, D, n, f) ==
    /\ n \in Nat /\ n = Cardinality(D) /\ DOMAIN a = 1 .. n
    /\ f \in [1 .. n -> D]
    /\ \A k, m \in 1 .. n : k < m => f[k] < f[m]
    /\ \A i \in D : \E k \in 1 .. n : f[k] = i
    /\ \A k \in 1 .. n : a[k] = s[f[k]]

LEMMA AtPicks ==
    ASSUME NEW S, NEW s \in Seq(S), NEW D \in SUBSET DOMAIN s, NEW a, a = At(s, D)
    PROVE  /\ \E n, f : Picks(a, s, D, n, f)
           /\ a \in Seq(S) /\ Len(a) = Cardinality(D) /\ IsFiniteSet(D) /\ D \in SUBSET Nat
  <1>1. D \in SUBSET Nat /\ IsFiniteSet(D)
    <2>1. DOMAIN s = 1 .. Len(s) /\ Len(s) \in Nat
      BY LenProperties
    <2>2. IsFiniteSet(DOMAIN s)
      BY <2>1, FS_Interval
    <2> QED  BY <2>1, <2>2, FS_Subset
  <1>2. PICK rank : rank = Rank(D) /\ rank = [i \in D |-> Cardinality({j \in D : j <= i})]
    BY DEF Rank
  <1>3. /\ Cardinality(D) \in Nat /\ rank \in [D -> 1 .. Cardinality(D)]
        /\ \A i, j \in D : i < j => rank[i] < rank[j]
        /\ \A k \in 1 .. Cardinality(D) : \E i \in D : rank[i] = k
    BY <1>1, <1>2, Ranks
  <1>4. PICK n \in Nat : n = Cardinality(D)
    BY <1>3
  <1> DEFINE f == [k \in 1 .. n |-> CHOOSE i \in D : Cardinality({j \in D : j <= i}) = k]
  <1>5. ASSUME NEW k \in 1 .. n PROVE f[k] \in D /\ rank[f[k]] = k
    <2>1. \E i \in D : Cardinality({j \in D : j <= i}) = k
      BY <1>2, <1>3, <1>4
    <2>2. f[k] \in D /\ Cardinality({j \in D : j <= f[k]}) = k
      BY <2>1, Zenon
    <2> QED  BY <1>2, <2>2
  <1>6. a = [k \in 1 .. n |-> s[f[k]]]
    <2>1. \A k \in 1 .. n : f[k] = CHOOSE i \in D : Cardinality({j \in D : j <= i}) = k
      BY Zenon
    <2>2. a = [k \in 1 .. n |-> s[CHOOSE i \in D : Cardinality({j \in D : j <= i}) = k]]
      BY <1>4, Zenon DEF At
    <2> HIDE DEF f
    <2> QED  BY <2>1, <2>2, Zenon
  <1>7. f \in [1 .. n -> D]
    BY <1>5
  <1> HIDE DEF f
  <1>8. ASSUME NEW k \in 1 .. n, NEW m \in 1 .. n, k < m PROVE f[k] < f[m]
    <2>1. f[k] \in D /\ f[m] \in D /\ rank[f[k]] = k /\ rank[f[m]] = m
      BY <1>5
    <2>2. f[k] \in Nat /\ f[m] \in Nat
      BY <1>1, <2>1
    <2>3. f[k] # f[m]
      BY <1>8, <2>1
    <2>4. ~(f[m] < f[k])
      BY <1>3, <1>8, <2>1
    <2> QED  BY <2>2, <2>3, <2>4
  <1>9. ASSUME NEW i \in D PROVE \E k \in 1 .. n : f[k] = i
    <2>1. rank[i] \in 1 .. n
      BY <1>3, <1>4
    <2>2. f[rank[i]] \in D /\ rank[f[rank[i]]] = rank[i]
      BY <1>5, <2>1
    <2>3. PICK x \in Nat, y \in Nat : x = i /\ y = f[rank[i]]
      BY <1>1, <2>2
    <2>4. ~(x < y) /\ ~(y < x)
      BY <1>3, <1>4, <2>1, <2>2, <2>3
    <2>5. x = y
      BY <2>4
    <2> QED  BY <2>1, <2>3, <2>5
  <1>10. \A k \in 1 .. n : s[f[k]] \in S
    BY <1>7, LenProperties, ElementOfSeq
  <1>11. a \in [1 .. n -> S] /\ DOMAIN a = 1 .. n /\ \A k \in 1 .. n : a[k] = s[f[k]]
    BY <1>6, <1>10
  <1>12. a \in Seq(S) /\ Len(a) = n
    BY <1>11, FunctionSeq
  <1>13. Picks(a, s, D, n, f)
    BY <1>4, <1>7, <1>8, <1>9, <1>11 DEF Picks
  <1> QED  BY <1>1, <1>4, <1>12, <1>13

\* No entry occurs twice.
Distinct(s) == \A i, j \in DOMAIN s : s[i] = s[j] => i = j

LEMMA AtEntries ==
    ASSUME NEW S, NEW s \in Seq(S), NEW D \in SUBSET DOMAIN s, NEW a, a = At(s, D)
    PROVE  /\ a \in Seq(S) /\ Entries(a) = {s[i] : i \in D} /\ Len(a) = Cardinality(D)
           /\ (\A i, j \in D : s[i] = s[j] => i = j) => Distinct(a)
  <1>1. PICK n, f : Picks(a, s, D, n, f)
    BY AtPicks
  <1>2. a \in Seq(S) /\ Len(a) = Cardinality(D) /\ D \in SUBSET Nat
    BY AtPicks
  <1>3. Entries(a) = {s[i] : i \in D}
    BY <1>1, SMTT(30) DEF Picks, Entries
  <1>4. ASSUME \A i, j \in D : s[i] = s[j] => i = j PROVE Distinct(a)
    <2> SUFFICES ASSUME NEW k \in 1 .. n, NEW m \in 1 .. n, a[k] = a[m] PROVE k = m
      BY <1>1, Zenon DEF Picks, Distinct
    <2>1. f[k] \in D /\ f[m] \in D /\ f[k] = f[m] /\ f[k] \in Nat
      BY <1>1, <1>2, <1>4, SMTT(30) DEF Picks
    <2>2. ~(k < m) /\ ~(m < k)
      BY <1>1, <2>1 DEF Picks
    <2>3. n \in Nat
      BY <1>1 DEF Picks
    <2> QED  BY <2>2, <2>3
  <1> QED  BY <1>2, <1>3, <1>4

\* Entries without repetitions are as many as the sequence is long, and only then.
LEMMA DistinctLen ==
    ASSUME NEW S, NEW s \in Seq(S)
    PROVE  /\ Distinct(s) <=> Len(s) = Cardinality(Entries(s))
           /\ IsFiniteSet(Entries(s)) /\ Entries(s) \subseteq S
  <1>1. DOMAIN s = 1 .. Len(s) /\ Len(s) \in Nat /\ s \in [1 .. Len(s) -> S]
    BY LenProperties
  <1>2. IsFiniteSet(1 .. Len(s)) /\ Cardinality(1 .. Len(s)) = Len(s)
    BY <1>1, FS_Interval
  <1>3. s \in Surjection(1 .. Len(s), Entries(s))
    BY <1>1 DEF Surjection, Entries
  <1>4. IsFiniteSet(Entries(s)) /\ (Cardinality(Entries(s)) = Len(s) <=> s \in Injection(1 .. Len(s), Entries(s)))
    BY <1>2, <1>3, FS_Surjection
  <1>5. s \in Injection(1 .. Len(s), Entries(s)) <=> Distinct(s)
    BY <1>1, <1>3 DEF Injection, Surjection, IsInjective, Distinct
  <1> QED  BY <1>1, <1>4, <1>5 DEF Entries

\* The entries of a come in the order in which they stand in s.
InOrderOf(a, s) ==
    \A i, j \in DOMAIN a : i < j =>
        \E k, m \in DOMAIN s : k < m /\ a[i] = s[k] /\ a[j] = s[m]

LEMMA AtInOrder ==
    ASSUME NEW S, NEW s \in Seq(S), NEW D \in SUBSET DOMAIN s, NEW a, a = At(s, D)
    PROVE  InOrderOf(a, s)
  <1>1. PICK n, f : Picks(a, s, D, n, f)
    BY AtPicks
  <1>2. DOMAIN a = 1 .. n /\ f \in [1 .. n -> D]
        /\ (\A k, m \in 1 .. n : k < m => f[k] < f[m]) /\ \A k \in 1 .. n : a[k] = s[f[k]]
    BY <1>1, Zenon DEF Picks
  <1>3. ASSUME NEW i \in DOMAIN a, NEW j \in DOMAIN a, i < j
        PROVE  \E k, m \in DOMAIN s : k < m /\ a[i] = s[k] /\ a[j] = s[m]
    <2>1. f[i] \in DOMAIN s /\ f[j] \in DOMAIN s /\ f[i] < f[j]
      BY <1>2, <1>3
    <2> QED  BY <1>2, <2>1
  <1> QED  BY <1>3, Zenon DEF InOrderOf

\* What is left of a sequence without some of its entries.
LEMMA WithoutEntries ==
    ASSUME NEW S, NEW s \in Seq(S), NEW T, NEW a, a = Without(s, T)
    PROVE  /\ a \in Seq(S) /\ Entries(a) = Entries(s) \ T
           /\ Distinct(s) => Distinct(a)
           /\ InOrderOf(a, s)
  <1>1. PICK D \in SUBSET DOMAIN s : D = {i \in DOMAIN s : s[i] \notin T} /\ a = At(s, D)
    BY Zenon DEF Without
  <1>2. /\ a \in Seq(S) /\ Entries(a) = {s[i] : i \in D}
        /\ (\A i, j \in D : s[i] = s[j] => i = j) => Distinct(a)
    BY <1>1, AtEntries
  <1>3. InOrderOf(a, s)
    BY <1>1, AtInOrder
  <1>4. {s[i] : i \in D} = Entries(s) \ T
    BY <1>1 DEF Entries
  <1>5. Distinct(s) => \A i, j \in D : s[i] = s[j] => i = j
    BY DEF Distinct
  <1> QED  BY <1>2, <1>3, <1>4, <1>5

-----------------------------------------------------------------------------
(* The free queue *)

PoolRecords ==
    [ref : [Pages -> Nat], free : Seq(Pages), hash : [Pages -> Keys \cup {NoKey}],
     cache : [Keys -> Seq(Pages)]]

\* The queue holds the pages without references, each once, those without a hash first.
HashedLast(free, hash) ==
    \A i, j \in DOMAIN free : i < j /\ hash[free[j]] = NoKey => hash[free[i]] = NoKey

Queued(pl) ==
    /\ Entries(pl.free) = {p \in Pages \ {NullPage} : pl.ref[p] = 0}
    /\ Distinct(pl.free) /\ HashedLast(pl.free, pl.hash)

\* How often a page is listed.
Times(blocks, p) == Cardinality({i \in DOMAIN blocks : blocks[i] = p})

LEMMA PoolFields ==
    ASSUME NEW pl \in PoolRecords
    PROVE  /\ pl.ref \in [Pages -> Nat] /\ pl.free \in Seq(Pages)
           /\ pl.hash \in [Pages -> Keys \cup {NoKey}] /\ pl.cache \in [Keys -> Seq(Pages)]
  BY DEF PoolRecords

LEMMA TouchFields ==
    ASSUME NEW pl \in PoolRecords, NEW S, NEW new, new = Touch(pl, S)
    PROVE  /\ new \in PoolRecords /\ new.hash = pl.hash /\ new.cache = pl.cache
           /\ \A p \in Pages : new.ref[p] = pl.ref[p] + (IF p \in S THEN 1 ELSE 0)
           /\ new.free = Without(pl.free, S)
  <1>1. PICK ref, free : /\ ref = [p \in Pages |-> pl.ref[p] + (IF p \in S THEN 1 ELSE 0)]
                         /\ free = Without(pl.free, S)
    OBVIOUS
  <1>2. new = [pl EXCEPT !.ref = ref, !.free = free]
    BY <1>1 DEF Touch
  <1>3. ref \in [Pages -> Nat]
    BY <1>1, PoolFields
  <1>4. free \in Seq(Pages)
    BY <1>1, PoolFields, WithoutEntries
  <1>5. new = [ref |-> ref, free |-> free, hash |-> pl.hash, cache |-> pl.cache]
    BY <1>2 DEF PoolRecords
  <1>6. new \in PoolRecords
    BY <1>3, <1>4, <1>5, PoolFields DEF PoolRecords
  <1>7. \A p \in Pages : ref[p] = pl.ref[p] + (IF p \in S THEN 1 ELSE 0)
    BY <1>1
  <1> QED  BY <1>1, <1>5, <1>6, <1>7

LEMMA EvictFields ==
    ASSUME NEW pl \in PoolRecords, NEW S, NEW new, new = Evict(pl, S)
    PROVE  /\ new \in PoolRecords /\ new.ref = pl.ref /\ new.free = pl.free
           /\ \A p \in Pages : new.hash[p] = IF p \in S THEN NoKey ELSE pl.hash[p]
           /\ \A k \in Keys : Entries(new.cache[k]) = Entries(pl.cache[k]) \ S
  <1>1. PICK hash, cache : /\ hash = [p \in Pages |-> IF p \in S THEN NoKey ELSE pl.hash[p]]
                           /\ cache = [k \in Keys |-> Without(pl.cache[k], S)]
    OBVIOUS
  <1>2. new = [pl EXCEPT !.hash = hash, !.cache = cache]
    BY <1>1 DEF Evict
  <1>3. hash \in [Pages -> Keys \cup {NoKey}]
    BY <1>1, PoolFields
  <1>4. ASSUME NEW k \in Keys
        PROVE  cache[k] \in Seq(Pages) /\ Entries(cache[k]) = Entries(pl.cache[k]) \ S
    <2>1. pl.cache[k] \in Seq(Pages) /\ cache[k] = Without(pl.cache[k], S)
      BY <1>1, PoolFields
    <2> QED  BY <2>1, WithoutEntries
  <1>5. cache \in [Keys -> Seq(Pages)]
    BY <1>1, <1>4
  <1>6. new = [ref |-> pl.ref, free |-> pl.free, hash |-> hash, cache |-> cache]
    BY <1>2 DEF PoolRecords
  <1>7. new \in PoolRecords
    BY <1>3, <1>5, <1>6, PoolFields DEF PoolRecords
  <1>8. \A p \in Pages : hash[p] = IF p \in S THEN NoKey ELSE pl.hash[p]
    BY <1>1
  <1> QED  BY <1>4, <1>6, <1>7, <1>8

\* The places up to i that list p.
UpTo(blocks, p, i) == Cardinality({j \in 1 .. i : blocks[j] = p})

\* The places that list a page are counted up to their number.
LEMMA ListedUpTo ==
    ASSUME NEW S, NEW blocks \in Seq(S), NEW p, NEW T, T = {i \in DOMAIN blocks : blocks[i] = p}
    PROVE  /\ Times(blocks, p) \in Nat /\ Times(blocks, p) = Cardinality(T) /\ IsFiniteSet(T)
           /\ \A i \in T : UpTo(blocks, p, i) \in 1 .. Times(blocks, p)
           /\ \A i, j \in T : UpTo(blocks, p, i) = UpTo(blocks, p, j) => i = j
           /\ Times(blocks, p) # 0 => \E i \in T : UpTo(blocks, p, i) = Times(blocks, p)
           /\ Times(blocks, p) = UpTo(blocks, p, Len(blocks))
  <1>1. DOMAIN blocks = 1 .. Len(blocks) /\ Len(blocks) \in Nat
    BY LenProperties
  <1>2. T \in SUBSET Nat /\ IsFiniteSet(T)
    <2>1. IsFiniteSet(DOMAIN blocks) /\ T \in SUBSET DOMAIN blocks /\ DOMAIN blocks \in SUBSET Nat
      BY <1>1, FS_Interval
    <2> QED  BY <2>1, FS_Subset
  <1>3. /\ Cardinality(T) \in Nat /\ Rank(T) \in [T -> 1 .. Cardinality(T)]
        /\ \A i, j \in T : i < j => Rank(T)[i] < Rank(T)[j]
        /\ \A k \in 1 .. Cardinality(T) : \E i \in T : Rank(T)[i] = k
    BY <1>2, Ranks
  <1>4. ASSUME NEW i \in T PROVE UpTo(blocks, p, i) = Rank(T)[i]
    <2>1. {j \in 1 .. i : blocks[j] = p} = {j \in T : j <= i}
      BY <1>1
    <2> QED  BY <2>1 DEF UpTo, Rank
  <1>5. Times(blocks, p) = Cardinality(T) /\ Times(blocks, p) = UpTo(blocks, p, Len(blocks))
    BY <1>1 DEF Times, UpTo
  <1>6. ASSUME NEW i \in T, NEW j \in T, Rank(T)[i] = Rank(T)[j] PROVE i = j
    <2>1. PICK x \in Nat, y \in Nat : x = Rank(T)[i] /\ y = Rank(T)[j]
      <3>1. Rank(T)[i] \in 1 .. Cardinality(T) /\ Rank(T)[j] \in 1 .. Cardinality(T)
        BY <1>3, Zenon
      <3>2. PICK n \in Nat : n = Cardinality(T)
        BY <1>3
      <3>3. Rank(T)[i] \in Nat /\ Rank(T)[j] \in Nat
        BY ONLY <3>1, <3>2
      <3> QED  BY <3>3, Zenon
    <2>2. ~(x < y) /\ ~(y < x)
      BY <1>6, <2>1
    <2>3. ~(i < j) /\ ~(j < i)
      BY <1>3, <2>1, <2>2
    <2>4. i \in Nat /\ j \in Nat
      BY <1>2
    <2> QED  BY <2>3, <2>4
  <1>7. ASSUME NEW i \in T PROVE UpTo(blocks, p, i) \in 1 .. Times(blocks, p)
    <2>1. Rank(T)[i] \in 1 .. Cardinality(T)
      BY <1>3, Zenon
    <2> QED  BY <1>4, <1>5, <2>1
  <1>8. ASSUME NEW i \in T, NEW j \in T, UpTo(blocks, p, i) = UpTo(blocks, p, j) PROVE i = j
    <2>1. Rank(T)[i] = Rank(T)[j]
      BY <1>4, <1>8, Zenon
    <2> QED  BY <1>6, <2>1, Zenon
  <1>9. ASSUME Times(blocks, p) # 0 PROVE \E i \in T : UpTo(blocks, p, i) = Times(blocks, p)
    <2>1. Times(blocks, p) \in 1 .. Cardinality(T)
      BY <1>3, <1>5, <1>9
    <2>2. PICK i \in T : Rank(T)[i] = Times(blocks, p)
      BY <1>3, <2>1
    <2> QED  BY <1>4, <2>2
  <1> QED  BY <1>2, <1>3, <1>5, <1>7, <1>8, <1>9

\* A queue with the pages that no table holds any more in front and behind.
Around(hash, a, m, b, u) ==
    /\ u = a \o m \o b
    /\ a \in Seq(Pages) /\ m \in Seq(Pages) /\ b \in Seq(Pages)
    /\ Distinct(a) /\ Distinct(m) /\ Distinct(b) /\ HashedLast(m, hash)
    /\ Entries(a) \cap Entries(m) = {} /\ Entries(a) \cap Entries(b) = {}
    /\ Entries(b) \cap Entries(m) = {}
    /\ \A p \in Entries(a) : hash[p] = NoKey
    /\ \A p \in Entries(b) : hash[p] # NoKey

LEMMA QueueAround ==
    ASSUME NEW hash, NEW a, NEW m, NEW b, NEW u, Around(hash, a, m, b, u)
    PROVE  /\ u \in Seq(Pages) /\ Entries(u) = Entries(a) \cup Entries(m) \cup Entries(b)
           /\ Distinct(u) /\ HashedLast(u, hash)
  <1>0. /\ u = a \o m \o b
        /\ a \in Seq(Pages) /\ m \in Seq(Pages) /\ b \in Seq(Pages)
        /\ Distinct(a) /\ Distinct(m) /\ Distinct(b) /\ HashedLast(m, hash)
        /\ Entries(a) \cap Entries(m) = {} /\ Entries(a) \cap Entries(b) = {}
        /\ Entries(b) \cap Entries(m) = {}
        /\ \A p \in Entries(a) : hash[p] = NoKey
        /\ \A p \in Entries(b) : hash[p] # NoKey
    BY Zenon DEF Around
  <1>1. PICK v : v = a \o m /\ u = v \o b
    BY <1>0, Zenon
  <1>2. /\ v \in Seq(Pages) /\ Len(v) = Len(a) + Len(m) /\ Len(a) \in Nat /\ Len(m) \in Nat
        /\ DOMAIN a = 1 .. Len(a) /\ DOMAIN v = 1 .. Len(a) + Len(m)
        /\ \A i \in 1 .. Len(a) : v[i] = a[i]
        /\ \A i \in 1 .. Len(a) + Len(m) :
              i > Len(a) => i - Len(a) \in 1 .. Len(m) /\ v[i] = m[i - Len(a)]
    BY <1>0, <1>1, ConcatIndices
  <1>3. /\ u \in Seq(Pages) /\ Len(u) = Len(v) + Len(b) /\ Len(v) \in Nat /\ Len(b) \in Nat
        /\ DOMAIN v = 1 .. Len(v) /\ DOMAIN u = 1 .. Len(v) + Len(b)
        /\ \A i \in 1 .. Len(v) : u[i] = v[i]
        /\ \A i \in 1 .. Len(v) + Len(b) :
              i > Len(v) => i - Len(v) \in 1 .. Len(b) /\ u[i] = b[i - Len(v)]
    BY <1>0, <1>1, <1>2, ConcatIndices, SMTT(30)
  <1>4. DOMAIN m = 1 .. Len(m) /\ DOMAIN b = 1 .. Len(b)
    BY <1>0, LenProperties, SMTT(30)
  <1>5. PICK x \in Nat, y \in Nat, z \in Nat : x = Len(a) /\ y = Len(m) /\ z = Len(b)
    BY <1>2, <1>3
  <1>6. /\ DOMAIN a = 1 .. x /\ DOMAIN m = 1 .. y /\ DOMAIN b = 1 .. z /\ DOMAIN u = 1 .. x + y + z
        /\ \A i \in 1 .. x : u[i] = a[i]
        /\ \A i \in x + 1 .. x + y : i - x \in 1 .. y /\ u[i] = m[i - x]
        /\ \A i \in x + y + 1 .. x + y + z : i - (x + y) \in 1 .. z /\ u[i] = b[i - (x + y)]
    <2>1. Len(v) = x + y
      BY <1>2, <1>5
    <2>2. DOMAIN a = 1 .. x /\ DOMAIN m = 1 .. y /\ DOMAIN b = 1 .. z /\ DOMAIN u = 1 .. x + y + z
      BY <1>2, <1>3, <1>4, <1>5, <2>1
    <2>3. ASSUME NEW i \in 1 .. x PROVE u[i] = a[i]
      <3>1. i \in 1 .. Len(v) /\ i \in 1 .. Len(a)
        BY <1>5, <2>1
      <3> QED  BY <1>2, <1>3, <3>1
    <2>4. ASSUME NEW i \in x + 1 .. x + y PROVE i - x \in 1 .. y /\ u[i] = m[i - x]
      <3>1. i \in 1 .. Len(v) /\ i \in 1 .. Len(a) + Len(m) /\ i > Len(a)
        BY <1>5, <2>1
      <3> QED  BY <1>2, <1>3, <1>5, <3>1
    <2>5. ASSUME NEW i \in x + y + 1 .. x + y + z
          PROVE  i - (x + y) \in 1 .. z /\ u[i] = b[i - (x + y)]
      <3>1. i \in 1 .. Len(v) + Len(b) /\ i > Len(v)
        BY <1>5, <2>1
      <3> QED  BY <1>3, <1>5, <2>1, <3>1
    <2> QED  BY <2>2, <2>3, <2>4, <2>5
  <1> DEFINE A == 1 .. x
             M == x + 1 .. x + y
             B == x + y + 1 .. x + y + z
  <1>7. DOMAIN u = A \cup M \cup B
    <2>1. 1 .. x + y + z = A \cup M \cup B
      OBVIOUS
    <2> QED  BY <1>6, <2>1
  <1>8. Entries(u) = Entries(a) \cup Entries(m) \cup Entries(b)
    <2>1. Entries(a) = {u[i] : i \in A}
      <3>1. \A i \in A : u[i] = a[i]
        BY <1>6
      <3>2. DOMAIN a = A
        BY <1>6
      <3> HIDE DEF A
      <3> QED  BY ONLY <3>1, <3>2 DEF Entries
    <2>2. Entries(m) = {u[i] : i \in M}
      <3>1. \A j \in DOMAIN m : \E i \in M : u[i] = m[j]
        <4>1. \A j \in 1 .. y : x + j \in M /\ (x + j) - x = j
          OBVIOUS
        <4> QED  BY <1>6, <4>1, ZenonT(40)
      <3>2. \A i \in M : \E j \in DOMAIN m : u[i] = m[j]
        BY <1>6
      <3> HIDE DEF M
      <3> QED  BY ONLY <3>1, <3>2 DEF Entries
    <2>3. Entries(b) = {u[i] : i \in B}
      <3>1. \A j \in DOMAIN b : \E i \in B : u[i] = b[j]
        <4>1. \A j \in 1 .. z : x + y + j \in B /\ (x + y + j) - (x + y) = j
          OBVIOUS
        <4> QED  BY <1>6, <4>1, ZenonT(40)
      <3>2. \A i \in B : \E j \in DOMAIN b : u[i] = b[j]
        BY <1>6
      <3> HIDE DEF B
      <3> QED  BY ONLY <3>1, <3>2 DEF Entries
    <2>4. Entries(u) = {u[i] : i \in DOMAIN u}
      BY DEF Entries
    <2> HIDE DEF A, M, B
    <2> QED  BY <1>7, <2>1, <2>2, <2>3, <2>4
  <1>9. /\ \A i \in A : u[i] \in Entries(a)
        /\ \A i \in M : u[i] \in Entries(m)
        /\ \A i \in B : u[i] \in Entries(b)
    BY <1>6 DEF Entries
  <1>10. Distinct(u)
    <2> SUFFICES ASSUME NEW i \in DOMAIN u, NEW j \in DOMAIN u, u[i] = u[j] PROVE i = j
      BY DEF Distinct
    <2>1. CASE i \in A /\ j \in A
      BY <1>0, <1>6, <2>1 DEF Distinct
    <2>2. CASE i \in M /\ j \in M
      <3>1. i - x \in DOMAIN m /\ j - x \in DOMAIN m /\ m[i - x] = m[j - x]
        BY <1>6, <2>2
      <3>2. i - x = j - x
        BY <1>0, <3>1 DEF Distinct
      <3> QED  BY <2>2, <3>2
    <2>3. CASE i \in B /\ j \in B
      <3>1. i - (x + y) \in DOMAIN b /\ j - (x + y) \in DOMAIN b /\ b[i - (x + y)] = b[j - (x + y)]
        BY <1>6, <2>3
      <3>2. i - (x + y) = j - (x + y)
        BY <1>0, <3>1 DEF Distinct
      <3> QED  BY <2>3, <3>2
    <2> HIDE DEF A, M, B
    <2> QED  BY <1>0, <1>7, <1>9, <2>1, <2>2, <2>3
  <1>11. HashedLast(u, hash)
    <2> SUFFICES ASSUME NEW i \in DOMAIN u, NEW j \in DOMAIN u, i < j, hash[u[j]] = NoKey
                 PROVE  hash[u[i]] = NoKey
      BY DEF HashedLast
    <2>1. CASE i \in A
      BY <1>0, <1>9, <2>1
    <2>2. CASE j \in B
      BY <1>0, <1>9, <2>2
    <2>3. CASE i \notin A /\ j \notin B
      <3>1. i \in M /\ j \in M
        BY <1>7, <2>3
      <3>2. i - x \in DOMAIN m /\ j - x \in DOMAIN m /\ m[i - x] = u[i] /\ m[j - x] = u[j]
        BY <1>6, <3>1
      <3>3. i - x < j - x
        BY <3>1
      <3> QED  BY <1>0, <3>2, <3>3 DEF HashedLast
    <2> QED  BY <2>1, <2>2, <2>3
  <1> QED  BY <1>3, <1>8, <1>10, <1>11

\* free_blocks gives back a reference for each time a page is listed, and queues
\* the pages that lose their last one.
LEMMA FreeBlocksFields ==
    ASSUME NEW pl \in PoolRecords, Queued(pl), NEW blocks \in Seq(Pages),
           \A p \in Pages \ {NullPage} : Times(blocks, p) <= pl.ref[p],
           NEW new, new = FreeBlocks(pl, blocks)
    PROVE  /\ new \in PoolRecords /\ new.hash = pl.hash /\ new.cache = pl.cache
           /\ \A p \in Pages \ {NullPage} : new.ref[p] = pl.ref[p] - Times(blocks, p)
           /\ Queued(new)
  <1>0. PICK ref, hash, free : ref = pl.ref /\ hash = pl.hash /\ free = pl.free
    OBVIOUS
  <1>1. /\ ref \in [Pages -> Nat] /\ free \in Seq(Pages) /\ hash \in [Pages -> Keys \cup {NoKey}]
        /\ pl.cache \in [Keys -> Seq(Pages)]
    BY <1>0, PoolFields
  <1>2. /\ Entries(free) = {p \in Pages \ {NullPage} : ref[p] = 0}
        /\ Distinct(free) /\ HashedLast(free, hash)
    BY <1>0 DEF Queued
  <1>3. PICK idle : idle = {i \in DOMAIN blocks : /\ blocks[i] # NullPage
                                                  /\ ref[blocks[i]] = UpTo(blocks, blocks[i], i)}
    OBVIOUS
  <1>4. PICK D1, D2 : /\ D1 = {i \in idle : hash[blocks[i]] = NoKey}
                      /\ D2 = {i \in idle : hash[blocks[i]] # NoKey}
    OBVIOUS
  <1>5. PICK a, b : a = At(blocks, D1) /\ b = At(blocks, D2)
    OBVIOUS
  <1>6. PICK ref1 : ref1 = [p \in Pages |-> IF p = NullPage THEN ref[p]
                                            ELSE ref[p] - UpTo(blocks, p, Len(blocks))]
    OBVIOUS
  <1>7. new = [pl EXCEPT !.ref = ref1, !.free = a \o free \o b]
    BY <1>0, <1>3, <1>4, <1>5, <1>6 DEF FreeBlocks, UpTo
  <1>8. \A i \in DOMAIN blocks : blocks[i] \in Pages
    BY LenProperties, ElementOfSeq
  <1>9. ASSUME NEW p \in Pages \ {NullPage}
        PROVE  /\ Times(blocks, p) \in Nat /\ UpTo(blocks, p, Len(blocks)) = Times(blocks, p)
               /\ \A i \in idle : blocks[i] = p => Times(blocks, p) = ref[p] /\ ref[p] # 0
               /\ \A i, j \in idle : blocks[i] = p /\ blocks[j] = p => i = j
               /\ Times(blocks, p) = ref[p] /\ ref[p] # 0 => \E i \in idle : blocks[i] = p
    <2>1. PICK T : T = {i \in DOMAIN blocks : blocks[i] = p}
      OBVIOUS
    <2>2. PICK c : c = Times(blocks, p)
      OBVIOUS
    <2>3. /\ c \in Nat /\ c = UpTo(blocks, p, Len(blocks))
          /\ \A i \in T : UpTo(blocks, p, i) \in 1 .. c
          /\ \A i, j \in T : UpTo(blocks, p, i) = UpTo(blocks, p, j) => i = j
          /\ c # 0 => \E i \in T : UpTo(blocks, p, i) = c
      BY <2>1, <2>2, ListedUpTo
    <2>4. c <= ref[p] /\ ref[p] \in Nat
      BY <1>0, <1>1, <2>2
    <2>5. ASSUME NEW i \in idle, blocks[i] = p
          PROVE  i \in T /\ UpTo(blocks, p, i) = ref[p]
      BY <1>3, <2>1, <2>5
    <2>6. ASSUME NEW i \in idle, blocks[i] = p PROVE c = ref[p] /\ ref[p] # 0
      <3>1. ref[p] \in 1 .. c
        BY <2>3, <2>5, <2>6
      <3> QED  BY <2>3, <2>4, <3>1
    <2>7. \A i, j \in idle : blocks[i] = p /\ blocks[j] = p => i = j
      BY <2>3, <2>5
    <2>8. ASSUME c = ref[p], ref[p] # 0 PROVE \E i \in idle : blocks[i] = p
      <3>1. PICK i \in T : UpTo(blocks, p, i) = c
        BY <2>3, <2>8
      <3>2. i \in DOMAIN blocks /\ blocks[i] = p /\ p # NullPage
        BY <2>1
      <3>3. i \in idle
        BY <1>3, <2>8, <3>1, <3>2
      <3> QED  BY <3>2, <3>3
    <2> QED  BY <2>2, <2>3, <2>6, <2>7, <2>8
  <1>10. /\ idle \in SUBSET DOMAIN blocks /\ D1 \in SUBSET DOMAIN blocks /\ D2 \in SUBSET DOMAIN blocks
         /\ \A i \in idle : blocks[i] \in Pages \ {NullPage}
         /\ \A i, j \in idle : blocks[i] = blocks[j] => i = j
    BY <1>3, <1>4, <1>8, <1>9
  <1>11. /\ a \in Seq(Pages) /\ Entries(a) = {blocks[i] : i \in D1} /\ Distinct(a)
         /\ b \in Seq(Pages) /\ Entries(b) = {blocks[i] : i \in D2} /\ Distinct(b)
    <2>1. /\ \A i, j \in D1 : blocks[i] = blocks[j] => i = j
          /\ \A i, j \in D2 : blocks[i] = blocks[j] => i = j
      BY <1>4, <1>10
    <2> QED  BY <1>5, <1>10, <2>1, AtEntries
  <1>12. /\ Entries(a) \cup Entries(b) = {p \in Pages \ {NullPage} : Times(blocks, p) = ref[p] /\ ref[p] # 0}
         /\ \A p \in Entries(a) : hash[p] = NoKey
         /\ \A p \in Entries(b) : hash[p] # NoKey
    <2>1. \A p \in Entries(a) : hash[p] = NoKey /\ \E i \in idle : p = blocks[i]
      BY <1>4, <1>11
    <2>2. \A p \in Entries(b) : hash[p] # NoKey /\ \E i \in idle : p = blocks[i]
      BY <1>4, <1>11
    <2>3. \A i \in idle : blocks[i] \in Entries(a) \cup Entries(b)
      BY <1>4, <1>11
    <2>4. ASSUME NEW p \in Entries(a) \cup Entries(b)
          PROVE  p \in Pages \ {NullPage} /\ Times(blocks, p) = ref[p] /\ ref[p] # 0
      BY <1>9, <1>10, <2>1, <2>2
    <2>5. ASSUME NEW p \in Pages \ {NullPage}, Times(blocks, p) = ref[p], ref[p] # 0
          PROVE  p \in Entries(a) \cup Entries(b)
      <3>1. PICK i \in idle : blocks[i] = p
        BY <1>9, <2>5
      <3> QED  BY <2>3, <3>1
    <2> QED  BY <2>1, <2>2, <2>4, <2>5
  <1>13. /\ Entries(a) \cap Entries(free) = {} /\ Entries(a) \cap Entries(b) = {}
         /\ Entries(b) \cap Entries(free) = {}
    BY <1>2, <1>12
  <1>14. PICK u : u = a \o free \o b
    OBVIOUS
  <1>15. /\ u \in Seq(Pages) /\ Entries(u) = Entries(a) \cup Entries(free) \cup Entries(b)
         /\ Distinct(u) /\ HashedLast(u, hash)
    <2>1. Around(hash, a, free, b, u)
      BY <1>14, <1>1, <1>2, <1>11, <1>12, <1>13, Zenon DEF Around
    <2> QED  BY <2>1, QueueAround, Zenon
  <1>16. ASSUME NEW p \in Pages \ {NullPage} PROVE ref1[p] = ref[p] - Times(blocks, p)
    <2>1. UpTo(blocks, p, Len(blocks)) = Times(blocks, p)
      BY <1>9, Zenon
    <2>2. ref1[p] = ref[p] - UpTo(blocks, p, Len(blocks))
      BY <1>6
    <2> QED  BY <2>1, <2>2
  <1>17. ref1 \in [Pages -> Nat]
    <2>1. \A p \in Pages : ref1[p] \in Nat
      <3> SUFFICES ASSUME NEW p \in Pages PROVE ref1[p] \in Nat
        OBVIOUS
      <3>1. CASE p = NullPage
        BY <1>1, <1>6, <3>1
      <3>2. CASE p # NullPage
        <4>1. Times(blocks, p) \in Nat /\ Times(blocks, p) <= ref[p] /\ ref[p] \in Nat
          BY <1>0, <1>1, <1>9, <3>2
        <4>2. ref1[p] = ref[p] - Times(blocks, p)
          BY <1>16, <3>2
        <4> QED  BY <4>1, <4>2
      <3> QED  BY <3>1, <3>2
    <2> QED  BY <1>6, <2>1
  <1>18. new = [ref |-> ref1, free |-> u, hash |-> hash, cache |-> pl.cache]
    BY <1>0, <1>7, <1>14 DEF PoolRecords
  <1>19. new \in PoolRecords
    BY <1>1, <1>15, <1>17, <1>18 DEF PoolRecords
  <1>20. Entries(u) = {p \in Pages \ {NullPage} : ref1[p] = 0}
    <2>1. ASSUME NEW p \in Pages \ {NullPage}
          PROVE  ref1[p] = 0 <=> ref[p] = 0 \/ (Times(blocks, p) = ref[p] /\ ref[p] # 0)
      <3>1. Times(blocks, p) \in Nat /\ Times(blocks, p) <= ref[p] /\ ref[p] \in Nat
        BY <1>0, <1>1, <1>9
      <3>2. ref1[p] = ref[p] - Times(blocks, p)
        BY <1>16
      <3> QED  BY <3>1, <3>2
    <2> QED  BY <1>2, <1>12, <1>15, <2>1
  <1>21. Queued(new)
    BY <1>15, <1>18, <1>20 DEF Queued
  <1> QED  BY <1>0, <1>16, <1>18, <1>19, <1>21

\* A part of a queue keeps its order, and so do pages that keep their hashes.
LEMMA StillHashedLast ==
    ASSUME NEW s, NEW a, NEW hash, NEW hash1, InOrderOf(a, s), HashedLast(s, hash),
           \A p \in Entries(a) : hash1[p] = hash[p]
    PROVE  HashedLast(a, hash1)
  <1> SUFFICES ASSUME NEW i \in DOMAIN a, NEW j \in DOMAIN a, i < j, hash1[a[j]] = NoKey
               PROVE  hash1[a[i]] = NoKey
    BY Zenon DEF HashedLast
  <1>1. PICK k \in DOMAIN s, m \in DOMAIN s : k < m /\ a[i] = s[k] /\ a[j] = s[m]
    BY DEF InOrderOf
  <1>2. hash1[a[j]] = hash[a[j]] /\ hash1[a[i]] = hash[a[i]]
    BY DEF Entries
  <1>3. hash[s[m]] = NoKey
    BY <1>1, <1>2
  <1>4. hash[s[k]] = NoKey
    BY <1>1, <1>3, Zenon DEF HashedLast
  <1> QED  BY <1>1, <1>2, <1>4

\* get_new_blocks takes the front of the queue.
Takes(pl, n, new, got) ==
    /\ pl \in PoolRecords /\ n \in Nat /\ n <= Len(pl.free) /\ Distinct(pl.free)
    /\ new = GetNewBlocks(pl, n) /\ got = {pl.free[i] : i \in 1 .. n}

LEMMA GetNewBlocksFields ==
    ASSUME NEW pl, NEW n, NEW new, NEW got, Takes(pl, n, new, got)
    PROVE  /\ new \in PoolRecords
           /\ \A p \in Pages : new.ref[p] = pl.ref[p] + (IF p \in got THEN 1 ELSE 0)
           /\ \A p \in Pages : new.hash[p] = IF p \in got THEN NoKey ELSE pl.hash[p]
           /\ \A k \in Keys : Entries(new.cache[k]) = Entries(pl.cache[k]) \ got
           /\ Entries(new.free) = Entries(pl.free) \ got /\ got \subseteq Entries(pl.free)
           /\ Distinct(new.free) /\ InOrderOf(new.free, pl.free)
  <1>0. /\ pl \in PoolRecords /\ n \in Nat /\ n <= Len(pl.free) /\ Distinct(pl.free)
        /\ new = GetNewBlocks(pl, n) /\ got = {pl.free[i] : i \in 1 .. n}
    BY DEF Takes
  <1> USE <1>0
  <1>1. PICK free : free = pl.free /\ free \in Seq(Pages)
    BY PoolFields
  <1>2. PICK m \in Nat : m = Len(free) /\ DOMAIN free = 1 .. m /\ n <= m
    BY <1>1, LenProperties
  <1>3. PICK ev, to : ev = Evict(pl, got) /\ to = Touch(ev, got)
    OBVIOUS
  <1>4. PICK rest : rest = SubSeq(free, n + 1, Len(free))
    OBVIOUS
  <1>5. new = [to EXCEPT !.free = rest]
    BY <1>1, <1>3, <1>4 DEF GetNewBlocks
  <1>6. /\ ev \in PoolRecords /\ ev.ref = pl.ref /\ ev.free = pl.free
        /\ \A p \in Pages : ev.hash[p] = IF p \in got THEN NoKey ELSE pl.hash[p]
        /\ \A k \in Keys : Entries(ev.cache[k]) = Entries(pl.cache[k]) \ got
    <2>1. pl \in PoolRecords /\ ev = Evict(pl, got)
      BY <1>3
    <2> QED  BY ONLY <2>1, EvictFields
  <1>7. /\ to \in PoolRecords /\ to.hash = ev.hash /\ to.cache = ev.cache
        /\ \A p \in Pages : to.ref[p] = ev.ref[p] + (IF p \in got THEN 1 ELSE 0)
    <2>1. ev \in PoolRecords /\ to = Touch(ev, got)
      BY <1>3, <1>6
    <2> QED  BY ONLY <2>1, TouchFields
  <1>8. \A i \in n + 1 .. m : free[i] \in Pages
    BY <1>1, <1>2, ElementOfSeq
  <1>9. /\ rest \in Seq(Pages) /\ Len(rest) = m - n
        /\ \A i \in 1 .. m - n : rest[i] = free[n + i]
    <2>1. /\ rest \in Seq(Pages) /\ Len(rest) = IF n + 1 <= m THEN m - (n + 1) + 1 ELSE 0
          /\ \A i \in 1 .. m - (n + 1) + 1 : rest[i] = free[(n + 1) + i - 1]
      BY <1>1, <1>2, <1>4, <1>8, SubSeqProperties
    <2> QED  BY <1>2, <2>1
  <1>10. DOMAIN rest = 1 .. m - n
    BY <1>9, LenProperties
  <1>11. \A i \in 1 .. m - n : n + i \in 1 .. m /\ n + i > n
    OBVIOUS
  <1>12. got = {free[i] : i \in 1 .. n} /\ Distinct(free)
    BY <1>1
  <1>13. Entries(rest) = Entries(free) \ got /\ got \subseteq Entries(free)
    <2>1. \A i \in 1 .. n : i \in 1 .. m
      BY <1>2
    <2>2. ASSUME NEW p \in Entries(rest) PROVE p \in Entries(free) /\ p \notin got
      <3>1. PICK i \in 1 .. m - n : p = rest[i]
        BY <1>10, <2>2 DEF Entries
      <3>2. p = free[n + i] /\ n + i \in DOMAIN free
        BY <1>2, <1>9, <1>11, <3>1
      <3>3. ASSUME p \in got PROVE FALSE
        <4>1. PICK j \in 1 .. n : p = free[j]
          BY <1>12, <3>3
        <4>2. j = n + i
          BY <1>2, <1>12, <2>1, <3>2, <4>1 DEF Distinct
        <4> QED  BY <1>11, <4>2
      <3> QED  BY <3>2, <3>3 DEF Entries
    <2>3. ASSUME NEW p \in Entries(free), p \notin got PROVE p \in Entries(rest)
      <3>1. PICK i \in 1 .. m : p = free[i]
        BY <1>2, <2>3 DEF Entries
      <3>2. i \notin 1 .. n
        BY <1>12, <2>3, <3>1
      <3>3. i - n \in 1 .. m - n /\ n + (i - n) = i
        BY <1>2, <3>2
      <3>4. rest[i - n] = p
        BY <1>9, <3>1, <3>3
      <3> QED  BY <1>10, <3>3, <3>4 DEF Entries
    <2>4. got \subseteq Entries(free)
      BY <1>2, <1>12, <2>1 DEF Entries
    <2> QED  BY <2>2, <2>3, <2>4
  <1>14. Distinct(rest)
    <2> SUFFICES ASSUME NEW i \in 1 .. m - n, NEW j \in 1 .. m - n, rest[i] = rest[j] PROVE i = j
      BY <1>10, Zenon DEF Distinct
    <2>1. n + i = n + j
      BY <1>2, <1>9, <1>11, <1>12 DEF Distinct
    <2> QED  BY <2>1
  <1>15. InOrderOf(rest, free)
    <2> SUFFICES ASSUME NEW i \in DOMAIN rest, NEW j \in DOMAIN rest, i < j
                 PROVE  \E k, l \in DOMAIN free : k < l /\ rest[i] = free[k] /\ rest[j] = free[l]
      BY DEF InOrderOf
    <2>0. i \in 1 .. m - n /\ j \in 1 .. m - n
      BY <1>10
    <2>1. n + i \in DOMAIN free /\ n + j \in DOMAIN free /\ n + i < n + j
      BY <1>2, <1>11, <2>0
    <2> QED  BY <1>9, <2>0, <2>1
  <1>16. new = [ref |-> to.ref, free |-> rest, hash |-> to.hash, cache |-> to.cache]
    BY <1>5, <1>7 DEF PoolRecords
  <1>17. new \in PoolRecords
    BY <1>7, <1>9, <1>16, PoolFields DEF PoolRecords
  <1>18. /\ \A p \in Pages : new.ref[p] = pl.ref[p] + (IF p \in got THEN 1 ELSE 0)
         /\ \A p \in Pages : new.hash[p] = IF p \in got THEN NoKey ELSE pl.hash[p]
         /\ \A k \in Keys : Entries(new.cache[k]) = Entries(pl.cache[k]) \ got
    BY <1>6, <1>7, <1>16
  <1>19. new.free = rest
    BY <1>16
  <1> QED  BY <1>1, <1>13, <1>14, <1>15, <1>17, <1>18, <1>19

\* cache_full_blocks gives the pages of some blocks of a table the keys of the blocks.
CachedBy(pl, q, t, from, upto, new) ==
    /\ new \in PoolRecords /\ new.ref = pl.ref /\ new.free = pl.free
    /\ \A p \in Pages :
          \/ \E i \in from + 1 .. upto : p # NullPage /\ t[i] = p /\ new.hash[p] = KeyOf[q][i]
          \/ new.hash[p] = pl.hash[p] /\ \A i \in from + 1 .. upto : p # NullPage => t[i] # p
    /\ \A k \in Keys : \A p \in Entries(new.cache[k]) :
          \/ p \in Entries(pl.cache[k])
          \/ \E i \in from + 1 .. upto : p # NullPage /\ t[i] = p /\ KeyOf[q][i] = k

LEMMA CacheFullBlocksFields ==
    ASSUME NEW pl \in PoolRecords, NEW q \in Requests, NEW t \in Seq(Pages),
           NEW from \in Nat, NEW upto \in Nat, upto <= Len(t), upto <= Len(KeyOf[q]),
           NEW new, new = CacheFullBlocks(pl, q, t, from, upto)
    PROVE  CachedBy(pl, q, t, from, upto, new)
  <1> DEFINE N == {i \in from + 1 .. upto : t[i] # NullPage}
             page(k) == {t[i] : i \in {j \in N : KeyOf[q][j] = k}}
             hash == [p \in Pages |-> IF \E i \in N : t[i] = p
                        THEN KeyOf[q][CHOOSE i \in N : t[i] = p] ELSE pl.hash[p]]
             cache == [k \in Keys |-> IF page(k) = {} THEN pl.cache[k]
                         ELSE Append(pl.cache[k], CHOOSE p \in page(k) : TRUE)]
  <1>1. \A i : i \in N <=> i \in from + 1 .. upto /\ t[i] # NullPage
    OBVIOUS
  <1>2. /\ hash = [p \in Pages |-> hash[p]]
        /\ \A p \in Pages : hash[p] = IF \E i \in N : t[i] = p
                        THEN KeyOf[q][CHOOSE i \in N : t[i] = p] ELSE pl.hash[p]
    BY Zenon
  <1>3. \A k, p : p \in page(k) <=> \E i \in N : t[i] = p /\ KeyOf[q][i] = k
    BY Zenon
  <1>4. /\ cache = [k \in Keys |-> cache[k]]
        /\ \A k \in Keys : cache[k] = IF page(k) = {} THEN pl.cache[k]
                         ELSE Append(pl.cache[k], CHOOSE p \in page(k) : TRUE)
    OBVIOUS
  <1>5. new = [pl EXCEPT !.hash = hash, !.cache = cache]
    BY Zenon DEF CacheFullBlocks
  <1> HIDE DEF N, page, hash, cache
  <1>6. KeyOf[q] \in Seq(Keys)
    BY PoolAssumption
  <1>7. \A i \in N : t[i] \in Pages /\ KeyOf[q][i] \in Keys
    <2> SUFFICES ASSUME NEW i \in N PROVE t[i] \in Pages /\ KeyOf[q][i] \in Keys
      OBVIOUS
    <2>1. Len(t) \in Nat /\ Len(KeyOf[q]) \in Nat
      BY <1>6, LenProperties
    <2>2. i \in 1 .. Len(t) /\ i \in 1 .. Len(KeyOf[q])
      BY <1>1, <2>1
    <2> QED  BY <1>6, <2>2, ElementOfSeq
  <1>8. ASSUME NEW p \in Pages
        PROVE  /\ hash[p] \in Keys \cup {NoKey}
               /\ \/ \E i \in N : t[i] = p /\ hash[p] = KeyOf[q][i]
                  \/ hash[p] = pl.hash[p] /\ \A i \in N : t[i] # p
    <2>1. CASE \E i \in N : t[i] = p
      <3>1. PICK i \in N : i = CHOOSE j \in N : t[j] = p
        BY <2>1, Zenon
      <3>2. t[i] = p
        BY <2>1, <3>1, Zenon
      <3>3. hash[p] = KeyOf[q][i]
        BY <1>2, <2>1, <3>1
      <3> QED  BY <1>7, <3>2, <3>3
    <2>2. CASE ~ \E i \in N : t[i] = p
      <3>1. hash[p] = pl.hash[p]
        BY <1>2, <2>2
      <3>2. pl.hash[p] \in Keys \cup {NoKey}
        BY PoolFields
      <3> QED  BY <2>2, <3>1, <3>2
    <2> QED  BY <2>1, <2>2
  <1>9. ASSUME NEW k \in Keys
        PROVE  /\ cache[k] \in Seq(Pages)
               /\ \A p \in Entries(cache[k]) :
                     p \in Entries(pl.cache[k]) \/ \E i \in N : t[i] = p /\ KeyOf[q][i] = k
    <2>1. pl.cache[k] \in Seq(Pages)
      BY PoolFields
    <2>2. CASE page(k) = {}
      <3>1. cache[k] = pl.cache[k]
        BY <1>4, <2>2
      <3> QED  BY <2>1, <3>1
    <2>3. CASE page(k) # {}
      <3>1. PICK p \in page(k) : p = CHOOSE x \in page(k) : TRUE
        BY <2>3, Zenon
      <3>2. PICK i \in N : t[i] = p /\ KeyOf[q][i] = k
        BY <1>3, <3>1
      <3>3. p \in Pages
        BY <1>7, <3>2
      <3>4. cache[k] = Append(pl.cache[k], p)
        BY <1>4, <2>3, <3>1
      <3>5. PICK c, d : c = pl.cache[k] /\ d = cache[k]
        OBVIOUS
      <3>6. /\ d \in Seq(Pages) /\ DOMAIN d = DOMAIN c \cup {Len(c) + 1}
            /\ (\A j \in DOMAIN c : d[j] = c[j]) /\ d[Len(c) + 1] = p
        BY <2>1, <3>3, <3>4, <3>5, AppendIndices
      <3>7. \A x \in Entries(d) : x \in Entries(c) \/ x = p
        BY <3>6 DEF Entries
      <3> QED  BY <3>2, <3>5, <3>6, <3>7
    <2> QED  BY <2>2, <2>3
  <1>10. hash \in [Pages -> Keys \cup {NoKey}] /\ cache \in [Keys -> Seq(Pages)]
    BY <1>2, <1>4, <1>8, <1>9
  <1>11. new = [ref |-> pl.ref, free |-> pl.free, hash |-> hash, cache |-> cache]
    BY <1>5 DEF PoolRecords
  <1>12. new \in PoolRecords
    BY <1>10, <1>11, PoolFields DEF PoolRecords
  <1>13. new.ref = pl.ref /\ new.free = pl.free /\ new.hash = hash /\ new.cache = cache
    BY <1>11
  <1>14. \A p \in Pages :
          \/ \E i \in from + 1 .. upto : p # NullPage /\ t[i] = p /\ new.hash[p] = KeyOf[q][i]
          \/ new.hash[p] = pl.hash[p] /\ \A i \in from + 1 .. upto : p # NullPage => t[i] # p
    BY <1>1, <1>8, <1>13
  <1>15. \A k \in Keys : \A p \in Entries(new.cache[k]) :
          \/ p \in Entries(pl.cache[k])
          \/ \E i \in from + 1 .. upto : p # NullPage /\ t[i] = p /\ KeyOf[q][i] = k
    BY <1>1, <1>9, <1>13, SMTT(30)
  <1> QED  BY <1>12, <1>13, <1>14, <1>15 DEF CachedBy

-----------------------------------------------------------------------------
(* The invariant *)

Key(r) == KeyOf[r[1]][r[2]]

\* The blocks whose table entry is page p.
Holders(p) == {r \in Refs : r[2] \in DOMAIN table[r[1]] /\ table[r[1]][r[2]] = p}

\* The tokens of q whose rows are there when the step has run.
Reach(q) == IF pc = "update" THEN computed[q] ELSE computed[q] + sched[q]

\* The types, as functions and sequences.
TablesTyped ==
    /\ status \in [Requests -> {"waiting", "running", "preempted", "finished"}]
    /\ table \in [Requests -> Seq(Pages)]
    /\ nCached \in [Requests -> Nat] /\ computed \in [Requests -> Nat]
    /\ total \in [Requests -> Nat \ {0}] /\ sched \in [Requests -> 0 .. MaxChunk]
    /\ unseen \in [Requests -> Nat]
    /\ harmed \subseteq Requests /\ mishaps \in 0 .. MaxMishaps

ConnTyped ==
    /\ tail \subseteq Pages
    /\ loc \in [Refs -> Pages \cup {OnCpu, Nowhere}]
    /\ complete \subseteq Refs
    /\ reqTable \in [Requests -> Seq(Pages)] /\ prefillDone \subseteq Requests
    /\ copy \in [Refs -> Keys \cup {Garbage}]
    /\ acc \cup fresh \cup old \subseteq [ref : Refs, page : Pages]

PoolTyped ==
    /\ pool \in PoolRecords /\ kv \in [Pages -> Keys \cup {Garbage}]
    /\ TablesTyped /\ ConnTyped
    /\ todo \subseteq Requests
    /\ pc \in {"start", "failed", "sched", "meta", "run", "update"}

\* A request that is not running has no page and no tokens in the cache; a running
\* one has pages for its tokens, and no more tokens than it knows.
Booked ==
    \A q \in Requests :
        /\ status[q] # "running" =>
              table[q] = <<>> /\ nCached[q] = 0 /\ computed[q] = 0 /\ sched[q] = 0
        /\ Reach(q) <= total[q] /\ total[q] <= MaxTokens(q)
        /\ Reach(q) <= Len(table[q]) * PageSize
        /\ nCached[q] <= Len(KeyOf[q]) /\ Len(reqTable[q]) <= Len(KeyOf[q])
        /\ Len(table[q]) <= Len(KeyOf[q])

\* Nothing happens to the pages before the tail is reserved, and nothing to the
\* tail afterwards.
TailApart ==
    /\ pc = "start" => /\ tail = {} /\ \A q \in Requests : status[q] = "waiting"
                       /\ \A k \in Keys : pool.cache[k] = <<>>
    /\ \A p \in tail : /\ p # NullPage /\ Holders(p) = {}
                       /\ \A k \in Keys : p \notin Entries(pool.cache[k])

\* What the map finds under a key carries that key.
CacheMarked ==
    \A k \in Keys : \A p \in Entries(pool.cache[k]) : p # NullPage /\ pool.hash[p] = k

\* A page of two blocks was found in the cache by all but one: the blocks have one
\* key, and the step leaves the block full.
Shared ==
    \A r, s \in Refs :
        \A p \in Pages \ {NullPage} :
            r # s /\ r \in Holders(p) /\ s \in Holders(p) =>
                Key(r) = Key(s) /\ Filled(r[2], Reach(r[1]))

\* A page gets its hash for the block it holds, when the step fills that block.
Hashed ==
    \A p \in Pages \ {NullPage} : \A r \in Holders(p) :
        pool.hash[p] # NoKey => pool.hash[p] = Key(r) /\ Filled(r[2], Reach(r[1]))

\* Page p is written in this step, to the end, with the rows of key k.
Pending(p, k) ==
    /\ pc # "update"
    /\ \E s \in Holders(p) : /\ Key(s) = k /\ Filled(s[2], Reach(s[1]))
                             /\ ~Filled(s[2], computed[s[1]])

Good(p, k) == kv[p] = k \/ Pending(p, k)

CacheHoldsOwn == \A k \in Keys : \A p \in Entries(pool.cache[k]) : Good(p, k)

PagesHoldOwn ==
    \A p \in Pages \ {NullPage} : \A r \in Holders(p) :
        Filled(r[2], computed[r[1]]) => Good(p, Key(r))

\* The null block stands for an offloaded block only.
NullMeansOffloaded == \A r \in Holders(NullPage) : loc[r] = OnCpu

\* A store on its way is of a block that is still listed as offloaded, unless the
\* request has finished.
StoresListed ==
    \A e \in acc \cup fresh \cup old : loc[e.ref] = OnCpu \/ status[e.ref[1]] = "finished"

\* Blocks the connector has not seen are of a request listed in this step, and
\* it sees them, or has missed them, before the step runs.
Listed ==
    \A q \in Requests :
        /\ unseen[q] <= Len(table[q])
        /\ unseen[q] > 0 => sched[q] > 0 /\ (pc = "sched" \/ (pc = "meta" /\ q \in todo))

\* The connector remembers the table of a request that was not harmed, but for the
\* blocks it has not seen yet.
Mirrored ==
    \A q \in Requests : q \notin harmed =>
        /\ Len(reqTable[q]) + unseen[q] = Len(table[q])
        /\ \A i \in DOMAIN reqTable[q] : reqTable[q][i] = table[q][i]

\* The residency table knows the page of a block of a request that was not
\* harmed, and its mark is true.
Located ==
    \A r \in Refs : r[1] \notin harmed /\ loc[r] \in Pages =>
        /\ r[2] <= Len(reqTable[r[1]]) /\ r \in Holders(loc[r])
        /\ r \in complete => Filled(r[2], computed[r[1]])

\* The ref_cnt of a page counts the blocks that hold it, and the staging tail.
Counted ==
    \A p \in Pages \ {NullPage} :
        pool.ref[p] = Cardinality(Holders(p)) + (IF p \in tail THEN 1 ELSE 0)

QueueInv == Counted /\ Queued(pool)
HashInv == TailApart /\ CacheMarked /\ Shared /\ Hashed
ContentInv == CacheHoldsOwn /\ PagesHoldOwn
ConnInv == NullMeansOffloaded /\ StoresListed /\ Located /\ CopiesHoldOwn
MirrorInv == Listed /\ Mirrored

PoolInv == PoolTyped /\ Booked /\ QueueInv /\ HashInv /\ ContentInv /\ ConnInv /\ MirrorInv


-----------------------------------------------------------------------------
(* What the invariant says, in the form in which it is used *)

LEMMA RefForm ==
    /\ \A r \in Refs : /\ r[1] \in Requests /\ r[2] \in 1 .. Len(KeyOf[r[1]]) /\ r = <<r[1], r[2]>>
                       /\ r[2] \in Nat /\ r[2] >= 1 /\ Key(r) \in Keys
    /\ \A q \in Requests : \A i \in 1 .. Len(KeyOf[q]) :
          /\ <<q, i>> \in Refs /\ <<q, i>>[1] = q /\ <<q, i>>[2] = i /\ Key(<<q, i>>) = KeyOf[q][i]
    /\ \A q \in Requests : KeyOf[q] \in Seq(Keys) /\ Len(KeyOf[q]) \in Nat
    /\ IsFiniteSet(Refs)
    /\ \A r, s \in Refs : Key(r) = Key(s) => r[2] = s[2]
  <1>1. \A q \in Requests : KeyOf[q] \in Seq(Keys) /\ Len(KeyOf[q]) \in Nat
    BY PoolAssumption, LenProperties
  <1>2. ASSUME NEW r \in Refs
        PROVE  r[1] \in Requests /\ r[2] \in 1 .. Len(KeyOf[r[1]]) /\ r = <<r[1], r[2]>>
    <2>1. PICK q \in Requests : r \in {q} \X (1 .. Len(KeyOf[q]))
      BY DEF Refs
    <2> QED  BY <2>1
  <1>3. ASSUME NEW r \in Refs PROVE r[2] \in Nat /\ r[2] >= 1 /\ Key(r) \in Keys
    <2>1. PICK m \in Nat : m = Len(KeyOf[r[1]])
      BY <1>1, <1>2
    <2>2. r[2] \in 1 .. m
      BY <1>2, <2>1
    <2>3. KeyOf[r[1]][r[2]] \in Keys
      BY <1>1, <1>2, ElementOfSeq
    <2> QED  BY <2>2, <2>3 DEF Key
  <1>4. ASSUME NEW q \in Requests, NEW i \in 1 .. Len(KeyOf[q])
        PROVE  /\ <<q, i>> \in Refs /\ <<q, i>>[1] = q /\ <<q, i>>[2] = i
               /\ Key(<<q, i>>) = KeyOf[q][i]
    <2>1. <<q, i>> \in Refs
      BY DEF Refs
    <2> QED  BY <2>1 DEF Key
  <1>5. IsFiniteSet(Refs)
    <2> DEFINE Part(q) == {q} \X (1 .. Len(KeyOf[q]))
               Parts == {Part(q) : q \in Requests}
    <2>1. IsFiniteSet(Requests)
      BY PoolAssumption
    <2>2. IsFiniteSet(Parts)
      <3> DEFINE f == [q \in Requests |-> Part(q)]
      <3>1. f \in Surjection(Requests, Parts)
        BY Zenon DEF Surjection
      <3> HIDE DEF f, Parts
      <3> QED  BY <2>1, <3>1, FS_Surjection
    <2>3. ASSUME NEW P \in Parts PROVE IsFiniteSet(P)
      <3>1. PICK q \in Requests : P = {q} \X (1 .. Len(KeyOf[q]))
        BY Zenon
      <3>2. IsFiniteSet({q}) /\ IsFiniteSet(1 .. Len(KeyOf[q]))
        <4>1. PICK m \in Nat : m = Len(KeyOf[q])
          BY <1>1
        <4>2. IsFiniteSet(1 .. m)
          BY FS_Interval
        <4>3. IsFiniteSet({q})
          BY FS_Singleton, Zenon
        <4> QED  BY <4>1, <4>2, <4>3
      <3> QED  BY <3>1, <3>2, FS_Product
    <2>4. Refs = UNION Parts
      BY Zenon DEF Refs
    <2> HIDE DEF Parts
    <2> QED  BY <2>2, <2>3, <2>4, FS_UNION
  <1>6. \A r, s \in Refs : Key(r) = Key(s) => r[2] = s[2]
    BY PoolAssumption DEF Key
  <1> QED  BY <1>1, <1>2, <1>3, <1>4, <1>5, <1>6

\* The holders of a page are finitely many; each is a place in a table.
LEMMA HoldersForm ==
    ASSUME NEW p
    PROVE  /\ IsFiniteSet(Holders(p)) /\ Cardinality(Holders(p)) \in Nat /\ Holders(p) \subseteq Refs
           /\ \A r : r \in Holders(p) <=> /\ r \in Refs /\ r[2] \in DOMAIN table[r[1]]
                                          /\ table[r[1]][r[2]] = p
  <1>1. Holders(p) \subseteq Refs
    BY DEF Holders
  <1>2. IsFiniteSet(Holders(p))
    BY <1>1, RefForm, FS_Subset
  <1>3. \A r : r \in Holders(p) <=> /\ r \in Refs /\ r[2] \in DOMAIN table[r[1]]
                                    /\ table[r[1]][r[2]] = p
    BY DEF Holders
  <1> QED  BY <1>1, <1>2, <1>3, FS_CardinalityType

LEMMA HoldersForm2 ==
    ASSUME NEW p
    PROVE  /\ IsFiniteSet(Holders(p)') /\ Cardinality(Holders(p)') \in Nat /\ Holders(p)' \subseteq Refs
           /\ \A r : r \in Holders(p)' <=> /\ r \in Refs /\ r[2] \in DOMAIN table'[r[1]]
                                           /\ table'[r[1]][r[2]] = p
  <1>1. Holders(p)' \subseteq Refs
    BY DEF Holders
  <1>2. IsFiniteSet(Holders(p)')
    BY <1>1, RefForm, FS_Subset
  <1>3. \A r : r \in Holders(p)' <=> /\ r \in Refs /\ r[2] \in DOMAIN table'[r[1]]
                                     /\ table'[r[1]][r[2]] = p
    BY DEF Holders
  <1> QED  BY <1>1, <1>2, <1>3, FS_CardinalityType

\* The tables, as sequences of pages no longer than the keys of their requests.
LEMMA TableForm ==
    ASSUME PoolTyped, Booked, NEW q \in Requests
    PROVE  /\ table[q] \in Seq(Pages) /\ Len(table[q]) \in Nat /\ DOMAIN table[q] = 1 .. Len(table[q])
           /\ \A i \in DOMAIN table[q] : /\ table[q][i] \in Pages /\ i \in 1 .. Len(KeyOf[q])
                                         /\ <<q, i>> \in Holders(table[q][i])
  <1>1. table[q] \in Seq(Pages) /\ Len(table[q]) <= Len(KeyOf[q])
    BY DEF PoolTyped, TablesTyped, Booked
  <1>2. PICK m \in Nat, l \in Nat : /\ m = Len(table[q]) /\ DOMAIN table[q] = 1 .. m
                                    /\ l = Len(KeyOf[q])
    BY <1>1, LenProperties, RefForm
  <1>3. ASSUME NEW i \in DOMAIN table[q]
        PROVE  /\ table[q][i] \in Pages /\ i \in 1 .. Len(KeyOf[q])
               /\ <<q, i>> \in Holders(table[q][i])
    <2>1. table[q][i] \in Pages
      BY <1>1, <1>2, <1>3, ElementOfSeq
    <2>2. i \in 1 .. Len(KeyOf[q])
      BY <1>1, <1>2, <1>3
    <2>3. <<q, i>> \in Refs /\ <<q, i>>[1] = q /\ <<q, i>>[2] = i
      BY <2>2, RefForm
    <2> QED  BY <1>3, <2>1, <2>2, <2>3 DEF Holders
  <1> QED  BY <1>1, <1>2, <1>3

\* Before the first step no table holds a page.
LEMMA InitPool == ASSUME Init PROVE PoolInv
  <1>1. /\ status = [q \in Requests |-> "waiting"] /\ table = [q \in Requests |-> <<>>]
        /\ nCached = [q \in Requests |-> 0] /\ computed = [q \in Requests |-> 0]
        /\ total = PromptLen /\ sched = [q \in Requests |-> 0] /\ harmed = {} /\ tail = {}
        /\ unseen = [q \in Requests |-> 0] /\ mishaps = 0 /\ prefillDone = {} /\ acc = {}
        /\ loc = [r \in Refs |-> Nowhere] /\ complete = {} /\ reqTable = [q \in Requests |-> <<>>]
        /\ copy = [r \in Refs |-> Garbage] /\ fresh = {} /\ old = {} /\ pc = "start" /\ todo = {}
        /\ kv = [p \in Pages |-> Garbage]
    BY DEF Init
  <1>2. PICK ref, free, hash, cache :
          /\ pool = [ref |-> ref, free |-> free, hash |-> hash, cache |-> cache]
          /\ ref = [p \in Pages |-> 0] /\ free = [i \in 1 .. NumPages - 1 |-> i]
          /\ hash = [p \in Pages |-> NoKey] /\ cache = [k \in Keys |-> <<>>]
    BY DEF Init
  <1>3. pool.ref = ref /\ pool.free = free /\ pool.hash = hash /\ pool.cache = cache
    BY <1>2
  <1>4. /\ NumPages \in Nat \ {0} /\ PageSize \in Nat \ {0} /\ MaxNew \in Nat /\ MaxChunk \in Nat /\ MaxMishaps \in Nat
        /\ PromptLen \in [Requests -> Nat \ {0}]
    BY PoolAssumption
  <1>5. free \in Seq(Pages)
    <2>1. free \in [1 .. NumPages - 1 -> Pages] /\ NumPages - 1 \in Nat
      BY <1>2, <1>4 DEF Pages
    <2> QED  BY <2>1, FunctionSeq
  <1>6. <<>> \in Seq(Pages) /\ Len(<<>>) = 0
    OBVIOUS
  <1>7. pool \in PoolRecords
    BY <1>2, <1>5, <1>6 DEF PoolRecords
  <1>8. TablesTyped
    BY <1>1, <1>4, <1>6 DEF TablesTyped
  <1>9. ConnTyped
    BY <1>1, <1>6 DEF ConnTyped
  <1>10. PoolTyped
    BY <1>1, <1>7, <1>8, <1>9 DEF PoolTyped
  <1>11. Booked
    <2> SUFFICES ASSUME NEW q \in Requests
                 PROVE  /\ table[q] = <<>> /\ nCached[q] = 0 /\ computed[q] = 0 /\ sched[q] = 0
                        /\ Reach(q) <= total[q] /\ total[q] <= MaxTokens(q)
                        /\ Reach(q) <= Len(table[q]) * PageSize
                        /\ nCached[q] <= Len(KeyOf[q]) /\ Len(reqTable[q]) <= Len(KeyOf[q])
                        /\ Len(table[q]) <= Len(KeyOf[q])
      BY DEF Booked
    <2>1. /\ table[q] = <<>> /\ nCached[q] = 0 /\ computed[q] = 0 /\ sched[q] = 0 /\ Len(reqTable[q]) = 0
          /\ Reach(q) = 0 /\ total[q] = PromptLen[q] /\ Len(KeyOf[q]) \in Nat /\ Len(table[q]) = 0
      BY <1>1, <1>6, RefForm DEF Reach
    <2>2. total[q] \in Nat /\ total[q] <= MaxTokens(q)
      BY <1>4, <2>1 DEF MaxTokens
    <2>3. Reach(q) <= Len(table[q]) * PageSize
      BY <1>4, <2>1
    <2> QED  BY <2>1, <2>2, <2>3
  <1>12. \A p : Holders(p) = {}
    <2>1. \A q \in Requests : DOMAIN table[q] = {}
      BY <1>1
    <2> QED  BY <2>1, RefForm DEF Holders
  <1>13. QueueInv
    <2>1. Counted
      <3>1. \A p \in Pages : pool.ref[p] = 0
        BY <1>2, <1>3
      <3>2. \A p : Cardinality(Holders(p)) = 0
        BY <1>12, FS_EmptySet, Zenon
      <3>3. \A p : p \notin tail
        BY <1>1
      <3> QED  BY <3>1, <3>2, <3>3 DEF Counted
    <2>2. Entries(free) = {p \in Pages \ {NullPage} : ref[p] = 0}
      <3>1. Entries(free) = 1 .. NumPages - 1
        BY <1>2 DEF Entries
      <3>2. Pages \ {NullPage} = 1 .. NumPages - 1
        BY <1>4 DEF Pages, NullPage
      <3>3. \A p \in Pages : ref[p] = 0
        BY <1>2
      <3> QED  BY <3>1, <3>2, <3>3
    <2>3. Distinct(free) /\ HashedLast(free, hash)
      BY <1>2, <1>4 DEF Distinct, HashedLast, Pages
    <2> QED  BY <1>3, <2>1, <2>2, <2>3 DEF QueueInv, Queued
  <1>14. \A k \in Keys : pool.cache[k] = <<>> /\ Entries(pool.cache[k]) = {}
    BY <1>2, <1>3 DEF Entries
  <1>15. HashInv
    BY <1>1, <1>12, <1>14 DEF HashInv, TailApart, CacheMarked, Shared, Hashed
  <1>16. ContentInv
    BY <1>12, <1>14 DEF ContentInv, CacheHoldsOwn, PagesHoldOwn
  <1>17. ConnInv
    <2>1. \A r \in Refs : loc[r] = Nowhere
      BY <1>1
    <2> QED  BY <1>1, <1>4, <1>12, <2>1
             DEF ConnInv, NullMeansOffloaded, StoresListed, Located, CopiesHoldOwn, Pages, Nowhere, OnCpu
  <1>18. MirrorInv
    BY <1>1, <1>6 DEF MirrorInv, Listed, Mirrored
  <1> QED  BY <1>10, <1>11, <1>13, <1>15, <1>16, <1>17, <1>18 DEF PoolInv

\* The steps that leave the pages where they are and fill no new block.
LEMMA SamePages ==
    ASSUME PoolInv, UNCHANGED <<pool, table, tail>>, pc' # "start",
           \A q \in Requests : Reach(q)' = Reach(q)
    PROVE  QueueInv' /\ HashInv'
  <1>1. \A p : Holders(p)' = Holders(p)
    BY DEF Holders
  <1>2. QueueInv'
    BY <1>1 DEF PoolInv, QueueInv, Counted
  <1>3. TailApart'
    BY <1>1 DEF PoolInv, HashInv, TailApart
  <1>4. CacheMarked'
    BY DEF PoolInv, HashInv, CacheMarked
  <1>5. Shared'
    BY <1>1, RefForm DEF PoolInv, HashInv, Shared
  <1>6. Hashed'
    BY <1>1, HoldersForm, RefForm DEF PoolInv, HashInv, Hashed
  <1> QED  BY <1>2, <1>3, <1>4, <1>5, <1>6 DEF HashInv

\* Between two forward passes what is good stays good when nothing is taken away.
LEMMA SameContent ==
    ASSUME PoolInv, UNCHANGED <<pool, table, kv, computed, sched>>, pc # "update", pc' # "update"
    PROVE  ContentInv'
  <1>1. \A p : Holders(p)' = Holders(p)
    BY DEF Holders
  <1>2. \A q : Reach(q)' = Reach(q)
    BY DEF Reach
  <1>3. \A p, k : Good(p, k) => Good(p, k)'
    <2> SUFFICES ASSUME NEW p, NEW k, Pending(p, k) PROVE Pending(p, k)'
      BY DEF Good
    <2> QED  BY <1>1, <1>2 DEF Pending
  <1>4. CacheHoldsOwn'
    BY <1>3 DEF PoolInv, ContentInv, CacheHoldsOwn
  <1>5. PagesHoldOwn'
    BY <1>1, <1>3 DEF PoolInv, ContentInv, PagesHoldOwn
  <1> QED  BY <1>4, <1>5 DEF ContentInv

-----------------------------------------------------------------------------
(* The steps of the connector and the forward pass *)

LEMMA BuildKeeps == ASSUME PoolInv, BuildConnectorMeta PROVE PoolInv'
  <1>1. /\ pc = "sched" /\ pc' = "meta" /\ todo' = {q \in Requests : sched[q] > 0}
        /\ UNCHANGED <<pool, kv, status, table, nCached, computed, total, sched, unseen, harmed, mishaps>>
        /\ UNCHANGED <<tail, loc, complete, reqTable, prefillDone, copy, acc, fresh, old>>
    BY DEF BuildConnectorMeta, tableVars, connVars
  <1>2. \A q \in Requests : Reach(q)' = Reach(q)
    BY <1>1 DEF Reach
  <1>3. PoolTyped'
    BY <1>1 DEF PoolInv, PoolTyped, TablesTyped, ConnTyped
  <1>4. Booked'
    BY <1>1, <1>2 DEF PoolInv, Booked
  <1>5. QueueInv' /\ HashInv'
    BY <1>1, <1>2, SamePages
  <1>6. ContentInv'
    BY <1>1, SameContent
  <1>7. \A p : Holders(p)' = Holders(p)
    BY <1>1 DEF Holders
  <1>8. ConnInv'
    <2>1. ConnInv
      BY DEF PoolInv
    <2>2. NullMeansOffloaded'
      BY <1>1, <1>7, <2>1 DEF ConnInv, NullMeansOffloaded
    <2>3. StoresListed'
      BY <1>1, <2>1 DEF ConnInv, StoresListed
    <2>4. Located'
      BY <1>1, <1>7, <2>1 DEF ConnInv, Located
    <2>5. CopiesHoldOwn'
      BY <1>1, <2>1 DEF ConnInv, CopiesHoldOwn
    <2> QED  BY <2>2, <2>3, <2>4, <2>5 DEF ConnInv
  <1>9. MirrorInv'
    BY <1>1 DEF PoolInv, MirrorInv, Listed, Mirrored
  <1> QED  BY <1>3, <1>4, <1>5, <1>6, <1>8, <1>9 DEF PoolInv

\* The list the connector rebuilds is the table, unless the request was harmed.
LEMMA FullTableForm ==
    ASSUME PoolInv, NEW q \in Requests
    PROVE  /\ FullTable(q) \in Seq(Pages)
           /\ q \notin harmed => FullTable(q) = table[q]
  <1>1. table[q] \in Seq(Pages) /\ reqTable[q] \in Seq(Pages) /\ unseen[q] \in Nat
    BY DEF PoolInv, PoolTyped, TablesTyped, ConnTyped
  <1>2. PICK t, x : t = table[q] /\ x = reqTable[q]
    OBVIOUS
  <1>3. PICK m \in Nat, l \in Nat, u \in Nat : m = Len(t) /\ l = Len(x) /\ u = unseen[q]
    BY <1>1, <1>2, LenProperties
  <1>4. u <= m
    BY <1>2, <1>3 DEF PoolInv, MirrorInv, Listed
  <1>5. q \notin harmed => l + u = m /\ \A i \in 1 .. l : x[i] = t[i]
    BY <1>1, <1>2, <1>3, LenProperties DEF PoolInv, MirrorInv, Mirrored
  <1>6. PICK f \in Int : f = m - u + 1
    OBVIOUS
  <1>7. PICK y, w : y = SubSeq(t, f, m) /\ w = x \o y
    OBVIOUS
  <1>8. t \in Seq(Pages) /\ x \in Seq(Pages)
    BY <1>1, <1>2
  <1>9. y \in Seq(Pages)
    <2>1. \A i \in f .. m : t[i] \in Pages
      BY <1>3, <1>4, <1>6, <1>8, ElementOfSeq
    <2> QED  BY <1>7, <2>1, SubSeqProperties
  <1>10. w \in Seq(Pages)
    BY <1>7, <1>8, <1>9, ConcatProperties
  <1>11. FullTable(q) = IF u = m THEN t ELSE w
    BY <1>2, <1>3, <1>6, <1>7 DEF FullTable
  <1>12. ASSUME q \notin harmed PROVE w = t
    <2>1. Len(x) <= Len(t) /\ f = Len(x) + 1 /\ \A i \in 1 .. Len(x) : x[i] = t[i]
      BY <1>3, <1>4, <1>5, <1>6, <1>12, SMTT(30)
    <2> QED  BY <1>3, <1>7, <1>8, <2>1, PrefixAndRest
  <1> QED  BY <1>2, <1>8, <1>10, <1>11, <1>12

\* A synchronised request is known with the pages of its table.
LEMMA SyncKeeps == ASSUME PoolInv, NEW q \in Requests, SyncRequestBlocks(q) PROVE PoolInv'
  <1>0. PICK full : full = FullTable(q)
    OBVIOUS
  <1>1. /\ pc = "meta" /\ todo' = todo \ {q}
        /\ UNCHANGED <<pool, kv, status, table, nCached, computed, total, sched, harmed, mishaps, pc>>
        /\ UNCHANGED <<tail, copy, acc, fresh, old>>
        /\ prefillDone' \in {prefillDone, prefillDone \cup {q}}
        /\ unseen' = [unseen EXCEPT ![q] = 0]
        /\ reqTable' = [reqTable EXCEPT ![q] = full] /\ Len(full) <= Len(KeyOf[q])
    BY <1>0 DEF SyncRequestBlocks, SyncTable
  <1>2. loc' = [r \in Refs |-> IF r[1] = q /\ r[2] <= Len(full) /\ loc[r] # OnCpu
                                  THEN full[r[2]] ELSE loc[r]]
    BY <1>0 DEF SyncRequestBlocks, SyncTable
  <1>3. complete' = {r \in Refs :
                      IF r[1] = q /\ r[2] <= Len(full)
                          THEN \/ Filled(r[2], computed[q])
                               \/ r \in complete /\ loc[r] \in {OnCpu, full[r[2]]}
                          ELSE r \in complete}
    BY <1>0 DEF SyncRequestBlocks, SyncTable
  <1>4. PoolTyped /\ Booked /\ ConnInv
    BY DEF PoolInv
  <1>5. \A i \in Refs : Reach(i[1])' = Reach(i[1])
    BY <1>1 DEF Reach
  <1>6. \A u \in Requests : Reach(u)' = Reach(u)
    BY <1>1 DEF Reach
  <1>7. /\ full \in Seq(Pages) /\ (q \notin harmed => full = table[q])
    BY <1>0, FullTableForm
  <1>8. ASSUME NEW r \in Refs, r[1] = q, r[2] <= Len(full)
        PROVE  /\ full[r[2]] \in Pages
               /\ q \notin harmed => r \in Holders(full[r[2]])
    <2>1. r[2] \in Nat /\ r[2] >= 1 /\ r = <<q, r[2]>>
      BY <1>8, RefForm
    <2>2. r[2] \in 1 .. Len(full) /\ DOMAIN full = 1 .. Len(full)
      BY <1>7, <1>8, <2>1, LenProperties
    <2>3. full[r[2]] \in Pages
      BY <1>7, <2>2, ElementOfSeq
    <2>4. ASSUME q \notin harmed PROVE <<q, r[2]>> \in Holders(table[q][r[2]])
      <3>1. r[2] \in DOMAIN table[q]
        BY <1>7, <2>2, <2>4
      <3> QED  BY <1>4, <3>1, TableForm, Zenon
    <2> QED  BY <1>7, <2>1, <2>3, <2>4
  <1>9. ConnTyped'
    <2>1. ConnTyped
      BY <1>4 DEF PoolTyped
    <2>2. loc' \in [Refs -> Pages \cup {OnCpu, Nowhere}]
      BY <1>2, <1>8, <2>1 DEF ConnTyped
    <2>3. complete' \subseteq Refs
      BY <1>3
    <2>4. reqTable' \in [Requests -> Seq(Pages)] /\ prefillDone' \subseteq Requests
      BY <1>1, <1>7, <2>1 DEF ConnTyped
    <2> QED  BY <1>1, <2>1, <2>2, <2>3, <2>4 DEF ConnTyped
  <1>10. PoolTyped'
    BY <1>1, <1>4, <1>9 DEF PoolTyped, TablesTyped
  <1>11. Booked'
    <2>1. \A u \in Requests : Len(reqTable'[u]) <= Len(KeyOf[u])
      BY <1>1, <1>4 DEF Booked, PoolTyped, ConnTyped
    <2> QED  BY <1>1, <1>4, <1>6, <2>1 DEF Booked
  <1>12. QueueInv' /\ HashInv'
    BY <1>1, <1>6, SamePages
  <1>13. ContentInv'
    BY <1>1, SameContent
  <1>14. \A p : Holders(p)' = Holders(p)
    BY <1>1 DEF Holders
  <1>15. \A r \in Refs : loc[r] = OnCpu => loc'[r] = OnCpu
    BY <1>2
  <1>16. \A p \in Pages : p # OnCpu /\ p # Nowhere
    BY PoolAssumption DEF Pages, OnCpu, Nowhere
  <1>17. ConnInv'
    <2>1. NullMeansOffloaded'
      BY <1>4, <1>14, <1>15, HoldersForm DEF ConnInv, NullMeansOffloaded
    <2>2. StoresListed'
      BY <1>1, <1>4, <1>15 DEF ConnInv, StoresListed, PoolTyped, ConnTyped
    <2>3. ASSUME NEW r \in Refs, r[1] \notin harmed, loc'[r] \in Pages
          PROVE  /\ r[2] <= Len(reqTable'[r[1]]) /\ r \in Holders(loc'[r])
                 /\ r \in complete' => Filled(r[2], computed[r[1]])
      <3>0. reqTable \in [Requests -> Seq(Pages)] /\ r[1] \in Requests
        BY <1>4, RefForm DEF PoolTyped, ConnTyped
      <3>1. CASE r[1] = q /\ r[2] <= Len(full)
        <4>1. loc[r] # OnCpu /\ loc'[r] = full[r[2]]
          BY <1>2, <1>15, <1>16, <2>3, <3>1
        <4>2. r[2] <= Len(reqTable'[r[1]]) /\ r \in Holders(loc'[r]) /\ full[r[2]] \in Pages
          BY <1>1, <1>8, <2>3, <3>0, <3>1, <4>1
        <4>3. ASSUME r \in complete', ~Filled(r[2], computed[r[1]]) PROVE FALSE
          <5>1. r \in complete /\ loc[r] = full[r[2]]
            BY <1>3, <3>1, <4>1, <4>3
          <5> QED  BY <1>4, <2>3, <4>2, <4>3, <5>1 DEF ConnInv, Located
        <4> QED  BY <4>2, <4>3
      <3>2. CASE r[1] = q /\ ~(r[2] <= Len(full))
        <4>1. loc'[r] = loc[r]
          BY <1>2, <3>2
        <4>2. r \in Holders(loc[r])
          BY <1>4, <2>3, <4>1 DEF ConnInv, Located
        <4>3. r[2] \in DOMAIN full
          BY <1>7, <2>3, <3>2, <4>2 DEF Holders
        <4>4. r[2] \in 1 .. Len(full) /\ Len(full) \in Nat
          BY <1>7, <4>3, LenProperties
        <4> QED  BY <3>2, <4>4
      <3>3. CASE r[1] # q
        <4>1. loc'[r] = loc[r] /\ (r \in complete' => r \in complete) /\ Len(reqTable'[r[1]]) = Len(reqTable[r[1]])
          BY <1>1, <1>2, <1>3, <3>0, <3>3
        <4> QED  BY <1>4, <2>3, <4>1 DEF ConnInv, Located
      <3> QED  BY <3>1, <3>2, <3>3
    <2>4. Located'
      <3> SUFFICES ASSUME NEW r \in Refs, r[1] \notin harmed', loc'[r] \in Pages
                   PROVE  /\ r[2] <= Len(reqTable'[r[1]]) /\ r \in Holders(loc[r])'
                          /\ r \in complete' => Filled(r[2], computed'[r[1]])
        BY DEF Located, Filled
      <3>1. Holders(loc[r])' = {s \in Refs : s[2] \in DOMAIN table'[s[1]] /\ table'[s[1]][s[2]] = loc'[r]}
        BY DEF Holders
      <3>2. Holders(loc'[r]) = {s \in Refs : s[2] \in DOMAIN table[s[1]] /\ table[s[1]][s[2]] = loc'[r]}
        BY DEF Holders
      <3> QED  BY <1>1, <2>3, <3>1, <3>2
    <2>5. CopiesHoldOwn'
      <3>1. \A r \in Refs : loc'[r] = OnCpu => loc[r] = OnCpu
        BY <1>2, <1>8, <1>16
      <3> QED  BY <1>1, <1>4, <3>1 DEF ConnInv, CopiesHoldOwn
    <2> QED  BY <2>1, <2>2, <2>4, <2>5 DEF ConnInv
  <1>18. MirrorInv'
    <2>1. /\ unseen \in [Requests -> Nat] /\ reqTable \in [Requests -> Seq(Pages)]
          /\ table[q] \in Seq(Pages)
      BY <1>4 DEF PoolTyped, TablesTyped, ConnTyped
    <2>2. MirrorInv /\ Len(table[q]) \in Nat
      BY <2>1, LenProperties DEF PoolInv
    <2>3. Listed'
      <3> SUFFICES ASSUME NEW u \in Requests
                   PROVE  /\ unseen'[u] <= Len(table[u])
                          /\ unseen'[u] > 0 => sched[u] > 0 /\ u \in todo'
        BY <1>1 DEF Listed
      <3>1. CASE u = q
        BY <1>1, <2>1, <2>2, <3>1
      <3>2. CASE u # q
        <4>1. unseen'[u] = unseen[u] /\ (u \in todo => u \in todo')
          BY <1>1, <2>1, <3>2
        <4> QED  BY <1>1, <2>2, <4>1 DEF MirrorInv, Listed
      <3> QED  BY <3>1, <3>2
    <2>4. Mirrored'
      <3> SUFFICES ASSUME NEW u \in Requests, u \notin harmed
                   PROVE  /\ Len(reqTable'[u]) + unseen'[u] = Len(table[u])
                          /\ \A i \in DOMAIN reqTable'[u] : reqTable'[u][i] = table[u][i]
        BY <1>1 DEF Mirrored
      <3>1. CASE u = q
        <4>1. reqTable'[u] = table[q] /\ unseen'[u] = 0
          BY <1>1, <1>7, <2>1, <3>1
        <4> QED  BY <2>2, <3>1, <4>1
      <3>2. CASE u # q
        <4>1. reqTable'[u] = reqTable[u] /\ unseen'[u] = unseen[u]
          BY <1>1, <2>1, <3>2
        <4> QED  BY <2>2, <4>1 DEF MirrorInv, Mirrored
      <3> QED  BY <3>1, <3>2
    <2> QED  BY <2>3, <2>4 DEF MirrorInv
  <1> QED  BY <1>10, <1>11, <1>12, <1>13, <1>17, <1>18 DEF PoolInv

\* A page of one reference is held by one block: its rows are the rows of that
\* block, and nothing in this step is still to write them.
LEMMA OffloadKeeps ==
    ASSUME PoolInv, NEW E \in SUBSET Allowed, OffloadFraction(E), pc = "meta", pc' \in {"meta", "run"},
           UNCHANGED <<pool, kv, status, table, nCached, computed, total, sched>>,
           UNCHANGED <<tail, complete, reqTable, prefillDone, fresh, old>>,
           acc' \subseteq acc \cup {[ref |-> r, page |-> loc[r]] : r \in E}, harmed \subseteq harmed'
    PROVE  ConnTyped' /\ Booked' /\ QueueInv' /\ HashInv' /\ ContentInv' /\ ConnInv'
  <1>1. /\ copy' = [r \in Refs |-> IF r \in E THEN kv[loc[r]] ELSE copy[r]]
        /\ loc' = [r \in Refs |-> IF r \in E THEN OnCpu ELSE loc[r]]
    BY DEF OffloadFraction
  <1>2. PoolTyped /\ Booked /\ QueueInv /\ ContentInv /\ ConnInv
    BY DEF PoolInv
  <1>3. ConnTyped /\ kv \in [Pages -> Keys \cup {Garbage}]
    BY <1>2 DEF PoolTyped
  <1>4. \A r \in E : r \in Refs /\ r \in complete /\ loc[r] \in Pages /\ pool.ref[loc[r]] = 1
    BY <1>3 DEF Allowed, GpuComplete, ConnTyped
  <1>5. \A u \in Requests : Reach(u)' = Reach(u)
    BY <1>1 DEF Reach
  <1>6. ConnTyped'
    <2>1. loc' \in [Refs -> Pages \cup {OnCpu, Nowhere}]
      BY <1>1, <1>3 DEF ConnTyped
    <2>2. copy' \in [Refs -> Keys \cup {Garbage}]
      BY <1>1, <1>3, <1>4 DEF ConnTyped
    <2>3. acc' \cup fresh' \cup old' \subseteq [ref : Refs, page : Pages]
      BY <1>1, <1>3, <1>4 DEF ConnTyped
    <2> QED  BY <1>1, <1>3, <2>1, <2>2, <2>3 DEF ConnTyped
  <1>8. Booked'
    BY <1>2, <1>5 DEF Booked
  <1>9. QueueInv' /\ HashInv'
    BY <1>1, <1>5, SamePages
  <1>10. ContentInv'
    BY <1>1, SameContent
  <1>11. \A p : Holders(p)' = Holders(p)
    BY <1>1 DEF Holders
  <1>12. \A p \in Pages : p # OnCpu /\ p # Nowhere
    BY PoolAssumption DEF Pages, OnCpu, Nowhere
  <1>13. \A r \in Refs : /\ loc[r] = OnCpu => loc'[r] = OnCpu
                         /\ loc'[r] # OnCpu => loc'[r] = loc[r]
    BY <1>1
  <1>14. ASSUME NEW r \in E, r[1] \notin harmed PROVE kv[loc[r]] = Key(r)
    <2>1. PICK p \in Pages : p = loc[r] /\ pool.ref[p] = 1
      BY <1>4
    <2>2. r \in Holders(p) /\ Filled(r[2], computed[r[1]])
      BY <1>2, <1>4, <1>14, <2>1 DEF ConnInv, Located
    <2>3. p # NullPage
      BY <1>2, <1>12, <2>1, <2>2 DEF ConnInv, NullMeansOffloaded
    <2>4. Good(p, Key(r))
      BY <1>2, <2>2, <2>3 DEF ContentInv, PagesHoldOwn
    <2>5. ASSUME Pending(p, Key(r)) PROVE FALSE
      <3>1. PICK s \in Holders(p) : ~Filled(s[2], computed[s[1]])
        BY <2>5 DEF Pending
      <3>2. s # r
        BY <2>2, <3>1
      <3>3. IsFiniteSet(Holders(p)) /\ Cardinality(Holders(p)) \in Nat
        BY HoldersForm
      <3>4. Cardinality(Holders(p)) <= 1
        <4>1. 1 = Cardinality(Holders(p)) + (IF p \in tail THEN 1 ELSE 0)
          BY <1>2, <2>1, <2>3 DEF QueueInv, Counted
        <4> QED  BY <3>3, <4>1
      <3>5. {r, s} \in SUBSET Holders(p)
        BY <2>2, <3>1
      <3>6. Cardinality({r, s}) = 2
        <4>1. IsFiniteSet({r}) /\ Cardinality({r}) = 1
          BY FS_Singleton
        <4>2. Cardinality({r} \cup {s}) = 2
          BY <3>2, <4>1, FS_AddElement
        <4>3. {r, s} = {r} \cup {s}
          OBVIOUS
        <4> QED  BY <4>2, <4>3
      <3>7. Cardinality({r, s}) <= Cardinality(Holders(p))
        BY <3>3, <3>5, FS_Subset
      <3> QED  BY <3>3, <3>4, <3>6, <3>7
    <2> QED  BY <2>1, <2>4, <2>5 DEF Good
  <1>15. ConnInv'
    <2>1. NullMeansOffloaded'
      BY <1>2, <1>11, <1>13, HoldersForm DEF ConnInv, NullMeansOffloaded
    <2>2. StoresListed'
      <3> SUFFICES ASSUME NEW e \in acc' \cup fresh' \cup old'
                   PROVE  loc'[e.ref] = OnCpu \/ status[e.ref[1]] = "finished"
        BY <1>1 DEF StoresListed
      <3>1. CASE e \in acc \cup fresh \cup old
        <4>1. e.ref \in Refs
          BY <1>3, <3>1 DEF ConnTyped
        <4> QED  BY <1>2, <1>13, <3>1, <4>1 DEF ConnInv, StoresListed
      <3>2. CASE e \notin acc \cup fresh \cup old
        <4>1. e.ref \in E
          BY <3>2
        <4> QED  BY <1>1, <1>4, <4>1
      <3> QED  BY <3>1, <3>2
    <2>3. Located'
      <3> SUFFICES ASSUME NEW r \in Refs, r[1] \notin harmed', loc'[r] \in Pages
                   PROVE  /\ r[2] <= Len(reqTable'[r[1]]) /\ r \in Holders(loc[r])'
                          /\ r \in complete' => Filled(r[2], computed'[r[1]])
        BY DEF Located, Filled
      <3>1. loc'[r] = loc[r]
        BY <1>12, <1>13
      <3>2. /\ r[2] <= Len(reqTable[r[1]]) /\ r \in Holders(loc[r])
            /\ r \in complete => Filled(r[2], computed[r[1]])
        BY <1>1, <1>2, <3>1 DEF ConnInv, Located
      <3>3. r \in Holders(loc[r])'
        BY <1>1, <3>1, <3>2 DEF Holders
      <3> QED  BY <1>1, <3>2, <3>3
    <2>4. CopiesHoldOwn'
      <3> SUFFICES ASSUME NEW r \in Refs, loc'[r] = OnCpu, r[1] \notin harmed'
                   PROVE  copy'[r] = Key(r)
        BY DEF CopiesHoldOwn, Key
      <3>1. CASE r \in E
        BY <1>1, <1>14, <3>1
      <3>2. CASE r \notin E
        BY <1>1, <1>2, <3>2, SMTT(30) DEF ConnInv, CopiesHoldOwn, Key
      <3> QED  BY <3>1, <3>2
    <2> QED  BY <2>1, <2>2, <2>3, <2>4 DEF ConnInv
  <1> QED  BY <1>6, <1>8, <1>9, <1>10, <1>15

LEMMA TriggerKeeps ==
    ASSUME PoolInv, NEW E \in SUBSET Allowed, TriggerGlobalOffload(E)
    PROVE  PoolInv'
  <1>1. /\ pc = "meta" /\ OffloadFraction(E)
        /\ UNCHANGED <<pool, kv, status, table, nCached, computed, total, sched, unseen, harmed, mishaps>>
        /\ UNCHANGED <<tail, complete, reqTable, prefillDone, fresh, old, pc, todo>>
        /\ acc' = acc \cup {[ref |-> r, page |-> loc[r]] : r \in E}
    BY DEF TriggerGlobalOffload, tableVars
  <1>2. ConnTyped' /\ Booked' /\ QueueInv' /\ HashInv' /\ ContentInv' /\ ConnInv'
    BY <1>1, OffloadKeeps
  <1>3. PoolTyped'
    BY <1>1, <1>2 DEF PoolInv, PoolTyped, TablesTyped
  <1>4. MirrorInv'
    BY <1>1 DEF PoolInv, MirrorInv, Listed, Mirrored
  <1> QED  BY <1>2, <1>3, <1>4 DEF PoolInv

\* A step that raises harms the requests whose new blocks it drops, and no other.
LEMMA RaisesKeeps ==
    ASSUME PoolInv, NEW E \in SUBSET Allowed, TriggerRaises(E)
    PROVE  PoolInv'
  <1>1. /\ pc = "meta" /\ pc' = "run" /\ OffloadFraction(E) /\ todo' = {}
        /\ mishaps < MaxMishaps /\ mishaps' = mishaps + 1
        /\ harmed' = harmed \cup {q \in todo : unseen[q] > 0}
        /\ unseen' = [q \in Requests |-> IF q \in todo THEN 0 ELSE unseen[q]]
        /\ UNCHANGED <<pool, kv, status, table, nCached, computed, total, sched>>
        /\ UNCHANGED <<tail, complete, reqTable, prefillDone, acc, fresh, old>>
    BY DEF TriggerRaises
  <1>2. ConnTyped' /\ Booked' /\ QueueInv' /\ HashInv' /\ ContentInv' /\ ConnInv'
    BY <1>1, OffloadKeeps
  <1>3. PoolTyped /\ TablesTyped /\ todo \subseteq Requests /\ unseen \in [Requests -> Nat]
    BY DEF PoolInv, PoolTyped, TablesTyped
  <1>4. mishaps' \in 0 .. MaxMishaps
    BY <1>1, <1>3, PoolAssumption DEF TablesTyped
  <1>5. PoolTyped'
    <2>1. unseen' \in [Requests -> Nat] /\ harmed' \subseteq Requests
      BY <1>1, <1>3 DEF TablesTyped
    <2>2. TablesTyped'
      BY <1>1, <1>3, <1>4, <2>1 DEF TablesTyped
    <2> QED  BY <1>1, <1>2, <1>3, <2>2 DEF PoolTyped
  <1>6. \A q \in Requests : unseen'[q] = 0 /\ (q \notin harmed' => unseen[q] = 0 /\ q \notin harmed)
    BY <1>1, <1>3 DEF PoolInv, MirrorInv, Listed
  <1>7. \A q \in Requests : Len(table[q]) \in Nat
    BY <1>3, LenProperties DEF TablesTyped
  <1>8. MirrorInv'
    BY <1>1, <1>6, <1>7 DEF PoolInv, MirrorInv, Listed, Mirrored
  <1> QED  BY <1>2, <1>5, <1>8 DEF PoolInv

LEMMA FlushKeeps == ASSUME PoolInv, Flush PROVE PoolInv'
  <1>1. /\ pc = "meta" /\ todo = {} /\ fresh' = acc /\ acc' = {} /\ pc' = "run"
        /\ UNCHANGED <<pool, kv, status, table, nCached, computed, total, sched, unseen, harmed, mishaps>>
        /\ UNCHANGED <<tail, loc, complete, reqTable, prefillDone, copy, old, todo>>
    BY DEF Flush, tableVars
  <1>2. \A q \in Requests : Reach(q)' = Reach(q)
    BY <1>1 DEF Reach
  <1>3. PoolTyped'
    <2>1. ConnTyped'
      BY <1>1 DEF PoolInv, PoolTyped, ConnTyped
    <2> QED  BY <1>1, <2>1 DEF PoolInv, PoolTyped, TablesTyped
  <1>4. Booked'
    BY <1>1, <1>2 DEF PoolInv, Booked
  <1>5. QueueInv' /\ HashInv'
    BY <1>1, <1>2, SamePages
  <1>6. ContentInv'
    BY <1>1, SameContent
  <1>7. \A p : Holders(p)' = Holders(p)
    BY <1>1 DEF Holders
  <1>8. ConnInv'
    <2>1. ConnInv
      BY DEF PoolInv
    <2>2. NullMeansOffloaded'
      BY <1>1, <1>7, <2>1 DEF ConnInv, NullMeansOffloaded
    <2>3. StoresListed'
      BY <1>1, <2>1 DEF ConnInv, StoresListed
    <2>4. Located'
      BY <1>1, <1>7, <2>1 DEF ConnInv, Located
    <2>5. CopiesHoldOwn'
      BY <1>1, <2>1 DEF ConnInv, CopiesHoldOwn
    <2> QED  BY <2>2, <2>3, <2>4, <2>5 DEF ConnInv
  <1>9. MirrorInv'
    BY <1>1 DEF PoolInv, MirrorInv, Listed, Mirrored
  <1> QED  BY <1>3, <1>4, <1>5, <1>6, <1>8, <1>9 DEF PoolInv

\* The forward pass writes every page to the end whose hash was given out ahead of it.
LEMMA RunKeeps == ASSUME PoolInv, Run PROVE PoolInv'
  <1> DEFINE at(p) == {r \in Refs : r[2] \in Written(r[1]) /\ table[r[1]][r[2]] = p}
  <1>1. /\ pc = "run" /\ pc' = "update"
        /\ UNCHANGED <<pool, status, table, nCached, sched, unseen, harmed, mishaps, todo>>
        /\ UNCHANGED <<tail, loc, complete, reqTable, prefillDone, copy, acc, fresh, old>>
        /\ computed' = [q \in Requests |-> computed[q] + sched[q]]
        /\ total' = [q \in Requests |->
                       IF sched[q] > 0 /\ computed'[q] = total[q]
                           THEN Smaller(total[q] + 1, MaxTokens(q)) ELSE total[q]]
    BY Zenon DEF Run, connVars
  <1>2. kv' = [p \in Pages |->
                 IF at(p) = {} THEN kv[p]
                 ELSE IF Filled((CHOOSE r \in at(p) : TRUE)[2],
                                computed[(CHOOSE r \in at(p) : TRUE)[1]] + sched[(CHOOSE r \in at(p) : TRUE)[1]])
                          THEN KeyOf[(CHOOSE r \in at(p) : TRUE)[1]][(CHOOSE r \in at(p) : TRUE)[2]]
                          ELSE Garbage]
    BY Zenon DEF Run
  <1>3. PoolTyped /\ Booked /\ QueueInv /\ HashInv /\ ContentInv /\ ConnInv
    BY DEF PoolInv
  <1>4. TablesTyped /\ ConnTyped /\ kv \in [Pages -> Keys \cup {Garbage}]
    BY <1>3 DEF PoolTyped
  <1>5. \A q \in Requests : computed[q] \in Nat /\ sched[q] \in Nat /\ total[q] \in Nat \ {0}
    BY <1>4, PoolAssumption DEF TablesTyped
  <1>6. \A q \in Requests : Reach(q)' = Reach(q) /\ Reach(q) = computed[q] + sched[q] /\ computed'[q] = Reach(q)
    BY <1>1 DEF Reach
  <1>7. \A p, r : r \in at(p) <=> r \in Holders(p) /\ r[2] * PageSize > computed[r[1]]
                                  /\ (r[2] - 1) * PageSize < computed[r[1]] + sched[r[1]]
    BY DEF Written, Holders
  <1> HIDE DEF at
  <1>8. \A p : at(p) \subseteq Holders(p) /\ at(p) \subseteq Refs
    BY <1>7, HoldersForm
  <1>9. ASSUME NEW p, NEW r \in Holders(p), Filled(r[2], Reach(r[1])), ~Filled(r[2], computed[r[1]])
        PROVE  r \in at(p)
    <2>1. r \in Refs /\ r[1] \in Requests /\ r[2] \in Nat
      BY HoldersForm, RefForm
    <2>2. PICK c \in Nat, d \in Nat, b \in Nat : c = computed[r[1]] /\ d = sched[r[1]] /\ b = PageSize /\ b # 0
      BY <1>5, <2>1, PoolAssumption
    <2>3. PICK x \in Nat : x = r[2] * b
      BY <2>1, <2>2
    <2>4. x <= c + d /\ ~(x <= c)
      BY <1>6, <1>9, <2>1, <2>2, <2>3 DEF Filled
    <2>5. (r[2] - 1) * b = x - b
      BY <2>1, <2>2, <2>3
    <2>6. x > c /\ x - b < c + d
      BY <2>2, <2>4
    <2> QED  BY <1>7, <2>2, <2>3, <2>5, <2>6
  <1>10. ASSUME NEW p \in Pages
         PROVE  \/ at(p) = {} /\ kv'[p] = kv[p]
                \/ \E r \in at(p) : kv'[p] = IF Filled(r[2], Reach(r[1])) THEN Key(r) ELSE Garbage
    <2>1. CASE at(p) = {}
      BY <1>2, <2>1
    <2>2. CASE at(p) # {}
      <3>1. PICK r \in at(p) : r = CHOOSE s \in at(p) : TRUE
        BY <2>2, Zenon
      <3>2. kv'[p] = IF Filled(r[2], computed[r[1]] + sched[r[1]]) THEN KeyOf[r[1]][r[2]] ELSE Garbage
        BY <1>2, <2>2, <3>1
      <3>3. Reach(r[1]) = computed[r[1]] + sched[r[1]]
        BY <1>6, <1>8, RefForm
      <3> QED  BY <3>2, <3>3 DEF Key
    <2> QED  BY <2>1, <2>2
  <1>11. kv' \in [Pages -> Keys \cup {Garbage}]
    <2>1. \A p \in Pages : kv'[p] \in Keys \cup {Garbage}
      BY <1>4, <1>8, <1>10, RefForm
    <2> QED  BY <1>2, <2>1
  <1>12. \A q \in Requests : total'[q] \in Nat \ {0} /\ Reach(q) <= total'[q] /\ total'[q] <= MaxTokens(q)
    <2> SUFFICES ASSUME NEW q \in Requests
                 PROVE  total'[q] \in Nat \ {0} /\ Reach(q) <= total'[q] /\ total'[q] <= MaxTokens(q)
      OBVIOUS
    <2>1. PICK x \in Nat, y \in Nat \ {0}, z \in Nat : x = Reach(q) /\ y = total[q] /\ z = MaxTokens(q)
      <3>1. PromptLen[q] \in Nat /\ MaxNew \in Nat
        BY PoolAssumption
      <3>2. MaxTokens(q) \in Nat
        BY <3>1 DEF MaxTokens
      <3>3. Reach(q) \in Nat /\ total[q] \in Nat \ {0}
        BY <1>5, <1>6
      <3> QED  BY <3>2, <3>3
    <2>2. x <= y /\ y <= z
      BY <1>3, <2>1 DEF Booked
    <2>3. total'[q] = total[q] \/ total'[q] = Smaller(total[q] + 1, MaxTokens(q))
      BY <1>1
    <2>4. total'[q] = y \/ (total'[q] = y + 1 /\ y + 1 < z) \/ total'[q] = z
      BY <2>1, <2>3 DEF Smaller
    <2> QED  BY <2>1, <2>2, <2>4
  <1>13. PoolTyped'
    <2>1. total' \in [Requests -> Nat \ {0}] /\ computed' \in [Requests -> Nat]
      BY <1>1, <1>5, <1>12
    <2>2. TablesTyped'
      BY <1>1, <1>4, <2>1 DEF TablesTyped
    <2> QED  BY <1>1, <1>3, <1>11, <2>2 DEF PoolTyped, ConnTyped
  <1>14. Booked'
    <2>1. \A q \in Requests : status[q] # "running" => computed'[q] = 0
      BY <1>3, <1>5, <1>6 DEF Booked, Reach
    <2> QED  BY <1>1, <1>3, <1>6, <1>12, <2>1 DEF Booked
  <1>15. QueueInv' /\ HashInv'
    BY <1>1, <1>6, SamePages
  <1>16. \A p : Holders(p)' = Holders(p)
    BY <1>1 DEF Holders
  <1>17. ASSUME NEW p \in Pages, NEW k, at(p) = {}, Good(p, k) PROVE kv'[p] = k
    <2>1. ~Pending(p, k)
      BY <1>9, <1>17 DEF Pending
    <2> QED  BY <1>10, <1>17, <2>1 DEF Good
  <1>18. ContentInv'
    <2>1. ASSUME NEW k \in Keys, NEW p \in Entries(pool.cache[k]) PROVE kv'[p] = k
      <3>0. p \in Pages
        <4>1. pool.cache[k] \in Seq(Pages)
          BY <1>3, PoolFields DEF PoolTyped
        <4> QED  BY <2>1, <4>1, DistinctLen
      <3>1. p # NullPage /\ pool.hash[p] = k /\ k # NoKey
        BY <1>3, <2>1, PoolAssumption DEF HashInv, CacheMarked
      <3>2. CASE at(p) = {}
        BY <1>3, <1>17, <2>1, <3>0, <3>2 DEF ContentInv, CacheHoldsOwn
      <3>3. CASE at(p) # {}
        <4>1. PICK r \in at(p) : kv'[p] = IF Filled(r[2], Reach(r[1])) THEN Key(r) ELSE Garbage
          BY <1>10, <3>0, <3>3
        <4>2. Key(r) = k /\ Filled(r[2], Reach(r[1]))
          BY <1>3, <1>8, <3>0, <3>1 DEF HashInv, Hashed
        <4> QED  BY <4>1, <4>2
      <3> QED  BY <3>2, <3>3
    <2>2. ASSUME NEW p \in Pages \ {NullPage}, NEW r \in Holders(p), Filled(r[2], Reach(r[1]))
          PROVE  kv'[p] = Key(r)
      <3>1. CASE at(p) = {}
        <4>1. Filled(r[2], computed[r[1]])
          BY <1>9, <2>2, <3>1
        <4>2. Good(p, Key(r))
          BY <1>3, <4>1 DEF ContentInv, PagesHoldOwn
        <4> QED  BY <1>17, <3>1, <4>2
      <3>2. CASE at(p) # {}
        <4>1. PICK s \in at(p) : kv'[p] = IF Filled(s[2], Reach(s[1])) THEN Key(s) ELSE Garbage
          BY <1>10, <3>2
        <4>2. s \in Holders(p) /\ s \in Refs /\ r \in Refs
          BY <1>8, HoldersForm
        <4>3. Key(s) = Key(r) /\ Filled(s[2], Reach(s[1]))
          BY <1>3, <2>2, <4>2 DEF HashInv, Shared
        <4> QED  BY <4>1, <4>3
      <3> QED  BY <3>1, <3>2
    <2>3. CacheHoldsOwn'
      BY <1>1, <2>1 DEF CacheHoldsOwn, Good
    <2>4. PagesHoldOwn'
      <3> SUFFICES ASSUME NEW p \in Pages \ {NullPage}, NEW r \in Holders(p)', Filled(r[2], computed'[r[1]])
                   PROVE  kv'[p] = Key(r)
        BY DEF PagesHoldOwn, Good, Filled, Key
      <3>1. r \in Holders(p) /\ r[1] \in Requests
        BY <1>16, HoldersForm, RefForm
      <3> QED  BY <1>6, <2>2, <3>1
    <2> QED  BY <2>3, <2>4 DEF ContentInv
  <1>19. ConnInv'
    <2>1. NullMeansOffloaded'
      BY <1>1, <1>3, <1>16 DEF ConnInv, NullMeansOffloaded
    <2>2. StoresListed'
      BY <1>1, <1>3 DEF ConnInv, StoresListed
    <2>3. ASSUME NEW r \in Refs, Filled(r[2], computed[r[1]]) PROVE Filled(r[2], computed'[r[1]])
      <3>1. r[1] \in Requests /\ r[2] \in Nat
        BY RefForm
      <3>2. PICK x \in Nat, c \in Nat, d \in Nat : x = r[2] * PageSize /\ c = computed[r[1]] /\ d = sched[r[1]]
        BY <1>5, <3>1, PoolAssumption, SMTT(30)
      <3>3. computed'[r[1]] = c + d
        BY <1>1, <3>1, <3>2
      <3>4. x <= c => x <= c + d
        OBVIOUS
      <3> QED  BY <2>3, <3>2, <3>3, <3>4 DEF Filled
    <2>4. Located'
      <3> SUFFICES ASSUME NEW r \in Refs, r[1] \notin harmed', loc'[r] \in Pages
                   PROVE  /\ r[2] <= Len(reqTable'[r[1]]) /\ r \in Holders(loc[r])'
                          /\ r \in complete' => Filled(r[2], computed'[r[1]])
        BY DEF Located, Filled
      <3>2. /\ r[2] <= Len(reqTable[r[1]]) /\ r \in Holders(loc[r])
            /\ r \in complete => Filled(r[2], computed[r[1]])
        BY <1>1, <1>3 DEF ConnInv, Located
      <3>3. r \in Holders(loc[r])'
        BY <1>1, <3>2 DEF Holders
      <3> QED  BY <1>1, <2>3, <3>2, <3>3
    <2>5. CopiesHoldOwn'
      BY <1>1, <1>3 DEF ConnInv, CopiesHoldOwn
    <2> QED  BY <2>1, <2>2, <2>4, <2>5 DEF ConnInv
  <1>20. MirrorInv'
    BY <1>1, <1>4 DEF PoolInv, MirrorInv, Listed, Mirrored, TablesTyped
  <1> QED  BY <1>13, <1>14, <1>15, <1>18, <1>19, <1>20 DEF PoolInv

-----------------------------------------------------------------------------
(* Start-up and reset *)

\* When no page has been handed out, the tail takes its pages from the queue.
LEMMA BindKeeps == ASSUME PoolInv, BindGpuBlockPool PROVE PoolInv'
  <1>1. /\ pc = "start" /\ pc' \in {"failed", "sched"}
        /\ UNCHANGED <<kv, status, table, nCached, computed, total, sched, unseen, harmed, mishaps, todo>>
        /\ UNCHANGED <<loc, complete, reqTable, prefillDone, copy, acc, fresh, old>>
    BY DEF BindGpuBlockPool, tableVars
  <1>2. PICK n : /\ n \in FixedSlots \cup {AutoStagingSlots(est) : est \in Estimates}
                 /\ \/ UNCHANGED <<pool, tail>>
                    \/ ~(n >= NumPages) /\ ReserveStagingTail(n)
    BY DEF BindGpuBlockPool
  <1>3. PoolTyped /\ Booked /\ QueueInv /\ HashInv /\ ContentInv /\ ConnInv
    BY DEF PoolInv
  <1>4. \A q : Reach(q)' = Reach(q)
    BY <1>1 DEF Reach
  <1>5. \A p : Holders(p)' = Holders(p)
    BY <1>1 DEF Holders
  <1>6. Booked'
    BY <1>1, <1>3, <1>4 DEF Booked
  <1>7. ConnInv'
    <2>2. NullMeansOffloaded'
      BY <1>1, <1>3, <1>5 DEF ConnInv, NullMeansOffloaded
    <2>3. StoresListed'
      BY <1>1, <1>3 DEF ConnInv, StoresListed
    <2>4. Located'
      BY <1>1, <1>3, <1>5 DEF ConnInv, Located
    <2>5. CopiesHoldOwn'
      BY <1>1, <1>3 DEF ConnInv, CopiesHoldOwn
    <2> QED  BY <2>2, <2>3, <2>4, <2>5 DEF ConnInv
  <1>10. MirrorInv'
    <2>1. \A q \in Requests : unseen[q] \in Nat /\ ~(unseen[q] > 0)
      BY <1>1, <1>3 DEF PoolInv, MirrorInv, Listed, PoolTyped, TablesTyped
    <2> QED  BY <1>1, <2>1 DEF PoolInv, MirrorInv, Listed, Mirrored
  <1>8. CASE UNCHANGED <<pool, tail>>
    <2>1. PoolTyped'
      BY <1>1, <1>3, <1>8 DEF PoolTyped, TablesTyped, ConnTyped
    <2>2. QueueInv' /\ HashInv'
      BY <1>1, <1>4, <1>8, SamePages
    <2>3. ContentInv'
      BY <1>1, <1>8, SameContent
    <2> QED  BY <1>6, <1>7, <1>10, <2>1, <2>2, <2>3 DEF PoolInv
  <1>9. CASE ~(n >= NumPages) /\ ReserveStagingTail(n)
    <2>1. n \in Int /\ NumPages \in Nat
      <3>1. \A est \in Estimates : AutoStagingSlots(est) \in Int
        <4> SUFFICES ASSUME NEW est \in Estimates PROVE AutoStagingSlots(est) \in Int
          OBVIOUS
        <4>1. PICK c \in Int : c = (NumPages * FracPercent) \div 100
          BY PoolAssumption
        <4>2. est \in Nat /\ Floor \in Nat
          BY PoolAssumption
        <4> QED  BY <4>1, <4>2 DEF AutoStagingSlots, Larger, Smaller
      <3> QED  BY <1>2, <3>1, PoolAssumption
    <2>2. PICK T : T = tail' /\ T = NumPages - n .. NumPages - 1 /\ pool' = Touch(pool, T)
      BY <1>9 DEF ReserveStagingTail
    <2>3. T \subseteq Pages \ {NullPage}
      BY <1>9, <2>1, <2>2 DEF Pages, NullPage
    <2>4. pool \in PoolRecords
      BY <1>3 DEF PoolTyped
    <2>5. /\ pool' \in PoolRecords /\ pool'.hash = pool.hash /\ pool'.cache = pool.cache
          /\ \A p \in Pages : pool'.ref[p] = pool.ref[p] + (IF p \in T THEN 1 ELSE 0)
          /\ pool'.free = Without(pool.free, T)
      <3>1. pool' = Touch(pool, T)
        BY <2>2
      <3> QED  BY ONLY <2>4, <3>1, TouchFields
    <2>6. PoolTyped'
      <3>1. ConnTyped'
        BY <1>1, <1>3, <2>2, <2>3 DEF PoolTyped, ConnTyped
      <3> QED  BY <1>1, <1>3, <2>5, <3>1 DEF PoolTyped, TablesTyped
    <2>7. tail = {} /\ \A k \in Keys : pool.cache[k] = <<>> /\ Entries(pool.cache[k]) = {}
      BY <1>1, <1>3 DEF HashInv, TailApart, Entries
    <2>8. \A p : Holders(p) = {}
      <3>1. \A q \in Requests : DOMAIN table[q] = {}
        BY <1>1, <1>3 DEF HashInv, TailApart, Booked
      <3> QED  BY <3>1, RefForm DEF Holders
    <2>9. \A p \in Pages \ {NullPage} : pool.ref[p] = 0
      <3>1. \A p : Cardinality(Holders(p)) = 0
        BY <2>8, FS_EmptySet, Zenon
      <3> QED  BY <1>3, <2>7, <3>1 DEF QueueInv, Counted
    <2>10. Counted'
      <3>1. \A p : Cardinality(Holders(p)') = 0
        BY <1>5, <2>8, FS_EmptySet, Zenon
      <3>2. \A p \in Pages \ {NullPage} : pool'.ref[p] = IF p \in T THEN 1 ELSE 0
        BY <2>5, <2>9
      <3> QED  BY <2>2, <3>1, <3>2 DEF Counted
    <2>11. Queued(pool')
      <3>1. PICK free : free = pool.free /\ free \in Seq(Pages)
        BY <2>4, PoolFields
      <3>2. PICK free1 : free1 = pool'.free /\ free1 = Without(free, T)
        BY <2>5, <3>1
      <3>3. /\ Entries(free) = {p \in Pages \ {NullPage} : pool.ref[p] = 0}
            /\ Distinct(free) /\ HashedLast(free, pool.hash)
        BY <1>3, <3>1 DEF QueueInv, Queued
      <3>4. Entries(free1) = Entries(free) \ T /\ Distinct(free1) /\ InOrderOf(free1, free)
        BY <3>1, <3>2, <3>3, WithoutEntries
      <3>5. HashedLast(free1, pool.hash)
        BY <3>3, <3>4, StillHashedLast
      <3>6. Entries(free1) = {p \in Pages \ {NullPage} : pool'.ref[p] = 0}
        BY <2>3, <2>5, <2>9, <3>3, <3>4
      <3> QED  BY <2>5, <3>2, <3>4, <3>5, <3>6 DEF Queued
    <2>12. QueueInv'
      BY <2>10, <2>11 DEF QueueInv, Queued
    <2>13. \A k \in Keys : Entries(pool'.cache[k]) = {}
      BY <2>5, <2>7
    <2>14. HashInv'
      <3>1. TailApart'
        BY <1>1, <1>5, <2>2, <2>3, <2>8, <2>13 DEF TailApart
      <3>2. CacheMarked'
        BY <2>13 DEF CacheMarked
      <3>3. Shared' /\ Hashed'
        BY <1>5, <2>8 DEF Shared, Hashed
      <3> QED  BY <3>1, <3>2, <3>3 DEF HashInv
    <2>15. ContentInv'
      BY <1>5, <2>8, <2>13 DEF ContentInv, CacheHoldsOwn, PagesHoldOwn
    <2> QED  BY <1>6, <1>7, <1>10, <2>6, <2>12, <2>14, <2>15 DEF PoolInv
  <1> QED  BY <1>2, <1>8, <1>9

\* A reset forgets every hash and moves no page.
LEMMA ResetKeeps == ASSUME PoolInv, ResetPrefixCache PROVE PoolInv'
  <1>1. /\ pc = "sched" /\ pool' = Evict(pool, Pages)
        /\ UNCHANGED <<kv, status, table, nCached, computed, total, sched, unseen, harmed, mishaps, todo, pc>>
        /\ UNCHANGED <<tail, loc, complete, reqTable, prefillDone, copy, acc, fresh, old>>
    BY DEF ResetPrefixCache, tableVars, connVars
  <1>2. PoolTyped /\ Booked /\ QueueInv /\ HashInv /\ ContentInv /\ ConnInv
    BY DEF PoolInv
  <1>3. pool \in PoolRecords
    BY <1>2 DEF PoolTyped
  <1>4. /\ pool' \in PoolRecords /\ pool'.ref = pool.ref /\ pool'.free = pool.free
        /\ \A p \in Pages : pool'.hash[p] = IF p \in Pages THEN NoKey ELSE pool.hash[p]
        /\ \A k \in Keys : Entries(pool'.cache[k]) = Entries(pool.cache[k]) \ Pages
    BY <1>1, <1>3, EvictFields
  <1>5. \A q : Reach(q)' = Reach(q)
    BY <1>1 DEF Reach
  <1>6. \A p : Holders(p)' = Holders(p)
    BY <1>1 DEF Holders
  <1>7. PoolTyped'
    BY <1>1, <1>2, <1>4 DEF PoolTyped, TablesTyped, ConnTyped
  <1>8. Booked'
    BY <1>1, <1>2, <1>5 DEF Booked
  <1>9. \A k \in Keys : Entries(pool'.cache[k]) = {}
    <2> SUFFICES ASSUME NEW k \in Keys PROVE Entries(pool'.cache[k]) = {}
      OBVIOUS
    <2>1. pool.cache[k] \in Seq(Pages)
      BY <1>3, PoolFields
    <2>2. Entries(pool.cache[k]) \subseteq Pages
      BY <2>1, DistinctLen
    <2> QED  BY <1>4, <2>2
  <1>10. QueueInv'
    <2>1. Counted'
      BY <1>1, <1>2, <1>4, <1>6 DEF QueueInv, Counted
    <2>2. PICK free : free = pool.free /\ free \in Seq(Pages)
      BY <1>3, PoolFields
    <2>3. \A i \in DOMAIN free : free[i] \in Pages
      BY <2>2, LenProperties, ElementOfSeq
    <2>4. HashedLast(free, pool'.hash)
      BY <1>4, <2>3 DEF HashedLast
    <2>5. Queued(pool)'
      BY <1>2, <1>4, <2>2, <2>4 DEF QueueInv, Queued
    <2> QED  BY <2>1, <2>5 DEF QueueInv
  <1>11. HashInv'
    <2>1. TailApart'
      BY <1>1, <1>2, <1>6, <1>9 DEF HashInv, TailApart
    <2>2. CacheMarked'
      BY <1>9 DEF CacheMarked
    <2>3. Shared'
      BY <1>2, <1>5, <1>6 DEF HashInv, Shared
    <2>4. Hashed'
      BY <1>4 DEF Hashed
    <2> QED  BY <2>1, <2>2, <2>3, <2>4 DEF HashInv
  <1>12. ContentInv'
    <2>1. CacheHoldsOwn'
      BY <1>9 DEF CacheHoldsOwn
    <2>2. \A p, k : Good(p, k) => Good(p, k)'
      <3> SUFFICES ASSUME NEW p, NEW k, Pending(p, k) PROVE Pending(p, k)'
        BY <1>1 DEF Good
      <3> QED  BY <1>1, <1>5, <1>6 DEF Pending
    <2>3. PagesHoldOwn'
      BY <1>1, <1>2, <1>6, <2>2 DEF ContentInv, PagesHoldOwn
    <2> QED  BY <2>1, <2>3 DEF ContentInv
  <1>13. ConnInv'
    <2>2. NullMeansOffloaded'
      BY <1>1, <1>2, <1>6 DEF ConnInv, NullMeansOffloaded
    <2>3. StoresListed'
      BY <1>1, <1>2 DEF ConnInv, StoresListed
    <2>4. Located'
      BY <1>1, <1>2, <1>6 DEF ConnInv, Located
    <2>5. CopiesHoldOwn'
      BY <1>1, <1>2 DEF ConnInv, CopiesHoldOwn
    <2> QED  BY <2>2, <2>3, <2>4, <2>5 DEF ConnInv
  <1>14. MirrorInv'
    BY <1>1 DEF PoolInv, MirrorInv, Listed, Mirrored
  <1> QED  BY <1>7, <1>8, <1>10, <1>11, <1>12, <1>13, <1>14 DEF PoolInv

-----------------------------------------------------------------------------
(* Blocks that let go of their pages *)

\* References are given back for the blocks R, and only for them.
LetGo(R, pl, blocks) ==
    /\ \A p \in Pages \ {NullPage} :
          /\ Holders(p)' = Holders(p) \ R
          /\ Times(blocks, p) = Cardinality(Holders(p) \cap R)
    /\ pl \in PoolRecords /\ pl.ref = pool.ref /\ Queued(pl) /\ blocks \in Seq(Pages)
    /\ tail' = tail /\ pool' = FreeBlocks(pl, blocks)

LEMMA LetGoCounted ==
    ASSUME PoolInv, NEW R, NEW pl, NEW blocks, LetGo(R, pl, blocks)
    PROVE  pool' \in PoolRecords /\ pool'.hash = pl.hash /\ pool'.cache = pl.cache /\ QueueInv'
  <1>1. /\ pl \in PoolRecords /\ pl.ref = pool.ref /\ Queued(pl) /\ blocks \in Seq(Pages)
        /\ tail' = tail /\ pool' = FreeBlocks(pl, blocks)
    BY DEF LetGo
  <1>2. PICK new : new = pool'
    OBVIOUS
  <1>3. ASSUME NEW p \in Pages \ {NullPage}
        PROVE  /\ Times(blocks, p) <= pl.ref[p]
               /\ pl.ref[p] - Times(blocks, p)
                    = Cardinality(Holders(p)') + (IF p \in tail THEN 1 ELSE 0)
    <2>1. Holders(p)' = Holders(p) \ R /\ Times(blocks, p) = Cardinality(Holders(p) \cap R)
      BY DEF LetGo
    <2>2. IsFiniteSet(Holders(p)) /\ Cardinality(Holders(p)) \in Nat
      BY HoldersForm
    <2>3. Cardinality(Holders(p) \ R) = Cardinality(Holders(p)) - Cardinality(Holders(p) \cap R)
      BY <2>2, FS_Difference
    <2>4. /\ Cardinality(Holders(p) \cap R) <= Cardinality(Holders(p))
          /\ Cardinality(Holders(p) \cap R) \in Nat
      <3>1. Holders(p) \cap R \in SUBSET Holders(p)
        OBVIOUS
      <3> QED  BY <2>2, <3>1, FS_Subset, FS_CardinalityType
    <2>5. pl.ref[p] = Cardinality(Holders(p)) + (IF p \in tail THEN 1 ELSE 0)
      BY <1>1 DEF PoolInv, QueueInv, Counted
    <2>6. PICK h \in Nat, c \in Nat : h = Cardinality(Holders(p)) /\ c = Cardinality(Holders(p) \cap R)
      BY <2>2, <2>4
    <2>7. c <= h /\ Times(blocks, p) = c /\ Cardinality(Holders(p)') = h - c
      BY <2>1, <2>3, <2>4, <2>6
    <2> QED  BY <2>5, <2>6, <2>7
  <1>4. \A p \in Pages \ {NullPage} : Times(blocks, p) <= pl.ref[p]
    BY <1>3
  <1>5. /\ new \in PoolRecords /\ new.hash = pl.hash /\ new.cache = pl.cache
        /\ \A p \in Pages \ {NullPage} : new.ref[p] = pl.ref[p] - Times(blocks, p)
        /\ Queued(new)
    <2>1. new = FreeBlocks(pl, blocks)
      BY <1>1, <1>2
    <2> QED  BY ONLY <1>1, <1>4, <2>1, FreeBlocksFields
  <1>6. Counted'
    BY <1>1, <1>2, <1>3, <1>5 DEF Counted
  <1>7. Queued(pool)'
    BY <1>2, <1>5 DEF Queued
  <1> QED  BY <1>2, <1>5, <1>6, <1>7 DEF QueueInv

\* Fewer holders, fewer hashes, and nothing else about the blocks that stay.
Shrunk ==
    /\ tail' = tail /\ pc' # "start"
    /\ \A p \in Pages \ {NullPage} :
          /\ Holders(p)' \subseteq Holders(p)
          /\ \A r \in Holders(p)' : Reach(r[1])' = Reach(r[1]) /\ computed'[r[1]] = computed[r[1]]
          /\ \A k : Good(p, k) => Good(p, k)'
    /\ \A p \in Pages : pool'.hash[p] \in {NoKey, pool.hash[p]}
    /\ \A k \in Keys : \A p \in Entries(pool'.cache[k]) :
          p \in Entries(pool.cache[k]) /\ pool'.hash[p] = pool.hash[p]

LEMMA ShrunkKeeps == ASSUME PoolInv, Shrunk PROVE HashInv' /\ ContentInv'
  <1>1. PoolTyped /\ HashInv /\ ContentInv
    BY DEF PoolInv
  <1>2. /\ tail' = tail /\ pc' # "start"
        /\ \A p \in Pages \ {NullPage} :
              /\ Holders(p)' \subseteq Holders(p)
              /\ \A r \in Holders(p)' : Reach(r[1])' = Reach(r[1]) /\ computed'[r[1]] = computed[r[1]]
              /\ \A k : Good(p, k) => Good(p, k)'
        /\ \A p \in Pages : pool'.hash[p] \in {NoKey, pool.hash[p]}
        /\ \A k \in Keys : \A p \in Entries(pool'.cache[k]) :
              p \in Entries(pool.cache[k]) /\ pool'.hash[p] = pool.hash[p]
    BY Zenon DEF Shrunk
  <1>3. tail \subseteq Pages /\ \A p \in tail : p # NullPage /\ Holders(p) = {}
    BY <1>1 DEF PoolTyped, ConnTyped, HashInv, TailApart
  <1>4. TailApart'
    <2>1. \A p \in tail' : p # NullPage /\ Holders(p)' = {}
      BY <1>2, <1>3
    <2>2. \A p \in tail' : \A k \in Keys : p \notin Entries(pool'.cache[k])
      BY <1>1, <1>2 DEF HashInv, TailApart
    <2> QED  BY <1>2, <2>1, <2>2 DEF TailApart
  <1>5. CacheMarked'
    BY <1>1, <1>2 DEF HashInv, CacheMarked
  <1>6. Shared'
    <2> SUFFICES ASSUME NEW r \in Refs, NEW s \in Refs, NEW p \in Pages \ {NullPage}, r # s,
                        r \in Holders(p)', s \in Holders(p)'
                 PROVE  Key(r) = Key(s) /\ Filled(r[2], Reach(r[1]))'
      BY DEF Shared, Key
    <2>1. Key(r) = Key(s) /\ Filled(r[2], Reach(r[1]))
      BY <1>1, <1>2 DEF HashInv, Shared
    <2> QED  BY <1>2, <2>1 DEF Filled
  <1>7. Hashed'
    <2> SUFFICES ASSUME NEW p \in Pages \ {NullPage}, NEW r \in Holders(p)', pool'.hash[p] # NoKey
                 PROVE  pool'.hash[p] = Key(r) /\ Filled(r[2], Reach(r[1]))'
      BY DEF Hashed, Key
    <2>1. pool'.hash[p] = pool.hash[p] /\ r \in Holders(p)
      BY <1>2
    <2>2. pool.hash[p] = Key(r) /\ Filled(r[2], Reach(r[1]))
      BY <1>1, <2>1 DEF HashInv, Hashed
    <2> QED  BY <1>2, <2>1, <2>2 DEF Filled
  <1>8. CacheHoldsOwn'
    <2> SUFFICES ASSUME NEW k \in Keys, NEW p \in Entries(pool'.cache[k]) PROVE Good(p, k)'
      BY DEF CacheHoldsOwn
    <2>1. p \in Entries(pool.cache[k])
      BY <1>2
    <2>2. pool.cache[k] \in Seq(Pages)
      BY <1>1, PoolFields DEF PoolTyped
    <2>3. p \in Pages \ {NullPage}
      BY <1>1, <2>1, <2>2, DistinctLen DEF HashInv, CacheMarked
    <2>4. Good(p, k)
      BY <1>1, <2>1 DEF ContentInv, CacheHoldsOwn
    <2> QED  BY <1>2, <2>3, <2>4
  <1>9. PagesHoldOwn'
    <2> SUFFICES ASSUME NEW p \in Pages \ {NullPage}, NEW r \in Holders(p)', Filled(r[2], computed'[r[1]])
                 PROVE  Good(p, Key(r))'
      BY DEF PagesHoldOwn, Key, Filled
    <2>1. r \in Holders(p) /\ Filled(r[2], computed[r[1]])
      BY <1>2
    <2>2. PICK k : k = Key(r)
      OBVIOUS
    <2>3. Good(p, k)
      BY <1>1, <2>1, <2>2 DEF ContentInv, PagesHoldOwn
    <2>4. Good(p, k)'
      BY <1>2, <2>3
    <2> QED  BY <2>2, <2>4 DEF Good, Pending, Key
  <1> QED  BY <1>4, <1>5, <1>6, <1>7, <1>8, <1>9 DEF HashInv, ContentInv

\* free of the cache manager, for a request that writes nothing in this step.
Lets(q) ==
    /\ pool' = Freed(q) /\ table' = [table EXCEPT ![q] = <<>>]
    /\ computed' = [computed EXCEPT ![q] = 0] /\ sched' = [sched EXCEPT ![q] = 0]
    /\ pc' = pc /\ (pc = "update" \/ (pc = "sched" /\ sched[q] = 0))
    /\ kv' = kv /\ tail' = tail

LEMMA LetsKeeps ==
    ASSUME PoolInv, NEW q \in Requests, Lets(q)
    PROVE  /\ pool' \in PoolRecords /\ QueueInv' /\ HashInv' /\ ContentInv'
           /\ \A p : Holders(p)' = {r \in Holders(p) : r[1] # q}
           /\ \A u \in Requests : u # q => /\ table'[u] = table[u] /\ computed'[u] = computed[u]
                                           /\ sched'[u] = sched[u] /\ Reach(u)' = Reach(u)
           /\ table'[q] = <<>> /\ computed'[q] = 0 /\ sched'[q] = 0 /\ Reach(q)' = 0
  <1>1. /\ table' = [table EXCEPT ![q] = <<>>]
        /\ computed' = [computed EXCEPT ![q] = 0] /\ sched' = [sched EXCEPT ![q] = 0]
        /\ pc' = pc /\ (pc = "update" \/ (pc = "sched" /\ sched[q] = 0))
        /\ kv' = kv /\ tail' = tail
    BY DEF Lets
  <1>2. PoolTyped /\ Booked /\ QueueInv
    BY DEF PoolInv
  <1>3. /\ table \in [Requests -> Seq(Pages)] /\ computed \in [Requests -> Nat]
        /\ sched \in [Requests -> 0 .. MaxChunk]
    BY <1>2 DEF PoolTyped, TablesTyped
  <1>4. /\ \A u \in Requests : u # q => /\ table'[u] = table[u] /\ computed'[u] = computed[u]
                                        /\ sched'[u] = sched[u] /\ Reach(u)' = Reach(u)
        /\ table'[q] = <<>> /\ computed'[q] = 0 /\ sched'[q] = 0 /\ Reach(q)' = 0
    BY <1>1, <1>3 DEF Reach
  <1>5. ASSUME NEW p PROVE Holders(p)' = {r \in Holders(p) : r[1] # q}
    <2>1. \A r \in Refs : r[1] = q => DOMAIN table'[r[1]] = {}
      BY <1>4
    <2>2. \A r \in Refs : r[1] # q => table'[r[1]] = table[r[1]]
      BY <1>4, RefForm
    <2> QED  BY <2>1, <2>2 DEF Holders
  <1>6. PICK t : /\ t = table[q] /\ t \in Seq(Pages) /\ Len(t) \in Nat /\ DOMAIN t = 1 .. Len(t)
                 /\ \A i \in DOMAIN t : t[i] \in Pages /\ i \in 1 .. Len(KeyOf[q])
    BY <1>2, TableForm
  <1>6a. PICK n \in Nat : n = Len(t) /\ DOMAIN t = 1 .. n
    BY <1>6
  <1>7. PICK blocks : blocks = [i \in 1 .. n |-> t[n + 1 - i]] /\ pool' = FreeBlocks(pool, blocks)
    BY <1>6, <1>6a DEF Lets, Freed
  <1>8. \A i \in 1 .. n : n + 1 - i \in 1 .. n
    OBVIOUS
  <1>9. blocks \in Seq(Pages) /\ DOMAIN blocks = 1 .. n
    <2>1. blocks \in [1 .. n -> Pages]
      BY <1>6, <1>7, <1>8, <1>6a
    <2> QED  BY <2>1, FunctionSeq
  <1>10. PICK R : R = {r \in Refs : r[1] = q}
    OBVIOUS
  <1>11. ASSUME NEW p \in Pages \ {NullPage}
         PROVE  Times(blocks, p) = Cardinality(Holders(p) \cap R)
    <2>1. PICK T : T = {i \in 1 .. n : blocks[i] = p}
      OBVIOUS
    <2> DEFINE f == [i \in T |-> <<q, n + 1 - i>>]
    <2>2. ASSUME NEW i \in T PROVE f[i] \in Holders(p) \cap R /\ f[i] = <<q, n + 1 - i>>
      <3>1. i \in 1 .. n /\ t[n + 1 - i] = p /\ n + 1 - i \in 1 .. n
        BY <1>7, <1>8, <2>1
      <3>2. PICK j \in 1 .. n : j = n + 1 - i /\ t[j] = p
        BY <3>1
      <3>3. <<q, j>> \in Refs /\ <<q, j>>[1] = q /\ <<q, j>>[2] = j
        BY <1>6, <1>6a, RefForm
      <3>4. <<q, j>> \in Holders(p)
        BY <1>6, <1>6a, <3>2, <3>3 DEF Holders
      <3> QED  BY <1>10, <3>2, <3>3, <3>4
    <2>3. \A i, j \in T : f[i] = f[j] => i = j
      <3> SUFFICES ASSUME NEW i \in T, NEW j \in T, f[i] = f[j] PROVE i = j
        OBVIOUS
      <3>1. n + 1 - i = n + 1 - j /\ i \in 1 .. n /\ j \in 1 .. n
        BY <2>1, <2>2
      <3> QED  BY <3>1
    <2>4. ASSUME NEW r \in Holders(p) \cap R PROVE \E i \in T : f[i] = r
      <3>1. /\ r[1] = q /\ r[2] \in 1 .. n /\ t[r[2]] = p /\ r = <<r[1], r[2]>>
        BY <1>6, <1>10, <1>6a, RefForm DEF Holders
      <3>2. PICK i \in 1 .. n : i = n + 1 - r[2] /\ n + 1 - i = r[2]
        BY <3>1
      <3>3. i \in T
        BY <1>7, <2>1, <3>1, <3>2
      <3> QED  BY <2>2, <3>1, <3>2, <3>3
    <2>5. f \in Bijection(T, Holders(p) \cap R)
      <3>1. f \in [T -> Holders(p) \cap R]
        BY <2>2
      <3> HIDE DEF f
      <3> QED  BY <2>3, <2>4, <3>1 DEF Bijection, Injection, Surjection, IsInjective
    <2>6. IsFiniteSet(T)
      <3>1. IsFiniteSet(1 .. n) /\ T \in SUBSET (1 .. n)
        BY <2>1, FS_Interval
      <3> QED  BY <3>1, FS_Subset
    <2>7. ExistsBijection(T, Holders(p) \cap R)
      BY <2>5 DEF ExistsBijection
    <2>8. Cardinality(Holders(p) \cap R) = Cardinality(T)
      BY <2>6, <2>7, FS_Bijection
    <2> QED  BY <1>9, <2>1, <2>8 DEF Times
  <1>12. \A p \in Pages \ {NullPage} : Holders(p)' = Holders(p) \ R
    BY <1>5, <1>10, HoldersForm
  <1>13. LetGo(R, pool, blocks)
    BY <1>1, <1>2, <1>7, <1>9, <1>11, <1>12 DEF LetGo, PoolTyped, QueueInv
  <1>14. pool' \in PoolRecords /\ pool'.hash = pool.hash /\ pool'.cache = pool.cache /\ QueueInv'
    BY <1>13, LetGoCounted
  <1>15. Shrunk
    <2>1. pc' # "start"
      BY <1>1
    <2>2. ASSUME NEW p \in Pages \ {NullPage}
          PROVE  /\ Holders(p)' \subseteq Holders(p)
                 /\ \A r \in Holders(p)' : Reach(r[1])' = Reach(r[1]) /\ computed'[r[1]] = computed[r[1]]
      BY <1>4, <1>5, HoldersForm, RefForm
    <2>3. ASSUME NEW p, NEW k, Good(p, k) PROVE Good(p, k)'
      <3>1. CASE kv[p] = k
        BY <1>1, <3>1 DEF Good
      <3>2. CASE Pending(p, k)
        <4>1. PICK s \in Holders(p) : Key(s) = k /\ Filled(s[2], Reach(s[1])) /\ ~Filled(s[2], computed[s[1]])
          BY <3>2 DEF Pending
        <4>2. pc = "sched" /\ sched[q] = 0
          BY <1>1, <3>2 DEF Pending
        <4>3. s[1] # q
          <5> SUFFICES ASSUME s[1] = q PROVE FALSE
            OBVIOUS
          <5>1. Reach(q) = computed[q]
            BY <1>3, <4>2 DEF Reach
          <5> QED  BY <4>1, <5>1
        <4>4. s \in Holders(p)' /\ s[1] \in Requests
          BY <1>5, <4>3, HoldersForm, RefForm
        <4>5. Reach(s[1])' = Reach(s[1]) /\ computed'[s[1]] = computed[s[1]]
          BY <1>4, <4>3, <4>4
        <4>6. Filled(s[2], Reach(s[1]))' /\ ~Filled(s[2], computed[s[1]])' /\ Key(s)' = k
          BY <4>1, <4>5 DEF Filled, Key
        <4>7. Pending(p, k)'
          BY <1>1, <4>2, <4>4, <4>6 DEF Pending
        <4> QED  BY <4>7 DEF Good
      <3> QED  BY <2>3, <3>1, <3>2 DEF Good
    <2> QED  BY <1>1, <1>14, <2>1, <2>2, <2>3 DEF Shrunk
  <1>16. HashInv' /\ ContentInv'
    BY <1>15, ShrunkKeeps
  <1> QED  BY <1>4, <1>5, <1>14, <1>16

LEMMA PreemptKeeps == ASSUME PoolInv, NEW q \in Requests, Preempt(q) PROVE PoolInv'
  <1>1. /\ pc = "sched" /\ status[q] = "running" /\ sched[q] = 0
        /\ harmed' = harmed \cup {q} /\ pool' = Freed(q)
        /\ mishaps < MaxMishaps /\ mishaps' = mishaps + 1 /\ unseen' = unseen
        /\ status' = [status EXCEPT ![q] = "preempted"] /\ table' = [table EXCEPT ![q] = <<>>]
        /\ nCached' = [nCached EXCEPT ![q] = 0] /\ computed' = [computed EXCEPT ![q] = 0]
        /\ UNCHANGED <<kv, total, sched, pc, todo>>
        /\ UNCHANGED <<tail, loc, complete, reqTable, prefillDone, copy, acc, fresh, old>>
    BY DEF Preempt, connVars
  <1>2. PoolTyped /\ Booked /\ ConnInv
    BY DEF PoolInv
  <1>3. TablesTyped /\ ConnTyped
    BY <1>2 DEF PoolTyped
  <1>4. sched' = [sched EXCEPT ![q] = 0]
    BY <1>1, <1>3 DEF TablesTyped
  <1>5. Lets(q)
    BY <1>1, <1>4 DEF Lets
  <1>6. /\ pool' \in PoolRecords /\ QueueInv' /\ HashInv' /\ ContentInv'
        /\ \A p : Holders(p)' = {r \in Holders(p) : r[1] # q}
        /\ \A u \in Requests : u # q => /\ table'[u] = table[u] /\ computed'[u] = computed[u]
                                        /\ sched'[u] = sched[u] /\ Reach(u)' = Reach(u)
        /\ table'[q] = <<>> /\ computed'[q] = 0 /\ sched'[q] = 0 /\ Reach(q)' = 0
    BY <1>5, LetsKeeps
  <1>7. PoolTyped'
    <2>0. mishaps' \in 0 .. MaxMishaps
      BY <1>1, <1>3, PoolAssumption DEF TablesTyped
    <2>1. TablesTyped'
      BY <1>1, <1>3, <2>0 DEF TablesTyped
    <2> QED  BY <1>1, <1>2, <1>6, <2>1 DEF PoolTyped, ConnTyped
  <1>8. Booked'
    <2> SUFFICES ASSUME NEW u \in Requests
                 PROVE  /\ status'[u] # "running" =>
                              table'[u] = <<>> /\ nCached'[u] = 0 /\ computed'[u] = 0 /\ sched'[u] = 0
                        /\ Reach(u)' <= total'[u] /\ total'[u] <= MaxTokens(u)
                        /\ Reach(u)' <= Len(table'[u]) * PageSize
                        /\ nCached'[u] <= Len(KeyOf[u]) /\ Len(reqTable'[u]) <= Len(KeyOf[u])
                        /\ Len(table'[u]) <= Len(KeyOf[u])
      BY DEF Booked, MaxTokens
    <2>1. CASE u # q
      BY <1>1, <1>2, <1>3, <1>6, <2>1 DEF Booked, TablesTyped
    <2>2. CASE u = q
      <3>1. /\ table'[u] = <<>> /\ nCached'[u] = 0 /\ computed'[u] = 0 /\ sched'[u] = 0
            /\ Len(table'[u]) = 0 /\ Reach(u)' = 0
        BY <1>1, <1>3, <1>6, <2>2 DEF TablesTyped
      <3>2. Len(KeyOf[u]) \in Nat /\ total[u] \in Nat /\ 0 * PageSize = 0
        BY <1>3, RefForm, PoolAssumption, SMTT(60) DEF TablesTyped
      <3>3. total[u] <= MaxTokens(u) /\ Len(reqTable[u]) <= Len(KeyOf[u])
        BY <1>2 DEF Booked
      <3> QED  BY <1>1, <3>1, <3>2, <3>3
    <2> QED  BY <2>1, <2>2
  <1>9. ConnInv'
    <2>1. NullMeansOffloaded'
      BY <1>1, <1>2, <1>6 DEF ConnInv, NullMeansOffloaded
    <2>2. StoresListed'
      <3> SUFFICES ASSUME NEW e \in acc \cup fresh \cup old
                   PROVE  loc[e.ref] = OnCpu \/ status'[e.ref[1]] = "finished"
        BY <1>1 DEF StoresListed
      <3>1. e.ref \in Refs /\ e.ref[1] \in Requests
        BY <1>3, RefForm DEF ConnTyped
      <3>2. loc[e.ref] = OnCpu \/ status[e.ref[1]] = "finished"
        BY <1>2 DEF ConnInv, StoresListed
      <3>3. status[e.ref[1]] = "finished" => status'[e.ref[1]] = "finished"
        BY <1>1, <1>3, <3>1 DEF TablesTyped
      <3> QED  BY <3>2, <3>3
    <2>3. Located'
      <3> SUFFICES ASSUME NEW r \in Refs, r[1] \notin harmed', loc'[r] \in Pages
                   PROVE  /\ r[2] <= Len(reqTable'[r[1]]) /\ r \in Holders(loc[r])'
                          /\ r \in complete' => Filled(r[2], computed'[r[1]])
        BY DEF Located, Filled
      <3>1. r[1] \notin harmed /\ r[1] # q /\ r[1] \in Requests
        BY <1>1, RefForm
      <3>2. /\ r[2] <= Len(reqTable[r[1]]) /\ r \in Holders(loc[r])
            /\ r \in complete => Filled(r[2], computed[r[1]])
        BY <1>1, <1>2, <3>1 DEF ConnInv, Located
      <3>3. r \in Holders(loc[r])'
        BY <1>1, <1>6, <3>1, <3>2 DEF Holders
      <3> QED  BY <1>1, <1>6, <3>1, <3>2, <3>3
    <2>4. CopiesHoldOwn'
      BY <1>1, <1>2 DEF ConnInv, CopiesHoldOwn
    <2> QED  BY <2>1, <2>2, <2>3, <2>4 DEF ConnInv
  <1>10. MirrorInv'
    <2>1. MirrorInv /\ unseen[q] \in Nat
      BY <1>3 DEF PoolInv, TablesTyped
    <2>2. unseen[q] = 0 /\ Len(table'[q]) = 0
      BY <1>1, <1>6, <2>1 DEF MirrorInv, Listed
    <2>3. Listed'
      <3> SUFFICES ASSUME NEW u \in Requests
                   PROVE  /\ unseen[u] <= Len(table'[u])
                          /\ unseen[u] > 0 => sched'[u] > 0 /\ pc' = "sched"
        BY <1>1 DEF Listed
      <3>1. CASE u = q
        BY <2>2, <3>1
      <3>2. CASE u # q
        BY <1>1, <1>6, <2>1, <3>2 DEF MirrorInv, Listed
      <3> QED  BY <3>1, <3>2
    <2>4. Mirrored'
      <3> SUFFICES ASSUME NEW u \in Requests, u # q, u \notin harmed
                   PROVE  /\ Len(reqTable[u]) + unseen[u] = Len(table'[u])
                          /\ \A i \in DOMAIN reqTable[u] : reqTable[u][i] = table'[u][i]
        BY <1>1 DEF Mirrored
      <3> QED  BY <1>6, <2>1 DEF MirrorInv, Mirrored
    <2> QED  BY <2>3, <2>4 DEF MirrorInv
  <1> QED  BY <1>6, <1>7, <1>8, <1>9, <1>10 DEF PoolInv

LEMMA FinishKeeps == ASSUME PoolInv, NEW q \in Requests, Finish(q) PROVE PoolInv'
  <1>0. pc = "update" \/ (pc = "sched" /\ sched[q] = 0)
    BY DEF Finish
  <1>1. /\ pc = "update" \/ (pc = "sched" /\ sched[q] = 0)
        /\ pool' = Freed(q) /\ table' = [table EXCEPT ![q] = <<>>]
        /\ status' = [status EXCEPT ![q] = "finished"]
        /\ nCached' = [nCached EXCEPT ![q] = 0] /\ sched' = [sched EXCEPT ![q] = 0]
        /\ reqTable' = [reqTable EXCEPT ![q] = <<>>] /\ computed' = [computed EXCEPT ![q] = 0]
        /\ total' = [total EXCEPT ![q] = PromptLen[q]]
        /\ prefillDone' = prefillDone \ {q}
        /\ UNCHANGED <<kv, unseen, harmed, mishaps, tail, acc, fresh, old, pc, todo>>
    BY <1>0 DEF Finish
  <1>2. /\ loc' = [r \in Refs |-> IF r[1] = q /\ r[2] <= Len(reqTable[q]) THEN Nowhere ELSE loc[r]]
        /\ copy' = [r \in Refs |-> IF r[1] = q /\ r[2] <= Len(reqTable[q]) THEN Garbage ELSE copy[r]]
        /\ complete' = {r \in complete : r[1] # q \/ r[2] > Len(reqTable[q])}
    BY DEF Finish
  <1>3. PoolTyped /\ Booked /\ ConnInv
    BY DEF PoolInv
  <1>4. TablesTyped /\ ConnTyped
    BY <1>3 DEF PoolTyped
  <1>5. Lets(q)
    BY <1>1 DEF Lets
  <1>6. /\ pool' \in PoolRecords /\ QueueInv' /\ HashInv' /\ ContentInv'
        /\ \A p : Holders(p)' = {r \in Holders(p) : r[1] # q}
        /\ \A u \in Requests : u # q => /\ table'[u] = table[u] /\ computed'[u] = computed[u]
                                        /\ sched'[u] = sched[u] /\ Reach(u)' = Reach(u)
        /\ table'[q] = <<>> /\ computed'[q] = 0 /\ sched'[q] = 0 /\ Reach(q)' = 0
    BY <1>5, LetsKeeps
  <1>7. PromptLen[q] \in Nat \ {0} /\ MaxNew \in Nat /\ MaxChunk \in Nat
    BY PoolAssumption
  <1>8. PoolTyped'
    <2>1. TablesTyped'
      BY <1>1, <1>4, <1>7 DEF TablesTyped
    <2>2. ConnTyped'
      BY <1>1, <1>2, <1>4 DEF ConnTyped
    <2> QED  BY <1>1, <1>3, <1>6, <2>1, <2>2 DEF PoolTyped
  <1>9. Booked'
    <2> SUFFICES ASSUME NEW u \in Requests
                 PROVE  /\ status'[u] # "running" =>
                              table'[u] = <<>> /\ nCached'[u] = 0 /\ computed'[u] = 0 /\ sched'[u] = 0
                        /\ Reach(u)' <= total'[u] /\ total'[u] <= MaxTokens(u)
                        /\ Reach(u)' <= Len(table'[u]) * PageSize
                        /\ nCached'[u] <= Len(KeyOf[u]) /\ Len(reqTable'[u]) <= Len(KeyOf[u])
                        /\ Len(table'[u]) <= Len(KeyOf[u])
      BY DEF Booked, MaxTokens
    <2>1. CASE u # q
      BY <1>1, <1>3, <1>4, <1>6, <2>1 DEF Booked, TablesTyped, ConnTyped
    <2>2. CASE u = q
      <3>1. /\ table'[u] = <<>> /\ nCached'[u] = 0 /\ computed'[u] = 0 /\ sched'[u] = 0
            /\ Len(table'[u]) = 0 /\ Reach(u)' = 0 /\ total'[u] = PromptLen[u] /\ Len(reqTable'[u]) = 0
        BY <1>1, <1>4, <1>6, <2>2 DEF TablesTyped, ConnTyped
      <3>2. Len(KeyOf[u]) \in Nat /\ 0 * PageSize = 0 /\ PromptLen[u] <= MaxTokens(u)
        BY <1>7, <2>2, RefForm, PoolAssumption DEF MaxTokens
      <3> QED  BY <1>7, <2>2, <3>1, <3>2
    <2> QED  BY <2>1, <2>2
  <1>10. \A p \in Pages : p # OnCpu /\ p # Nowhere
    BY PoolAssumption DEF Pages, OnCpu, Nowhere
  <1>11. Nowhere # OnCpu /\ Nowhere \notin Pages
    BY <1>10 DEF Nowhere, OnCpu
  <1>12. ASSUME NEW r \in Refs, loc'[r] # Nowhere
         PROVE  loc'[r] = loc[r] /\ copy'[r] = copy[r] /\ (r[1] = q => ~(r[2] <= Len(reqTable[q])))
    BY <1>2, <1>12
  <1>13. \A r \in Refs : r[1] # q => loc'[r] = loc[r]
    BY <1>2
  <1>14. ConnInv'
    <2>1. NullMeansOffloaded'
      BY <1>3, <1>6, <1>13, HoldersForm DEF ConnInv, NullMeansOffloaded
    <2>2. StoresListed'
      <3> SUFFICES ASSUME NEW e \in acc \cup fresh \cup old
                   PROVE  loc'[e.ref] = OnCpu \/ status'[e.ref[1]] = "finished"
        BY <1>1 DEF StoresListed
      <3>1. e.ref \in Refs /\ e.ref[1] \in Requests
        BY <1>4, RefForm DEF ConnTyped
      <3>2. loc[e.ref] = OnCpu \/ status[e.ref[1]] = "finished"
        BY <1>3 DEF ConnInv, StoresListed
      <3>3. CASE e.ref[1] = q
        BY <1>1, <1>4, <3>3 DEF TablesTyped
      <3>4. CASE e.ref[1] # q
        BY <1>1, <1>4, <1>13, <3>1, <3>2, <3>4 DEF TablesTyped
      <3> QED  BY <3>3, <3>4
    <2>3. Located'
      <3> SUFFICES ASSUME NEW r \in Refs, r[1] \notin harmed', loc'[r] \in Pages
                   PROVE  /\ r[2] <= Len(reqTable'[r[1]]) /\ r \in Holders(loc[r])'
                          /\ r \in complete' => Filled(r[2], computed'[r[1]])
        BY DEF Located, Filled
      <3>1. loc'[r] = loc[r] /\ (r[1] = q => ~(r[2] <= Len(reqTable[q]))) /\ r[1] \in Requests
        BY <1>11, <1>12, RefForm
      <3>2. /\ r[2] <= Len(reqTable[r[1]]) /\ r \in Holders(loc[r])
            /\ r \in complete => Filled(r[2], computed[r[1]])
        BY <1>1, <1>3, <3>1 DEF ConnInv, Located
      <3>3. r[1] # q
        BY <3>1, <3>2
      <3>4. r \in Holders(loc[r])'
        BY <1>6, <3>1, <3>2, <3>3 DEF Holders
      <3>5. Len(reqTable'[r[1]]) = Len(reqTable[r[1]]) /\ (r \in complete' => r \in complete)
        BY <1>1, <1>2, <1>4, <3>1, <3>3 DEF ConnTyped
      <3> QED  BY <1>6, <3>1, <3>2, <3>3, <3>4, <3>5
    <2>4. CopiesHoldOwn'
      <3> SUFFICES ASSUME NEW r \in Refs, loc'[r] = OnCpu, r[1] \notin harmed'
                   PROVE  copy'[r] = Key(r)
        BY DEF CopiesHoldOwn, Key
      <3>1. loc[r] = OnCpu /\ copy'[r] = copy[r]
        BY <1>11, <1>12
      <3> QED  BY <1>1, <1>3, <3>1 DEF ConnInv, CopiesHoldOwn, Key
    <2> QED  BY <2>1, <2>2, <2>3, <2>4 DEF ConnInv
  <1>15. MirrorInv'
    <2>1. MirrorInv /\ unseen[q] \in Nat /\ reqTable \in [Requests -> Seq(Pages)]
      BY <1>4 DEF PoolInv, TablesTyped, ConnTyped
    <2>2. unseen[q] = 0 /\ Len(table'[q]) = 0
      BY <1>1, <1>6, <2>1 DEF MirrorInv, Listed
    <2>3. Listed'
      <3> SUFFICES ASSUME NEW u \in Requests
                   PROVE  /\ unseen[u] <= Len(table'[u])
                          /\ unseen[u] > 0 => /\ sched'[u] > 0
                                              /\ pc = "sched" \/ (pc = "meta" /\ u \in todo)
        BY <1>1 DEF Listed
      <3>1. CASE u = q
        BY <2>2, <3>1
      <3>2. CASE u # q
        BY <1>1, <1>6, <2>1, <3>2 DEF MirrorInv, Listed
      <3> QED  BY <3>1, <3>2
    <2>4. Mirrored'
      <3> SUFFICES ASSUME NEW u \in Requests, u \notin harmed
                   PROVE  /\ Len(reqTable'[u]) + unseen[u] = Len(table'[u])
                          /\ \A i \in DOMAIN reqTable'[u] : reqTable'[u][i] = table'[u][i]
        BY <1>1 DEF Mirrored
      <3>1. CASE u = q
        <4>1. reqTable'[u] = <<>> /\ Len(<<>>) = 0 /\ DOMAIN <<>> = {}
          BY <1>1, <2>1, <3>1
        <4> QED  BY <2>2, <3>1, <4>1
      <3>2. CASE u # q
        <4>1. reqTable'[u] = reqTable[u]
          BY <1>1, <2>1, <3>2
        <4> QED  BY <1>6, <2>1, <3>2, <4>1 DEF MirrorInv, Mirrored
      <3> QED  BY <3>1, <3>2
    <2> QED  BY <2>3, <2>4 DEF MirrorInv
  <1> QED  BY <1>6, <1>8, <1>9, <1>14, <1>15 DEF PoolInv

\* Putting null blocks into tables changes nothing else.
NulledBy(tables, hit, new) ==
    /\ new \in [Requests -> Seq(Pages)]
    /\ \A q \in Requests :
          /\ Len(new[q]) = Len(tables[q]) /\ DOMAIN new[q] = DOMAIN tables[q]
          /\ \A i \in DOMAIN tables[q] :
                new[q][i] = IF \E e \in hit : e.ref = <<q, i>> THEN NullPage ELSE tables[q][i]

LEMMA NulledForm ==
    ASSUME NEW tables \in [Requests -> Seq(Pages)], NEW hit
    PROVE  NulledBy(tables, hit, Nulled(tables, hit))
  <1> DEFINE new == Nulled(tables, hit)
  <1>1. new = [q \in Requests |-> [i \in DOMAIN tables[q] |->
                 IF \E e \in hit : e.ref = <<q, i>> THEN NullPage ELSE tables[q][i]]]
    BY DEF Nulled
  <1>2. NullPage \in Pages
    BY PoolAssumption DEF NullPage, Pages
  <1>3. ASSUME NEW q \in Requests
        PROVE  /\ new[q] \in Seq(Pages)
               /\ Len(new[q]) = Len(tables[q]) /\ DOMAIN new[q] = DOMAIN tables[q]
               /\ \A i \in DOMAIN tables[q] :
                     new[q][i] = IF \E e \in hit : e.ref = <<q, i>> THEN NullPage ELSE tables[q][i]
    <2>1. PICK t : t = tables[q] /\ t \in Seq(Pages)
      OBVIOUS
    <2>2. PICK n \in Nat : n = Len(t) /\ DOMAIN t = 1 .. n /\ \A i \in 1 .. n : t[i] \in Pages
      BY <2>1, LenProperties, ElementOfSeq
    <2>3. new[q] = [i \in 1 .. n |-> IF \E e \in hit : e.ref = <<q, i>> THEN NullPage ELSE t[i]]
      BY <1>1, <2>1, <2>2
    <2>4. new[q] \in [1 .. n -> Pages]
      BY <1>2, <2>2, <2>3
    <2>5. new[q] \in Seq(Pages) /\ Len(new[q]) = n
      BY <2>4, FunctionSeq
    <2> QED  BY <2>1, <2>2, <2>3, <2>5
  <1> HIDE DEF new
  <1>4. NulledBy(tables, hit, new)
    BY <1>1, <1>3 DEF NulledBy
  <1> QED  BY <1>4 DEF new

\* The blocks whose stores have completed give their pages back, each one reference:
\* the page of an entry is the one the table still has there.
LEMMA SurgeryLetsGo ==
    ASSUME PoolInv, NEW done, done \subseteq acc \cup fresh \cup old, Surgery(done), tail' = tail,
           NEW hit, hit = Reclaimable(done), NEW pages, pages = {e.page : e \in hit},
           NEW R, R = {e.ref : e \in hit}
    PROVE  /\ \E blocks : LetGo(R, Evict(pool, pages), blocks)
           /\ \A p \in pages : p # NullPage => Holders(p) # {}
           /\ R \subseteq Refs /\ \A r \in R : r \in Holders(NullPage)' /\ r[2] \in DOMAIN table[r[1]]
           /\ \A r \in Refs : r \notin R /\ r[2] \in DOMAIN table[r[1]] => table'[r[1]][r[2]] = table[r[1]][r[2]]
           /\ \A q \in Requests : /\ table'[q] \in Seq(Pages) /\ Len(table'[q]) = Len(table[q])
                                  /\ table[q] = <<>> => table'[q] = <<>>
                                  /\ DOMAIN table'[q] = DOMAIN table[q]
  <1>1. table' = [q \in Requests |-> [i \in DOMAIN table[q] |->
                    IF \E e \in hit : e.ref = <<q, i>> THEN NullPage ELSE table[q][i]]]
    BY DEF Surgery, Nulled
  <1>2. PICK s \in PagesOf(hit) : pool' = FreeBlocks(Evict(pool, pages), s)
    BY DEF Surgery
  <1>3. PoolTyped /\ Booked /\ QueueInv
    BY DEF PoolInv
  <1>4. \A e \in hit : /\ e.ref \in Refs /\ e.page \in Pages /\ e = [ref |-> e.ref, page |-> e.page]
                       /\ e.ref[2] \in DOMAIN table[e.ref[1]] /\ table[e.ref[1]][e.ref[2]] = e.page
    <2>1. acc \cup fresh \cup old \subseteq [ref : Refs, page : Pages]
      BY <1>3 DEF PoolTyped, ConnTyped
    <2> QED  BY <2>1 DEF Reclaimable
  <1>5. ASSUME NEW q \in Requests
        PROVE  /\ table'[q] \in Seq(Pages) /\ Len(table'[q]) = Len(table[q])
               /\ table[q] = <<>> => table'[q] = <<>>
               /\ DOMAIN table'[q] = DOMAIN table[q]
               /\ \A i \in DOMAIN table[q] :
                     table'[q][i] = IF \E e \in hit : e.ref = <<q, i>> THEN NullPage ELSE table[q][i]
    <2>1. PICK t : t = table[q] /\ t \in Seq(Pages) /\ Len(t) \in Nat /\ DOMAIN t = 1 .. Len(t)
                   /\ \A i \in DOMAIN t : t[i] \in Pages
      BY <1>3, TableForm
    <2>2. PICK n \in Nat : n = Len(t) /\ DOMAIN t = 1 .. n
      BY <2>1
    <2>3. table'[q] = [i \in 1 .. n |-> IF \E e \in hit : e.ref = <<q, i>> THEN NullPage ELSE t[i]]
      BY <1>1, <2>1, <2>2
    <2>4. NullPage \in Pages
      BY PoolAssumption DEF NullPage, Pages
    <2>5. table'[q] \in [1 .. n -> Pages]
      BY <2>1, <2>2, <2>3, <2>4
    <2>6. table'[q] \in Seq(Pages) /\ Len(table'[q]) = n
      BY <2>5, FunctionSeq
    <2>7. table[q] = <<>> => table'[q] = <<>>
      <3>1. table[q] = <<>> => n = 0
        BY <2>1, <2>2
      <3> QED  BY <2>6, <3>1, EmptySeq
    <2> QED  BY <2>1, <2>2, <2>3, <2>6, <2>7
  <1>6. R \subseteq Refs
    BY <1>4
  <1>7. ASSUME NEW r \in Refs, r[2] \in DOMAIN table[r[1]]
        PROVE  table'[r[1]][r[2]] = IF r \in R THEN NullPage ELSE table[r[1]][r[2]]
    <2>1. r[1] \in Requests /\ r = <<r[1], r[2]>>
      BY RefForm
    <2>2. r \in R <=> \E e \in hit : e.ref = <<r[1], r[2]>>
      BY <2>1
    <2> QED  BY <1>5, <1>7, <2>1, <2>2
  <1>8. \A r \in Refs : DOMAIN table'[r[1]] = DOMAIN table[r[1]]
    BY <1>5, RefForm
  <1>9. \A r \in R : r[2] \in DOMAIN table[r[1]] /\ r \in Holders(NullPage)'
    <2> SUFFICES ASSUME NEW r \in R PROVE r[2] \in DOMAIN table[r[1]] /\ r \in Holders(NullPage)'
      OBVIOUS
    <2>1. r \in Refs /\ r[2] \in DOMAIN table[r[1]]
      BY <1>4
    <2>2. table'[r[1]][r[2]] = NullPage /\ r[2] \in DOMAIN table'[r[1]]
      BY <1>7, <1>8, <2>1
    <2> QED  BY <2>1, <2>2, HoldersForm2
  <1>10. ASSUME NEW p \in Pages \ {NullPage} PROVE Holders(p)' = Holders(p) \ R
    BY <1>7, <1>8, HoldersForm, HoldersForm2
  <1>11. \A e, d \in hit : e.ref = d.ref => e = d
    BY <1>4
  <1>12. IsFiniteSet(hit)
    <2> DEFINE g == [e \in hit |-> e.ref]
    <2>1. g \in Injection(hit, Refs)
      BY <1>4, <1>11 DEF Injection, IsInjective
    <2> HIDE DEF g
    <2> QED  BY <2>1, RefForm, FS_Injection
  <1>13. PICK n \in Nat : n = Cardinality(hit)
    BY <1>12, FS_CardinalityType
  <1>14. PICK f \in [1 .. n -> hit] : Entries(f) = hit /\ s = [i \in DOMAIN f |-> f[i].page]
    BY <1>2, <1>13 DEF PagesOf
  <1>15. f \in Injection(1 .. n, hit) /\ f \in Surjection(1 .. n, hit)
    <2>1. f \in Surjection(1 .. n, hit)
      BY <1>14 DEF Surjection, Entries
    <2>2. IsFiniteSet(1 .. n) /\ Cardinality(1 .. n) = n
      BY FS_Interval
    <2> QED  BY <1>13, <2>1, <2>2, FS_SurjSameCardinalityImpliesInj
  <1>16. DOMAIN s = 1 .. n /\ s \in Seq(Pages) /\ \A i \in 1 .. n : s[i] = f[i].page
    <2>1. s \in [1 .. n -> Pages] /\ \A i \in 1 .. n : s[i] = f[i].page
      BY <1>4, <1>14
    <2> QED  BY <2>1, FunctionSeq
  <1>17. ASSUME NEW p \in Pages \ {NullPage} PROVE Times(s, p) = Cardinality(Holders(p) \cap R)
    <2>1. PICK T : T = {i \in 1 .. n : s[i] = p}
      OBVIOUS
    <2> DEFINE g == [i \in T |-> f[i].ref]
    <2>2. ASSUME NEW i \in T PROVE /\ i \in 1 .. n /\ f[i] \in hit /\ f[i].page = p
                                   /\ g[i] = f[i].ref /\ g[i] \in Holders(p) \cap R
      <3>1. i \in 1 .. n /\ f[i] \in hit /\ f[i].page = p
        BY <1>14, <1>16, <2>1
      <3>2. PICK e \in hit : e = f[i] /\ e.page = p
        BY <3>1
      <3>3. e.ref \in Holders(p) /\ e.ref \in R
        BY <1>4, <3>2, HoldersForm
      <3> QED  BY <3>1, <3>2, <3>3
    <2>3. \A i, j \in T : g[i] = g[j] => i = j
      <3> SUFFICES ASSUME NEW i \in T, NEW j \in T, g[i] = g[j] PROVE i = j
        OBVIOUS
      <3>1. f[i] = f[j] /\ i \in 1 .. n /\ j \in 1 .. n
        BY <1>11, <2>2
      <3> QED  BY <1>15, <3>1 DEF Injection, IsInjective
    <2>4. ASSUME NEW r \in Holders(p) \cap R PROVE \E i \in T : g[i] = r
      <3>1. PICK e \in hit : e.ref = r
        OBVIOUS
      <3>2. e.page = p
        BY <1>4, <3>1, HoldersForm
      <3>3. PICK i \in 1 .. n : f[i] = e
        BY <1>15 DEF Surjection
      <3>4. i \in T
        BY <1>16, <2>1, <3>2, <3>3
      <3> QED  BY <2>2, <3>1, <3>3, <3>4
    <2>5. g \in Bijection(T, Holders(p) \cap R)
      <3>1. g \in [T -> Holders(p) \cap R]
        BY <2>2
      <3> HIDE DEF g
      <3> QED  BY <2>3, <2>4, <3>1 DEF Bijection, Injection, Surjection, IsInjective
    <2>6. IsFiniteSet(T)
      <3>1. IsFiniteSet(1 .. n) /\ T \in SUBSET (1 .. n)
        BY <2>1, FS_Interval
      <3> QED  BY <3>1, FS_Subset
    <2>7. ExistsBijection(T, Holders(p) \cap R)
      BY <2>5 DEF ExistsBijection
    <2>8. Cardinality(Holders(p) \cap R) = Cardinality(T)
      BY <2>6, <2>7, FS_Bijection
    <2> QED  BY <1>16, <2>1, <2>8 DEF Times
  <1>18. \A p \in pages : p # NullPage => Holders(p) # {}
    BY <1>4, HoldersForm
  <1>19. PICK pl : pl = Evict(pool, pages)
    OBVIOUS
  <1>20. /\ pl \in PoolRecords /\ pl.ref = pool.ref /\ pl.free = pool.free
         /\ \A p \in Pages : pl.hash[p] = IF p \in pages THEN NoKey ELSE pool.hash[p]
    <2>1. pool \in PoolRecords
      BY <1>3 DEF PoolTyped
    <2> QED  BY ONLY <1>19, <2>1, EvictFields
  <1>21. Queued(pl)
    <2>1. PICK free : free = pool.free /\ free \in Seq(Pages)
      BY <1>3, PoolFields DEF PoolTyped
    <2>2. /\ Entries(free) = {p \in Pages \ {NullPage} : pool.ref[p] = 0}
          /\ Distinct(free) /\ HashedLast(free, pool.hash)
      BY <1>3, <2>1 DEF QueueInv, Queued
    <2>3. ASSUME NEW p \in Entries(free) PROVE p \notin pages
      <3> SUFFICES ASSUME p \in pages PROVE FALSE
        OBVIOUS
      <3>1. p \in Pages \ {NullPage} /\ pool.ref[p] = 0 /\ Holders(p) # {}
        BY <1>18, <2>2
      <3>2. Cardinality(Holders(p)) \in Nat /\ Cardinality(Holders(p)) # 0
        BY <3>1, HoldersForm, FS_EmptySet
      <3>3. pool.ref[p] = Cardinality(Holders(p)) + (IF p \in tail THEN 1 ELSE 0)
        BY <1>3, <3>1 DEF QueueInv, Counted
      <3> QED  BY <3>1, <3>2, <3>3
    <2>4. \A p \in Entries(free) : pl.hash[p] = pool.hash[p]
      BY <1>20, <2>2, <2>3
    <2>5. InOrderOf(free, free)
      BY DEF InOrderOf
    <2>6. HashedLast(free, pl.hash)
      BY <2>2, <2>4, <2>5, StillHashedLast
    <2> QED  BY <1>20, <2>1, <2>2, <2>6 DEF Queued
  <1>22. LetGo(R, pl, s)
    BY <1>2, <1>10, <1>16, <1>17, <1>19, <1>20, <1>21 DEF LetGo
  <1> QED  BY <1>5, <1>6, <1>7, <1>9, <1>18, <1>19, <1>22

LEMMA ReportKeeps == ASSUME PoolInv, NEW now \in BOOLEAN, Report(now) PROVE PoolInv'
  <1>1. /\ pc = "update" /\ pc' = "sched" /\ fresh' = {} /\ sched' = [q \in Requests |-> 0]
        /\ old' \subseteq fresh
        /\ UNCHANGED <<kv, status, nCached, computed, total, unseen, harmed, mishaps, todo>>
        /\ UNCHANGED <<tail, loc, complete, prefillDone, copy, acc>>
    BY DEF Report
  <1>2. PICK done : done \subseteq acc \cup fresh \cup old /\ Surgery(done)
    BY DEF Report
  <1>3. PICK hit, pages, R : hit = Reclaimable(done) /\ pages = {e.page : e \in hit} /\ R = {e.ref : e \in hit}
    BY Zenon
  <1>4. PoolTyped /\ Booked /\ QueueInv /\ HashInv /\ ContentInv /\ ConnInv
    BY DEF PoolInv
  <1>5. TablesTyped /\ ConnTyped /\ pool \in PoolRecords
    BY <1>4 DEF PoolTyped
  <1>6. /\ \E blocks : LetGo(R, Evict(pool, pages), blocks)
        /\ R \subseteq Refs /\ \A r \in R : r \in Holders(NullPage)' /\ r[2] \in DOMAIN table[r[1]]
        /\ \A r \in Refs : r \notin R /\ r[2] \in DOMAIN table[r[1]] => table'[r[1]][r[2]] = table[r[1]][r[2]]
        /\ \A q \in Requests : /\ table'[q] \in Seq(Pages) /\ Len(table'[q]) = Len(table[q])
                               /\ table[q] = <<>> => table'[q] = <<>>
                               /\ DOMAIN table'[q] = DOMAIN table[q]
    BY <1>1, <1>2, <1>3, SurgeryLetsGo
  <1>7. PICK blocks : LetGo(R, Evict(pool, pages), blocks)
    BY <1>6
  <1>8. PICK pl : pl = Evict(pool, pages)
    OBVIOUS
  <1>9. pool' \in PoolRecords /\ pool'.hash = pl.hash /\ pool'.cache = pl.cache /\ QueueInv'
    <2>1. LetGo(R, pl, blocks)
      BY <1>7, <1>8
    <2> QED  BY <2>1, LetGoCounted
  <1>10. /\ pl \in PoolRecords /\ pl.ref = pool.ref /\ pl.free = pool.free
         /\ \A p \in Pages : pl.hash[p] = IF p \in pages THEN NoKey ELSE pool.hash[p]
         /\ \A k \in Keys : Entries(pl.cache[k]) = Entries(pool.cache[k]) \ pages
    <2>1. pool \in PoolRecords
      BY <1>5
    <2> QED  BY ONLY <1>8, <2>1, EvictFields
  <1>11. table' = [q \in Requests |-> table'[q]]
    <2>1. table' = [q \in Requests |-> [i \in DOMAIN table[q] |->
                      IF \E e \in hit : e.ref = <<q, i>> THEN NullPage ELSE table[q][i]]]
      BY <1>2, <1>3 DEF Surgery, Nulled
    <2> QED  BY <2>1
  <1>20. reqTable' = Nulled(reqTable, hit) /\ table' = Nulled(table, hit)
    BY <1>2, <1>3 DEF Surgery
  <1>21. /\ reqTable' \in [Requests -> Seq(Pages)]
         /\ \A q \in Requests :
               /\ Len(reqTable'[q]) = Len(reqTable[q]) /\ DOMAIN reqTable'[q] = DOMAIN reqTable[q]
               /\ \A i \in DOMAIN reqTable[q] :
                     reqTable'[q][i] = IF \E e \in hit : e.ref = <<q, i>> THEN NullPage ELSE reqTable[q][i]
    <2>1. reqTable \in [Requests -> Seq(Pages)]
      BY <1>5 DEF ConnTyped
    <2>2. NulledBy(reqTable, hit, Nulled(reqTable, hit))
      BY <2>1, NulledForm
    <2>3. NulledBy(reqTable, hit, reqTable')
      BY <1>20, <2>2
    <2> QED  BY <2>3 DEF NulledBy
  <1>12. PoolTyped'
    <2>1. table' \in [Requests -> Seq(Pages)]
      BY <1>6, <1>11
    <2>2. sched' \in [Requests -> 0 .. MaxChunk]
      BY <1>1, PoolAssumption
    <2>3. TablesTyped'
      BY <1>1, <1>5, <2>1, <2>2 DEF TablesTyped
    <2>4. ConnTyped'
      BY <1>1, <1>5, <1>21 DEF ConnTyped
    <2> QED  BY <1>1, <1>4, <1>9, <2>3, <2>4 DEF PoolTyped
  <1>13. \A q \in Requests : Reach(q)' = Reach(q) /\ sched'[q] = 0
    BY <1>1, <1>5 DEF Reach, TablesTyped
  <1>14. Booked'
    BY <1>1, <1>4, <1>6, <1>13, <1>21 DEF Booked
  <1>15. \A p \in Pages \ {NullPage} : Holders(p)' = Holders(p) \ R
    BY <1>7 DEF LetGo
  <1>16. Shrunk
    <2>1. ASSUME NEW p \in Pages \ {NullPage}
          PROVE  /\ Holders(p)' \subseteq Holders(p)
                 /\ \A r \in Holders(p)' : Reach(r[1])' = Reach(r[1]) /\ computed'[r[1]] = computed[r[1]]
      BY <1>1, <1>13, <1>15, HoldersForm2, RefForm
    <2>2. ASSUME NEW p, NEW k, Good(p, k) PROVE Good(p, k)'
      BY <1>1, <2>2 DEF Good, Pending
    <2>3. \A p \in Pages : pool'.hash[p] \in {NoKey, pool.hash[p]}
      BY <1>9, <1>10
    <2>4. ASSUME NEW k \in Keys, NEW p \in Entries(pool'.cache[k])
          PROVE  p \in Entries(pool.cache[k]) /\ pool'.hash[p] = pool.hash[p]
      <3>1. p \in Entries(pool.cache[k]) /\ p \notin pages
        BY <1>9, <1>10
      <3>2. pool.cache[k] \in Seq(Pages)
        BY <1>5, PoolFields
      <3>3. p \in Pages
        BY <3>1, <3>2, DistinctLen
      <3> QED  BY <1>9, <1>10, <3>1, <3>3
    <2> QED  BY <1>1, <2>1, <2>2, <2>3, <2>4 DEF Shrunk
  <1>17. HashInv' /\ ContentInv'
    BY <1>16, ShrunkKeeps
  <1>18. ASSUME NEW r \in R PROVE loc[r] = OnCpu
    <2>1. PICK e \in acc \cup fresh \cup old : e.ref = r
      BY <1>2, <1>3 DEF Reclaimable
    <2>2. r \in Refs /\ r[1] \in Requests /\ r[2] \in DOMAIN table[r[1]]
      BY <1>6, RefForm
    <2>3. status[r[1]] # "finished"
      <3>1. table[r[1]] # <<>>
        BY <2>2
      <3> QED  BY <1>4, <2>2, <3>1 DEF Booked
    <2> QED  BY <1>4, <2>1, <2>3 DEF ConnInv, StoresListed
  <1>19. ConnInv'
    <2>1. NullMeansOffloaded'
      <3> SUFFICES ASSUME NEW r \in Holders(NullPage)' PROVE loc'[r] = OnCpu
        BY DEF NullMeansOffloaded
      <3>1. CASE r \in R
        BY <1>1, <1>18, <3>1
      <3>2. CASE r \notin R
        <4>1. r \in Refs /\ r[2] \in DOMAIN table'[r[1]] /\ table'[r[1]][r[2]] = NullPage
          BY HoldersForm2
        <4>2. r[2] \in DOMAIN table[r[1]]
          BY <1>6, <4>1, RefForm
        <4>3. r \in Holders(NullPage)
          BY <1>6, <3>2, <4>1, <4>2, HoldersForm
        <4> QED  BY <1>1, <1>4, <4>3 DEF ConnInv, NullMeansOffloaded
      <3> QED  BY <3>1, <3>2
    <2>2. StoresListed'
      BY <1>1, <1>4 DEF ConnInv, StoresListed
    <2>3. Located'
      <3> SUFFICES ASSUME NEW r \in Refs, r[1] \notin harmed', loc'[r] \in Pages
                   PROVE  /\ r[2] <= Len(reqTable'[r[1]]) /\ r \in Holders(loc[r])'
                          /\ r \in complete' => Filled(r[2], computed'[r[1]])
        BY DEF Located, Filled
      <3>1. r \notin R
        BY <1>1, <1>18, PoolAssumption DEF Pages, OnCpu
      <3>2. /\ r[2] <= Len(reqTable[r[1]]) /\ r \in Holders(loc[r])
            /\ r \in complete => Filled(r[2], computed[r[1]])
        BY <1>1, <1>4 DEF ConnInv, Located
      <3>3. r[2] \in DOMAIN table[r[1]] /\ table[r[1]][r[2]] = loc[r] /\ r[1] \in Requests
        BY <3>2, RefForm DEF Holders
      <3>4. r[2] \in DOMAIN table'[r[1]] /\ table'[r[1]][r[2]] = loc'[r]
        BY <1>1, <1>6, <3>1, <3>3
      <3>5. r \in Holders(loc[r])'
        BY <3>4 DEF Holders
      <3> QED  BY <1>1, <1>21, <3>2, <3>3, <3>5
    <2>4. CopiesHoldOwn'
      BY <1>1, <1>4 DEF ConnInv, CopiesHoldOwn
    <2> QED  BY <2>1, <2>2, <2>3, <2>4 DEF ConnInv
  <1>22. MirrorInv'
    <2>1. MirrorInv /\ \A q \in Requests : unseen[q] \in Nat
      BY <1>5 DEF PoolInv, TablesTyped
    <2>2. \A q \in Requests : ~(unseen[q] > 0)
      BY <1>1, <2>1 DEF MirrorInv, Listed
    <2>3. Listed'
      BY <1>1, <1>6, <2>1, <2>2 DEF MirrorInv, Listed
    <2>4. Mirrored'
      <3> SUFFICES ASSUME NEW u \in Requests, u \notin harmed
                   PROVE  /\ Len(reqTable'[u]) + unseen[u] = Len(table'[u])
                          /\ \A i \in DOMAIN reqTable'[u] : reqTable'[u][i] = table'[u][i]
        BY <1>1 DEF Mirrored
      <3>1. /\ Len(reqTable[u]) + unseen[u] = Len(table[u])
            /\ \A i \in DOMAIN reqTable[u] : reqTable[u][i] = table[u][i]
        BY <2>1 DEF MirrorInv, Mirrored
      <3>2. \A i \in DOMAIN reqTable[u] : i \in DOMAIN table[u]
        <4>1. reqTable[u] \in Seq(Pages) /\ table[u] \in Seq(Pages)
          BY <1>5 DEF TablesTyped, ConnTyped
        <4>2. /\ Len(reqTable[u]) \in Nat /\ DOMAIN reqTable[u] = 1 .. Len(reqTable[u])
              /\ Len(table[u]) \in Nat /\ DOMAIN table[u] = 1 .. Len(table[u])
          BY <4>1, LenProperties
        <4> QED  BY <2>1, <3>1, <4>2
      <3>3. table' = [q \in Requests |-> [i \in DOMAIN table[q] |->
                        IF \E e \in hit : e.ref = <<q, i>> THEN NullPage ELSE table[q][i]]]
        BY <1>20 DEF Nulled
      <3>4. \A i \in DOMAIN table[u] :
               table'[u][i] = IF \E e \in hit : e.ref = <<u, i>> THEN NullPage ELSE table[u][i]
        BY <3>3
      <3> QED  BY <1>6, <1>21, <3>1, <3>2, <3>4, ZenonT(40)
    <2> QED  BY <2>3, <2>4 DEF MirrorInv
  <1> QED  BY <1>9, <1>12, <1>14, <1>17, <1>19, <1>22 DEF PoolInv

-----------------------------------------------------------------------------
(* Blocks that get pages *)

\* Whole pages: one page more is PageSize tokens more.
LEMMA PageSteps ==
    ASSUME NEW a \in Nat, NEW b \in Nat
    PROVE  /\ a * PageSize \in Nat
           /\ a <= b => a * PageSize <= b * PageSize
           /\ a < b => a * PageSize + PageSize <= b * PageSize
  <1>0. PICK z \in Nat : z = PageSize /\ z # 0
    BY PoolAssumption
  <1>1. a * z \in Nat /\ b * z \in Nat
    OBVIOUS
  <1>2. ASSUME a < b PROVE a * z + z <= b * z
    <2>1. PICK d \in Nat : b = a + 1 + d
      <3>1. b - a - 1 \in Nat /\ b = a + 1 + (b - a - 1)
        BY <1>2
      <3> QED  BY <3>1
    <2>2. b * z = a * z + z + d * z
      BY <2>1
    <2>3. d * z \in Nat
      OBVIOUS
    <2> QED  BY <1>1, <2>2, <2>3
  <1>3. ASSUME a <= b PROVE a * z <= b * z
    <2>1. CASE a = b
      BY <1>1, <2>1
    <2>2. CASE a < b
      BY <1>1, <1>2, <2>2
    <2> QED  BY <1>3, <2>1, <2>2
  <1> QED  BY <1>0, <1>1, <1>2, <1>3

\* The blocks of some tokens, and those of them that the tokens fill.
LEMMA BlockCounts ==
    ASSUME NEW x \in Nat
    PROVE  /\ BlocksFor(x) \in Nat /\ x <= BlocksFor(x) * PageSize
           /\ \A m \in Nat : x <= m * PageSize => BlocksFor(x) <= m
           /\ x \div PageSize \in Nat /\ x \div PageSize <= BlocksFor(x)
           /\ \A i \in Nat : i <= x \div PageSize => Filled(i, x)
  <1>0. PICK z \in Nat : z = PageSize /\ z # 0
    BY PoolAssumption
  <1>1. PICK b \in Nat : b = BlocksFor(x) /\ b * z \in Nat /\ x <= b * z /\ b * z < x + z
    BY <1>0 DEF BlocksFor
  <1>2. PICK f \in Nat : f = x \div z /\ f * z \in Nat /\ f * z <= x
    BY <1>0
  <1>3. ASSUME NEW m \in Nat, x <= m * z PROVE b <= m
    <2> SUFFICES ASSUME m < b PROVE FALSE
      OBVIOUS
    <2>1. m * z + z <= b * z /\ m * z \in Nat
      BY <1>0, PageSteps
    <2> QED  BY <1>1, <1>3, <2>1
  <1>4. f <= b
    <2> SUFFICES ASSUME b < f PROVE FALSE
      OBVIOUS
    <2>1. b * z + z <= f * z
      BY <1>0, PageSteps
    <2> QED  BY <1>0, <1>1, <1>2, <2>1
  <1>5. ASSUME NEW i \in Nat, i <= f PROVE i * z <= x
    <2>1. i * z <= f * z /\ i * z \in Nat
      BY <1>0, <1>5, PageSteps
    <2> QED  BY <1>2, <2>1
  <1> QED  BY <1>0, <1>1, <1>2, <1>3, <1>4, <1>5 DEF Filled

\* find_longest_cache_hit returns pages that the map has under the keys of the request.
LEMMA HitsForm ==
    ASSUME PoolInv, NEW q \in Requests, NEW hits, hits = Hits(q)
    PROVE  /\ hits \in Seq(Pages) /\ Len(hits) <= Len(KeyOf[q])
           /\ \A i \in 1 .. Len(hits) : hits[i] \in Entries(pool.cache[KeyOf[q][i]])
  <1>1. PoolTyped
    BY DEF PoolInv
  <1>2. PICK l \in Nat : l = Len(KeyOf[q])
    BY RefForm
  <1>3. PICK lim \in Nat : lim = Smaller((total[q] - 1) \div PageSize, Len(KeyOf[q])) /\ lim <= l
    <2>1. total[q] \in Nat /\ total[q] # 0
      BY <1>1 DEF PoolTyped, TablesTyped
    <2>2. (total[q] - 1) \div PageSize \in Nat
      <3>1. total[q] - 1 \in Nat
        BY <2>1
      <3> QED  BY <3>1, BlockCounts
    <2> QED  BY <1>2, <2>2 DEF Smaller
  <1> DEFINE hit(n) == \A i \in 1 .. n : pool.cache[KeyOf[q][i]] # <<>>
             m == CHOOSE n \in 0 .. lim : hit(n) /\ (n < lim => ~hit(n + 1))
  <1>4. hits = [i \in 1 .. m |-> Head(pool.cache[KeyOf[q][i]])]
    BY <1>3, Zenon DEF Hits
  <1>5. \E n \in 0 .. lim : hit(n) /\ (n < lim => ~hit(n + 1))
    <2>1. PICK T : T = {n \in 0 .. lim : n < lim => ~hit(n + 1)}
      OBVIOUS
    <2>2. lim \in T /\ T \in SUBSET Nat
      BY <2>1
    <2>3. PICK n \in T : \A x \in T : n <= x
      BY <2>2, LeastElement
    <2>4. n \in 0 .. lim /\ (n < lim => ~hit(n + 1))
      BY <2>1
    <2>5. ASSUME NEW i \in 1 .. n PROVE pool.cache[KeyOf[q][i]] # <<>>
      <3> SUFFICES ASSUME pool.cache[KeyOf[q][i]] = <<>> PROVE FALSE
        OBVIOUS
      <3>1. i - 1 \in 0 .. lim /\ (i - 1) + 1 = i /\ i \in 1 .. i /\ ~(n <= i - 1)
        BY <2>4
      <3>2. ~hit((i - 1) + 1)
        BY <3>1
      <3>3. i - 1 \in T
        BY <2>1, <3>1, <3>2
      <3> QED  BY <2>3, <3>1, <3>3
    <2> QED  BY <2>4, <2>5
  <1>6. m \in 0 .. lim /\ hit(m)
    BY <1>5, Zenon
  <1> HIDE DEF m
  <1>7. ASSUME NEW i \in 1 .. m
        PROVE  /\ hits[i] \in Pages /\ hits[i] \in Entries(pool.cache[KeyOf[q][i]])
               /\ i \in 1 .. Len(KeyOf[q])
    <2>1. i \in 1 .. Len(KeyOf[q])
      BY <1>2, <1>3, <1>6
    <2>2. KeyOf[q][i] \in Keys
      BY <2>1, RefForm, ElementOfSeq
    <2>3. PICK c : c = pool.cache[KeyOf[q][i]] /\ c \in Seq(Pages) /\ c # <<>>
      BY <1>1, <1>6, <2>2, PoolFields DEF PoolTyped
    <2>4. Head(c) \in Pages /\ Head(c) = c[1] /\ 1 \in DOMAIN c
      BY <2>3, TailIndices
    <2>5. hits[i] = Head(c)
      BY <1>4, <2>3
    <2> QED  BY <2>1, <2>3, <2>4, <2>5 DEF Entries
  <1>8. m \in Nat /\ hits \in [1 .. m -> Pages]
    BY <1>4, <1>6, <1>7
  <1>9. hits \in Seq(Pages) /\ Len(hits) = m
    BY <1>8, FunctionSeq
  <1> QED  BY <1>2, <1>3, <1>6, <1>7, <1>9

\* allocate_slots for a request that has no tokens in this step yet: either it has no
\* page and starts with its cache hits, or it goes on where it is.
Allocates(q, hits, done, n) ==
    /\ AllocateSlots(q, hits, done, n)
    /\ pc = "sched" /\ status[q] # "finished" /\ sched[q] = 0
    /\ n \in 1 .. MaxChunk /\ done \in Nat /\ computed[q] <= done
    /\ hits \in Seq(Pages) /\ Len(hits) <= Len(KeyOf[q])
    /\ \A i \in 1 .. Len(hits) : hits[i] \in Entries(pool.cache[KeyOf[q][i]])
    /\ (table[q] = <<>> /\ nCached[q] = 0) \/ (hits = <<>> /\ done = computed[q])
    /\ Len(hits) * PageSize <= done /\ done <= (Len(table[q]) + Len(hits)) * PageSize

\* The table t of a request that had o pages: h of the new ones are cache hits, the
\* others come from the queue; the pages of the blocks C get the keys of the blocks.
GrownTable(q, o, h, t) ==
    /\ o \in Nat /\ h \in Nat /\ t \in Seq(Pages) /\ o + h <= Len(t) /\ Len(t) <= Len(KeyOf[q])
    /\ DOMAIN table[q] = 1 .. o /\ Len(table[q]) = o /\ \A i \in 1 .. o : t[i] = table[q][i]
    /\ \A i \in o + 1 .. o + h : t[i] \in Entries(pool.cache[KeyOf[q][i]])
    /\ \A i \in o + h + 1 .. Len(t) : t[i] # NullPage /\ pool.ref[t[i]] = 0
    /\ \A i, j \in o + 1 .. Len(t) : t[i] = t[j] => i = j

GrownQueue(o, t) ==
    /\ pool' \in PoolRecords
    /\ \A p \in Pages :
          pool'.ref[p] = pool.ref[p] + (IF p \in {t[i] : i \in o + 1 .. Len(t)} THEN 1 ELSE 0)
    /\ Entries(pool'.free) = Entries(pool.free) \ {t[i] : i \in o + 1 .. Len(t)}
    /\ Distinct(pool'.free) /\ InOrderOf(pool'.free, pool.free)

GrownHashes(q, o, h, t, C) ==
    /\ C \subseteq {i \in 1 .. Len(t) : t[i] # NullPage}
    /\ \A p \in Pages :
          \/ \E i \in C : t[i] = p /\ pool'.hash[p] = KeyOf[q][i]
          \/ /\ \A i \in C : t[i] # p
             /\ pool'.hash[p] = IF p \in {t[i] : i \in o + h + 1 .. Len(t)} THEN NoKey ELSE pool.hash[p]
    /\ \A k \in Keys : \A p \in Entries(pool'.cache[k]) :
          \/ p \in Entries(pool.cache[k]) \ {t[i] : i \in o + h + 1 .. Len(t)}
          \/ \E i \in C : t[i] = p /\ KeyOf[q][i] = k

LEMMA AllocateGrows ==
    ASSUME PoolInv, NEW q \in Requests, NEW hits, NEW done, NEW n, Allocates(q, hits, done, n)
    PROVE  \E o, h, t, C :
              /\ GrownTable(q, o, h, t) /\ GrownQueue(o, t) /\ GrownHashes(q, o, h, t, C)
              /\ \A i \in C : Filled(i, done + n)
              /\ table' = [table EXCEPT ![q] = t] /\ h = Len(hits)
              /\ done + n <= Len(t) * PageSize /\ done + n <= total[q]
              /\ nCached'[q] \in Nat /\ nCached'[q] <= Len(KeyOf[q])
              /\ unseen' = [unseen EXCEPT ![q] = Len(t) - o]
  <1>1. PoolTyped /\ Booked /\ QueueInv /\ HashInv
    BY DEF PoolInv
  <1>2. /\ pc = "sched" /\ n \in 1 .. MaxChunk /\ done \in Nat /\ sched[q] = 0
        /\ hits \in Seq(Pages) /\ Len(hits) <= Len(KeyOf[q])
        /\ \A i \in 1 .. Len(hits) : hits[i] \in Entries(pool.cache[KeyOf[q][i]])
        /\ (table[q] = <<>> /\ nCached[q] = 0) \/ (hits = <<>> /\ done = computed[q])
        /\ Len(hits) * PageSize <= done
    BY DEF Allocates
  <1>3. PICK o \in Nat, h \in Nat, l \in Nat : o = Len(table[q]) /\ h = Len(hits) /\ l = Len(KeyOf[q])
    BY <1>1, <1>2, TableForm, RefForm, LenProperties
  <1>4. /\ DOMAIN table[q] = 1 .. o /\ DOMAIN hits = 1 .. h /\ h <= l /\ o <= l /\ (o = 0 \/ h = 0)
        /\ table[q] \in Seq(Pages)
    BY <1>1, <1>2, <1>3, TableForm, LenProperties, EmptySeq DEF Booked
  <1>5. PICK x \in Nat : x = done + n
    BY <1>2, PoolAssumption
  <1>6. PICK need \in Nat : need = Larger(0, BlocksFor(done + n) - Len(table[q]) - Len(hits))
    <2>1. PICK b \in Nat : b = BlocksFor(done + n)
      BY <1>5, BlockCounts
    <2>2. Larger(0, b - o - h) \in Nat
      BY DEF Larger
    <2> QED  BY <1>3, <2>1, <2>2
  <1>7. PICK queued, touched, t, full, from :
          /\ queued = {p \in Entries(hits) : pool.ref[p] = 0}
          /\ touched = Touch(pool, Entries(hits))
          /\ t = table[q] \o hits \o SubSeq(touched.free, 1, need)
          /\ full = (done + n) \div PageSize
          /\ from = nCached[q] + Len(hits)
    BY Zenon
  <1>8. /\ need + Cardinality(queued) <= Len(pool.free)
        /\ done + n <= total[q]
        /\ pool' = CacheFullBlocks(GetNewBlocks(touched, need), q, t, from, full)
        /\ table' = [table EXCEPT ![q] = t]
        /\ nCached' = [nCached EXCEPT ![q] = Larger(from, full)]
    BY <1>6, <1>7 DEF Allocates, AllocateSlots
  \* The hits.
  <1>9. \A i \in 1 .. h : /\ hits[i] \in Pages \ {NullPage} /\ pool.hash[hits[i]] = KeyOf[q][i]
                          /\ i \in 1 .. Len(KeyOf[q])
    <2> SUFFICES ASSUME NEW i \in 1 .. h
                 PROVE  /\ hits[i] \in Pages \ {NullPage} /\ pool.hash[hits[i]] = KeyOf[q][i]
                        /\ i \in 1 .. Len(KeyOf[q])
      OBVIOUS
    <2>1. i \in 1 .. Len(KeyOf[q])
      BY <1>3, <1>4
    <2>2. KeyOf[q][i] \in Keys
      BY <2>1, RefForm, ElementOfSeq
    <2>3. hits[i] \in Pages
      BY <1>2, <1>3, ElementOfSeq
    <2> QED  BY <1>1, <1>2, <1>3, <2>1, <2>2, <2>3 DEF HashInv, CacheMarked
  <1>10. Distinct(hits)
    <2> SUFFICES ASSUME NEW i \in 1 .. h, NEW j \in 1 .. h, hits[i] = hits[j] PROVE i = j
      BY <1>4, Zenon DEF Distinct
    <2>1. KeyOf[q][i] = KeyOf[q][j] /\ i \in 1 .. Len(KeyOf[q]) /\ j \in 1 .. Len(KeyOf[q])
      BY <1>9
    <2>2. /\ <<q, i>> \in Refs /\ <<q, i>>[2] = i /\ Key(<<q, i>>) = KeyOf[q][i]
          /\ <<q, j>> \in Refs /\ <<q, j>>[2] = j /\ Key(<<q, j>>) = KeyOf[q][j]
      BY <2>1, RefForm
    <2> QED  BY <2>1, <2>2, RefForm
  <1>11. PICK H : H = Entries(hits) /\ IsFiniteSet(H) /\ H \subseteq Pages \ {NullPage}
    <2>1. IsFiniteSet(Entries(hits))
      BY <1>2, DistinctLen
    <2>2. Entries(hits) \subseteq Pages \ {NullPage}
      BY <1>4, <1>9 DEF Entries
    <2> QED  BY <2>1, <2>2
  \* The queue without them is long enough.
  <1>12. PICK free : /\ free = pool.free /\ free \in Seq(Pages) /\ Distinct(free)
                     /\ Entries(free) = {p \in Pages \ {NullPage} : pool.ref[p] = 0}
    BY <1>1, PoolFields DEF PoolTyped, QueueInv, Queued
  <1>13. /\ touched \in PoolRecords /\ touched.hash = pool.hash /\ touched.cache = pool.cache
         /\ \A p \in Pages : touched.ref[p] = pool.ref[p] + (IF p \in H THEN 1 ELSE 0)
         /\ touched.free = Without(pool.free, H)
    <2>1. pool \in PoolRecords /\ touched = Touch(pool, H)
      BY <1>1, <1>7, <1>11 DEF PoolTyped
    <2> QED  BY ONLY <2>1, TouchFields
  <1>14. PICK rest : /\ rest = touched.free /\ rest \in Seq(Pages) /\ Entries(rest) = Entries(free) \ H
                     /\ Distinct(rest) /\ InOrderOf(rest, free)
    <2>1. PICK rest : rest = touched.free /\ rest = Without(free, H)
      BY <1>12, <1>13
    <2>2. /\ rest \in Seq(Pages) /\ Entries(rest) = Entries(free) \ H
          /\ (Distinct(free) => Distinct(rest)) /\ InOrderOf(rest, free)
      BY <1>12, <2>1, WithoutEntries
    <2> QED  BY <1>12, <2>1, <2>2
  <1>15. PICK m \in Nat : m = Len(rest) /\ DOMAIN rest = 1 .. m /\ need <= m
    <2>1. Len(rest) = Cardinality(Entries(rest)) /\ Len(rest) \in Nat /\ DOMAIN rest = 1 .. Len(rest)
      BY <1>14, DistinctLen, LenProperties
    <2>2. Len(free) = Cardinality(Entries(free)) /\ Len(free) \in Nat /\ IsFiniteSet(Entries(free))
      BY <1>12, DistinctLen, LenProperties
    <2>3. queued = Entries(free) \cap H
      BY <1>7, <1>11, <1>12
    <2>4. Cardinality(Entries(free) \ H) = Cardinality(Entries(free)) - Cardinality(Entries(free) \cap H)
      BY <2>2, FS_Difference
    <2>5. Cardinality(queued) \in Nat
      BY <2>2, <2>3, FS_Intersection, FS_CardinalityType
    <2>6. Len(rest) = Len(free) - Cardinality(queued)
      BY <1>14, <2>1, <2>2, <2>3, <2>4
    <2>7. need + Cardinality(queued) <= Len(free)
      BY <1>8, <1>12
    <2>8. need <= Len(rest)
      BY <2>1, <2>2, <2>5, <2>6, <2>7
    <2> QED  BY <2>1, <2>8
  \* The new table.
  <1>16. PICK new : /\ new = SubSeq(touched.free, 1, need) /\ new \in Seq(Pages) /\ Len(new) = need
                    /\ \A i \in 1 .. need : new[i] = rest[i]
    <2>1. PICK new : new = SubSeq(rest, 1, need)
      OBVIOUS
    <2>2. \A i \in 1 .. need : rest[i] \in Pages
      BY <1>14, <1>15, ElementOfSeq
    <2>3. /\ new \in Seq(Pages) /\ Len(new) = IF 1 <= need THEN need - 1 + 1 ELSE 0
          /\ \A i \in 1 .. need - 1 + 1 : new[i] = rest[1 + i - 1]
      BY <1>14, <1>15, <2>1, <2>2, SubSeqProperties
    <2> QED  BY <1>14, <2>1, <2>3
  <1>17. PICK u : u = table[q] \o hits /\ t = u \o new
    BY <1>7, <1>16
  <1>18. /\ u \in Seq(Pages) /\ Len(u) = o + h /\ (\A i \in 1 .. o : u[i] = table[q][i])
         /\ \A i \in 1 .. o + h : i > o => i - o \in 1 .. h /\ u[i] = hits[i - o]
    BY <1>2, <1>3, <1>4, <1>17, ConcatIndices
  <1>19. /\ t \in Seq(Pages) /\ Len(t) = Len(u) + Len(new) /\ (\A i \in 1 .. Len(u) : t[i] = u[i])
         /\ \A i \in 1 .. Len(u) + Len(new) : i > Len(u) => i - Len(u) \in 1 .. Len(new) /\ t[i] = new[i - Len(u)]
    <2>1. u \in Seq(Pages) /\ new \in Seq(Pages) /\ t = u \o new
      BY <1>16, <1>17, <1>18
    <2> QED  BY ONLY <2>1, ConcatIndices
  <1>20. PICK e \in Nat : e = Len(t) /\ e = o + h + need
    BY <1>16, <1>18, <1>19
  <1>21. \A i \in 1 .. o : t[i] = table[q][i]
    <2>1. \A i \in 1 .. o : i \in 1 .. Len(u)
      BY <1>18
    <2> QED  BY <1>18, <1>19, <2>1
  <1>22. \A i \in o + 1 .. o + h : i - o \in 1 .. h /\ t[i] = hits[i - o]
    <2>1. \A i \in o + 1 .. o + h : i \in 1 .. Len(u) /\ i \in 1 .. o + h /\ i > o
      BY <1>18
    <2> QED  BY <1>18, <1>19, <2>1
  <1>23. \A i \in o + h + 1 .. e : i - (o + h) \in 1 .. need /\ t[i] = rest[i - (o + h)]
    <2>1. \A i \in o + h + 1 .. e : i \in 1 .. Len(u) + Len(new) /\ i > Len(u)
      BY <1>16, <1>18, <1>20
    <2>2. \A i \in o + h + 1 .. e : i - (o + h) \in 1 .. need /\ t[i] = new[i - (o + h)]
      BY <1>16, <1>18, <1>19, <2>1
    <2> QED  BY <1>16, <2>2
  <1>24. PICK G : G = {rest[i] : i \in 1 .. need} /\ G \subseteq Entries(rest)
    <2>1. \A i \in 1 .. need : i \in DOMAIN rest
      BY <1>15
    <2> QED  BY <2>1 DEF Entries
  <1>25. {t[i] : i \in o + h + 1 .. e} = G
    <2>1. \A i \in 1 .. need : i + (o + h) \in o + h + 1 .. e /\ (i + (o + h)) - (o + h) = i
      BY <1>20
    <2>2. \A i \in 1 .. need : \E j \in o + h + 1 .. e : t[j] = rest[i]
      BY <1>23, <2>1
    <2>3. \A j \in o + h + 1 .. e : \E i \in 1 .. need : t[j] = rest[i]
      BY <1>23
    <2> QED  BY ONLY <1>24, <2>2, <2>3
  <1>26. {t[i] : i \in o + 1 .. e} = H \cup G
    <2>1. \A i \in 1 .. h : i + o \in o + 1 .. o + h /\ (i + o) - o = i
      OBVIOUS
    <2>2. \A i \in 1 .. h : \E j \in o + 1 .. o + h : t[j] = hits[i]
      BY <1>22, <2>1
    <2>3. \A j \in o + 1 .. o + h : \E i \in 1 .. h : t[j] = hits[i]
      BY <1>22
    <2>4. {t[i] : i \in o + 1 .. o + h} = H
      <3>1. H = {hits[i] : i \in 1 .. h}
        BY <1>4, <1>11 DEF Entries
      <3> QED  BY ONLY <2>2, <2>3, <3>1
    <2>5. o + 1 .. e = (o + 1 .. o + h) \cup (o + h + 1 .. e)
      BY <1>20
    <2> QED  BY ONLY <1>25, <2>4, <2>5
  <1>27. \A i \in o + h + 1 .. e : t[i] # NullPage /\ pool.ref[t[i]] = 0
    <2>1. \A i \in o + h + 1 .. e : t[i] \in G
      BY <1>25
    <2> QED  BY <1>12, <1>14, <1>24, <2>1
  <1>28. \A i, j \in o + 1 .. e : t[i] = t[j] => i = j
    <2> SUFFICES ASSUME NEW i \in o + 1 .. e, NEW j \in o + 1 .. e, t[i] = t[j] PROVE i = j
      OBVIOUS
    <2>1. H \cap G = {}
      BY <1>14, <1>24
    <2>2. \A k \in o + 1 .. o + h : t[k] \in H
      BY <1>4, <1>11, <1>22 DEF Entries
    <2>3. \A k \in o + h + 1 .. e : t[k] \in G
      BY <1>25
    <2>4. CASE i \in o + 1 .. o + h /\ j \in o + 1 .. o + h
      <3>1. i - o = j - o
        BY <1>4, <1>10, <1>22, <2>4 DEF Distinct
      <3> QED  BY <3>1, <2>4
    <2>5. CASE i \in o + h + 1 .. e /\ j \in o + h + 1 .. e
      <3>1. i - (o + h) \in DOMAIN rest /\ j - (o + h) \in DOMAIN rest
        BY <1>15, <1>23, <2>5
      <3>2. i - (o + h) = j - (o + h)
        BY <1>14, <1>23, <2>5, <3>1 DEF Distinct
      <3> QED  BY <3>2, <2>5
    <2>6. /\ i \in o + 1 .. o + h \/ i \in o + h + 1 .. e
          /\ j \in o + 1 .. o + h \/ j \in o + h + 1 .. e
      BY <1>20
    <2> QED  BY <2>1, <2>2, <2>3, <2>4, <2>5, <2>6
  <1>29. \A i \in o + 1 .. o + h : t[i] \in Entries(pool.cache[KeyOf[q][i]])
    <2> SUFFICES ASSUME NEW i \in o + 1 .. o + h PROVE t[i] \in Entries(pool.cache[KeyOf[q][i]])
      OBVIOUS
    <2>1. o = 0
      BY <1>4
    <2>2. i \in 1 .. h /\ t[i] = hits[i]
      BY <1>22, <2>1
    <2> QED  BY <1>2, <1>3, <2>2
  <1>30. e <= l /\ x <= e * PageSize
    <2>1. PICK b \in Nat : /\ b = BlocksFor(x) /\ x <= b * PageSize
                           /\ \A k \in Nat : x <= k * PageSize => b <= k
      BY BlockCounts
    <2>2. b <= e /\ (need = 0 \/ e = b)
      BY <1>3, <1>5, <1>6, <1>20, <2>1, SMTT(30) DEF Larger
    <2>3. b <= l
      <3>1. MaxTokens(q) <= Len(KeyOf[q]) * PageSize
        BY PoolAssumption
      <3>2. total[q] <= MaxTokens(q) /\ total[q] \in Nat
        BY <1>1 DEF Booked, PoolTyped, TablesTyped
      <3>3. l * PageSize \in Nat /\ MaxTokens(q) \in Nat
        <4>1. PromptLen[q] \in Nat /\ MaxNew \in Nat
          BY PoolAssumption
        <4> QED  BY <4>1, PageSteps DEF MaxTokens
      <3>4. x <= l * PageSize
        BY <1>3, <1>5, <1>8, <3>1, <3>2, <3>3
      <3> QED  BY <2>1, <3>4
    <2>4. e <= l
      BY <1>4, <1>20, <2>2, <2>3
    <2>5. b * PageSize <= e * PageSize /\ b * PageSize \in Nat /\ e * PageSize \in Nat
      BY <2>2, PageSteps
    <2> QED  BY <2>1, <2>4, <2>5
  <1>31. GrownTable(q, o, h, t)
    <2>1. o + h <= Len(t) /\ Len(t) <= Len(KeyOf[q])
      BY <1>3, <1>20, <1>30
    <2> QED  BY <1>3, <1>4, <1>19, <1>20, <1>21, <1>27, <1>28, <1>29, <2>1 DEF GrownTable
  \* The pool.
  <1>32. PICK got : got = GetNewBlocks(touched, need)
    OBVIOUS
  <1>33. /\ got \in PoolRecords
         /\ \A p \in Pages : got.ref[p] = touched.ref[p] + (IF p \in G THEN 1 ELSE 0)
         /\ \A p \in Pages : got.hash[p] = IF p \in G THEN NoKey ELSE touched.hash[p]
         /\ \A k \in Keys : Entries(got.cache[k]) = Entries(touched.cache[k]) \ G
         /\ Entries(got.free) = Entries(touched.free) \ G /\ G \subseteq Entries(touched.free)
         /\ Distinct(got.free) /\ InOrderOf(got.free, touched.free)
    <2>1. /\ touched \in PoolRecords /\ need <= Len(touched.free) /\ Distinct(touched.free)
          /\ G = {touched.free[i] : i \in 1 .. need}
      BY <1>13, <1>14, <1>15, <1>24
    <2>2. need \in Nat
      OBVIOUS
    <2>3. Takes(touched, need, got, G)
      BY <1>32, <2>1, <2>2 DEF Takes
    <2> QED  BY ONLY <2>3, GetNewBlocksFields
  <1>34. full \in Nat /\ full <= e /\ full <= l /\ \A i \in Nat : i <= full => Filled(i, x)
    <2>1. full \in Nat /\ full <= BlocksFor(x) /\ \A i \in Nat : i <= full => Filled(i, x)
      BY <1>5, <1>7, BlockCounts
    <2>2. BlocksFor(x) <= e /\ BlocksFor(x) \in Nat
      BY <1>30, BlockCounts
    <2> QED  BY <1>30, <2>1, <2>2
  <1>35. from \in Nat /\ nCached[q] \in Nat /\ from <= l
    <2>1. nCached[q] \in Nat /\ nCached[q] <= l
      BY <1>1, <1>3 DEF PoolTyped, TablesTyped, Booked
    <2>2. h = 0 \/ nCached[q] = 0
      BY <1>2, <1>3, EmptySeq
    <2> QED  BY <1>3, <1>4, <1>7, <2>1, <2>2
  <1>36. CachedBy(got, q, t, from, full, pool')
    <2>1. full <= Len(t) /\ full <= Len(KeyOf[q])
      BY <1>3, <1>20, <1>34
    <2>2. pool' = CacheFullBlocks(got, q, t, from, full)
      BY <1>8, <1>32
    <2> QED  BY ONLY <1>19, <1>33, <1>34, <1>35, <2>1, <2>2, CacheFullBlocksFields
  <1>37. PICK new1 : new1 = pool' /\ CachedBy(got, q, t, from, full, new1)
    BY <1>36
  <1>38. GrownQueue(o, t)
    <2>1. new1 \in PoolRecords /\ new1.ref = got.ref /\ new1.free = got.free
      BY <1>37 DEF CachedBy
    <2>2. PICK F : F = got.free /\ Distinct(F) /\ InOrderOf(F, rest) /\ Entries(F) = Entries(rest) \ G
      BY <1>14, <1>33
    <2>3. InOrderOf(F, free)
      <3> SUFFICES ASSUME NEW i \in DOMAIN F, NEW j \in DOMAIN F, i < j
                   PROVE  \E a, b \in DOMAIN free : a < b /\ F[i] = free[a] /\ F[j] = free[b]
        BY Zenon DEF InOrderOf
      <3>1. PICK a \in DOMAIN rest, b \in DOMAIN rest : a < b /\ F[i] = rest[a] /\ F[j] = rest[b]
        BY <2>2 DEF InOrderOf
      <3>2. PICK c \in DOMAIN free, d \in DOMAIN free : c < d /\ rest[a] = free[c] /\ rest[b] = free[d]
        BY <1>14, <3>1 DEF InOrderOf
      <3> QED  BY <3>1, <3>2
    <2>4. Entries(F) = Entries(free) \ (H \cup G)
      BY <1>14, <2>2
    <2>5. PICK N : N = {t[i] : i \in o + 1 .. Len(t)} /\ N = H \cup G
      BY <1>20, <1>26
    <2>6. H \cap G = {}
      BY <1>14, <1>24
    <2>7. \A p \in Pages : got.ref[p] = pool.ref[p] + (IF p \in N THEN 1 ELSE 0)
      <3> SUFFICES ASSUME NEW p \in Pages
                   PROVE  got.ref[p] = pool.ref[p] + (IF p \in N THEN 1 ELSE 0)
        OBVIOUS
      <3>1. PICK a \in Nat : a = pool.ref[p]
        BY <1>1, PoolFields DEF PoolTyped
      <3>2. touched.ref[p] = a + (IF p \in H THEN 1 ELSE 0)
        BY <1>13, <3>1
      <3>3. got.ref[p] = touched.ref[p] + (IF p \in G THEN 1 ELSE 0)
        BY <1>33
      <3> QED  BY <2>5, <2>6, <3>1, <3>2, <3>3
    <2>8. \A p \in Pages : pool'.ref[p] = pool.ref[p] + (IF p \in N THEN 1 ELSE 0)
      BY <1>37, <2>1, <2>7
    <2> QED  BY <1>12, <1>37, <2>1, <2>2, <2>3, <2>4, <2>5, <2>8 DEF GrownQueue
  <1>39. PICK C : C = {i \in from + 1 .. full : t[i] # NullPage}
    OBVIOUS
  <1>40. C \subseteq 1 .. e /\ \A i \in C : Filled(i, x)
    <2>1. \A i \in from + 1 .. full : i \in 1 .. e /\ i \in Nat /\ i <= full
      BY <1>34, <1>35
    <2> QED  BY <1>34, <1>39, <2>1
  <1>41. GrownHashes(q, o, h, t, C)
    <2>1. PICK N : N = {t[i] : i \in o + h + 1 .. Len(t)} /\ N = G
      BY <1>20, <1>25
    <2>2. C \subseteq {i \in 1 .. Len(t) : t[i] # NullPage}
      BY <1>20, <1>39, <1>40
    <2>3. /\ \A p \in Pages :
                \/ \E i \in from + 1 .. full : p # NullPage /\ t[i] = p /\ new1.hash[p] = KeyOf[q][i]
                \/ new1.hash[p] = got.hash[p] /\ \A i \in from + 1 .. full : p # NullPage => t[i] # p
          /\ \A k \in Keys : \A p \in Entries(new1.cache[k]) :
                \/ p \in Entries(got.cache[k])
                \/ \E i \in from + 1 .. full : p # NullPage /\ t[i] = p /\ KeyOf[q][i] = k
      BY <1>37, Zenon DEF CachedBy
    <2>4. ASSUME NEW p \in Pages
          PROVE  \/ \E i \in C : t[i] = p /\ new1.hash[p] = KeyOf[q][i]
                 \/ /\ \A i \in C : t[i] # p
                    /\ new1.hash[p] = IF p \in N THEN NoKey ELSE pool.hash[p]
      <3>1. got.hash[p] = IF p \in N THEN NoKey ELSE pool.hash[p]
        BY <1>13, <1>33, <2>1
      <3> QED  BY <1>39, <2>3, <3>1
    <2>5. ASSUME NEW k \in Keys, NEW p \in Entries(new1.cache[k])
          PROVE  \/ p \in Entries(pool.cache[k]) \ N
                 \/ \E i \in C : t[i] = p /\ KeyOf[q][i] = k
      <3>1. Entries(got.cache[k]) = Entries(pool.cache[k]) \ N
        BY <1>13, <1>33, <2>1
      <3> QED  BY <1>39, <2>3, <3>1
    <2>6. \A p \in Pages :
            \/ \E i \in C : t[i] = p /\ pool'.hash[p] = KeyOf[q][i]
            \/ /\ \A i \in C : t[i] # p
               /\ pool'.hash[p] = IF p \in {t[i] : i \in o + h + 1 .. Len(t)} THEN NoKey ELSE pool.hash[p]
      BY ONLY <1>37, <2>1, <2>4
    <2>7. \A k \in Keys : \A p \in Entries(pool'.cache[k]) :
            \/ p \in Entries(pool.cache[k]) \ {t[i] : i \in o + h + 1 .. Len(t)}
            \/ \E i \in C : t[i] = p /\ KeyOf[q][i] = k
      BY ONLY <1>37, <2>1, <2>5
    <2> QED  BY <2>2, <2>6, <2>7, Zenon DEF GrownHashes
  <1>42. nCached'[q] \in Nat /\ nCached'[q] <= Len(KeyOf[q])
    <2>1. nCached'[q] = Larger(from, full)
      BY <1>1, <1>8 DEF PoolTyped, TablesTyped
    <2> QED  BY <1>3, <1>34, <1>35, <2>1 DEF Larger
  <1>43. \A i \in C : Filled(i, done + n)
    BY <1>5, <1>40
  <1>44. done + n <= Len(t) * PageSize
    BY <1>5, <1>20, <1>30
  <1>45. unseen' = [unseen EXCEPT ![q] = Len(t) - o]
    <2>1. unseen' = [unseen EXCEPT ![q] = Len(hits) + need]
      BY <1>6 DEF Allocates, AllocateSlots
    <2>2. h + need = e - o
      BY ONLY <1>20, o \in Nat, h \in Nat, need \in Nat
    <2> QED  BY <1>3, <1>20, <2>1, <2>2
  <1> QED  BY <1>3, <1>8, <1>31, <1>38, <1>41, <1>42, <1>43, <1>44, <1>45

\* What a request that gets pages does to the variables.
Grows(q, o, h, t, C, done, n) ==
    /\ GrownTable(q, o, h, t) /\ GrownQueue(o, t) /\ GrownHashes(q, o, h, t, C)
    /\ \A i \in C : Filled(i, done + n)
    /\ done + n <= Len(t) * PageSize /\ done + n <= total[q]
    /\ o = 0 \/ (h = 0 /\ done = computed[q])
    /\ h * PageSize <= done /\ done <= (o + h) * PageSize
    /\ pc = "sched" /\ status[q] # "finished" /\ sched[q] = 0
    /\ n \in 1 .. MaxChunk /\ done \in Nat /\ computed[q] <= done
    /\ table' = [table EXCEPT ![q] = t]
    /\ \E c \in Nat : c <= Len(KeyOf[q]) /\ nCached' = [nCached EXCEPT ![q] = c]
    /\ computed' = [computed EXCEPT ![q] = done]
    /\ sched' = [sched EXCEPT ![q] = n]
    /\ unseen' = [unseen EXCEPT ![q] = Len(t) - o]
    /\ status' = [status EXCEPT ![q] = "running"]
    /\ UNCHANGED <<kv, total, harmed, mishaps, connVars, pc, todo>>

\* The other requests see nothing of it.
LEMMA GrownFrame ==
    ASSUME PoolInv, NEW q \in Requests, NEW o, NEW h, NEW t, NEW C, NEW done, NEW n,
           Grows(q, o, h, t, C, done, n)
    PROVE  /\ \A u \in Requests : u # q => /\ table'[u] = table[u] /\ computed'[u] = computed[u]
                                           /\ sched'[u] = sched[u] /\ Reach(u)' = Reach(u)
           /\ table'[q] = t /\ computed'[q] = done /\ sched'[q] = n
           /\ Reach(q)' = done + n /\ Reach(q) = computed[q] /\ done + n \in Nat /\ computed[q] \in Nat
  <1>1. /\ table' = [table EXCEPT ![q] = t] /\ computed' = [computed EXCEPT ![q] = done]
        /\ sched' = [sched EXCEPT ![q] = n] /\ pc = "sched" /\ pc' = pc /\ sched[q] = 0
        /\ n \in 1 .. MaxChunk /\ done \in Nat
    BY DEF Grows
  <1>2. /\ table \in [Requests -> Seq(Pages)] /\ computed \in [Requests -> Nat]
        /\ sched \in [Requests -> 0 .. MaxChunk]
    BY DEF PoolInv, PoolTyped, TablesTyped
  <1>3. MaxChunk \in Nat
    BY PoolAssumption
  <1>4. \A u \in Requests : u # q => /\ table'[u] = table[u] /\ computed'[u] = computed[u]
                                     /\ sched'[u] = sched[u] /\ Reach(u)' = Reach(u)
    BY <1>1, <1>2 DEF Reach
  <1>5. table'[q] = t /\ computed'[q] = done /\ sched'[q] = n
    BY <1>1, <1>2
  <1>6. Reach(q)' = done + n /\ Reach(q) = computed[q] /\ done + n \in Nat /\ computed[q] \in Nat
    BY <1>1, <1>2, <1>3, <1>5 DEF Reach
  <1> QED  BY <1>4, <1>5, <1>6

\* A holder of a page afterwards was one before, or found the page in the cache, or
\* is the only one of a page from the queue.
Stays(r, p) ==
    /\ r \in Holders(p) /\ computed'[r[1]] = computed[r[1]]
    /\ Filled(r[2], Reach(r[1])) => Filled(r[2], Reach(r[1])')

IsHit(q, r, p) ==
    /\ r \notin Holders(p) /\ r[1] = q /\ p \in Entries(pool.cache[Key(r)])
    /\ Filled(r[2], computed'[q]) /\ Filled(r[2], Reach(q)')

IsNew(q, o, h, t, r, p) ==
    /\ r \notin Holders(p) /\ r[1] = q /\ ~Filled(r[2], computed'[q])
    /\ Holders(p) = {} /\ pool.ref[p] = 0 /\ p # NullPage
    /\ p \in {t[i] : i \in o + h + 1 .. Len(t)}

LEMMA GrownHolders ==
    ASSUME PoolInv, NEW q \in Requests, NEW o, NEW h, NEW t, NEW C, NEW done, NEW n,
           Grows(q, o, h, t, C, done, n), NEW p \in Pages
    PROVE  /\ Holders(p) \subseteq Holders(p)'
           /\ \A r \in Holders(p)' : Stays(r, p) \/ IsHit(q, r, p) \/ IsNew(q, o, h, t, r, p)
           /\ \A r, s \in Holders(p)' : r \notin Holders(p) /\ s \notin Holders(p) => r = s
           /\ \A r \in Holders(p)' : r \notin Holders(p) => p \in {t[i] : i \in o + 1 .. Len(t)}
           /\ \A i \in o + 1 .. Len(t) : t[i] = p => <<q, i>> \in Holders(p)' /\ <<q, i>> \notin Holders(p)
           /\ \A i \in C : t[i] = p => /\ <<q, i>> \in Holders(p)' /\ p # NullPage
                                       /\ Key(<<q, i>>) = KeyOf[q][i] /\ Filled(i, Reach(q)')
  <1>1. PoolTyped /\ Booked /\ QueueInv
    BY DEF PoolInv
  <1>2. /\ o \in Nat /\ h \in Nat /\ t \in Seq(Pages) /\ o + h <= Len(t) /\ Len(t) <= Len(KeyOf[q])
        /\ DOMAIN table[q] = 1 .. o /\ (\A i \in 1 .. o : t[i] = table[q][i])
        /\ \A i \in o + 1 .. o + h : t[i] \in Entries(pool.cache[KeyOf[q][i]])
        /\ \A i \in o + h + 1 .. Len(t) : t[i] # NullPage /\ pool.ref[t[i]] = 0
        /\ \A i, j \in o + 1 .. Len(t) : t[i] = t[j] => i = j
    BY DEF Grows, GrownTable
  <1>3. /\ C \subseteq {i \in 1 .. Len(t) : t[i] # NullPage} /\ (\A i \in C : Filled(i, done + n))
        /\ (o = 0 \/ (h = 0 /\ done = computed[q])) /\ done \in Nat /\ n \in 1 .. MaxChunk
        /\ h * PageSize <= done /\ done <= (o + h) * PageSize /\ computed[q] <= done
    BY DEF Grows, GrownHashes
  <1>4. PICK e \in Nat, l \in Nat : e = Len(t) /\ DOMAIN t = 1 .. e /\ l = Len(KeyOf[q]) /\ e <= l /\ o + h <= e
    BY <1>2, RefForm, LenProperties
  <1>5. /\ \A u \in Requests : u # q => /\ table'[u] = table[u] /\ computed'[u] = computed[u]
                                        /\ Reach(u)' = Reach(u)
        /\ table'[q] = t /\ computed'[q] = done
        /\ Reach(q)' = done + n /\ Reach(q) = computed[q] /\ done + n \in Nat /\ computed[q] \in Nat
    BY GrownFrame
  <1>6. /\ \A r : r \in Holders(p) <=> r \in Refs /\ r[2] \in DOMAIN table[r[1]] /\ table[r[1]][r[2]] = p
        /\ \A r : r \in Holders(p)' <=> r \in Refs /\ r[2] \in DOMAIN table'[r[1]] /\ table'[r[1]][r[2]] = p
    BY HoldersForm, HoldersForm2
  <1>7. \A i \in 1 .. e : /\ <<q, i>> \in Refs /\ <<q, i>>[1] = q /\ <<q, i>>[2] = i
                          /\ Key(<<q, i>>) = KeyOf[q][i]
    <2>1. \A i \in 1 .. e : i \in 1 .. Len(KeyOf[q])
      BY <1>4
    <2> QED  BY <2>1, RefForm
  <1>8. ASSUME NEW r \in Refs, r[1] # q PROVE r \in Holders(p)' <=> r \in Holders(p)
    BY <1>5, <1>6, <1>8, RefForm
  <1>9. ASSUME NEW i \in 1 .. e
        PROVE  /\ <<q, i>> \in Holders(p)' <=> t[i] = p
               /\ i <= o => (<<q, i>> \in Holders(p) <=> t[i] = p)
               /\ i > o => <<q, i>> \notin Holders(p)
    <2>1. <<q, i>> \in Holders(p)' <=> t[i] = p
      BY <1>4, <1>5, <1>6, <1>7
    <2>2. <<q, i>> \in Holders(p) <=> i \in 1 .. o /\ table[q][i] = p
      BY <1>2, <1>6, <1>7
    <2> QED  BY <1>2, <2>1, <2>2
  <1>10. ASSUME NEW r \in Refs, r[1] = q, r \in Holders(p)' \/ r \in Holders(p)
         PROVE  \E i \in 1 .. e : r = <<q, i>>
    <2>1. r = <<q, r[2]>>
      BY <1>10, RefForm
    <2>2. r[2] \in 1 .. e
      <3>1. r[2] \in 1 .. o \/ r[2] \in 1 .. e
        BY <1>2, <1>4, <1>5, <1>6, <1>10
      <3> QED  BY <1>2, <1>4, <3>1
    <2> QED  BY <2>1, <2>2
  <1>11. Holders(p) \subseteq Holders(p)'
    <2> SUFFICES ASSUME NEW r \in Holders(p) PROVE r \in Holders(p)'
      OBVIOUS
    <2>1. r \in Refs
      BY HoldersForm
    <2>2. CASE r[1] # q
      BY <1>8, <2>1, <2>2
    <2>3. CASE r[1] = q
      <3>1. PICK i \in 1 .. e : r = <<q, i>>
        BY <1>10, <2>1, <2>3
      <3> QED  BY <1>2, <1>9, <3>1
    <2> QED  BY <2>2, <2>3
  <1>12. ASSUME NEW r \in Holders(p)', r \notin Holders(p)
         PROVE  \E i \in o + 1 .. e : r = <<q, i>> /\ t[i] = p
    <2>1. r \in Refs
      BY HoldersForm2
    <2>2. r[1] = q
      BY <1>8, <1>12, <2>1
    <2>3. PICK i \in 1 .. e : r = <<q, i>>
      BY <1>10, <2>1, <2>2
    <2>4. t[i] = p /\ ~(i <= o)
      BY <1>9, <1>12, <2>3
    <2> QED  BY <1>2, <2>3, <2>4
  <1>13. ASSUME NEW r \in Holders(p)' PROVE Stays(r, p) \/ IsHit(q, r, p) \/ IsNew(q, o, h, t, r, p)
    <2>1. CASE r \in Holders(p)
      <3>1. r \in Refs /\ r[1] \in Requests /\ r[2] \in Nat
        BY <2>1, HoldersForm, RefForm
      <3>2. CASE r[1] # q
        BY <1>5, <2>1, <3>1, <3>2 DEF Stays
      <3>3. CASE r[1] = q
        <4>1. PICK i \in 1 .. e : r = <<q, i>>
          BY <1>10, <2>1, <3>1, <3>3
        <4>2. o # 0
          BY <1>9, <2>1, <4>1
        <4>3. done = computed[q]
          BY <1>3, <4>2
        <4>4. r[2] * PageSize \in Nat
          BY <3>1, PageSteps
        <4>5. Filled(r[2], computed[q]) => Filled(r[2], done + n)
          BY <1>3, <1>5, <4>3, <4>4, PoolAssumption DEF Filled
        <4> QED  BY <1>5, <2>1, <3>3, <4>3, <4>5 DEF Stays
      <3> QED  BY <3>2, <3>3
    <2>2. CASE r \notin Holders(p)
      <3>1. PICK i \in o + 1 .. e : r = <<q, i>> /\ t[i] = p
        BY <1>12, <2>2
      <3>2. i \in 1 .. e /\ i \in Nat
        BY <1>2
      <3>3. r[1] = q /\ r[2] = i /\ Key(r) = KeyOf[q][i]
        BY <1>7, <3>1, <3>2
      <3>4. CASE i <= o + h
        <4>1. i \in o + 1 .. o + h
          BY <3>4
        <4>2. p \in Entries(pool.cache[Key(r)])
          BY <1>2, <3>1, <3>3, <4>1
        <4>3. o = 0 /\ i <= h
          BY <1>2, <1>3, <4>1
        <4>4. i * PageSize <= h * PageSize /\ i * PageSize \in Nat /\ h * PageSize \in Nat
          BY <1>2, <3>2, <4>3, PageSteps
        <4>5. Filled(i, done) /\ Filled(i, done + n)
          BY <1>3, <4>4, PoolAssumption DEF Filled
        <4> QED  BY <1>5, <2>2, <3>3, <4>2, <4>5 DEF IsHit
      <3>5. CASE ~(i <= o + h)
        <4>1. i \in o + h + 1 .. e /\ o + h \in Nat /\ o + h < i
          BY <1>2, <3>5
        <4>2. pool.ref[p] = 0 /\ p # NullPage
          BY <1>2, <1>4, <3>1, <4>1
        <4>3. Holders(p) = {}
          <5>1. PICK c \in Nat : c = Cardinality(Holders(p))
            BY HoldersForm
          <5>2. 0 = c + (IF p \in tail THEN 1 ELSE 0)
            BY <1>1, <4>2, <5>1 DEF QueueInv, Counted
          <5>3. c = 0
            BY <5>2
          <5> QED  BY <5>1, <5>3, HoldersForm, FS_EmptySet
        <4>4. (o + h) * PageSize + PageSize <= i * PageSize /\ (o + h) * PageSize \in Nat /\ i * PageSize \in Nat
          BY <3>2, <4>1, PageSteps
        <4>5. ~Filled(i, done)
          BY <1>3, <4>4, PoolAssumption DEF Filled
        <4>6. p \in {t[j] : j \in o + h + 1 .. Len(t)}
          BY <1>4, <3>1, <4>1
        <4> QED  BY <1>5, <2>2, <3>3, <4>2, <4>3, <4>5, <4>6 DEF IsNew
      <3> QED  BY <3>4, <3>5
    <2> QED  BY <2>1, <2>2
  <1>14. ASSUME NEW r \in Holders(p)', NEW s \in Holders(p)', r \notin Holders(p), s \notin Holders(p)
         PROVE  r = s
    <2>1. PICK i \in o + 1 .. e : r = <<q, i>> /\ t[i] = p
      BY <1>12, <1>14
    <2>2. PICK j \in o + 1 .. e : s = <<q, j>> /\ t[j] = p
      BY <1>12, <1>14
    <2> QED  BY <1>2, <1>4, <2>1, <2>2
  <1>15. \A r \in Holders(p)' : r \notin Holders(p) => p \in {t[i] : i \in o + 1 .. Len(t)}
    BY <1>4, <1>12
  <1>16. \A i \in o + 1 .. Len(t) : t[i] = p => <<q, i>> \in Holders(p)' /\ <<q, i>> \notin Holders(p)
    <2> SUFFICES ASSUME NEW i \in o + 1 .. e, t[i] = p
                 PROVE  <<q, i>> \in Holders(p)' /\ <<q, i>> \notin Holders(p)
      BY <1>4
    <2>1. i \in 1 .. e /\ i > o
      BY <1>2
    <2> QED  BY <1>9, <2>1
  <1>17. ASSUME NEW i \in C, t[i] = p
         PROVE  /\ <<q, i>> \in Holders(p)' /\ p # NullPage
                /\ Key(<<q, i>>) = KeyOf[q][i] /\ Filled(i, Reach(q)')
    <2>1. i \in 1 .. e /\ p # NullPage
      BY <1>3, <1>4, <1>17
    <2>2. Filled(i, Reach(q)')
      BY <1>3, <1>5
    <2> QED  BY <1>7, <1>9, <1>17, <2>1, <2>2
  <1> QED  BY <1>11, <1>13, <1>14, <1>15, <1>16, <1>17

LEMMA GrownQueueKeeps ==
    ASSUME PoolInv, NEW q \in Requests, NEW o, NEW h, NEW t, NEW C, NEW done, NEW n,
           Grows(q, o, h, t, C, done, n)
    PROVE  QueueInv'
  <1>1. PICK N : N = {t[i] : i \in o + 1 .. Len(t)}
    OBVIOUS
  <1>2. /\ pool' \in PoolRecords
        /\ \A p \in Pages : pool'.ref[p] = pool.ref[p] + (IF p \in N THEN 1 ELSE 0)
        /\ Entries(pool'.free) = Entries(pool.free) \ N
        /\ Distinct(pool'.free) /\ InOrderOf(pool'.free, pool.free)
    BY <1>1 DEF Grows, GrownQueue
  <1>3. /\ C \subseteq {i \in 1 .. Len(t) : t[i] # NullPage}
        /\ \A p \in Pages :
              \/ \E i \in C : t[i] = p /\ pool'.hash[p] = KeyOf[q][i]
              \/ /\ \A i \in C : t[i] # p
                 /\ pool'.hash[p] = IF p \in {t[i] : i \in o + h + 1 .. Len(t)} THEN NoKey ELSE pool.hash[p]
    BY Zenon DEF Grows, GrownHashes
  <1>4. /\ pool \in PoolRecords /\ (\A p \in Pages : pool.ref[p] \in Nat) /\ tail' = tail /\ o \in Nat /\ h \in Nat
        /\ Counted /\ Queued(pool)
    BY PoolFields DEF PoolInv, PoolTyped, Grows, GrownTable, connVars, QueueInv
  <1>4a. \A p \in Pages : /\ Holders(p) \subseteq Holders(p)'
                          /\ \A r, s \in Holders(p)' : r \notin Holders(p) /\ s \notin Holders(p) => r = s
    BY GrownHolders
  <1>4b. \A p \in Pages : \A r \in Holders(p)' : r \notin Holders(p) => p \in N
    BY <1>1, GrownHolders
  <1>4c. \A p \in Pages : \A i \in o + 1 .. Len(t) : t[i] = p =>
            <<q, i>> \in Holders(p)' /\ <<q, i>> \notin Holders(p)
    BY GrownHolders
  <1>4d. \A p \in Pages : \A i \in C : t[i] = p => <<q, i>> \in Holders(p)'
    BY GrownHolders
  <1>5. ASSUME NEW p \in Pages \ {NullPage}
        PROVE  pool'.ref[p] = Cardinality(Holders(p)') + (IF p \in tail THEN 1 ELSE 0)
    <2>1. PICK c \in Nat : c = Cardinality(Holders(p)) /\ IsFiniteSet(Holders(p))
      BY HoldersForm
    <2>2. pool.ref[p] = c + (IF p \in tail THEN 1 ELSE 0)
      BY <1>4, <2>1 DEF Counted
    <2>3. CASE p \in N
      <3>1. PICK i \in o + 1 .. Len(t) : t[i] = p
        BY <1>1, <2>3
      <3>2. PICK r : r = <<q, i>> /\ r \in Holders(p)' /\ r \notin Holders(p)
        BY <1>4c, <3>1
      <3>3. Holders(p)' = Holders(p) \cup {r}
        BY <1>4a, <3>2
      <3>4. Cardinality(Holders(p) \cup {r}) = c + 1
        BY <2>1, <3>2, FS_AddElement
      <3> QED  BY <1>2, <2>2, <2>3, <3>3, <3>4
    <2>4. CASE p \notin N
      <3>1. Holders(p)' = Holders(p)
        BY <1>4a, <1>4b, <2>4
      <3> QED  BY <1>2, <2>1, <2>2, <2>4, <3>1
    <2> QED  BY <2>3, <2>4
  <1>6. Counted'
    BY <1>4, <1>5 DEF Counted
  <1>7. Entries(pool'.free) = {p \in Pages \ {NullPage} : pool'.ref[p] = 0}
    <2>1. Entries(pool.free) = {p \in Pages \ {NullPage} : pool.ref[p] = 0}
      BY <1>4 DEF Queued
    <2>2. \A p \in Pages : pool'.ref[p] = 0 <=> pool.ref[p] = 0 /\ p \notin N
      BY <1>2, <1>4
    <2> QED  BY <1>2, <2>1, <2>2
  <1>8. ASSUME NEW p \in Entries(pool'.free) PROVE pool'.hash[p] = pool.hash[p]
    <2>1. p \in Pages \ {NullPage} /\ p \notin N
      BY <1>2, <1>7
    <2>2. Holders(p)' = Holders(p)
      BY <1>4a, <1>4b, <2>1
    <2>3. Holders(p)' = {}
      <3>1. PICK c \in Nat : c = Cardinality(Holders(p)')
        BY HoldersForm2
      <3>2. 0 = c + (IF p \in tail THEN 1 ELSE 0)
        BY <1>5, <1>7, <3>1
      <3>3. c = 0
        BY <3>2
      <3> QED  BY <3>1, <3>3, HoldersForm2, FS_EmptySet
    <2>4. \A i \in C : t[i] # p
      BY <1>4d, <2>1, <2>3
    <2>5. p \notin {t[i] : i \in o + h + 1 .. Len(t)}
      <3>1. \A i \in o + h + 1 .. Len(t) : i \in o + 1 .. Len(t)
        BY <1>4
      <3> QED  BY <1>1, <2>1, <3>1
    <2> QED  BY <1>3, <2>1, <2>4, <2>5
  <1>9. HashedLast(pool'.free, pool'.hash)
    <2>1. PICK a, f, g, f0 : a = pool'.free /\ f = pool'.hash /\ g = pool.hash /\ f0 = pool.free
      OBVIOUS
    <2>2. InOrderOf(a, f0) /\ HashedLast(f0, g) /\ \A p \in Entries(a) : f[p] = g[p]
      BY <1>2, <1>4, <1>8, <2>1 DEF Queued
    <2>3. HashedLast(a, f)
      BY ONLY <2>2, StillHashedLast
    <2> QED  BY <2>1, <2>3
  <1>10. Queued(pool)'
    BY <1>2, <1>7, <1>9 DEF Queued
  <1> QED  BY <1>6, <1>10 DEF QueueInv

LEMMA GrownHashKeeps ==
    ASSUME PoolInv, NEW q \in Requests, NEW o, NEW h, NEW t, NEW C, NEW done, NEW n,
           Grows(q, o, h, t, C, done, n)
    PROVE  HashInv'
  <1>1. PICK G : G = {t[i] : i \in o + h + 1 .. Len(t)}
    OBVIOUS
  <1>2. /\ \A p \in Pages :
              \/ \E i \in C : t[i] = p /\ pool'.hash[p] = KeyOf[q][i]
              \/ /\ \A i \in C : t[i] # p
                 /\ pool'.hash[p] = IF p \in G THEN NoKey ELSE pool.hash[p]
        /\ \A k \in Keys : \A p \in Entries(pool'.cache[k]) :
              \/ p \in Entries(pool.cache[k]) \ G
              \/ \E i \in C : t[i] = p /\ KeyOf[q][i] = k
    BY <1>1, Zenon DEF Grows, GrownHashes
  <1>3. /\ pool \in PoolRecords /\ pool' \in PoolRecords /\ pc' = "sched" /\ tail' = tail /\ tail \subseteq Pages
        /\ TailApart /\ CacheMarked /\ Shared /\ Hashed /\ Counted
    BY DEF PoolInv, PoolTyped, ConnTyped, Grows, GrownQueue, connVars, QueueInv, HashInv
  <1>4. \A p \in Pages : \A r \in Holders(p)' : Stays(r, p) \/ IsHit(q, r, p) \/ IsNew(q, o, h, t, r, p)
    BY GrownHolders
  <1>5. \A p \in Pages : \A r, s \in Holders(p)' : r \notin Holders(p) /\ s \notin Holders(p) => r = s
    BY GrownHolders
  <1>6. \A p \in Pages : \A i \in C : t[i] = p =>
            /\ <<q, i>> \in Holders(p)' /\ p # NullPage
            /\ Key(<<q, i>>) = KeyOf[q][i] /\ Filled(i, Reach(q)')
    BY GrownHolders
  <1>7. \A k \in Keys : Entries(pool.cache[k]) \subseteq Pages /\ Entries(pool'.cache[k]) \subseteq Pages
    <2>1. \A k \in Keys : pool.cache[k] \in Seq(Pages) /\ pool'.cache[k] \in Seq(Pages)
      BY <1>3, PoolFields
    <2> QED  BY <2>1, DistinctLen
  <1>8. \A p \in Pages : \A r \in Holders(p)' : r \in Refs /\ Key(r) \in Keys /\ Key(r) # NoKey
    BY HoldersForm2, RefForm, PoolAssumption
  \* A hit is marked with the key of the block.
  <1>9. ASSUME NEW p \in Pages, NEW r \in Holders(p)', IsHit(q, r, p)
        PROVE  /\ p # NullPage /\ pool.hash[p] = Key(r) /\ Filled(r[2], Reach(r[1])')
               /\ r \notin Holders(p) /\ p \in Entries(pool.cache[Key(r)]) /\ Key(r) \in Keys
    BY <1>3, <1>8, <1>9 DEF IsHit, CacheMarked
  <1>10. TailApart'
    <2>1. ASSUME NEW p \in tail PROVE p # NullPage /\ Holders(p)' = {} /\ p \in Pages
      <3>1. /\ p # NullPage /\ p \in Pages /\ Holders(p) = {}
            /\ \A k \in Keys : p \notin Entries(pool.cache[k])
        BY <1>3 DEF TailApart
      <3>2. pool.ref[p] # 0
        <4>1. PICK c \in Nat : c = Cardinality(Holders(p))
          BY HoldersForm
        <4>2. pool.ref[p] = c + 1
          BY <1>3, <2>1, <3>1, <4>1 DEF Counted
        <4> QED  BY <4>2
      <3>3. ASSUME NEW r \in Holders(p)' PROVE FALSE
        <4>1. ~Stays(r, p)
          BY <3>1 DEF Stays
        <4>2. ~IsHit(q, r, p)
          BY <1>8, <3>1 DEF IsHit
        <4>3. ~IsNew(q, o, h, t, r, p)
          BY <3>2 DEF IsNew
        <4> QED  BY <1>4, <3>1, <4>1, <4>2, <4>3
      <3> QED  BY <3>1, <3>3
    <2>2. ASSUME NEW p \in tail, NEW k \in Keys PROVE p \notin Entries(pool'.cache[k])
      <3>1. p \notin Entries(pool.cache[k])
        BY <1>3 DEF TailApart
      <3>2. ~\E i \in C : t[i] = p
        BY <1>6, <2>1
      <3> QED  BY <1>2, <3>1, <3>2
    <2> QED  BY <1>3, <2>1, <2>2 DEF TailApart
  <1>11. ASSUME NEW p \in Pages \ {NullPage}, NEW r \in Holders(p)', NEW s \in Holders(p)', r # s
         PROVE  Key(r) = Key(s) /\ Filled(r[2], Reach(r[1])')
    <2>0. r \in Refs /\ s \in Refs
      BY <1>8
    <2>1. ASSUME IsNew(q, o, h, t, r, p) \/ IsNew(q, o, h, t, s, p) PROVE FALSE
      <3>1. r \notin Holders(p) /\ s \notin Holders(p)
        BY <2>1 DEF IsNew
      <3> QED  BY <1>5, <1>11, <3>1
    <2>2. ~(IsHit(q, r, p) /\ IsHit(q, s, p))
      BY <1>5, <1>11 DEF IsHit
    <2>3. CASE Stays(r, p) /\ Stays(s, p)
      <3>1. Key(r) = Key(s) /\ Filled(r[2], Reach(r[1]))
        BY <1>3, <1>11, <2>0, <2>3 DEF Shared, Stays
      <3> QED  BY <2>3, <3>1 DEF Stays
    <2>4. CASE Stays(r, p) /\ IsHit(q, s, p)
      <3>1. pool.hash[p] = Key(s) /\ Key(s) # NoKey
        BY <1>8, <1>9, <2>4
      <3>2. pool.hash[p] = Key(r) /\ Filled(r[2], Reach(r[1]))
        BY <1>3, <2>4, <3>1 DEF Hashed, Stays
      <3> QED  BY <2>4, <3>1, <3>2 DEF Stays
    <2>5. CASE IsHit(q, r, p) /\ Stays(s, p)
      <3>1. pool.hash[p] = Key(r) /\ Key(r) # NoKey /\ Filled(r[2], Reach(r[1])')
        BY <1>8, <1>9, <2>5
      <3>2. pool.hash[p] = Key(s)
        BY <1>3, <2>5, <3>1 DEF Hashed, Stays
      <3> QED  BY <3>1, <3>2
    <2> QED  BY <1>4, <2>1, <2>2, <2>3, <2>4, <2>5
  <1>12. Shared'
    <2> SUFFICES ASSUME NEW r \in Refs, NEW s \in Refs, NEW p \in Pages \ {NullPage}, r # s,
                        r \in Holders(p)', s \in Holders(p)'
                 PROVE  Key(r) = Key(s) /\ Filled(r[2], Reach(r[1]))'
      BY DEF Shared, Key
    <2> QED  BY <1>11 DEF Filled
  <1>13. Hashed'
    <2> SUFFICES ASSUME NEW p \in Pages \ {NullPage}, NEW r \in Holders(p)', pool'.hash[p] # NoKey
                 PROVE  pool'.hash[p] = Key(r) /\ Filled(r[2], Reach(r[1])')
      BY DEF Hashed, Key, Filled
    <2>1. CASE \E i \in C : t[i] = p /\ pool'.hash[p] = KeyOf[q][i]
      <3>1. PICK i \in C : t[i] = p /\ pool'.hash[p] = KeyOf[q][i]
        BY <2>1
      <3>2. PICK s : /\ s = <<q, i>> /\ s \in Holders(p)' /\ Key(s) = KeyOf[q][i]
                     /\ s[1] = q /\ s[2] = i /\ Filled(i, Reach(q)')
        BY <1>6, <3>1
      <3>3. CASE r = s
        BY <3>1, <3>2, <3>3
      <3>4. CASE r # s
        BY <1>11, <3>1, <3>2, <3>4
      <3> QED  BY <3>3, <3>4
    <2>2. CASE pool'.hash[p] = IF p \in G THEN NoKey ELSE pool.hash[p]
      <3>1. p \notin G /\ pool'.hash[p] = pool.hash[p]
        BY <2>2
      <3>2. ~IsNew(q, o, h, t, r, p)
        BY <1>1, <3>1 DEF IsNew
      <3>3. CASE Stays(r, p)
        BY <1>3, <3>1, <3>3 DEF Hashed, Stays
      <3>4. CASE IsHit(q, r, p)
        BY <1>9, <3>1, <3>4
      <3> QED  BY <1>4, <3>2, <3>3, <3>4
    <2> QED  BY <1>2, <2>1, <2>2
  <1>14. CacheMarked'
    <2> SUFFICES ASSUME NEW k \in Keys, NEW p \in Entries(pool'.cache[k])
                 PROVE  p # NullPage /\ pool'.hash[p] = k
      BY DEF CacheMarked
    <2>0. p \in Pages /\ k # NoKey
      BY <1>7, PoolAssumption
    <2>1. CASE p \in Entries(pool.cache[k]) \ G
      <3>1. p # NullPage /\ pool.hash[p] = k /\ p \notin G
        BY <1>3, <2>1 DEF CacheMarked
      <3>2. ASSUME NEW i \in C, t[i] = p PROVE KeyOf[q][i] = k
        <4>1. PICK r : r = <<q, i>> /\ r \in Holders(p)' /\ Key(r) = KeyOf[q][i]
          BY <1>6, <2>0, <3>2
        <4>2. ~IsNew(q, o, h, t, r, p)
          BY <1>1, <3>1 DEF IsNew
        <4>3. CASE Stays(r, p)
          BY <1>3, <2>0, <3>1, <4>1, <4>3 DEF Hashed, Stays
        <4>4. CASE IsHit(q, r, p)
          BY <1>9, <2>0, <3>1, <4>1, <4>4
        <4> QED  BY <1>4, <2>0, <4>1, <4>2, <4>3, <4>4
      <3> QED  BY <1>2, <2>0, <3>1, <3>2
    <2>2. CASE \E i \in C : t[i] = p /\ KeyOf[q][i] = k
      <3>1. PICK i \in C : t[i] = p /\ KeyOf[q][i] = k
        BY <2>2
      <3>2. PICK r : r = <<q, i>> /\ r \in Holders(p)' /\ Key(r) = k /\ p # NullPage
        BY <1>6, <2>0, <3>1
      <3>3. PICK j \in C : t[j] = p /\ pool'.hash[p] = KeyOf[q][j]
        BY <1>2, <2>0, <3>1
      <3>4. PICK s : s = <<q, j>> /\ s \in Holders(p)' /\ Key(s) = KeyOf[q][j]
        BY <1>6, <2>0, <3>3
      <3>5. Key(r) = Key(s)
        BY <1>11, <2>0, <3>2, <3>4
      <3> QED  BY <3>2, <3>3, <3>4, <3>5
    <2> QED  BY <1>2, <2>1, <2>2
  <1> QED  BY <1>10, <1>12, <1>13, <1>14 DEF HashInv

LEMMA GrownContentKeeps ==
    ASSUME PoolInv, NEW q \in Requests, NEW o, NEW h, NEW t, NEW C, NEW done, NEW n,
           Grows(q, o, h, t, C, done, n)
    PROVE  ContentInv'
  <1>1. /\ \A k \in Keys : \A p \in Entries(pool'.cache[k]) :
              p \in Entries(pool.cache[k]) \/ \E i \in C : t[i] = p /\ KeyOf[q][i] = k
        /\ pool' \in PoolRecords
    BY SMTT(60) DEF Grows, GrownHashes, GrownQueue
  <1>2. /\ pc = "sched" /\ pc' = "sched" /\ kv' = kv /\ CacheHoldsOwn /\ PagesHoldOwn
    BY DEF PoolInv, ContentInv, Grows
  <1>3. /\ \A u \in Requests : u # q => computed'[u] = computed[u] /\ Reach(u)' = Reach(u)
        /\ computed'[q] = done /\ Reach(q) = computed[q]
    BY GrownFrame
  <1>4. \A p \in Pages : /\ Holders(p) \subseteq Holders(p)'
                         /\ \A r \in Holders(p)' : Stays(r, p) \/ IsHit(q, r, p) \/ IsNew(q, o, h, t, r, p)
    BY GrownHolders
  <1>5. \A p \in Pages : \A i \in C : t[i] = p =>
            /\ <<q, i>> \in Holders(p)' /\ p # NullPage
            /\ Key(<<q, i>>) = KeyOf[q][i] /\ Filled(i, Reach(q)')
    BY GrownHolders
  <1>6. \A k \in Keys : Entries(pool'.cache[k]) \subseteq Pages
    <2>1. \A k \in Keys : pool'.cache[k] \in Seq(Pages)
      BY <1>1, PoolFields
    <2> QED  BY <2>1, DistinctLen
  <1>7. ASSUME NEW p \in Pages, NEW k, Good(p, k) PROVE Good(p, k)'
    <2>1. CASE kv[p] = k
      BY <1>2, <2>1 DEF Good
    <2>2. CASE Pending(p, k)
      <3>1. PICK s \in Holders(p) : Key(s) = k /\ Filled(s[2], Reach(s[1])) /\ ~Filled(s[2], computed[s[1]])
        BY <2>2 DEF Pending
      <3>2. s[1] # q
        BY <1>3, <3>1
      <3>3. s \in Holders(p)' /\ s[1] \in Requests
        BY <1>4, HoldersForm, RefForm
      <3>4. Reach(s[1])' = Reach(s[1]) /\ computed'[s[1]] = computed[s[1]]
        BY <1>3, <3>2, <3>3
      <3>5. Filled(s[2], Reach(s[1]))' /\ ~Filled(s[2], computed[s[1]])' /\ Key(s)' = k
        BY <3>1, <3>4 DEF Filled, Key
      <3>6. Pending(p, k)'
        BY <1>2, <3>3, <3>5 DEF Pending
      <3> QED  BY <3>6 DEF Good
    <2> QED  BY <1>7, <2>1, <2>2 DEF Good
  <1>8. ASSUME NEW p \in Pages \ {NullPage}, NEW r \in Holders(p)', Filled(r[2], computed'[r[1]]), NEW k, k = Key(r)
        PROVE  Good(p, k)'
    <2>0. k \in Keys
      BY <1>8, HoldersForm2, RefForm
    <2>1. CASE Stays(r, p)
      <3>1. Good(p, k)
        BY <1>2, <1>8, <2>1 DEF Stays, PagesHoldOwn
      <3> QED  BY <1>7, <3>1
    <2>2. CASE IsHit(q, r, p)
      <3>1. Good(p, k)
        BY <1>2, <1>8, <2>0, <2>2 DEF IsHit, CacheHoldsOwn
      <3> QED  BY <1>7, <3>1
    <2>3. ~IsNew(q, o, h, t, r, p)
      BY <1>8 DEF IsNew
    <2> QED  BY <1>4, <2>1, <2>2, <2>3
  <1>9. PagesHoldOwn'
    <2> SUFFICES ASSUME NEW p \in Pages \ {NullPage}, NEW r \in Holders(p)', Filled(r[2], computed'[r[1]])
                 PROVE  Good(p, Key(r))'
      BY DEF PagesHoldOwn, Key, Filled
    <2>1. PICK k : k = Key(r)
      OBVIOUS
    <2>2. Good(p, k)'
      BY <1>8, <2>1
    <2> QED  BY <2>1, <2>2 DEF Good, Pending, Key
  <1>10. CacheHoldsOwn'
    <2> SUFFICES ASSUME NEW k \in Keys, NEW p \in Entries(pool'.cache[k]) PROVE Good(p, k)'
      BY DEF CacheHoldsOwn
    <2>0. p \in Pages
      BY <1>6
    <2>1. CASE p \in Entries(pool.cache[k])
      <3>1. Good(p, k)
        BY <1>2, <2>1 DEF CacheHoldsOwn
      <3> QED  BY <1>7, <2>0, <3>1
    <2>2. CASE \E i \in C : t[i] = p /\ KeyOf[q][i] = k
      <3>1. PICK i \in C : t[i] = p /\ KeyOf[q][i] = k
        BY <2>2
      <3>2. PICK r : /\ r = <<q, i>> /\ r \in Holders(p)' /\ Key(r) = k /\ p # NullPage
                     /\ r[1] = q /\ r[2] = i /\ Filled(i, Reach(q)')
        BY <1>5, <2>0, <3>1
      <3>3. CASE Filled(i, done)
        BY <1>3, <1>8, <2>0, <3>2, <3>3
      <3>4. CASE ~Filled(i, done)
        <4>1. Filled(r[2], Reach(r[1]))' /\ ~Filled(r[2], computed[r[1]])' /\ Key(r)' = k
          BY <1>3, <3>2, <3>4 DEF Filled, Key
        <4>2. Pending(p, k)'
          BY <1>2, <3>2, <4>1 DEF Pending
        <4> QED  BY <4>2 DEF Good
      <3> QED  BY <3>3, <3>4
    <2> QED  BY <1>1, <2>1, <2>2
  <1> QED  BY <1>9, <1>10 DEF ContentInv

LEMMA GrownConnKeeps ==
    ASSUME PoolInv, NEW q \in Requests, NEW o, NEW h, NEW t, NEW C, NEW done, NEW n,
           Grows(q, o, h, t, C, done, n)
    PROVE  ConnInv'
  <1>1. /\ UNCHANGED <<harmed, loc, complete, reqTable, prefillDone, copy, acc, fresh, old>>
        /\ status' = [status EXCEPT ![q] = "running"] /\ status[q] # "finished" /\ computed[q] <= done /\ done \in Nat
    BY DEF Grows, connVars
  <1>2. /\ NullMeansOffloaded /\ StoresListed /\ Located /\ CopiesHoldOwn
        /\ status \in [Requests -> {"waiting", "running", "preempted", "finished"}]
        /\ acc \cup fresh \cup old \subseteq [ref : Refs, page : Pages] /\ CacheMarked
    BY DEF PoolInv, ConnInv, HashInv, PoolTyped, TablesTyped, ConnTyped
  <1>3. /\ \A u \in Requests : u # q => computed'[u] = computed[u]
        /\ computed'[q] = done /\ computed[q] \in Nat
    BY GrownFrame
  <1>4. \A p \in Pages : /\ Holders(p) \subseteq Holders(p)'
                         /\ \A r \in Holders(p)' : Stays(r, p) \/ IsHit(q, r, p) \/ IsNew(q, o, h, t, r, p)
    BY GrownHolders
  <1>5. NullMeansOffloaded'
    <2> SUFFICES ASSUME NEW r \in Holders(NullPage)' PROVE loc'[r] = OnCpu
      BY DEF NullMeansOffloaded
    <2>1. NullPage \in Pages
      BY PoolAssumption DEF Pages, NullPage
    <2>2. Key(r) \in Keys
      BY HoldersForm2, RefForm
    <2>3. ~IsHit(q, r, NullPage)
      BY <1>2, <2>2 DEF IsHit, CacheMarked
    <2>4. ~IsNew(q, o, h, t, r, NullPage)
      BY DEF IsNew
    <2>5. r \in Holders(NullPage)
      BY <1>4, <2>1, <2>3, <2>4 DEF Stays
    <2> QED  BY <1>1, <1>2, <2>5 DEF NullMeansOffloaded
  <1>6. StoresListed'
    <2> SUFFICES ASSUME NEW e \in acc \cup fresh \cup old
                 PROVE  loc[e.ref] = OnCpu \/ status'[e.ref[1]] = "finished"
      BY <1>1 DEF StoresListed
    <2>1. e.ref \in Refs
      BY <1>2
    <2>2. e.ref[1] \in Requests
      BY <2>1, RefForm
    <2>3. loc[e.ref] = OnCpu \/ status[e.ref[1]] = "finished"
      BY <1>2 DEF StoresListed
    <2> QED  BY <1>1, <1>2, <2>2, <2>3
  <1>7. Located'
    <2> SUFFICES ASSUME NEW r \in Refs, r[1] \notin harmed, loc[r] \in Pages
                 PROVE  /\ r[2] <= Len(reqTable[r[1]]) /\ r \in Holders(loc[r])'
                        /\ r \in complete => Filled(r[2], computed'[r[1]])
      BY <1>1 DEF Located, Filled
    <2>1. /\ r[2] <= Len(reqTable[r[1]]) /\ r \in Holders(loc[r])
          /\ r \in complete => Filled(r[2], computed[r[1]])
      BY <1>2 DEF Located
    <2>2. PICK p \in Pages : p = loc[r] /\ r \in Holders(p)
      BY <2>1
    <2>3. r \in Holders(p)'
      BY <1>4, <2>2
    <2>4. Filled(r[2], computed[r[1]]) => Filled(r[2], computed'[r[1]])
      <3>1. CASE r[1] = q
        <4>1. PICK m \in Nat : m = r[2] * PageSize
          BY RefForm, PageSteps
        <4> QED  BY <1>1, <1>3, <3>1, <4>1 DEF Filled
      <3>2. CASE r[1] # q
        BY <1>3, <3>2, RefForm
      <3> QED  BY <3>1, <3>2
    <2>5. r \in Holders(loc[r])'
      BY <1>1, <2>2, <2>3 DEF Holders
    <2> QED  BY <2>1, <2>4, <2>5
  <1>8. CopiesHoldOwn'
    BY <1>1, <1>2 DEF CopiesHoldOwn
  <1> QED  BY <1>5, <1>6, <1>7, <1>8 DEF ConnInv

LEMMA GrownTyped ==
    ASSUME PoolInv, NEW q \in Requests, NEW o, NEW h, NEW t, NEW C, NEW done, NEW n,
           Grows(q, o, h, t, C, done, n)
    PROVE  PoolTyped' /\ Booked'
  <1>1. /\ done + n <= Len(t) * PageSize /\ done + n <= total[q] /\ n \in 1 .. MaxChunk /\ done \in Nat
        /\ table' = [table EXCEPT ![q] = t]
        /\ computed' = [computed EXCEPT ![q] = done]
        /\ sched' = [sched EXCEPT ![q] = n]
        /\ status' = [status EXCEPT ![q] = "running"]
        /\ UNCHANGED <<kv, total, harmed, mishaps, connVars, pc, todo>>
    BY DEF Grows
  <1>2. t \in Seq(Pages) /\ Len(t) <= Len(KeyOf[q]) /\ pool' \in PoolRecords
    BY DEF Grows, GrownTable, GrownQueue
  <1>3. PICK c \in Nat : c <= Len(KeyOf[q]) /\ nCached' = [nCached EXCEPT ![q] = c]
    BY DEF Grows
  <1>4. PoolTyped /\ Booked
    BY DEF PoolInv
  <1>5. TablesTyped'
    <2>1. TablesTyped
      BY <1>4 DEF PoolTyped
    <2>2. n \in 0 .. MaxChunk
      BY <1>1, PoolAssumption
    <2>3. PICK new \in Nat : unseen' = [unseen EXCEPT ![q] = new]
      <3>1. /\ o \in Nat /\ h \in Nat /\ o + h <= Len(t)
            /\ unseen' = [unseen EXCEPT ![q] = Len(t) - o]
        BY DEF Grows, GrownTable
      <3>2. Len(t) \in Nat
        BY <1>2, LenProperties
      <3>3. Len(t) - o \in Nat
        BY <3>1, <3>2
      <3> QED  BY <3>1, <3>3
    <2> QED  BY <1>1, <1>2, <1>3, <2>1, <2>2, <2>3 DEF TablesTyped
  <1>6. PoolTyped'
    BY <1>1, <1>2, <1>4, <1>5 DEF PoolTyped, ConnTyped, connVars
  <1>7. /\ \A u \in Requests : u # q => /\ table'[u] = table[u] /\ computed'[u] = computed[u]
                                        /\ sched'[u] = sched[u] /\ Reach(u)' = Reach(u)
        /\ table'[q] = t /\ Reach(q)' = done + n
    BY GrownFrame
  <1>8. status'[q] = "running" /\ nCached'[q] = c /\ reqTable' = reqTable /\ total' = total
    BY <1>1, <1>3, <1>4 DEF PoolTyped, TablesTyped, connVars
  <1>9. \A u \in Requests : u # q => status'[u] = status[u] /\ nCached'[u] = nCached[u]
    BY <1>1, <1>3, <1>4 DEF PoolTyped, TablesTyped
  <1>10. Booked'
    <2> SUFFICES ASSUME NEW u \in Requests
                 PROVE  /\ status'[u] # "running" =>
                              table'[u] = <<>> /\ nCached'[u] = 0 /\ computed'[u] = 0 /\ sched'[u] = 0
                        /\ Reach(u)' <= total'[u] /\ total'[u] <= MaxTokens(u)
                        /\ Reach(u)' <= Len(table'[u]) * PageSize
                        /\ nCached'[u] <= Len(KeyOf[u]) /\ Len(reqTable'[u]) <= Len(KeyOf[u])
                        /\ Len(table'[u]) <= Len(KeyOf[u])
      BY DEF Booked, MaxTokens
    <2>1. CASE u = q
      BY <1>1, <1>2, <1>3, <1>4, <1>7, <1>8, <2>1 DEF Booked
    <2>2. CASE u # q
      BY <1>4, <1>7, <1>8, <1>9, <2>2 DEF Booked
    <2> QED  BY <2>1, <2>2
  <1> QED  BY <1>6, <1>10

\* The blocks it got are the ones the connector has not seen.
LEMMA GrownMirrorKeeps ==
    ASSUME PoolInv, NEW q \in Requests, NEW o, NEW h, NEW t, NEW C, NEW done, NEW n,
           Grows(q, o, h, t, C, done, n)
    PROVE  MirrorInv'
  <1>1. /\ pc = "sched" /\ sched[q] = 0 /\ n \in 1 .. MaxChunk
        /\ unseen' = [unseen EXCEPT ![q] = Len(t) - o]
        /\ UNCHANGED <<harmed, reqTable, pc, todo>>
    BY DEF Grows, connVars
  <1>2. /\ o \in Nat /\ h \in Nat /\ o + h <= Len(t) /\ t \in Seq(Pages)
        /\ DOMAIN table[q] = 1 .. o /\ Len(table[q]) = o /\ \A i \in 1 .. o : t[i] = table[q][i]
    BY DEF Grows, GrownTable
  <1>3. /\ \A u \in Requests : u # q => table'[u] = table[u] /\ sched'[u] = sched[u]
        /\ table'[q] = t /\ sched'[q] = n
    BY GrownFrame
  <1>4. /\ MirrorInv /\ unseen \in [Requests -> Nat]
        /\ reqTable \in [Requests -> Seq(Pages)]
    BY DEF PoolInv, PoolTyped, TablesTyped, ConnTyped
  <1>5. PICK e \in Nat : e = Len(t)
    BY <1>2, LenProperties
  <1>6. /\ unseen'[q] = e - o /\ \A u \in Requests : u # q => unseen'[u] = unseen[u]
    BY <1>1, <1>4, <1>5
  <1>7. unseen[q] = 0
    <2>1. ~(unseen[q] > 0)
      BY <1>1, <1>4 DEF MirrorInv, Listed
    <2> QED  BY <1>4, <2>1
  <1>8. Listed'
    <2> SUFFICES ASSUME NEW u \in Requests
                 PROVE  /\ unseen'[u] <= Len(table'[u])
                        /\ unseen'[u] > 0 => sched'[u] > 0 /\ (pc = "sched" \/ (pc = "meta" /\ u \in todo))
      BY <1>1 DEF Listed
    <2>1. CASE u = q
      <3>1. n > 0
        BY <1>1
      <3> QED  BY <1>1, <1>2, <1>3, <1>5, <1>6, <2>1, <3>1
    <2>2. CASE u # q
      BY <1>3, <1>4, <1>6, <2>2 DEF MirrorInv, Listed
    <2> QED  BY <2>1, <2>2
  <1>9. Mirrored'
    <2> SUFFICES ASSUME NEW u \in Requests, u \notin harmed
                 PROVE  /\ Len(reqTable[u]) + unseen'[u] = Len(table'[u])
                        /\ \A i \in DOMAIN reqTable[u] : reqTable[u][i] = table'[u][i]
      BY <1>1 DEF Mirrored
    <2>1. /\ Len(reqTable[u]) + unseen[u] = Len(table[u])
          /\ \A i \in DOMAIN reqTable[u] : reqTable[u][i] = table[u][i]
      BY <1>4 DEF MirrorInv, Mirrored
    <2>2. CASE u = q
      <3>1. PICK m \in Nat : m = Len(reqTable[q]) /\ DOMAIN reqTable[q] = 1 .. m
        BY <1>4, LenProperties
      <3>2. m = o
        BY <1>2, <1>7, <2>1, <2>2, <3>1
      <3>3. m + unseen'[q] = e
        BY <1>2, <1>6, <3>2
      <3> QED  BY <1>2, <1>3, <1>5, <2>1, <2>2, <3>1, <3>2, <3>3
    <2>3. CASE u # q
      BY <1>3, <1>6, <2>1, <2>3
    <2> QED  BY <2>2, <2>3
  <1> QED  BY <1>8, <1>9 DEF MirrorInv

LEMMA AllocateKeeps ==
    ASSUME PoolInv, NEW q \in Requests, NEW hits, NEW done, NEW n, Allocates(q, hits, done, n)
    PROVE  PoolInv'
  <1>1. PICK o, h, t, C :
              /\ GrownTable(q, o, h, t) /\ GrownQueue(o, t) /\ GrownHashes(q, o, h, t, C)
              /\ \A i \in C : Filled(i, done + n)
              /\ table' = [table EXCEPT ![q] = t] /\ h = Len(hits)
              /\ done + n <= Len(t) * PageSize /\ done + n <= total[q]
              /\ nCached'[q] \in Nat /\ nCached'[q] <= Len(KeyOf[q])
              /\ unseen' = [unseen EXCEPT ![q] = Len(t) - o]
    BY AllocateGrows
  <1>2. /\ pc = "sched" /\ status[q] # "finished" /\ sched[q] = 0
        /\ n \in 1 .. MaxChunk /\ done \in Nat /\ computed[q] <= done
        /\ (table[q] = <<>> /\ nCached[q] = 0) \/ (hits = <<>> /\ done = computed[q])
        /\ Len(hits) * PageSize <= done /\ done <= (Len(table[q]) + Len(hits)) * PageSize
    BY DEF Allocates
  <1>3. /\ computed' = [computed EXCEPT ![q] = done]
        /\ sched' = [sched EXCEPT ![q] = n]
        /\ status' = [status EXCEPT ![q] = "running"]
        /\ UNCHANGED <<kv, total, harmed, mishaps, connVars, pc, todo>>
        /\ \E c : nCached' = [nCached EXCEPT ![q] = c]
    BY DEF Allocates, AllocateSlots
  <1>4. \E c \in Nat : c <= Len(KeyOf[q]) /\ nCached' = [nCached EXCEPT ![q] = c]
    <2>1. PICK c : nCached' = [nCached EXCEPT ![q] = c]
      BY <1>3
    <2>2. nCached'[q] = c
      BY <2>1 DEF PoolInv, PoolTyped, TablesTyped
    <2> QED  BY <1>1, <2>1, <2>2
  <1>5. Len(table[q]) = o
    BY <1>1 DEF GrownTable
  <1>6. /\ o = 0 \/ (h = 0 /\ done = computed[q])
        /\ h * PageSize <= done /\ done <= (o + h) * PageSize
    BY <1>1, <1>2, <1>5, EmptySeq
  <1>7. Grows(q, o, h, t, C, done, n)
    BY <1>1, <1>2, <1>3, <1>4, <1>6 DEF Grows
  <1>8. PoolTyped' /\ Booked'
    BY <1>7, GrownTyped
  <1>9. QueueInv'
    BY <1>7, GrownQueueKeeps
  <1>10. HashInv'
    BY <1>7, GrownHashKeeps
  <1>11. ContentInv'
    BY <1>7, GrownContentKeeps
  <1>12. ConnInv'
    BY <1>7, GrownConnKeeps
  <1>13. MirrorInv'
    BY <1>7, GrownMirrorKeeps
  <1> QED  BY <1>8, <1>9, <1>10, <1>11, <1>12, <1>13 DEF PoolInv

LEMMA AdmitKeeps ==
    ASSUME PoolInv, NEW q \in Requests, NEW n \in 1 .. MaxChunk, Admit(q, n)
    PROVE  PoolInv'
  <1>1. PICK hits : hits = Hits(q)
    OBVIOUS
  <1>2. /\ hits \in Seq(Pages) /\ Len(hits) <= Len(KeyOf[q])
        /\ \A i \in 1 .. Len(hits) : hits[i] \in Entries(pool.cache[KeyOf[q][i]])
    BY <1>1, HitsForm
  <1>3. PICK h \in Nat : h = Len(hits)
    BY <1>2, LenProperties
  <1>4. PICK done \in Nat : done = h * PageSize
    BY PageSteps
  <1>5. /\ pc = "sched" /\ status[q] \in {"waiting", "preempted"}
        /\ AllocateSlots(q, hits, done, n)
    BY <1>1, <1>3, <1>4 DEF Admit
  <1>6. table[q] = <<>> /\ nCached[q] = 0 /\ computed[q] = 0 /\ sched[q] = 0
    BY <1>5 DEF PoolInv, Booked
  <1>7. Len(table[q]) = 0
    BY <1>6
  <1>8. Len(hits) * PageSize <= done /\ done <= (Len(table[q]) + Len(hits)) * PageSize
    BY <1>3, <1>4, <1>7
  <1>9. Allocates(q, hits, done, n)
    BY <1>2, <1>5, <1>6, <1>8 DEF Allocates
  <1> QED  BY <1>9, AllocateKeeps

LEMMA ContinueKeeps ==
    ASSUME PoolInv, NEW q \in Requests, NEW n \in 1 .. MaxChunk, Continue(q, n)
    PROVE  PoolInv'
  <1>1. PICK done, hits : done = computed[q] /\ hits = <<>>
    OBVIOUS
  <1>2. /\ pc = "sched" /\ status[q] = "running" /\ sched[q] = 0
        /\ AllocateSlots(q, hits, done, n)
    BY <1>1 DEF Continue
  <1>3. done \in Nat /\ PoolTyped /\ Booked
    BY <1>1 DEF PoolInv, PoolTyped, TablesTyped
  <1>4. hits \in Seq(Pages) /\ Len(hits) = 0
    BY <1>1
  <1>5. done <= Len(table[q]) * PageSize
    <2>1. Reach(q) = done
      BY <1>1, <1>2, <1>3 DEF Reach
    <2> QED  BY <1>3, <2>1 DEF Booked
  <1>6. PICK m \in Nat : m = Len(table[q])
    BY <1>3, TableForm
  <1>7. Len(hits) * PageSize <= done /\ done <= (Len(table[q]) + Len(hits)) * PageSize
    BY <1>3, <1>4, <1>5, <1>6, PoolAssumption
  <1>8. Len(hits) <= Len(KeyOf[q])
    BY <1>4, RefForm
  <1>9. \A i \in 1 .. Len(hits) : hits[i] \in Entries(pool.cache[KeyOf[q][i]])
    BY <1>4
  <1>10. Allocates(q, hits, done, n)
    BY <1>1, <1>2, <1>3, <1>4, <1>7, <1>8, <1>9 DEF Allocates
  <1> QED  BY <1>10, AllocateKeeps

-----------------------------------------------------------------------------
(* The theorems *)

LEMMA PoolStutters == ASSUME PoolInv, UNCHANGED vars PROVE PoolInv'
  <1>1. UNCHANGED <<pool, kv, status, table, nCached, computed, total, sched, unseen, harmed, mishaps, tail, loc,
                    complete, reqTable, prefillDone, copy, acc, fresh, old, pc, todo>>
    BY DEF vars, tableVars, connVars
  <1>2. \A p : Holders(p)' = Holders(p)
    BY <1>1 DEF Holders
  <1>3. \A u : Reach(u)' = Reach(u)
    BY <1>1 DEF Reach
  <1>4. \A p, k : Good(p, k)' = Good(p, k)
    BY <1>1 DEF Good, Pending, Holders, Reach, Key, Filled
  <1>5. PoolTyped' /\ Booked'
    BY <1>1, <1>3 DEF PoolInv, PoolTyped, TablesTyped, ConnTyped, Booked
  <1>6. QueueInv'
    BY <1>1, <1>2 DEF PoolInv, QueueInv, Counted, Queued
  <1>7. TailApart' /\ CacheMarked'
    BY <1>1, <1>2 DEF PoolInv, HashInv, TailApart, CacheMarked
  <1>8. Shared' /\ Hashed'
    BY <1>1, <1>2, <1>3 DEF PoolInv, HashInv, Shared, Hashed, Key, Filled
  <1>9. CacheHoldsOwn' /\ PagesHoldOwn'
    BY <1>1, <1>2, <1>4 DEF PoolInv, ContentInv, CacheHoldsOwn, PagesHoldOwn, Key, Filled
  <1>10. ConnInv'
    BY <1>1, <1>2 DEF PoolInv, ConnInv, NullMeansOffloaded, StoresListed, Located, CopiesHoldOwn
  <1>11. MirrorInv'
    BY <1>1 DEF PoolInv, MirrorInv, Listed, Mirrored
  <1> QED  BY <1>5, <1>6, <1>7, <1>8, <1>9, <1>10, <1>11 DEF PoolInv, HashInv, ContentInv

LEMMA PoolStep == ASSUME PoolInv, [Next]_vars PROVE PoolInv'
  <1>1. CASE BindGpuBlockPool
    BY <1>1, BindKeeps
  <1>2. ASSUME NEW q \in Requests, NEW n \in 1 .. MaxChunk, Admit(q, n) PROVE PoolInv'
    BY <1>2, AdmitKeeps
  <1>3. ASSUME NEW q \in Requests, NEW n \in 1 .. MaxChunk, Continue(q, n) PROVE PoolInv'
    BY <1>3, ContinueKeeps
  <1>4. ASSUME NEW q \in Requests, Preempt(q) PROVE PoolInv'
    BY <1>4, PreemptKeeps
  <1>5. ASSUME NEW q \in Requests, Finish(q) PROVE PoolInv'
    BY <1>5, FinishKeeps
  <1>6. CASE ResetPrefixCache
    BY <1>6, ResetKeeps
  <1>7. CASE BuildConnectorMeta
    BY <1>7, BuildKeeps
  <1>8. ASSUME NEW q \in Requests, SyncRequestBlocks(q) PROVE PoolInv'
    BY <1>8, SyncKeeps
  <1>9. ASSUME NEW E \in (SUBSET Allowed) \ {{}}, TriggerGlobalOffload(E) PROVE PoolInv'
    BY <1>9, TriggerKeeps
  <1>10. CASE Run
    BY <1>10, RunKeeps
  <1>11. ASSUME NEW now \in BOOLEAN, Report(now) PROVE PoolInv'
    BY <1>11, ReportKeeps
  <1>12. CASE UNCHANGED vars
    BY <1>12, PoolStutters
  <1>13. ASSUME NEW E \in SUBSET Allowed, TriggerRaises(E) PROVE PoolInv'
    BY <1>13, RaisesKeeps
  <1>14. CASE Flush
    BY <1>14, FlushKeeps
  <1> QED
    BY <1>1, <1>2, <1>3, <1>4, <1>5, <1>6, <1>7, <1>8, <1>9, <1>10, <1>11, <1>12, <1>13, <1>14,
       ZenonT(40) DEF Next

\* References, hashes, pages and copies belong together in every state the
\* scheduler, the block pool and the connector reach.
THEOREM PoolInvariant == Spec => []PoolInv
  <1>1. Init => PoolInv
    BY InitPool
  <1>2. PoolInv /\ [Next]_vars => PoolInv'
    BY PoolStep
  <1> QED  BY <1>1, <1>2, PTL DEF Spec

\* Every variable keeps its type: no table, count or batch of stores grows past
\* the blocks of its request, and no request is booked more tokens than it knows.
THEOREM PoolTypeCorrect == Spec => []PoolTypeOK
  <1>1. ASSUME PoolInv PROVE PoolTypeOK
    <2>1. PoolTyped /\ Booked
      BY <1>1 DEF PoolInv
    <2>2. /\ pool.ref \in [Pages -> Nat] /\ pool.hash \in [Pages -> Keys \cup {NoKey}]
          /\ Entries(pool.free) \subseteq Pages
          /\ \A k \in Keys : Entries(pool.cache[k]) \subseteq Pages
      <3>1. /\ pool.ref \in [Pages -> Nat] /\ pool.hash \in [Pages -> Keys \cup {NoKey}]
            /\ pool.free \in Seq(Pages) /\ \A k \in Keys : pool.cache[k] \in Seq(Pages)
        BY <2>1, PoolFields DEF PoolTyped
      <3> QED  BY <3>1, DistinctLen
    <2>3. ASSUME NEW q \in Requests
          PROVE  /\ Entries(table[q]) \subseteq Pages
                 /\ {nCached[q], Len(reqTable[q]), Len(table[q])} \subseteq 0 .. Len(KeyOf[q])
                 /\ computed[q] \in 0 .. total[q] /\ total[q] \in 0 .. MaxTokens(q)
                 /\ sched[q] \in 0 .. MaxChunk /\ unseen[q] \in 0 .. Len(table[q])
                 /\ Entries(reqTable[q]) \subseteq Pages
      <3>1. Entries(table[q]) \subseteq Pages /\ Entries(reqTable[q]) \subseteq Pages
        BY <2>1, DistinctLen DEF PoolTyped, TablesTyped, ConnTyped
      <3>2. /\ nCached[q] \in Nat /\ Len(reqTable[q]) \in Nat /\ Len(table[q]) \in Nat /\ Len(KeyOf[q]) \in Nat
            /\ computed[q] \in Nat /\ total[q] \in Nat /\ sched[q] \in 0 .. MaxChunk
        BY <2>1, TableForm, RefForm, SMTT(30) DEF PoolTyped, TablesTyped, ConnTyped
      <3>3. /\ nCached[q] <= Len(KeyOf[q]) /\ Len(reqTable[q]) <= Len(KeyOf[q])
            /\ Len(table[q]) <= Len(KeyOf[q]) /\ Reach(q) <= total[q] /\ total[q] <= MaxTokens(q)
        BY <2>1 DEF Booked
      <3>4. computed[q] <= Reach(q) /\ Reach(q) \in Nat /\ MaxTokens(q) \in Nat
        BY <3>2, PoolAssumption, SMTT(30) DEF Reach, MaxTokens
      <3>5. computed[q] \in 0 .. total[q] /\ total[q] \in 0 .. MaxTokens(q)
        BY <3>2, <3>3, <3>4
      <3>6. {nCached[q], Len(reqTable[q]), Len(table[q])} \subseteq 0 .. Len(KeyOf[q])
        BY <3>2, <3>3
      <3>7. unseen[q] \in 0 .. Len(table[q])
        <4>1. unseen[q] \in Nat /\ unseen[q] <= Len(table[q])
          BY <1>1, <2>1 DEF PoolTyped, TablesTyped, PoolInv, MirrorInv, Listed
        <4> QED  BY <3>2, <4>1
      <3> QED  BY <3>1, <3>2, <3>5, <3>6, <3>7
    <2>4. \A e \in acc \cup fresh \cup old : e.ref \in Refs /\ e.page \in Pages
      BY <2>1 DEF PoolTyped, ConnTyped
    <2>5. \A r \in Refs : loc[r] \in Pages \cup {OnCpu, Nowhere}
      BY <2>1 DEF PoolTyped, ConnTyped
    <2>6. {harmed, prefillDone, todo} \subseteq SUBSET Requests /\ mishaps \in 0 .. MaxMishaps
      BY <2>1 DEF PoolTyped, TablesTyped, ConnTyped
    <2> QED  BY <2>1, <2>2, <2>3, <2>4, <2>5, <2>6 DEF PoolTypeOK, PoolTyped, TablesTyped, ConnTyped
  <1> QED  BY <1>1, PoolInvariant, PTL

\* The ref_cnt of a page is the number of tables that hold it, and the free queue
\* is the unreferenced pages, each once: touch, get_new_blocks, free_blocks and the
\* true freeing after a store neither leak a page nor give one back twice.
THEOREM PagesAreConserved == Spec => []PagesConserved
  <1>1. ASSUME PoolInv PROVE PagesConserved
    <2>1. pool.free \in Seq(Pages) /\ Counted /\ Queued(pool)
      BY <1>1, PoolFields DEF PoolInv, PoolTyped, QueueInv
    <2>2. Len(pool.free) = Cardinality(Entries(pool.free))
      BY <2>1, DistinctLen DEF Queued
    <2> QED  BY <2>1, <2>2 DEF PagesConserved, Counted, Holders, Queued
  <1> QED  BY <1>1, PoolInvariant, PTL

\* No page of the tail that reserve_staging_tail sets aside is ever handed to a
\* request or found by a prefix lookup.
THEOREM TailIsNeverAllocated == Spec => []TailNeverAllocated
  <1>1. ASSUME PoolInv PROVE TailNeverAllocated
    <2>1. PoolTyped /\ Booked /\ TailApart
      BY <1>1 DEF PoolInv, HashInv
    <2>2. ASSUME NEW p \in tail, NEW q \in Requests PROVE p \notin Entries(table[q])
      <3> SUFFICES ASSUME NEW i \in DOMAIN table[q], table[q][i] = p PROVE FALSE
        BY DEF Entries
      <3>1. <<q, i>> \in Holders(p)
        BY <2>1, TableForm
      <3> QED  BY <2>1, <2>2, <3>1 DEF TailApart
    <2> QED  BY <2>1, <2>2 DEF TailNeverAllocated, TailApart
  <1> QED  BY <1>1, PoolInvariant, PTL

\* What find_longest_cache_hit can find under a key carries that key and, between
\* steps, holds its rows: get_new_blocks and the true freeing evict in time.
THEOREM CacheIsSound == Spec => []CacheSound
  <1>1. ASSUME PoolInv PROVE CacheSound
    <2> SUFFICES ASSUME NEW k \in Keys, NEW p \in Entries(pool.cache[k])
                 PROVE  /\ pool.hash[p] = k
                        /\ pc = "sched" /\ (\A q \in Requests : sched[q] = 0) => kv[p] = k
      BY DEF CacheSound
    <2>1. pool.hash[p] = k /\ Good(p, k)
      BY <1>1 DEF PoolInv, HashInv, CacheMarked, ContentInv, CacheHoldsOwn
    <2>2. ASSUME pc = "sched", \A q \in Requests : sched[q] = 0 PROVE ~Pending(p, k)
      <3> SUFFICES ASSUME NEW s \in Holders(p), Filled(s[2], Reach(s[1])), ~Filled(s[2], computed[s[1]])
                   PROVE  FALSE
        BY DEF Pending
      <3>1. s[1] \in Requests
        BY HoldersForm, RefForm
      <3>2. computed[s[1]] \in Nat
        BY <1>1, <3>1 DEF PoolInv, PoolTyped, TablesTyped
      <3>3. Reach(s[1]) = computed[s[1]]
        BY <2>2, <3>1, <3>2 DEF Reach
      <3> QED  BY <3>3
    <2> QED  BY <2>1, <2>2 DEF Good
  <1> QED  BY <1>1, PoolInvariant, PTL

\* After the forward pass every full block of a table sits on a page with its own
\* rows, however many requests share the page, or is the null block of a block that
\* the surgery of _process_store_completion took out.
THEOREM FullBlocksHoldTheirRows == Spec => []TablesHoldOwn
  <1>1. ASSUME PoolInv PROVE TablesHoldOwn
    <2> SUFFICES ASSUME pc = "update", NEW r \in Refs, r[2] \in DOMAIN table[r[1]],
                        Filled(r[2], computed[r[1]]), NEW p, p = table[r[1]][r[2]]
                 PROVE  IF p = NullPage THEN loc[r] = OnCpu ELSE kv[p] = KeyOf[r[1]][r[2]]
      BY Zenon DEF TablesHoldOwn
    <2>1. r \in Holders(p) /\ p \in Pages
      <3>1. r[1] \in Requests
        BY RefForm
      <3>2. p \in Pages
        BY <1>1, <3>1, TableForm DEF PoolInv
      <3> QED  BY <3>2 DEF Holders
    <2>2. CASE p = NullPage
      BY <1>1, <2>1, <2>2 DEF PoolInv, ConnInv, NullMeansOffloaded
    <2>3. CASE p # NullPage
      <3>1. Good(p, Key(r))
        BY <1>1, <2>1, <2>3 DEF PoolInv, ContentInv, PagesHoldOwn
      <3>2. kv[p] = Key(r)
        BY <3>1 DEF Good, Pending
      <3> QED  BY <2>3, <3>2 DEF Key
    <2> QED  BY <2>2, <2>3
  <1> QED  BY <1>1, PoolInvariant, PTL

\* The CPU copy that _trigger_global_offload makes of a block holds the rows of that
\* block, and keeps them, unless the request of the block was preempted or got blocks
\* in a step that raised before it was synced.
THEOREM CopiesHoldTheirRows == Spec => []CopiesHoldOwn
  <1>1. PoolInv => CopiesHoldOwn
    BY DEF PoolInv, ConnInv
  <1> QED  BY <1>1, PoolInvariant, PTL

\* Every page without a hash is before every cached page in the free queue, whatever
\* free_blocks puts back: a cached prefix is evicted last.
THEOREM CachedPagesAreReusedLast == Spec => []UncachedReusedFirst
  <1>1. PoolInv => UncachedReusedFirst
    BY DEF PoolInv, QueueInv, Queued, HashedLast, UncachedReusedFirst
  <1> QED  BY <1>1, PoolInvariant, PTL

=============================================================================
