--------------------------- MODULE SequenceLemmas ---------------------------
(***************************************************************************)
(* Facts about numbers and sequences that the proofs of several components *)
(* use.                                                                    *)
(***************************************************************************)
EXTENDS Integers, Sequences, SequenceTheorems, WellFoundedInduction, TLAPS

\* The least-element principle, in place of induction.
LEMMA LeastElement ==
    ASSUME NEW T \in SUBSET Nat, T # {}
    PROVE  \E n \in T : \A m \in T : n <= m
  <1>1. PICK n \in T : \A m \in T : ~(<<m, n>> \in OpToRel(<, Nat))
    BY NatLessThanWellFounded, WFMin
  <1>2. \A m \in T : ~(m < n)
    BY <1>1 DEF OpToRel
  <1> QED  BY <1>2

\* The indices of a longer sequence, and what is at them.
LEMMA AppendIndices ==
    ASSUME NEW S, NEW s \in Seq(S), NEW x \in S
    PROVE  /\ Append(s, x) \in Seq(S) /\ Append(s, x) # <<>> /\ Len(Append(s, x)) = Len(s) + 1
           /\ DOMAIN s = 1 .. Len(s) /\ Len(s) \in Nat
           /\ DOMAIN Append(s, x) = DOMAIN s \cup {Len(s) + 1}
           /\ \A i \in DOMAIN s : Append(s, x)[i] = s[i]
           /\ Append(s, x)[Len(s) + 1] = x
  <1>1. Append(s, x) \in Seq(S) /\ Len(Append(s, x)) = Len(s) + 1
    BY AppendProperties
  <1>2. DOMAIN s = 1 .. Len(s) /\ Len(s) \in Nat
    BY LenProperties
  <1>3. DOMAIN Append(s, x) = 1 .. Len(s) + 1
    BY <1>1, LenProperties
  <1> QED  BY <1>1, <1>2, <1>3, AppendProperties

\* The indices of a shorter one.
LEMMA TailIndices ==
    ASSUME NEW S, NEW s \in Seq(S), s # <<>>
    PROVE  /\ Tail(s) \in Seq(S) /\ Head(s) \in S /\ Head(s) = s[1] /\ 1 \in DOMAIN s
           /\ \A i \in DOMAIN Tail(s) : i \in Nat /\ i > 0 /\ i + 1 \in DOMAIN s /\ Tail(s)[i] = s[i + 1]
           /\ \A i \in DOMAIN s : i = 1 \/ (i - 1 \in DOMAIN Tail(s) /\ Tail(s)[i - 1] = s[i])
  <1>1. Len(s) \in Nat /\ DOMAIN s = 1 .. Len(s)
    BY LenProperties
  <1>2. Len(s) > 0
    BY <1>1, EmptySeq, SeqEqual
  <1>3. /\ Tail(s) \in Seq(S) /\ Head(s) \in S /\ Len(Tail(s)) = Len(s) - 1
        /\ \A i \in 1 .. Len(Tail(s)) : Tail(s)[i] = s[i + 1]
    BY HeadTailProperties
  <1>4. DOMAIN Tail(s) = 1 .. Len(s) - 1
    BY <1>3, LenProperties
  <1>5. Head(s) = s[1]
    OBVIOUS
  <1>6. \A i \in DOMAIN s : i = 1 \/ (i - 1 \in 1 .. Len(s) - 1 /\ (i - 1) + 1 = i)
    BY <1>1, <1>2
  <1> QED  BY <1>1, <1>2, <1>3, <1>4, <1>5, <1>6

\* A prefix and the rest of a sequence make the sequence.
LEMMA PrefixAndRest ==
    ASSUME NEW S, NEW t \in Seq(S), NEW r \in Seq(S), Len(r) <= Len(t),
           \A i \in 1 .. Len(r) : r[i] = t[i],
           NEW m \in Int, m = Len(r) + 1,
           NEW s, s = SubSeq(t, m, Len(t)), NEW u, u = r \o s
    PROVE  u = t
  <1>1. Len(t) \in Nat /\ Len(r) \in Nat /\ m >= 1
    BY LenProperties
  <1>2. \A i \in m .. Len(t) : t[i] \in S
    BY <1>1, ElementOfSeq
  <1>3. /\ s \in Seq(S) /\ Len(s) = IF m <= Len(t) THEN Len(t) - m + 1 ELSE 0
        /\ \A i \in 1 .. Len(t) - m + 1 : s[i] = t[m + i - 1]
    BY <1>1, <1>2, SubSeqProperties
  <1>4. Len(r) + Len(s) = Len(t)
    BY <1>1, <1>3
  <1>5. \A i \in 1 .. Len(s) : s[i] = t[Len(r) + i]
    BY <1>1, <1>3
  <1>6. /\ r \o s \in Seq(S) /\ Len(r \o s) = Len(r) + Len(s)
        /\ \A i \in 1 .. Len(r) + Len(s) :
              (r \o s)[i] = IF i <= Len(r) THEN r[i] ELSE s[i - Len(r)]
    BY <1>3, ConcatProperties
  <1>7. /\ u \in Seq(S) /\ Len(u) = Len(t)
        /\ \A i \in 1 .. Len(t) : u[i] = IF i <= Len(r) THEN r[i] ELSE s[i - Len(r)]
    BY <1>4, <1>6
  <1>8. ASSUME NEW i \in 1 .. Len(t) PROVE u[i] = t[i]
    <2>1. CASE i <= Len(r)
      BY <1>1, <1>7, <2>1
    <2>2. CASE ~(i <= Len(r))
      <3>1. i - Len(r) \in 1 .. Len(s) /\ Len(r) + (i - Len(r)) = i
        BY <1>1, <1>4, <2>2
      <3>2. s[i - Len(r)] = t[Len(r) + (i - Len(r))]
        BY <1>5, <3>1
      <3> QED  BY <1>7, <2>2, <3>1, <3>2
    <2> QED  BY <2>1, <2>2
  <1> QED  BY <1>7, <1>8, SeqEqual

\* The indices of a concatenation, and what is at them.
LEMMA ConcatIndices ==
    ASSUME NEW S, NEW t \in Seq(S), NEW g \in Seq(S), NEW u, u = t \o g
    PROVE  /\ u \in Seq(S) /\ Len(u) = Len(t) + Len(g)
           /\ Len(t) \in Nat /\ Len(g) \in Nat
           /\ DOMAIN t = 1 .. Len(t) /\ DOMAIN u = 1 .. Len(t) + Len(g)
           /\ \A i \in 1 .. Len(t) : u[i] = t[i]
           /\ \A i \in 1 .. Len(t) + Len(g) :
                 i > Len(t) => i - Len(t) \in 1 .. Len(g) /\ u[i] = g[i - Len(t)]
  <1>1. /\ u \in Seq(S) /\ Len(u) = Len(t) + Len(g)
        /\ \A i \in 1 .. Len(t) + Len(g) : u[i] = IF i <= Len(t) THEN t[i] ELSE g[i - Len(t)]
    BY ConcatProperties
  <1>2. Len(t) \in Nat /\ Len(g) \in Nat /\ DOMAIN t = 1 .. Len(t) /\ DOMAIN u = 1 .. Len(u)
    BY <1>1, LenProperties
  <1>3. \A i \in 1 .. Len(t) : i \in 1 .. Len(t) + Len(g) /\ i <= Len(t)
    BY <1>2
  <1>4. \A i \in 1 .. Len(t) + Len(g) : i > Len(t) => i - Len(t) \in 1 .. Len(g) /\ ~(i <= Len(t))
    BY <1>2
  <1> QED  BY <1>1, <1>2, <1>3, <1>4

\* A function on 1 .. m is a sequence of length m.
LEMMA FunctionSeq ==
    ASSUME NEW m \in Nat, NEW X, NEW f \in [1 .. m -> X]
    PROVE  f \in Seq(X) /\ Len(f) = m
  <1>1. f \in Seq(X)
    BY SeqDef
  <1> QED  BY <1>1, LenProperties

=============================================================================
