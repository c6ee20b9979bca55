----------------------------- MODULE QueueLemmas -----------------------------
(***************************************************************************)
(* Facts about queues and stacks that the proofs about Cards, Account and  *)
(* Landing share.                                                          *)
(***************************************************************************)
EXTENDS SequencesExt, Integers, SequenceTheorems, WellFoundedInduction,
        TLAPS

(* A queue without its k-th entry keeps the others in order.               *)
LEMMA RemoveAtProperties ==
    ASSUME NEW S, NEW q \in Seq(S), NEW k \in 1 .. Len(q)
    PROVE  /\ RemoveAt(q, k) \in Seq(S)
           /\ Len(RemoveAt(q, k)) = Len(q) - 1
           /\ \A i \in 1 .. (Len(q) - 1) :
                  RemoveAt(q, k)[i] = IF i < k THEN q[i] ELSE q[i + 1]
<1>. DEFINE a == SubSeq(q, 1, k - 1)
            b == SubSeq(q, k + 1, Len(q))
<1>1. Len(q) \in Nat /\ \A i \in 1 .. Len(q) : q[i] \in S
  BY LenProperties, ElementOfSeq
<1>2. /\ a \in Seq(S) /\ Len(a) = k - 1
      /\ \A i \in 1 .. (k - 1) : a[i] = q[i]
  <2>1. \A i \in 1 .. (k - 1) : q[i] \in S
    BY <1>1
  <2>. QED
    BY <1>1, <2>1, SubSeqProperties
<1>3. /\ b \in Seq(S) /\ Len(b) = Len(q) - k
      /\ \A i \in 1 .. (Len(q) - k) : b[i] = q[k + i]
  <2>1. \A i \in (k + 1) .. Len(q) : q[i] \in S
    BY <1>1
  <2>. QED
    BY <1>1, <2>1, SubSeqProperties
<1>. HIDE DEF a, b
<1>4. /\ a \o b \in Seq(S) /\ Len(a \o b) = Len(q) - 1
      /\ \A i \in 1 .. (Len(q) - 1) :
             (a \o b)[i] = IF i <= k - 1 THEN a[i] ELSE b[i - (k - 1)]
  BY <1>1, <1>2, <1>3, ConcatProperties
<1>5. \A i \in 1 .. (Len(q) - 1) :
          (a \o b)[i] = IF i < k THEN q[i] ELSE q[i + 1]
  <2>1. ASSUME NEW i \in 1 .. (Len(q) - 1), i < k
        PROVE  (a \o b)[i] = q[i]
    <3>1. i \in 1 .. (k - 1) /\ i <= k - 1
      BY <1>1, <2>1
    <3>. QED
      BY <1>2, <1>4, <3>1
  <2>2. ASSUME NEW i \in 1 .. (Len(q) - 1), ~(i < k)
        PROVE  (a \o b)[i] = q[i + 1]
    <3>1. /\ i - (k - 1) \in 1 .. (Len(q) - k) /\ ~(i <= k - 1)
          /\ k + (i - (k - 1)) = i + 1
      BY <1>1, <2>2
    <3>2. (a \o b)[i] = b[i - (k - 1)]
      BY <1>4, <3>1
    <3>3. b[i - (k - 1)] = q[k + (i - (k - 1))]
      BY <1>3, <3>1
    <3>. QED
      BY <3>1, <3>2, <3>3
  <2>. QED
    BY <2>1, <2>2
<1>. QED
  BY <1>4, <1>5 DEF RemoveAt, a, b

(* What is left of a queue were entries of the queue.                      *)
LEMMA Remaining ==
    ASSUME NEW S, NEW q \in Seq(S), NEW k \in 1 .. Len(q),
           NEW i \in DOMAIN RemoveAt(q, k)
    PROVE  \E j \in DOMAIN q : RemoveAt(q, k)[i] = q[j]
<1>1. /\ RemoveAt(q, k) \in Seq(S) /\ Len(q) \in Nat
      /\ Len(RemoveAt(q, k)) = Len(q) - 1
      /\ RemoveAt(q, k)[i] = IF i < k THEN q[i] ELSE q[i + 1]
      /\ i \in 1 .. (Len(q) - 1) /\ DOMAIN q = 1 .. Len(q)
  BY RemoveAtProperties, LenProperties
<1>. QED
  BY <1>1

(* What presenting one more page does to a stack.                          *)
LEMMA Pushed ==
    ASSUME NEW S, NEW s \in Seq(S), s # <<>>, NEW p \in S
    PROVE  /\ Append(s, p) \in Seq(S) /\ Append(s, p) # <<>>
           /\ Len(s) \in Nat \ {0} /\ Len(Append(s, p)) = Len(s) + 1
           /\ Append(s, p)[Len(s) + 1] = p
           /\ \A i \in 1 .. Len(s) : Append(s, p)[i] = s[i]
BY AppendProperties, EmptySeq, LenProperties

(* The last of some places in a queue.                                     *)
LEMMA MaxProperties ==
    ASSUME NEW n \in Nat, NEW S, S \subseteq 1 .. n, S # {}
    PROVE  Max(S) \in S /\ \A k \in S : k <= Max(S)
<1>. DEFINE T == {n - k : k \in S}
<1>1. T \subseteq Nat /\ T # {}
  <2>1. \A k \in S : n - k \in Nat
    OBVIOUS
  <2>. QED
    BY <2>1
<1>. DEFINE R == OpToRel(<, Nat)
<1>2. IsWellFoundedOn(R, Nat)
  BY NatLessThanWellFounded
<1>3. \A x, y \in Nat : <<x, y>> \in R <=> x < y
  BY DEF OpToRel
<1>. HIDE DEF R
<1>4. \E x \in T : \A y \in T : <<y, x>> \notin R
  <2>. HIDE DEF T
  <2>. QED
    BY <1>1, <1>2, WFMin
<1>5. \E k \in S : \A j \in S : ~ (n - j < n - k)
  BY <1>1, <1>3, <1>4
<1>6. \E k \in S : \A j \in S : k >= j
  BY <1>5
<1>. QED
  BY <1>6 DEF Max

-----------------------------------------------------------------------------
(* A prefix is a sequence that agrees as far as it goes.                   *)
LEMMA PrefixPointwise ==
    ASSUME NEW S, NEW s \in Seq(S), NEW t \in Seq(S)
    PROVE  IsPrefix(s, t) <=> /\ Len(s) <= Len(t)
                              /\ \A i \in 1 .. Len(s) : s[i] = t[i]
<1>1. /\ Len(s) \in Nat /\ Len(t) \in Nat
      /\ \A i \in 1 .. Len(s) : s[i] \in S
      /\ \A i \in 1 .. Len(t) : t[i] \in S
  BY LenProperties, ElementOfSeq
<1>2. SubSeq(s, 1, Len(s)) = s
  BY SubSeqFull
<1>3. ASSUME Len(s) <= Len(t)
      PROVE  /\ SubSeq(t, 1, Len(s)) \in Seq(S)
             /\ Len(SubSeq(t, 1, Len(s))) = Len(s)
             /\ \A i \in 1 .. Len(s) : SubSeq(t, 1, Len(s))[i] = t[i]
  <2>1. \A i \in 1 .. Len(s) : t[i] \in S
    BY <1>1, <1>3
  <2>. QED
    BY <1>1, <2>1, SubSeqProperties
<1>4. ASSUME Len(s) <= Len(t), \A i \in 1 .. Len(s) : s[i] = t[i]
      PROVE  s = SubSeq(t, 1, Len(s))
  BY <1>3, <1>4, SeqEqual
<1>. QED
  BY <1>2, <1>3, <1>4 DEF IsPrefix

(* Prefixes are ordered, and appending extends.                            *)
LEMMA PrefixOrder ==
    ASSUME NEW S
    PROVE  /\ \A s \in Seq(S) : IsPrefix(s, s) /\ IsPrefix(<<>>, s)
           /\ \A s, t, u \in Seq(S) :
                  IsPrefix(s, t) /\ IsPrefix(t, u) => IsPrefix(s, u)
           /\ \A s \in Seq(S) : \A e \in S : IsPrefix(s, Append(s, e))
           /\ \A s \in Seq(S) : IsPrefix(s, <<>>) => s = <<>>
<1>0. <<>> \in Seq(S) /\ Len(<<>>) = 0
  BY EmptySeq
<1>1. ASSUME NEW s \in Seq(S)
      PROVE  IsPrefix(s, s) /\ IsPrefix(<<>>, s)
  <2>1. Len(s) \in Nat /\ Len(s) <= Len(s) /\ 0 <= Len(s)
    BY LenProperties
  <2>2. IsPrefix(s, s)
    BY <2>1, PrefixPointwise
  <2>3. \A i \in 1 .. Len(<<>>) : <<>>[i] = s[i]
    BY <1>0
  <2>4. IsPrefix(<<>>, s)
    BY <1>0, <2>1, <2>3, PrefixPointwise
  <2>. QED
    BY <2>2, <2>4
<1>2. ASSUME NEW s \in Seq(S), NEW t \in Seq(S), NEW u \in Seq(S),
             IsPrefix(s, t), IsPrefix(t, u)
      PROVE  IsPrefix(s, u)
  <2>1. Len(s) \in Nat /\ Len(t) \in Nat /\ Len(u) \in Nat
    BY LenProperties
  <2>2. /\ Len(s) <= Len(t) /\ Len(t) <= Len(u)
        /\ \A i \in 1 .. Len(s) : s[i] = t[i]
        /\ \A i \in 1 .. Len(t) : t[i] = u[i]
    BY <1>2, PrefixPointwise
  <2>3. Len(s) <= Len(u) /\ \A i \in 1 .. Len(s) : s[i] = u[i]
    BY <2>1, <2>2
  <2>. QED
    BY <2>3, PrefixPointwise
<1>3. ASSUME NEW s \in Seq(S), NEW e \in S
      PROVE  IsPrefix(s, Append(s, e))
  <2>1. /\ Append(s, e) \in Seq(S) /\ Len(s) \in Nat
        /\ Len(Append(s, e)) = Len(s) + 1
        /\ \A i \in 1 .. Len(s) : Append(s, e)[i] = s[i]
    BY AppendProperties, LenProperties
  <2>2. Len(s) <= Len(Append(s, e))
    BY <2>1
  <2>3. \A i \in 1 .. Len(s) : s[i] = Append(s, e)[i]
    BY <2>1
  <2>. QED
    BY <2>1, <2>2, <2>3, PrefixPointwise
<1>4. ASSUME NEW s \in Seq(S), IsPrefix(s, <<>>)
      PROVE  s = <<>>
  <2>1. Len(s) <= 0
    BY <1>0, <1>4, PrefixPointwise
  <2>. QED
    BY <2>1, EmptySeq
<1>. QED
  BY <1>1, <1>2, <1>3, <1>4
=============================================================================
