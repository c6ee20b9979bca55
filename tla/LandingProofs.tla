---------------------------- MODULE LandingProofs ----------------------------
(***************************************************************************)
(* Theorems about Landing, for every set of places and every bound.        *)
(***************************************************************************)
EXTENDS Landing, QueueLemmas, FiniteSetTheorems

(* The entries of a main queue q that start an animation, and those that   *)
(* redraw the marker of page i; what page i shows in the end, when it      *)
(* shows m now.                                                            *)
ClosingsOf(q) == {k \in DOMAIN q : q[k].op = "close"}
RedrawsOf(q, i) == {k \in DOMAIN q : q[k].op = "value" /\ q[k].by = i}
Ends(q, m, i, v) ==
    \/ RedrawsOf(q, i) = {} /\ m = v
    \/ \E k \in RedrawsOf(q, i) :
           q[k].value = v /\ \A j \in RedrawsOf(q, i) : j <= k

(* The menus that a touch has sent away: out of sight, on their way, or    *)
(* about to go.                                                            *)
Leaving(c, a, q) == c \cup {a[k] : k \in DOMAIN a}
                      \cup {q[k].by : k \in ClosingsOf(q)}

(* Same pages, but for those on top of them and for markers.               *)
Extends(t, s) ==
    /\ DOMAIN s \subseteq DOMAIN t
    /\ \A i \in DOMAIN s : t[i].page = s[i].page

(* A block names a page of the stack s that can have sent it.              *)
NamesPage(b, s) ==
    /\ b.by \in DOMAIN s
    /\ s[b.by].page = IF b.op = "value" THEN "landing" ELSE "menu"

PagesInv ==
    /\ stack \in Seq(View) /\ stack # <<>>
    /\ alert \in BOOLEAN /\ conn \in BOOLEAN
    /\ gps \in Values /\ cache \in Values \cup {Unknown}
    /\ wire \in Seq(Values)

(* What is on the main queue; a landing page is there only after its menu  *)
(* has moved out of sight.                                                 *)
QueueInv(q, s, c) ==
    /\ q \in Seq(Block)
    /\ \A k \in DOMAIN q : /\ NamesPage(q[k], s)
                           /\ q[k].op = "landing" => q[k].by \in c

MarkersInv(q, s, v) ==
    \A i \in DOMAIN s :
        s[i].page = "landing" => Ends(q, s[i].marker, i, v)

(* What is held back belongs to menus that leave.                          *)
HeldInv(w, s, l) ==
    /\ w \in Seq(Block)
    /\ \A k \in DOMAIN w : /\ w[k].op = "landing" /\ w[k].by \in l
                           /\ NamesPage(w[k], s)

MenusInv(q) ==
    /\ animating \in Seq(DOMAIN stack)
    /\ closed \subseteq DOMAIN stack
    /\ group = Len(animating) + Cardinality(ClosingsOf(q))
    /\ waiting # <<>> => group # 0

InvWith(q) ==
    /\ PagesInv
    /\ QueueInv(q, stack, closed)
    /\ MarkersInv(q, stack, cache)
    /\ HeldInv(waiting, stack, Leaving(closed, animating, q))
    /\ MenusInv(q)

Inv == InvWith(main_queue)

-----------------------------------------------------------------------------
(***************************************************************************)
(* Main queues.                                                            *)
(***************************************************************************)
LEMMA QueueFacts ==
    ASSUME NEW q \in Seq(Block)
    PROVE  /\ Len(q) \in Nat /\ DOMAIN q = 1 .. Len(q)
           /\ \A k \in DOMAIN q : q[k] \in Block
           /\ IsFiniteSet(ClosingsOf(q)) /\ Cardinality(ClosingsOf(q)) \in Nat
<1>1. /\ Len(q) \in Nat /\ DOMAIN q = 1 .. Len(q)
      /\ \A k \in DOMAIN q : q[k] \in Block
  BY LenProperties, ElementOfSeq
<1>2. IsFiniteSet(1 .. Len(q)) /\ ClosingsOf(q) \in SUBSET (1 .. Len(q))
  BY <1>1, FS_Interval DEF ClosingsOf
<1>3. IsFiniteSet(ClosingsOf(q))
  BY <1>2, FS_Subset
<1>. QED
  BY <1>1, <1>3, FS_CardinalityType

(* The entries of two queues behind one another.                           *)
LEMMA Joined ==
    ASSUME NEW a \in Seq(Block), NEW b \in Seq(Block)
    PROVE  /\ a \o b \in Seq(Block)
           /\ Len(a) \in Nat /\ Len(b) \in Nat
           /\ DOMAIN a = 1 .. Len(a) /\ DOMAIN b = 1 .. Len(b)
           /\ DOMAIN (a \o b) = 1 .. (Len(a) + Len(b))
           /\ \A k \in DOMAIN a : k \in DOMAIN (a \o b) /\ (a \o b)[k] = a[k]
           /\ \A k \in DOMAIN b : /\ Len(a) + k \in DOMAIN (a \o b)
                                  /\ (a \o b)[Len(a) + k] = b[k]
           /\ \A k \in DOMAIN (a \o b) :
                  k \in DOMAIN a \/ \E j \in DOMAIN b : k = Len(a) + j
<1>1. /\ Len(a) \in Nat /\ Len(b) \in Nat
      /\ DOMAIN a = 1 .. Len(a) /\ DOMAIN b = 1 .. Len(b)
  BY LenProperties
<1>2. /\ a \o b \in Seq(Block) /\ Len(a \o b) = Len(a) + Len(b)
      /\ \A i \in 1 .. Len(a) + Len(b) :
             (a \o b)[i] = IF i <= Len(a) THEN a[i] ELSE b[i - Len(a)]
  BY ConcatProperties
<1>3. DOMAIN (a \o b) = 1 .. (Len(a) + Len(b))
  BY <1>2, LenProperties
<1>. DEFINE c == a \o b
<1>4. \A i \in 1 .. Len(a) + Len(b) :
          c[i] = IF i <= Len(a) THEN a[i] ELSE b[i - Len(a)]
  BY <1>2
<1>5. DOMAIN c = 1 .. (Len(a) + Len(b))
  BY <1>3
<1>. HIDE DEF c
<1>6. \A k \in DOMAIN a : k \in DOMAIN c /\ c[k] = a[k]
  BY <1>1, <1>4, <1>5
<1>7. ASSUME NEW k \in DOMAIN b
      PROVE  Len(a) + k \in DOMAIN c /\ c[Len(a) + k] = b[k]
  <2>1. /\ Len(a) + k \in 1 .. Len(a) + Len(b) /\ ~(Len(a) + k <= Len(a))
        /\ (Len(a) + k) - Len(a) = k
    BY <1>1
  <2>2. c[Len(a) + k] = b[(Len(a) + k) - Len(a)]
    BY <1>4, <2>1
  <2>. QED
    BY <1>5, <2>1, <2>2
<1>8. ASSUME NEW k \in DOMAIN c, k \notin DOMAIN a
      PROVE  \E j \in DOMAIN b : k = Len(a) + j
  <2>1. k - Len(a) \in 1 .. Len(b) /\ k = Len(a) + (k - Len(a))
    BY <1>1, <1>5, <1>8
  <2>. QED
    BY <1>1, <2>1
<1>. QED
  BY <1>1, <1>2, <1>3, <1>6, <1>7, <1>8 DEF c

(* Closings add up.                                                        *)
LEMMA ClosingsAddUp ==
    ASSUME NEW a \in Seq(Block), NEW b \in Seq(Block)
    PROVE  Cardinality(ClosingsOf(a \o b))
               = Cardinality(ClosingsOf(a)) + Cardinality(ClosingsOf(b))
<1>. DEFINE c == a \o b
            A == ClosingsOf(a)
            B == ClosingsOf(b)
            S == {Len(a) + k : k \in B}
            f == [k \in B |-> Len(a) + k]
<1>1. /\ IsFiniteSet(A) /\ IsFiniteSet(B)
      /\ Cardinality(A) \in Nat /\ Cardinality(B) \in Nat
  BY QueueFacts
<1>2. /\ Len(a) \in Nat /\ Len(b) \in Nat
      /\ A \subseteq 1 .. Len(a) /\ B \subseteq 1 .. Len(b)
  BY Joined DEF ClosingsOf
<1>3. ClosingsOf(c) = A \cup S
  <2>1. /\ DOMAIN a = 1 .. Len(a)
        /\ \A k \in DOMAIN a : k \in DOMAIN c /\ c[k] = a[k]
        /\ \A k \in DOMAIN b : Len(a) + k \in DOMAIN c /\ c[Len(a) + k] = b[k]
        /\ \A k \in DOMAIN c :
               k \in DOMAIN a \/ \E j \in DOMAIN b : k = Len(a) + j
    BY Joined
  <2>. HIDE DEF c
  <2>2. ASSUME NEW k \in ClosingsOf(c)
        PROVE  k \in A \cup S
    <3>1. k \in DOMAIN c /\ c[k].op = "close"
      BY DEF ClosingsOf
    <3>2. CASE k \in DOMAIN a
      BY <2>1, <3>1, <3>2 DEF ClosingsOf
    <3>3. CASE \E j \in DOMAIN b : k = Len(a) + j
      <4>1. PICK j \in DOMAIN b : k = Len(a) + j
        BY <3>3
      <4>2. c[k] = b[j]
        BY <2>1, <4>1
      <4>3. j \in B
        BY <3>1, <4>2 DEF ClosingsOf
      <4>. QED
        BY <4>1, <4>3
    <3>. QED
      BY <2>1, <3>1, <3>2, <3>3
  <2>3. ASSUME NEW k \in A
        PROVE  k \in ClosingsOf(c)
    BY <2>1 DEF ClosingsOf
  <2>4. ASSUME NEW k \in B
        PROVE  Len(a) + k \in ClosingsOf(c)
    BY <2>1 DEF ClosingsOf
  <2>. QED
    BY <2>2, <2>3, <2>4
<1>. HIDE DEF A, B
<1>4. f \in Bijection(B, S)
  <2>1. f \in [B -> S]
    OBVIOUS
  <2>2. \A j, k \in B : Len(a) + j = Len(a) + k => j = k
    BY <1>2
  <2>3. IsInjective(f)
    BY <2>2 DEF IsInjective
  <2>4. \A t \in S : \E k \in B : f[k] = t
    OBVIOUS
  <2>. QED
    BY <2>1, <2>3, <2>4 DEF Bijection, Injection, Surjection
<1>5. IsFiniteSet(S) /\ Cardinality(S) = Cardinality(B)
  BY <1>1, <1>4, FS_Bijection DEF ExistsBijection
<1>6. A \cap S = {}
  BY <1>2
<1>. HIDE DEF S
<1>7. Cardinality(A \cup S)
          = Cardinality(A) + Cardinality(S) - Cardinality(A \cap S)
  BY <1>1, <1>5, FS_Union
<1>8. Cardinality(A \cap S) = 0
  BY <1>6, FS_EmptySet
<1>. QED
  BY <1>1, <1>3, <1>5, <1>7, <1>8 DEF A, B

(* A queue of one block.                                                   *)
LEMMA OneBlock ==
    ASSUME NEW b \in Block
    PROVE  /\ <<b>> \in Seq(Block) /\ DOMAIN <<b>> = {1} /\ <<b>>[1] = b
           /\ Cardinality(ClosingsOf(<<b>>)) = IF b.op = "close" THEN 1 ELSE 0
<1>1. <<b>> \in Seq(Block) /\ DOMAIN <<b>> = {1} /\ <<b>>[1] = b
  OBVIOUS
<1>2. CASE b.op = "close"
  <2>1. ClosingsOf(<<b>>) = {1}
    BY <1>2, <1>1 DEF ClosingsOf
  <2>. QED
    BY <1>1, <1>2, <2>1, FS_Singleton
<1>3. CASE b.op # "close"
  <2>1. ClosingsOf(<<b>>) = {}
    BY <1>3, <1>1 DEF ClosingsOf
  <2>. QED
    BY <1>1, <1>3, <2>1, FS_EmptySet
<1>. QED
  BY <1>2, <1>3

(* The head of a queue and the rest of it.                                 *)
LEMMA HeadFirst ==
    ASSUME NEW q \in Seq(Block), q # <<>>
    PROVE  /\ Head(q) \in Block /\ Tail(q) \in Seq(Block)
           /\ <<Head(q)>> \in Seq(Block) /\ q = <<Head(q)>> \o Tail(q)
           /\ 1 \in DOMAIN q /\ q[1] = Head(q)
           /\ \A k \in DOMAIN Tail(q) : k + 1 \in DOMAIN q
                                        /\ Tail(q)[k] = q[k + 1]
           /\ \A k \in DOMAIN q : k = 1 \/ k - 1 \in DOMAIN Tail(q)
           /\ Cardinality(ClosingsOf(q))
                  = Cardinality(ClosingsOf(Tail(q)))
                    + IF Head(q).op = "close" THEN 1 ELSE 0
<1>1. /\ Head(q) \in Block /\ Tail(q) \in Seq(Block)
      /\ Len(Tail(q)) = Len(q) - 1
      /\ \A i \in 1 .. Len(Tail(q)) : Tail(q)[i] = q[i + 1]
  BY HeadTailProperties
<1>2. /\ Len(q) \in Nat \ {0} /\ DOMAIN q = 1 .. Len(q)
      /\ DOMAIN Tail(q) = 1 .. Len(Tail(q))
  BY <1>1, EmptySeq, LenProperties
<1>3. q[1] = Head(q)
  OBVIOUS
<1>. DEFINE h == <<Head(q)>>
            t == Tail(q)
<1>4. h \in Seq(Block) /\ Len(h) = 1 /\ h[1] = Head(q)
  BY <1>1
<1>5. t \in Seq(Block) /\ Len(t) = Len(q) - 1
      /\ \A i \in 1 .. Len(t) : t[i] = q[i + 1]
  BY <1>1
<1>. HIDE DEF h, t
<1>6. /\ h \o t \in Seq(Block) /\ Len(h \o t) = Len(h) + Len(t)
      /\ \A i \in 1 .. Len(h) + Len(t) :
             (h \o t)[i] = IF i <= Len(h) THEN h[i] ELSE t[i - Len(h)]
  <2>1. h \in Seq(Block) /\ t \in Seq(Block)
    BY <1>4, <1>5
  <2>. QED
    BY <2>1, ConcatProperties
<1>7. Len(h \o t) = Len(q)
  BY <1>2, <1>4, <1>5, <1>6
<1>8. ASSUME NEW i \in 1 .. Len(q)
      PROVE  q[i] = (h \o t)[i]
  <2>1. CASE i = 1
    BY <1>2, <1>3, <1>4, <1>5, <1>6, <2>1
  <2>2. CASE i # 1
    <3>1. ~(i <= 1) /\ i - 1 \in 1 .. Len(t) /\ (i - 1) + 1 = i
      BY <1>2, <1>5, <2>2
    <3>2. (h \o t)[i] = t[i - 1]
      BY <1>2, <1>4, <1>5, <1>6, <3>1
    <3>3. t[i - 1] = q[(i - 1) + 1]
      BY <1>5, <3>1
    <3>. QED
      BY <3>1, <3>2, <3>3
  <2>. QED
    BY <2>1, <2>2
<1>9. q = h \o t
  BY <1>6, <1>7, <1>8, SeqEqual
<1>10. q = <<Head(q)>> \o Tail(q)
  BY <1>9 DEF h, t
<1>11. Cardinality(ClosingsOf(q)) = Cardinality(ClosingsOf(h))
                                    + Cardinality(ClosingsOf(t))
  BY <1>4, <1>5, <1>9, ClosingsAddUp
<1>12. Cardinality(ClosingsOf(h)) = IF Head(q).op = "close" THEN 1 ELSE 0
  BY <1>1, OneBlock DEF h
<1>13. Cardinality(ClosingsOf(t)) \in Nat
  BY <1>5, QueueFacts
<1>14. Cardinality(ClosingsOf(q))
           = Cardinality(ClosingsOf(t))
             + IF Head(q).op = "close" THEN 1 ELSE 0
  BY <1>11, <1>12, <1>13
<1>15. /\ 1 \in DOMAIN q
       /\ \A k \in DOMAIN Tail(q) : k + 1 \in DOMAIN q
                                    /\ Tail(q)[k] = q[k + 1]
       /\ \A k \in DOMAIN q : k = 1 \/ k - 1 \in DOMAIN Tail(q)
  BY <1>1, <1>2
<1>. QED
  BY <1>1, <1>3, <1>10, <1>14, <1>15, OneBlock DEF t

-----------------------------------------------------------------------------
(***************************************************************************)
(* Markers.                                                                *)
(***************************************************************************)
(* Blocks for others do not matter.                                        *)
LEMMA EndsWithOthers ==
    ASSUME NEW a \in Seq(Block), NEW b \in Seq(Block), NEW m, NEW i, NEW v,
           Ends(a, m, i, v), RedrawsOf(b, i) = {}
    PROVE  Ends(a \o b, m, i, v)
<1>. DEFINE c == a \o b
<1>1. /\ \A k \in DOMAIN a : k \in DOMAIN c /\ c[k] = a[k]
      /\ \A k \in DOMAIN b : Len(a) + k \in DOMAIN c /\ c[Len(a) + k] = b[k]
      /\ \A k \in DOMAIN c :
             k \in DOMAIN a \/ \E j \in DOMAIN b : k = Len(a) + j
  BY Joined
<1>. HIDE DEF c
<1>2. ASSUME NEW k \in RedrawsOf(c, i)
      PROVE  k \in RedrawsOf(a, i)
  <2>1. k \in DOMAIN c /\ c[k].op = "value" /\ c[k].by = i
    BY DEF RedrawsOf
  <2>2. ASSUME NEW j \in DOMAIN b, k = Len(a) + j
        PROVE  FALSE
    <3>1. c[k] = b[j]
      BY <1>1, <2>2
    <3>2. j \in RedrawsOf(b, i)
      BY <2>1, <3>1 DEF RedrawsOf
    <3>. QED
      BY <3>2
  <2>3. k \in DOMAIN a
    BY <1>1, <2>1, <2>2
  <2>. QED
    BY <1>1, <2>1, <2>3 DEF RedrawsOf
<1>3. RedrawsOf(a, i) \subseteq RedrawsOf(c, i)
  BY <1>1 DEF RedrawsOf
<1>4. RedrawsOf(c, i) = RedrawsOf(a, i)
  BY <1>2, <1>3
<1>5. \A k \in RedrawsOf(a, i) : c[k] = a[k]
  BY <1>1 DEF RedrawsOf
<1>. QED
  BY <1>4, <1>5 DEF Ends, c

(* The last word is the one that counts.                                   *)
LEMMA EndsWithNews ==
    ASSUME NEW a \in Seq(Block), NEW b \in Seq(Block), NEW m, NEW i, NEW v,
           NEW k \in RedrawsOf(b, i), b[k].value = v,
           \A j \in RedrawsOf(b, i) : j <= k
    PROVE  Ends(a \o b, m, i, v)
<1>. DEFINE c == a \o b
<1>1. /\ Len(a) \in Nat /\ Len(b) \in Nat
      /\ DOMAIN a = 1 .. Len(a) /\ DOMAIN b = 1 .. Len(b)
      /\ \A j \in DOMAIN b : Len(a) + j \in DOMAIN c /\ c[Len(a) + j] = b[j]
      /\ \A j \in DOMAIN c :
             j \in DOMAIN a \/ \E l \in DOMAIN b : j = Len(a) + l
  BY Joined
<1>. HIDE DEF c
<1>2. k \in DOMAIN b /\ b[k].op = "value" /\ b[k].by = i
  BY DEF RedrawsOf
<1>3. Len(a) + k \in RedrawsOf(c, i) /\ c[Len(a) + k].value = v
  BY <1>1, <1>2 DEF RedrawsOf
<1>4. ASSUME NEW j \in RedrawsOf(c, i)
      PROVE  j <= Len(a) + k
  <2>1. j \in DOMAIN c /\ c[j].op = "value" /\ c[j].by = i
    BY DEF RedrawsOf
  <2>2. CASE j \in DOMAIN a
    BY <1>1, <1>2, <2>2
  <2>3. CASE \E l \in DOMAIN b : j = Len(a) + l
    <3>1. PICK l \in DOMAIN b : j = Len(a) + l
      BY <2>3
    <3>2. c[j] = b[l]
      BY <1>1, <3>1
    <3>3. l \in RedrawsOf(b, i)
      BY <2>1, <3>2 DEF RedrawsOf
    <3>4. l <= k
      BY <3>3
    <3>. QED
      BY <1>1, <1>2, <3>1, <3>4
  <2>. QED
    BY <1>1, <2>1, <2>2, <2>3
<1>. QED
  BY <1>3, <1>4 DEF Ends, c

(* The head is out of the way when it has redrawn its marker.              *)
LEMMA EndsWithoutHead ==
    ASSUME NEW q \in Seq(Block), q # <<>>, NEW m, NEW i, NEW v,
           Ends(q, m, i, v)
    PROVE  IF Head(q).op = "value" /\ Head(q).by = i
           THEN Ends(Tail(q), Head(q).value, i, v)
           ELSE Ends(Tail(q), m, i, v)
<1>. DEFINE t == Tail(q)
<1>1. /\ DOMAIN q = 1 .. Len(q) /\ Len(q) \in Nat
      /\ DOMAIN t = 1 .. Len(t) /\ Len(t) \in Nat
      /\ 1 \in DOMAIN q /\ q[1] = Head(q)
      /\ \A k \in DOMAIN t : k + 1 \in DOMAIN q /\ t[k] = q[k + 1]
      /\ \A k \in DOMAIN q : k = 1 \/ k - 1 \in DOMAIN t
  BY HeadFirst, QueueFacts
<1>. HIDE DEF t
<1>2. ASSUME NEW k \in RedrawsOf(t, i)
      PROVE  k \in Nat /\ k + 1 \in RedrawsOf(q, i) /\ t[k] = q[k + 1]
  BY <1>1 DEF RedrawsOf
<1>3. ASSUME NEW k \in RedrawsOf(q, i), k # 1
      PROVE  k \in Nat /\ k - 1 \in RedrawsOf(t, i) /\ t[k - 1] = q[k]
  <2>1. k \in DOMAIN q /\ k - 1 \in DOMAIN t /\ (k - 1) + 1 = k
    BY <1>1, <1>3 DEF RedrawsOf
  <2>2. t[k - 1] = q[k]
    <3>1. t[k - 1] = q[(k - 1) + 1]
      BY <1>1, <2>1
    <3>. QED
      BY <2>1, <3>1
  <2>. QED
    BY <1>1, <2>1, <2>2 DEF RedrawsOf
<1>4. 1 \in RedrawsOf(q, i) <=> Head(q).op = "value" /\ Head(q).by = i
  BY <1>1 DEF RedrawsOf
<1>5. CASE RedrawsOf(q, i) = {}
  <2>1. RedrawsOf(t, i) = {} /\ m = v
    BY <1>2, <1>5 DEF Ends
  <2>. QED
    BY <1>4, <1>5, <2>1 DEF Ends, t
<1>6. CASE RedrawsOf(q, i) # {}
  <2>1. PICK k \in RedrawsOf(q, i) :
            q[k].value = v /\ \A j \in RedrawsOf(q, i) : j <= k
    BY <1>6 DEF Ends
  <2>2. CASE k = 1
    <3>1. RedrawsOf(t, i) = {}
      <4>1. ASSUME NEW j \in RedrawsOf(t, i)
            PROVE  FALSE
        <5>1. j + 1 <= 1 /\ j \in DOMAIN t
          BY <1>2, <2>1, <2>2 DEF RedrawsOf
        <5>. QED
          BY <1>1, <5>1
      <4>. QED
        BY <4>1
    <3>2. Head(q).op = "value" /\ Head(q).by = i /\ Head(q).value = v
      BY <1>1, <1>4, <2>1, <2>2
    <3>. QED
      BY <3>1, <3>2 DEF Ends, t
  <2>3. CASE k # 1
    <3>1. k \in Nat /\ k - 1 \in RedrawsOf(t, i) /\ t[k - 1].value = v
      BY <1>3, <2>1, <2>3
    <3>2. ASSUME NEW j \in RedrawsOf(t, i)
          PROVE  j <= k - 1
      <4>1. j \in Nat /\ j + 1 <= k
        BY <1>2, <2>1
      <4>. QED
        BY <3>1, <4>1
    <3>3. \A n : Ends(t, n, i, v)
      BY <3>1, <3>2 DEF Ends
    <3>. QED
      BY <3>3 DEF t
  <2>. QED
    BY <2>2, <2>3
<1>. QED
  BY <1>5, <1>6

(* There is one event for each landing page, and none for others.          *)
LEMMA OneEventEach ==
    ASSUME NEW v \in Values \cup {Unknown},
           LandingPages \in SUBSET Nat, IsFiniteSet(LandingPages)
    PROVE  LET e == Events(v) IN
           /\ e \in Seq(Block)
           /\ \A k \in DOMAIN e :
                  /\ e[k].op = "value" /\ e[k].by \in LandingPages
                  /\ e[k].value = v
           /\ \A i \in LandingPages : \E k \in RedrawsOf(e, i) :
                  e[k].value = v /\ \A j \in RedrawsOf(e, i) : j <= k
<1>. DEFINE P == LandingPages
            e == Events(v)
<1>0. /\ P \in SUBSET Nat /\ IsFiniteSet(P)
      /\ e = SetToSeq({Redraw(i, v) : i \in P})
  BY DEF Events
<1>. HIDE DEF P, e
<1>. DEFINE S == {Redraw(i, v) : i \in P}
            n == Cardinality(S)
            f == [i \in P |-> Redraw(i, v)]
<1>1. IsFiniteSet(S) /\ n \in Nat
  <2>1. f \in [P -> S] /\ \A s \in S : \E i \in P : f[i] = s
    OBVIOUS
  <2>2. \A i, j \in P : f[i] = f[j] => i = j
    BY DEF Redraw
  <2>3. f \in Bijection(P, S)
    BY <2>1, <2>2 DEF Bijection, Injection, Surjection, IsInjective
  <2>. QED
    BY <1>0, <2>3, FS_Bijection, FS_CardinalityType DEF ExistsBijection
<1>2. e \in [1 .. n -> S] /\ IsInjective(e)
  <2>1. Bijection(1 .. n, S) # {}
    BY <1>1, FS_CardinalityType DEF ExistsBijection
  <2>2. \E g \in [1 .. n -> S] : IsInjective(g)
    BY <2>1 DEF Bijection, Injection
  <2>3. e = CHOOSE g \in [1 .. n -> S] : IsInjective(g)
    BY <1>0 DEF SetToSeq
  <2>. HIDE DEF S, n
  <2>. QED
    BY <2>2, <2>3
<1>3. e \in Surjection(1 .. n, S)
  <2>1. e \in Injection(1 .. n, S)
    BY <1>2 DEF Injection
  <2>2. Cardinality(1 .. n) = n
    BY <1>1, FS_Interval
  <2>. QED
    BY <1>1, <2>1, <2>2, FS_Injection
<1>4. \A s \in S : /\ s \in Block /\ s.op = "value" /\ s.by \in P
                   /\ s.value = v /\ s = Redraw(s.by, v)
  BY <1>0 DEF Redraw, Block
<1>5. \A i \in P : Redraw(i, v) \in S /\ Redraw(i, v).by = i
  BY DEF Redraw
<1>. HIDE DEF S, n
<1>6. e \in Seq(Block) /\ DOMAIN e = 1 .. n
  BY <1>1, <1>2, <1>4
<1>7. ASSUME NEW i \in P
      PROVE  \E k \in RedrawsOf(e, i) :
                 e[k].value = v /\ \A j \in RedrawsOf(e, i) : j <= k
  <2>1. PICK k \in 1 .. n : e[k] = Redraw(i, v)
    BY <1>3, <1>5 DEF Surjection
  <2>2. k \in RedrawsOf(e, i) /\ e[k].value = v
    BY <1>2, <1>4, <1>5, <1>6, <2>1 DEF RedrawsOf
  <2>3. ASSUME NEW j \in RedrawsOf(e, i)
        PROVE  j = k
    <3>1. j \in DOMAIN e /\ e[j].by = i
      BY DEF RedrawsOf
    <3>2. e[j] = Redraw(i, v)
      BY <1>2, <1>4, <1>6, <3>1
    <3>. QED
      BY <1>2, <1>6, <2>1, <3>1, <3>2 DEF IsInjective
  <2>4. k <= k
    BY <1>1
  <2>. QED
    BY <2>2, <2>3, <2>4
<1>. QED
  BY <1>2, <1>4, <1>6, <1>7 DEF P, e

-----------------------------------------------------------------------------
(***************************************************************************)
(* Stacks, and what the parts of the invariant survive.                    *)
(***************************************************************************)
LEMMA PageFacts ==
    ASSUME PagesInv
    PROVE  /\ Len(stack) \in Nat \ {0} /\ DOMAIN stack = 1 .. Len(stack)
           /\ Len(stack) \in DOMAIN stack
           /\ \A i \in DOMAIN stack : stack[i] \in View
           /\ LandingPages \in SUBSET Nat /\ IsFiniteSet(LandingPages)
<1>1. stack \in Seq(View) /\ stack # <<>>
  BY DEF PagesInv
<1>2. /\ Len(stack) \in Nat \ {0} /\ DOMAIN stack = 1 .. Len(stack)
      /\ \A i \in DOMAIN stack : stack[i] \in View
  BY <1>1, LenProperties, EmptySeq, ElementOfSeq
<1>3. LandingPages \in SUBSET (1 .. Len(stack))
  BY <1>2 DEF LandingPages
<1>4. IsFiniteSet(1 .. Len(stack))
  BY <1>2, FS_Interval
<1>5. IsFiniteSet(LandingPages)
  BY <1>3, <1>4, FS_Subset
<1>6. LandingPages \in SUBSET Nat /\ Len(stack) \in DOMAIN stack
  BY <1>2, <1>3
<1>. QED
  BY <1>2, <1>5, <1>6

LEMMA PushedStack ==
    ASSUME NEW s \in Seq(View), s # <<>>, NEW p \in View
    PROVE  LET t == Append(s, p) IN
           /\ t \in Seq(View) /\ t # <<>> /\ Extends(t, s)
           /\ DOMAIN t = DOMAIN s \cup {Len(s) + 1}
           /\ Len(s) + 1 \notin DOMAIN s /\ t[Len(s) + 1] = p
           /\ \A i \in DOMAIN s : t[i] = s[i]
<1>. DEFINE t == Append(s, p)
<1>1. /\ t \in Seq(View) /\ t # <<>>
      /\ Len(s) \in Nat \ {0} /\ Len(t) = Len(s) + 1
      /\ t[Len(s) + 1] = p
      /\ \A i \in 1 .. Len(s) : t[i] = s[i]
  BY Pushed
<1>2. DOMAIN s = 1 .. Len(s) /\ DOMAIN t = 1 .. Len(s) + 1
  BY <1>1, LenProperties
<1>3. /\ DOMAIN t = DOMAIN s \cup {Len(s) + 1}
      /\ Len(s) + 1 \notin DOMAIN s
  BY <1>1, <1>2
<1>. QED
  BY <1>1, <1>2, <1>3 DEF Extends

LEMMA QueueSurvives ==
    ASSUME NEW q, NEW s, NEW c, NEW t, NEW d,
           QueueInv(q, s, c), Extends(t, s), c \subseteq d
    PROVE  QueueInv(q, t, d)
BY DEF QueueInv, Extends, NamesPage

LEMMA HeldSurvives ==
    ASSUME NEW w, NEW s, NEW l, NEW t, NEW m,
           HeldInv(w, s, l), Extends(t, s), l \subseteq m
    PROVE  HeldInv(w, t, m)
BY DEF HeldInv, Extends, NamesPage

LEMMA QueueJoined ==
    ASSUME NEW a, NEW b, NEW s, NEW c,
           QueueInv(a, s, c), QueueInv(b, s, c)
    PROVE  QueueInv(a \o b, s, c)
<1>. DEFINE q == a \o b
<1>1. a \in Seq(Block) /\ b \in Seq(Block)
  BY DEF QueueInv
<1>2. /\ q \in Seq(Block)
      /\ \A k \in DOMAIN a : k \in DOMAIN q /\ q[k] = a[k]
      /\ \A k \in DOMAIN b : Len(a) + k \in DOMAIN q /\ q[Len(a) + k] = b[k]
      /\ \A k \in DOMAIN q :
             k \in DOMAIN a \/ \E j \in DOMAIN b : k = Len(a) + j
  BY <1>1, Joined
<1>. HIDE DEF q
<1>3. \A k \in DOMAIN q : \/ \E j \in DOMAIN a : q[k] = a[j]
                          \/ \E j \in DOMAIN b : q[k] = b[j]
  BY <1>2
<1>4. QueueInv(q, s, c)
  BY <1>2, <1>3 DEF QueueInv
<1>. QED
  BY <1>4 DEF q

LEMMA QueueRest ==
    ASSUME NEW q, NEW s, NEW c, QueueInv(q, s, c), q # <<>>
    PROVE  /\ QueueInv(Tail(q), s, c) /\ q \in Seq(Block)
           /\ Head(q) \in Block /\ NamesPage(Head(q), s)
           /\ Head(q).op = "landing" => Head(q).by \in c
<1>1. q \in Seq(Block)
  BY DEF QueueInv
<1>2. /\ Head(q) \in Block /\ Tail(q) \in Seq(Block)
      /\ 1 \in DOMAIN q /\ q[1] = Head(q)
      /\ \A k \in DOMAIN Tail(q) : k + 1 \in DOMAIN q
                                   /\ Tail(q)[k] = q[k + 1]
  BY <1>1, HeadFirst
<1>. QED
  BY <1>1, <1>2 DEF QueueInv

(* Menus leave until they are out of sight, by whatever step.              *)
LEMMA LeavingJoined ==
    ASSUME NEW q \in Seq(Block), NEW b \in Seq(Block), NEW c, NEW a
    PROVE  /\ Leaving(c, a, q) \subseteq Leaving(c, a, q \o b)
           /\ \A k \in ClosingsOf(b) : b[k].by \in Leaving(c, a, q \o b)
<1>. DEFINE r == q \o b
<1>1. /\ \A k \in DOMAIN q : k \in DOMAIN r /\ r[k] = q[k]
      /\ \A k \in DOMAIN b : Len(q) + k \in DOMAIN r /\ r[Len(q) + k] = b[k]
  BY Joined
<1>. HIDE DEF r
<1>2. \A k \in ClosingsOf(q) : k \in ClosingsOf(r) /\ r[k] = q[k]
  BY <1>1 DEF ClosingsOf
<1>3. \A k \in ClosingsOf(b) : Len(q) + k \in ClosingsOf(r)
                               /\ r[Len(q) + k] = b[k]
  BY <1>1 DEF ClosingsOf
<1>4. /\ Leaving(c, a, q) \subseteq Leaving(c, a, r)
      /\ \A k \in ClosingsOf(b) : b[k].by \in Leaving(c, a, r)
  BY <1>2, <1>3 DEF Leaving
<1>. QED
  BY <1>4 DEF r

LEMMA LeavingRest ==
    ASSUME NEW q \in Seq(Block), q # <<>>, NEW c, NEW a
    PROVE  Leaving(c, a, q) \subseteq
               Leaving(c, a, Tail(q)) \cup
               IF Head(q).op = "close" THEN {Head(q).by} ELSE {}
<1>. DEFINE t == Tail(q)
<1>1. /\ DOMAIN q \subseteq Nat /\ 1 \in DOMAIN q /\ q[1] = Head(q)
      /\ \A k \in DOMAIN t : k + 1 \in DOMAIN q /\ t[k] = q[k + 1]
      /\ \A k \in DOMAIN q : k = 1 \/ k - 1 \in DOMAIN t
  BY HeadFirst, QueueFacts
<1>. HIDE DEF t
<1>2. ASSUME NEW k \in ClosingsOf(q), k # 1
      PROVE  k - 1 \in ClosingsOf(t) /\ t[k - 1] = q[k]
  <2>1. k \in DOMAIN q /\ k - 1 \in DOMAIN t /\ (k - 1) + 1 = k
    BY <1>1, <1>2 DEF ClosingsOf
  <2>2. t[k - 1] = q[(k - 1) + 1]
    BY <1>1, <2>1
  <2>. QED
    BY <2>1, <2>2 DEF ClosingsOf
<1>3. ASSUME NEW k \in ClosingsOf(q)
      PROVE  \/ q[k].by \in {t[j].by : j \in ClosingsOf(t)}
             \/ Head(q).op = "close" /\ q[k].by = Head(q).by
  <2>1. CASE k = 1
    BY <1>1, <2>1 DEF ClosingsOf
  <2>2. CASE k # 1
    BY <1>2, <2>2
  <2>. QED
    BY <2>1, <2>2
<1>. QED
  BY <1>3 DEF Leaving, t

LEMMA LeavingEnded ==
    ASSUME NEW S, NEW a \in Seq(S), NEW k \in DOMAIN a, NEW c, NEW q
    PROVE  /\ Leaving(c, a, q)
                  \subseteq Leaving(c \cup {a[k]}, RemoveAt(a, k), q)
           /\ RemoveAt(a, k) \in Seq(S)
           /\ Len(a) \in Nat \ {0} /\ Len(RemoveAt(a, k)) = Len(a) - 1
           /\ a[k] \in S
<1>. DEFINE r == RemoveAt(a, k)
<1>1. Len(a) \in Nat /\ DOMAIN a = 1 .. Len(a) /\ a[k] \in S
  BY LenProperties, ElementOfSeq
<1>2. /\ r \in Seq(S) /\ Len(r) = Len(a) - 1
      /\ \A i \in 1 .. (Len(a) - 1) : r[i] = IF i < k THEN a[i] ELSE a[i + 1]
  BY <1>1, RemoveAtProperties
<1>. HIDE DEF r
<1>3. DOMAIN r = 1 .. (Len(a) - 1)
  BY <1>2, LenProperties
<1>4. ASSUME NEW j \in DOMAIN a, j # k
      PROVE  \E i \in DOMAIN r : r[i] = a[j]
  <2>1. CASE j < k
    <3>1. j \in 1 .. (Len(a) - 1)
      BY <1>1, <2>1
    <3>. QED
      BY <1>2, <1>3, <2>1, <3>1
  <2>2. CASE ~(j < k)
    <3>1. j - 1 \in 1 .. (Len(a) - 1) /\ ~(j - 1 < k) /\ (j - 1) + 1 = j
      BY <1>1, <1>4, <2>2
    <3>2. r[j - 1] = a[(j - 1) + 1]
      BY <1>2, <3>1
    <3>. QED
      BY <1>3, <3>1, <3>2
  <2>. QED
    BY <2>1, <2>2
<1>5. Leaving(c, a, q) \subseteq Leaving(c \cup {a[k]}, r, q)
  BY <1>4 DEF Leaving
<1>6. Len(a) # 0
  BY <1>1
<1>. QED
  BY <1>1, <1>2, <1>5, <1>6 DEF r

LEMMA SeqWider ==
    ASSUME NEW S, NEW T, S \subseteq T, NEW a \in Seq(S)
    PROVE  a \in Seq(T)
<1>1. /\ Len(a) \in Nat /\ DOMAIN a = 1 .. Len(a)
      /\ a \in [1 .. Len(a) -> S]
  BY LenProperties
<1>2. a \in [1 .. Len(a) -> T]
  BY <1>1
<1>. QED
  BY <1>1, <1>2

-----------------------------------------------------------------------------
(***************************************************************************)
(* The actions.                                                            *)
(***************************************************************************)
(* A page is presented; blocks rest are left on the main queue.            *)
LEMMA Shown ==
    ASSUME NEW rest, InvWith(rest), NEW p \in {"other", "landing", "menu"},
           Show(p, rest), UNCHANGED <<alert, gps, cache, conn, menu>>
    PROVE  Inv'
<1>. DEFINE n == Len(stack) + 1
            told == p = "landing" /\ cache # Unknown
            add == IF told THEN <<Redraw(n, cache)>> ELSE <<>>
<1>1. /\ stack \in Seq(View) /\ stack # <<>>
      /\ wire \in Seq(Values) /\ gps \in Values
      /\ cache \in Values \cup {Unknown}
  BY DEF InvWith, PagesInv
<1>2. Len(stack) \in Nat /\ n \in Nat
  BY <1>1, LenProperties
<1>3. /\ stack' \in Seq(View) /\ stack' # <<>> /\ Extends(stack', stack)
      /\ DOMAIN stack' = DOMAIN stack \cup {n} /\ n \notin DOMAIN stack
      /\ stack'[n] = [page |-> p, marker |-> Unknown]
      /\ \A i \in DOMAIN stack : stack'[i] = stack[i]
  <2>. DEFINE e == [page |-> p, marker |-> Unknown]
  <2>1. e \in View
    BY DEF View
  <2>2. stack' = Append(stack, e)
    BY DEF Show
  <2>. HIDE DEF e
  <2>3. /\ stack' \in Seq(View) /\ stack' # <<>> /\ Extends(stack', stack)
        /\ DOMAIN stack' = DOMAIN stack \cup {n} /\ n \notin DOMAIN stack
        /\ stack'[n] = e
        /\ \A i \in DOMAIN stack : stack'[i] = stack[i]
    <3>1. /\ Append(stack, e) \in Seq(View) /\ Append(stack, e) # <<>>
          /\ Extends(Append(stack, e), stack)
          /\ DOMAIN Append(stack, e) = DOMAIN stack \cup {n}
          /\ n \notin DOMAIN stack /\ Append(stack, e)[n] = e
          /\ \A i \in DOMAIN stack : Append(stack, e)[i] = stack[i]
      BY <1>1, <2>1, PushedStack
    <3>. QED
      BY <2>2, <3>1, Zenon
  <2>. QED
    BY <2>3 DEF e
<1>4. rest \in Seq(Block)
  BY DEF InvWith, QueueInv
<1>5. main_queue' = rest \o add
  <2>1. rest \o <<>> = rest
    BY <1>4, ConcatEmptySeq
  <2>. QED
    BY <2>1 DEF Show, Observe
<1>6. wire' \in Seq(Values)
  <2>1. Listen \in Seq(Values)
    BY <1>1 DEF Listen
  <2>2. wire \o Listen \in Seq(Values)
    BY <1>1, <2>1, ConcatProperties
  <2>. QED
    BY <1>1, <2>2 DEF Show
<1>7. ASSUME told
      PROVE  /\ add \in Seq(Block) /\ DOMAIN add = {1}
             /\ add[1] = Redraw(n, cache)
             /\ Cardinality(ClosingsOf(add)) = 0
  <2>1. Redraw(n, cache) \in Block /\ Redraw(n, cache).op # "close"
    BY <1>1, <1>2 DEF Redraw, Block
  <2>. QED
    BY <1>7, <2>1, OneBlock
<1>8. ASSUME ~told
      PROVE  /\ add \in Seq(Block) /\ DOMAIN add = {}
             /\ Cardinality(ClosingsOf(add)) = 0
  <2>1. add = <<>>
    BY <1>8
  <2>2. <<>> \in Seq(Block) /\ DOMAIN <<>> = {}
    OBVIOUS
  <2>. HIDE DEF add
  <2>3. ClosingsOf(add) = {}
    BY <2>1, <2>2 DEF ClosingsOf
  <2>. QED
    BY <2>1, <2>2, <2>3, FS_EmptySet
<1>. HIDE DEF add
<1>9. add \in Seq(Block) /\ Cardinality(ClosingsOf(add)) = 0
  BY <1>7, <1>8
<1>10. PagesInv'
  BY <1>3, <1>6 DEF InvWith, PagesInv
<1>11. QueueInv(main_queue', stack', closed')
  <2>1. QueueInv(rest, stack', closed)
    BY <1>3, QueueSurvives DEF InvWith
  <2>2. QueueInv(add, stack', closed)
    <3>1. CASE told
      <4>1. Redraw(n, cache).by = n /\ Redraw(n, cache).op = "value"
        BY DEF Redraw
      <4>. QED
        BY <1>3, <1>7, <3>1, <4>1 DEF QueueInv, NamesPage
    <3>2. CASE ~told
      BY <1>8, <3>2 DEF QueueInv
    <3>. QED
      BY <3>1, <3>2
  <2>. QED
    BY <1>5, <2>1, <2>2, QueueJoined DEF menu
<1>12. MarkersInv(main_queue', stack', cache')
  <2>. SUFFICES ASSUME NEW i \in DOMAIN stack', stack'[i].page = "landing"
                PROVE  Ends(main_queue', stack'[i].marker, i, cache)
    BY DEF MarkersInv
  <2>1. ASSUME i \in DOMAIN stack
        PROVE  Ends(main_queue', stack'[i].marker, i, cache)
    <3>1. Ends(rest, stack'[i].marker, i, cache)
      BY <1>3, <2>1 DEF InvWith, MarkersInv
    <3>2. RedrawsOf(add, i) = {}
      <4>1. i # n /\ Redraw(n, cache).by = n
        BY <1>3, <2>1 DEF Redraw
      <4>. QED
        BY <1>7, <1>8, <4>1 DEF RedrawsOf
    <3>. QED
      BY <1>4, <1>5, <1>9, <3>1, <3>2, EndsWithOthers
  <2>2. ASSUME i = n
        PROVE  Ends(main_queue', stack'[i].marker, i, cache)
    <3>1. p = "landing" /\ stack'[i].marker = Unknown
      BY <1>3, <2>2
    <3>2. RedrawsOf(rest, i) = {}
      BY <1>3, <2>2 DEF InvWith, QueueInv, NamesPage, RedrawsOf
    <3>3. CASE told
      <4>1. /\ RedrawsOf(add, i) = {1} /\ add[1].value = cache
            /\ \A j \in RedrawsOf(add, i) : j <= 1
        <5>1. RedrawsOf(add, i) = {1} /\ add[1].value = cache
          BY <1>7, <2>2, <3>3 DEF RedrawsOf, Redraw
        <5>. QED
          BY <5>1
      <4>2. 1 \in RedrawsOf(add, i)
        BY <4>1
      <4>. QED
        BY <1>4, <1>5, <1>9, <4>1, <4>2, EndsWithNews
    <3>4. CASE ~told
      <4>1. Ends(rest, stack'[i].marker, i, cache)
        BY <3>1, <3>2, <3>4 DEF Ends
      <4>2. RedrawsOf(add, i) = {}
        BY <1>8, <3>4 DEF RedrawsOf
      <4>. QED
        BY <1>4, <1>5, <1>9, <4>1, <4>2, EndsWithOthers
    <3>. QED
      BY <3>3, <3>4
  <2>. QED
    BY <1>3, <2>1, <2>2
<1>13. HeldInv(waiting', stack', Leaving(closed', animating', main_queue'))
  <2>1. Leaving(closed, animating, rest)
            \subseteq Leaving(closed, animating, main_queue')
    BY <1>4, <1>5, <1>9, LeavingJoined
  <2>2. HeldInv(waiting, stack', Leaving(closed, animating, main_queue'))
    BY <1>3, <2>1, HeldSurvives DEF InvWith
  <2>. QED
    BY <2>2 DEF menu
<1>14. MenusInv(main_queue)'
  <2>1. animating \in Seq(DOMAIN stack') /\ closed \subseteq DOMAIN stack'
    BY <1>3, SeqWider DEF InvWith, MenusInv
  <2>2. Cardinality(ClosingsOf(main_queue')) = Cardinality(ClosingsOf(rest))
    <3>1. Cardinality(ClosingsOf(rest)) \in Nat
      BY <1>4, QueueFacts
    <3>. QED
      BY <1>4, <1>5, <1>9, <3>1, ClosingsAddUp
  <2>. QED
    BY <2>1, <2>2 DEF InvWith, MenusInv, menu
<1>. QED
  BY <1>10, <1>11, <1>12, <1>13, <1>14 DEF Inv, InvWith

(* A block that draws nothing and starts no animation is over.             *)
LEMMA LandingBlockOver ==
    ASSUME Inv, main_queue # <<>>, Head(main_queue).op = "landing"
    PROVE  InvWith(Tail(main_queue))
<1>. DEFINE t == Tail(main_queue)
<1>1. /\ QueueInv(t, stack, closed) /\ main_queue \in Seq(Block)
  BY QueueRest DEF Inv, InvWith
<1>2. MarkersInv(t, stack, cache)
  <2>1. \A i \in DOMAIN stack : stack[i].page = "landing"
            => Ends(main_queue, stack[i].marker, i, cache)
    BY DEF Inv, InvWith, MarkersInv
  <2>2. \A i \in DOMAIN stack : stack[i].page = "landing"
            => Ends(t, stack[i].marker, i, cache)
    BY <1>1, <2>1, EndsWithoutHead
  <2>. QED
    BY <2>2 DEF MarkersInv
<1>3. HeldInv(waiting, stack, Leaving(closed, animating, t))
  <2>1. Leaving(closed, animating, main_queue)
            \subseteq Leaving(closed, animating, t)
    BY <1>1, LeavingRest
  <2>2. Extends(stack, stack)
    BY DEF Extends
  <2>. QED
    BY <2>1, <2>2, HeldSurvives DEF Inv, InvWith
<1>4. Cardinality(ClosingsOf(main_queue)) = Cardinality(ClosingsOf(t))
  <2>1. Cardinality(ClosingsOf(t)) \in Nat
    BY <1>1, QueueFacts DEF QueueInv
  <2>2. Cardinality(ClosingsOf(main_queue))
            = Cardinality(ClosingsOf(t))
              + IF Head(main_queue).op = "close" THEN 1 ELSE 0
    BY <1>1, HeadFirst
  <2>. HIDE DEF t
  <2>. QED
    BY <2>1, <2>2
<1>5. MenusInv(t)
  BY <1>4 DEF Inv, InvWith, MenusInv
<1>. QED
  BY <1>1, <1>2, <1>3, <1>5 DEF Inv, InvWith

(* An observer's block has drawn a marker.                                 *)
LEMMA MarkerDrawn ==
    ASSUME Inv, main_queue # <<>>, NEW b, b = Head(main_queue),
           b.op = "value", stack' = [stack EXCEPT ![b.by].marker = b.value],
           main_queue' = Tail(main_queue),
           UNCHANGED <<alert, gps, client, menu>>
    PROVE  Inv'
<1>. DEFINE t == Tail(main_queue)
<1>1. /\ stack \in Seq(View) /\ stack # <<>>
      /\ QueueInv(t, stack, closed) /\ main_queue \in Seq(Block)
      /\ b \in Block /\ NamesPage(b, stack)
  BY QueueRest DEF Inv, InvWith, PagesInv
<1>2. /\ b.by \in DOMAIN stack /\ b.value \in Values \cup {Unknown}
  BY <1>1 DEF NamesPage, Block
<1>3. /\ stack' \in Seq(View) /\ stack' # <<>> /\ Extends(stack', stack)
      /\ DOMAIN stack' = DOMAIN stack
      /\ \A j \in DOMAIN stack :
             /\ stack'[j].page = stack[j].page
             /\ stack'[j].marker = IF j = b.by THEN b.value
                                   ELSE stack[j].marker
  <2>. DEFINE e == [stack[b.by] EXCEPT !.marker = b.value]
  <2>1. /\ Len(stack) \in Nat \ {0} /\ DOMAIN stack = 1 .. Len(stack)
        /\ \A j \in DOMAIN stack : stack[j] \in View
    BY <1>1, LenProperties, EmptySeq, ElementOfSeq
  <2>2. e \in View /\ e.page = stack[b.by].page /\ e.marker = b.value
    BY <1>2, <2>1 DEF View
  <2>3. stack' = [stack EXCEPT ![b.by] = e]
    OBVIOUS
  <2>. HIDE DEF e
  <2>4. /\ stack' \in Seq(View) /\ Len(stack') = Len(stack)
        /\ \A j \in 1 .. Len(stack) :
               stack'[j] = IF j = b.by THEN e ELSE stack[j]
    <3>1. b.by \in 1 .. Len(stack)
      BY <1>2, <2>1
    <3>2. stack \in Seq(View) /\ e \in View
      BY <1>1, <2>2
    <3>. DEFINE u == [stack EXCEPT ![b.by] = e]
    <3>3. /\ u \in Seq(View) /\ Len(u) = Len(stack)
          /\ \A j \in 1 .. Len(stack) :
                 u[j] = IF j = b.by THEN e ELSE stack[j]
      BY <3>1, <3>2, ExceptSeq
    <3>. QED
      BY <2>3, <3>3, Zenon
  <2>5. DOMAIN stack' = 1 .. Len(stack') /\ stack' # <<>>
    BY <2>1, <2>4, LenProperties, EmptySeq
  <2>. QED
    BY <2>1, <2>2, <2>4, <2>5 DEF Extends
<1>4. PagesInv'
  BY <1>3 DEF Inv, InvWith, PagesInv, client
<1>5. QueueInv(main_queue', stack', closed')
  BY <1>1, <1>3, QueueSurvives DEF menu
<1>6. MarkersInv(main_queue', stack', cache')
  <2>. SUFFICES ASSUME NEW i \in DOMAIN stack', stack'[i].page = "landing"
                PROVE  Ends(t, stack'[i].marker, i, cache)
    BY DEF MarkersInv, client
  <2>1. Ends(main_queue, stack[i].marker, i, cache)
    BY <1>3 DEF Inv, InvWith, MarkersInv
  <2>. HIDE DEF t
  <2>2. CASE b.by = i
    <3>1. Ends(t, b.value, i, cache)
      BY <1>1, <2>1, <2>2, EndsWithoutHead DEF t
    <3>. QED
      BY <1>3, <2>2, <3>1
  <2>3. CASE b.by # i
    <3>1. Ends(t, stack[i].marker, i, cache)
      BY <1>1, <2>1, <2>3, EndsWithoutHead DEF t
    <3>. QED
      BY <1>3, <2>3, <3>1
  <2>. QED
    BY <2>2, <2>3
<1>7. HeldInv(waiting', stack', Leaving(closed', animating', main_queue'))
  <2>1. Leaving(closed, animating, main_queue)
            \subseteq Leaving(closed, animating, t)
    BY <1>1, LeavingRest
  <2>2. HeldInv(waiting, stack', Leaving(closed, animating, t))
    BY <1>3, <2>1, HeldSurvives DEF Inv, InvWith
  <2>. QED
    BY <2>2 DEF menu
<1>8. Cardinality(ClosingsOf(main_queue)) = Cardinality(ClosingsOf(t))
  <2>1. Cardinality(ClosingsOf(t)) \in Nat
    BY <1>1, QueueFacts DEF QueueInv
  <2>2. Cardinality(ClosingsOf(main_queue))
            = Cardinality(ClosingsOf(t))
              + IF Head(main_queue).op = "close" THEN 1 ELSE 0
    BY <1>1, HeadFirst
  <2>. HIDE DEF t
  <2>. QED
    BY <2>1, <2>2
<1>9. MenusInv(main_queue)'
  BY <1>3, <1>8 DEF Inv, InvWith, MenusInv, menu
<1>. QED
  BY <1>4, <1>5, <1>6, <1>7, <1>9 DEF Inv, InvWith

(* A menu begins to move out of sight.                                     *)
LEMMA AnimationBegun ==
    ASSUME Inv, main_queue # <<>>, RunClose(Head(main_queue))
    PROVE  Inv'
<1>. DEFINE t == Tail(main_queue)
            b == Head(main_queue)
<1>1. /\ QueueInv(t, stack, closed) /\ main_queue \in Seq(Block)
      /\ b \in Block /\ NamesPage(b, stack) /\ b.op = "close"
  BY QueueRest DEF Inv, InvWith, RunClose
<1>2. /\ animating' = Append(animating, b.by)
      /\ main_queue' = t /\ stack' = stack /\ cache' = cache
      /\ closed' = closed /\ waiting' = waiting /\ group' = group
  BY DEF RunClose, page, client
<1>. HIDE DEF t, b
<1>3. PagesInv'
  BY DEF Inv, InvWith, PagesInv, RunClose, page, client
<1>4. MarkersInv(t, stack, cache)
  <2>1. \A i \in DOMAIN stack : stack[i].page = "landing"
            => Ends(main_queue, stack[i].marker, i, cache)
    BY DEF Inv, InvWith, MarkersInv
  <2>2. \A i \in DOMAIN stack : stack[i].page = "landing"
            => Ends(t, stack[i].marker, i, cache)
    BY <1>1, <2>1, EndsWithoutHead DEF t, b
  <2>. QED
    BY <2>2 DEF MarkersInv
<1>5. /\ animating \in Seq(DOMAIN stack) /\ b.by \in DOMAIN stack
  BY <1>1 DEF Inv, InvWith, MenusInv, NamesPage
<1>6. /\ animating' \in Seq(DOMAIN stack)
      /\ Len(animating) \in Nat /\ Len(animating') = Len(animating) + 1
      /\ DOMAIN animating = 1 .. Len(animating)
      /\ DOMAIN animating' = 1 .. Len(animating')
      /\ \A i \in 1 .. Len(animating) : animating'[i] = animating[i]
      /\ animating'[Len(animating) + 1] = b.by
  BY <1>2, <1>5, AppendProperties, LenProperties
<1>7. HeldInv(waiting, stack, Leaving(closed, animating', t))
  <2>1. Leaving(closed, animating, main_queue)
            \subseteq Leaving(closed, animating, t) \cup {b.by}
    BY <1>1, LeavingRest DEF t, b
  <2>2. /\ \A k \in DOMAIN animating : k \in DOMAIN animating'
                                       /\ animating'[k] = animating[k]
        /\ Len(animating) + 1 \in DOMAIN animating'
    BY <1>6
  <2>3. /\ Leaving(closed, animating, t)
               \subseteq Leaving(closed, animating', t)
        /\ b.by \in Leaving(closed, animating', t)
    BY <1>6, <2>2 DEF Leaving
  <2>4. Leaving(closed, animating, main_queue)
            \subseteq Leaving(closed, animating', t)
    BY <2>1, <2>3
  <2>5. Extends(stack, stack)
    BY DEF Extends
  <2>. QED
    BY <2>4, <2>5, HeldSurvives DEF Inv, InvWith
<1>8. /\ Cardinality(ClosingsOf(main_queue)) = Cardinality(ClosingsOf(t)) + 1
      /\ Cardinality(ClosingsOf(t)) \in Nat
  <2>1. Cardinality(ClosingsOf(t)) \in Nat
    BY <1>1, QueueFacts DEF QueueInv
  <2>2. Cardinality(ClosingsOf(main_queue))
            = Cardinality(ClosingsOf(t)) + IF b.op = "close" THEN 1 ELSE 0
    BY <1>1, HeadFirst DEF t, b
  <2>. QED
    BY <1>1, <2>1, <2>2
<1>9. /\ group' = Len(animating') + Cardinality(ClosingsOf(t))
  <2>1. group = Len(animating) + Cardinality(ClosingsOf(main_queue))
    BY DEF Inv, InvWith, MenusInv
  <2>. QED
    BY <1>2, <1>6, <1>8, <2>1
<1>10. MenusInv(main_queue)'
  BY <1>2, <1>6, <1>9 DEF Inv, InvWith, MenusInv
<1>. QED
  BY <1>1, <1>2, <1>3, <1>4, <1>7, <1>10 DEF Inv, InvWith

(* A menu is touched.                                                      *)
LEMMA Touched ==
    ASSUME Inv, TouchesBegan
    PROVE  Inv'
<1>. DEFINE n == Len(stack)
            c == Task("close", n)
            l == Task("landing", n)
<1>1. /\ PagesInv /\ n \in Nat /\ n \in DOMAIN stack
      /\ stack[n].page = "menu"
  BY PageFacts DEF Inv, InvWith, TouchesBegan, MayTouch, Touchable, Top
<1>2. /\ c \in Block /\ c.op = "close" /\ c.by = n
      /\ l \in Block /\ l.op = "landing" /\ l.by = n
  BY <1>1 DEF Task, Block
<1>3. /\ main_queue \in Seq(Block) /\ waiting \in Seq(Block)
      /\ QueueInv(main_queue, stack, closed)
      /\ HeldInv(waiting, stack, Leaving(closed, animating, main_queue))
  BY DEF Inv, InvWith, QueueInv, HeldInv
<1>4. /\ main_queue' = Append(main_queue, c)
      /\ waiting' = Append(waiting, l) \/ waiting' = waiting
      /\ group' = group + 1
      /\ stack' = stack /\ cache' = cache /\ closed' = closed
      /\ animating' = animating
  BY DEF TouchesBegan, HoldBack, page, client
<1>5. PagesInv'
  BY <1>1 DEF PagesInv, TouchesBegan, page, client
<1>. HIDE DEF n, c, l
<1>. DEFINE a == <<c>>
<1>6. /\ a \in Seq(Block) /\ DOMAIN a = {1} /\ a[1] = c
      /\ Cardinality(ClosingsOf(a)) = 1
  BY <1>2, OneBlock
<1>7. main_queue' = main_queue \o a
  BY <1>2, <1>3, <1>4, AppendIsConcat
<1>. HIDE DEF a
<1>8. QueueInv(main_queue', stack', closed')
  <2>1. QueueInv(a, stack, closed)
    BY <1>1, <1>2, <1>6 DEF QueueInv, NamesPage
  <2>. QED
    BY <1>3, <1>4, <1>7, <2>1, QueueJoined
<1>9. MarkersInv(main_queue', stack', cache')
  <2>1. \A i : RedrawsOf(a, i) = {}
    BY <1>2, <1>6 DEF RedrawsOf
  <2>2. \A i \in DOMAIN stack : stack[i].page = "landing"
            => Ends(main_queue, stack[i].marker, i, cache)
    BY DEF Inv, InvWith, MarkersInv
  <2>3. \A i \in DOMAIN stack : stack[i].page = "landing"
            => Ends(main_queue', stack[i].marker, i, cache)
    BY <1>3, <1>6, <1>7, <2>1, <2>2, EndsWithOthers
  <2>. QED
    BY <1>4, <2>3 DEF MarkersInv
<1>10. HeldInv(waiting', stack', Leaving(closed', animating', main_queue'))
  <2>. DEFINE m == Leaving(closed, animating, main_queue')
  <2>1. /\ Leaving(closed, animating, main_queue) \subseteq m
        /\ \A k \in ClosingsOf(a) : a[k].by \in m
    BY <1>3, <1>6, <1>7, LeavingJoined
  <2>2. n \in m
    <3>1. 1 \in ClosingsOf(a)
      BY <1>2, <1>6 DEF ClosingsOf
    <3>. QED
      BY <1>2, <1>6, <2>1, <3>1
  <2>. HIDE DEF m
  <2>3. HeldInv(waiting, stack, m)
    <3>1. Extends(stack, stack)
      BY DEF Extends
    <3>. QED
      BY <1>3, <2>1, <3>1, HeldSurvives
  <2>4. NamesPage(l, stack)
    BY <1>1, <1>2 DEF NamesPage
  <2>5. ASSUME waiting' = Append(waiting, l)
        PROVE  HeldInv(waiting', stack, m)
    <3>1. /\ waiting' \in Seq(Block)
          /\ Len(waiting) \in Nat /\ Len(waiting') = Len(waiting) + 1
          /\ DOMAIN waiting = 1 .. Len(waiting)
          /\ DOMAIN waiting' = 1 .. Len(waiting')
          /\ \A k \in 1 .. Len(waiting) : waiting'[k] = waiting[k]
          /\ waiting'[Len(waiting) + 1] = l
      BY <1>2, <1>3, <2>5, AppendProperties, LenProperties
    <3>2. \A k \in DOMAIN waiting' :
              k = Len(waiting) + 1 \/ k \in DOMAIN waiting
      BY <3>1
    <3>. QED
      BY <1>2, <2>2, <2>3, <2>4, <3>1, <3>2 DEF HeldInv
  <2>6. HeldInv(waiting', stack, m)
    BY <1>4, <2>3, <2>5
  <2>. QED
    BY <1>4, <2>6 DEF m
<1>11. MenusInv(main_queue)'
  <2>1. /\ group = Len(animating) + Cardinality(ClosingsOf(main_queue))
        /\ animating \in Seq(DOMAIN stack) /\ closed \subseteq DOMAIN stack
    BY DEF Inv, InvWith, MenusInv
  <2>2. Len(animating) \in Nat
    BY <2>1, LenProperties
  <2>3. Cardinality(ClosingsOf(main_queue)) \in Nat
    BY <1>3, QueueFacts
  <2>4. Cardinality(ClosingsOf(main_queue'))
            = Cardinality(ClosingsOf(main_queue)) + 1
    BY <1>3, <1>6, <1>7, ClosingsAddUp
  <2>5. /\ group' = Len(animating) + Cardinality(ClosingsOf(main_queue'))
        /\ group' # 0
    BY <1>4, <2>1, <2>2, <2>3, <2>4
  <2>. QED
    BY <1>4, <2>1, <2>5 DEF MenusInv
<1>. QED
  BY <1>5, <1>8, <1>9, <1>10, <1>11 DEF Inv, InvWith

(* A menu has moved out of sight.                                          *)
LEMMA AnimationEnded ==
    ASSUME Inv, NEW k \in DOMAIN animating, AnimationEnds(k)
    PROVE  Inv'
<1>1. /\ PagesInv /\ main_queue \in Seq(Block) /\ waiting \in Seq(Block)
      /\ QueueInv(main_queue, stack, closed)
      /\ HeldInv(waiting, stack, Leaving(closed, animating, main_queue))
      /\ \A i \in DOMAIN stack : stack[i].page = "landing"
             => Ends(main_queue, stack[i].marker, i, cache)
      /\ animating \in Seq(DOMAIN stack) /\ closed \subseteq DOMAIN stack
      /\ group = Len(animating) + Cardinality(ClosingsOf(main_queue))
  BY DEF Inv, InvWith, QueueInv, HeldInv, MarkersInv, MenusInv
<1>2. /\ stack' = stack /\ cache' = cache
      /\ closed' = closed \cup {animating[k]}
      /\ animating' = RemoveAt(animating, k) /\ group' = group - 1
  BY DEF AnimationEnds, page, client
<1>3. /\ Leaving(closed, animating, main_queue)
             \subseteq Leaving(closed', animating', main_queue)
      /\ animating' \in Seq(DOMAIN stack)
      /\ Len(animating) \in Nat \ {0}
      /\ Len(animating') = Len(animating) - 1
      /\ animating[k] \in DOMAIN stack
  BY <1>1, <1>2, LeavingEnded
<1>4. /\ Cardinality(ClosingsOf(main_queue)) \in Nat
      /\ IsFiniteSet(ClosingsOf(main_queue))
  BY <1>1, QueueFacts
<1>5. Extends(stack, stack)
  BY DEF Extends
<1>6. PagesInv'
  BY <1>1 DEF PagesInv, AnimationEnds, page, client
<1>7. QueueInv(main_queue, stack, closed')
  BY <1>1, <1>2, <1>5, QueueSurvives
<1>8. closed' \subseteq DOMAIN stack
  BY <1>1, <1>2, <1>3
<1>9. CASE group = 1
  <2>1. main_queue' = main_queue \o waiting /\ waiting' = <<>>
    BY <1>9 DEF AnimationEnds
  <2>2. Len(animating) = 1 /\ Cardinality(ClosingsOf(main_queue)) = 0
    BY <1>1, <1>3, <1>4, <1>9
  <2>3. ClosingsOf(main_queue) = {}
    BY <1>4, <2>2, FS_EmptySet
  <2>4. DOMAIN animating = {1} /\ k = 1
    <3>1. DOMAIN animating = 1 .. 1
      BY <1>1, <2>2, LenProperties
    <3>. QED
      BY <3>1
  <2>5. Leaving(closed, animating, main_queue) \subseteq closed'
    BY <1>2, <2>3, <2>4 DEF Leaving
  <2>6. QueueInv(waiting, stack, closed')
    BY <1>1, <2>5 DEF HeldInv, QueueInv
  <2>7. QueueInv(main_queue', stack', closed')
    BY <1>2, <1>7, <2>1, <2>6, QueueJoined
  <2>8. /\ ClosingsOf(waiting) = {}
        /\ \A i : RedrawsOf(waiting, i) = {}
    BY <1>1 DEF HeldInv, ClosingsOf, RedrawsOf
  <2>9. \A i \in DOMAIN stack : stack[i].page = "landing"
            => Ends(main_queue', stack[i].marker, i, cache)
    BY <1>1, <2>1, <2>8, EndsWithOthers
  <2>10. MarkersInv(main_queue', stack', cache')
    BY <1>2, <2>9 DEF MarkersInv
  <2>11. HeldInv(waiting', stack', Leaving(closed', animating', main_queue'))
    <3>1. <<>> \in Seq(Block) /\ DOMAIN <<>> = {}
      OBVIOUS
    <3>. QED
      BY <2>1, <3>1 DEF HeldInv
  <2>12. Cardinality(ClosingsOf(main_queue')) = 0
    <3>1. Cardinality(ClosingsOf(waiting)) = 0
      BY <2>8, FS_EmptySet
    <3>2. Cardinality(ClosingsOf(main_queue'))
              = Cardinality(ClosingsOf(main_queue))
                + Cardinality(ClosingsOf(waiting))
      BY <1>1, <2>1, ClosingsAddUp
    <3>. QED
      BY <2>2, <3>1, <3>2
  <2>13. group' = Len(animating') + Cardinality(ClosingsOf(main_queue'))
    BY <1>2, <1>3, <1>9, <2>2, <2>12
  <2>14. MenusInv(main_queue)'
    BY <1>2, <1>3, <1>8, <2>1, <2>13 DEF MenusInv
  <2>. QED
    BY <1>6, <2>7, <2>10, <2>11, <2>14 DEF Inv, InvWith
<1>10. CASE group # 1
  <2>1. main_queue' = main_queue /\ waiting' = waiting
    BY <1>10 DEF AnimationEnds
  <2>2. QueueInv(main_queue', stack', closed')
    BY <1>2, <1>7, <2>1
  <2>3. MarkersInv(main_queue', stack', cache')
    BY <1>1, <1>2, <2>1 DEF MarkersInv
  <2>4. HeldInv(waiting', stack', Leaving(closed', animating', main_queue'))
    <3>1. HeldInv(waiting, stack, Leaving(closed', animating', main_queue))
      BY <1>1, <1>3, <1>5, HeldSurvives
    <3>. QED
      BY <1>2, <2>1, <3>1
  <2>5. /\ group' = Len(animating') + Cardinality(ClosingsOf(main_queue'))
        /\ group' # 0
    <3>1. ClosingsOf(main_queue') = ClosingsOf(main_queue)
      BY <2>1
    <3>. QED
      BY <1>1, <1>2, <1>3, <1>4, <1>10, <3>1
  <2>6. MenusInv(main_queue)'
    BY <1>2, <1>3, <1>8, <2>5 DEF MenusInv
  <2>. QED
    BY <1>6, <2>2, <2>3, <2>4, <2>6 DEF Inv, InvWith
<1>. QED
  BY <1>9, <1>10

(* A step that leaves pages, blocks and the client's copy alone.           *)
LEMMA Unaffected ==
    ASSUME NEW q, InvWith(q), main_queue' = q,
           UNCHANGED <<stack, cache, menu>>, PagesInv'
    PROVE  Inv'
<1>1. /\ QueueInv(main_queue', stack', closed')
      /\ MarkersInv(main_queue', stack', cache')
      /\ HeldInv(waiting', stack', Leaving(closed', animating', main_queue'))
  BY DEF InvWith, menu
<1>2. MenusInv(main_queue)'
  BY DEF InvWith, MenusInv, menu
<1>. QED
  BY <1>1, <1>2 DEF Inv, InvWith

(* The client has received a value.                                        *)
LEMMA Told ==
    ASSUME Inv, DataUpdate
    PROVE  Inv'
<1>. DEFINE v == Head(wire)
            P == LandingPages
            e == Events(v)
<1>1. /\ PagesInv /\ main_queue \in Seq(Block)
      /\ QueueInv(main_queue, stack, closed)
      /\ HeldInv(waiting, stack, Leaving(closed, animating, main_queue))
      /\ MarkersInv(main_queue, stack, cache) /\ MenusInv(main_queue)
  BY DEF Inv, InvWith, QueueInv
<1>2. /\ stack' = stack /\ menu' = menu /\ cache' = v
      /\ alert' = alert /\ conn' = conn /\ gps' = gps
      /\ wire # <<>> /\ wire' = Tail(wire)
      /\ main_queue' = IF v = cache THEN main_queue ELSE main_queue \o e
  BY DEF DataUpdate, page
<1>3. v \in Values /\ wire' \in Seq(Values)
  <2>1. wire \in Seq(Values)
    BY <1>1 DEF PagesInv
  <2>. QED
    BY <1>2, <2>1, HeadTailProperties
<1>. HIDE DEF v, e
<1>4. PagesInv'
  BY <1>1, <1>2, <1>3 DEF PagesInv
<1>5. CASE v = cache
  <2>1. InvWith(main_queue)
    BY DEF Inv
  <2>. QED
    BY <1>2, <1>4, <1>5, <2>1, Unaffected
<1>6. CASE v # cache
  <2>1. /\ e \in Seq(Block)
        /\ \A k \in DOMAIN e : /\ e[k].op = "value" /\ e[k].by \in P
                               /\ e[k].value = v
        /\ \A i \in P : \E k \in RedrawsOf(e, i) :
               e[k].value = v /\ \A j \in RedrawsOf(e, i) : j <= k
    <3>1. P \in SUBSET Nat /\ IsFiniteSet(P)
      BY <1>1, PageFacts
    <3>. QED
      BY <1>3, <3>1, OneEventEach DEF e
  <2>2. main_queue' = main_queue \o e
    BY <1>2, <1>6
  <2>3. QueueInv(e, stack, closed)
    BY <2>1 DEF QueueInv, NamesPage, LandingPages
  <2>4. QueueInv(main_queue', stack', closed')
    BY <1>1, <1>2, <2>2, <2>3, QueueJoined DEF menu
  <2>5. MarkersInv(main_queue', stack', cache')
    <3>. SUFFICES ASSUME NEW i \in DOMAIN stack, stack[i].page = "landing"
                  PROVE  Ends(main_queue', stack[i].marker, i, v)
      BY <1>2 DEF MarkersInv
    <3>1. i \in P
      BY DEF LandingPages
    <3>2. PICK k \in RedrawsOf(e, i) :
              e[k].value = v /\ \A j \in RedrawsOf(e, i) : j <= k
      BY <2>1, <3>1
    <3>. QED
      BY <1>1, <2>1, <2>2, <3>2, EndsWithNews
  <2>6. HeldInv(waiting', stack', Leaving(closed', animating', main_queue'))
    <3>1. Leaving(closed, animating, main_queue)
              \subseteq Leaving(closed, animating, main_queue')
      BY <1>1, <2>1, <2>2, LeavingJoined
    <3>2. Extends(stack, stack)
      BY DEF Extends
    <3>3. HeldInv(waiting, stack, Leaving(closed, animating, main_queue'))
      BY <1>1, <3>1, <3>2, HeldSurvives
    <3>. QED
      BY <1>2, <3>3 DEF menu
  <2>7. Cardinality(ClosingsOf(main_queue'))
            = Cardinality(ClosingsOf(main_queue))
    <3>1. ClosingsOf(e) = {}
      BY <2>1 DEF ClosingsOf
    <3>2. Cardinality(ClosingsOf(e)) = 0
      BY <3>1, FS_EmptySet
    <3>3. Cardinality(ClosingsOf(main_queue)) \in Nat
      BY <1>1, QueueFacts
    <3>4. Cardinality(ClosingsOf(main_queue'))
              = Cardinality(ClosingsOf(main_queue))
                + Cardinality(ClosingsOf(e))
      BY <1>1, <2>1, <2>2, ClosingsAddUp
    <3>. QED
      BY <3>2, <3>3, <3>4
  <2>8. MenusInv(main_queue)'
    BY <1>1, <1>2, <2>7 DEF MenusInv, menu
  <2>. QED
    BY <1>4, <2>4, <2>5, <2>6, <2>8 DEF Inv, InvWith
<1>. QED
  BY <1>5, <1>6

(* The app has just been launched.                                         *)
Launched ==
    /\ stack = <<[page |-> "other", marker |-> Unknown]>>
    /\ alert = FALSE
    /\ cache = Unknown /\ conn = FALSE /\ wire = <<>>
    /\ main_queue = <<>>
    /\ group = 0 /\ waiting = <<>> /\ animating = <<>> /\ closed = {}
    /\ gps \in Values

LEMMA LaunchedInv == Launched => Inv
<1>. SUFFICES ASSUME Launched
              PROVE  Inv
  OBVIOUS
<1>. USE DEF Launched
<1>1. /\ stack \in Seq(View) /\ stack # <<>> /\ DOMAIN stack = {1}
      /\ stack[1].page = "other"
  BY DEF View
<1>2. PagesInv
  <2>1. <<>> \in Seq(Values) /\ wire = <<>>
    OBVIOUS
  <2>2. /\ alert \in BOOLEAN /\ conn \in BOOLEAN
        /\ gps \in Values /\ cache \in Values \cup {Unknown}
    OBVIOUS
  <2>. QED
    BY <1>1, <2>1, <2>2 DEF PagesInv
<1>3. main_queue \in Seq(Block) /\ DOMAIN main_queue = {}
  OBVIOUS
<1>4. QueueInv(main_queue, stack, closed)
  BY <1>3 DEF QueueInv
<1>5. MarkersInv(main_queue, stack, cache)
  BY <1>1 DEF MarkersInv
<1>6. \A l : HeldInv(waiting, stack, l)
  BY <1>3 DEF HeldInv
<1>7. MenusInv(main_queue)
  <2>1. ClosingsOf(main_queue) = {}
    BY <1>3 DEF ClosingsOf
  <2>2. Cardinality(ClosingsOf(main_queue)) = 0
    BY <2>1, FS_EmptySet
  <2>3. animating \in Seq(DOMAIN stack) /\ Len(animating) = 0
    OBVIOUS
  <2>4. group = Len(animating) + Cardinality(ClosingsOf(main_queue))
    BY <2>2, <2>3
  <2>. QED
    BY <2>3, <2>4 DEF MenusInv
<1>. QED
  BY <1>2, <1>4, <1>5, <1>6, <1>7 DEF Inv, InvWith

(* Every step keeps the invariant.                                         *)
LEMMA InvKept == Inv /\ [Next]_vars => Inv'
<1>. SUFFICES ASSUME Inv, [Next]_vars
              PROVE  Inv'
  OBVIOUS
<1>. USE LandingAssumption
<1>1. PagesInv /\ InvWith(main_queue)
  BY DEF Inv, InvWith
<1>2. ASSUME NEW from \in {"other", "landing", "menu"},
             NEW to \in {"other", "landing", "menu"}, OpenPage(from, to)
      PROVE  Inv'
  BY <1>1, <1>2, Shown DEF OpenPage
<1>3. CASE DidUpdateLocations
  <2>1. PagesInv'
    BY <1>1, <1>3 DEF DidUpdateLocations, PagesInv, client
  <2>. QED
    BY <1>1, <1>3, <2>1, Unaffected DEF DidUpdateLocations, client
<1>4. CASE CloseAlert
  <2>1. PagesInv'
    BY <1>1, <1>4 DEF CloseAlert, PagesInv, client
  <2>. QED
    BY <1>1, <1>4, <2>1, Unaffected DEF CloseAlert, client
<1>5. CASE TouchesBegan
  BY <1>5, Touched
<1>6. CASE EndAnimation
  BY <1>6, AnimationEnded DEF EndAnimation
<1>7. CASE Kill
  <2>1. Launched'
    BY <1>1, <1>7 DEF Kill, Launched, PagesInv
  <2>. QED
    BY <2>1, LaunchedInv, PTL
<1>8. CASE RunBlock
  <2>. DEFINE b == Head(main_queue)
  <2>1. main_queue # <<>>
    BY <1>8 DEF RunBlock
  <2>2. CASE RunValue(b)
    <3>1. CASE b.value = None /\ Kill
      BY <1>7, <3>1
    <3>2. CASE ~(b.value = None /\ Kill)
      <4>1. /\ b.op = "value" /\ main_queue' = Tail(main_queue)
            /\ stack' = [stack EXCEPT ![b.by].marker = b.value]
            /\ UNCHANGED <<alert, gps, client, menu>>
        BY <2>2, <3>2 DEF RunValue
      <4>. QED
        BY <2>1, <4>1, MarkerDrawn
    <3>. QED
      BY <3>1, <3>2
  <2>3. CASE RunClose(b)
    BY <2>1, <2>3, AnimationBegun
  <2>4. CASE RunLanding(b)
    <3>1. InvWith(Tail(main_queue))
      BY <2>1, <2>4, LandingBlockOver DEF RunLanding
    <3>2. CASE CanPresent(b.by)
      <4>1. /\ Show("landing", Tail(main_queue))
            /\ UNCHANGED <<alert, gps, cache, conn, menu>>
        BY <2>4, <3>2 DEF RunLanding
      <4>. QED
        BY <3>1, <4>1, Shown
    <3>3. CASE ~CanPresent(b.by)
      <4>1. /\ main_queue' = Tail(main_queue)
            /\ UNCHANGED <<stack, wire, alert, gps, cache, conn, menu>>
        BY <2>4, <3>3 DEF RunLanding
      <4>2. PagesInv'
        BY <1>1, <4>1 DEF PagesInv
      <4>. QED
        BY <3>1, <4>1, <4>2, Unaffected
    <3>. QED
      BY <3>2, <3>3
  <2>. QED
    BY <1>8, <2>2, <2>3, <2>4 DEF RunBlock
<1>9. CASE GpsChanges
  <2>1. PICK v \in Values : GpsWritten(v)
    BY <1>9 DEF GpsChanges, Values
  <2>2. wire' \in Seq(Values)
    <3>1. wire \in Seq(Values)
      BY <1>1 DEF PagesInv
    <3>2. Append(wire, v) \in Seq(Values)
      BY <3>1, AppendProperties
    <3>. QED
      BY <2>1, <3>1, <3>2 DEF GpsWritten
  <2>3. PagesInv'
    BY <1>1, <2>1, <2>2 DEF GpsWritten, PagesInv, page
  <2>. QED
    BY <1>1, <2>1, <2>3, Unaffected DEF GpsWritten, page
<1>10. CASE Reconnect
  <2>1. wire' \in Seq(Values)
    BY <1>1, <1>10 DEF Reconnect, PagesInv
  <2>2. PagesInv'
    BY <1>1, <1>10, <2>1 DEF Reconnect, PagesInv, page
  <2>. QED
    BY <1>1, <1>10, <2>2, Unaffected DEF Reconnect, page
<1>11. CASE Disconnect
  <2>1. wire' \in Seq(Values)
    BY <1>11 DEF Disconnect
  <2>2. PagesInv'
    BY <1>1, <1>11, <2>1 DEF Disconnect, PagesInv, page
  <2>. QED
    BY <1>1, <1>11, <2>2, Unaffected DEF Disconnect, page
<1>12. CASE DataUpdate
  BY <1>12, Told
<1>13. CASE UNCHANGED vars
  <2>1. PagesInv'
    BY <1>1, <1>13 DEF vars, page, client, PagesInv
  <2>. QED
    BY <1>1, <1>13, <2>1, Unaffected DEF vars, page, client
<1>. QED
  BY <1>2, <1>3, <1>4, <1>5, <1>6, <1>7, <1>8, <1>9, <1>10, <1>11, <1>12,
     <1>13 DEF Next

LEMMA InvHolds == Spec => []Inv
<1>1. Init => Inv
  <2>1. Init => Launched
    BY DEF Init, Launched, Values
  <2>. QED
    BY <2>1, LaunchedInv
<1>. QED
  BY <1>1, InvKept, PTL DEF Spec

-----------------------------------------------------------------------------
(***************************************************************************)
(* The theorems.                                                           *)
(***************************************************************************)
(* Blocks name pages of the right kind, and leave never lacks its enter.   *)
THEOREM LandingTypeCorrect == Spec => []TypeOK
<1>1. Inv => TypeOK
  <2>. SUFFICES ASSUME Inv
                PROVE  TypeOK
    OBVIOUS
  <2>1. Closings = ClosingsOf(main_queue)
    BY DEF Closings, ClosingsOf
  <2>. QED
    BY <2>1 DEF Inv, InvWith, PagesInv, QueueInv, NamesPage, HeldInv,
                MenusInv, TypeOK
<1>. QED
  BY <1>1, InvHolds, PTL

(* The last word to each landing page is the client's copy of the node.    *)
THEOREM MapsAreCurrent == Spec => []MarkersFollow
<1>1. Inv => MarkersFollow
  BY DEF Inv, InvWith, MarkersInv, Ends, RedrawsOf, MarkersFollow, WillShow,
         Redraws, LandingPages
<1>. QED
  BY <1>1, InvHolds, PTL

(* The landing page comes after the menu has moved out of sight.           *)
THEOREM MenuLeavesFirst == Spec => LandingAfterClosing
<1>1. Inv /\ [Next]_vars
      => [Top = "menu" /\ Len(stack') > Len(stack) /\ Top' = "landing"
          => Len(stack) \in closed]_vars
  <2>. SUFFICES ASSUME Inv, Next, Top = "menu",
                       Len(stack') > Len(stack), Top' = "landing"
                PROVE  Len(stack) \in closed
    BY DEF vars
  <2>1. /\ stack \in Seq(View) /\ stack # <<>> /\ Len(stack) \in Nat \ {0}
        /\ QueueInv(main_queue, stack, closed)
    BY PageFacts DEF Inv, InvWith, PagesInv
  <2>2. stack' # stack
    BY <2>1
  <2>3. ~Kill
    BY <2>1 DEF Kill
  <2>4. ASSUME NEW from \in {"other", "landing", "menu"},
               NEW to \in {"other", "landing", "menu"}, OpenPage(from, to)
        PROVE  FALSE
    <3>. DEFINE e == [page |-> to, marker |-> Unknown]
    <3>1. to = "other" /\ stack' = Append(stack, e)
      BY <2>4 DEF OpenPage, Touchable, Show
    <3>2. e \in View /\ e.page = to
      BY DEF View
    <3>. HIDE DEF e
    <3>3. Top' = to
      BY <2>1, <3>1, <3>2, Pushed DEF Top
    <3>. QED
      BY <3>1, <3>3
  <2>5. CASE RunBlock
    <3>. DEFINE b == Head(main_queue)
    <3>1. main_queue # <<>>
      BY <2>5 DEF RunBlock
    <3>2. ~RunValue(b)
      <4>1. ASSUME stack' = [stack EXCEPT ![b.by].marker = b.value]
            PROVE  FALSE
        BY <2>1, <4>1
      <4>. QED
        BY <2>3, <4>1 DEF RunValue
    <3>3. ~RunClose(b)
      BY <2>2 DEF RunClose, page
    <3>4. b.op = "landing" /\ b.by = Len(stack)
      BY <2>2, <2>5, <3>2, <3>3 DEF RunBlock, RunLanding, CanPresent
    <3>. QED
      BY <2>1, <3>1, <3>4, QueueRest
  <2>. QED
    BY <2>2, <2>3, <2>4, <2>5
    DEF Next, DidUpdateLocations, CloseAlert, TouchesBegan, EndAnimation,
        AnimationEnds, GpsChanges, GpsWritten, Reconnect, Disconnect,
        DataUpdate, page
<1>. QED
  BY <1>1, InvHolds, PTL DEF Spec, LandingAfterClosing

-----------------------------------------------------------------------------
(***************************************************************************)
(* What the umbrella has written is not lost.                              *)
(***************************************************************************)
(* A connected client with a landing page knows the node, or will when it  *)
(* has read all that is on the wire.                                       *)
NewsInv ==
    conn /\ LandingPages # {} =>
        IF wire = <<>> THEN cache = gps ELSE Last(wire) = gps

(* Markers do not matter, nor do pages without a map.                      *)
LEMMA SamePages ==
    ASSUME PagesInv,
           \/ \E i \in DOMAIN stack : \E v :
                  stack' = [stack EXCEPT ![i].marker = v]
           \/ \E e \in View : e.page # "landing" /\ stack' = Append(stack, e)
    PROVE  LandingPages' = LandingPages
<1>1. /\ stack \in Seq(View) /\ stack # <<>>
      /\ \A i \in DOMAIN stack : stack[i] \in View
  BY PageFacts DEF PagesInv
<1>2. ASSUME NEW i \in DOMAIN stack, NEW v,
             stack' = [stack EXCEPT ![i].marker = v]
      PROVE  LandingPages' = LandingPages
  <2>1. /\ DOMAIN stack' = DOMAIN stack
        /\ \A j \in DOMAIN stack : stack'[j].page = stack[j].page
    BY <1>1, <1>2 DEF View
  <2>. QED
    BY <2>1 DEF LandingPages
<1>3. ASSUME NEW e \in View, e.page # "landing", stack' = Append(stack, e)
      PROVE  LandingPages' = LandingPages
  <2>1. /\ DOMAIN stack' = DOMAIN stack \cup {Len(stack) + 1}
        /\ stack'[Len(stack) + 1] = e
        /\ \A j \in DOMAIN stack : stack'[j] = stack[j]
    BY <1>1, <1>3, PushedStack
  <2>2. \A j \in DOMAIN stack' :
            stack'[j].page = "landing" => j \in DOMAIN stack
    BY <1>3, <2>1
  <2>. QED
    BY <2>1, <2>2 DEF LandingPages
<1>. QED
  BY <1>2, <1>3

(* A page that is presented: the first map makes the client listen.        *)
LEMMA ShownNews ==
    ASSUME Inv, NewsInv, NEW p \in {"other", "landing", "menu"}, NEW rest,
           Show(p, rest), UNCHANGED <<gps, cache, conn>>
    PROVE  NewsInv'
<1>1. /\ PagesInv /\ wire \in Seq(Values) /\ gps \in Values
  BY DEF Inv, InvWith, PagesInv
<1>2. CASE p # "landing"
  <2>. DEFINE e == [page |-> p, marker |-> Unknown]
  <2>1. e \in View /\ e.page # "landing"
    BY <1>2 DEF View
  <2>2. stack' = Append(stack, e) /\ wire' = wire
    BY <1>2 DEF Show
  <2>. HIDE DEF e
  <2>3. LandingPages' = LandingPages
    BY <1>1, <2>1, <2>2, SamePages
  <2>. QED
    BY <2>2, <2>3 DEF NewsInv
<1>3. CASE p = "landing" /\ conn /\ LandingPages = {}
  <2>1. wire' = wire \o <<gps>>
    BY <1>3 DEF Show, Listen
  <2>2. wire \o <<gps>> = Append(wire, gps)
    BY <1>1, AppendIsConcat
  <2>3. /\ Append(wire, gps) # <<>>
        /\ Append(wire, gps)[Len(Append(wire, gps))] = gps
    BY <1>1, AppendProperties
  <2>. QED
    BY <2>1, <2>2, <2>3 DEF NewsInv, Last
<1>4. CASE p = "landing" /\ ~(conn /\ LandingPages = {})
  <2>1. wire' = wire \o <<>>
    BY <1>4 DEF Show, Listen
  <2>2. wire \o <<>> = wire
    BY <1>1, ConcatEmptySeq
  <2>. QED
    BY <1>4, <2>1, <2>2 DEF NewsInv
<1>. QED
  BY <1>2, <1>3, <1>4

(* The oldest value on the wire is read.                                   *)
LEMMA ToldNews ==
    ASSUME Inv, NewsInv, DataUpdate
    PROVE  NewsInv'
<1>1. /\ wire \in Seq(Values) /\ wire # <<>>
      /\ wire' = Tail(wire) /\ cache' = Head(wire)
      /\ stack' = stack /\ gps' = gps /\ conn' = conn
  BY DEF Inv, InvWith, PagesInv, DataUpdate, page
<1>2. /\ Len(wire) \in Nat \ {0} /\ Tail(wire) \in Seq(Values)
      /\ Len(Tail(wire)) = Len(wire) - 1
      /\ \A i \in 1 .. Len(Tail(wire)) : Tail(wire)[i] = wire[i + 1]
      /\ Head(wire) = wire[1]
  BY <1>1, HeadTailProperties, EmptySeq, LenProperties
<1>3. LandingPages' = LandingPages
  BY <1>1 DEF LandingPages
<1>. PICK t : t = Tail(wire)
  OBVIOUS
<1>4. CASE Len(wire) = 1
  <2>1. Len(t) = 0 /\ t \in Seq(Values)
    BY <1>2, <1>4
  <2>2. t = <<>> /\ Head(wire) = Last(wire)
    BY <1>2, <1>4, <2>1, EmptySeq DEF Last
  <2>. QED
    BY <1>1, <1>3, <2>2 DEF NewsInv
<1>5. CASE Len(wire) # 1
  <2>1. /\ Len(wire) - 1 \in 1 .. Len(Tail(wire))
        /\ (Len(wire) - 1) + 1 = Len(wire)
    BY <1>2, <1>5
  <2>2. Tail(wire)[Len(wire) - 1] = wire[(Len(wire) - 1) + 1]
    BY <1>2, <2>1
  <2>3. Len(t) = Len(wire) - 1 /\ Len(t) # 0
    BY <1>2, <2>1
  <2>4. t # <<>> /\ t[Len(t)] = wire[Len(wire)]
    BY <2>1, <2>2, <2>3
  <2>5. Last(t) = Last(wire)
    BY <2>4 DEF Last
  <2>. QED
    BY <1>1, <1>3, <2>4, <2>5 DEF NewsInv
<1>. QED
  BY <1>4, <1>5

LEMMA NewsKept == Inv /\ NewsInv /\ [Next]_vars => NewsInv'
<1>. SUFFICES ASSUME Inv, NewsInv, [Next]_vars
              PROVE  NewsInv'
  OBVIOUS
<1>1. PagesInv /\ wire \in Seq(Values)
  BY DEF Inv, InvWith, PagesInv
<1>2. ASSUME UNCHANGED <<stack, gps, client>>
      PROVE  NewsInv'
  BY <1>2 DEF NewsInv, LandingPages, client
<1>3. ASSUME ~conn'
      PROVE  NewsInv'
  BY <1>3 DEF NewsInv
<1>4. ASSUME NEW from, NEW to \in {"other", "landing", "menu"},
             OpenPage(from, to)
      PROVE  NewsInv'
  BY <1>4, ShownNews DEF OpenPage
<1>5. CASE RunBlock
  <2>. DEFINE b == Head(main_queue)
  <2>1. /\ b.by \in DOMAIN stack
    BY <1>5, QueueRest DEF RunBlock, Inv, InvWith, NamesPage
  <2>2. CASE RunValue(b)
    <3>1. CASE Kill
      BY <1>3, <3>1 DEF Kill
    <3>2. CASE ~Kill
      <4>1. /\ stack' = [stack EXCEPT ![b.by].marker = b.value]
            /\ UNCHANGED <<gps, client>>
        BY <2>2, <3>2 DEF RunValue
      <4>2. LandingPages' = LandingPages
        BY <1>1, <2>1, <4>1, SamePages
      <4>. QED
        BY <4>1, <4>2 DEF NewsInv, client
    <3>. QED
      BY <3>1, <3>2
  <2>3. CASE RunClose(b)
    BY <1>2, <2>3 DEF RunClose, page
  <2>4. CASE RunLanding(b)
    <3>1. CASE CanPresent(b.by)
      BY <2>4, <3>1, ShownNews DEF RunLanding
    <3>2. CASE ~CanPresent(b.by)
      BY <1>2, <2>4, <3>2 DEF RunLanding, client
    <3>. QED
      BY <3>1, <3>2
  <2>. QED
    BY <1>5, <2>2, <2>3, <2>4 DEF RunBlock
<1>6. ASSUME NEW v \in Values, GpsWritten(v)
      PROVE  NewsInv'
  <2>1. /\ Append(wire, v) # <<>>
        /\ Append(wire, v)[Len(Append(wire, v))] = v
    BY <1>1, AppendProperties
  <2>2. gps' = v /\ conn' = conn /\ LandingPages' = LandingPages
    BY <1>6 DEF GpsWritten, page, LandingPages
  <2>3. conn /\ LandingPages # {} => wire' = Append(wire, v)
    BY <1>6 DEF GpsWritten
  <2>. QED
    BY <2>1, <2>2, <2>3 DEF NewsInv, Last
<1>7. CASE Reconnect
  <2>1. gps' = gps /\ LandingPages' = LandingPages
    BY <1>7 DEF Reconnect, page, LandingPages
  <2>2. LandingPages # {} => wire' = <<gps>>
    BY <1>7 DEF Reconnect
  <2>3. <<gps>> # <<>> /\ Last(<<gps>>) = gps
    BY DEF Last
  <2>. QED
    BY <2>1, <2>2, <2>3 DEF NewsInv
<1>8. CASE Disconnect \/ Kill
  BY <1>3, <1>8 DEF Disconnect, Kill
<1>9. CASE DataUpdate
  BY <1>9, ToldNews
<1>10. CASE DidUpdateLocations \/ CloseAlert \/ TouchesBegan \/ EndAnimation
            \/ UNCHANGED vars
  BY <1>2, <1>10
     DEF DidUpdateLocations, CloseAlert, TouchesBegan, EndAnimation,
         AnimationEnds, vars, page
<1>11. CASE GpsChanges
  BY <1>6, <1>11 DEF GpsChanges, Values
<1>. QED
  BY <1>4, <1>5, <1>7, <1>8, <1>9, <1>10, <1>11 DEF Next

(* Nothing that was written is lost on the way to a landing page of a      *)
(* connected client: it is the last on the wire, or the last word to it.   *)
THEOREM NewsAreNeverLost == Spec => []NewsNeverLost
<1>1. Init => NewsInv
  BY DEF Init, NewsInv
<1>2. Inv /\ NewsInv => NewsNeverLost
  BY DEF Inv, InvWith, MarkersInv, Ends, RedrawsOf, WillShow, Redraws,
         LandingPages, NewsInv, NewsNeverLost
<1>. QED
  BY <1>1, <1>2, NewsKept, InvHolds, PTL DEF Spec

-----------------------------------------------------------------------------
(***************************************************************************)
(* A menu that was touched is not left on top.                             *)
(***************************************************************************)
(* The landing page will come over page n: its block is held back in w, or *)
(* on the main queue q.                                                    *)
Answered(w, q, n) ==
    \/ \E k \in DOMAIN w : w[k].by = n
    \/ \E k \in DOMAIN q : q[k].op = "landing" /\ q[k].by = n

(* No alert comes over a menu, and a top page that leaves is answered.     *)
AnswerInv ==
    /\ alert => Top = "landing"
    /\ Len(stack) \in Leaving(closed, animating, main_queue)
           => Answered(waiting, main_queue, Len(stack))

(* Blocks that start no animation send no menu away.                       *)
LEMMA LeavingOnlyJoined ==
    ASSUME NEW q \in Seq(Block), NEW b \in Seq(Block), NEW c, NEW a,
           ClosingsOf(b) = {}
    PROVE  Leaving(c, a, q \o b) \subseteq Leaving(c, a, q)
<1>. DEFINE r == q \o b
<1>1. /\ \A k \in DOMAIN q : k \in DOMAIN r /\ r[k] = q[k]
      /\ \A k \in DOMAIN b : Len(q) + k \in DOMAIN r /\ r[Len(q) + k] = b[k]
      /\ \A k \in DOMAIN r :
             k \in DOMAIN q \/ \E j \in DOMAIN b : k = Len(q) + j
  BY Joined
<1>. HIDE DEF r
<1>2. ASSUME NEW k \in ClosingsOf(r)
      PROVE  k \in ClosingsOf(q) /\ r[k] = q[k]
  <2>1. k \in DOMAIN r /\ r[k].op = "close"
    BY DEF ClosingsOf
  <2>2. ASSUME NEW j \in DOMAIN b, k = Len(q) + j
        PROVE  FALSE
    <3>1. b[j].op = "close"
      BY <1>1, <2>1, <2>2
    <3>. QED
      BY <3>1 DEF ClosingsOf
  <2>3. k \in DOMAIN q
    BY <1>1, <2>1, <2>2
  <2>. QED
    BY <1>1, <2>1, <2>3 DEF ClosingsOf
<1>. QED
  BY <1>2 DEF Leaving, r

(* Nor does a block that is over.                                          *)
LEMMA LeavingOnlyRest ==
    ASSUME NEW q \in Seq(Block), q # <<>>, NEW c, NEW a
    PROVE  /\ Leaving(c, a, Tail(q)) \subseteq Leaving(c, a, q)
           /\ Head(q).op = "close" => Head(q).by \in Leaving(c, a, q)
<1>. DEFINE t == Tail(q)
<1>1. /\ 1 \in DOMAIN q /\ q[1] = Head(q)
      /\ \A k \in DOMAIN t : k + 1 \in DOMAIN q /\ t[k] = q[k + 1]
  BY HeadFirst
<1>. HIDE DEF t
<1>2. \A k \in ClosingsOf(t) : k + 1 \in ClosingsOf(q) /\ t[k] = q[k + 1]
  BY <1>1 DEF ClosingsOf
<1>3. Head(q).op = "close" => 1 \in ClosingsOf(q)
  BY <1>1 DEF ClosingsOf
<1>4. Leaving(c, a, t) \subseteq Leaving(c, a, q)
  BY <1>2 DEF Leaving
<1>5. Head(q).op = "close" => Head(q).by \in Leaving(c, a, q)
  BY <1>1, <1>3 DEF Leaving
<1>. QED
  BY <1>4, <1>5 DEF t

(* Nor does the end of an animation, other than the one that leaves.       *)
LEMMA LeavingOnlyEnded ==
    ASSUME NEW S, NEW a \in Seq(S), NEW k \in DOMAIN a, NEW c, NEW q
    PROVE  Leaving(c \cup {a[k]}, RemoveAt(a, k), q) \subseteq Leaving(c, a, q)
<1>. PICK r : r = RemoveAt(a, k)
  OBVIOUS
<1>1. k \in 1 .. Len(a)
  BY LenProperties
<1>2. \A i \in DOMAIN r : \E j \in DOMAIN a : r[i] = a[j]
  BY <1>1, Remaining
<1>. QED
  BY <1>2 DEF Leaving

(* An answer stays while the main queue grows, and while other blocks run. *)
LEMMA StillAnswered ==
    ASSUME NEW w, NEW q \in Seq(Block), NEW n
    PROVE  /\ \A b \in Seq(Block) :
                  Answered(w, q, n) => Answered(w, q \o b, n)
           /\ q # <<>> /\ ~(Head(q).op = "landing" /\ Head(q).by = n)
              /\ Answered(w, q, n) => Answered(w, Tail(q), n)
<1>1. ASSUME NEW b \in Seq(Block), Answered(w, q, n)
      PROVE  Answered(w, q \o b, n)
  <2>1. \A k \in DOMAIN q : k \in DOMAIN (q \o b) /\ (q \o b)[k] = q[k]
    BY Joined
  <2>. QED
    BY <1>1, <2>1 DEF Answered
<1>2. ASSUME q # <<>>, ~(Head(q).op = "landing" /\ Head(q).by = n),
             Answered(w, q, n)
      PROVE  Answered(w, Tail(q), n)
  <2>. PICK t : t = Tail(q)
    OBVIOUS
  <2>1. /\ q[1] = Head(q) /\ DOMAIN q \subseteq Nat
        /\ \A k \in DOMAIN t : t[k] = q[k + 1]
        /\ \A k \in DOMAIN q : k = 1 \/ k - 1 \in DOMAIN t
    BY <1>2, HeadFirst, QueueFacts
  <2>2. ASSUME NEW k \in DOMAIN q, q[k].op = "landing", q[k].by = n
        PROVE  \E j \in DOMAIN t : t[j].op = "landing" /\ t[j].by = n
    <3>1. k # 1
      BY <1>2, <2>1, <2>2
    <3>2. k - 1 \in DOMAIN t /\ (k - 1) + 1 = k
      BY <2>1, <3>1
    <3>3. t[k - 1] = q[(k - 1) + 1]
      BY <2>1, <3>2
    <3>. QED
      BY <2>2, <3>2, <3>3
  <2>. QED
    BY <1>2, <2>2 DEF Answered
<1>. QED
  BY <1>1, <1>2

(* A step under the same top page that sends no other menu away.           *)
LEMMA AnswerSurvives ==
    ASSUME AnswerInv, Len(stack') = Len(stack), alert' => Top' = "landing",
           Leaving(closed', animating', main_queue')
               \subseteq Leaving(closed, animating, main_queue),
           Answered(waiting, main_queue, Len(stack))
               => Answered(waiting', main_queue', Len(stack))
    PROVE  AnswerInv'
BY DEF AnswerInv

(* A page that is presented has not been touched.                          *)
LEMMA ShownAnswer ==
    ASSUME Inv, NEW p \in {"other", "landing", "menu"},
           NEW rest \in Seq(Block), Show(p, rest), ~alert,
           UNCHANGED <<alert, gps, cache, conn, menu>>,
           Leaving(closed, animating, rest)
               \subseteq Leaving(closed, animating, main_queue)
    PROVE  AnswerInv'
<1>. PICK n : n = Len(stack) + 1
  OBVIOUS
<1>1. /\ PagesInv /\ stack \in Seq(View) /\ stack # <<>> /\ n \in Nat
      /\ cache \in Values \cup {Unknown}
      /\ Leaving(closed, animating, main_queue) \subseteq DOMAIN stack
  <2>1. /\ PagesInv /\ QueueInv(main_queue, stack, closed)
        /\ MenusInv(main_queue)
    BY DEF Inv, InvWith
  <2>2. \A k \in DOMAIN animating : animating[k] \in DOMAIN stack
    BY <2>1, ElementOfSeq, LenProperties DEF MenusInv
  <2>3. Leaving(closed, animating, main_queue) \subseteq DOMAIN stack
    BY <2>1, <2>2 DEF MenusInv, QueueInv, NamesPage, ClosingsOf, Leaving
  <2>. QED
    BY <2>1, <2>3, PageFacts DEF PagesInv
<1>2. Len(stack') = n /\ n \notin DOMAIN stack
  <2>. PICK e : e = [page |-> p, marker |-> Unknown]
    OBVIOUS
  <2>1. e \in View /\ stack' = Append(stack, e)
    BY DEF View, Show
  <2>. QED
    BY <1>1, <2>1, Pushed, PushedStack
<1>3. Leaving(closed, animating, main_queue')
          \subseteq Leaving(closed, animating, rest)
  <2>1. CASE main_queue' = rest
    BY <2>1
  <2>2. CASE main_queue' = rest \o Observe(n)
    <3>1. CASE cache = Unknown
      BY <2>2, <3>1, ConcatEmptySeq DEF Observe
    <3>2. CASE cache # Unknown
      <4>. PICK b : b = Redraw(n, cache)
        OBVIOUS
      <4>1. b \in Block /\ b.op = "value"
        BY <1>1 DEF Redraw, Block
      <4>2. <<b>> \in Seq(Block) /\ ClosingsOf(<<b>>) = {}
        BY <4>1, OneBlock DEF ClosingsOf
      <4>3. main_queue' = rest \o <<b>>
        BY <2>2, <3>2 DEF Observe
      <4>. QED
        BY <4>2, <4>3, LeavingOnlyJoined
    <3>. QED
      BY <3>1, <3>2
  <2>. QED
    BY <2>1, <2>2 DEF Show
<1>. QED
  BY <1>1, <1>2, <1>3 DEF AnswerInv, menu

(* The head of the main queue runs.                                        *)
LEMMA RunAnswer ==
    ASSUME Inv, AnswerInv, RunBlock
    PROVE  AnswerInv'
<1>. PICK b : b = Head(main_queue)
  OBVIOUS
<1>. PICK n : n = Len(stack)
  OBVIOUS
<1>1. /\ main_queue # <<>> /\ main_queue \in Seq(Block)
      /\ Tail(main_queue) \in Seq(Block)
      /\ b \in Block /\ NamesPage(b, stack)
  BY QueueRest, HeadFirst DEF RunBlock, Inv, InvWith
<1>2. /\ PagesInv /\ n \in DOMAIN stack /\ DOMAIN stack = 1 .. n
      /\ \A i \in DOMAIN stack : stack[i] \in View
  BY PageFacts DEF Inv, InvWith
<1>3. /\ Leaving(closed, animating, Tail(main_queue))
             \subseteq Leaving(closed, animating, main_queue)
      /\ b.op = "close" => b.by \in Leaving(closed, animating, main_queue)
  BY <1>1, LeavingOnlyRest
<1>4. Answered(waiting, main_queue, n) /\ ~(b.op = "landing" /\ b.by = n)
          => Answered(waiting, Tail(main_queue), n)
  BY <1>1, StillAnswered
<1>5. CASE Kill
  <2>1. /\ alert' = FALSE /\ closed' = {} /\ animating' = <<>>
        /\ main_queue' = <<>>
    BY <1>5 DEF Kill
  <2>2. Leaving(closed', animating', main_queue') = {}
    BY <2>1 DEF Leaving, ClosingsOf
  <2>. QED
    BY <2>1, <2>2 DEF AnswerInv
<1>6. CASE RunValue(b) /\ ~Kill
  <2>1. /\ b.op = "value" /\ main_queue' = Tail(main_queue)
        /\ stack' = [stack EXCEPT ![b.by].marker = b.value]
        /\ UNCHANGED <<alert, menu>>
    BY <1>6 DEF RunValue
  <2>2. /\ DOMAIN stack' = DOMAIN stack
        /\ \A i \in DOMAIN stack : stack'[i].page = stack[i].page
    BY <1>2, <2>1 DEF View
  <2>3. stack' \in Seq(View)
    BY <1>1, <1>6, InvKept DEF RunBlock, Next, Inv, InvWith, PagesInv
  <2>4. Len(stack') = Len(stack) /\ Top' = Top
    BY <1>2, <2>2, <2>3, LenProperties DEF PagesInv, Top
  <2>. QED
    BY <1>3, <1>4, <2>1, <2>4, AnswerSurvives DEF AnswerInv, menu
<1>7. CASE RunClose(b)
  <2>1. /\ b.op = "close" /\ animating' = Append(animating, b.by)
        /\ main_queue' = Tail(main_queue) /\ stack' = stack
        /\ alert' = alert /\ closed' = closed /\ waiting' = waiting
    BY <1>7 DEF RunClose, page
  <2>2. animating \in Seq(DOMAIN stack) /\ b.by \in DOMAIN stack
    BY <1>1 DEF Inv, InvWith, MenusInv, NamesPage
  <2>3. \A i \in DOMAIN animating' :
            animating'[i] = b.by \/ \E j \in DOMAIN animating :
                                        animating'[i] = animating[j]
    <3>1. /\ Len(animating) \in Nat /\ Len(animating') = Len(animating) + 1
          /\ DOMAIN animating = 1 .. Len(animating)
          /\ DOMAIN animating' = 1 .. Len(animating')
          /\ \A i \in 1 .. Len(animating) : animating'[i] = animating[i]
          /\ animating'[Len(animating) + 1] = b.by
      BY <2>1, <2>2, AppendProperties, LenProperties
    <3>2. \A i \in DOMAIN animating' :
              i = Len(animating) + 1 \/ i \in DOMAIN animating
      BY <3>1
    <3>. QED
      BY <3>1, <3>2
  <2>4. Leaving(closed, animating', Tail(main_queue))
            \subseteq Leaving(closed, animating, main_queue)
    <3>1. \A i \in DOMAIN animating' :
              animating'[i] \in Leaving(closed, animating, main_queue)
      BY <1>3, <2>1, <2>3 DEF Leaving
    <3>. QED
      BY <1>3, <3>1 DEF Leaving
  <2>. QED
    BY <1>4, <2>1, <2>4, AnswerSurvives DEF AnswerInv, Top
<1>8. CASE RunLanding(b)
  <2>1. CASE CanPresent(b.by)
    <3>1. /\ Show("landing", Tail(main_queue)) /\ ~alert
          /\ UNCHANGED <<alert, gps, cache, conn, menu>>
      BY <1>8, <2>1 DEF RunLanding, CanPresent
    <3>. QED
      BY <1>1, <1>3, <3>1, ShownAnswer
  <2>2. CASE ~CanPresent(b.by)
    <3>1. /\ b.op = "landing" /\ main_queue' = Tail(main_queue)
          /\ UNCHANGED <<stack, alert, menu>>
      BY <1>8, <2>2 DEF RunLanding
    <3>2. b.by # n
      <4>1. b.by = n => alert /\ Top = "menu"
        BY <2>2, <3>1, <1>1 DEF CanPresent, NamesPage, Top
      <4>. QED
        BY <4>1 DEF AnswerInv
    <3>. QED
      BY <1>3, <1>4, <3>1, <3>2, AnswerSurvives DEF AnswerInv, Top, menu
  <2>. QED
    BY <2>1, <2>2
<1>. QED
  BY <1>5, <1>6, <1>7, <1>8 DEF RunBlock

(* An animation ends; with the last one what is held back goes on.         *)
LEMMA EndedAnswer ==
    ASSUME Inv, AnswerInv, NEW k \in DOMAIN animating, AnimationEnds(k)
    PROVE  AnswerInv'
<1>1. /\ main_queue \in Seq(Block) /\ waiting \in Seq(Block)
      /\ \A j \in DOMAIN waiting : waiting[j].op = "landing"
      /\ animating \in Seq(DOMAIN stack)
  BY DEF Inv, InvWith, QueueInv, HeldInv, MenusInv
<1>2. /\ stack' = stack /\ alert' = alert
      /\ closed' = closed \cup {animating[k]}
      /\ animating' = RemoveAt(animating, k)
  BY DEF AnimationEnds, page
<1>3. Leaving(closed', animating', main_queue)
          \subseteq Leaving(closed, animating, main_queue)
  BY <1>1, <1>2, LeavingOnlyEnded
<1>4. CASE group = 1
  <2>1. main_queue' = main_queue \o waiting /\ waiting' = <<>>
    BY <1>4 DEF AnimationEnds
  <2>2. ClosingsOf(waiting) = {}
    BY <1>1 DEF ClosingsOf
  <2>3. Leaving(closed', animating', main_queue')
            \subseteq Leaving(closed', animating', main_queue)
    BY <1>1, <2>1, <2>2, LeavingOnlyJoined
  <2>4. ASSUME NEW n, Answered(waiting, main_queue, n)
        PROVE  Answered(waiting', main_queue', n)
    <3>. PICK q : q = main_queue \o waiting
      OBVIOUS
    <3>1. /\ \A j \in DOMAIN main_queue : j \in DOMAIN q
                                          /\ q[j] = main_queue[j]
          /\ \A j \in DOMAIN waiting :
                 /\ Len(main_queue) + j \in DOMAIN q
                 /\ q[Len(main_queue) + j] = waiting[j]
      BY <1>1, Joined
    <3>2. \E j \in DOMAIN q : q[j].op = "landing" /\ q[j].by = n
      BY <1>1, <2>4, <3>1 DEF Answered
    <3>. QED
      BY <2>1, <3>2 DEF Answered
  <2>. QED
    BY <1>2, <1>3, <2>3, <2>4, AnswerSurvives DEF AnswerInv, Top
<1>5. CASE group # 1
  <2>1. main_queue' = main_queue /\ waiting' = waiting
    BY <1>5 DEF AnimationEnds
  <2>. QED
    BY <1>2, <1>3, <2>1, AnswerSurvives DEF AnswerInv, Top
<1>. QED
  BY <1>4, <1>5

LEMMA AnswerKept == Inv /\ AnswerInv /\ [Next]_vars => AnswerInv'
<1>. SUFFICES ASSUME Inv, AnswerInv, [Next]_vars
              PROVE  AnswerInv'
  OBVIOUS
<1>1. /\ PagesInv /\ main_queue \in Seq(Block) /\ waiting \in Seq(Block)
      /\ cache \in Values \cup {Unknown} /\ wire \in Seq(Values)
  BY DEF Inv, InvWith, PagesInv, QueueInv, HeldInv
<1>2. ASSUME UNCHANGED <<stack, main_queue, menu>>, alert' => Top' = "landing"
      PROVE  AnswerInv'
  BY <1>2, AnswerSurvives DEF menu
<1>3. ASSUME NEW from, NEW to \in {"other", "landing", "menu"},
             OpenPage(from, to)
      PROVE  AnswerInv'
  BY <1>1, <1>3, ShownAnswer DEF OpenPage, Touchable
<1>4. CASE DidUpdateLocations
  <2>1. Top = "landing" /\ stack' = stack
    BY <1>4 DEF DidUpdateLocations, CanPresent, LandingPages, Top
  <2>. QED
    BY <1>2, <1>4, <2>1 DEF DidUpdateLocations, Top
<1>5. CASE CloseAlert
  BY <1>2, <1>5 DEF CloseAlert
<1>6. CASE TouchesBegan
  <2>. PICK l : l = Task("landing", Len(stack))
    OBVIOUS
  <2>1. /\ stack' = stack /\ ~alert' /\ HoldBack(l)
    BY <1>6 DEF TouchesBegan, MayTouch, page, Touchable
  <2>2. l \in Block /\ l.by = Len(stack)
    BY <1>1, PageFacts DEF Task, Block
  <2>3. \E k \in DOMAIN waiting' : waiting'[k] = l
    <3>1. CASE waiting' = Append(waiting, l)
      <4>1. /\ Len(waiting) + 1 \in DOMAIN waiting'
            /\ waiting'[Len(waiting) + 1] = l
        BY <1>1, <2>2, <3>1, AppendProperties, LenProperties
      <4>. QED  BY <4>1
    <3>2. CASE waiting' = waiting /\ l \in ToSet(waiting)
      BY <3>2 DEF ToSet
    <3>. QED  BY <2>1, <3>1, <3>2 DEF HoldBack
  <2>4. Answered(waiting', main_queue', Len(stack))
    BY <2>2, <2>3 DEF Answered
  <2>. QED
    BY <2>1, <2>4 DEF AnswerInv
<1>7. CASE RunBlock
  BY <1>7, RunAnswer
<1>8. CASE EndAnimation
  BY <1>8, EndedAnswer DEF EndAnimation
<1>9. CASE GpsChanges \/ Reconnect \/ Disconnect
  BY <1>2, <1>9
     DEF GpsChanges, GpsWritten, Reconnect, Disconnect, page, AnswerInv, Top
<1>10. CASE DataUpdate
  <2>. PICK e : e = Events(Head(wire))
    OBVIOUS
  <2>1. /\ UNCHANGED <<stack, alert, menu>>
        /\ main_queue' = main_queue \/ main_queue' = main_queue \o e
    BY <1>10 DEF DataUpdate, page
  <2>2. Head(wire) \in Values \cup {Unknown}
    BY <1>1, <1>10, HeadTailProperties DEF DataUpdate
  <2>3. e \in Seq(Block) /\ \A k \in DOMAIN e : e[k].op = "value"
    BY <1>1, <2>2, PageFacts, OneEventEach
  <2>4. /\ Leaving(closed, animating, main_queue \o e)
               \subseteq Leaving(closed, animating, main_queue)
        /\ Answered(waiting, main_queue, Len(stack))
               => Answered(waiting, main_queue \o e, Len(stack))
    BY <1>1, <2>3, LeavingOnlyJoined, StillAnswered DEF ClosingsOf
  <2>. QED
    BY <2>1, <2>4, AnswerSurvives DEF AnswerInv, Top, menu
<1>11. CASE Kill
  <2>1. /\ alert' = FALSE /\ closed' = {} /\ animating' = <<>>
        /\ main_queue' = <<>>
    BY <1>11 DEF Kill
  <2>2. Leaving(closed', animating', main_queue') = {}
    BY <2>1 DEF Leaving, ClosingsOf
  <2>. QED
    BY <2>1, <2>2 DEF AnswerInv
<1>12. CASE UNCHANGED vars
  BY <1>2, <1>12 DEF vars, page, AnswerInv, Top
<1>. QED
  BY <1>3, <1>4, <1>5, <1>6, <1>7, <1>8, <1>9, <1>10, <1>11, <1>12 DEF Next

(* A touched menu on top makes way: the landing page is on its way over it *)
(* and no alert keeps it off.                                              *)
THEOREM MenusAreNeverForgotten == Spec => []MenuNeverForgotten
<1>1. Init => AnswerInv
  BY DEF Init, AnswerInv, Leaving, ClosingsOf
<1>2. Inv /\ AnswerInv => MenuNeverForgotten
  <2>. SUFFICES ASSUME Inv, AnswerInv, Top = "menu",
                       Len(stack) \in TouchedMenus
                PROVE  /\ ~alert
                       /\ Answered(waiting, main_queue, Len(stack))
    BY DEF MenuNeverForgotten, Answered
  <2>1. DOMAIN animating = 1 .. Len(animating)
    BY LenProperties DEF Inv, InvWith, MenusInv
  <2>2. Len(stack) \in Leaving(closed, animating, main_queue)
    BY <2>1 DEF TouchedMenus, Closings, ClosingsOf, Leaving, ToSet
  <2>. QED
    BY <2>2 DEF AnswerInv
<1>. QED
  BY <1>1, <1>2, AnswerKept, InvHolds, PTL DEF Spec
=============================================================================
