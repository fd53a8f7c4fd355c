-------------------------- MODULE SubWindowsProofs --------------------------
(***************************************************************************)
(* Proofs about SubWindows, for any editors, a console of any length and   *)
(* any number of edits, of requests to apply and of windows being opened.  *)
(***************************************************************************)
EXTENDS SubWindows, SequenceTheorems, FiniteSetTheorems, TLAPS

-----------------------------------------------------------------------------
(* Sequences and numbers.                                                  *)

(* What is left of a sequence when one element is taken out: all the       *)
(* others, each once.                                                      *)
LEMMA RemoveAtFacts ==
    ASSUME NEW s \in Seq(Ids), NEW i \in DOMAIN s, NEW r, r = RemoveAt(s, i)
    PROVE  /\ r \in Seq(Ids) /\ Len(s) \in Nat \ {0} /\ Len(r) = Len(s) - 1
           /\ \A j \in DOMAIN s : j # i => \E k \in DOMAIN r : r[k] = s[j]
           /\ \A k \in DOMAIN r : \E j \in DOMAIN s : j # i /\ r[k] = s[j]
           /\ \A k, l \in DOMAIN r :
                 k # l => \E j, m \in DOMAIN s : j # m /\ r[k] = s[j] /\ r[l] = s[m]
<1> DEFINE n == Len(s)
           a == SubSeq(s, 1, i - 1)
           b == SubSeq(s, i + 1, n)
<1>1. n \in Nat /\ DOMAIN s = 1 .. n /\ i \in 1 .. n /\ \A j \in 1 .. n : s[j] \in Ids
  BY LenProperties, ElementOfSeq
<1>2. a \in Seq(Ids) /\ Len(a) = i - 1 /\ \A j \in 1 .. i - 1 : a[j] = s[j]
  <2>1. \A j \in 1 .. i - 1 : s[j] \in Ids
    BY <1>1
  <2>2. /\ a \in Seq(Ids)
        /\ Len(a) = IF 1 <= i - 1 THEN (i - 1) - 1 + 1 ELSE 0
        /\ \A j \in 1 .. (i - 1) - 1 + 1 : a[j] = s[1 + j - 1]
    <3>1. 1 \in Int /\ i - 1 \in Int
      BY <1>1
    <3> QED
      BY <2>1, <3>1, SubSeqProperties
  <2> HIDE DEF a
  <2> QED
    BY <1>1, <2>2
<1>3. b \in Seq(Ids) /\ Len(b) = n - i /\ \A j \in 1 .. n - i : b[j] = s[i + j]
  <2>1. \A j \in i + 1 .. n : s[j] \in Ids
    BY <1>1
  <2>2. /\ b \in Seq(Ids)
        /\ Len(b) = IF i + 1 <= n THEN n - (i + 1) + 1 ELSE 0
        /\ \A j \in 1 .. n - (i + 1) + 1 : b[j] = s[(i + 1) + j - 1]
    <3>1. i + 1 \in Int /\ n \in Int
      BY <1>1
    <3> QED
      BY <2>1, <3>1, SubSeqProperties
  <2> HIDE DEF b, n
  <2>3. ASSUME NEW j \in 1 .. n - i PROVE b[j] = s[i + j]
    <3>1. j \in 1 .. n - (i + 1) + 1 /\ (i + 1) + j - 1 = i + j
      BY <1>1
    <3> QED
      BY <2>2, <3>1
  <2>4. Len(b) = n - i
    BY <1>1, <2>2
  <2> QED
    BY <2>2, <2>3, <2>4
<1>4. r = a \o b
  BY DEF RemoveAt
<1>5. /\ r \in Seq(Ids) /\ Len(r) = n - 1 /\ DOMAIN r = 1 .. n - 1
      /\ \A k \in 1 .. n - 1 : r[k] = IF k < i THEN s[k] ELSE s[k + 1]
  <2>1. /\ r \in Seq(Ids) /\ Len(r) = Len(a) + Len(b) /\ DOMAIN r = 1 .. Len(r)
        /\ \A k \in 1 .. Len(a) + Len(b) : r[k] = IF k <= Len(a) THEN a[k] ELSE b[k - Len(a)]
    <3> HIDE DEF a, b
    <3> QED
      BY <1>2, <1>3, <1>4, ConcatProperties, LenProperties
  <2>2. Len(r) = n - 1
    BY <1>1, <1>2, <1>3, <2>1
  <2>3. ASSUME NEW k \in 1 .. n - 1 PROVE r[k] = IF k < i THEN s[k] ELSE s[k + 1]
    <3> HIDE DEF a, b, n
    <3>1. CASE k < i
      BY <1>1, <1>2, <1>3, <2>1, <3>1
    <3>2. CASE ~(k < i)
      <4>1. r[k] = b[k - (i - 1)] /\ k - (i - 1) \in 1 .. n - i
        BY <1>1, <1>2, <1>3, <2>1, <3>2
      <4>2. i + (k - (i - 1)) = k + 1
        BY <1>1
      <4> QED
        BY <1>3, <3>2, <4>1, <4>2
    <3> QED
      BY <3>1, <3>2
  <2> QED
    BY <2>1, <2>2, <2>3
<1> HIDE DEF n
<1>6. ASSUME NEW j \in DOMAIN s, j # i PROVE \E k \in DOMAIN r : r[k] = s[j]
  <2>1. CASE j < i
    BY <1>1, <1>5, <2>1
  <2>2. CASE j > i
    <3>1. j - 1 \in 1 .. n - 1 /\ ~(j - 1 < i) /\ (j - 1) + 1 = j
      BY <1>1, <2>2
    <3> QED
      BY <1>5, <3>1
  <2> QED
    BY <1>1, <1>6, <2>1, <2>2
<1>7. ASSUME NEW k \in DOMAIN r PROVE \E j \in DOMAIN s : j # i /\ r[k] = s[j]
  <2>1. CASE k < i
    BY <1>1, <1>5, <2>1
  <2>2. CASE ~(k < i)
    <3>1. k + 1 \in DOMAIN s /\ k + 1 # i
      BY <1>1, <1>5, <2>2
    <3> QED
      BY <1>5, <2>2, <3>1
  <2> QED
    BY <2>1, <2>2
<1>8. ASSUME NEW k \in DOMAIN r, NEW l \in DOMAIN r, k # l
      PROVE  \E j, m \in DOMAIN s : j # m /\ r[k] = s[j] /\ r[l] = s[m]
  <2> DEFINE Old(p) == IF p < i THEN p ELSE p + 1
  <2>1. Old(k) \in 1 .. n /\ Old(l) \in 1 .. n /\ Old(k) # Old(l)
    BY <1>1, <1>5, <1>8
  <2>2. r[k] = s[Old(k)] /\ r[l] = s[Old(l)]
    BY <1>5
  <2> HIDE DEF Old
  <2> QED
    BY <1>1, <2>1, <2>2
<1>9. Len(s) = n /\ n # 0
  BY <1>1 DEF n
<1>10. /\ r \in Seq(Ids) /\ Len(s) \in Nat \ {0} /\ Len(r) = Len(s) - 1
  BY <1>1, <1>5, <1>9
<1> QED
  BY <1>6, <1>7, <1>8, <1>10

(* Every nonempty set of naturals has a least member.                      *)
LEMMA LeastNatural ==
    ASSUME NEW S \in SUBSET Nat, S # {}
    PROVE  \E m \in S : \A k \in S : m <= k
<1> DEFINE Smaller == {p \in Nat \X Nat : p[1] < p[2]}
<1>1. IsWellFoundedOn(Smaller, Nat)
  <2>1. Smaller = OpToRel(<, Nat)
    BY Zenon DEF OpToRel
  <2> QED
    BY <2>1, NatLessThanWellFounded, Zenon
<1> HIDE DEF Smaller
<1>2. \E m \in S : \A k \in S : ~(<<k, m>> \in Smaller)
  BY <1>1, WFMin, Zenon
<1>3. \A k, m \in Nat : <<k, m>> \notin Smaller => m <= k
  BY DEF Smaller
<1> QED
  BY <1>2, <1>3

(* A sequence with one more element at place i.                            *)
LEMMA InsertAtFacts ==
    ASSUME NEW s \in Seq(Ids), NEW e \in Ids, NEW i \in 1 .. Len(s) + 1,
           NEW r, r = InsertAt(s, i, e)
    PROVE  /\ r \in Seq(Ids) /\ DOMAIN r = 1 .. Len(s) + 1 /\ Len(r) = Len(s) + 1
           /\ i \in DOMAIN r /\ r[i] = e
           /\ \A j \in DOMAIN s : \E k \in DOMAIN r : k # i /\ r[k] = s[j]
           /\ \A k \in DOMAIN r : k # i => \E j \in DOMAIN s : r[k] = s[j]
           /\ \A k, l \in DOMAIN r :
                 k # i /\ l # i /\ k # l =>
                   \E j, m \in DOMAIN s : j # m /\ r[k] = s[j] /\ r[l] = s[m]
<1> DEFINE n == Len(s)
           a == SubSeq(s, 1, i - 1)
           b == SubSeq(s, i, n)
           c == a \o <<e>>
<1>1. n \in Nat /\ DOMAIN s = 1 .. n /\ i \in 1 .. n + 1 /\ \A j \in 1 .. n : s[j] \in Ids
  BY LenProperties, ElementOfSeq
<1>2. a \in Seq(Ids) /\ Len(a) = i - 1 /\ \A j \in 1 .. i - 1 : a[j] = s[j]
  <2>1. \A j \in 1 .. i - 1 : s[j] \in Ids
    BY <1>1
  <2>2. /\ a \in Seq(Ids)
        /\ Len(a) = IF 1 <= i - 1 THEN (i - 1) - 1 + 1 ELSE 0
        /\ \A j \in 1 .. (i - 1) - 1 + 1 : a[j] = s[1 + j - 1]
    <3>1. 1 \in Int /\ i - 1 \in Int
      BY <1>1
    <3> QED
      BY <2>1, <3>1, SubSeqProperties
  <2> HIDE DEF a
  <2> QED
    BY <1>1, <2>2
<1>3. b \in Seq(Ids) /\ Len(b) = n + 1 - i /\ \A j \in 1 .. n + 1 - i : b[j] = s[i + j - 1]
  <2>1. \A j \in i .. n : s[j] \in Ids
    BY <1>1
  <2>2. /\ b \in Seq(Ids)
        /\ Len(b) = IF i <= n THEN n - i + 1 ELSE 0
        /\ \A j \in 1 .. n - i + 1 : b[j] = s[i + j - 1]
    <3>1. i \in Int /\ n \in Int
      BY <1>1
    <3> QED
      BY <2>1, <3>1, SubSeqProperties
  <2> HIDE DEF b, n
  <2>3. n - i + 1 = n + 1 - i
    BY <1>1
  <2> QED
    BY <1>1, <2>2, <2>3
<1>4. c \in Seq(Ids) /\ Len(c) = i /\ c[i] = e /\ \A j \in 1 .. i - 1 : c[j] = s[j]
  <2>1. <<e>> \in Seq(Ids) /\ Len(<<e>>) = 1 /\ <<e>>[1] = e
    OBVIOUS
  <2> DEFINE d == <<e>>
  <2>2. /\ c \in Seq(Ids) /\ Len(c) = Len(a) + Len(d)
        /\ \A j \in 1 .. Len(a) + Len(d) : c[j] = IF j <= Len(a) THEN a[j] ELSE d[j - Len(a)]
    <3>1. d \in Seq(Ids)
      BY <2>1
    <3>2. c = a \o d
      OBVIOUS
    <3> HIDE DEF a, d, c
    <3> QED
      BY <1>2, <3>1, <3>2, ConcatProperties
  <2>3. d[1] = e /\ Len(d) = 1
    BY <2>1
  <2> HIDE DEF a, d, c
  <2>4. Len(a) + Len(d) = i
    BY <1>1, <1>2, <2>3
  <2>5. c[i] = e
    <3>1. c[i] = d[i - Len(a)] /\ i - Len(a) = 1
      BY <1>1, <1>2, <2>2, <2>4
    <3> QED
      BY <2>3, <3>1
  <2> QED
    <3>1. ASSUME NEW j \in 1 .. i - 1 PROVE c[j] = s[j]
      <4>1. j \in 1 .. i /\ j <= Len(a)
        BY <1>1, <1>2
      <4>2. c[j] = a[j]
        BY <2>2, <2>4, <4>1
      <4> QED
        BY <1>2, <4>2
    <3> QED
      BY <2>2, <2>4, <2>5, <3>1
<1>5. r = c \o b
  BY DEF InsertAt
<1> HIDE DEF a, b, c
<1>6. /\ r \in Seq(Ids) /\ Len(r) = Len(c) + Len(b) /\ DOMAIN r = 1 .. Len(r)
      /\ \A k \in 1 .. Len(c) + Len(b) : r[k] = IF k <= Len(c) THEN c[k] ELSE b[k - Len(c)]
  <2>1. /\ r \in Seq(Ids) /\ Len(r) = Len(c) + Len(b)
        /\ \A k \in 1 .. Len(c) + Len(b) : r[k] = IF k <= Len(c) THEN c[k] ELSE b[k - Len(c)]
    <3>1. b \in Seq(Ids) /\ c \in Seq(Ids)
      BY <1>3, <1>4
    <3>2. /\ c \o b \in Seq(Ids) /\ Len(c \o b) = Len(c) + Len(b)
          /\ \A k \in 1 .. Len(c) + Len(b) : (c \o b)[k] = IF k <= Len(c) THEN c[k] ELSE b[k - Len(c)]
      BY <3>1, ConcatProperties
    <3> QED
      BY <3>2, <1>5
  <2> QED
    BY <2>1, LenProperties
<1>7. Len(r) = n + 1 /\ Len(c) + Len(b) = n + 1
  BY <1>1, <1>3, <1>4, <1>6
<1>8. ASSUME NEW k \in 1 .. n + 1
      PROVE  r[k] = IF k < i THEN s[k] ELSE IF k = i THEN e ELSE s[k - 1]
  <2> HIDE DEF n
  <2>1. CASE k < i
    <3>1. k \in 1 .. i - 1 /\ k \in 1 .. Len(c) + Len(b) /\ k <= Len(c)
      BY <1>1, <1>4, <1>7, <2>1
    <3>2. r[k] = c[k]
      BY <1>6, <3>1
    <3> QED
      BY <1>4, <2>1, <3>1, <3>2
  <2>2. CASE k = i
    BY <1>1, <1>4, <1>6, <1>7, <2>2
  <2>3. CASE k > i
    <3>1. r[k] = b[k - i] /\ k - i \in 1 .. n + 1 - i
      BY <1>1, <1>4, <1>6, <1>7, <2>3
    <3>2. i + (k - i) - 1 = k - 1
      BY <1>1
    <3> QED
      BY <1>1, <1>3, <2>3, <3>1, <3>2
  <2> QED
    BY <1>1, <2>1, <2>2, <2>3
<1> DEFINE New(j) == IF j < i THEN j ELSE j + 1
           Old(k) == IF k < i THEN k ELSE k - 1
<1> HIDE DEF n
<1>9. ASSUME NEW j \in DOMAIN s PROVE \E k \in DOMAIN r : k # i /\ r[k] = s[j]
  <2>1. New(j) \in 1 .. n + 1 /\ New(j) # i /\ r[New(j)] = s[j]
    <3>1. CASE j < i
      BY <1>1, <1>8, <3>1
    <3>2. CASE ~(j < i)
      <4>1. j + 1 \in 1 .. n + 1 /\ ~(j + 1 < i) /\ j + 1 # i /\ (j + 1) - 1 = j
        BY <1>1, <3>2
      <4> QED
        BY <1>8, <3>2, <4>1
    <3> QED
      BY <3>1, <3>2
  <2> QED
    BY <1>6, <1>7, <2>1
<1>10. ASSUME NEW k \in DOMAIN r, k # i PROVE Old(k) \in DOMAIN s /\ r[k] = s[Old(k)]
  <2>1. k \in 1 .. n + 1
    BY <1>6, <1>7
  <2>2. CASE k < i
    BY <1>1, <1>8, <2>1, <2>2
  <2>3. CASE ~(k < i)
    BY <1>1, <1>8, <1>10, <2>1, <2>3
  <2> QED
    BY <2>2, <2>3
<1>11. ASSUME NEW k \in DOMAIN r, NEW l \in DOMAIN r, k # i, l # i, k # l
       PROVE  \E j, m \in DOMAIN s : j # m /\ r[k] = s[j] /\ r[l] = s[m]
  <2>1. Old(k) # Old(l)
    BY <1>1, <1>6, <1>7, <1>11
  <2> HIDE DEF Old
  <2> QED
    BY <1>10, <1>11, <2>1
<1>12. i \in DOMAIN r /\ r[i] = e
  BY <1>1, <1>6, <1>7, <1>8
<1>13. Len(s) = n /\ Len(r) = n + 1
  BY <1>7 DEF n
<1> HIDE DEF Old, New
<1>14. \A k \in DOMAIN r : k # i => \E j \in DOMAIN s : r[k] = s[j]
  BY <1>10
<1> QED
  BY <1>6, <1>7, <1>9, <1>11, <1>12, <1>13, <1>14

-----------------------------------------------------------------------------
(* Filter.                                                                 *)

\* The function that Filter defines by recursion, as far as n.
IsFilter(f, s, keep, n) ==
    f = [i \in 0 .. n |->
           IF i = 0 THEN <<>> ELSE IF s[i] \in keep THEN Append(f[i - 1], s[i]) ELSE f[i - 1]]

(* The recursion of Filter defines a function.                             *)
LEMMA FilterExists ==
    ASSUME NEW s, NEW keep, NEW n \in Nat
    PROVE  \E f : IsFilter(f, s, keep, n)
<1> SUFFICES ASSUME ~\E f : IsFilter(f, s, keep, n)
             PROVE  FALSE
  OBVIOUS
<1> DEFINE Undone == {j \in Nat : ~\E f : IsFilter(f, s, keep, j)}
<1>1. PICK m \in Undone : \A j \in Undone : m <= j
  BY LeastNatural
<1>2. m # 0
  <2> SUFFICES ASSUME m = 0 PROVE FALSE
    OBVIOUS
  <2> DEFINE g == [i \in 0 .. 0 |-> <<>>]
  <2>1. IsFilter(g, s, keep, 0)
    BY DEF IsFilter
  <2> QED
    BY <2>1
<1>3. m - 1 \in Nat /\ m - 1 \notin Undone
  BY <1>1, <1>2
<1>4. PICK f : IsFilter(f, s, keep, m - 1)
  BY <1>3
<1> DEFINE Item(h, i) == IF s[i] \in keep THEN Append(h[i - 1], s[i]) ELSE h[i - 1]
           g == [i \in 0 .. m |-> IF i = 0 THEN <<>> ELSE Item(f, i)]
<1>5. ASSUME NEW i \in 0 .. m - 1 PROVE f[i] = g[i]
  <2>1. m \in Nat /\ i \in 0 .. m
    BY <1>1
  <2>2. f[i] = IF i = 0 THEN <<>> ELSE Item(f, i)
    BY <1>4 DEF IsFilter
  <2> QED
    BY <2>1, <2>2
<1>6. IsFilter(g, s, keep, m)
  <2>1. ASSUME NEW i \in 0 .. m, i # 0
        PROVE  Item(f, i) = Item(g, i)
    <3>1. i - 1 \in 0 .. m - 1
      BY <2>1
    <3>2. f[i - 1] = g[i - 1]
      BY <1>5, <3>1
    <3> HIDE DEF g
    <3> QED
      BY <3>2
  <2>2. g = [i \in 0 .. m |-> IF i = 0 THEN <<>> ELSE Item(g, i)]
    <3>1. \A i \in 0 .. m : (IF i = 0 THEN <<>> ELSE Item(f, i)) = IF i = 0 THEN <<>> ELSE Item(g, i)
      BY <2>1, Zenon
    <3> QED
      BY <3>1, Zenon
  <2> QED
    BY <2>2, Zenon DEF IsFilter
<1> QED
  BY <1>6

(* Induction over what Filter goes through.                                *)
LEMMA FilterInduction ==
    ASSUME NEW s, NEW keep, NEW n, n = Len(s), n \in Nat, NEW Good, <<>> \in Good[0],
           \A i \in 1 .. n : \A p \in Good[i - 1] :
               (IF s[i] \in keep THEN Append(p, s[i]) ELSE p) \in Good[i]
    PROVE  Filter(s, keep) \in Good[n]
<1> DEFINE f == CHOOSE f : IsFilter(f, s, keep, n)
<1>1. IsFilter(f, s, keep, n)
  BY FilterExists, Zenon
<1>2. Filter(s, keep) = f[n]
  BY Zenon DEF Filter, IsFilter
<1> HIDE DEF f
<1> SUFFICES ASSUME f[n] \notin Good[n] PROVE FALSE
  BY <1>2
<1> DEFINE Bad == {j \in 0 .. n : f[j] \notin Good[j]}
<1>3. PICK m \in Bad : \A j \in Bad : m <= j
  <2>1. Bad \in SUBSET Nat /\ Bad # {}
    OBVIOUS
  <2> HIDE DEF Bad
  <2> QED
    BY <2>1, LeastNatural
<1>4. m # 0
  BY <1>1 DEF IsFilter
<1>5. m - 1 \in 0 .. n /\ f[m - 1] \in Good[m - 1]
  BY <1>3, <1>4
<1>6. f[m] = IF s[m] \in keep THEN Append(f[m - 1], s[m]) ELSE f[m - 1]
  BY <1>1, <1>4 DEF IsFilter
<1>7. m \in 1 .. n
  BY <1>3, <1>4
<1>8. f[m] \in Good[m]
  <2>1. (IF s[m] \in keep THEN Append(f[m - 1], s[m]) ELSE f[m - 1]) \in Good[m]
    BY <1>5, <1>7, Zenon
  <2> QED
    BY <1>6, <2>1
<1> QED
  BY <1>3, <1>8

\* p holds what is to be kept of the elements of s at places, each once.
KeptOf(p, s, keep, places) ==
    /\ \A k \in DOMAIN p : \E j \in places : s[j] \in keep /\ p[k] = s[j]
    /\ \A k, l \in DOMAIN p :
          k # l => \E j, m \in places : j # m /\ p[k] = s[j] /\ p[l] = s[m]
    /\ \A j \in places : s[j] \in keep => \E k \in DOMAIN p : p[k] = s[j]

(* What Filter returns: the kept elements, in order, none of them twice.   *)
LEMMA FilterFacts ==
    ASSUME NEW s \in Seq(Ids), NEW keep, NEW r, r = Filter(s, keep)
    PROVE  /\ r \in Seq(Ids)
           /\ \A k \in DOMAIN r : \E j \in DOMAIN s : s[j] \in keep /\ r[k] = s[j]
           /\ \A k, l \in DOMAIN r :
                 k # l => \E j, m \in DOMAIN s : j # m /\ r[k] = s[j] /\ r[l] = s[m]
           /\ \A j \in DOMAIN s : s[j] \in keep => \E k \in DOMAIN r : r[k] = s[j]
<1> DEFINE n == Len(s)
           Good == [i \in 0 .. n |-> {p \in Seq(Ids) : KeptOf(p, s, keep, 1 .. i)}]
<1>1. n \in Nat /\ DOMAIN s = 1 .. n /\ \A j \in 1 .. n : s[j] \in Ids
  BY LenProperties, ElementOfSeq
<1>2. <<>> \in Good[0]
  <2>1. <<>> \in Seq(Ids) /\ DOMAIN <<>> = {} /\ 0 \in 0 .. n
    BY <1>1
  <2>2. KeptOf(<<>>, s, keep, 1 .. 0)
    BY <2>1 DEF KeptOf
  <2> HIDE DEF n
  <2> QED
    BY <2>1, <2>2
<1>3. ASSUME NEW i \in 1 .. n, NEW p \in Good[i - 1]
      PROVE  (IF s[i] \in keep THEN Append(p, s[i]) ELSE p) \in Good[i]
  <2> HIDE DEF n
  <2>1. i \in Nat /\ i - 1 \in 0 .. n /\ i \in 0 .. n /\ i \in 1 .. i /\ 1 .. i - 1 \subseteq 1 .. i
        /\ (\A j \in 1 .. i : j = i \/ j \in 1 .. i - 1) /\ i \notin 1 .. i - 1
    BY <1>1
  <2>2. p \in Seq(Ids) /\ KeptOf(p, s, keep, 1 .. i - 1)
    BY <1>3, <2>1
  <2> HIDE DEF Good
  <2>3. CASE s[i] \in keep
    <3> DEFINE q == Append(p, s[i])
               z == Len(p) + 1
    <3>1. /\ q \in Seq(Ids) /\ z \in DOMAIN q /\ z \notin DOMAIN p /\ q[z] = s[i]
          /\ \A k \in DOMAIN q : k = z \/ k \in DOMAIN p
          /\ \A k \in DOMAIN p : k \in DOMAIN q /\ q[k] = p[k]
      <4>1. s[i] \in Ids
        BY <1>1
      <4>2. /\ q \in Seq(Ids) /\ Len(q) = Len(p) + 1 /\ q[Len(p) + 1] = s[i]
            /\ \A k \in 1 .. Len(p) : q[k] = p[k]
        BY <2>2, <4>1, AppendProperties
      <4>3. DOMAIN q = 1 .. Len(q) /\ DOMAIN p = 1 .. Len(p) /\ Len(p) \in Nat
        BY <2>2, <4>2, LenProperties
      <4> HIDE DEF q
      <4> QED
        BY <4>2, <4>3
    <3> HIDE DEF q, z
    <3>2. \A k \in DOMAIN q : \E j \in 1 .. i : s[j] \in keep /\ q[k] = s[j]
      BY <2>1, <2>2, <2>3, <3>1 DEF KeptOf
    <3>3. ASSUME NEW k \in DOMAIN q, NEW l \in DOMAIN q, k # l
          PROVE  \E j, m \in 1 .. i : j # m /\ q[k] = s[j] /\ q[l] = s[m]
      <4>1. CASE k = z
        <5>1. PICK m \in 1 .. i - 1 : q[l] = s[m]
          BY <2>2, <3>1, <3>3, <4>1 DEF KeptOf
        <5> QED
          BY <2>1, <3>1, <4>1, <5>1
      <4>2. CASE l = z
        <5>1. PICK m \in 1 .. i - 1 : q[k] = s[m]
          BY <2>2, <3>1, <3>3, <4>2 DEF KeptOf
        <5> QED
          BY <2>1, <3>1, <4>2, <5>1
      <4>3. CASE k # z /\ l # z
        <5>1. PICK j \in 1 .. i - 1, m \in 1 .. i - 1 : j # m /\ p[k] = s[j] /\ p[l] = s[m]
          BY <2>2, <3>1, <3>3, <4>3 DEF KeptOf
        <5> QED
          BY <2>1, <3>1, <4>3, <5>1
      <4> QED
        BY <4>1, <4>2, <4>3
    <3>4. \A j \in 1 .. i : s[j] \in keep => \E k \in DOMAIN q : q[k] = s[j]
      BY <2>1, <2>2, <3>1 DEF KeptOf
    <3>5. KeptOf(q, s, keep, 1 .. i)
      BY <3>2, <3>3, <3>4 DEF KeptOf
    <3>6. q \in Good[i]
      BY <2>1, <3>1, <3>5 DEF Good
    <3> QED
      BY <2>3, <3>6 DEF q
  <2>4. CASE s[i] \notin keep
    <3>1. \A k \in DOMAIN p : \E j \in 1 .. i : s[j] \in keep /\ p[k] = s[j]
      BY <2>1, <2>2 DEF KeptOf
    <3>2. ASSUME NEW k \in DOMAIN p, NEW l \in DOMAIN p, k # l
          PROVE  \E j, m \in 1 .. i : j # m /\ p[k] = s[j] /\ p[l] = s[m]
      <4>1. PICK j \in 1 .. i - 1, m \in 1 .. i - 1 : j # m /\ p[k] = s[j] /\ p[l] = s[m]
        BY <2>2, <3>2 DEF KeptOf
      <4> QED
        BY <2>1, <4>1
    <3>3. \A j \in 1 .. i : s[j] \in keep => \E k \in DOMAIN p : p[k] = s[j]
      BY <2>1, <2>2, <2>4 DEF KeptOf
    <3>4. KeptOf(p, s, keep, 1 .. i)
      BY <3>1, <3>2, <3>3 DEF KeptOf
    <3>5. p \in Good[i]
      BY <2>1, <2>2, <3>4 DEF Good
    <3> QED
      BY <2>4, <3>5
  <2> QED
    BY <2>3, <2>4
<1>4. r \in Good[n]
  <2>1. Len(s) = n /\ n \in Nat
    BY <1>1
  <2> HIDE DEF n, Good
  <2> QED
    BY <1>2, <1>3, <2>1, FilterInduction
<1>5. n \in 0 .. n
  BY <1>1
<1>6. r \in Seq(Ids) /\ KeptOf(r, s, keep, DOMAIN s)
  BY <1>1, <1>4, <1>5
<1> QED
  BY <1>6 DEF KeptOf

-----------------------------------------------------------------------------
(* Strips of tabs.                                                         *)

\* No tab appears twice.
Distinct(s) == \A i, j \in DOMAIN s : i # j => s[i] # s[j]

\* The strips there can be.
Strip == {s \in Seq(Ids) : Distinct(s)}

(* The tabs of a strip, by their places.                                   *)
LEMMA StripFacts ==
    ASSUME NEW s \in Strip
    PROVE  /\ s \in Seq(Ids) /\ Distinct(s)
           /\ Len(s) \in Nat /\ DOMAIN s = 1 .. Len(s)
           /\ s = <<>> <=> Len(s) = 0
           /\ \A i \in DOMAIN s : s[i] \in Range(s) /\ s[i] \in Ids
           /\ \A id \in Range(s) : id \in Ids /\ \E i \in DOMAIN s : s[i] = id
<1>1. s \in Seq(Ids) /\ Distinct(s)
  BY DEF Strip
<1>2. Len(s) \in Nat /\ DOMAIN s = 1 .. Len(s) /\ \A i \in 1 .. Len(s) : s[i] \in Ids
  BY <1>1, LenProperties, ElementOfSeq
<1>3. s = <<>> <=> Len(s) = 0
  BY <1>1, EmptySeq
<1> QED
  BY <1>1, <1>2, <1>3 DEF Range

(* A strip shows as many ids as it has tabs exactly if no tab appears      *)
(* twice.                                                                  *)
LEMMA DistinctCardinality ==
    ASSUME NEW s \in Seq(Ids)
    PROVE  Cardinality(Range(s)) = Len(s) <=> Distinct(s)
<1> DEFINE n == Len(s)
<1>1. n \in Nat /\ DOMAIN s = 1 .. n
  BY LenProperties
<1>2. IsFiniteSet(1 .. n) /\ Cardinality(1 .. n) = n
  <2>1. 1 \in Int /\ n \in Int
    BY <1>1
  <2>2. IsFiniteSet(1 .. n) /\ Cardinality(1 .. n) = IF 1 > n THEN 0 ELSE n - 1 + 1
    BY <2>1, FS_Interval
  <2> HIDE DEF n
  <2> QED
    BY <1>1, <2>2
<1>3. s \in [1 .. n -> Range(s)]
  BY <1>1 DEF Range
<1>4. Len(s) = n
  OBVIOUS
<1> HIDE DEF n
<1>5. s \in Surjection(1 .. n, Range(s))
  BY <1>1, <1>3 DEF Surjection, Range
<1>6. s \in Injection(1 .. n, Range(s)) <=> Distinct(s)
  BY <1>1, <1>3 DEF Injection, IsInjective, Distinct
<1>7. Cardinality(Range(s)) = Cardinality(1 .. n) <=> s \in Injection(1 .. n, Range(s))
  BY <1>2, <1>5, FS_Surjection
<1> QED
  BY <1>2, <1>4, <1>6, <1>7

(* The strip without one tab.                                              *)
LEMMA WithoutStrip ==
    ASSUME NEW s \in Strip, NEW id
    PROVE  Without(s, id) \in Strip /\ Range(Without(s, id)) = Range(s) \ {id}
<1> DEFINE keep == Range(s) \ {id}
           r == Filter(s, keep)
<1>1. Without(s, id) = r
  BY DEF Without
<1> HIDE DEF keep
<1>2. /\ r \in Seq(Ids)
      /\ \A k \in DOMAIN r : \E j \in DOMAIN s : s[j] \in keep /\ r[k] = s[j]
      /\ \A k, l \in DOMAIN r :
            k # l => \E j, m \in DOMAIN s : j # m /\ r[k] = s[j] /\ r[l] = s[m]
      /\ \A j \in DOMAIN s : s[j] \in keep => \E k \in DOMAIN r : r[k] = s[j]
  BY StripFacts, FilterFacts
<1> HIDE DEF r
<1>3. Distinct(r)
  BY <1>2, StripFacts DEF Distinct
<1>4. Range(r) = keep
  BY <1>2, StripFacts DEF Range, keep
<1> QED
  BY <1>1, <1>2, <1>3, <1>4 DEF Strip, keep

(* The strip with one more tab.                                            *)
LEMMA AppendStrip ==
    ASSUME NEW s \in Strip, NEW id \in Ids, id \notin Range(s)
    PROVE  /\ Append(s, id) \in Strip /\ Append(s, id) # <<>>
           /\ Range(Append(s, id)) = Range(s) \cup {id}
<1> DEFINE r == Append(s, id)
           n == Len(s)
<1>1. /\ r \in Seq(Ids) /\ r # <<>> /\ Len(r) = n + 1 /\ r[n + 1] = id
      /\ \A i \in 1 .. n : r[i] = s[i]
  BY StripFacts, AppendProperties
<1>2. DOMAIN r = 1 .. n + 1 /\ DOMAIN s = 1 .. n /\ n \in Nat
  BY <1>1, StripFacts, LenProperties
<1> HIDE DEF r, n
<1>3. /\ n + 1 \in DOMAIN r /\ \A i \in DOMAIN s : i \in DOMAIN r /\ r[i] = s[i]
      /\ \A i \in DOMAIN r : i = n + 1 \/ i \in DOMAIN s
  BY <1>1, <1>2
<1>4. Range(r) = Range(s) \cup {id}
  BY <1>1, <1>3 DEF Range
<1>5. Distinct(r)
  BY <1>1, <1>3, StripFacts DEF Distinct
<1> QED
  BY <1>1, <1>4, <1>5 DEF Strip, r

(* What is left of a strip when one tab is lifted out of it.               *)
LEMMA LiftedFacts ==
    ASSUME NEW s \in Strip, NEW from \in DOMAIN s, NEW p, p = RemoveAt(s, from)
    PROVE  /\ p \in Seq(Ids) /\ Len(s) \in Nat \ {0} /\ Len(p) = Len(s) - 1
           /\ \A j \in DOMAIN s : j # from => \E k \in DOMAIN p : p[k] = s[j]
           /\ \A k \in DOMAIN p : \E j \in DOMAIN s : j # from /\ p[k] = s[j]
           /\ \A k, l \in DOMAIN p :
                 k # l => \E j, m \in DOMAIN s : j # m /\ p[k] = s[j] /\ p[l] = s[m]
<1>1. s \in Seq(Ids)
  BY StripFacts
<1> QED
  BY <1>1, RemoveAtFacts

(* The strip with one tab dragged to another place.                        *)
LEMMA DragStrip ==
    ASSUME NEW s \in Strip, NEW from \in DOMAIN s, NEW to \in DOMAIN s,
           NEW p, p = RemoveAt(s, from),
           NEW e, e = s[from], NEW r, r = InsertAt(p, to, e)
    PROVE  r \in Strip /\ Range(r) = Range(s)
<1>1. s \in Seq(Ids) /\ e \in Ids /\ DOMAIN s = 1 .. Len(s) /\ Len(s) \in Nat
  BY StripFacts
<1>2. /\ p \in Seq(Ids) /\ Len(s) \in Nat \ {0} /\ Len(p) = Len(s) - 1
      /\ \A j \in DOMAIN s : j # from => \E k \in DOMAIN p : p[k] = s[j]
      /\ \A k \in DOMAIN p : \E j \in DOMAIN s : j # from /\ p[k] = s[j]
      /\ \A k, l \in DOMAIN p :
            k # l => \E j, m \in DOMAIN s : j # m /\ p[k] = s[j] /\ p[l] = s[m]
  BY LiftedFacts
<1>3. p \in Seq(Ids) /\ e \in Ids
  BY <1>1, <1>2
<1>4. to \in 1 .. Len(p) + 1
  BY <1>1, <1>2
<1>5. /\ r \in Seq(Ids) /\ DOMAIN r = 1 .. Len(p) + 1 /\ Len(r) = Len(p) + 1
      /\ to \in DOMAIN r /\ r[to] = e
      /\ \A j \in DOMAIN p : \E k \in DOMAIN r : k # to /\ r[k] = p[j]
      /\ \A k \in DOMAIN r : k # to => \E j \in DOMAIN p : r[k] = p[j]
      /\ \A k, l \in DOMAIN r :
            k # to /\ l # to /\ k # l =>
              \E j, m \in DOMAIN p : j # m /\ r[k] = p[j] /\ r[l] = p[m]
  BY <1>3, <1>4, InsertAtFacts, SMTT(60)
<1>6. \A k \in DOMAIN r : k # to => \E j \in DOMAIN s : j # from /\ r[k] = s[j]
  BY <1>2, <1>5
<1>7. Range(r) = Range(s)
  <2>1. ASSUME NEW k \in DOMAIN r PROVE \E j \in DOMAIN s : r[k] = s[j]
    BY <1>5, <1>6
  <2>2. ASSUME NEW j \in DOMAIN s PROVE \E k \in DOMAIN r : r[k] = s[j]
    <3>1. CASE j # from
      <4>1. PICK m \in DOMAIN p : p[m] = s[j]
        BY <1>2, <3>1
      <4> QED
        BY <1>5, <4>1
    <3> QED
      BY <1>5, <3>1
  <2> QED
    BY <2>1, <2>2 DEF Range
<1>8. Distinct(r)
  <2> SUFFICES ASSUME NEW k \in DOMAIN r, NEW l \in DOMAIN r, k # l
               PROVE  r[k] # r[l]
    BY DEF Distinct
  <2>1. \A i \in DOMAIN r : i # to => r[i] # e
    BY <1>6, StripFacts DEF Distinct
  <2>2. CASE k # to /\ l # to
    <3>1. PICK j \in DOMAIN p, m \in DOMAIN p : j # m /\ r[k] = p[j] /\ r[l] = p[m]
      BY <1>5, <2>2
    <3>2. PICK x \in DOMAIN s, y \in DOMAIN s : x # y /\ p[j] = s[x] /\ p[m] = s[y]
      BY <1>2, <3>1
    <3> QED
      BY <3>1, <3>2, StripFacts DEF Distinct
  <2> QED
    BY <1>5, <2>1, <2>2
<1> QED
  BY <1>5, <1>7, <1>8 DEF Strip

-----------------------------------------------------------------------------
(* The console.                                                            *)

Line == [key : Nat, kind : {"command", "result"}]

\* What the console holds, and what its keys are: the numbers of the lines
\* until the history is full, and the one number beyond it from then on.
ConsoleInv(h) ==
    /\ h \in Seq(Line) /\ Len(h) <= MaxHistory
    /\ \A i \in DOMAIN h : h[i].key <= MaxHistory + 1
    /\ Len(h) < MaxHistory => \A i \in DOMAIN h : h[i].key = i
    /\ \A i, j \in DOMAIN h :
         i < j => \/ h[i].key < h[j].key
                  \/ h[i].key = MaxHistory + 1 /\ h[j].key = MaxHistory + 1
    /\ \A i \in DOMAIN h :
         h[i].kind = "result" => i = 1 \/ h[i - 1].kind = "command"

(* The places and the lines of a history.                                  *)
LEMMA HistoryFacts ==
    ASSUME NEW h \in Seq(Line)
    PROVE  /\ Len(h) \in Nat /\ DOMAIN h = 1 .. Len(h)
           /\ \A i \in DOMAIN h : h[i].key \in Nat /\ h[i].kind \in {"command", "result"}
<1>1. Len(h) \in Nat /\ DOMAIN h = 1 .. Len(h) /\ \A i \in 1 .. Len(h) : h[i] \in Line
  BY LenProperties, ElementOfSeq
<1> QED
  BY <1>1 DEF Line

(* An empty console is sound.                                              *)
LEMMA EmptyConsole == ConsoleInv(<<>>)
BY SubWindowsAssumption DEF ConsoleInv

(* One more line, whose place is the last one: the oldest line makes way   *)
(* when the history is full.                                               *)
LEMMA OneMoreLine ==
    ASSUME NEW h, ConsoleInv(h), NEW kind \in {"command", "result"},
           kind = "result" => h # <<>> /\ h[Len(h)].kind = "command",
           NEW r, r = addHistory(h, kind)
    PROVE  ConsoleInv(r) /\ r # <<>> /\ r[Len(r)].kind = kind
<1> DEFINE n == Len(h)
           line == [key |-> n + 1, kind |-> kind]
           next == Append(h, line)
<1>1. /\ h \in Seq(Line) /\ n \in Nat /\ DOMAIN h = 1 .. n
      /\ \A i \in 1 .. n : h[i].key \in Nat /\ h[i].kind \in {"command", "result"}
  BY HistoryFacts DEF ConsoleInv
<1>2. line \in Line /\ line.key = n + 1 /\ line.kind = kind
  BY <1>1 DEF Line
<1>3. n <= MaxHistory /\ MaxHistory \in Nat \ {0} /\ Len(h) = n
  BY SubWindowsAssumption DEF ConsoleInv
<1>4. r = IF Len(next) > MaxHistory THEN Tail(next) ELSE next
  BY DEF addHistory
<1> HIDE DEF n, line
<1>5. /\ next \in Seq(Line) /\ Len(next) = n + 1 /\ next # <<>> /\ DOMAIN next = 1 .. n + 1
      /\ next[n + 1] = line /\ \A i \in 1 .. n : next[i] = h[i]
  BY <1>1, <1>2, <1>3, AppendProperties, LenProperties
<1> HIDE DEF next
<1>6. /\ \A i \in 1 .. n : next[i].key = h[i].key /\ next[i].kind = h[i].kind
      /\ next[n + 1].key = n + 1 /\ next[n + 1].kind = kind
  BY <1>2, <1>5
<1>7. /\ \A i \in 1 .. n : h[i].key <= MaxHistory + 1
      /\ n < MaxHistory => \A i \in 1 .. n : h[i].key = i
      /\ \A i, j \in 1 .. n :
           i < j => \/ h[i].key < h[j].key
                    \/ h[i].key = MaxHistory + 1 /\ h[j].key = MaxHistory + 1
      /\ \A i \in 1 .. n :
           h[i].kind = "result" => i = 1 \/ h[i - 1].kind = "command"
      /\ kind = "result" => n # 0 /\ h[n].kind = "command"
  BY <1>1, <1>3, EmptySeq DEF ConsoleInv
<1>8. \A i \in 1 .. n + 1 : next[i].key \in Nat /\ next[i].key <= MaxHistory + 1
  BY <1>1, <1>3, <1>6, <1>7
<1>9. \A i, j \in 1 .. n + 1 :
        i < j => \/ next[i].key < next[j].key
                 \/ next[i].key = MaxHistory + 1 /\ next[j].key = MaxHistory + 1
  <2> SUFFICES ASSUME NEW i \in 1 .. n + 1, NEW j \in 1 .. n + 1, i < j
               PROVE  \/ next[i].key < next[j].key
                      \/ next[i].key = MaxHistory + 1 /\ next[j].key = MaxHistory + 1
    OBVIOUS
  <2>1. i \in 1 .. n
    BY <1>1
  <2>2. CASE j \in 1 .. n
    BY <1>6, <1>7, <2>1, <2>2
  <2>3. CASE j = n + 1
    <3>1. CASE n < MaxHistory
      BY <1>1, <1>6, <1>7, <2>1, <2>3, <3>1
    <3>2. CASE n = MaxHistory
      BY <1>1, <1>6, <1>7, <1>8, <2>1, <2>3, <3>2
    <3> QED
      BY <1>1, <1>3, <3>1, <3>2
  <2> QED
    BY <1>1, <2>2, <2>3
<1>10. \A i \in 1 .. n + 1 :
         next[i].kind = "result" => i = 1 \/ next[i - 1].kind = "command"
  <2> SUFFICES ASSUME NEW i \in 1 .. n + 1, next[i].kind = "result", i # 1
               PROVE  next[i - 1].kind = "command"
    OBVIOUS
  <2>1. i - 1 \in 1 .. n
    BY <1>1
  <2>2. CASE i \in 1 .. n
    BY <1>6, <1>7, <2>1, <2>2
  <2>3. CASE i = n + 1
    BY <1>1, <1>6, <1>7, <2>1, <2>3
  <2> QED
    BY <1>1, <2>2, <2>3
<1>11. CASE n + 1 > MaxHistory
  <2>1. r = Tail(next) /\ n = MaxHistory
    BY <1>1, <1>3, <1>4, <1>5, <1>11
  <2>2. /\ r \in Seq(Line) /\ Len(r) = n /\ DOMAIN r = 1 .. n
        /\ \A i \in 1 .. n : r[i] = next[i + 1]
    <3>1. /\ r \in Seq(Line) /\ Len(r) = Len(next) - 1
          /\ \A i \in 1 .. Len(r) : r[i] = next[i + 1]
      BY <1>5, <2>1, HeadTailProperties
    <3> QED
      BY <1>1, <1>5, <3>1, LenProperties
  <2>3. /\ \A i \in 1 .. n : r[i].key = next[i + 1].key /\ r[i].kind = next[i + 1].kind
        /\ \A i \in 1 .. n : i + 1 \in 1 .. n + 1 /\ (i + 1) - 1 = i
    BY <1>1, <2>2
  <2>4. \A i \in 1 .. n : r[i].kind = "result" => i = 1 \/ r[i - 1].kind = "command"
    <3> SUFFICES ASSUME NEW i \in 1 .. n, r[i].kind = "result", i # 1
                 PROVE  r[i - 1].kind = "command"
      OBVIOUS
    <3>1. i - 1 \in 1 .. n /\ (i - 1) + 1 = i
      BY <1>1
    <3>2. next[i + 1].kind = "result" /\ i + 1 # 1 /\ r[i - 1].kind = next[i].kind
      BY <1>1, <2>3, <3>1
    <3> QED
      BY <1>10, <2>3, <3>2
  <2>5. ASSUME NEW i \in 1 .. n, NEW j \in 1 .. n, i < j
        PROVE  \/ r[i].key < r[j].key
               \/ r[i].key = MaxHistory + 1 /\ r[j].key = MaxHistory + 1
    <3>1. i + 1 < j + 1
      BY <1>1, <2>5
    <3> QED
      BY <1>9, <2>3, <3>1
  <2>6. \A i \in 1 .. n : r[i].key <= MaxHistory + 1
    BY <1>8, <2>3
  <2>7. r # <<>> /\ r[Len(r)].kind = kind
    BY <1>1, <1>3, <1>6, <2>1, <2>2, <2>3, EmptySeq
  <2>8. Len(r) <= MaxHistory /\ ~(Len(r) < MaxHistory)
    BY <1>3, <2>1, <2>2
  <2>9. ConsoleInv(r)
    BY <2>2, <2>4, <2>5, <2>6, <2>8 DEF ConsoleInv
  <2> QED
    BY <2>7, <2>9
<1>12. CASE ~(n + 1 > MaxHistory)
  <2>1. r = next /\ n + 1 <= MaxHistory /\ n < MaxHistory
    BY <1>1, <1>3, <1>4, <1>5, <1>12
  <2>2. \A i \in 1 .. n + 1 : next[i].key = i
    BY <1>1, <1>6, <1>7, <2>1
  <2> QED
    BY <1>5, <1>6, <1>8, <1>9, <1>10, <2>1, <2>2 DEF ConsoleInv
<1> QED
  BY <1>11, <1>12

-----------------------------------------------------------------------------
(* The invariant.                                                          *)

\* The strip, the documents and the tab that is shown belong together.
TabsInv ==
    /\ tabs \in Strip
    /\ yaml \in [Ids -> Nat] /\ seen \in [Ids -> Nat]
    /\ status \in [Ids -> Results]
    /\ \A id \in Ids : yaml[id] # Absent <=> IsOpen(id)
    /\ active \in Ids \cup {None}
    /\ IF tabs = <<>> THEN active = None ELSE IsOpen(active)

\* What is under way is known by numbers, and the mark names one of it.
AppliesInv ==
    /\ applying \in Editors \cup {None}
    /\ applies \subseteq [n : 1..MaxApplies, id : Editors] /\ IsFiniteSet(applies)
    /\ mixed \in BOOLEAN
    /\ ApplyingHonest /\ OneApplyAtATime

\* The requests for windows, with the documents they carry.
DetachesInv == detaches \subseteq [id : Ids, yaml : Nat]

IInv == TabsInv /\ AppliesInv /\ DetachesInv /\ ConsoleInv(lines) /\ edits \in Nat

(* It says at least what the runs check.                                   *)
LEMMA IInvImplies ==
    ASSUME IInv
    PROVE  StripSound /\ ApplyingHonest /\ OneApplyAtATime
<1>1. TypeOK
  <2>1. tabs \in Seq(Ids)
    BY DEF IInv, TabsInv, Strip
  <2>2. lines \in Seq([key : Nat, kind : {"command", "result"}])
    BY DEF IInv, ConsoleInv, Line
  <2> QED
    BY <2>1, <2>2 DEF IInv, TabsInv, AppliesInv, DetachesInv, TypeOK
<1>2. ConsoleSound
  BY DEF IInv, ConsoleInv, ConsoleSound
<1>3. Cardinality(Range(tabs)) = Len(tabs)
  BY DistinctCardinality DEF IInv, TabsInv, Strip
<1> QED
  BY <1>1, <1>2, <1>3 DEF IInv, TabsInv, AppliesInv, DetachesInv, StripSound

(* The window starts empty, or with the one tab it was opened for.         *)
LEMMA IInvInit == Init => IInv
<1> SUFFICES ASSUME Init PROVE IInv
  OBVIOUS
<1>1. PICK id \in Ids \cup {None} :
        /\ tabs = IF id = None THEN <<>> ELSE <<id>>
        /\ yaml = [i \in Ids |-> IF i = id THEN Listed ELSE Absent]
        /\ active = id
  BY DEF Init
<1>2. None \notin Ids
  BY SubWindowsAssumption DEF Ids, None, Console
<1>3. yaml \in [Ids -> Nat] /\ seen \in [Ids -> Nat] /\ status \in [Ids -> Results]
  BY <1>1 DEF Init, Listed, Absent, Results
<1>4. AppliesInv
  BY FS_EmptySet DEF Init, AppliesInv, ApplyingHonest, OneApplyAtATime
<1>5. CASE id = None
  <2>1. tabs = <<>> /\ Range(tabs) = {} /\ tabs \in Strip
    BY <1>1, <1>5 DEF Range, Strip, Distinct
  <2>2. \A i \in Ids : yaml[i] = Absent
    BY <1>1, <1>2, <1>5
  <2> QED
    BY <1>1, <1>3, <1>4, <1>5, <2>1, <2>2, EmptyConsole
       DEF IInv, TabsInv, DetachesInv, Init, IsOpen
<1>6. CASE id \in Ids
  <2>1. tabs = <<id>> /\ tabs # <<>> /\ Range(tabs) = {id} /\ tabs \in Strip
    BY <1>1, <1>2, <1>6 DEF Range, Strip, Distinct
  <2>2. \A i \in Ids : yaml[i] # Absent <=> i = id
    BY <1>1 DEF Listed, Absent
  <2> QED
    BY <1>1, <1>3, <1>4, <1>6, <2>1, <2>2, EmptyConsole
       DEF IInv, TabsInv, DetachesInv, Init, IsOpen
<1> QED
  BY <1>5, <1>6

-----------------------------------------------------------------------------
(* The steps on tabs.                                                      *)

(* What a console shows after a tab is activated.                          *)
LEMMA MountedSound == ASSUME IInv, NEW a PROVE ConsoleInv(Mounted(a))
BY EmptyConsole DEF IInv, Mounted

(* A tab that is opened, or shown again.                                   *)
LEMMA OpenTabStep == ASSUME IInv, NEW id \in Ids, OpenTab(id) PROVE IInv'
<1>1. ConsoleInv(lines)'
  BY MountedSound DEF OpenTab
<1>2. CASE IsOpen(id)
  <2>1. tabs' = tabs /\ yaml' = yaml /\ status' = status /\ active' = id
    BY <1>2 DEF OpenTab, Opened
  <2>2. tabs # <<>>
    BY <1>2 DEF IsOpen, Range
  <2> QED
    BY <1>1, <1>2, <2>1, <2>2
       DEF IInv, TabsInv, AppliesInv, DetachesInv, ApplyingHonest, OneApplyAtATime, OpenTab,
           IsOpen, applyVars
<1>3. CASE ~IsOpen(id)
  <2>1. /\ tabs' = Append(tabs, id) /\ yaml' = [yaml EXCEPT ![id] = Listed]
        /\ status' = [status EXCEPT ![id] = None] /\ active' = id
    BY <1>3 DEF OpenTab, Opened
  <2>2. tabs' \in Strip /\ tabs' # <<>> /\ Range(tabs') = Range(tabs) \cup {id}
    BY <1>3, <2>1, AppendStrip DEF IInv, TabsInv, IsOpen
  <2>3. TabsInv'
    <3>1. yaml' \in [Ids -> Nat] /\ status' \in [Ids -> Results]
      BY <2>1 DEF IInv, TabsInv, Listed, Results
    <3>2. \A i \in Ids : yaml'[i] # Absent <=> IsOpen(i)'
      BY <2>1, <2>2 DEF IInv, TabsInv, Listed, Absent, IsOpen
    <3> QED
      BY <2>1, <2>2, <3>1, <3>2 DEF IInv, TabsInv, IsOpen, OpenTab
  <2>4. DetachesInv'
    BY DEF IInv, DetachesInv, OpenTab
  <2> QED
    BY <1>1, <2>3, <2>4 DEF IInv, AppliesInv, ApplyingHonest, OneApplyAtATime, OpenTab, applyVars
<1> QED
  BY <1>2, <1>3

(* Another tab is shown.                                                   *)
LEMMA ActivateTabStep == ASSUME IInv, NEW id \in Ids, ActivateTab(id) PROVE IInv'
<1>1. ConsoleInv(lines)'
  BY MountedSound DEF ActivateTab
<1>2. tabs # <<>>
  BY DEF ActivateTab, IsOpen, Range
<1> QED
  BY <1>1, <1>2
     DEF IInv, TabsInv, AppliesInv, DetachesInv, ApplyingHonest, OneApplyAtATime, ActivateTab,
         IsOpen, applyVars

(* A tab that leaves the strip, open or not.                               *)
LEMMA RemoveTabFacts ==
    ASSUME IInv, NEW id \in Ids, RemoveTab(id), UNCHANGED seen
    PROVE  TabsInv' /\ ConsoleInv(lines)'
<1> DEFINE next == Without(tabs, id)
<1>1. /\ tabs' = next /\ yaml' = [yaml EXCEPT ![id] = Absent]
      /\ status' = [status EXCEPT ![id] = None]
      /\ active' = IF active = id THEN LastOf(next) ELSE active
      /\ lines' = Mounted(active')
  BY DEF RemoveTab, ActiveAfter
<1>2. next \in Strip /\ Range(next) = Range(tabs) \ {id}
  BY WithoutStrip DEF IInv, TabsInv
<1> HIDE DEF next
<1>3. ConsoleInv(lines)'
  BY <1>1, MountedSound
<1>4. yaml' \in [Ids -> Nat] /\ status' \in [Ids -> Results]
  BY <1>1 DEF IInv, TabsInv, Absent, Results
<1>5. \A i \in Ids : yaml'[i] # Absent <=> IsOpen(i)'
  BY <1>1, <1>2 DEF IInv, TabsInv, Absent, IsOpen
<1>6. next = <<>> => Range(next) = {}
  BY DEF Range
<1>7. next # <<>> => LastOf(next) \in Range(next)
  <2>1. next # <<>> => Len(next) \in DOMAIN next
    BY <1>2, StripFacts
  <2> QED
    BY <2>1, <1>2, StripFacts DEF LastOf
<1>8. /\ active' \in Ids \cup {None}
      /\ IF tabs' = <<>> THEN active' = None ELSE IsOpen(active)'
  <2>1. CASE active = id
    <3>1. CASE next = <<>>
      BY <1>1, <2>1, <3>1 DEF LastOf
    <3>2. CASE next # <<>>
      BY <1>1, <1>2, <1>7, <2>1, <3>2, StripFacts DEF IsOpen
    <3> QED
      BY <3>1, <3>2
  <2>2. CASE active # id
    <3>1. CASE tabs = <<>>
      <4>1. Range(tabs) = {} /\ active = None
        BY <3>1 DEF IInv, TabsInv, Range
      <4>2. next = <<>>
        <5>1. next # <<>> => 1 \in DOMAIN next
          BY <1>2, StripFacts
        <5> QED
          BY <1>2, <4>1, <5>1, StripFacts
      <4> QED
        BY <1>1, <2>2, <4>1, <4>2
    <3>2. CASE tabs # <<>>
      BY <1>1, <1>2, <1>6, <2>2, <3>2 DEF IInv, TabsInv, IsOpen
    <3> QED
      BY <3>1, <3>2
  <2> QED
    BY <2>1, <2>2
<1>9. TabsInv'
  BY <1>1, <1>2, <1>4, <1>5, <1>8 DEF IInv, TabsInv
<1> QED
  BY <1>3, <1>9

(* Closing a tab.                                                          *)
LEMMA CloseTabStep == ASSUME IInv, NEW id \in Ids, CloseTab(id) PROVE IInv'
<1>1. TabsInv' /\ ConsoleInv(lines)'
  BY RemoveTabFacts DEF CloseTab
<1>2. DetachesInv'
  BY DEF IInv, DetachesInv, CloseTab
<1> QED
  BY <1>1, <1>2 DEF IInv, AppliesInv, ApplyingHonest, OneApplyAtATime, CloseTab, applyVars

(* Moving a tab.                                                           *)
LEMMA ReorderTabsStep ==
    ASSUME IInv, NEW from \in DOMAIN tabs, NEW to \in DOMAIN tabs, ReorderTabs(from, to)
    PROVE  IInv'
<1>1. tabs' \in Strip /\ Range(tabs') = Range(tabs)
  BY DragStrip DEF IInv, TabsInv, ReorderTabs
<1>2. tabs = <<>> <=> tabs' = <<>>
  <2>1. tabs # <<>>
    BY StripFacts DEF IInv, TabsInv
  <2>2. Range(tabs') # {}
    BY <1>1, StripFacts DEF IInv, TabsInv
  <2> QED
    BY <2>1, <2>2 DEF Range
<1> QED
  BY <1>1, <1>2
     DEF IInv, TabsInv, AppliesInv, DetachesInv, ApplyingHonest, OneApplyAtATime, ReorderTabs,
         IsOpen, applyVars

(* An edit of the document that is shown.                                  *)
LEMMA EditYamlStep == ASSUME IInv, EditYaml PROVE IInv'
<1>1. /\ active \in Ids /\ IsOpen(active) /\ edits' = edits + 1 /\ edits \in Nat
      /\ yaml' = [yaml EXCEPT ![active] = Listed + edits']
  BY DEF EditYaml, IInv, Ids
<1>2. /\ yaml' \in [Ids -> Nat] /\ yaml'[active] # Absent
      /\ \A i \in Ids : i # active => yaml'[i] = yaml[i]
  BY <1>1 DEF IInv, TabsInv, Listed, Absent
<1>3. DetachesInv'
  BY DEF IInv, DetachesInv, EditYaml
<1>4. TabsInv'
  BY <1>1, <1>2 DEF IInv, TabsInv, IsOpen, EditYaml
<1> QED
  BY <1>1, <1>3, <1>4
     DEF IInv, AppliesInv, ApplyingHonest, OneApplyAtATime, EditYaml, applyVars

-----------------------------------------------------------------------------
(* The steps of applying, detaching and the console.                       *)

(* As long as fewer requests than MaxApplies are under way a number is     *)
(* free.                                                                   *)
LEMMA NewNumberFacts ==
    ASSUME IInv, Cardinality(applies) < MaxApplies
    PROVE  NewNumber \in 1 .. MaxApplies
<1> DEFINE Used == {r.n : r \in applies}
           Free == 1 .. MaxApplies \ Used
<1>1. IsFiniteSet(applies) /\ Cardinality(applies) \in Nat /\ MaxApplies \in Nat
  BY FS_CardinalityType, SubWindowsAssumption DEF IInv, AppliesInv
<1>2. Cardinality(1 .. MaxApplies) = MaxApplies
  <2>1. 1 \in Int /\ MaxApplies \in Int
    BY <1>1
  <2>2. Cardinality(1 .. MaxApplies) = IF 1 > MaxApplies THEN 0 ELSE MaxApplies - 1 + 1
    BY <2>1, FS_Interval
  <2> QED
    BY <1>1, <2>2
<1>3. Free # {}
  <2> SUFFICES ASSUME Free = {} PROVE FALSE
    OBVIOUS
  <2> DEFINE g == [n \in 1 .. MaxApplies |-> CHOOSE r \in applies : r.n = n]
  <2>1. ASSUME NEW n \in 1 .. MaxApplies PROVE g[n] \in applies /\ g[n].n = n
    <3>1. \E r \in applies : r.n = n
      OBVIOUS
    <3> QED
      BY <3>1
  <2>2. g \in [1 .. MaxApplies -> applies]
    BY <2>1
  <2>3. \A n \in 1 .. MaxApplies : g[n].n = n
    BY <2>1
  <2> HIDE DEF g
  <2>4. g \in Injection(1 .. MaxApplies, applies)
    BY <2>2, <2>3 DEF Injection, IsInjective
  <2>5. Cardinality(1 .. MaxApplies) <= Cardinality(applies)
    BY <1>1, <2>4, FS_Injection
  <2> QED
    BY <1>1, <1>2, <2>5
<1>4. Free \in SUBSET Nat
  OBVIOUS
<1> HIDE DEF Free
<1>5. PICK m \in Free : \A k \in Free : m <= k
  BY <1>3, <1>4, LeastNatural
<1>6. NewNumber = CHOOSE x \in Free : \A y \in Free : x <= y
  BY DEF NewNumber, Min, Free
<1>7. NewNumber \in Free
  BY <1>5, <1>6
<1> QED
  BY <1>7 DEF Free

(* Applying the document that is shown.                                    *)
LEMMA ApplyStep == ASSUME IInv, Apply PROVE IInv'
<1> DEFINE q == [n |-> NewNumber, id |-> active]
<1>1. /\ active \in Editors /\ applying # active /\ NewNumber \in 1 .. MaxApplies
      /\ applying' = active
      /\ applies' = applies \cup {q} /\ q.id = active
      /\ q \in [n : 1..MaxApplies, id : Editors]
      /\ mixed' = (mixed \/ \E r \in applies : r.id # active)
  BY NewNumberFacts DEF Apply, CanApply
<1> HIDE DEF q
<1>2. IsFiniteSet(applies') /\ applies' \subseteq [n : 1..MaxApplies, id : Editors]
  BY <1>1, FS_AddElement DEF IInv, AppliesInv
<1>3. ApplyingHonest'
  BY <1>1 DEF ApplyingHonest
<1>4. OneApplyAtATime'
  <2> SUFFICES ASSUME ~mixed'
               PROVE  applies' = {q}
    BY <1>1 DEF OneApplyAtATime
  <2>1. ~mixed /\ \A r \in applies : r.id = active
    BY <1>1
  <2>2. \A r \in applies : applying = r.id
    BY <2>1 DEF IInv, AppliesInv, OneApplyAtATime
  <2>3. applies = {}
    BY <1>1, <2>1, <2>2
  <2> QED
    BY <1>1, <2>3
<1>5. TabsInv'
  <2>1. active \in Ids /\ status' = [status EXCEPT ![active] = None] /\ None \in Results
    BY <1>1 DEF Apply, Ids, Results
  <2>2. status' \in [Ids -> Results]
    BY <2>1 DEF IInv, TabsInv
  <2> QED
    BY <2>2 DEF IInv, TabsInv, Apply, IsOpen
<1>6. mixed' \in BOOLEAN
  BY <1>1
<1> QED
  BY <1>1, <1>2, <1>3, <1>4, <1>5, <1>6 DEF IInv, AppliesInv, DetachesInv, Apply

(* Its answer, whichever tab is shown by then.                             *)
LEMMA ApplyAnsweredStep ==
    ASSUME IInv, NEW r \in applies, NEW result \in {"ok", "error"}, ApplyAnswered(r, result)
    PROVE  IInv'
<1>1. /\ r.id \in Ids /\ applying' = None /\ applies' = applies \ {r} /\ mixed' = mixed
      /\ status' = IF IsOpen(r.id) THEN [status EXCEPT ![r.id] = result] ELSE status
  BY DEF ApplyAnswered, AfterApply, IInv, AppliesInv, Ids
<1>2. status' \in [Ids -> Results]
  BY <1>1 DEF IInv, TabsInv, Results
<1>3. TabsInv'
  BY <1>2 DEF IInv, TabsInv, ApplyAnswered, IsOpen
<1>4. IsFiniteSet(applies') /\ applies' \subseteq [n : 1..MaxApplies, id : Editors]
  BY <1>1, FS_RemoveElement DEF IInv, AppliesInv
<1>5. ApplyingHonest'
  BY <1>1 DEF ApplyingHonest
<1>6. OneApplyAtATime'
  <2> SUFFICES ASSUME ~mixed PROVE applies' = {}
    BY <1>1 DEF OneApplyAtATime
  <2> QED
    BY <1>1 DEF IInv, AppliesInv, OneApplyAtATime
<1> QED
  BY <1>1, <1>3, <1>4, <1>5, <1>6 DEF IInv, AppliesInv, DetachesInv, ApplyAnswered

(* A new callback captures the documents as they are.                      *)
LEMMA RefreshCallbackStep == ASSUME IInv, RefreshCallback PROVE IInv'
BY DEF IInv, TabsInv, AppliesInv, DetachesInv, ApplyingHonest, OneApplyAtATime, RefreshCallback,
       IsOpen, applyVars

(* A window is asked for, with what the callback captured.                 *)
LEMMA DetachTabStep == ASSUME IInv, NEW id \in Ids, DetachTab(id) PROVE IInv'
<1> DEFINE q == [id |-> id, yaml |-> seen[id]]
<1>1. detaches' = detaches \cup {q}
  BY DEF DetachTab
<1>2. q \in [id : Ids, yaml : Nat]
  BY DEF IInv, TabsInv
<1> HIDE DEF q
<1>3. DetachesInv'
  BY <1>1, <1>2 DEF IInv, DetachesInv, DetachTab, tabVars
<1> QED
  BY <1>3
     DEF IInv, TabsInv, AppliesInv, ApplyingHonest, OneApplyAtATime, DetachTab, IsOpen,
         tabVars, applyVars

(* It opens: the tab leaves the strip, if it is still there.               *)
LEMMA WindowOpensStep == ASSUME IInv, NEW r \in detaches, WindowOpens(r) PROVE IInv'
<1>1. r.id \in Ids
  BY DEF IInv, DetachesInv
<1>2. TabsInv' /\ ConsoleInv(lines)'
  BY <1>1, RemoveTabFacts DEF WindowOpens
<1>3. DetachesInv'
  BY DEF IInv, DetachesInv, WindowOpens
<1> QED
  BY <1>2, <1>3
     DEF IInv, AppliesInv, ApplyingHonest, OneApplyAtATime, WindowOpens, applyVars

(* It does not open.                                                       *)
LEMMA WindowFailsStep == ASSUME IInv, NEW r \in detaches, WindowFails(r) PROVE IInv'
BY DEF IInv, TabsInv, AppliesInv, DetachesInv, ApplyingHonest, OneApplyAtATime, WindowFails,
       IsOpen, tabVars, applyVars

(* A command, and its result if the selector parses.                       *)
LEMMA RunCommandStep == ASSUME IInv, RunCommand PROVE IInv'
<1> DEFINE once == addHistory(lines, "command")
           twice == addHistory(once, "result")
<1>1. ConsoleInv(once) /\ once # <<>> /\ once[Len(once)].kind = "command"
  BY OneMoreLine DEF IInv
<1>2. ConsoleInv(twice)
  <2> HIDE DEF once
  <2> QED
    BY <1>1, OneMoreLine
<1>3. lines' \in {once, twice}
  BY DEF RunCommand
<1> HIDE DEF once, twice
<1>4. ConsoleInv(lines)'
  BY <1>1, <1>2, <1>3
<1> QED
  BY <1>4
     DEF IInv, TabsInv, AppliesInv, DetachesInv, ApplyingHonest, OneApplyAtATime, RunCommand,
         IsOpen, tabVars, applyVars

-----------------------------------------------------------------------------
(* The theorems.                                                           *)

(* Every step keeps the invariant.                                         *)
LEMMA IInvStep == IInv /\ [Next]_vars => IInv'
<1> SUFFICES ASSUME IInv, [Next]_vars PROVE IInv'
  OBVIOUS
<1>1. CASE UNCHANGED vars
  BY <1>1
     DEF IInv, TabsInv, AppliesInv, DetachesInv, ApplyingHonest, OneApplyAtATime, IsOpen,
         vars, tabVars, applyVars
<1>2. ASSUME NEW id \in Ids,
             OpenTab(id) \/ ActivateTab(id) \/ CloseTab(id) \/ DetachTab(id)
      PROVE  IInv'
  BY <1>2, OpenTabStep, ActivateTabStep, CloseTabStep, DetachTabStep
<1>3. ASSUME NEW from \in DOMAIN tabs, NEW to \in DOMAIN tabs, ReorderTabs(from, to)
      PROVE  IInv'
  BY <1>3, ReorderTabsStep
<1>4. CASE EditYaml \/ Apply \/ RefreshCallback \/ RunCommand
  BY <1>4, EditYamlStep, ApplyStep, RefreshCallbackStep, RunCommandStep
<1>5. ASSUME NEW r \in applies, NEW result \in {"ok", "error"}, ApplyAnswered(r, result)
      PROVE  IInv'
  BY <1>5, ApplyAnsweredStep
<1>6. ASSUME NEW r \in detaches, WindowOpens(r) \/ WindowFails(r) PROVE IInv'
  BY <1>6, WindowOpensStep, WindowFailsStep
<1> QED
  BY <1>1, <1>2, <1>3, <1>4, <1>5, <1>6 DEF Next

(* The invariant holds in every state.                                     *)
LEMMA IInvAlways == Spec => []IInv
BY IInvInit, IInvStep, PTL DEF Spec

(* However tabs are opened, closed, moved and detached, no tab is there    *)
(* twice, the documents held are those of the tabs, the body shows one of  *)
(* them as long as there is one, and the console keeps to its bound.       *)
THEOREM StripAlwaysSound == Spec => []StripSound
<1>1. IInv => StripSound
  BY IInvImplies
<1> QED
  BY <1>1, IInvAlways, PTL

(* A tab that says it is applying has a request under way.                 *)
THEOREM ApplyingIsTrue == Spec => []ApplyingHonest
<1>1. IInv => ApplyingHonest
  BY IInvImplies
<1> QED
  BY <1>1, IInvAlways, PTL

(* As long as no two tabs have applied at once, one request at most is     *)
(* under way, and its tab says so.                                         *)
THEOREM AppliesOneAtATime == Spec => []OneApplyAtATime
<1>1. IInv => OneApplyAtATime
  BY IInvImplies
<1> QED
  BY <1>1, IInvAlways, PTL

=============================================================================
