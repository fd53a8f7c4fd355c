--------------------------- MODULE WorkspaceProofs --------------------------
(***************************************************************************)
(* Proofs about Workspace, for any connections, any kinds of tab, any      *)
(* number of tabs and any number of handlers waiting for the host at once. *)
(***************************************************************************)
EXTENDS Workspace, SequenceTheorems, FiniteSetTheorems, TLAPS

-----------------------------------------------------------------------------
(* Sequences and numbers.                                                  *)

(* What is left of a sequence when one element is taken out: all the       *)
(* others, each once.                                                      *)
LEMMA RemoveAtFacts ==
    ASSUME NEW S, NEW s \in Seq(S), NEW i \in DOMAIN s, NEW r, r = RemoveAt(s, i)
    PROVE  /\ r \in Seq(S) /\ Len(s) \in Nat \ {0} /\ Len(r) = Len(s) - 1
           /\ \A j \in DOMAIN s : j # i => \E k \in DOMAIN r : r[k] = s[j]
           /\ \A k \in DOMAIN r : \E j \in DOMAIN s : j # i /\ r[k] = s[j]
           /\ \A k, l \in DOMAIN r :
                 k # l => \E j, m \in DOMAIN s : j # m /\ r[k] = s[j] /\ r[l] = s[m]
<1> DEFINE n == Len(s)
           a == SubSeq(s, 1, i - 1)
           b == SubSeq(s, i + 1, n)
<1>1. n \in Nat /\ DOMAIN s = 1 .. n /\ i \in 1 .. n /\ \A j \in 1 .. n : s[j] \in S
  BY LenProperties, ElementOfSeq
<1>2. a \in Seq(S) /\ Len(a) = i - 1 /\ \A j \in 1 .. i - 1 : a[j] = s[j]
  <2>1. \A j \in 1 .. i - 1 : s[j] \in S
    BY <1>1
  <2>2. /\ a \in Seq(S)
        /\ Len(a) = IF 1 <= i - 1 THEN (i - 1) - 1 + 1 ELSE 0
        /\ \A j \in 1 .. (i - 1) - 1 + 1 : a[j] = s[1 + j - 1]
    <3>1. 1 \in Int /\ i - 1 \in Int
      BY <1>1
    <3> QED
      BY <2>1, <3>1, SubSeqProperties
  <2> HIDE DEF a
  <2> QED
    BY <1>1, <2>2
<1>3. b \in Seq(S) /\ Len(b) = n - i /\ \A j \in 1 .. n - i : b[j] = s[i + j]
  <2>1. \A j \in i + 1 .. n : s[j] \in S
    BY <1>1
  <2>2. /\ b \in Seq(S)
        /\ Len(b) = IF i + 1 <= n THEN n - (i + 1) + 1 ELSE 0
        /\ \A j \in 1 .. n - (i + 1) + 1 : b[j] = s[(i + 1) + j - 1]
    <3>1. i + 1 \in Int /\ n \in Int
      BY <1>1
    <3> QED
      BY <2>1, <3>1, SubSeqProperties
  <2> HIDE DEF b, n
  <2>3. ASSUME NEW j \in 1 .. n - i PROVE b[j] = s[i + j]
    <3>1. j \in 1 .. n - (i + 1) + 1 /\ (i + 1) + j - 1 = i + j
      BY <1>1
    <3> QED
      BY <2>2, <3>1
  <2>4. Len(b) = n - i
    BY <1>1, <2>2
  <2> QED
    BY <2>2, <2>3, <2>4
<1>4. r = a \o b
  BY DEF RemoveAt
<1>5. /\ r \in Seq(S) /\ Len(r) = n - 1 /\ DOMAIN r = 1 .. n - 1
      /\ \A k \in 1 .. n - 1 : r[k] = IF k < i THEN s[k] ELSE s[k + 1]
  <2>1. /\ r \in Seq(S) /\ Len(r) = Len(a) + Len(b) /\ DOMAIN r = 1 .. Len(r)
        /\ \A k \in 1 .. Len(a) + Len(b) : r[k] = IF k <= Len(a) THEN a[k] ELSE b[k - Len(a)]
    <3> HIDE DEF a, b
    <3> QED
      BY <1>2, <1>3, <1>4, ConcatProperties, LenProperties
  <2>2. Len(r) = n - 1
    BY <1>1, <1>2, <1>3, <2>1
  <2>3. ASSUME NEW k \in 1 .. n - 1 PROVE r[k] = IF k < i THEN s[k] ELSE s[k + 1]
    <3> HIDE DEF a, b, n
    <3>1. CASE k < i
      BY <1>1, <1>2, <1>3, <2>1, <3>1
    <3>2. CASE ~(k < i)
      <4>1. r[k] = b[k - (i - 1)] /\ k - (i - 1) \in 1 .. n - i
        BY <1>1, <1>2, <1>3, <2>1, <3>2
      <4>2. i + (k - (i - 1)) = k + 1
        BY <1>1
      <4> QED
        BY <1>3, <3>2, <4>1, <4>2
    <3> QED
      BY <3>1, <3>2
  <2> QED
    BY <2>1, <2>2, <2>3
<1> HIDE DEF n
<1>6. ASSUME NEW j \in DOMAIN s, j # i PROVE \E k \in DOMAIN r : r[k] = s[j]
  <2>1. CASE j < i
    BY <1>1, <1>5, <2>1
  <2>2. CASE j > i
    <3>1. j - 1 \in 1 .. n - 1 /\ ~(j - 1 < i) /\ (j - 1) + 1 = j
      BY <1>1, <2>2
    <3> QED
      BY <1>5, <3>1
  <2> QED
    BY <1>1, <1>6, <2>1, <2>2
<1>7. ASSUME NEW k \in DOMAIN r PROVE \E j \in DOMAIN s : j # i /\ r[k] = s[j]
  <2>1. CASE k < i
    BY <1>1, <1>5, <2>1
  <2>2. CASE ~(k < i)
    <3>1. k + 1 \in DOMAIN s /\ k + 1 # i
      BY <1>1, <1>5, <2>2
    <3> QED
      BY <1>5, <2>2, <3>1
  <2> QED
    BY <2>1, <2>2
<1>8. ASSUME NEW k \in DOMAIN r, NEW l \in DOMAIN r, k # l
      PROVE  \E j, m \in DOMAIN s : j # m /\ r[k] = s[j] /\ r[l] = s[m]
  <2> DEFINE Old(p) == IF p < i THEN p ELSE p + 1
  <2>1. Old(k) \in 1 .. n /\ Old(l) \in 1 .. n /\ Old(k) # Old(l)
    BY <1>1, <1>5, <1>8
  <2>2. r[k] = s[Old(k)] /\ r[l] = s[Old(l)]
    BY <1>5
  <2> HIDE DEF Old
  <2> QED
    BY <1>1, <2>1, <2>2
<1>9. Len(s) = n /\ n # 0
  BY <1>1 DEF n
<1>10. /\ r \in Seq(S) /\ Len(s) \in Nat \ {0} /\ Len(r) = Len(s) - 1
  BY <1>1, <1>5, <1>9
<1> QED
  BY <1>6, <1>7, <1>8, <1>10

(* Every nonempty set of naturals has a least member.                      *)
LEMMA LeastNatural ==
    ASSUME NEW S \in SUBSET Nat, S # {}
    PROVE  \E m \in S : \A k \in S : m <= k
<1> DEFINE Smaller == {p \in Nat \X Nat : p[1] < p[2]}
<1>1. IsWellFoundedOn(Smaller, Nat)
  <2>1. Smaller = OpToRel(<, Nat)
    BY Zenon DEF OpToRel
  <2> QED
    BY <2>1, NatLessThanWellFounded, Zenon
<1> HIDE DEF Smaller
<1>2. \E m \in S : \A k \in S : ~(<<k, m>> \in Smaller)
  BY <1>1, WFMin, Zenon
<1>3. \A k, m \in Nat : <<k, m>> \notin Smaller => m <= k
  BY DEF Smaller
<1> QED
  BY <1>2, <1>3

(* A sequence with one more element at place i.                            *)
LEMMA InsertAtFacts ==
    ASSUME NEW S, NEW s \in Seq(S), NEW e \in S, NEW i \in 1 .. Len(s) + 1,
           NEW r, r = InsertAt(s, i, e)
    PROVE  /\ r \in Seq(S) /\ DOMAIN r = 1 .. Len(s) + 1 /\ Len(r) = Len(s) + 1
           /\ i \in DOMAIN r /\ r[i] = e
           /\ \A j \in DOMAIN s : \E k \in DOMAIN r : k # i /\ r[k] = s[j]
           /\ \A k \in DOMAIN r : k # i => \E j \in DOMAIN s : r[k] = s[j]
           /\ \A k, l \in DOMAIN r :
                 k # i /\ l # i /\ k # l =>
                   \E j, m \in DOMAIN s : j # m /\ r[k] = s[j] /\ r[l] = s[m]
<1> DEFINE n == Len(s)
           a == SubSeq(s, 1, i - 1)
           b == SubSeq(s, i, n)
           c == a \o <<e>>
<1>1. n \in Nat /\ DOMAIN s = 1 .. n /\ i \in 1 .. n + 1 /\ \A j \in 1 .. n : s[j] \in S
  BY LenProperties, ElementOfSeq
<1>2. a \in Seq(S) /\ Len(a) = i - 1 /\ \A j \in 1 .. i - 1 : a[j] = s[j]
  <2>1. \A j \in 1 .. i - 1 : s[j] \in S
    BY <1>1
  <2>2. /\ a \in Seq(S)
        /\ Len(a) = IF 1 <= i - 1 THEN (i - 1) - 1 + 1 ELSE 0
        /\ \A j \in 1 .. (i - 1) - 1 + 1 : a[j] = s[1 + j - 1]
    <3>1. 1 \in Int /\ i - 1 \in Int
      BY <1>1
    <3> QED
      BY <2>1, <3>1, SubSeqProperties
  <2> HIDE DEF a
  <2> QED
    BY <1>1, <2>2
<1>3. b \in Seq(S) /\ Len(b) = n + 1 - i /\ \A j \in 1 .. n + 1 - i : b[j] = s[i + j - 1]
  <2>1. \A j \in i .. n : s[j] \in S
    BY <1>1
  <2>2. /\ b \in Seq(S)
        /\ Len(b) = IF i <= n THEN n - i + 1 ELSE 0
        /\ \A j \in 1 .. n - i + 1 : b[j] = s[i + j - 1]
    <3>1. i \in Int /\ n \in Int
      BY <1>1
    <3> QED
      BY <2>1, <3>1, SubSeqProperties
  <2> HIDE DEF b, n
  <2>3. n - i + 1 = n + 1 - i
    BY <1>1
  <2> QED
    BY <1>1, <2>2, <2>3
<1>4. c \in Seq(S) /\ Len(c) = i /\ c[i] = e /\ \A j \in 1 .. i - 1 : c[j] = s[j]
  <2>1. <<e>> \in Seq(S) /\ Len(<<e>>) = 1 /\ <<e>>[1] = e
    OBVIOUS
  <2> DEFINE d == <<e>>
  <2>2. /\ c \in Seq(S) /\ Len(c) = Len(a) + Len(d)
        /\ \A j \in 1 .. Len(a) + Len(d) : c[j] = IF j <= Len(a) THEN a[j] ELSE d[j - Len(a)]
    <3>1. d \in Seq(S)
      BY <2>1
    <3>2. c = a \o d
      OBVIOUS
    <3> HIDE DEF a, d, c
    <3> QED
      BY <1>2, <3>1, <3>2, ConcatProperties
  <2>3. d[1] = e /\ Len(d) = 1
    BY <2>1
  <2> HIDE DEF a, d, c
  <2>4. Len(a) + Len(d) = i
    BY <1>1, <1>2, <2>3
  <2>5. c[i] = e
    <3>1. c[i] = d[i - Len(a)] /\ i - Len(a) = 1
      BY <1>1, <1>2, <2>2, <2>4
    <3> QED
      BY <2>3, <3>1
  <2> QED
    <3>1. ASSUME NEW j \in 1 .. i - 1 PROVE c[j] = s[j]
      <4>1. j \in 1 .. i /\ j <= Len(a)
        BY <1>1, <1>2
      <4>2. c[j] = a[j]
        BY <2>2, <2>4, <4>1
      <4> QED
        BY <1>2, <4>2
    <3> QED
      BY <2>2, <2>4, <2>5, <3>1
<1>5. r = c \o b
  BY DEF InsertAt
<1> HIDE DEF a, b, c
<1>6. /\ r \in Seq(S) /\ Len(r) = Len(c) + Len(b) /\ DOMAIN r = 1 .. Len(r)
      /\ \A k \in 1 .. Len(c) + Len(b) : r[k] = IF k <= Len(c) THEN c[k] ELSE b[k - Len(c)]
  <2>1. /\ r \in Seq(S) /\ Len(r) = Len(c) + Len(b)
        /\ \A k \in 1 .. Len(c) + Len(b) : r[k] = IF k <= Len(c) THEN c[k] ELSE b[k - Len(c)]
    <3>1. b \in Seq(S) /\ c \in Seq(S)
      BY <1>3, <1>4
    <3>2. /\ c \o b \in Seq(S) /\ Len(c \o b) = Len(c) + Len(b)
          /\ \A k \in 1 .. Len(c) + Len(b) : (c \o b)[k] = IF k <= Len(c) THEN c[k] ELSE b[k - Len(c)]
      BY <3>1, ConcatProperties
    <3> QED
      BY <3>2, <1>5
  <2> QED
    BY <2>1, LenProperties
<1>7. Len(r) = n + 1 /\ Len(c) + Len(b) = n + 1
  BY <1>1, <1>3, <1>4, <1>6
<1>8. ASSUME NEW k \in 1 .. n + 1
      PROVE  r[k] = IF k < i THEN s[k] ELSE IF k = i THEN e ELSE s[k - 1]
  <2> HIDE DEF n
  <2>1. CASE k < i
    <3>1. k \in 1 .. i - 1 /\ k \in 1 .. Len(c) + Len(b) /\ k <= Len(c)
      BY <1>1, <1>4, <1>7, <2>1
    <3>2. r[k] = c[k]
      BY <1>6, <3>1
    <3> QED
      BY <1>4, <2>1, <3>1, <3>2
  <2>2. CASE k = i
    BY <1>1, <1>4, <1>6, <1>7, <2>2
  <2>3. CASE k > i
    <3>1. r[k] = b[k - i] /\ k - i \in 1 .. n + 1 - i
      BY <1>1, <1>4, <1>6, <1>7, <2>3
    <3>2. i + (k - i) - 1 = k - 1
      BY <1>1
    <3> QED
      BY <1>1, <1>3, <2>3, <3>1, <3>2
  <2> QED
    BY <1>1, <2>1, <2>2, <2>3
<1> DEFINE New(j) == IF j < i THEN j ELSE j + 1
           Old(k) == IF k < i THEN k ELSE k - 1
<1> HIDE DEF n
<1>9. ASSUME NEW j \in DOMAIN s PROVE \E k \in DOMAIN r : k # i /\ r[k] = s[j]
  <2>1. New(j) \in 1 .. n + 1 /\ New(j) # i /\ r[New(j)] = s[j]
    <3>1. CASE j < i
      BY <1>1, <1>8, <3>1
    <3>2. CASE ~(j < i)
      <4>1. j + 1 \in 1 .. n + 1 /\ ~(j + 1 < i) /\ j + 1 # i /\ (j + 1) - 1 = j
        BY <1>1, <3>2
      <4> QED
        BY <1>8, <3>2, <4>1
    <3> QED
      BY <3>1, <3>2
  <2> QED
    BY <1>6, <1>7, <2>1
<1>10. ASSUME NEW k \in DOMAIN r, k # i PROVE Old(k) \in DOMAIN s /\ r[k] = s[Old(k)]
  <2>1. k \in 1 .. n + 1
    BY <1>6, <1>7
  <2>2. CASE k < i
    BY <1>1, <1>8, <2>1, <2>2
  <2>3. CASE ~(k < i)
    BY <1>1, <1>8, <1>10, <2>1, <2>3
  <2> QED
    BY <2>2, <2>3
<1>11. ASSUME NEW k \in DOMAIN r, NEW l \in DOMAIN r, k # i, l # i, k # l
       PROVE  \E j, m \in DOMAIN s : j # m /\ r[k] = s[j] /\ r[l] = s[m]
  <2>1. Old(k) # Old(l)
    BY <1>1, <1>6, <1>7, <1>11
  <2> HIDE DEF Old
  <2> QED
    BY <1>10, <1>11, <2>1
<1>12. i \in DOMAIN r /\ r[i] = e
  BY <1>1, <1>6, <1>7, <1>8
<1>13. Len(s) = n /\ Len(r) = n + 1
  BY <1>7 DEF n
<1> HIDE DEF Old, New
<1>14. \A k \in DOMAIN r : k # i => \E j \in DOMAIN s : r[k] = s[j]
  BY <1>10
<1> QED
  BY <1>6, <1>7, <1>9, <1>11, <1>12, <1>13, <1>14

-----------------------------------------------------------------------------
(* Filter.                                                                 *)

\* The function that Filter defines by recursion, as far as n.
IsFilter(f, s, keep, n) ==
    f = [i \in 0 .. n |->
           IF i = 0 THEN <<>> ELSE IF s[i] \in keep THEN Append(f[i - 1], s[i]) ELSE f[i - 1]]

(* The recursion of Filter defines a function.                             *)
LEMMA FilterExists ==
    ASSUME NEW s, NEW keep, NEW n \in Nat
    PROVE  \E f : IsFilter(f, s, keep, n)
<1> SUFFICES ASSUME ~\E f : IsFilter(f, s, keep, n)
             PROVE  FALSE
  OBVIOUS
<1> DEFINE None == {j \in Nat : ~\E f : IsFilter(f, s, keep, j)}
<1>1. PICK m \in None : \A j \in None : m <= j
  BY LeastNatural
<1>2. m # 0
  <2> SUFFICES ASSUME m = 0 PROVE FALSE
    OBVIOUS
  <2> DEFINE g == [i \in 0 .. 0 |-> <<>>]
  <2>1. IsFilter(g, s, keep, 0)
    BY DEF IsFilter
  <2> QED
    BY <2>1
<1>3. m - 1 \in Nat /\ m - 1 \notin None
  BY <1>1, <1>2
<1>4. PICK f : IsFilter(f, s, keep, m - 1)
  BY <1>3
<1> DEFINE Item(h, i) == IF s[i] \in keep THEN Append(h[i - 1], s[i]) ELSE h[i - 1]
           g == [i \in 0 .. m |-> IF i = 0 THEN <<>> ELSE Item(f, i)]
<1>5. ASSUME NEW i \in 0 .. m - 1 PROVE f[i] = g[i]
  <2>1. m \in Nat /\ i \in 0 .. m
    BY <1>1
  <2>2. f[i] = IF i = 0 THEN <<>> ELSE Item(f, i)
    BY <1>4 DEF IsFilter
  <2> QED
    BY <2>1, <2>2
<1>6. IsFilter(g, s, keep, m)
  <2>1. ASSUME NEW i \in 0 .. m, i # 0
        PROVE  Item(f, i) = Item(g, i)
    <3>1. i - 1 \in 0 .. m - 1
      BY <2>1
    <3>2. f[i - 1] = g[i - 1]
      BY <1>5, <3>1
    <3> HIDE DEF g
    <3> QED
      BY <3>2
  <2>2. g = [i \in 0 .. m |-> IF i = 0 THEN <<>> ELSE Item(g, i)]
    <3>1. \A i \in 0 .. m : (IF i = 0 THEN <<>> ELSE Item(f, i)) = IF i = 0 THEN <<>> ELSE Item(g, i)
      BY <2>1, Zenon
    <3> QED
      BY <3>1, Zenon
  <2> QED
    BY <2>2, Zenon DEF IsFilter
<1> QED
  BY <1>6

(* Induction over what Filter goes through.                                *)
LEMMA FilterInduction ==
    ASSUME NEW s, NEW keep, NEW n, n = Len(s), n \in Nat, NEW Good, <<>> \in Good[0],
           \A i \in 1 .. n : \A p \in Good[i - 1] :
               (IF s[i] \in keep THEN Append(p, s[i]) ELSE p) \in Good[i]
    PROVE  Filter(s, keep) \in Good[n]
<1> DEFINE f == CHOOSE f : IsFilter(f, s, keep, n)
<1>1. IsFilter(f, s, keep, n)
  BY FilterExists, Zenon
<1>2. Filter(s, keep) = f[n]
  BY Zenon DEF Filter, IsFilter
<1> HIDE DEF f
<1> SUFFICES ASSUME f[n] \notin Good[n] PROVE FALSE
  BY <1>2
<1> DEFINE Bad == {j \in 0 .. n : f[j] \notin Good[j]}
<1>3. PICK m \in Bad : \A j \in Bad : m <= j
  <2>1. Bad \in SUBSET Nat /\ Bad # {}
    OBVIOUS
  <2> HIDE DEF Bad
  <2> QED
    BY <2>1, LeastNatural
<1>4. m # 0
  BY <1>1 DEF IsFilter
<1>5. m - 1 \in 0 .. n /\ f[m - 1] \in Good[m - 1]
  BY <1>3, <1>4
<1>6. f[m] = IF s[m] \in keep THEN Append(f[m - 1], s[m]) ELSE f[m - 1]
  BY <1>1, <1>4 DEF IsFilter
<1>7. m \in 1 .. n
  BY <1>3, <1>4
<1>8. f[m] \in Good[m]
  <2>1. (IF s[m] \in keep THEN Append(f[m - 1], s[m]) ELSE f[m - 1]) \in Good[m]
    BY <1>5, <1>7, Zenon
  <2> QED
    BY <1>6, <2>1
<1> QED
  BY <1>3, <1>8

\* p holds what is to be kept of the elements of s at places, each once.
KeptOf(p, s, keep, places) ==
    /\ \A k \in DOMAIN p : \E j \in places : s[j] \in keep /\ p[k] = s[j]
    /\ \A k, l \in DOMAIN p :
          k # l => \E j, m \in places : j # m /\ p[k] = s[j] /\ p[l] = s[m]
    /\ \A j \in places : s[j] \in keep => \E k \in DOMAIN p : p[k] = s[j]

(* What Filter returns: the kept elements, in order, none of them twice.   *)
LEMMA FilterFacts ==
    ASSUME NEW S, NEW s \in Seq(S), NEW keep, NEW r, r = Filter(s, keep)
    PROVE  /\ r \in Seq(S)
           /\ \A k \in DOMAIN r : \E j \in DOMAIN s : s[j] \in keep /\ r[k] = s[j]
           /\ \A k, l \in DOMAIN r :
                 k # l => \E j, m \in DOMAIN s : j # m /\ r[k] = s[j] /\ r[l] = s[m]
           /\ \A j \in DOMAIN s : s[j] \in keep => \E k \in DOMAIN r : r[k] = s[j]
<1> DEFINE n == Len(s)
           Good == [i \in 0 .. n |-> {p \in Seq(S) : KeptOf(p, s, keep, 1 .. i)}]
<1>1. n \in Nat /\ DOMAIN s = 1 .. n /\ \A j \in 1 .. n : s[j] \in S
  BY LenProperties, ElementOfSeq
<1>2. <<>> \in Good[0]
  <2>1. <<>> \in Seq(S) /\ DOMAIN <<>> = {} /\ 0 \in 0 .. n
    BY <1>1
  <2>2. KeptOf(<<>>, s, keep, 1 .. 0)
    BY <2>1 DEF KeptOf
  <2> HIDE DEF n
  <2> QED
    BY <2>1, <2>2
<1>3. ASSUME NEW i \in 1 .. n, NEW p \in Good[i - 1]
      PROVE  (IF s[i] \in keep THEN Append(p, s[i]) ELSE p) \in Good[i]
  <2> HIDE DEF n
  <2>1. i \in Nat /\ i - 1 \in 0 .. n /\ i \in 0 .. n /\ i \in 1 .. i /\ 1 .. i - 1 \subseteq 1 .. i
        /\ (\A j \in 1 .. i : j = i \/ j \in 1 .. i - 1) /\ i \notin 1 .. i - 1
    BY <1>1
  <2>2. p \in Seq(S) /\ KeptOf(p, s, keep, 1 .. i - 1)
    BY <1>3, <2>1
  <2> HIDE DEF Good
  <2>3. CASE s[i] \in keep
    <3> DEFINE q == Append(p, s[i])
               z == Len(p) + 1
    <3>1. /\ q \in Seq(S) /\ z \in DOMAIN q /\ z \notin DOMAIN p /\ q[z] = s[i]
          /\ \A k \in DOMAIN q : k = z \/ k \in DOMAIN p
          /\ \A k \in DOMAIN p : k \in DOMAIN q /\ q[k] = p[k]
      <4>1. s[i] \in S
        BY <1>1
      <4>2. /\ q \in Seq(S) /\ Len(q) = Len(p) + 1 /\ q[Len(p) + 1] = s[i]
            /\ \A k \in 1 .. Len(p) : q[k] = p[k]
        BY <2>2, <4>1, AppendProperties
      <4>3. DOMAIN q = 1 .. Len(q) /\ DOMAIN p = 1 .. Len(p) /\ Len(p) \in Nat
        BY <2>2, <4>2, LenProperties
      <4> HIDE DEF q
      <4> QED
        BY <4>2, <4>3
    <3> HIDE DEF q, z
    <3>2. \A k \in DOMAIN q : \E j \in 1 .. i : s[j] \in keep /\ q[k] = s[j]
      BY <2>1, <2>2, <2>3, <3>1 DEF KeptOf
    <3>3. ASSUME NEW k \in DOMAIN q, NEW l \in DOMAIN q, k # l
          PROVE  \E j, m \in 1 .. i : j # m /\ q[k] = s[j] /\ q[l] = s[m]
      <4>1. CASE k = z
        <5>1. PICK m \in 1 .. i - 1 : q[l] = s[m]
          BY <2>2, <3>1, <3>3, <4>1 DEF KeptOf
        <5> QED
          BY <2>1, <3>1, <4>1, <5>1
      <4>2. CASE l = z
        <5>1. PICK m \in 1 .. i - 1 : q[k] = s[m]
          BY <2>2, <3>1, <3>3, <4>2 DEF KeptOf
        <5> QED
          BY <2>1, <3>1, <4>2, <5>1
      <4>3. CASE k # z /\ l # z
        <5>1. PICK j \in 1 .. i - 1, m \in 1 .. i - 1 : j # m /\ p[k] = s[j] /\ p[l] = s[m]
          BY <2>2, <3>1, <3>3, <4>3 DEF KeptOf
        <5> QED
          BY <2>1, <3>1, <4>3, <5>1
      <4> QED
        BY <4>1, <4>2, <4>3
    <3>4. \A j \in 1 .. i : s[j] \in keep => \E k \in DOMAIN q : q[k] = s[j]
      BY <2>1, <2>2, <3>1 DEF KeptOf
    <3>5. KeptOf(q, s, keep, 1 .. i)
      BY <3>2, <3>3, <3>4 DEF KeptOf
    <3>6. q \in Good[i]
      BY <2>1, <3>1, <3>5 DEF Good
    <3> QED
      BY <2>3, <3>6 DEF q
  <2>4. CASE s[i] \notin keep
    <3>1. \A k \in DOMAIN p : \E j \in 1 .. i : s[j] \in keep /\ p[k] = s[j]
      BY <2>1, <2>2 DEF KeptOf
    <3>2. ASSUME NEW k \in DOMAIN p, NEW l \in DOMAIN p, k # l
          PROVE  \E j, m \in 1 .. i : j # m /\ p[k] = s[j] /\ p[l] = s[m]
      <4>1. PICK j \in 1 .. i - 1, m \in 1 .. i - 1 : j # m /\ p[k] = s[j] /\ p[l] = s[m]
        BY <2>2, <3>2 DEF KeptOf
      <4> QED
        BY <2>1, <4>1
    <3>3. \A j \in 1 .. i : s[j] \in keep => \E k \in DOMAIN p : p[k] = s[j]
      BY <2>1, <2>2, <2>4 DEF KeptOf
    <3>4. KeptOf(p, s, keep, 1 .. i)
      BY <3>1, <3>2, <3>3 DEF KeptOf
    <3>5. p \in Good[i]
      BY <2>1, <2>2, <3>4 DEF Good
    <3> QED
      BY <2>4, <3>5
  <2> QED
    BY <2>3, <2>4
<1>4. r \in Good[n]
  <2>1. Len(s) = n /\ n \in Nat
    BY <1>1
  <2> HIDE DEF n, Good
  <2> QED
    BY <1>2, <1>3, <2>1, FilterInduction
<1>5. n \in 0 .. n
  BY <1>1
<1>6. r \in Seq(S) /\ KeptOf(r, s, keep, DOMAIN s)
  BY <1>1, <1>4, <1>5
<1> QED
  BY <1>6 DEF KeptOf

-----------------------------------------------------------------------------
(* Strips of tabs.                                                         *)

\* No two tabs have one id.
Distinct(s) == \A i, j \in DOMAIN s : i # j => IdOf(s[i]) # IdOf(s[j])

(* A strip shows as many ids as it has tabs exactly if no two tabs have    *)
(* one id.                                                                 *)
LEMMA DistinctCardinality ==
    ASSUME NEW S, NEW s \in Seq(S)
    PROVE  /\ IsFiniteSet(Ids(s)) /\ Len(s) \in Nat /\ DOMAIN s = 1 .. Len(s)
           /\ Cardinality(Ids(s)) = Len(s) <=> Distinct(s)
<1> DEFINE n == Len(s)
           f == [i \in 1 .. n |-> IdOf(s[i])]
<1>1. n \in Nat /\ DOMAIN s = 1 .. n
  BY LenProperties
<1>2. IsFiniteSet(1 .. n) /\ Cardinality(1 .. n) = n
  <2>1. 1 \in Int /\ n \in Int
    BY <1>1
  <2>2. IsFiniteSet(1 .. n) /\ Cardinality(1 .. n) = IF 1 > n THEN 0 ELSE n - 1 + 1
    BY <2>1, FS_Interval
  <2> HIDE DEF n
  <2> QED
    BY <1>1, <2>2
<1> HIDE DEF n
<1>3. f \in Surjection(1 .. n, Ids(s))
  <2>1. \A t \in Ids(s) : \E i \in 1 .. n : f[i] = t
    BY <1>1 DEF Ids
  <2>2. f \in [1 .. n -> Ids(s)]
    BY <1>1 DEF Ids
  <2> HIDE DEF f
  <2> QED
    BY <2>1, <2>2 DEF Surjection
<1>4. f \in Injection(1 .. n, Ids(s)) <=> Distinct(s)
  <2>1. f \in [1 .. n -> Ids(s)]
    BY <1>1 DEF Ids
  <2>2. f \in Injection(1 .. n, Ids(s)) <=> \A a, b \in 1 .. n : f[a] = f[b] => a = b
    <3> HIDE DEF f
    <3>1. DOMAIN f = 1 .. n
      BY <2>1
    <3> QED
      BY <2>1, <3>1 DEF Injection, IsInjective
  <2>3. \A a \in 1 .. n : f[a] = IdOf(s[a])
    OBVIOUS
  <2> HIDE DEF f
  <2> QED
    BY <1>1, <2>2, <2>3 DEF Distinct
<1> HIDE DEF f
<1>5. /\ IsFiniteSet(Ids(s))
      /\ Cardinality(Ids(s)) = Cardinality(1 .. n) <=> f \in Injection(1 .. n, Ids(s))
  BY <1>2, <1>3, FS_Surjection
<1>6. Len(s) = n
  BY DEF n
<1> QED
  BY <1>1, <1>2, <1>4, <1>5, <1>6

\* A strip of tabs: no id twice, and no tab but the setup guide without a
\* cluster.
Row == {s \in Seq(AllTabs) :
          /\ Distinct(s)
          /\ \A i \in DOMAIN s : s[i].cluster = NoCluster => s[i].kind = "SetupGuide"}

\* One that is not empty.
Strip == {s \in Row : s # <<>>}

\* Every tab of r is one of s.
TabsOf(r, s) == \A i \in DOMAIN r : \E j \in DOMAIN s : r[i] = s[j]

(* The tabs there can be.                                                  *)
LEMMA AllTabsFacts ==
    ASSUME NEW t \in AllTabs
    PROVE  /\ t.kind \in Kinds \cup AppKinds /\ t.cluster \in Clusters \cup {NoCluster}
           /\ t = Tab(t.kind, t.cluster)
           /\ IdOf(t) \in {IdOf(u) : u \in AllTabs}
BY DEF AllTabs, Tab

(* The indices of a row.                                                   *)
LEMMA RowFacts ==
    ASSUME NEW s \in Row
    PROVE  /\ s \in Seq(AllTabs) /\ Distinct(s)
           /\ Len(s) \in Nat /\ DOMAIN s = 1 .. Len(s)
           /\ s # <<>> <=> Len(s) # 0
           /\ s # <<>> => 1 \in DOMAIN s /\ Len(s) \in DOMAIN s
           /\ \A i \in DOMAIN s :
                 s[i] \in AllTabs /\ (s[i].cluster = NoCluster => s[i].kind = "SetupGuide")
           /\ Cardinality(Ids(s)) = Len(s) /\ IsFiniteSet(Ids(s))
<1>1. s \in Seq(AllTabs) /\ Distinct(s)
      /\ \A i \in DOMAIN s : s[i].cluster = NoCluster => s[i].kind = "SetupGuide"
  BY DEF Row
<1>2. Len(s) \in Nat /\ DOMAIN s = 1 .. Len(s) /\ \A i \in 1 .. Len(s) : s[i] \in AllTabs
  BY <1>1, LenProperties, ElementOfSeq
<1>3. s # <<>> <=> Len(s) # 0
  BY <1>1, EmptySeq
<1>4. Cardinality(Ids(s)) = Len(s) /\ IsFiniteSet(Ids(s))
  BY <1>1, DistinctCardinality
<1> QED
  BY <1>1, <1>2, <1>3, <1>4

(* Where IndexOfId finds a tab.                                            *)
LEMMA IndexFacts ==
    ASSUME NEW s, NEW id
    PROVE  /\ id \in Ids(s) => IndexOfId(s, id) \in DOMAIN s /\ IdOf(s[IndexOfId(s, id)]) = id
           /\ id \notin Ids(s) => IndexOfId(s, id) = 0
<1>1. id \in Ids(s) => \E i \in DOMAIN s : IdOf(s[i]) = id
  BY DEF Ids
<1> QED
  BY <1>1 DEF IndexOfId

(* The id of each tab of a row is among its ids.                           *)
LEMMA IdsFacts ==
    ASSUME NEW s
    PROVE  /\ \A i \in DOMAIN s : IdOf(s[i]) \in Ids(s)
           /\ \A id \in Ids(s) : \E i \in DOMAIN s : IdOf(s[i]) = id
BY DEF Ids

(* A row whose tabs are tabs of another, each from a place of its own, has *)
(* no id twice either.                                                     *)
LEMMA PickedRow ==
    ASSUME NEW s \in Row, NEW r \in Seq(AllTabs), TabsOf(r, s),
           \A k, l \in DOMAIN r :
               k # l => \E j, m \in DOMAIN s : j # m /\ r[k] = s[j] /\ r[l] = s[m]
    PROVE  r \in Row /\ Ids(r) \subseteq Ids(s)
<1>1. Distinct(r)
  <2> SUFFICES ASSUME NEW k \in DOMAIN r, NEW l \in DOMAIN r, k # l
               PROVE  IdOf(r[k]) # IdOf(r[l])
    BY DEF Distinct
  <2>1. PICK j \in DOMAIN s, m \in DOMAIN s : j # m /\ r[k] = s[j] /\ r[l] = s[m]
    OBVIOUS
  <2>2. IdOf(s[j]) # IdOf(s[m])
    BY <2>1, RowFacts DEF Distinct
  <2> QED
    BY <2>1, <2>2
<1>2. \A i \in DOMAIN r : r[i].cluster = NoCluster => r[i].kind = "SetupGuide"
  BY RowFacts DEF TabsOf
<1>3. Ids(r) \subseteq Ids(s)
  BY DEF Ids, TabsOf
<1> QED
  BY <1>1, <1>2, <1>3 DEF Row

(* What is left of a row.                                                  *)
LEMMA FilterRow ==
    ASSUME NEW s \in Row, NEW keep, NEW r, r = Filter(s, keep)
    PROVE  /\ r \in Row /\ TabsOf(r, s) /\ Ids(r) \subseteq Ids(s)
           /\ \A i \in DOMAIN r : r[i] \in keep
           /\ \A j \in DOMAIN s : s[j] \in keep => IdOf(s[j]) \in Ids(r)
<1>1. s \in Seq(AllTabs)
  BY RowFacts
<1>2. /\ r \in Seq(AllTabs)
      /\ \A k \in DOMAIN r : \E j \in DOMAIN s : s[j] \in keep /\ r[k] = s[j]
      /\ \A k, l \in DOMAIN r :
            k # l => \E j, m \in DOMAIN s : j # m /\ r[k] = s[j] /\ r[l] = s[m]
      /\ \A j \in DOMAIN s : s[j] \in keep => \E k \in DOMAIN r : r[k] = s[j]
  BY <1>1, FilterFacts
<1>3. TabsOf(r, s)
  BY <1>2 DEF TabsOf
<1>4. r \in Row /\ Ids(r) \subseteq Ids(s)
  BY <1>2, <1>3, PickedRow
<1>5. \A j \in DOMAIN s : s[j] \in keep => IdOf(s[j]) \in Ids(r)
  BY <1>2 DEF Ids
<1> QED
  BY <1>2, <1>3, <1>4, <1>5

(* A row without the tab of an id.                                         *)
LEMMA WithoutRow ==
    ASSUME NEW s \in Row, NEW id, NEW r, r = Without(s, id)
    PROVE  /\ r \in Row /\ TabsOf(r, s)
           /\ Ids(r) = Ids(s) \ {id}
           /\ Len(r) = IF id \in Ids(s) THEN Len(s) - 1 ELSE Len(s)
<1> DEFINE keep == {t \in Range(s) : IdOf(t) # id}
<1>1. r = Filter(s, keep)
  BY DEF Without
<1>2. /\ r \in Row /\ TabsOf(r, s) /\ Ids(r) \subseteq Ids(s)
      /\ \A i \in DOMAIN r : r[i] \in keep
      /\ \A j \in DOMAIN s : s[j] \in keep => IdOf(s[j]) \in Ids(r)
  <2> HIDE DEF keep
  <2> QED
    BY <1>1, FilterRow
<1>3. \A j \in DOMAIN s : IdOf(s[j]) # id => s[j] \in keep
  BY DEF Range
<1>4. \A i \in DOMAIN r : IdOf(r[i]) # id
  BY <1>2
<1> HIDE DEF keep
<1>5. Ids(r) = Ids(s) \ {id}
  BY <1>2, <1>3, <1>4, IdsFacts
<1>6. Cardinality(Ids(s) \ {id}) = IF id \in Ids(s) THEN Cardinality(Ids(s)) - 1 ELSE Cardinality(Ids(s))
  BY RowFacts, FS_RemoveElement
<1>7. Len(r) = Cardinality(Ids(r)) /\ Len(s) = Cardinality(Ids(s))
  BY <1>2, RowFacts
<1> QED
  BY <1>2, <1>5, <1>6, <1>7

(* A tab opened once more, or at the end.                                  *)
LEMMA AppendTabRow ==
    ASSUME NEW s \in Row, NEW t \in AllTabs, t.cluster = NoCluster => t.kind = "SetupGuide",
           NEW r, r = AppendTab(s, t)
    PROVE  /\ r \in Strip /\ Ids(r) = Ids(s) \cup {IdOf(t)}
           /\ \A i \in DOMAIN r : r[i] = t \/ \E j \in DOMAIN s : r[i] = s[j]
<1>1. CASE IdOf(t) \in Ids(s)
  <2>1. r = s /\ s # <<>>
    BY <1>1, IdsFacts DEF AppendTab
  <2> QED
    BY <1>1, <2>1 DEF Strip
<1>2. CASE IdOf(t) \notin Ids(s)
  <2>1. r = Append(s, t) /\ s \in Seq(AllTabs)
    BY <1>2, RowFacts DEF AppendTab
  <2> DEFINE n == Len(s)
  <2>2. /\ r \in Seq(AllTabs) /\ r # <<>> /\ Len(r) = n + 1 /\ r[n + 1] = t
        /\ \A i \in 1 .. n : r[i] = s[i]
    BY <2>1, AppendProperties
  <2>3. DOMAIN r = 1 .. n + 1 /\ n \in Nat /\ DOMAIN s = 1 .. n
    BY <2>1, <2>2, LenProperties
  <2> HIDE DEF n
  <2>4. /\ n + 1 \in DOMAIN r /\ \A i \in DOMAIN s : i \in DOMAIN r /\ r[i] = s[i]
        /\ \A i \in DOMAIN r : i = n + 1 \/ i \in DOMAIN s
    BY <2>2, <2>3
  <2>5. Ids(r) = Ids(s) \cup {IdOf(t)}
    BY <2>2, <2>4, IdsFacts
  <2>6. Distinct(r)
    BY <1>2, <2>2, <2>4, RowFacts, IdsFacts DEF Distinct
  <2>7. \A i \in DOMAIN r : r[i].cluster = NoCluster => r[i].kind = "SetupGuide"
    BY <2>2, <2>4, RowFacts
  <2>8. r \in Strip
    BY <2>2, <2>6, <2>7 DEF Strip, Row
  <2> QED
    BY <2>2, <2>4, <2>5, <2>8
<1> QED
  BY <1>1, <1>2

(* A row without the tab at one place.                                     *)
LEMMA RemoveAtRow ==
    ASSUME NEW s \in Row, NEW from \in DOMAIN s, NEW p, p = RemoveAt(s, from)
    PROVE  /\ p \in Row /\ Len(s) \in Nat \ {0} /\ Len(p) = Len(s) - 1
           /\ \A j \in DOMAIN s : j # from => \E k \in DOMAIN p : p[k] = s[j]
           /\ \A k \in DOMAIN p : \E j \in DOMAIN s : j # from /\ p[k] = s[j]
<1>1. s \in Seq(AllTabs)
  BY RowFacts
<1>2. /\ p \in Seq(AllTabs) /\ Len(s) \in Nat \ {0} /\ Len(p) = Len(s) - 1
      /\ \A j \in DOMAIN s : j # from => \E k \in DOMAIN p : p[k] = s[j]
      /\ \A k \in DOMAIN p : \E j \in DOMAIN s : j # from /\ p[k] = s[j]
      /\ \A k, l \in DOMAIN p :
            k # l => \E j, m \in DOMAIN s : j # m /\ p[k] = s[j] /\ p[l] = s[m]
  BY <1>1, RemoveAtFacts
<1>3. TabsOf(p, s)
  BY <1>2 DEF TabsOf
<1>4. p \in Row
  BY <1>2, <1>3, PickedRow
<1> QED
  BY <1>2, <1>4

(* A tab dragged to another place.                                         *)
LEMMA DragRow ==
    ASSUME NEW s \in Row, NEW from \in DOMAIN s, NEW to \in DOMAIN s,
           NEW r, r = InsertAt(RemoveAt(s, from), to, s[from])
    PROVE  r \in Strip /\ Ids(r) = Ids(s) /\ TabsOf(r, s)
<1> DEFINE p == RemoveAt(s, from)
<1>1. s \in Seq(AllTabs) /\ s[from] \in AllTabs /\ DOMAIN s = 1 .. Len(s)
  BY RowFacts
<1>2. /\ p \in Row /\ Len(s) \in Nat \ {0} /\ Len(p) = Len(s) - 1
      /\ \A j \in DOMAIN s : j # from => \E k \in DOMAIN p : p[k] = s[j]
      /\ \A k \in DOMAIN p : \E j \in DOMAIN s : j # from /\ p[k] = s[j]
  BY RemoveAtRow
<1>3. r = InsertAt(p, to, s[from])
  OBVIOUS
<1> HIDE DEF p
<1>4. p \in Seq(AllTabs) /\ Distinct(p)
  BY <1>2, RowFacts
<1>5. to \in 1 .. Len(p) + 1
  BY <1>1, <1>2
<1>6. /\ r \in Seq(AllTabs) /\ DOMAIN r = 1 .. Len(p) + 1 /\ Len(r) = Len(p) + 1
      /\ to \in DOMAIN r /\ r[to] = s[from]
      /\ \A j \in DOMAIN p : \E k \in DOMAIN r : k # to /\ r[k] = p[j]
      /\ \A k \in DOMAIN r : k # to => \E j \in DOMAIN p : r[k] = p[j]
      /\ \A k, l \in DOMAIN r :
            k # to /\ l # to /\ k # l =>
              \E j, m \in DOMAIN p : j # m /\ r[k] = p[j] /\ r[l] = p[m]
  <2>1. s[from] \in AllTabs
    BY <1>1
  <2> QED
    BY <1>3, <1>4, <1>5, <2>1, InsertAtFacts
<1>7. ASSUME NEW k \in DOMAIN r
      PROVE  k # to => \E j \in DOMAIN s : j # from /\ r[k] = s[j]
  BY <1>2, <1>6
<1>8. TabsOf(r, s)
  BY <1>6, <1>7 DEF TabsOf
<1>9. Distinct(r)
  <2> SUFFICES ASSUME NEW k \in DOMAIN r, NEW l \in DOMAIN r, k # l
               PROVE  IdOf(r[k]) # IdOf(r[l])
    BY DEF Distinct
  <2>1. \A i \in DOMAIN r : i # to => IdOf(r[i]) # IdOf(s[from])
    BY <1>7, RowFacts DEF Distinct
  <2>2. CASE k # to /\ l # to
    <3>1. PICK j \in DOMAIN p, m \in DOMAIN p : j # m /\ r[k] = p[j] /\ r[l] = p[m]
      BY <1>6, <2>2
    <3>2. IdOf(p[j]) # IdOf(p[m])
      BY <1>4, <3>1 DEF Distinct
    <3> QED
      BY <3>1, <3>2
  <2>3. CASE k = to \/ l = to
    BY <1>6, <2>1, <2>3
  <2> QED
    BY <2>2, <2>3
<1>10. \A i \in DOMAIN r : r[i].cluster = NoCluster => r[i].kind = "SetupGuide"
  BY <1>8, RowFacts DEF TabsOf
<1>11. r # <<>>
  BY <1>6
<1>12. Ids(r) = Ids(s)
  <2>1. ASSUME NEW j \in DOMAIN s PROVE \E k \in DOMAIN r : r[k] = s[j]
    <3>1. CASE j = from
      BY <1>6, <3>1
    <3>2. CASE j # from
      BY <1>2, <1>6, <3>2
    <3> QED
      BY <3>1, <3>2
  <2> QED
    BY <1>8, <2>1 DEF Ids, TabsOf
<1> QED
  BY <1>6, <1>8, <1>9, <1>10, <1>11, <1>12 DEF Strip, Row

-----------------------------------------------------------------------------
(* The inductive invariant.                                                *)

\* Lists of connections.
Lists == UNION {[d -> BOOLEAN] : d \in SUBSET Clusters}

\* The ids of the tabs there can be.
TabIds == {IdOf(t) : t \in AllTabs}

\* What a handler may wait for.
Stages == {<<"load", "list">>, <<"load", "apply">>,
           <<"connect", "save">>, <<"connect", "list">>, <<"connect", "apply">>,
           <<"delete", "drop">>, <<"delete", "dropped">>, <<"delete", "list">>, <<"delete", "apply">>,
           <<"sync", "merge">>, <<"sync", "synced">>,
           <<"prefs", "write">>, <<"detach", "open">>}

\* The handlers that may wait.
AskType ==
    [op : {"load", "connect", "delete", "sync", "prefs", "detach"},
     step : {"list", "apply", "save", "drop", "dropped", "merge", "synced", "write", "open"},
     c : Clusters \cup {NoCluster}, tab : AllTabs \cup {NoTab},
     active : TabIds \cup {IdOf(NoTab)}, got : Lists]

Asking(a) ==
    /\ a \in AskType
    /\ <<a.op, a.step>> \in Stages
    /\ a.op = "connect" => a.c \in Clusters

\* Handlers that will set the list of connections, or drop one from it.
Reloading(a) == a.step \in {"dropped", "list", "apply"}
AnyReload(s) == \E a \in s : Reloading(a)

\* The clusters whose files are gone and whose deletion is still under way.
DeletingIn(s) == {a.c : a \in {b \in s : b.op = "delete" /\ Reloading(b)}}
Known == DOMAIN store \cup DeletingIn(asks)

TypeInv ==
    /\ store \in Lists /\ configs \in Lists
    /\ {activeCluster, editing} \subseteq Clusters \cup {NoCluster}
    /\ active \in TabIds
    /\ \A a \in asks : Asking(a)

StripInv ==
    /\ tabs \in Strip
    /\ active \in Ids(tabs) \/ adrift

\* The list is that of the files, but for merged URLs that will be set.
InStep ==
    /\ Listed = DOMAIN store
    /\ \A c \in Listed :
          configs[c] # store[c] =>
            store[c] = TRUE /\ \E a \in asks : a.step = "synced" /\ a.c = c

\* Nothing shows a cluster that is neither in the files nor being deleted, and
\* unless a reload is coming the list shown is that of the files.
ConnectionInv ==
    ~stale =>
      /\ Listed \subseteq Known
      /\ activeCluster \in Known \cup {NoCluster}
      /\ \A i \in DOMAIN tabs : tabs[i].cluster \in Known \cup {NoCluster}
      /\ ~AnyReload(asks) => InStep

\* The inductive invariant.
WindowInv == TypeInv /\ StripInv /\ ConnectionInv

-----------------------------------------------------------------------------
(* What the invariant implies.                                             *)

(* The clusters of a list, and the numbers they are.                       *)
LEMMA ListFacts ==
    ASSUME NEW f \in Lists
    PROVE  /\ DOMAIN f \subseteq Clusters /\ f = [c \in DOMAIN f |-> f[c]]
           /\ \A c \in DOMAIN f : f[c] \in BOOLEAN
           /\ NoCluster \notin Clusters /\ Clusters \subseteq Nat
<1>1. PICK d \in SUBSET Clusters : f \in [d -> BOOLEAN]
  BY DEF Lists
<1>2. DOMAIN f = d
  BY <1>1
<1> QED
  BY <1>1, <1>2, WorkspaceAssumption DEF NoCluster

(* A function of clusters is a list.                                       *)
LEMMA IsList ==
    ASSUME NEW d \in SUBSET Clusters, NEW f \in [d -> BOOLEAN]
    PROVE  f \in Lists /\ DOMAIN f = d
BY DEF Lists

(* So is the empty one.                                                    *)
LEMMA EmptyList == <<>> \in Lists /\ DOMAIN <<>> = {}
<1>1. <<>> \in [{} -> BOOLEAN] /\ {} \in SUBSET Clusters
  OBVIOUS
<1> QED
  BY <1>1, IsList

(* The first connection of a list is one of them.                          *)
LEMMA FirstFacts ==
    ASSUME NEW L \in SUBSET Clusters
    PROVE  IF L = {} THEN FirstOf(L) = NoCluster ELSE FirstOf(L) \in L
<1>1. CASE L = {}
  BY <1>1 DEF FirstOf
<1>2. CASE L # {}
  <2>1. L \in SUBSET Nat
    BY WorkspaceAssumption
  <2>2. \E m \in L : \A k \in L : m <= k
    BY <1>2, <2>1, LeastNatural
  <2>3. Min(L) \in L
    BY <2>2 DEF Min
  <2> QED
    BY <1>2, <2>3 DEF FirstOf
<1> QED
  BY <1>1, <1>2

(* The cluster in use, or the first one.                                   *)
LEMMA CurrentFacts ==
    ASSUME TypeInv, ConnectionInv
    PROVE  /\ CurrentCluster \in Clusters \cup {NoCluster}
           /\ Listed # {} => CurrentCluster # NoCluster
           /\ ~stale => CurrentCluster \in Known \cup {NoCluster}
<1>1. Listed \in SUBSET Clusters /\ activeCluster \in Clusters \cup {NoCluster} /\ NoCluster \notin Clusters
  BY ListFacts DEF TypeInv, Listed
<1>2. IF Listed = {} THEN FirstOf(Listed) = NoCluster ELSE FirstOf(Listed) \in Listed
  BY <1>1, FirstFacts
<1>3. ~stale => Listed \subseteq Known /\ activeCluster \in Known \cup {NoCluster}
  BY DEF ConnectionInv
<1> QED
  BY <1>1, <1>2, <1>3 DEF CurrentCluster

(* The cluster that a reload leaves in use.                                *)
LEMMA KeptFacts ==
    ASSUME NEW list \in Lists
    PROVE  KeptCluster(list) \in DOMAIN list \cup {NoCluster}
<1>1. DOMAIN list \in SUBSET Clusters
  BY ListFacts
<1>2. IF DOMAIN list = {} THEN FirstOf(DOMAIN list) = NoCluster ELSE FirstOf(DOMAIN list) \in DOMAIN list
  BY <1>1, FirstFacts
<1> QED
  BY <1>2 DEF KeptCluster

(* Two lists of the same connections with the same values are one.         *)
LEMMA SameList ==
    ASSUME NEW f \in Lists, NEW g \in Lists, DOMAIN f = DOMAIN g, \A c \in DOMAIN f : f[c] = g[c]
    PROVE  f = g
<1>1. f = [c \in DOMAIN f |-> f[c]] /\ g = [c \in DOMAIN g |-> g[c]]
  BY ListFacts
<1>2. [c \in DOMAIN f |-> f[c]] = [c \in DOMAIN g |-> g[c]]
  OBVIOUS
<1> QED
  BY <1>1, <1>2

(* A strip is sound as long as the invariant holds.                        *)
LEMMA StripFromInv ==
    ASSUME WindowInv
    PROVE  StripSound
<1>1. tabs \in Row /\ tabs # <<>> /\ (active \in Ids(tabs) \/ adrift)
  BY DEF WindowInv, StripInv, Strip
<1>2. Cardinality(Ids(tabs)) = Len(tabs) /\ tabs \in Seq(AllTabs)
  BY <1>1, RowFacts
<1>3. TypeOK
  <2>1. \A f \in {store, configs} : DOMAIN f \subseteq Clusters /\ \A c \in DOMAIN f : f[c] \in BOOLEAN
    BY ListFacts DEF WindowInv, TypeInv
  <2>2. \A a \in asks : a.c \in Clusters \cup {NoCluster}
    BY DEF WindowInv, TypeInv, Asking, AskType
  <2> QED
    BY <1>2, <2>1, <2>2 DEF WindowInv, TypeInv, TypeOK, TabIds
<1> QED
  BY <1>1, <1>2, <1>3 DEF StripSound

(* Once every handler is done, the list is that of the files and nothing   *)
(* shows a cluster that is not in it.                                      *)
LEMMA SettledFromInv ==
    ASSUME WindowInv, asks = {}, ~stale
    PROVE  /\ configs = store
           /\ activeCluster \in Listed \cup {NoCluster}
           /\ \A i \in DOMAIN tabs : tabs[i].cluster \in Listed \cup {NoCluster}
<1>1. Known = DOMAIN store /\ ~AnyReload(asks)
  BY DEF Known, DeletingIn, AnyReload
<1>2. Listed = DOMAIN store /\ \A c \in Listed : configs[c] = store[c]
  BY <1>1 DEF WindowInv, ConnectionInv, InStep
<1>3. configs = store
  BY <1>2, SameList DEF WindowInv, TypeInv, Listed
<1> QED
  BY <1>1, <1>2, <1>3 DEF WindowInv, ConnectionInv

(* So in a window without connections every tab is the setup guide.        *)
LEMMA SetupFromInv ==
    ASSUME WindowInv
    PROVE  SetupReachable
<1> SUFFICES ASSUME asks = {}, ~stale, Listed = {}
             PROVE  SETUP_TAB_ID \in Ids(tabs)
  BY DEF SetupReachable
<1>1. tabs \in Row /\ tabs # <<>>
  BY DEF WindowInv, StripInv, Strip
<1>2. 1 \in DOMAIN tabs /\ tabs[1].cluster = NoCluster
  BY <1>1, RowFacts, SettledFromInv
<1>3. tabs[1].kind = "SetupGuide"
  BY <1>1, <1>2, RowFacts
<1>4. IdOf(tabs[1]) = SETUP_TAB_ID
  BY <1>3 DEF IdOf, SETUP_TAB_ID, AppKinds
<1> QED
  BY <1>2, <1>4, IdsFacts

-----------------------------------------------------------------------------
(* What the actions need of the invariant.                                 *)

\* Nothing of r shows a cluster that the host does not know.
Shows(r, known) == \A i \in DOMAIN r : r[i].cluster \in known \cup {NoCluster}

\* The rest of a handler may only add to what reloads, and takes no answer of
\* syncClusterControlPlaneUrls away.
Continues(s, t) ==
    /\ DeletingIn(s) \subseteq DeletingIn(t)
    /\ AnyReload(s) => AnyReload(t)
    /\ \A a \in s : a.step = "synced" => a \in t

(* A step that leaves the files and the list alone.                        *)
LEMMA ConnectionKept ==
    ASSUME ConnectionInv, store' = store, configs' = configs, stale' = stale,
           Continues(asks, asks'),
           ~stale => activeCluster' \in Known \cup {NoCluster} /\ Shows(tabs', Known)
    PROVE  ConnectionInv'
<1> SUFFICES ASSUME ~stale
             PROVE  /\ Listed' \subseteq Known'
                    /\ activeCluster' \in Known' \cup {NoCluster}
                    /\ \A i \in DOMAIN tabs' : tabs'[i].cluster \in Known' \cup {NoCluster}
                    /\ ~AnyReload(asks') => InStep'
  BY DEF ConnectionInv
<1>1. /\ Listed \subseteq Known
      /\ ~AnyReload(asks) => InStep
  BY DEF ConnectionInv
<1>2. Known \subseteq Known' /\ Listed' = Listed
  BY DEF Known, Continues, Listed
<1>3. ~AnyReload(asks') => InStep'
  <2> SUFFICES ASSUME ~AnyReload(asks') PROVE InStep'
    OBVIOUS
  <2>1. InStep
    BY <1>1 DEF Continues
  <2> QED
    BY <1>2, <2>1 DEF InStep, Continues
<1> QED
  BY <1>1, <1>2, <1>3 DEF Shows

(* A handler that starts: it sets nothing yet.                             *)
LEMMA StartKeeps ==
    ASSUME WindowInv, NEW a, Asking(a), Start(a), ~Reloading(a),
           UNCHANGED <<conVars, tabVars, popout>>
    PROVE  WindowInv'
<1>1. asks' = asks \cup {a}
  BY DEF Start
<1>2. Continues(asks, asks')
  BY <1>1 DEF Continues, DeletingIn, AnyReload
<1>3. ~stale => activeCluster' \in Known \cup {NoCluster} /\ Shows(tabs', Known)
  BY DEF WindowInv, ConnectionInv, Shows, tabVars
<1>4. ConnectionInv'
  BY <1>2, <1>3, ConnectionKept DEF WindowInv, conVars
<1>5. TypeInv'
  BY <1>1 DEF WindowInv, TypeInv, conVars, tabVars
<1>6. StripInv'
  BY DEF WindowInv, StripInv, tabVars
<1> QED
  BY <1>4, <1>5, <1>6 DEF WindowInv

(* A handler that ends, and was to set nothing.                            *)
LEMMA FinishKeeps ==
    ASSUME WindowInv, NEW a \in asks, Finish(a), ~Reloading(a), a.step # "synced",
           store' = store, configs' = configs, stale' = stale, UNCHANGED tabVars,
           editing' \in {editing, NoCluster}
    PROVE  WindowInv'
<1>1. asks' = asks \ {a}
  BY DEF Finish
<1>2. Continues(asks, asks')
  BY <1>1 DEF Continues, DeletingIn, AnyReload
<1>3. ~stale => activeCluster' \in Known \cup {NoCluster} /\ Shows(tabs', Known)
  BY DEF WindowInv, ConnectionInv, Shows, tabVars
<1>4. ConnectionInv'
  BY <1>2, <1>3, ConnectionKept DEF WindowInv
<1>5. TypeInv'
  BY <1>1 DEF WindowInv, TypeInv, tabVars
<1>6. StripInv'
  BY DEF WindowInv, StripInv, tabVars
<1> QED
  BY <1>4, <1>5, <1>6 DEF WindowInv

(* A step of the strip alone.                                              *)
LEMMA StripKeeps ==
    ASSUME WindowInv, UNCHANGED <<conVars, asks>>,
           tabs' \in Strip, active' \in TabIds, active' \in Ids(tabs') \/ adrift',
           activeCluster' \in Clusters \cup {NoCluster},
           ~stale => activeCluster' \in Known \cup {NoCluster} /\ Shows(tabs', Known)
    PROVE  WindowInv'
<1>1. Continues(asks, asks')
  BY DEF Continues
<1>2. ConnectionInv'
  BY <1>1, ConnectionKept DEF WindowInv, conVars
<1>3. TypeInv'
  BY DEF WindowInv, TypeInv, conVars
<1>4. StripInv'
  BY DEF StripInv
<1> QED
  BY <1>2, <1>3, <1>4 DEF WindowInv

(* The tabs as the invariant has them.                                     *)
LEMMA TabsFacts ==
    ASSUME WindowInv
    PROVE  /\ tabs \in Row /\ tabs # <<>> /\ Len(tabs) \in Nat \ {0} /\ DOMAIN tabs = 1 .. Len(tabs)
           /\ active \in TabIds /\ (active \in Ids(tabs) \/ adrift)
           /\ activeCluster \in Clusters \cup {NoCluster}
           /\ ~stale => activeCluster \in Known \cup {NoCluster} /\ Shows(tabs, Known)
           /\ \A i \in DOMAIN tabs :
                 /\ tabs[i] \in AllTabs /\ IdOf(tabs[i]) \in Ids(tabs) /\ IdOf(tabs[i]) \in TabIds
                 /\ tabs[i].cluster \in Clusters \cup {NoCluster}
                 /\ ~stale => tabs[i].cluster \in Known \cup {NoCluster}
<1>1. tabs \in Row /\ tabs # <<>> /\ (active \in Ids(tabs) \/ adrift)
  BY DEF WindowInv, StripInv, Strip
<1>2. Len(tabs) \in Nat \ {0} /\ DOMAIN tabs = 1 .. Len(tabs) /\ \A i \in DOMAIN tabs : tabs[i] \in AllTabs
  BY <1>1, RowFacts
<1>3. \A i \in DOMAIN tabs : IdOf(tabs[i]) \in TabIds /\ tabs[i].cluster \in Clusters \cup {NoCluster}
  BY <1>2, AllTabsFacts DEF TabIds
<1>4. ~stale => activeCluster \in Known \cup {NoCluster} /\ Shows(tabs, Known)
  BY DEF WindowInv, ConnectionInv, Shows
<1>5. active \in TabIds /\ activeCluster \in Clusters \cup {NoCluster}
  BY DEF WindowInv, TypeInv
<1> QED
  BY <1>1, <1>2, <1>3, <1>4, <1>5, IdsFacts DEF Shows

(* Tabs of the strip show what the strip does.                             *)
LEMMA ShowsTabsOf ==
    ASSUME NEW r, NEW s, TabsOf(r, s), NEW known, Shows(s, known)
    PROVE  Shows(r, known)
BY DEF TabsOf, Shows

-----------------------------------------------------------------------------
(* Actions of useTabManager.                                               *)

(* activateTab.                                                            *)
LEMMA ActivateTabKeeps ==
    ASSUME WindowInv, NEW i \in DOMAIN tabs, ActivateTab(i)
    PROVE  WindowInv'
<1>1. /\ active' = IdOf(tabs[i]) /\ activeCluster' = tabs[i].cluster
      /\ tabs' = tabs /\ UNCHANGED <<conVars, asks>>
  BY DEF ActivateTab
<1>2. tabs' \in Strip /\ active' \in TabIds /\ active' \in Ids(tabs')
  BY <1>1, TabsFacts DEF Strip
<1>3. activeCluster' \in Clusters \cup {NoCluster}
  BY <1>1, TabsFacts
<1>4. ~stale => activeCluster' \in Known \cup {NoCluster} /\ Shows(tabs', Known)
  BY <1>1, TabsFacts
<1> QED
  BY <1>1, <1>2, <1>3, <1>4, StripKeeps

(* openTab, of a tab of a cluster that may be shown.                       *)
LEMMA OpenTabKeeps ==
    ASSUME WindowInv, NEW t \in AllTabs, OpenTab(t),
           t.cluster # NoCluster, ~stale => t.cluster \in Known
    PROVE  WindowInv'
<1>1. /\ tabs' = AppendTab(tabs, t) /\ active' = IdOf(t) /\ activeCluster' = t.cluster
      /\ UNCHANGED <<conVars, asks>>
  BY DEF OpenTab
<1>2. tabs \in Row
  BY TabsFacts
<1>3. /\ tabs' \in Strip /\ Ids(tabs') = Ids(tabs) \cup {IdOf(t)}
      /\ \A i \in DOMAIN tabs' : tabs'[i] = t \/ \E j \in DOMAIN tabs : tabs'[i] = tabs[j]
  BY <1>1, <1>2, AppendTabRow
<1>4. active' \in TabIds /\ active' \in Ids(tabs') /\ activeCluster' \in Clusters \cup {NoCluster}
  BY <1>1, <1>3, AllTabsFacts DEF TabIds
<1>5. ~stale => activeCluster' \in Known \cup {NoCluster} /\ Shows(tabs', Known)
  BY <1>1, <1>3, TabsFacts DEF Shows
<1> QED
  BY <1>1, <1>3, <1>4, <1>5, StripKeeps

(* The tabs the sidebar opens.                                             *)
LEMMA SidebarKeeps ==
    ASSUME WindowInv,
           \/ \E kind \in Kinds, c \in Clusters : openResource(kind, c)
           \/ openSetupTab
           \/ openSettingsTab
    PROVE  WindowInv'
<1>0. TypeInv /\ ConnectionInv
  BY DEF WindowInv
<1>1. Listed \subseteq Clusters /\ NoCluster \notin Clusters /\ (~stale => Listed \subseteq Known)
  BY ListFacts DEF WindowInv, TypeInv, ConnectionInv, Listed
<1>2. ASSUME NEW kind \in Kinds, NEW c \in Clusters, openResource(kind, c)
      PROVE  WindowInv'
  <2>1. c \in Listed /\ OpenTab(Tab(kind, c))
    BY <1>2 DEF openResource
  <2>2. Tab(kind, c) \in AllTabs /\ Tab(kind, c).cluster = c
    BY DEF AllTabs, Tab
  <2> QED
    BY <1>1, <2>1, <2>2, OpenTabKeeps
<1>3. ASSUME NEW kind \in AppKinds, Listed # {}, OpenTab(Tab(kind, CurrentCluster))
      PROVE  WindowInv'
  <2> DEFINE c == CurrentCluster
  <2>1. c \in Clusters \cup {NoCluster} /\ c # NoCluster /\ (~stale => c \in Known \cup {NoCluster})
    BY <1>0, <1>3, CurrentFacts
  <2> HIDE DEF c
  <2>2. Tab(kind, c) \in AllTabs /\ Tab(kind, c).cluster = c
    BY <2>1 DEF AllTabs, Tab
  <2>3. OpenTab(Tab(kind, c))
    BY <1>3 DEF c
  <2> QED
    BY <2>1, <2>2, <2>3, OpenTabKeeps
<1> QED
  BY <1>2, <1>3 DEF openSetupTab, openSettingsTab, AppKinds

(* What closing a tab leaves: a strip, and an active tab of it.            *)
LEMMA ClosedFacts ==
    ASSUME WindowInv, NEW id
    PROVE  /\ ClosedTabs(id) \in Strip /\ TabsOf(ClosedTabs(id), tabs)
           /\ ClosedActive(id) \in TabIds
           /\ ClosedActive(id) \in Ids(ClosedTabs(id)) \/ adrift
<1> DEFINE i == IndexOfId(tabs, id)
           next == Without(tabs, id)
           n == Len(tabs)
           k == IF i > 1 THEN i - 1 ELSE 1
<1>1. /\ tabs \in Row /\ n \in Nat \ {0} /\ DOMAIN tabs = 1 .. n
      /\ active \in TabIds /\ (active \in Ids(tabs) \/ adrift)
  BY TabsFacts
<1>2. /\ next \in Row /\ TabsOf(next, tabs) /\ Ids(next) = Ids(tabs) \ {id}
      /\ Len(next) = IF id \in Ids(tabs) THEN n - 1 ELSE n
  BY <1>1, WithoutRow
<1>3. id \in Ids(tabs) => i \in 1 .. n
  BY <1>1, IndexFacts
<1>4. id \notin Ids(tabs) => i = 0
  BY IndexFacts
<1>5. DOMAIN next = 1 .. Len(next) /\ (next # <<>> <=> Len(next) # 0)
  BY <1>2, RowFacts
<1>6. ClosedTabs(id) = IF n = 1 THEN tabs ELSE next
  BY DEF ClosedTabs
<1>7. ClosedActive(id) = IF active # id \/ i = 0 \/ n = 1 THEN active ELSE IdOf(next[k])
  BY DEF ClosedActive
<1> HIDE DEF i, next, n, k
<1>8. CASE n = 1
  <2>1. ClosedTabs(id) = tabs /\ ClosedActive(id) = active
    BY <1>6, <1>7, <1>8
  <2>2. tabs \in Strip
    BY <1>1, TabsFacts DEF Strip
  <2> QED
    BY <1>1, <2>1, <2>2 DEF TabsOf
<1>9. CASE n # 1
  <2>1. ClosedTabs(id) = next /\ next # <<>>
    BY <1>1, <1>2, <1>5, <1>6, <1>9
  <2>2. next \in Strip
    BY <1>2, <2>1 DEF Strip
  <2>3. CASE active # id \/ i = 0
    <3>1. ClosedActive(id) = active
      BY <1>7, <2>3
    <3>2. active # id \/ id \notin Ids(tabs)
      BY <1>3, <2>3
    <3> QED
      BY <1>1, <1>2, <2>1, <2>2, <3>1, <3>2
  <2>4. CASE active = id /\ i # 0
    <3>1. i \in 1 .. n /\ Len(next) = n - 1
      BY <1>2, <1>3, <1>4, <2>4
    <3>2. k \in DOMAIN next
      BY <1>1, <1>5, <1>9, <3>1 DEF k
    <3>3. next[k] \in AllTabs
      BY <1>2, <3>2, RowFacts
    <3>4. IdOf(next[k]) \in TabIds /\ IdOf(next[k]) \in Ids(next)
      BY <3>2, <3>3, IdsFacts DEF TabIds
    <3> QED
      BY <1>2, <1>7, <1>9, <2>1, <2>2, <2>4, <3>4
  <2> QED
    BY <2>3, <2>4
<1> QED
  BY <1>8, <1>9

(* closeTab.                                                               *)
LEMMA CloseTabKeeps ==
    ASSUME WindowInv, NEW id, CloseTab(id)
    PROVE  WindowInv'
<1>1. /\ tabs' = ClosedTabs(id) /\ active' = ClosedActive(id) /\ adrift' = adrift
      /\ activeCluster' = activeCluster /\ UNCHANGED <<conVars, asks>>
  BY DEF CloseTab, closeTab
<1>2. /\ tabs' \in Strip /\ TabsOf(tabs', tabs) /\ active' \in TabIds
      /\ active' \in Ids(tabs') \/ adrift'
  BY <1>1, ClosedFacts
<1>3. activeCluster' \in Clusters \cup {NoCluster}
  BY <1>1, TabsFacts
<1>4. ~stale => activeCluster' \in Known \cup {NoCluster} /\ Shows(tabs', Known)
  BY <1>1, <1>2, TabsFacts, ShowsTabsOf
<1> QED
  BY <1>1, <1>2, <1>3, <1>4, StripKeeps

(* switchTab and activateTabAtIndex reach a tab of the strip.              *)
LEMMA SwitchKeeps ==
    ASSUME WindowInv,
           \/ \E direction \in {1, Len(tabs) - 1} : SwitchTab(direction)
           \/ \E n \in 1 .. (Len(tabs) + 1) : SelectTabByNumber(n)
    PROVE  WindowInv'
<1>1. Len(tabs) \in Nat \ {0} /\ DOMAIN tabs = 1 .. Len(tabs)
  BY TabsFacts
<1>2. ASSUME NEW direction \in {1, Len(tabs) - 1}, SwitchTab(direction)
      PROVE  \E i \in DOMAIN tabs : ActivateTab(i)
  <2> DEFINE i == IndexOfId(tabs, active)
             current == IF i = 0 THEN 1 ELSE i
             n == Len(tabs)
             next == ((current - 1 + direction + n) % n) + 1
  <2>1. ActivateTab(next)
    BY <1>2 DEF SwitchTab
  <2>2. n \in Nat \ {0} /\ DOMAIN tabs = 1 .. n
    BY <1>1
  <2>3. i \in DOMAIN tabs \/ i = 0
    BY IndexFacts
  <2>4. direction = 1 \/ direction = n - 1
    OBVIOUS
  <2> HIDE DEF i, n
  <2>5. i \in 0 .. n
    BY <2>2, <2>3
  <2>6. n \in Nat \ {0} /\ direction \in Nat /\ DOMAIN tabs = 1 .. n
    BY <2>2, <2>4
  <2>7. current - 1 + direction + n \in Nat
    BY <2>5, <2>6
  <2> DEFINE m == current - 1 + direction + n
  <2>8. m % n \in 0 .. n - 1
    <3>1. m \in Nat /\ n \in Nat \ {0}
      BY <2>6, <2>7
    <3> HIDE DEF m
    <3> QED
      BY <3>1
  <2>9. next \in 1 .. n
    <3>1. next = (m % n) + 1
      OBVIOUS
    <3> HIDE DEF next, m
    <3> QED
      BY <2>6, <2>8, <3>1
  <2> QED
    BY <2>1, <2>6, <2>9
<1>3. ASSUME NEW n \in 1 .. (Len(tabs) + 1), SelectTabByNumber(n)
      PROVE  \E i \in DOMAIN tabs : ActivateTab(i)
  <2>1. Min({n, Len(tabs)}) \in 1 .. Len(tabs)
    BY <1>1 DEF Min
  <2> QED
    BY <1>1, <1>3, <2>1 DEF SelectTabByNumber
<1> QED
  BY <1>2, <1>3, ActivateTabKeeps

(* arrayMove.                                                              *)
LEMMA DragTabKeeps ==
    ASSUME WindowInv, NEW from \in DOMAIN tabs, NEW to \in DOMAIN tabs, DragTab(from, to)
    PROVE  WindowInv'
<1>1. /\ tabs' = InsertAt(RemoveAt(tabs, from), to, tabs[from])
      /\ UNCHANGED <<active, activeCluster, adrift>> /\ UNCHANGED <<conVars, asks>>
  BY DEF DragTab
<1>2. tabs' \in Strip /\ Ids(tabs') = Ids(tabs) /\ TabsOf(tabs', tabs)
  <2>1. tabs \in Row
    BY TabsFacts
  <2> QED
    BY <1>1, <2>1, DragRow
<1>3. /\ active' \in TabIds /\ (active' \in Ids(tabs') \/ adrift')
      /\ activeCluster' \in Clusters \cup {NoCluster}
  BY <1>1, <1>2, TabsFacts
<1>4. ~stale => activeCluster' \in Known \cup {NoCluster} /\ Shows(tabs', Known)
  BY <1>1, <1>2, TabsFacts, ShowsTabsOf
<1> QED
  BY <1>1, <1>2, <1>3, <1>4, StripKeeps

(* detachTabToWindow, and the setup guide, editor and snapshots that start *)
(* a handler.                                                              *)
LEMMA StartsKeep ==
    ASSUME WindowInv,
           \/ \E i \in DOMAIN tabs : DetachTab(i)
           \/ \E c \in Clusters : connectGui(c) \/ SyncUrls(c)
           \/ saveClusterConfigEditor
           \/ deleteClusterFromEditor
    PROVE  WindowInv'
<1>1. \A i \in DOMAIN tabs : tabs[i] \in AllTabs
  BY TabsFacts
<1>2. active \in TabIds /\ editing \in Clusters \cup {NoCluster}
  BY DEF WindowInv, TypeInv
<1>3. \A op \in {"detach", "connect", "prefs", "sync"}, step \in {"open", "save", "write", "merge"},
         c \in Clusters \cup {NoCluster}, t \in AllTabs \cup {NoTab} :
            Ask(op, step, c, t) \in AskType /\ Ask(op, step, c, t).op = op
            /\ Ask(op, step, c, t).step = step /\ Ask(op, step, c, t).c = c
  BY EmptyList DEF Ask, AskType
<1>4. ASSUME NEW i \in DOMAIN tabs, DetachTab(i) PROVE WindowInv'
  <2> DEFINE a == Ask("detach", "open", NoCluster, tabs[i])
  <2>1. a \in AskType /\ a.op = "detach" /\ a.step = "open"
    BY <1>1, EmptyList DEF Ask, AskType
  <2>2. Start(a) /\ UNCHANGED <<conVars, tabVars, popout>>
    BY <1>4 DEF DetachTab
  <2> HIDE DEF a
  <2> QED
    BY <2>1, <2>2, StartKeeps DEF Asking, Stages, Reloading
<1>5. ASSUME NEW c \in Clusters, connectGui(c) PROVE WindowInv'
  <2> DEFINE a == Ask("connect", "save", c, NoTab)
  <2>1. a \in AskType /\ a.op = "connect" /\ a.step = "save" /\ a.c = c
    BY <1>3
  <2>2. Start(a) /\ UNCHANGED <<conVars, tabVars, popout>>
    BY <1>5 DEF connectGui
  <2> HIDE DEF a
  <2> QED
    BY <2>1, <2>2, StartKeeps DEF Asking, Stages, Reloading
<1>6. ASSUME NEW c \in Clusters, SyncUrls(c) PROVE WindowInv'
  <2> DEFINE a == Ask("sync", "merge", c, NoTab)
  <2>1. a \in AskType /\ a.op = "sync" /\ a.step = "merge"
    BY <1>3
  <2>2. Start(a) /\ UNCHANGED <<conVars, tabVars, popout>>
    BY <1>6 DEF SyncUrls
  <2> HIDE DEF a
  <2> QED
    BY <2>1, <2>2, StartKeeps DEF Asking, Stages, Reloading
<1>7. ASSUME saveClusterConfigEditor PROVE WindowInv'
  <2> DEFINE a == Ask("prefs", "write", editing, NoTab)
  <2>1. a \in AskType /\ a.op = "prefs" /\ a.step = "write"
    BY <1>2, <1>3
  <2>2. Start(a) /\ UNCHANGED <<conVars, tabVars, popout>>
    BY <1>7 DEF saveClusterConfigEditor
  <2> HIDE DEF a
  <2> QED
    BY <2>1, <2>2, StartKeeps DEF Asking, Stages, Reloading
<1>8. ASSUME deleteClusterFromEditor PROVE WindowInv'
  <2> DEFINE a == [Ask("delete", "drop", editing, NoTab) EXCEPT !.active = active]
  <2>1. a \in AskType /\ a.op = "delete" /\ a.step = "drop"
    BY <1>2, EmptyList DEF Ask, AskType
  <2>2. Start(a) /\ UNCHANGED <<conVars, tabVars, popout>>
    BY <1>8 DEF deleteClusterFromEditor
  <2> HIDE DEF a
  <2> QED
    BY <2>1, <2>2, StartKeeps DEF Asking, Stages, Reloading
<1> QED
  BY <1>4, <1>5, <1>6, <1>7, <1>8

(* The new window opens, and the tab is closed here.                       *)
LEMMA WindowOpensKeeps ==
    ASSUME WindowInv, NEW a \in asks, WindowOpens(a)
    PROVE  WindowInv'
<1>1. /\ tabs' = ClosedTabs(IdOf(a.tab)) /\ active' = ClosedActive(IdOf(a.tab)) /\ adrift' = adrift
      /\ activeCluster' = activeCluster /\ a.op = "detach" /\ asks' = asks \ {a}
      /\ UNCHANGED conVars
  BY DEF WindowOpens, closeTab, Finish
<1>2. /\ tabs' \in Strip /\ TabsOf(tabs', tabs) /\ active' \in TabIds
      /\ active' \in Ids(tabs') \/ adrift'
  BY <1>1, ClosedFacts
<1>3. Asking(a)
  BY DEF WindowInv, TypeInv
<1>4. a.step = "open"
  BY <1>1, <1>3 DEF Asking, Stages
<1>5. Continues(asks, asks')
  BY <1>1, <1>4 DEF Continues, DeletingIn, AnyReload, Reloading
<1>6. ~stale => activeCluster' \in Known \cup {NoCluster} /\ Shows(tabs', Known)
  BY <1>1, <1>2, TabsFacts, ShowsTabsOf
<1>7. ConnectionInv'
  BY <1>1, <1>5, <1>6, ConnectionKept DEF WindowInv, conVars
<1>8. TypeInv'
  BY <1>1, <1>2 DEF WindowInv, TypeInv, conVars
<1> QED
  BY <1>2, <1>7, <1>8 DEF WindowInv, StripInv

(* Handlers that end without having set anything.                          *)
LEMMA FinishesKeep ==
    ASSUME WindowInv, NEW a \in asks,
           WindowFails(a) \/ ConnectFails(a) \/ PrefsSaved(a) \/ RequestFails(a)
    PROVE  WindowInv'
<1>1. Asking(a)
  BY DEF WindowInv, TypeInv
<1>2. Finish(a) /\ store' = store /\ configs' = configs /\ stale' = stale /\ UNCHANGED tabVars
      /\ editing' \in {editing, NoCluster}
  BY DEF WindowFails, ConnectFails, PrefsSaved, RequestFails, conVars
<1>3. a.op = "detach" \/ a.op = "prefs" \/ a.step \in {"save", "write", "drop", "merge"}
  BY DEF WindowFails, ConnectFails, PrefsSaved, RequestFails
<1>4. ~Reloading(a) /\ a.step # "synced"
  BY <1>1, <1>3 DEF Asking, Stages, Reloading
<1> QED
  BY <1>2, <1>4, FinishKeeps

-----------------------------------------------------------------------------
(* Actions of useClusterConnections.                                       *)

(* A cluster is selected, and the editor opened or closed.                 *)
LEMMA SelectKeeps ==
    ASSUME WindowInv,
           \/ \E c \in Clusters : SelectCluster(c) \/ openClusterConfigEditor(c)
           \/ CloseEditor
    PROVE  WindowInv'
<1>1. Continues(asks, asks)
  BY DEF Continues
<1>2. ASSUME NEW c \in Clusters, SelectCluster(c) PROVE WindowInv'
  <2>1. /\ c \in Listed /\ activeCluster' = c
        /\ UNCHANGED <<conVars, tabs, active, adrift, asks>>
    BY <1>2 DEF SelectCluster
  <2>2. ~stale => activeCluster' \in Known \cup {NoCluster} /\ Shows(tabs', Known)
    BY <2>1, TabsFacts DEF WindowInv, ConnectionInv
  <2>3. ConnectionInv'
    BY <1>1, <2>1, <2>2, ConnectionKept DEF WindowInv, conVars
  <2>4. TypeInv'
    BY <1>2, <2>1 DEF WindowInv, TypeInv, conVars
  <2>5. StripInv'
    BY <2>1 DEF WindowInv, StripInv
  <2> QED
    BY <2>3, <2>4, <2>5 DEF WindowInv
<1>3. ASSUME editing' \in Clusters \cup {NoCluster},
             UNCHANGED <<store, configs, stale, tabVars, popout, asks, ops>>
      PROVE  WindowInv'
  <2>1. ~stale => activeCluster' \in Known \cup {NoCluster} /\ Shows(tabs', Known)
    BY <1>3, TabsFacts DEF tabVars
  <2>2. ConnectionInv'
    BY <1>1, <1>3, <2>1, ConnectionKept DEF WindowInv
  <2>3. TypeInv'
    BY <1>3 DEF WindowInv, TypeInv, tabVars
  <2>4. StripInv'
    BY <1>3 DEF WindowInv, StripInv, tabVars
  <2> QED
    BY <2>2, <2>3, <2>4 DEF WindowInv
<1>4. ASSUME NEW c \in Clusters, openClusterConfigEditor(c) PROVE WindowInv'
  BY <1>3, <1>4 DEF openClusterConfigEditor
<1>5. ASSUME CloseEditor PROVE WindowInv'
  BY <1>3, <1>5 DEF CloseEditor
<1> QED
  BY <1>2, <1>4, <1>5

(* A handler that goes on to another step.                                 *)
LEMMA ProceedFacts ==
    ASSUME WindowInv, NEW a \in asks, NEW b, Proceed(a, b), b.op = a.op, b.c = a.c,
           Reloading(b) \/ ~Reloading(a), a.step # "synced"
    PROVE  Continues(asks, asks')
<1>1. asks' = (asks \ {a}) \cup {b}
  BY DEF Proceed
<1>2. DeletingIn(asks) \subseteq DeletingIn(asks')
  <2> SUFFICES ASSUME NEW d \in asks, d.op = "delete", Reloading(d)
               PROVE  d.c \in DeletingIn(asks')
    BY DEF DeletingIn
  <2>1. CASE d = a
    BY <1>1, <2>1 DEF DeletingIn
  <2>2. CASE d # a
    BY <1>1, <2>2 DEF DeletingIn
  <2> QED
    BY <2>1, <2>2
<1>3. AnyReload(asks) => AnyReload(asks')
  BY <1>1 DEF AnyReload
<1> QED
  BY <1>1, <1>2, <1>3 DEF Continues

(* The host reads the files.                                               *)
LEMMA HostListsKeeps ==
    ASSUME WindowInv, NEW a \in asks, HostLists(a)
    PROVE  WindowInv'
<1> DEFINE b == [a EXCEPT !.step = "apply", !.got = store]
<1>1. Asking(a) /\ store \in Lists
  BY DEF WindowInv, TypeInv
<1>2. a.step = "list" /\ Proceed(a, b) /\ UNCHANGED <<conVars, tabVars, popout, ops>>
  BY DEF HostLists
<1>3. b \in AskType /\ b.op = a.op /\ b.c = a.c /\ b.step = "apply"
  BY <1>1 DEF Asking, AskType
<1>4. Asking(b) /\ Reloading(b)
  BY <1>1, <1>2, <1>3 DEF Asking, Stages, Reloading
<1> HIDE DEF b
<1>5. Continues(asks, asks')
  BY <1>2, <1>3, <1>4, ProceedFacts
<1>6. ~stale => activeCluster' \in Known \cup {NoCluster} /\ Shows(tabs', Known)
  BY <1>2, TabsFacts DEF tabVars
<1>7. ConnectionInv'
  BY <1>2, <1>5, <1>6, ConnectionKept DEF WindowInv, conVars
<1>8. TypeInv'
  BY <1>2, <1>4 DEF WindowInv, TypeInv, conVars, tabVars, Proceed
<1>9. StripInv'
  BY <1>2 DEF WindowInv, StripInv, tabVars
<1> QED
  BY <1>7, <1>8, <1>9 DEF WindowInv

(* A list just read, if the files have not outrun it, is in step.          *)
LEMMA Reloaded ==
    ASSUME ~stale' => configs' = store',
           ~stale' => activeCluster' \in Known' \cup {NoCluster} /\ Shows(tabs', Known')
    PROVE  ConnectionInv'
<1> SUFFICES ASSUME ~stale'
             PROVE  /\ Listed' \subseteq Known'
                    /\ activeCluster' \in Known' \cup {NoCluster}
                    /\ \A i \in DOMAIN tabs' : tabs'[i].cluster \in Known' \cup {NoCluster}
                    /\ ~AnyReload(asks') => InStep'
  BY DEF ConnectionInv
<1>1. Listed' = DOMAIN store'
  BY DEF Listed
<1>2. Listed' \subseteq Known'
  BY <1>1 DEF Known
<1>3. InStep'
  BY <1>1 DEF InStep
<1> QED
  BY <1>2, <1>3 DEF Shows

(* A handler that has read the list and ends: what it does not show any    *)
(* more is the only thing it may have been deleting.                       *)
LEMMA FinishedFacts ==
    ASSUME NEW a \in asks, Finish(a), store' = store
    PROVE  /\ DOMAIN store \subseteq Known'
           /\ Known \subseteq Known' \cup {a.c}
           /\ a.op # "delete" => Known \subseteq Known'
BY DEF Known, DeletingIn, Finish

(* loadConnections.                                                        *)
LEMMA LoadKeeps ==
    ASSUME WindowInv, NEW a \in asks, loadConnections(a)
    PROVE  WindowInv'
<1>1. Asking(a)
  BY DEF WindowInv, TypeInv
<1>2. /\ a.op = "load" /\ configs' = a.got /\ stale' = (stale \/ a.got # store)
      /\ activeCluster' = KeptCluster(a.got) /\ Finish(a)
      /\ UNCHANGED <<store, editing, tabs, active, adrift>>
  BY DEF loadConnections, ApplyList
<1>3. a.got \in Lists
  BY <1>1 DEF Asking, AskType
<1>4. KeptCluster(a.got) \in DOMAIN a.got \cup {NoCluster} /\ DOMAIN a.got \subseteq Clusters
  BY <1>3, KeptFacts, ListFacts
<1>5. DOMAIN store \subseteq Known' /\ Known \subseteq Known'
  BY <1>2, FinishedFacts
<1>6. ~stale' => ~stale /\ a.got = store
  BY <1>2
<1>7. ~stale' => Shows(tabs', Known')
  BY <1>2, <1>5, <1>6, TabsFacts DEF Shows
<1>8. ConnectionInv'
  BY <1>2, <1>4, <1>5, <1>6, <1>7, Reloaded
<1>9. TypeInv'
  BY <1>2, <1>3, <1>4 DEF WindowInv, TypeInv, Finish
<1>10. StripInv'
  BY <1>2 DEF WindowInv, StripInv
<1> QED
  BY <1>8, <1>9, <1>10 DEF WindowInv

(* The host saves a connection: the handler will reload.                   *)
LEMMA HostSavesKeeps ==
    ASSUME WindowInv, NEW a \in asks, HostSaves(a)
    PROVE  WindowInv'
<1> DEFINE b == [a EXCEPT !.step = "list"]
           d == DOMAIN store \cup {a.c}
<1>1. Asking(a) /\ store \in Lists
  BY DEF WindowInv, TypeInv
<1>2. /\ a.op = "connect" /\ a.step = "save" /\ Proceed(a, b)
      /\ store' = [c \in d |-> IF c = a.c THEN FALSE ELSE store[c]]
      /\ UNCHANGED <<configs, editing, stale, tabVars, popout, ops>>
  BY DEF HostSaves
<1>3. b \in AskType /\ b.op = a.op /\ b.c = a.c /\ b.step = "list"
  BY <1>1 DEF Asking, AskType
<1>4. Asking(b) /\ Reloading(b)
  BY <1>1, <1>2, <1>3 DEF Asking, Stages, Reloading
<1>5. a.c \in Clusters /\ DOMAIN store \subseteq Clusters /\ \A c \in DOMAIN store : store[c] \in BOOLEAN
  BY <1>1, <1>2, ListFacts DEF Asking
<1>6. store' \in Lists /\ DOMAIN store' = d
  <2>1. store' \in [d -> BOOLEAN] /\ d \in SUBSET Clusters
    BY <1>2, <1>5
  <2> HIDE DEF d
  <2> QED
    BY <2>1, IsList
<1> HIDE DEF b
<1>7. Continues(asks, asks')
  BY <1>2, <1>3, <1>4, ProceedFacts
<1>8. Known \subseteq Known' /\ AnyReload(asks')
  BY <1>2, <1>4, <1>6, <1>7 DEF Known, Continues, AnyReload, Proceed
<1> HIDE DEF d
<1>9. ConnectionInv'
  BY <1>2, <1>8 DEF WindowInv, ConnectionInv, tabVars, Listed
<1>10. TypeInv'
  BY <1>2, <1>4, <1>6 DEF WindowInv, TypeInv, tabVars, Proceed
<1>11. StripInv'
  BY <1>2 DEF WindowInv, StripInv, tabVars
<1> QED
  BY <1>9, <1>10, <1>11 DEF WindowInv

(* The rest of connectGui: the setup guide makes way for the cluster.      *)
LEMMA ConnectKeeps ==
    ASSUME WindowInv, NEW a \in asks, handleConnectGui(a)
    PROVE  WindowInv'
<1> DEFINE t == Tab("Node", a.c)
           next == Without(tabs, SETUP_TAB_ID)
<1>1. Asking(a)
  BY DEF WindowInv, TypeInv
<1>2. /\ a.op = "connect" /\ configs' = a.got
      /\ stale' = (stale \/ a.got # store \/ a.c \notin DOMAIN store)
      /\ activeCluster' = a.c /\ tabs' = AppendTab(next, t) /\ active' = <<"Node", a.c>>
      /\ Finish(a) /\ UNCHANGED <<store, editing>>
  BY DEF handleConnectGui, ConnectedTabs
<1>3. a.got \in Lists /\ a.c \in Clusters
  BY <1>1, <1>2 DEF Asking, AskType
<1>4. "Node" \in Kinds /\ "Node" \notin AppKinds /\ NoCluster \notin Clusters
  BY WorkspaceAssumption DEF NoCluster, AppKinds
<1>5. t \in AllTabs /\ t.cluster = a.c /\ IdOf(t) = <<"Node", a.c>> /\ t.cluster # NoCluster
  BY <1>3, <1>4 DEF AllTabs, Tab, IdOf
<1> HIDE DEF t, next
<1>6. next \in Row /\ TabsOf(next, tabs)
  BY TabsFacts, WithoutRow DEF next
<1>7. /\ tabs' \in Strip /\ Ids(tabs') = Ids(next) \cup {IdOf(t)}
      /\ \A i \in DOMAIN tabs' : tabs'[i] = t \/ \E j \in DOMAIN next : tabs'[i] = next[j]
  BY <1>2, <1>5, <1>6, AppendTabRow
<1>8. DOMAIN store \subseteq Known' /\ Known \subseteq Known'
  BY <1>2, FinishedFacts
<1>9. ~stale' => ~stale /\ a.got = store /\ a.c \in DOMAIN store
  BY <1>2
<1>10. ~stale' => Shows(tabs', Known')
  <2> SUFFICES ASSUME ~stale', NEW i \in DOMAIN tabs'
               PROVE  tabs'[i].cluster \in Known' \cup {NoCluster}
    BY DEF Shows
  <2>1. Shows(next, Known)
    BY <1>6, <1>9, TabsFacts, ShowsTabsOf
  <2> QED
    BY <1>5, <1>7, <1>8, <1>9, <2>1 DEF Shows
<1>11. ConnectionInv'
  BY <1>2, <1>8, <1>9, <1>10, Reloaded
<1>12. TypeInv'
  BY <1>2, <1>3, <1>5 DEF WindowInv, TypeInv, Finish, TabIds
<1>13. StripInv'
  BY <1>2, <1>5, <1>7 DEF StripInv
<1> QED
  BY <1>11, <1>12, <1>13 DEF WindowInv

(* The host deletes a connection: from now on its deletion is under way.   *)
LEMMA HostDeletesKeeps ==
    ASSUME WindowInv, NEW a \in asks, HostDeletes(a)
    PROVE  WindowInv'
<1> DEFINE b == [a EXCEPT !.step = "dropped"]
           d == DOMAIN store \ {a.c}
<1>1. Asking(a) /\ store \in Lists
  BY DEF WindowInv, TypeInv
<1>2. /\ a.op = "delete" /\ a.step = "drop" /\ Proceed(a, b)
      /\ store' = [c \in d |-> store[c]]
      /\ UNCHANGED <<configs, editing, stale, tabVars, popout, ops>>
  BY DEF HostDeletes
<1>3. b \in AskType /\ b.op = a.op /\ b.c = a.c /\ b.step = "dropped"
  BY <1>1 DEF Asking, AskType
<1>4. Asking(b) /\ Reloading(b)
  BY <1>1, <1>2, <1>3 DEF Asking, Stages, Reloading
<1>5. DOMAIN store \subseteq Clusters /\ \A c \in DOMAIN store : store[c] \in BOOLEAN
  BY <1>1, ListFacts
<1>6. store' \in Lists /\ DOMAIN store' = d
  <2>1. store' \in [d -> BOOLEAN] /\ d \in SUBSET Clusters
    BY <1>2, <1>5
  <2> HIDE DEF d
  <2> QED
    BY <2>1, IsList
<1> HIDE DEF b
<1>7. Continues(asks, asks')
  BY <1>2, <1>3, <1>4, ProceedFacts
<1>8. b \in asks' /\ AnyReload(asks')
  BY <1>2, <1>4 DEF AnyReload, Proceed
<1>9. Known \subseteq Known'
  <2>1. a.c \in DeletingIn(asks')
    BY <1>2, <1>3, <1>4, <1>8 DEF DeletingIn
  <2> QED
    BY <1>6, <1>7, <2>1 DEF Known, Continues
<1> HIDE DEF d
<1>10. ConnectionInv'
  BY <1>2, <1>8, <1>9 DEF WindowInv, ConnectionInv, tabVars, Listed
<1>11. TypeInv'
  BY <1>2, <1>4, <1>6 DEF WindowInv, TypeInv, tabVars, Proceed
<1>12. StripInv'
  BY <1>2 DEF WindowInv, StripInv, tabVars
<1> QED
  BY <1>10, <1>11, <1>12 DEF WindowInv

(* The window drops the connection from its list, and will reload.         *)
LEMMA DroppedKeeps ==
    ASSUME WindowInv, NEW a \in asks, ConnectionDropped(a)
    PROVE  WindowInv'
<1> DEFINE b == [a EXCEPT !.step = "list"]
           d == Listed \ {a.c}
<1>1. Asking(a) /\ configs \in Lists
  BY DEF WindowInv, TypeInv
<1>2. /\ a.step = "dropped" /\ Proceed(a, b) /\ editing' = NoCluster
      /\ configs' = [c \in d |-> configs[c]]
      /\ UNCHANGED <<store, stale, tabVars, popout, ops>>
  BY DEF ConnectionDropped, DroppedConfig
<1>3. b \in AskType /\ b.op = a.op /\ b.c = a.c /\ b.step = "list"
  BY <1>1 DEF Asking, AskType
<1>4. Asking(b) /\ Reloading(b)
  BY <1>1, <1>2, <1>3 DEF Asking, Stages, Reloading
<1>5. configs' \in Lists /\ DOMAIN configs' = d
  <2>1. DOMAIN configs \subseteq Clusters /\ \A c \in DOMAIN configs : configs[c] \in BOOLEAN
    BY <1>1, ListFacts
  <2>2. configs' \in [d -> BOOLEAN] /\ d \in SUBSET Clusters
    BY <1>2, <2>1 DEF Listed
  <2> HIDE DEF d
  <2> QED
    BY <2>2, IsList
<1> HIDE DEF b
<1>6. Continues(asks, asks')
  BY <1>2, <1>3, <1>4, ProceedFacts
<1>7. Known \subseteq Known' /\ AnyReload(asks') /\ Listed' \subseteq Listed
  BY <1>2, <1>4, <1>5, <1>6 DEF Known, Continues, AnyReload, Proceed, Listed
<1>8. ConnectionInv'
  BY <1>2, <1>7 DEF WindowInv, ConnectionInv, tabVars
<1>9. TypeInv'
  BY <1>2, <1>4, <1>5 DEF WindowInv, TypeInv, tabVars, Proceed
<1>10. StripInv'
  BY <1>2 DEF WindowInv, StripInv, tabVars
<1> QED
  BY <1>8, <1>9, <1>10 DEF WindowInv

(* The tab of the setup guide.                                             *)
LEMMA GuideFacts ==
    /\ Tab("SetupGuide", NoCluster) \in AllTabs /\ SETUP_TAB_ID \in TabIds
    /\ Tab("SetupGuide", NoCluster).cluster = NoCluster
    /\ Tab("SetupGuide", NoCluster).kind = "SetupGuide"
<1>1. "SetupGuide" \in Kinds \cup AppKinds /\ NoCluster \in Clusters \cup {NoCluster}
  BY DEF AppKinds
<1>2. Tab("SetupGuide", NoCluster) \in AllTabs
  <2>1. \A k \in Kinds \cup AppKinds, c \in Clusters \cup {NoCluster} : Tab(k, c) \in AllTabs
    BY DEF AllTabs
  <2> QED
    BY <1>1, <2>1
<1>3. IdOf(Tab("SetupGuide", NoCluster)) = SETUP_TAB_ID
  BY DEF IdOf, Tab, SETUP_TAB_ID, AppKinds
<1>4. SETUP_TAB_ID \in TabIds
  BY <1>2, <1>3, Zenon DEF TabIds
<1> QED
  BY <1>2, <1>4 DEF Tab

(* The tabs that a deletion leaves.                                        *)
LEMMA RemainingFacts ==
    ASSUME WindowInv, NEW c
    PROVE  /\ RemainingTabs(c) \in Strip
           /\ \A i \in DOMAIN RemainingTabs(c) :
                 \/ RemainingTabs(c)[i].cluster = NoCluster
                 \/ /\ RemainingTabs(c)[i].cluster # c
                    /\ \E j \in DOMAIN tabs : RemainingTabs(c)[i] = tabs[j]
<1> DEFINE keep == {t \in Range(tabs) : t.cluster # c}
           filtered == Filter(tabs, keep)
           guide == Tab("SetupGuide", NoCluster)
           r == RemainingTabs(c)
<1>1. r = IF filtered # <<>> THEN filtered ELSE <<guide>>
  BY DEF RemainingTabs
<1>2. \A t \in keep : t.cluster # c
  OBVIOUS
<1> HIDE DEF keep
<1>3. /\ filtered \in Row /\ TabsOf(filtered, tabs)
      /\ \A i \in DOMAIN filtered : filtered[i] \in keep
  <2>1. tabs \in Row
    BY TabsFacts
  <2> QED
    BY <2>1, FilterRow
<1> HIDE DEF filtered, r
<1>4. CASE filtered # <<>>
  <2>1. r = filtered /\ r \in Strip
    BY <1>1, <1>3, <1>4 DEF Strip
  <2>2. \A i \in DOMAIN r : r[i].cluster # c /\ \E j \in DOMAIN tabs : r[i] = tabs[j]
    BY <1>2, <1>3, <2>1 DEF TabsOf
  <2> QED
    BY <2>1, <2>2 DEF r
<1>5. CASE filtered = <<>>
  <2>1. r = <<guide>>
    BY <1>1, <1>5
  <2>2. guide \in AllTabs /\ guide.cluster = NoCluster /\ guide.kind = "SetupGuide"
    BY GuideFacts
  <2> HIDE DEF guide
  <2>3. r \in Seq(AllTabs) /\ r # <<>> /\ DOMAIN r = {1} /\ r[1] = guide
    BY <2>1, <2>2
  <2>4. r \in Strip
    BY <2>2, <2>3 DEF Strip, Row, Distinct
  <2> QED
    BY <2>2, <2>3, <2>4 DEF r
<1> QED
  BY <1>4, <1>5

(* The rest of handleDeleteClusterFromEditor: a strip without the cluster. *)
LEMMA TailFacts ==
    ASSUME WindowInv, NEW a, DeletionTail(a)
    PROVE  /\ tabs' \in Strip /\ active' \in TabIds /\ (active' \in Ids(tabs') \/ adrift')
           /\ ~stale => \A i \in DOMAIN tabs' :
                           tabs'[i].cluster \in (Known \ {a.c}) \cup {NoCluster}
<1>1. tabs' = RemainingTabs(a.c)
  BY DEF DeletionTail
<1>2. adrift' = (active' \notin Ids(tabs')) /\ active' \in {active, SETUP_TAB_ID}
  BY DEF DeletionTail
<1>3. SETUP_TAB_ID \in TabIds
  BY GuideFacts
<1>4. active' \in TabIds /\ (active' \in Ids(tabs') \/ adrift')
  BY <1>2, <1>3, TabsFacts
<1>5. /\ tabs' \in Strip
      /\ \A i \in DOMAIN tabs' :
            \/ tabs'[i].cluster = NoCluster
            \/ tabs'[i].cluster # a.c /\ \E j \in DOMAIN tabs : tabs'[i] = tabs[j]
  BY <1>1, RemainingFacts
<1> QED
  BY <1>4, <1>5, TabsFacts

(* The deletion ends with the list read.                                   *)
LEMMA DeleteKeeps ==
    ASSUME WindowInv, NEW a \in asks, handleDeleteClusterFromEditor(a)
    PROVE  WindowInv'
<1>1. Asking(a)
  BY DEF WindowInv, TypeInv
<1>2. /\ configs' = a.got /\ stale' = (stale \/ a.got # store)
      /\ activeCluster' = KeptCluster(a.got) /\ DeletionTail(a) /\ Finish(a)
      /\ UNCHANGED <<store, editing>>
  BY DEF handleDeleteClusterFromEditor, ApplyList
<1>3. a.got \in Lists
  BY <1>1 DEF Asking, AskType
<1>4. KeptCluster(a.got) \in DOMAIN a.got \cup {NoCluster} /\ DOMAIN a.got \subseteq Clusters
  BY <1>3, KeptFacts, ListFacts
<1>5. DOMAIN store \subseteq Known' /\ Known \subseteq Known' \cup {a.c}
  BY <1>2, FinishedFacts
<1>6. ~stale' => ~stale /\ a.got = store
  BY <1>2
<1>7. /\ tabs' \in Strip /\ active' \in TabIds /\ (active' \in Ids(tabs') \/ adrift')
      /\ ~stale => \A i \in DOMAIN tabs' :
                      tabs'[i].cluster \in (Known \ {a.c}) \cup {NoCluster}
  BY <1>2, TailFacts
<1>8. ~stale' => Shows(tabs', Known')
  BY <1>5, <1>6, <1>7 DEF Shows
<1>9. ConnectionInv'
  BY <1>2, <1>4, <1>5, <1>6, <1>8, Reloaded
<1>10. TypeInv'
  BY <1>2, <1>3, <1>4, <1>7 DEF WindowInv, TypeInv, Finish
<1>11. StripInv'
  BY <1>7 DEF StripInv
<1> QED
  BY <1>9, <1>10, <1>11 DEF WindowInv

(* The list cannot be read.                                                *)
LEMMA ListFailsKeeps ==
    ASSUME WindowInv, NEW a \in asks, ListFails(a)
    PROVE  WindowInv'
<1>1. /\ stale' = TRUE /\ Finish(a) /\ UNCHANGED <<store, configs, editing>>
      /\ (DeletionTail(a) /\ activeCluster' = activeCluster) \/ UNCHANGED tabVars
  BY DEF ListFails
<1>2. ConnectionInv'
  BY <1>1 DEF ConnectionInv
<1>3. /\ tabs' \in Strip /\ active' \in TabIds /\ (active' \in Ids(tabs') \/ adrift')
      /\ activeCluster' = activeCluster
  <2>1. CASE DeletionTail(a) /\ activeCluster' = activeCluster
    BY <2>1, TailFacts
  <2>2. CASE UNCHANGED tabVars
    BY <2>2, TabsFacts DEF tabVars, Strip
  <2> QED
    BY <1>1, <2>1, <2>2
<1>4. TypeInv'
  BY <1>1, <1>3 DEF WindowInv, TypeInv, Finish
<1> QED
  BY <1>2, <1>3, <1>4 DEF WindowInv, StripInv

(* The host merges the URLs: the answer will say so.                       *)
LEMMA HostMergesKeeps ==
    ASSUME WindowInv, NEW a \in asks, HostMerges(a)
    PROVE  WindowInv'
<1> DEFINE b == [a EXCEPT !.step = "synced"]
<1>1. Asking(a) /\ store \in Lists
  BY DEF WindowInv, TypeInv
<1>2. /\ a.step = "merge" /\ Proceed(a, b) /\ a.c \in DOMAIN store
      /\ store' = [store EXCEPT ![a.c] = TRUE]
      /\ UNCHANGED <<configs, editing, stale, tabVars, popout, ops>>
  BY DEF HostMerges
<1>3. b \in AskType /\ b.op = a.op /\ b.c = a.c /\ b.step = "synced"
  BY <1>1 DEF Asking, AskType
<1>4. Asking(b) /\ ~Reloading(a)
  BY <1>1, <1>2, <1>3 DEF Asking, Stages, Reloading
<1>5. /\ store' \in Lists /\ DOMAIN store' = DOMAIN store
      /\ \A c \in DOMAIN store : store'[c] = IF c = a.c THEN TRUE ELSE store[c]
  <2>1. DOMAIN store \in SUBSET Clusters /\ store = [c \in DOMAIN store |-> store[c]]
        /\ \A c \in DOMAIN store : store[c] \in BOOLEAN
    BY <1>1, ListFacts
  <2>2. store' \in [DOMAIN store -> BOOLEAN]
    BY <1>2, <2>1
  <2> QED
    BY <1>2, <2>1, <2>2, IsList
<1> HIDE DEF b
<1>6. Continues(asks, asks') /\ b \in asks'
  BY <1>2, <1>3, <1>4, ProceedFacts DEF Proceed
<1>7. Known \subseteq Known'
  BY <1>5, <1>6 DEF Known, Continues
<1>8. ASSUME ~stale, ~AnyReload(asks') PROVE InStep'
  <2>1. InStep
    BY <1>6, <1>8 DEF WindowInv, ConnectionInv, Continues
  <2> SUFFICES ASSUME NEW c \in Listed, configs[c] # store'[c]
               PROVE  store'[c] = TRUE /\ \E d \in asks' : d.step = "synced" /\ d.c = c
    BY <1>2, <1>5, <2>1 DEF InStep, Listed
  <2>2. c \in DOMAIN store
    BY <2>1 DEF InStep
  <2>3. CASE c = a.c
    BY <1>3, <1>5, <1>6, <2>2, <2>3
  <2>4. CASE c # a.c
    BY <1>5, <1>6, <2>1, <2>2, <2>4 DEF InStep, Continues
  <2> QED
    BY <2>3, <2>4
<1>9. ConnectionInv'
  BY <1>2, <1>7, <1>8 DEF WindowInv, ConnectionInv, tabVars, Listed
<1>10. TypeInv'
  BY <1>2, <1>4, <1>5 DEF WindowInv, TypeInv, tabVars, Proceed
<1>11. StripInv'
  BY <1>2 DEF WindowInv, StripInv, tabVars
<1> QED
  BY <1>9, <1>10, <1>11 DEF WindowInv

(* The answer is entered in the list, if the cluster is still in it.       *)
LEMMA UrlsSyncedKeeps ==
    ASSUME WindowInv, NEW a \in asks, UrlsSynced(a)
    PROVE  WindowInv'
<1>1. Asking(a) /\ configs \in Lists /\ store \in Lists
  BY DEF WindowInv, TypeInv
<1>2. /\ a.step = "synced" /\ Finish(a)
      /\ configs' = [c \in Listed |-> IF c = a.c THEN TRUE ELSE configs[c]]
      /\ stale' = (stale \/ (a.c \in Listed /\ ~(a.c \in DOMAIN store /\ store[a.c])))
      /\ UNCHANGED <<store, editing, tabVars, popout, ops>>
  BY DEF UrlsSynced, SyncedConfig
<1>3. a.op # "delete" /\ ~Reloading(a)
  BY <1>1, <1>2 DEF Asking, Stages, Reloading
<1>4. ~stale' => ~stale /\ (a.c \in Listed => a.c \in DOMAIN store /\ store[a.c])
  BY <1>2
<1>5. configs' \in Lists /\ Listed' = Listed
      /\ \A c \in Listed : configs'[c] = IF c = a.c THEN TRUE ELSE configs[c]
  <2>1. DOMAIN configs \in SUBSET Clusters /\ \A c \in DOMAIN configs : configs[c] \in BOOLEAN
    BY <1>1, ListFacts
  <2>2. configs' \in [DOMAIN configs -> BOOLEAN]
    BY <1>2, <2>1 DEF Listed
  <2> QED
    BY <1>2, <2>1, <2>2, IsList DEF Listed
<1>6. Known \subseteq Known' /\ (AnyReload(asks) <=> AnyReload(asks'))
  <2>1. AnyReload(asks) <=> AnyReload(asks')
    BY <1>2, <1>3 DEF AnyReload, Finish
  <2>2. Known \subseteq Known'
    BY <1>2, <1>3, FinishedFacts
  <2> QED
    BY <2>1, <2>2
<1>7. ASSUME ~stale', ~AnyReload(asks') PROVE InStep'
  <2>1. InStep
    BY <1>4, <1>6, <1>7 DEF WindowInv, ConnectionInv
  <2> SUFFICES ASSUME NEW c \in Listed, configs'[c] # store[c]
               PROVE  store[c] = TRUE /\ \E d \in asks' : d.step = "synced" /\ d.c = c
    BY <1>2, <1>5, <2>1 DEF InStep
  <2>2. c \in DOMAIN store /\ store[c] \in BOOLEAN
    BY <1>1, <2>1, ListFacts DEF InStep
  <2>3. c # a.c
    <3> SUFFICES ASSUME c = a.c PROVE FALSE
      OBVIOUS
    <3>1. store[c]
      BY <1>4, <1>7
    <3>2. store[c] = TRUE
      BY <2>2, <3>1
    <3> QED
      BY <1>5, <3>2
  <2>4. configs[c] # store[c]
    BY <1>5, <2>3
  <2>5. PICK d \in asks : d.step = "synced" /\ d.c = c
    BY <2>1, <2>4 DEF InStep
  <2> QED
    BY <1>2, <2>1, <2>3, <2>4, <2>5 DEF InStep, Finish
<1>8. ConnectionInv'
  BY <1>2, <1>4, <1>5, <1>6, <1>7 DEF WindowInv, ConnectionInv, tabVars
<1>9. TypeInv'
  BY <1>2, <1>5 DEF WindowInv, TypeInv, tabVars, Finish
<1>10. StripInv'
  BY <1>2 DEF WindowInv, StripInv, tabVars
<1> QED
  BY <1>8, <1>9, <1>10 DEF WindowInv

(* Without connections the setup guide is activated.                       *)
LEMMA SetupEffectKeeps ==
    ASSUME WindowInv, SetupEffect
    PROVE  WindowInv'
<1>1. /\ active' = SETUP_TAB_ID /\ adrift' = (SETUP_TAB_ID \notin Ids(tabs))
      /\ UNCHANGED <<conVars, tabs, activeCluster, asks>>
  BY DEF SetupEffect
<1>2. SETUP_TAB_ID \in TabIds
  BY GuideFacts
<1>3. /\ tabs' \in Strip /\ active' \in TabIds /\ (active' \in Ids(tabs') \/ adrift')
      /\ activeCluster' \in Clusters \cup {NoCluster}
      /\ ~stale => activeCluster' \in Known \cup {NoCluster} /\ Shows(tabs', Known)
  BY <1>1, <1>2, TabsFacts DEF Strip
<1> QED
  BY <1>1, <1>3, StripKeeps

-----------------------------------------------------------------------------
(* Every behaviour.                                                        *)

(* A window opens with one tab, and asks for its connections.              *)
LEMMA InitialWindow ==
    ASSUME Init
    PROVE  WindowInv
<1>1. PICK w \in Windows : store = [c \in w[1] |-> FALSE]
  BY DEF Init
<1>2. w[1] \in SUBSET Clusters
  BY WorkspaceAssumption
<1>3. store \in Lists /\ DOMAIN store = w[1]
  <2>1. store \in [w[1] -> BOOLEAN]
    BY <1>1
  <2> QED
    BY <1>2, <2>1, IsList
<1>4. PICK t \in {Tab(k, c) : k \in Kinds \cup AppKinds, c \in DOMAIN store}
                  \cup {Tab("SetupGuide", NoCluster)} :
        tabs = <<t>> /\ active = IdOf(t) /\ activeCluster = t.cluster
  BY DEF Init
<1>5. NoCluster \notin Clusters
  BY WorkspaceAssumption DEF NoCluster
<1>6. /\ t \in AllTabs /\ t.cluster \in DOMAIN store \cup {NoCluster}
      /\ t.cluster = NoCluster => t.kind = "SetupGuide"
  BY <1>2, <1>3, <1>5 DEF AllTabs, Tab, AppKinds
<1>7. tabs \in Seq(AllTabs) /\ tabs # <<>> /\ DOMAIN tabs = {1} /\ tabs[1] = t
  BY <1>4, <1>6
<1>8. StripInv
  <2>1. tabs \in Strip
    BY <1>6, <1>7 DEF Strip, Row, Distinct
  <2>2. active \in Ids(tabs)
    BY <1>4, <1>7, IdsFacts
  <2> QED
    BY <2>1, <2>2 DEF StripInv
<1> DEFINE a == Ask("load", "list", NoCluster, NoTab)
<1>9. a \in AskType /\ a.op = "load" /\ a.step = "list"
  BY EmptyList DEF Ask, AskType
<1>10. asks = {a} /\ configs = <<>> /\ editing = NoCluster
  BY DEF Init
<1> HIDE DEF a
<1>11. TypeInv
  <2>1. Asking(a)
    BY <1>9 DEF Asking, Stages
  <2>2. activeCluster \in Clusters \cup {NoCluster} /\ active \in TabIds
    BY <1>2, <1>3, <1>4, <1>6 DEF TabIds
  <2> QED
    BY <1>3, <1>10, <2>1, <2>2, EmptyList DEF TypeInv
<1>12. ConnectionInv
  <2>1. AnyReload(asks) /\ Listed = {}
    BY <1>9, <1>10, EmptyList DEF AnyReload, Reloading, Listed
  <2>2. activeCluster \in Known \cup {NoCluster}
    BY <1>4, <1>6 DEF Known
  <2>3. \A i \in DOMAIN tabs : tabs[i].cluster \in Known \cup {NoCluster}
    BY <1>6, <1>7 DEF Known
  <2> QED
    BY <2>1, <2>2, <2>3 DEF ConnectionInv
<1> QED
  BY <1>8, <1>11, <1>12 DEF WindowInv

(* Every action keeps the invariant.                                       *)
LEMMA WindowStep ==
    ASSUME WindowInv, [Next]_vars
    PROVE  WindowInv'
<1>1. CASE TabNext
  <2>1. ASSUME NEW i \in DOMAIN tabs, ActivateTab(i) \/ DetachTab(i) \/ CloseTab(IdOf(tabs[i]))
        PROVE  WindowInv'
    BY <2>1, ActivateTabKeeps, StartsKeep, CloseTabKeeps
  <2>2. ASSUME CloseTab(active) PROVE WindowInv'
    BY <2>2, CloseTabKeeps
  <2>3. ASSUME NEW from \in DOMAIN tabs, NEW to \in DOMAIN tabs, DragTab(from, to)
        PROVE  WindowInv'
    BY <2>3, DragTabKeeps
  <2>4. ASSUME NEW a \in asks, WindowOpens(a) \/ WindowFails(a)
        PROVE  WindowInv'
    BY <2>4, WindowOpensKeeps, FinishesKeep
  <2> QED
    BY <1>1, <2>1, <2>2, <2>3, <2>4, SidebarKeeps, SwitchKeeps, SetupEffectKeeps DEF TabNext
<1>2. CASE ConnectionNext
  <2>1. ASSUME NEW c \in Clusters,
               SelectCluster(c) \/ connectGui(c) \/ openClusterConfigEditor(c) \/ SyncUrls(c)
        PROVE  WindowInv'
    BY <2>1, SelectKeeps, StartsKeep
  <2>2. ASSUME CloseEditor \/ saveClusterConfigEditor \/ deleteClusterFromEditor
        PROVE  WindowInv'
    BY <2>2, SelectKeeps, StartsKeep
  <2>3. ASSUME NEW a \in asks,
               HostLists(a) \/ ListFails(a) \/ loadConnections(a) \/ HostSaves(a) \/ handleConnectGui(a)
        PROVE  WindowInv'
    BY <2>3, HostListsKeeps, ListFailsKeeps, LoadKeeps, HostSavesKeeps, ConnectKeeps
  <2>4. ASSUME NEW a \in asks,
               \/ ConnectFails(a) \/ PrefsSaved(a) \/ RequestFails(a)
               \/ HostDeletes(a) \/ ConnectionDropped(a) \/ handleDeleteClusterFromEditor(a)
               \/ HostMerges(a) \/ UrlsSynced(a)
        PROVE  WindowInv'
    BY <2>4, FinishesKeep, HostDeletesKeeps, DroppedKeeps, DeleteKeeps, HostMergesKeeps, UrlsSyncedKeeps
  <2> QED
    BY <1>2, <2>1, <2>2, <2>3, <2>4 DEF ConnectionNext
<1>3. CASE UNCHANGED vars
  <2>1. UNCHANGED <<store, configs, stale, activeCluster, editing, tabs, active, adrift, asks>>
    BY <1>3 DEF vars, conVars, tabVars
  <2> QED
    BY <2>1 DEF WindowInv, TypeInv, StripInv, ConnectionInv, Known, InStep, Listed
<1> QED
  BY <1>1, <1>2, <1>3 DEF Next

(* The inductive invariant holds in every reachable state of every window, *)
(* whatever the connections, the kinds of tab and the handlers at once.    *)
LEMMA WindowSound == Spec => []WindowInv
<1>1. Init => WindowInv
  BY InitialWindow
<1>2. WindowInv /\ [Next]_vars => WindowInv'
  BY WindowStep
<1> QED
  BY <1>1, <1>2, PTL DEF Spec

(* The strip is never empty, shows no tab twice and has its active tab     *)
(* open, however closing (useTabManager.closeTab), dragging, detaching,    *)
(* connecting and deleting overlap.                                        *)
THEOREM StripAlwaysSound == Spec => []StripSound
<1>1. WindowInv => StripSound
  BY StripFromInv
<1> QED
  BY <1>1, WindowSound, PTL

(* Once no handler of useClusterConnections waits, the connections shown   *)
(* are those of the files.                                                 *)
THEOREM ConnectionsAgree == Spec => []ConnectionsInStep
<1>1. WindowInv => ConnectionsInStep
  BY SettledFromInv DEF ConnectionsInStep
<1> QED
  BY <1>1, WindowSound, PTL

(* No tab outlives the deletion of its cluster                             *)
(* (handleDeleteClusterFromEditor).                                        *)
THEOREM TabsHaveClusters == Spec => []NoOrphanTab
<1>1. WindowInv => NoOrphanTab
  BY SettledFromInv DEF NoOrphanTab
<1> QED
  BY <1>1, WindowSound, PTL

(* A window that has lost its last connection can make a new one: the      *)
(* setup guide is one of its tabs.                                         *)
THEOREM SetupAlwaysReachable == Spec => []SetupReachable
<1>1. WindowInv => SetupReachable
  BY SetupFromInv
<1> QED
  BY <1>1, WindowSound, PTL
=============================================================================
