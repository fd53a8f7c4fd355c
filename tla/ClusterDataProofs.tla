-------------------------- MODULE ClusterDataProofs -------------------------
(***************************************************************************)
(* Proofs about ClusterData, for any page size, any log and any number of  *)
(* requests under way, connections and failures.                           *)
(***************************************************************************)
EXTENDS ClusterData, SequenceTheorems, WellFoundedInduction, TLAPS

-----------------------------------------------------------------------------
(* Sequences and numbers.                                                  *)

(* What is left of a sequence when one element is taken out: all the       *)
(* others, each once.                                                      *)
LEMMA RemoveAtFacts ==
    ASSUME NEW S, NEW s \in Seq(S), NEW i \in DOMAIN s, NEW r, r = RemoveAt(s, i)
    PROVE  /\ r \in Seq(S) /\ Len(s) \in Nat \ {0} /\ Len(r) = Len(s) - 1
           /\ \A j \in DOMAIN s : j # i => \E k \in DOMAIN r : r[k] = s[j]
           /\ \A k \in DOMAIN r : \E j \in DOMAIN s : j # i /\ r[k] = s[j]
           /\ \A k, l \in DOMAIN r :
                 k # l => \E j, m \in DOMAIN s : j # m /\ r[k] = s[j] /\ r[l] = s[m]
<1> DEFINE n == Len(s)
           a == SubSeq(s, 1, i - 1)
           b == SubSeq(s, i + 1, n)
<1>1. n \in Nat /\ DOMAIN s = 1 .. n /\ i \in 1 .. n /\ \A j \in 1 .. n : s[j] \in S
  BY LenProperties, ElementOfSeq
<1>2. a \in Seq(S) /\ Len(a) = i - 1 /\ \A j \in 1 .. i - 1 : a[j] = s[j]
  <2>1. \A j \in 1 .. i - 1 : s[j] \in S
    BY <1>1
  <2>2. /\ a \in Seq(S)
        /\ Len(a) = IF 1 <= i - 1 THEN (i - 1) - 1 + 1 ELSE 0
        /\ \A j \in 1 .. (i - 1) - 1 + 1 : a[j] = s[1 + j - 1]
    <3>1. 1 \in Int /\ i - 1 \in Int
      BY <1>1
    <3> QED
      BY <2>1, <3>1, SubSeqProperties
  <2> HIDE DEF a
  <2> QED
    BY <1>1, <2>2
<1>3. b \in Seq(S) /\ Len(b) = n - i /\ \A j \in 1 .. n - i : b[j] = s[i + j]
  <2>1. \A j \in i + 1 .. n : s[j] \in S
    BY <1>1
  <2>2. /\ b \in Seq(S)
        /\ Len(b) = IF i + 1 <= n THEN n - (i + 1) + 1 ELSE 0
        /\ \A j \in 1 .. n - (i + 1) + 1 : b[j] = s[(i + 1) + j - 1]
    <3>1. i + 1 \in Int /\ n \in Int
      BY <1>1
    <3> QED
      BY <2>1, <3>1, SubSeqProperties
  <2> HIDE DEF b, n
  <2>3. ASSUME NEW j \in 1 .. n - i PROVE b[j] = s[i + j]
    <3>1. j \in 1 .. n - (i + 1) + 1 /\ (i + 1) + j - 1 = i + j
      BY <1>1
    <3> QED
      BY <2>2, <3>1
  <2>4. Len(b) = n - i
    BY <1>1, <2>2
  <2> QED
    BY <2>2, <2>3, <2>4
<1>4. r = a \o b
  BY DEF RemoveAt
<1>5. /\ r \in Seq(S) /\ Len(r) = n - 1 /\ DOMAIN r = 1 .. n - 1
      /\ \A k \in 1 .. n - 1 : r[k] = IF k < i THEN s[k] ELSE s[k + 1]
  <2>1. /\ r \in Seq(S) /\ Len(r) = Len(a) + Len(b) /\ DOMAIN r = 1 .. Len(r)
        /\ \A k \in 1 .. Len(a) + Len(b) : r[k] = IF k <= Len(a) THEN a[k] ELSE b[k - Len(a)]
    <3> HIDE DEF a, b
    <3> QED
      BY <1>2, <1>3, <1>4, ConcatProperties, LenProperties
  <2>2. Len(r) = n - 1
    BY <1>1, <1>2, <1>3, <2>1
  <2>3. ASSUME NEW k \in 1 .. n - 1 PROVE r[k] = IF k < i THEN s[k] ELSE s[k + 1]
    <3> HIDE DEF a, b, n
    <3>1. CASE k < i
      BY <1>1, <1>2, <1>3, <2>1, <3>1
    <3>2. CASE ~(k < i)
      <4>1. r[k] = b[k - (i - 1)] /\ k - (i - 1) \in 1 .. n - i
        BY <1>1, <1>2, <1>3, <2>1, <3>2
      <4>2. i + (k - (i - 1)) = k + 1
        BY <1>1
      <4> QED
        BY <1>3, <3>2, <4>1, <4>2
    <3> QED
      BY <3>1, <3>2
  <2> QED
    BY <2>1, <2>2, <2>3
<1> HIDE DEF n
<1>6. ASSUME NEW j \in DOMAIN s, j # i PROVE \E k \in DOMAIN r : r[k] = s[j]
  <2>1. CASE j < i
    BY <1>1, <1>5, <2>1
  <2>2. CASE j > i
    <3>1. j - 1 \in 1 .. n - 1 /\ ~(j - 1 < i) /\ (j - 1) + 1 = j
      BY <1>1, <2>2
    <3> QED
      BY <1>5, <3>1
  <2> QED
    BY <1>1, <1>6, <2>1, <2>2
<1>7. ASSUME NEW k \in DOMAIN r PROVE \E j \in DOMAIN s : j # i /\ r[k] = s[j]
  <2>1. CASE k < i
    BY <1>1, <1>5, <2>1
  <2>2. CASE ~(k < i)
    <3>1. k + 1 \in DOMAIN s /\ k + 1 # i
      BY <1>1, <1>5, <2>2
    <3> QED
      BY <1>5, <2>2, <3>1
  <2> QED
    BY <2>1, <2>2
<1>8. ASSUME NEW k \in DOMAIN r, NEW l \in DOMAIN r, k # l
      PROVE  \E j, m \in DOMAIN s : j # m /\ r[k] = s[j] /\ r[l] = s[m]
  <2> DEFINE Old(p) == IF p < i THEN p ELSE p + 1
  <2>1. Old(k) \in 1 .. n /\ Old(l) \in 1 .. n /\ Old(k) # Old(l)
    BY <1>1, <1>5, <1>8
  <2>2. r[k] = s[Old(k)] /\ r[l] = s[Old(l)]
    BY <1>5
  <2> HIDE DEF Old
  <2> QED
    BY <1>1, <2>1, <2>2
<1>9. Len(s) = n /\ n # 0
  BY <1>1 DEF n
<1>10. /\ r \in Seq(S) /\ Len(s) \in Nat \ {0} /\ Len(r) = Len(s) - 1
  BY <1>1, <1>5, <1>9
<1> QED
  BY <1>6, <1>7, <1>8, <1>10

-----------------------------------------------------------------------------
(* The inductive invariant.                                                *)

\* A request under way.
Request == [what : {"initial", "older", "refresh", "snapshot"},
            before : 0 .. MaxLog, asof : 0 .. MaxLog, fresh : BOOLEAN]

\* It asks for events, not for the snapshot.
IsEvents(f) == f.what # "snapshot"

\* A set of numbers without a hole.
Convex(s) == \A a, b \in s : a .. b \subseteq s

\* useDataFetchIndicator counts the requests under way, and its flags remember
\* whether one of the last burst failed.
BarInv ==
    /\ indicator.count = Len(inflight)
    /\ indicator.fetching = (inflight # <<>>)
    /\ IF inflight # <<>> THEN indicator.hadError = failed
       ELSE ~indicator.hadError /\ indicator.error = failed

\* What waits, waits for a request under way.
WaitInv ==
    /\ Loading(events) \/ busy => \E i \in DOMAIN inflight : IsEvents(inflight[i])
    /\ snapLoading => \E i \in DOMAIN inflight : ~IsEvents(inflight[i])

\* A request f for events, made for the cache c as it is now.
Pending(f, c) ==
    /\ f.before = IF f.what = "older" THEN OldestSequence(c) ELSE None
    /\ Items(c) \subseteq 1 .. f.asof

\* A request that no reset has made outdated is the only one for events, holds
\* the lock of clusterEventLoadingRef, and was made for the cache as it still
\* is: that is what makes its answer fit.
PendingInv ==
    /\ \A i \in DOMAIN inflight : inflight[i].asof <= log
    /\ \A i \in DOMAIN inflight :
          IsEvents(inflight[i]) /\ inflight[i].fresh =>
             /\ busy
             /\ Pending(inflight[i], events)
             /\ \A j \in DOMAIN inflight : IsEvents(inflight[j]) => j = i

\* The cache holds events of the server only, and unless a torn answer was
\* merged it has no hole and ends where the log begins.
TimelineInv ==
    /\ Items(events) \subseteq 1 .. log
    /\ ~torn => /\ Convex(Items(events))
                /\ ~HasMore(events) /\ Items(events) # {} => 1 \in Items(events)

\* The inductive invariant.
ClusterInv == TypeOK /\ BarInv /\ WaitInv /\ PendingInv /\ TimelineInv

(* Every nonempty set of naturals has a least member.                      *)
LEMMA LeastNatural ==
    ASSUME NEW S \in SUBSET Nat, S # {}
    PROVE  \E m \in S : \A k \in S : m <= k
<1> DEFINE Smaller == {p \in Nat \X Nat : p[1] < p[2]}
<1>1. IsWellFoundedOn(Smaller, Nat)
  <2>1. Smaller = OpToRel(<, Nat)
    BY Zenon DEF OpToRel
  <2> QED
    BY <2>1, NatLessThanWellFounded, Zenon
<1> HIDE DEF Smaller
<1>2. \E m \in S : \A k \in S : ~(<<k, m>> \in Smaller)
  BY <1>1, WFMin, Zenon
<1>3. \A k, m \in Nat : <<k, m>> \notin Smaller => m <= k
  BY DEF Smaller
<1> QED
  BY <1>2, <1>3

(* The oldest of the cached events is one of them.                         *)
LEMMA MinOfItems ==
    ASSUME NEW S \in SUBSET (1 .. MaxLog), S # {}
    PROVE  Min(S) \in S /\ \A x \in S : Min(S) <= x
<1>1. \E m \in S : \A x \in S : m <= x
  <2>1. S \in SUBSET Nat
    BY ClusterDataAssumption
  <2> QED
    BY <2>1, LeastNatural
<1> QED
  BY <1>1 DEF Min

(* So is the newest.                                                       *)
LEMMA MaxOfItems ==
    ASSUME NEW S \in SUBSET (1 .. MaxLog), S # {}
    PROVE  Max(S) \in S /\ \A x \in S : Max(S) >= x
<1> DEFINE T == {MaxLog - x : x \in S}
<1>1. MaxLog \in Nat
  BY ClusterDataAssumption
<1>2. PICK m \in T : \A k \in T : m <= k
  <2>1. T \in SUBSET Nat
    <3>1. \A x \in S : MaxLog - x \in Nat
      BY <1>1
    <3> QED
      BY <3>1
  <2>2. T # {}
    OBVIOUS
  <2> HIDE DEF T
  <2> QED
    BY <2>1, <2>2, LeastNatural
<1>3. PICK x \in S : m = MaxLog - x
  OBVIOUS
<1>4. ASSUME NEW y \in S PROVE x >= y
  <2>1. m <= MaxLog - y
    BY <1>2
  <2> QED
    BY <1>1, <1>3, <2>1
<1> QED
  BY <1>4 DEF Max

-----------------------------------------------------------------------------
(* Caches and pages.                                                       *)

(* The fields of a cache, whether there is an entry or not.                *)
LEMMA CacheFields ==
    ASSUME NEW c \in CacheType
    PROVE  /\ Items(c) \in SUBSET (1 .. MaxLog) /\ HasMore(c) \in BOOLEAN /\ Loading(c) \in BOOLEAN
           /\ c.cached \in BOOLEAN
           /\ c.cached => Items(c) = c.items /\ HasMore(c) = c.hasMore /\ Loading(c) = c.loading
           /\ ~c.cached => Items(c) = {} /\ HasMore(c) /\ ~Loading(c)
<1>1. CASE c = NoCache
  BY <1>1 DEF NoCache, Items, HasMore, Loading
<1>2. CASE c \in [cached : {TRUE}, hasMore : BOOLEAN, items : SUBSET (1 .. MaxLog), loading : BOOLEAN]
  BY <1>2 DEF Items, HasMore, Loading
<1> QED
  BY <1>1, <1>2 DEF CacheType

(* A cache entry has the fields it was made with.                          *)
LEMMA CacheOf ==
    ASSUME NEW h \in BOOLEAN, NEW s \in SUBSET (1 .. MaxLog), NEW l \in BOOLEAN
    PROVE  LET c == Cache(h, s, l)
           IN  /\ c \in CacheType /\ Items(c) = s /\ HasMore(c) = h /\ Loading(c) = l
               /\ c.cached
BY DEF Cache, CacheType, Items, HasMore, Loading

(* No entry stands for an empty timeline that may have more.               *)
LEMMA NoCacheOf ==
    NoCache \in CacheType /\ Items(NoCache) = {} /\ HasMore(NoCache) /\ ~Loading(NoCache)
BY DEF CacheType, NoCache, Items, HasMore, Loading

(* The lesser of two numbers.                                              *)
LEMMA MinOfTwo ==
    ASSUME NEW x \in Nat, NEW y \in Nat
    PROVE  Min({x, y}) = IF x <= y THEN x ELSE y
BY DEF Min

(* A page of the server ends with the newest event asked for, and is as    *)
(* long as a page can be unless it reaches the first event.                *)
LEMMA PageFacts ==
    ASSUME NEW n \in Nat, NEW before \in Nat
    PROVE  \E start, end \in Nat :
              /\ start <= end
              /\ end = IF before = None \/ n <= before - 1 THEN n ELSE before - 1
              /\ Page(n, before) = [items |-> (start + 1) .. end, has_more |-> start > 0]
              /\ start > 0 => end - start = PageSize
<1> DEFINE end == IF before = None THEN n ELSE Min({n, before - 1})
           start == IF end > PageSize THEN end - PageSize ELSE 0
<1>1. PageSize \in Nat \ {0}
  BY ClusterDataAssumption
<1>2. end \in Nat /\ end = IF before = None \/ n <= before - 1 THEN n ELSE before - 1
  <2>1. CASE before = None
    BY <2>1
  <2>2. CASE before # None
    <3>1. before - 1 \in Nat
      BY <2>2 DEF None
    <3> QED
      BY <2>2, <3>1, MinOfTwo
  <2> QED
    BY <2>1, <2>2
<1>3. Page(n, before) = [items |-> (start + 1) .. end, has_more |-> start > 0]
  BY DEF Page
<1> HIDE DEF end
<1>4. start \in Nat /\ start <= end /\ (start > 0 => end - start = PageSize)
  BY <1>1, <1>2
<1> HIDE DEF start
<1> QED
  BY <1>2, <1>3, <1>4

-----------------------------------------------------------------------------
(* Requests and the indicator.                                             *)

\* The state of useDataFetchIndicator.
Indicator == [count : Nat, hadError : BOOLEAN, fetching : BOOLEAN, error : BOOLEAN]

(* The requests under way, as a sequence.                                  *)
LEMMA InflightTyped ==
    ASSUME TypeOK
    PROVE  /\ inflight \in Seq(Request) /\ Len(inflight) \in Nat
           /\ DOMAIN inflight = 1 .. Len(inflight)
           /\ \A i \in DOMAIN inflight : inflight[i] \in Request
           /\ inflight = <<>> <=> Len(inflight) = 0
<1>1. inflight \in Seq(Request)
  BY DEF TypeOK, Request
<1> QED
  BY <1>1, LenProperties, EmptySeq, ElementOfSeq

(* One more request.                                                       *)
LEMMA Asked ==
    ASSUME TypeOK, NEW r \in Request, inflight' = Append(inflight, r)
    PROVE  /\ inflight' \in Seq(Request) /\ Len(inflight') = Len(inflight) + 1 /\ inflight' # <<>>
           /\ DOMAIN inflight' = 1 .. Len(inflight) + 1
           /\ \A i \in DOMAIN inflight : i \in DOMAIN inflight' /\ inflight'[i] = inflight[i]
           /\ inflight'[Len(inflight) + 1] = r
           /\ \A i \in DOMAIN inflight' : i \in DOMAIN inflight \/ i = Len(inflight) + 1
BY InflightTyped

(* One request less.                                                       *)
LEMMA Answered ==
    ASSUME TypeOK, NEW i \in DOMAIN inflight, inflight' = RemoveAt(inflight, i)
    PROVE  /\ inflight' \in Seq(Request) /\ Len(inflight') = Len(inflight) - 1
           /\ Len(inflight') \in Nat /\ inflight # <<>>
           /\ inflight' = <<>> <=> Len(inflight') = 0
           /\ \A j \in DOMAIN inflight :
                 j # i => \E k \in DOMAIN inflight' : inflight'[k] = inflight[j]
           /\ \A k \in DOMAIN inflight' :
                 \E j \in DOMAIN inflight : j # i /\ inflight'[k] = inflight[j]
           /\ \A k, l \in DOMAIN inflight' : k # l =>
                 \E j, m \in DOMAIN inflight :
                    j # m /\ inflight'[k] = inflight[j] /\ inflight'[l] = inflight[m]
<1>1. inflight \in Seq(Request) /\ Len(inflight) \in Nat /\ (inflight = <<>> <=> Len(inflight) = 0)
  BY InflightTyped
<1>2. /\ inflight' \in Seq(Request) /\ Len(inflight) \in Nat \ {0}
      /\ Len(inflight') = Len(inflight) - 1
      /\ \A j \in DOMAIN inflight : j # i => \E k \in DOMAIN inflight' : inflight'[k] = inflight[j]
      /\ \A k \in DOMAIN inflight' : \E j \in DOMAIN inflight : j # i /\ inflight'[k] = inflight[j]
      /\ \A k, l \in DOMAIN inflight' : k # l =>
            \E j, m \in DOMAIN inflight :
               j # m /\ inflight'[k] = inflight[j] /\ inflight'[l] = inflight[m]
  BY <1>1, RemoveAtFacts
<1>3. inflight' = <<>> <=> Len(inflight') = 0
  BY <1>2, EmptySeq
<1> QED
  BY <1>1, <1>2, <1>3

(* beginDataFetch keeps the indicator honest.                              *)
LEMMA AskedBar ==
    ASSUME TypeOK, BarInv, NEW r \in Request, inflight' = Append(inflight, r),
           indicator' = beginDataFetch(indicator), failed' = (failed /\ inflight # <<>>)
    PROVE  indicator' \in Indicator /\ failed' \in BOOLEAN /\ BarInv'
<1>1. indicator \in Indicator /\ failed \in BOOLEAN
  BY DEF TypeOK, Indicator
<1>2. Len(inflight) \in Nat /\ Len(inflight') = Len(inflight) + 1 /\ inflight' # <<>>
  BY InflightTyped, Asked
<1>3. /\ indicator' \in Indicator /\ indicator'.count = indicator.count + 1 /\ indicator'.fetching = TRUE
      /\ indicator'.hadError = indicator.hadError
  <2>1. \A c \in Nat, b \in BOOLEAN :
          [indicator EXCEPT !.count = c, !.fetching = b] \in Indicator
    BY <1>1 DEF Indicator
  <2>2. indicator.count + 1 \in Nat
    BY <1>1 DEF Indicator
  <2>3. indicator' \in Indicator
    BY <2>1, <2>2 DEF beginDataFetch
  <2> QED
    BY <1>1, <2>3 DEF beginDataFetch, Indicator
<1>4. failed' \in BOOLEAN /\ indicator'.hadError = failed'
  BY <1>1, <1>3 DEF BarInv, Indicator
<1> QED
  BY <1>2, <1>3, <1>4 DEF BarInv

(* endDataFetch does, after a failure too.                                 *)
LEMMA AnsweredBar ==
    ASSUME TypeOK, BarInv, NEW i \in DOMAIN inflight, inflight' = RemoveAt(inflight, i),
           \/ indicator' = endDataFetch(indicator) /\ failed' = failed
           \/ indicator' = endDataFetch(markDataFetchError(indicator)) /\ failed' = TRUE
    PROVE  indicator' \in Indicator /\ failed' \in BOOLEAN /\ BarInv'
<1>1. indicator \in Indicator /\ failed \in BOOLEAN
  BY DEF TypeOK, Indicator
<1>2. /\ Len(inflight) \in Nat /\ Len(inflight') = Len(inflight) - 1 /\ Len(inflight') \in Nat
      /\ inflight # <<>> /\ (inflight' = <<>> <=> Len(inflight') = 0)
  BY InflightTyped, Answered
<1>3. PICK x \in Indicator : /\ x.count = Len(inflight) /\ x.fetching = TRUE /\ x.hadError = failed'
                             /\ indicator' = endDataFetch(x)
  <2>1. CASE indicator' = endDataFetch(indicator) /\ failed' = failed
    BY <1>1, <1>2, <2>1 DEF BarInv
  <2>2. CASE indicator' = endDataFetch(markDataFetchError(indicator)) /\ failed' = TRUE
    <3> DEFINE y == markDataFetchError(indicator)
    <3>1. y \in Indicator /\ y.count = indicator.count /\ y.fetching = indicator.fetching /\ y.hadError = TRUE
      BY <1>1 DEF markDataFetchError, Indicator
    <3> HIDE DEF y
    <3> QED
      BY <1>2, <2>2, <3>1 DEF BarInv, y
  <2> QED
    BY <2>1, <2>2
<1>4. x.count # 0 /\ x.count - 1 = Len(inflight')
  BY <1>2, <1>3
<1>5. CASE Len(inflight') # 0
  <2>1. indicator' = [x EXCEPT !.count = Len(inflight')]
    BY <1>2, <1>3, <1>4, <1>5 DEF endDataFetch
  <2> QED
    BY <1>1, <1>2, <1>3, <1>5, <2>1 DEF BarInv, Indicator
<1>6. CASE Len(inflight') = 0
  <2>1. indicator' = [count |-> 0, hadError |-> FALSE, fetching |-> FALSE, error |-> x.hadError]
    BY <1>2, <1>3, <1>4, <1>6 DEF endDataFetch
  <2>2. failed' \in BOOLEAN
    BY <1>1
  <2>3. /\ indicator'.count = 0 /\ indicator'.fetching = FALSE /\ indicator'.hadError = FALSE
        /\ indicator'.error = failed'
    BY <1>3, <2>1
  <2>4. indicator' \in Indicator
    BY <1>3, <2>1, <2>2 DEF Indicator
  <2>5. inflight' = <<>>
    BY <1>2, <1>6
  <2> QED
    BY <1>6, <2>2, <2>3, <2>4, <2>5 DEF BarInv
<1> QED
  BY <1>5, <1>6

-----------------------------------------------------------------------------
(* Asking for events.                                                      *)

(* What the type invariant says of the cache and the log.                  *)
LEMMA StateTyped ==
    ASSUME TypeOK
    PROVE  /\ log \in Nat /\ log <= MaxLog /\ MaxLog \in Nat
           /\ events \in CacheType /\ ref \in CacheType
           /\ Items(events) \in SUBSET (1 .. MaxLog) /\ HasMore(events) \in BOOLEAN
           /\ Loading(events) \in BOOLEAN
           /\ ~events.cached => Items(events) = {} /\ HasMore(events)
           /\ indicator \in Indicator
BY ClusterDataAssumption, CacheFields DEF TypeOK, Indicator

(* The oldest sequence is that of an event, or none.                       *)
LEMMA OldestTyped ==
    ASSUME NEW c \in CacheType, MaxLog \in Nat
    PROVE  OldestSequence(c) \in 0 .. MaxLog
<1>1. Items(c) \in SUBSET (1 .. MaxLog)
  BY CacheFields
<1>2. CASE Items(c) = {}
  BY <1>2 DEF OldestSequence, None
<1>3. CASE Items(c) # {}
  BY <1>1, <1>3, MinOfItems DEF OldestSequence
<1> QED
  BY <1>2, <1>3

(* fetchEventPageForCluster up to its await: the request it adds belongs   *)
(* to the cache as it is.                                                  *)
LEMMA FetchKeeps ==
    ASSUME ClusterInv, NEW mode \in {"initial", "older", "refresh"}, fetchEventPage(mode)
    PROVE  ClusterInv'
<1> DEFINE r == Events(mode, IF mode = "older" THEN OldestSequence(ref) ELSE None,
                       /\ mode # "older" \/ ref = events
                       /\ \A i \in DOMAIN inflight : inflight[i].what = "snapshot")
           next == Cache(HasMore(events), Items(events), TRUE)
<1>1. /\ ~busy /\ busy' = TRUE /\ inflight' = Append(inflight, r)
      /\ indicator' = beginDataFetch(indicator) /\ failed' = (failed /\ inflight # <<>>)
      /\ events' = next /\ ref' = next
      /\ UNCHANGED <<log, stored, view, snapshot, snapLoading, snapError, edits, fails, torn, clearing>>
  BY DEF fetchEventPage, CanFetchEvents
<1>2. r \in Request /\ r.what = mode /\ r.asof = log
      /\ r.before = (IF mode = "older" THEN OldestSequence(ref) ELSE None)
      /\ r.fresh = (/\ mode # "older" \/ ref = events
                    /\ \A i \in DOMAIN inflight : inflight[i].what = "snapshot")
  <2>1. OldestSequence(ref) \in 0 .. MaxLog /\ log \in 0 .. MaxLog /\ None \in 0 .. MaxLog
    BY StateTyped, OldestTyped DEF ClusterInv, None
  <2> QED
    BY <2>1 DEF Events, Request
<1>3. /\ next \in CacheType /\ Items(next) = Items(events) /\ HasMore(next) = HasMore(events)
      /\ Loading(next) = TRUE /\ OldestSequence(next) = OldestSequence(events)
  BY StateTyped, CacheOf DEF ClusterInv, OldestSequence
<1> HIDE DEF r, next
<1>4. /\ inflight' \in Seq(Request) /\ indicator' \in Indicator /\ failed' \in BOOLEAN /\ BarInv'
  BY <1>1, <1>2, AskedBar, Asked DEF ClusterInv
<1>5. TypeOK'
  BY <1>1, <1>3, <1>4 DEF ClusterInv, TypeOK, Request, Indicator
<1>6. /\ \A i \in DOMAIN inflight : i \in DOMAIN inflight' /\ inflight'[i] = inflight[i]
      /\ Len(inflight) + 1 \in DOMAIN inflight' /\ inflight'[Len(inflight) + 1] = r
      /\ \A i \in DOMAIN inflight' : i \in DOMAIN inflight \/ i = Len(inflight) + 1
  BY <1>1, <1>2, InflightTyped, Asked DEF ClusterInv
<1>7. WaitInv'
  BY <1>1, <1>2, <1>6 DEF ClusterInv, WaitInv, IsEvents
<1>8. PendingInv'
  <2>1. ASSUME NEW i \in DOMAIN inflight' PROVE inflight'[i].asof <= log'
    BY <1>1, <1>2, <1>6, StateTyped DEF ClusterInv, PendingInv
  <2>2. ASSUME NEW i \in DOMAIN inflight', IsEvents(inflight'[i]), inflight'[i].fresh
        PROVE  /\ busy'
               /\ Pending(inflight'[i], events')
               /\ \A j \in DOMAIN inflight' : IsEvents(inflight'[j]) => j = i
    <3>1. i = Len(inflight) + 1 /\ inflight'[i] = r
      BY <1>1, <1>6, <2>2 DEF ClusterInv, PendingInv
    <3>2. /\ \A j \in DOMAIN inflight : ~IsEvents(inflight[j])
          /\ r.before = IF mode = "older" THEN OldestSequence(events) ELSE None
      BY <1>2, <2>2, <3>1 DEF IsEvents
    <3>3. Pending(r, events')
      BY <1>1, <1>2, <1>3, <3>2 DEF Pending, ClusterInv, TimelineInv
    <3> QED
      BY <1>1, <1>6, <3>1, <3>2, <3>3
  <2> QED
    BY <2>1, <2>2 DEF PendingInv
<1>9. TimelineInv'
  BY <1>1, <1>3 DEF ClusterInv, TimelineInv
<1> QED
  BY <1>4, <1>5, <1>7, <1>8, <1>9 DEF ClusterInv

-----------------------------------------------------------------------------
(* Merging an answer.                                                      *)

\* A timeline without a hole that says it has no more only where the log
\* begins.
Whole(c) ==
    /\ Convex(Items(c))
    /\ ~HasMore(c) /\ Items(c) # {} => 1 \in Items(c)

(* Intervals have no hole, nor has a set extended by what is next to it.   *)
LEMMA ConvexFacts ==
    /\ \A m, n \in Nat : Convex((m + 1) .. n)
    /\ \A S \in SUBSET Nat, m, n \in Nat :
          /\ Convex(S) /\ m + 1 \in S /\ (\A x \in S : m + 1 <= x)
             => \A k \in Nat : Convex(S \cup (k + 1) .. m)
          /\ Convex(S) /\ (\E x \in S : m <= x) /\ (\A x \in S : x <= n)
             => Convex(S \cup (m + 1) .. n)
<1>1. \A m, n \in Nat : Convex((m + 1) .. n)
  BY DEF Convex
<1>2. ASSUME NEW S \in SUBSET Nat, NEW m \in Nat, NEW k \in Nat,
             Convex(S), m + 1 \in S, \A x \in S : m + 1 <= x
      PROVE  Convex(S \cup (k + 1) .. m)
  <2> SUFFICES ASSUME NEW a \in S \cup (k + 1) .. m, NEW b \in S \cup (k + 1) .. m, NEW x \in a .. b
               PROVE  x \in S \cup (k + 1) .. m
    BY DEF Convex
  <2>1. x \in Int /\ a <= x /\ x <= b /\ a \in Nat /\ b \in Nat
    OBVIOUS
  <2>2. CASE x <= m
    <3>1. a \in (k + 1) .. m
      BY <1>2, <2>1, <2>2
    <3> QED
      BY <2>1, <2>2, <3>1
  <2>3. CASE x > m
    <3>1. b \in S
      BY <1>2, <2>1, <2>3
    <3>2. x \in m + 1 .. b
      BY <2>1, <2>3, <3>1
    <3> QED
      BY <1>2, <3>1, <3>2 DEF Convex
  <2> QED
    BY <2>1, <2>2, <2>3
<1>3. ASSUME NEW S \in SUBSET Nat, NEW m \in Nat, NEW n \in Nat,
             Convex(S), NEW y \in S, m <= y, \A x \in S : x <= n
      PROVE  Convex(S \cup (m + 1) .. n)
  <2> SUFFICES ASSUME NEW a \in S \cup (m + 1) .. n, NEW b \in S \cup (m + 1) .. n, NEW x \in a .. b
               PROVE  x \in S \cup (m + 1) .. n
    BY DEF Convex
  <2>1. x \in Int /\ a <= x /\ x <= b /\ a \in Nat /\ b \in Nat /\ b <= n
    BY <1>3
  <2>2. CASE x > m
    BY <2>1, <2>2
  <2>3. CASE x <= m
    <3>1. a \in S
      BY <2>1, <2>3
    <3>2. x \in a .. y
      BY <1>3, <2>1, <2>3
    <3> QED
      BY <1>3, <3>1, <3>2 DEF Convex
  <2> QED
    BY <2>1, <2>2, <2>3
<1> QED
  BY <1>1, <1>2, <1>3

(* The merge of a page, whatever it was asked for.                         *)
LEMMA MergeTyped ==
    ASSUME MaxLog \in Nat, NEW c \in CacheType, NEW n \in Nat, n <= MaxLog,
           NEW before \in Nat, NEW mode
    PROVE  LET next == Merge(mode, c, Page(n, before))
           IN  /\ next \in CacheType /\ ~Loading(next)
               /\ Items(next) = Items(c) \cup Page(n, before).items
               /\ HasMore(next) = IF mode = "older" \/ Items(c) = {}
                                  THEN Page(n, before).has_more ELSE HasMore(c)
               /\ Page(n, before).items \subseteq 1 .. n
<1> DEFINE page == Page(n, before)
           next == Merge(mode, c, page)
<1>1. page.items \in SUBSET (1 .. n) /\ page.has_more \in BOOLEAN
  <2>1. PICK start \in Nat, end \in Nat :
          /\ start <= end
          /\ end = IF before = None \/ n <= before - 1 THEN n ELSE before - 1
          /\ page = [items |-> (start + 1) .. end, has_more |-> start > 0]
          /\ start > 0 => end - start = PageSize
    BY PageFacts
  <2>2. end <= n
    BY <2>1
  <2> QED
    BY <2>1, <2>2
<1>2. /\ Items(c) \in SUBSET (1 .. MaxLog) /\ HasMore(c) \in BOOLEAN
  BY CacheFields
<1> HIDE DEF page
<1>3. /\ Items(c) \cup page.items \in SUBSET (1 .. MaxLog)
      /\ (IF mode = "older" \/ Items(c) = {} THEN page.has_more ELSE HasMore(c)) \in BOOLEAN
  BY <1>1, <1>2
<1>4. /\ next \in CacheType /\ ~Loading(next)
      /\ Items(next) = Items(c) \cup page.items
      /\ HasMore(next) = IF mode = "older" \/ Items(c) = {} THEN page.has_more ELSE HasMore(c)
  BY <1>3, CacheOf DEF Merge
<1> QED
  BY <1>1, <1>4 DEF page

(* A page that was asked for with the cache as it is joins up with it: an  *)
(* older page ends right before the oldest event, and a refresh that the   *)
(* log has not outrun reaches the newest.                                  *)
LEMMA MergeWhole ==
    ASSUME MaxLog \in Nat, NEW c \in CacheType, NEW n \in Nat, n <= MaxLog,
           NEW f \in Request, IsEvents(f), Pending(f, c), f.asof <= n, Whole(c),
           f.what # "older" /\ Items(c) # {} => n - Max(Items(c)) <= PageSize
    PROVE  Whole(Merge(f.what, c, Page(n, f.before)))
<1> DEFINE S == Items(c)
           page == Page(n, f.before)
           next == Merge(f.what, c, page)
<1>1. S \in SUBSET (1 .. MaxLog) /\ S \in SUBSET (1 .. n) /\ f.before \in Nat
  BY CacheFields DEF Pending, Request
<1>2. PICK start \in Nat, end \in Nat :
        /\ start <= end
        /\ end = IF f.before = None \/ n <= f.before - 1 THEN n ELSE f.before - 1
        /\ page = [items |-> (start + 1) .. end, has_more |-> start > 0]
        /\ start > 0 => end - start = PageSize
  BY <1>1, PageFacts
<1>3. /\ Items(next) = S \cup (start + 1) .. end
      /\ f.what = "older" \/ S = {} => (HasMore(next) <=> start > 0)
      /\ f.what # "older" /\ S # {} => HasMore(next) = HasMore(c)
  <2>1. /\ Items(next) = S \cup page.items
        /\ HasMore(next) = IF f.what = "older" \/ S = {} THEN page.has_more ELSE HasMore(c)
    BY <1>1, MergeTyped
  <2>2. page.items = (start + 1) .. end /\ (page.has_more <=> start > 0)
    <3> HIDE DEF page
    <3> QED
      BY <1>2
  <2> HIDE DEF page, next, S
  <2> QED
    BY <2>1, <2>2
<1> SUFFICES Whole(next)
  OBVIOUS
<1> HIDE DEF next, page
<1>4. CASE S = {}
  <2>1. f.before = None /\ end = n /\ (HasMore(next) <=> start > 0)
    BY <1>2, <1>3, <1>4 DEF Pending, OldestSequence
  <2>2. Items(next) = (start + 1) .. end
    BY <1>3, <1>4
  <2> QED
    BY <2>1, <2>2, ConvexFacts DEF Whole
<1>5. CASE S # {} /\ f.what = "older"
  <2>1. /\ f.before = Min(S) /\ Min(S) \in S /\ \A x \in S : Min(S) <= x
        /\ Min(S) \in 1 .. n
    BY <1>1, <1>5, MinOfItems DEF Pending, OldestSequence
  <2>2. end = f.before - 1 /\ end + 1 = f.before
    BY <1>2, <2>1 DEF None
  <2> HIDE DEF S
  <2>3. Convex(Items(next))
    <3>1. Convex(S) /\ S \in SUBSET Nat
      BY <1>1 DEF Whole, S
    <3> QED
      BY <1>2, <1>3, <2>1, <2>2, <3>1, ConvexFacts
  <2>4. ~HasMore(next) => 1 \in Items(next)
    <3> SUFFICES ASSUME ~HasMore(next) PROVE 1 \in Items(next)
      OBVIOUS
    <3>1. start = 0
      BY <1>2, <1>3, <1>5
    <3>2. CASE Min(S) = 1
      BY <1>3, <2>1, <3>2
    <3>3. CASE Min(S) # 1
      BY <1>3, <2>1, <2>2, <3>1, <3>3
    <3> QED
      BY <3>2, <3>3
  <2> QED
    BY <2>3, <2>4 DEF Whole
<1>6. CASE S # {} /\ f.what # "older"
  <2>1. Max(S) \in S /\ (\A x \in S : Max(S) >= x) /\ n - Max(S) <= PageSize
    BY <1>1, <1>6, MaxOfItems
  <2>2. end = n
    BY <1>2, <1>6 DEF Pending
  <2>3. start <= Max(S)
    <3>1. PageSize \in Nat /\ Max(S) \in 1 .. n
      BY <1>1, <2>1, ClusterDataAssumption
    <3> QED
      BY <1>2, <2>1, <2>2, <3>1
  <2>4. Convex(Items(next))
    <3>1. Convex(S) /\ S \in SUBSET Nat /\ \A x \in S : x <= n
      BY <1>1 DEF Whole
    <3> HIDE DEF S
    <3> QED
      BY <1>2, <1>3, <2>1, <2>2, <2>3, <3>1, ConvexFacts
  <2>5. ~HasMore(next) => 1 \in Items(next)
    BY <1>3, <1>6 DEF Whole
  <2> QED
    BY <2>4, <2>5 DEF Whole
<1> QED
  BY <1>4, <1>5, <1>6

-----------------------------------------------------------------------------
(* Answers and failures.                                                   *)

(* When a request for events is answered, none that is still under way was *)
(* made for the cache.                                                     *)
LEMMA RestPending ==
    ASSUME TypeOK, PendingInv, NEW i \in DOMAIN inflight, IsEvents(inflight[i]),
           inflight' = RemoveAt(inflight, i), log' = log
    PROVE  PendingInv'
<1>1. \A k \in DOMAIN inflight' : \E j \in DOMAIN inflight : j # i /\ inflight'[k] = inflight[j]
  BY Answered
<1>2. ASSUME NEW k \in DOMAIN inflight', IsEvents(inflight'[k]), inflight'[k].fresh PROVE FALSE
  BY <1>1, <1>2 DEF PendingInv
<1>3. \A k \in DOMAIN inflight' : inflight'[k].asof <= log'
  BY <1>1 DEF PendingInv
<1> QED
  BY <1>2, <1>3 DEF PendingInv

(* And nothing waits for it any more.                                      *)
LEMMA RestWaiting ==
    ASSUME TypeOK, WaitInv, NEW i \in DOMAIN inflight, IsEvents(inflight[i]),
           inflight' = RemoveAt(inflight, i),
           ~Loading(events'), busy' = FALSE, snapLoading' = snapLoading
    PROVE  WaitInv'
<1>1. \A j \in DOMAIN inflight : j # i => \E k \in DOMAIN inflight' : inflight'[k] = inflight[j]
  BY Answered
<1> QED
  BY <1>1 DEF WaitInv

(* The answer to a request for events, whichever arrives first.            *)
LEMMA ArrivalKeeps ==
    ASSUME ClusterInv, NEW i \in DOMAIN inflight, EventPageArrives(i)
    PROVE  ClusterInv'
<1> DEFINE f == inflight[i]
<1>1. PICK n \in f.asof .. log :
        /\ events' = Merge(f.what, events, Page(n, f.before)) /\ ref' = events'
        /\ torn' = (torn \/ ~f.fresh \/ Outrun(f.what, n))
  BY DEF EventPageArrives
<1>2. /\ IsEvents(f) /\ busy' = FALSE /\ inflight' = RemoveAt(inflight, i)
      /\ indicator' = endDataFetch(indicator)
      /\ UNCHANGED <<log, stored, view, snapshot, snapLoading, snapError, edits, fails, failed, clearing>>
  BY DEF EventPageArrives, IsEvents
<1>3. f \in Request /\ f.asof \in Nat /\ f.before \in Nat /\ f.fresh \in BOOLEAN
  BY InflightTyped DEF ClusterInv, Request
<1> HIDE DEF f
<1>4. /\ n \in Nat /\ n <= log /\ n <= MaxLog /\ MaxLog \in Nat /\ f.asof <= n /\ log \in Nat
      /\ events \in CacheType /\ torn \in BOOLEAN
  BY <1>1, <1>3, StateTyped DEF ClusterInv, TypeOK
<1>5. /\ events' \in CacheType /\ ~Loading(events')
      /\ Items(events') = Items(events) \cup Page(n, f.before).items
      /\ Page(n, f.before).items \subseteq 1 .. n
  BY <1>1, <1>3, <1>4, MergeTyped
<1>6. BarInv' /\ inflight' \in Seq(Request) /\ indicator' \in Indicator /\ failed' \in BOOLEAN
  BY <1>2, AnsweredBar, Answered DEF ClusterInv
<1>7. TypeOK'
  <2>1. torn' \in BOOLEAN
    BY <1>1
  <2> QED
    BY <1>1, <1>2, <1>5, <1>6, <2>1 DEF ClusterInv, TypeOK, Request, Indicator
<1>8. WaitInv'
  BY <1>2, <1>5, RestWaiting DEF ClusterInv, f
<1>9. PendingInv'
  BY <1>2, RestPending DEF ClusterInv, f
<1>10. TimelineInv'
  <2>1. Items(events') \subseteq 1 .. log'
    BY <1>2, <1>4, <1>5 DEF ClusterInv, TimelineInv
  <2>2. ASSUME ~torn' PROVE Whole(events')
    <3>1. ~torn /\ f.fresh /\ ~Outrun(f.what, n)
      BY <1>1, <1>3, <1>4, <2>2
    <3>2. Whole(events) /\ Pending(f, events)
      BY <1>2, <3>1 DEF ClusterInv, TimelineInv, PendingInv, Whole, f
    <3>3. f.what # "older" /\ Items(events) # {} => n - Max(Items(events)) <= PageSize
      <4>1. ASSUME Items(events) # {} PROVE n - Max(Items(events)) \in Int /\ PageSize \in Int
        BY <1>4, <4>1, MaxOfItems, CacheFields, ClusterDataAssumption
      <4> QED
        BY <3>1, <4>1 DEF Outrun
    <3> QED
      BY <1>1, <1>2, <1>3, <1>4, <3>2, <3>3, MergeWhole
  <2> QED
    BY <2>1, <2>2 DEF TimelineInv, Whole
<1> QED
  BY <1>6, <1>7, <1>8, <1>9, <1>10 DEF ClusterInv

(* Its failure.                                                            *)
LEMMA FailureKeeps ==
    ASSUME ClusterInv, NEW i \in DOMAIN inflight, EventPageFails(i)
    PROVE  ClusterInv'
<1>1. /\ IsEvents(inflight[i]) /\ busy' = FALSE /\ inflight' = RemoveAt(inflight, i)
      /\ events' = FailedPage(events) /\ ref' = events'
      /\ indicator' = endDataFetch(markDataFetchError(indicator)) /\ failed' = TRUE
      /\ UNCHANGED <<log, stored, view, snapshot, snapLoading, snapError, edits, torn, clearing>>
  BY DEF EventPageFails, IsEvents
<1>2. /\ events' \in CacheType /\ ~Loading(events')
      /\ Items(events') = Items(events) /\ HasMore(events') = HasMore(events)
  BY <1>1, StateTyped, CacheOf DEF ClusterInv, FailedPage
<1>3. BarInv' /\ inflight' \in Seq(Request) /\ indicator' \in Indicator /\ failed' \in BOOLEAN
  BY <1>1, AnsweredBar, Answered DEF ClusterInv
<1>4. TypeOK'
  BY <1>1, <1>2, <1>3 DEF ClusterInv, TypeOK, Request, Indicator
<1>5. WaitInv' /\ PendingInv'
  BY <1>1, <1>2, RestWaiting, RestPending DEF ClusterInv
<1>6. TimelineInv'
  BY <1>1, <1>2 DEF ClusterInv, TimelineInv
<1> QED
  BY <1>3, <1>4, <1>5, <1>6 DEF ClusterInv

(* fetchSnapshotForCluster up to its await.                                *)
LEMMA SnapshotKeeps ==
    ASSUME ClusterInv, fetchSnapshot
    PROVE  ClusterInv'
<1> DEFINE r == [what |-> "snapshot", before |-> None, asof |-> 0, fresh |-> TRUE]
<1>1. /\ inflight' = Append(inflight, r) /\ snapLoading' = TRUE /\ snapError' = FALSE
      /\ indicator' = beginDataFetch(indicator) /\ failed' = (failed /\ inflight # <<>>)
      /\ UNCHANGED <<log, stored, view, events, ref, busy, snapshot, edits, fails, torn, clearing>>
  BY DEF fetchSnapshot
<1>2. r \in Request /\ ~IsEvents(r) /\ r.asof = 0
  BY StateTyped DEF ClusterInv, Request, IsEvents, None
<1> HIDE DEF r
<1>3. BarInv' /\ inflight' \in Seq(Request) /\ indicator' \in Indicator /\ failed' \in BOOLEAN
  BY <1>1, <1>2, AskedBar, Asked DEF ClusterInv
<1>4. /\ \A i \in DOMAIN inflight : i \in DOMAIN inflight' /\ inflight'[i] = inflight[i]
      /\ Len(inflight) + 1 \in DOMAIN inflight' /\ inflight'[Len(inflight) + 1] = r
      /\ \A i \in DOMAIN inflight' : i \in DOMAIN inflight \/ i = Len(inflight) + 1
  BY <1>1, <1>2, InflightTyped, Asked DEF ClusterInv
<1>5. TypeOK'
  BY <1>1, <1>3 DEF ClusterInv, TypeOK, Request, Indicator
<1>6. WaitInv'
  BY <1>1, <1>2, <1>4 DEF ClusterInv, WaitInv
<1>7. PendingInv'
  <2>1. \A i \in DOMAIN inflight' : inflight'[i].asof <= log'
    BY <1>1, <1>2, <1>4, StateTyped DEF ClusterInv, PendingInv
  <2> QED
    BY <1>1, <1>2, <1>4, <2>1 DEF ClusterInv, PendingInv
<1>8. TimelineInv'
  BY <1>1 DEF ClusterInv, TimelineInv
<1> QED
  BY <1>3, <1>5, <1>6, <1>7, <1>8 DEF ClusterInv

(* The answer to it, or its failure: no request for events is disturbed.   *)
LEMMA SnapshotAnswerKeeps ==
    ASSUME ClusterInv, NEW i \in DOMAIN inflight, SnapshotArrives(i) \/ SnapshotFails(i)
    PROVE  ClusterInv'
<1>1. /\ ~IsEvents(inflight[i]) /\ inflight' = RemoveAt(inflight, i) /\ snapLoading' = FALSE
      /\ UNCHANGED <<log, stored, view, events, ref, busy, edits, torn, clearing>>
      /\ \/ indicator' = endDataFetch(indicator) /\ failed' = failed
         \/ indicator' = endDataFetch(markDataFetchError(indicator)) /\ failed' = TRUE
      /\ snapshot' \in {snapshot, TRUE} /\ snapError' \in {snapError, TRUE}
  BY DEF SnapshotArrives, SnapshotFails, IsEvents
<1>2. BarInv' /\ inflight' \in Seq(Request) /\ indicator' \in Indicator /\ failed' \in BOOLEAN
  BY <1>1, AnsweredBar, Answered DEF ClusterInv
<1>3. /\ \A j \in DOMAIN inflight : j # i => \E k \in DOMAIN inflight' : inflight'[k] = inflight[j]
      /\ \A k \in DOMAIN inflight' : \E j \in DOMAIN inflight : j # i /\ inflight'[k] = inflight[j]
  BY <1>1, Answered DEF ClusterInv
<1>4. TypeOK'
  BY <1>1, <1>2 DEF ClusterInv, TypeOK, Request, Indicator
<1>5. WaitInv'
  BY <1>1, <1>3 DEF ClusterInv, WaitInv
<1>6. PendingInv'
  <2>1. \A k \in DOMAIN inflight' : inflight'[k].asof <= log'
    BY <1>1, <1>3 DEF ClusterInv, PendingInv
  <2>2. ASSUME NEW k \in DOMAIN inflight', IsEvents(inflight'[k]), inflight'[k].fresh
        PROVE  /\ busy'
               /\ Pending(inflight'[k], events')
               /\ \A l \in DOMAIN inflight' : IsEvents(inflight'[l]) => l = k
    <3>1. busy' /\ Pending(inflight'[k], events')
      BY <1>1, <1>3, <2>2 DEF ClusterInv, PendingInv
    <3>2. ASSUME NEW l \in DOMAIN inflight', IsEvents(inflight'[l]), l # k PROVE FALSE
      <4>1. PICK j \in DOMAIN inflight, m \in DOMAIN inflight :
              j # m /\ inflight'[k] = inflight[j] /\ inflight'[l] = inflight[m]
        BY <1>1, <3>2, Answered DEF ClusterInv
      <4> QED
        BY <2>2, <3>2, <4>1 DEF ClusterInv, PendingInv
    <3> QED
      BY <3>1, <3>2
  <2> QED
    BY <2>1, <2>2 DEF PendingInv
<1>7. TimelineInv'
  BY <1>1 DEF ClusterInv, TimelineInv
<1> QED
  BY <1>2, <1>4, <1>5, <1>6, <1>7 DEF ClusterInv

-----------------------------------------------------------------------------
(* Everything else.                                                        *)

(* A reset outdates all requests and ends none.                            *)
LEMMA OutdatedTyped ==
    ASSUME TypeOK, inflight' = Outdated
    PROVE  /\ inflight' \in Seq(Request) /\ Len(inflight') = Len(inflight)
           /\ DOMAIN inflight' = DOMAIN inflight /\ (inflight' = <<>> <=> inflight = <<>>)
           /\ \A i \in DOMAIN inflight :
                 /\ inflight'[i].fresh = FALSE /\ inflight'[i].asof = inflight[i].asof
                 /\ inflight'[i].what = inflight[i].what
<1>1. inflight \in Seq(Request) /\ DOMAIN inflight = 1 .. Len(inflight) /\ Len(inflight) \in Nat
  BY InflightTyped
<1>2. ASSUME NEW f \in Request
      PROVE  LET g == [f EXCEPT !.fresh = FALSE]
             IN  g \in Request /\ g.fresh = FALSE /\ g.asof = f.asof /\ g.what = f.what
  BY DEF Request
<1>3. ASSUME NEW i \in DOMAIN inflight
      PROVE  /\ inflight'[i] \in Request /\ inflight'[i].fresh = FALSE
             /\ inflight'[i].asof = inflight[i].asof /\ inflight'[i].what = inflight[i].what
  <2>1. inflight'[i] = [inflight[i] EXCEPT !.fresh = FALSE]
    BY DEF Outdated
  <2> QED
    BY <1>2, <2>1, InflightTyped
<1>4. DOMAIN inflight' = 1 .. Len(inflight)
  BY <1>1 DEF Outdated
<1>5. inflight' \in Seq(Request) /\ Len(inflight') = Len(inflight)
  <2>1. inflight' \in [1 .. Len(inflight) -> Request]
    BY <1>1, <1>3, <1>4 DEF Outdated
  <2> QED
    BY <1>1, <2>1
<1>6. inflight' = <<>> <=> inflight = <<>>
  BY <1>1, <1>5, EmptySeq
<1> QED
  BY <1>1, <1>3, <1>4, <1>5, <1>6

(* handleConnectGui and clearClusterData, while requests are under way.    *)
LEMMA ResetKeeps ==
    ASSUME ClusterInv, handleConnectGui \/ clearClusterData
    PROVE  ClusterInv'
<1>1. /\ inflight' = Outdated /\ UNCHANGED <<log, view, indicator, fails, failed>>
      /\ stored' \in BOOLEAN /\ clearing' \in BOOLEAN /\ torn' = FALSE
      /\ snapshot' \in BOOLEAN /\ snapError' = FALSE
      /\ busy' \in BOOLEAN /\ snapLoading' \in BOOLEAN /\ (busy' => busy) /\ (snapLoading' => snapLoading)
      /\ events' \in {Cache(TRUE, {}, FALSE), NoCache} /\ ref' \in {ref, NoCache}
  <2>1. CASE handleConnectGui
    BY <2>1 DEF handleConnectGui, ClusterInv, TypeOK
  <2>2. CASE clearClusterData
    BY <2>2 DEF clearClusterData, ClusterInv, TypeOK
  <2> QED
    BY <2>1, <2>2
<1>2. /\ inflight' \in Seq(Request) /\ Len(inflight') = Len(inflight)
      /\ DOMAIN inflight' = DOMAIN inflight /\ (inflight' = <<>> <=> inflight = <<>>)
      /\ \A i \in DOMAIN inflight :
            /\ inflight'[i].fresh = FALSE /\ inflight'[i].asof = inflight[i].asof
            /\ inflight'[i].what = inflight[i].what
  BY <1>1, OutdatedTyped DEF ClusterInv
<1>3. /\ events' \in CacheType /\ Items(events') = {} /\ ~Loading(events') /\ ref' \in CacheType
  <2>1. {} \in SUBSET (1 .. MaxLog) /\ ref \in CacheType
    BY StateTyped DEF ClusterInv
  <2>2. CASE events' = Cache(TRUE, {}, FALSE)
    BY <1>1, <2>1, <2>2, CacheOf, NoCacheOf
  <2>3. CASE events' = NoCache
    BY <1>1, <2>1, <2>3, NoCacheOf
  <2> QED
    BY <1>1, <2>2, <2>3
<1>4. TypeOK'
  BY <1>1, <1>2, <1>3 DEF ClusterInv, TypeOK, Request
<1>5. BarInv'
  BY <1>1, <1>2 DEF ClusterInv, BarInv
<1>6. WaitInv'
  BY <1>1, <1>2, <1>3 DEF ClusterInv, WaitInv, IsEvents
<1>7. PendingInv'
  BY <1>1, <1>2 DEF ClusterInv, PendingInv
<1>8. TimelineInv'
  BY <1>1, <1>3 DEF ClusterInv, TimelineInv, Convex
<1> QED
  BY <1>4, <1>5, <1>6, <1>7, <1>8 DEF ClusterInv

(* What touches neither the timeline nor the requests.                     *)
LEMMA QuietKeeps ==
    ASSUME ClusterInv, SyncRef \/ SwitchTab \/ DropConnection \/ ServerLogs
    PROVE  ClusterInv'
<1>1. /\ UNCHANGED <<events, busy, snapLoading, inflight, indicator, torn, failed>>
      /\ log' \in 0 .. MaxLog /\ log <= log' /\ ref' \in CacheType
      /\ view' \in {"Event", "Node", "other"}
      /\ stored' \in BOOLEAN /\ clearing' \in BOOLEAN /\ snapshot' = snapshot /\ snapError' = snapError
  <2>1. /\ log \in 0 .. MaxLog /\ log \in Nat /\ ref \in CacheType /\ events \in CacheType
        /\ view \in {"Event", "Node", "other"} /\ stored \in BOOLEAN /\ clearing \in BOOLEAN
        /\ log <= log
    BY StateTyped DEF ClusterInv, TypeOK
  <2>2. CASE SyncRef
    BY <2>1, <2>2 DEF SyncRef
  <2>3. CASE SwitchTab
    BY <2>1, <2>3 DEF SwitchTab
  <2>4. CASE DropConnection
    BY <2>1, <2>4, Zenon DEF DropConnection
  <2>5. CASE ServerLogs
    BY <2>1, <2>5, StateTyped DEF ServerLogs, ClusterInv
  <2> QED
    BY <2>2, <2>3, <2>4, <2>5
<1>2. TypeOK'
  BY <1>1 DEF ClusterInv, TypeOK
<1>3. BarInv' /\ WaitInv'
  BY <1>1 DEF ClusterInv, BarInv, WaitInv
<1>4. log \in Nat /\ log' \in Nat
  BY <1>1, StateTyped DEF ClusterInv
<1>5. PendingInv'
  <2>1. ASSUME NEW i \in DOMAIN inflight PROVE inflight[i].asof <= log'
    <3>1. inflight[i].asof \in Nat /\ inflight[i].asof <= log
      BY InflightTyped DEF ClusterInv, PendingInv, Request
    <3> QED
      BY <1>1, <1>4, <3>1
  <2> QED
    BY <1>1, <2>1 DEF ClusterInv, PendingInv
<1>6. TimelineInv'
  BY <1>1, <1>4 DEF ClusterInv, TimelineInv
<1> QED
  BY <1>2, <1>3, <1>5, <1>6 DEF ClusterInv

-----------------------------------------------------------------------------
(* The theorems.                                                           *)

(* A window that was just opened.                                          *)
LEMMA InitSound ==
    Init => ClusterInv
<1> SUFFICES ASSUME Init PROVE ClusterInv
  OBVIOUS
<1>1. MaxLog \in Nat /\ <<>> \in Seq(Request) /\ Len(<<>>) = 0 /\ DOMAIN <<>> = {}
  BY ClusterDataAssumption
<1>2. NoCache \in CacheType /\ Items(events) = {} /\ HasMore(events) /\ ~Loading(events)
  BY NoCacheOf DEF Init
<1>3. inflight \in Seq(Request) /\ Len(inflight) = 0 /\ DOMAIN inflight = {}
  BY <1>1 DEF Init
<1>4. TypeOK
  BY <1>1, <1>2, <1>3 DEF Init, TypeOK, Request
<1>5. BarInv /\ WaitInv
  BY <1>2, <1>3 DEF Init, BarInv, WaitInv
<1>6. PendingInv /\ TimelineInv
  BY <1>2, <1>3 DEF Init, PendingInv, TimelineInv, Convex
<1> QED
  BY <1>4, <1>5, <1>6 DEF ClusterInv

(* Every step keeps the invariant.                                         *)
LEMMA NextSound ==
    ClusterInv /\ [Next]_vars => ClusterInv'
<1> SUFFICES ASSUME ClusterInv, [Next]_vars PROVE ClusterInv'
  OBVIOUS
<1>1. CASE InitialEffect \/ RefreshTimer \/ LoadMore
  BY <1>1, FetchKeeps DEF InitialEffect, RefreshTimer, LoadMore
<1>2. CASE SnapshotEffect \/ PollSnapshot
  BY <1>2, SnapshotKeeps DEF SnapshotEffect, PollSnapshot
<1>3. CASE EventsAnswered
  BY <1>3, ArrivalKeeps DEF EventsAnswered
<1>4. CASE SnapshotAnswered
  BY <1>4, SnapshotAnswerKeeps DEF SnapshotAnswered
<1>5. CASE \E i \in DOMAIN inflight : EventPageFails(i) \/ SnapshotFails(i)
  BY <1>5, FailureKeeps, SnapshotAnswerKeeps
<1>6. CASE handleConnectGui \/ clearClusterData
  BY <1>6, ResetKeeps
<1>7. CASE SyncRef \/ SwitchTab \/ DropConnection \/ ServerLogs
  BY <1>7, QuietKeeps
<1>8. CASE UNCHANGED vars
  <2>1. TypeOK'
    BY <1>8 DEF ClusterInv, TypeOK, vars
  <2>2. BarInv' /\ WaitInv' /\ PendingInv' /\ TimelineInv'
    BY <1>8 DEF ClusterInv, BarInv, WaitInv, PendingInv, TimelineInv, vars
  <2> QED
    BY <2>1, <2>2 DEF ClusterInv
<1> QED
  BY <1>1, <1>2, <1>3, <1>4, <1>5, <1>6, <1>7, <1>8 DEF Next

(* So it always holds.                                                     *)
LEMMA AlwaysSound ==
    Spec => []ClusterInv
BY InitSound, NextSound, PTL DEF Spec

(* NoHole: for any page size, any number of requests under way and any     *)
(* order of their answers, the timeline of useClusterData.ts has no hole,  *)
(* as long as no answer was merged that was meant for an earlier cache or  *)
(* that the log has outrun.                                                *)
THEOREM TimelineHasNoHole ==
    Spec => []NoHole
<1>1. ClusterInv => NoHole
  BY DEF ClusterInv, TimelineInv, NoHole, Convex
<1> QED
  BY <1>1, AlwaysSound, PTL

(* NoFalseEnd: "scroll to load more" disappears only when the first event  *)
(* is cached.                                                              *)
THEOREM TimelineEndsAtTheEnd ==
    Spec => []NoFalseEnd
<1>1. ClusterInv => NoFalseEnd
  BY StateTyped, CacheFields DEF ClusterInv, TimelineInv, NoFalseEnd
<1> QED
  BY <1>1, AlwaysSound, PTL

(* NothingStuck: no lock, no "Loading" and no fetch indicator is left      *)
(* behind by any order of answers, failures, connections and deletions;    *)
(* the status bar reports an error exactly if one of the requests that     *)
(* overlapped failed.                                                      *)
THEOREM ViewsNeverStuck ==
    Spec => []NothingStuck
<1>1. ASSUME ClusterInv PROVE IndicatorHonest
  <2>1. CASE inflight # <<>>
    BY <1>1, <2>1, Zenon DEF ClusterInv, BarInv, IndicatorHonest, StatusBar
  <2>2. CASE inflight = <<>>
    BY <1>1, <2>2, Zenon DEF ClusterInv, BarInv, IndicatorHonest, StatusBar
  <2> QED
    BY <2>1, <2>2
<1>2. ClusterInv => NothingStuck
  BY <1>1 DEF ClusterInv, WaitInv, NothingStuck, IsEvents
<1> QED
  BY <1>2, AlwaysSound, PTL
=============================================================================
