--------------------------- MODULE RbacTableProofs --------------------------
(***************************************************************************)
(* Proofs about RbacTable, for any clusters and kinds, any finite set of   *)
(* names, any table of cells, and any number of loads, deletions and       *)
(* changes of the view.                                                    *)
(***************************************************************************)
EXTENDS RbacTable, FiniteSetTheorems, WellFoundedInduction, TLAPS

-----------------------------------------------------------------------------
(* Sets of numbers.                                                        *)

(* Every nonempty set of naturals has a least member.                      *)
LEMMA LeastNatural ==
    ASSUME NEW S \in SUBSET Nat, S # {}
    PROVE  Min(S) \in S
<1> DEFINE Smaller == {p \in Nat \X Nat : p[1] < p[2]}
<1>1. IsWellFoundedOn(Smaller, Nat)
  <2>1. Smaller = OpToRel(<, Nat)
    BY Zenon DEF OpToRel
  <2> QED
    BY <2>1, NatLessThanWellFounded, Zenon
<1> HIDE DEF Smaller
<1>2. \E m \in S : \A k \in S : ~(<<k, m>> \in Smaller)
  BY <1>1, WFMin, Zenon
<1>3. \A k, m \in Nat : <<k, m>> \notin Smaller => m <= k
  BY DEF Smaller
<1>4. \E m \in S : \A k \in S : m <= k
  BY <1>2, <1>3
<1> QED
  BY <1>4 DEF Min

(* The ends of the range between two places.                               *)
LEMMA RangeEnds ==
    ASSUME NEW a \in Nat, NEW b \in Nat
    PROVE  Min({a, b}) \in {a, b} /\ Max({a, b}) \in {a, b}
<1>1. \E x \in {a, b} : \A y \in {a, b} : x <= y
  OBVIOUS
<1>2. \E x \in {a, b} : \A y \in {a, b} : x >= y
  OBVIOUS
<1> QED
  BY <1>1, <1>2 DEF Min, Max

(* The numbers up to n.                                                    *)
LEMMA UpTo ==
    ASSUME NEW n \in Nat
    PROVE  IsFiniteSet(1 .. n) /\ Cardinality(1 .. n) = n
<1>1. 1 \in Int /\ n \in Int
  OBVIOUS
<1>2. IsFiniteSet(1 .. n) /\ Cardinality(1 .. n) = IF 1 > n THEN 0 ELSE n - 1 + 1
  BY <1>1, FS_Interval
<1> QED
  BY <1>2

-----------------------------------------------------------------------------
(* The rows that are visible.                                              *)

\* The sort states there are.
Sorts == {NoSort} \cup [column : DOMAIN Cells, direction : {"asc", "desc"}]

(* Cells come in an order in which several can have one place.             *)
LEMMA CellOrder ==
    ASSUME NEW x \in Nat, NEW y \in Nat, NEW z \in Nat
    PROVE  /\ ~CellBefore(x, x)
           /\ CellBefore(x, y) /\ CellBefore(y, z) => CellBefore(x, z)
           /\ CellBefore(x, y) => CellBefore(x, z) \/ CellBefore(z, y)
BY DEF CellBefore, Blank

(* Rows come in one in which each has its own.                             *)
LEMMA RowOrder ==
    ASSUME NEW s \in Sorts
    PROVE  /\ \A a \in Names : ~RowBefore(s, a, a)
           /\ \A a, b, c \in Names : RowBefore(s, a, b) /\ RowBefore(s, b, c) => RowBefore(s, a, c)
           /\ \A a, b \in Names : a = b \/ RowBefore(s, a, b) \/ RowBefore(s, b, a)
<1>1. Names \subseteq Nat
  BY RbacTableAssumption
<1>2. CASE s = NoSort
  <2>1. \A a, b : RowBefore(s, a, b) <=> a < b
    BY <1>2 DEF RowBefore
  <2> QED
    BY <1>1, <2>1
<1>3. CASE s # NoSort
  <2> DEFINE cell == Cells[s.column]
             Below(a, b) == IF s.direction = "asc" THEN CellBefore(cell[a], cell[b])
                                                   ELSE CellBefore(cell[b], cell[a])
  <2>1. s.column \in DOMAIN Cells
    BY <1>3 DEF Sorts
  <2>2. \A a \in Names : cell[a] \in Nat
    BY <2>1, RbacTableAssumption
  <2>3. \A a, b : RowBefore(s, a, b) <=> Below(a, b) \/ (~Below(b, a) /\ a < b)
    BY <1>3 DEF RowBefore
  <2> HIDE DEF cell
  <2>4. ASSUME NEW a \in Names, NEW b \in Names, NEW c \in Names
        PROVE  /\ ~Below(a, a)
               /\ Below(a, b) /\ Below(b, c) => Below(a, c)
               /\ Below(a, b) => Below(a, c) \/ Below(c, b)
    BY <2>2, CellOrder
  <2> HIDE DEF Below
  <2>5. ASSUME NEW a \in Names, NEW b \in Names, NEW c \in Names
        PROVE  /\ ~RowBefore(s, a, a)
               /\ RowBefore(s, a, b) /\ RowBefore(s, b, c) => RowBefore(s, a, c)
               /\ a = b \/ RowBefore(s, a, b) \/ RowBefore(s, b, a)
    <3>1. a \in Nat /\ b \in Nat /\ c \in Nat
      BY <1>1
    <3>2. ~RowBefore(s, a, a)
      BY <2>3, <2>4, <3>1
    <3>3. a = b \/ RowBefore(s, a, b) \/ RowBefore(s, b, a)
      BY <2>3, <3>1
    <3>4. RowBefore(s, a, b) /\ RowBefore(s, b, c) => RowBefore(s, a, c)
      <4>1. a < b /\ b < c => a < c
        BY <3>1
      <4> QED
        BY <2>3, <2>4, <4>1
    <3> QED
      BY <3>2, <3>3, <3>4
  <2> QED
    BY <2>5
<1> QED
  BY <1>2, <1>3

\* The rows of keys that come before row k.
Above(keys, s, k) == {m \in keys : RowBefore(s, m, k)}

(* A row that comes before another has fewer before it.                    *)
LEMMA AboveGrows ==
    ASSUME NEW s \in Sorts, NEW keys \in SUBSET Names, NEW a \in keys, NEW b \in keys,
           RowBefore(s, a, b)
    PROVE  Cardinality(Above(keys, s, a)) < Cardinality(Above(keys, s, b))
<1> DEFINE A == Above(keys, s, a)
           B == Above(keys, s, b)
<1>1. IsFiniteSet(keys)
  BY RbacTableAssumption, FS_Subset
<1>2. A \in SUBSET B /\ A # B /\ B \in SUBSET keys
  <2>1. a \in B /\ a \notin A
    BY RowOrder DEF Above
  <2>2. A \subseteq B
    BY RowOrder DEF Above
  <2> QED
    BY <2>1, <2>2 DEF Above
<1> HIDE DEF A, B
<1>3. IsFiniteSet(B)
  BY <1>1, <1>2, FS_Subset
<1>4. IsFiniteSet(A) /\ Cardinality(A) <= Cardinality(B) /\ (Cardinality(B) = Cardinality(A) => B = A)
  BY <1>2, <1>3, FS_Subset
<1>5. Cardinality(A) \in Nat /\ Cardinality(B) \in Nat
  BY <1>3, <1>4, FS_CardinalityType
<1>6. Cardinality(A) < Cardinality(B)
  BY <1>2, <1>4, <1>5
<1> QED
  BY <1>6 DEF A, B

(* Every row has a place of its own, and every place a row.                *)
LEMMA PlacesTaken ==
    ASSUME NEW s \in Sorts, NEW keys \in SUBSET Names
    PROVE  /\ Cardinality(keys) \in Nat
           /\ \A k \in keys : Cardinality(Above(keys, s, k)) \in 0 .. Cardinality(keys) - 1
           /\ \A a, b \in keys :
                 Cardinality(Above(keys, s, a)) = Cardinality(Above(keys, s, b)) => a = b
           /\ \A i \in 1 .. Cardinality(keys) :
                 \E k \in keys : Cardinality(Above(keys, s, k)) = i - 1
<1> DEFINE n == Cardinality(keys)
           f == [k \in keys |-> Cardinality(Above(keys, s, k)) + 1]
<1>1. IsFiniteSet(keys) /\ n \in Nat
  BY RbacTableAssumption, FS_Subset, FS_CardinalityType
<1>2. ASSUME NEW k \in keys PROVE Cardinality(Above(keys, s, k)) \in 0 .. n - 1
  <2> DEFINE A == Above(keys, s, k)
  <2>1. A \in SUBSET (keys \ {k})
    BY RowOrder DEF Above
  <2> HIDE DEF A
  <2>2. IsFiniteSet(keys \ {k}) /\ Cardinality(keys \ {k}) = n - 1
    BY <1>1, FS_RemoveElement
  <2>3. IsFiniteSet(A) /\ Cardinality(A) <= n - 1
    BY <2>1, <2>2, FS_Subset
  <2>4. Cardinality(A) \in Nat
    BY <2>3, FS_CardinalityType
  <2>5. Cardinality(A) \in 0 .. n - 1
    BY <1>1, <2>3, <2>4
  <2> QED
    BY <2>5 DEF A
<1>3. ASSUME NEW a \in keys, NEW b \in keys,
             Cardinality(Above(keys, s, a)) = Cardinality(Above(keys, s, b))
      PROVE  a = b
  <2>1. CASE RowBefore(s, a, b)
    BY <1>1, <1>2, <1>3, <2>1, AboveGrows
  <2>2. CASE RowBefore(s, b, a)
    BY <1>1, <1>2, <1>3, <2>2, AboveGrows
  <2> QED
    BY <2>1, <2>2, RowOrder
<1>4. f \in Injection(keys, 1 .. n)
  <2> HIDE DEF n
  <2>1. \A k \in keys : f[k] = Cardinality(Above(keys, s, k)) + 1 /\ f[k] \in 1 .. n
    BY <1>1, <1>2
  <2>2. f \in [keys -> 1 .. n]
    BY <2>1
  <2>3. \A a, b \in keys : f[a] = f[b] => a = b
    BY <1>1, <1>2, <1>3, <2>1
  <2> HIDE DEF f
  <2> QED
    BY <2>2, <2>3 DEF Injection, IsInjective
<1>5. IsFiniteSet(1 .. n) /\ Cardinality(1 .. n) = n
  BY <1>1, UpTo
<1>6. f \in Surjection(keys, 1 .. n)
  <2> HIDE DEF f
  <2> QED
    BY <1>4, <1>5, FS_Injection
<1>7. ASSUME NEW i \in 1 .. n PROVE \E k \in keys : Cardinality(Above(keys, s, k)) = i - 1
  <2>1. PICK k \in keys : f[k] = i
    BY <1>6 DEF Surjection
  <2>2. Cardinality(Above(keys, s, k)) + 1 = i /\ Cardinality(Above(keys, s, k)) \in 0 .. n - 1
    BY <1>2, <2>1
  <2> HIDE DEF n
  <2> QED
    BY <1>1, <2>2
<1> QED
  BY <1>1, <1>2, <1>3, <1>7

(* The table shows the rows it is given, each once and in their order.     *)
LEMMA RowsFacts ==
    ASSUME NEW s \in Sorts, NEW keys \in SUBSET Names, NEW r, r = Rows(keys, s)
    PROVE  /\ Cardinality(keys) \in Nat /\ DOMAIN r = 1 .. Cardinality(keys)
           /\ Range(r) = keys
           /\ \A i, j \in DOMAIN r : i < j => RowBefore(s, r[i], r[j])
<1> DEFINE n == Cardinality(keys)
<1>1. r = [i \in 1 .. n |-> CHOOSE k \in keys : Cardinality(Above(keys, s, k)) = i - 1]
  BY DEF Rows, Above
<1>2. /\ n \in Nat
      /\ \A k \in keys : Cardinality(Above(keys, s, k)) \in 0 .. n - 1
      /\ \A a, b \in keys :
            Cardinality(Above(keys, s, a)) = Cardinality(Above(keys, s, b)) => a = b
      /\ \A i \in 1 .. n : \E k \in keys : Cardinality(Above(keys, s, k)) = i - 1
  BY PlacesTaken
<1> HIDE DEF n
<1>3. ASSUME NEW i \in 1 .. n
      PROVE  r[i] \in keys /\ Cardinality(Above(keys, s, r[i])) = i - 1
  BY <1>1, <1>2
<1>4. ASSUME NEW k \in keys PROVE \E i \in 1 .. n : r[i] = k
  <2> DEFINE i == Cardinality(Above(keys, s, k)) + 1
  <2>1. i \in 1 .. n /\ i - 1 = Cardinality(Above(keys, s, k))
    BY <1>2
  <2> HIDE DEF i
  <2>2. r[i] \in keys /\ Cardinality(Above(keys, s, r[i])) = i - 1
    BY <1>3, <2>1
  <2>3. r[i] = k
    BY <1>2, <2>1, <2>2
  <2> QED
    BY <2>1, <2>3
<1>5. DOMAIN r = 1 .. n
  BY <1>1
<1>6. Range(r) = keys
  BY <1>3, <1>4, <1>5 DEF Range
<1>7. ASSUME NEW i \in 1 .. n, NEW j \in 1 .. n, i < j
      PROVE  RowBefore(s, r[i], r[j])
  <2>1. /\ r[i] \in keys /\ Cardinality(Above(keys, s, r[i])) = i - 1
        /\ r[j] \in keys /\ Cardinality(Above(keys, s, r[j])) = j - 1
    BY <1>3
  <2>2. r[i] # r[j] /\ ~(j - 1 < i - 1)
    BY <1>2, <1>7, <2>1
  <2>3. ~RowBefore(s, r[j], r[i])
    BY <2>1, <2>2, AboveGrows
  <2> QED
    BY <2>1, <2>2, <2>3, RowOrder
<1> QED
  BY <1>2, <1>5, <1>6, <1>7 DEF n

(* A click changes visible rows only, with a range as well.                *)
LEMMA ClickedVisible ==
    ASSUME NEW n \in Nat, NEW visible, DOMAIN visible = 1 .. n, NEW key \in Range(visible),
           NEW from, NEW shift
    PROVE  Clicked(visible, from, key, shift) \subseteq Range(visible)
<1> DEFINE at(k) == CHOOSE i \in DOMAIN visible : visible[i] = k
           lo == Min({at(from), at(key)})
           hi == Max({at(from), at(key)})
<1>1. \A k \in Range(visible) : at(k) \in 1 .. n
  BY DEF Range
<1>2. Clicked(visible, from, key, shift) =
        IF shift /\ from \in Range(visible) THEN {visible[i] : i \in lo .. hi} ELSE {key}
  BY DEF Clicked
<1> HIDE DEF at
<1>3. CASE shift /\ from \in Range(visible)
  <2>1. at(from) \in 1 .. n /\ at(key) \in 1 .. n
    BY <1>1, <1>3
  <2>2. lo \in 1 .. n /\ hi \in 1 .. n
    BY <2>1, RangeEnds
  <2> HIDE DEF lo, hi
  <2>3. \A i \in lo .. hi : i \in 1 .. n
    BY <2>2
  <2> QED
    BY <1>2, <1>3, <2>3 DEF Range
<1>4. CASE ~(shift /\ from \in Range(visible))
  BY <1>2, <1>4
<1> QED
  BY <1>3, <1>4

-----------------------------------------------------------------------------
(* The invariant.                                                          *)

Deletions == [n : 1..MaxPresses, view : Views, yaml : Clusters, kind : Kinds,
              targets : SUBSET Names, left : SUBSET Names,
              reloads : BOOLEAN, orphan : BOOLEAN]

\* A deletion whose component is there and that has not come to its load.
Active(d) == ~d.orphan /\ ~d.reloads

\* What the table and its user have of their own.
TableInv ==
    /\ view \in Views
    /\ resources \in [view : Views, names : SUBSET Names]
    /\ selected \subseteq resources.names
    /\ anchor = NoKey \/ anchor \in resources.names
    /\ sort \in Sorts
    /\ sort = NoSort \/ sort.column \in ColumnsOf[view[2]]
    /\ filter \subseteq Names

\* The loads, and what they say of themselves.
LoadInv ==
    /\ yaml \in Clusters \cup {NoYaml}
    /\ loads \subseteq Loads /\ IsFiniteSet(loads)
    /\ loading \in BOOLEAN /\ (loading => loads # {})
    /\ calm \in BOOLEAN

\* The deletions, and what they say of themselves.
DeletionInv ==
    /\ server \in [Clusters -> [Kinds -> SUBSET Names]]
    /\ presses \in 0..MaxPresses /\ elsewhere \in Nat
    /\ deletions \subseteq Deletions
    /\ \A d \in deletions : (d.reloads => d.left = {}) /\ d.left \subseteq d.targets
    /\ saving \in BOOLEAN /\ (saving => \E d \in deletions : ~d.orphan)
    /\ changed \subseteq (Clusters \X Kinds) \X Names /\ muddled \in BOOLEAN

\* The rows and the configuration belong to what is shown, if there are any.
Coherent ==
    IF yaml = NoYaml
    THEN resources.names = {}
    ELSE yaml = view[1] /\ (resources.names # {} => resources.view = view)

\* Calm, they do, or the one load there is will see to it.
CalmInv ==
    calm => \/ loads = {} /\ Coherent
            \/ \E l \in loads : /\ loads = {l} /\ l.view = view
                                /\ l.at # "connections" => yaml = view[1]

\* What deletions have still to do was asked for.
AskedInv ==
    ~muddled => \A d \in deletions : \A n \in d.left : <<<<d.yaml, d.kind>>, n>> \in asked

\* What has changed since resources were listed and no load is sure to follow
\* for: recorded as such, or deleted by a run that is still to load again.
Drifted ==
    changed \cup UNION {Unloaded(d, d.targets \ d.left) : d \in {q \in deletions : Active(q)}}

\* Names are those that view v has on the cluster, but for what has drifted.
Current(names, v) ==
    \A n \in Names : (n \in names <=> n \in server[v[1]][v[2]]) \/ <<v, n>> \in Drifted

\* An answer, on its way or shown, is what the cluster holds, but for that.
ServerInv ==
    calm => /\ loads = {} /\ resources.names # {} => Current(resources.names, view)
            /\ \A l \in loads : l.at = "answer" => Current(l.names, l.view)

IInv == TableInv /\ LoadInv /\ DeletionInv /\ CalmInv /\ AskedInv /\ ServerInv

(* The parts of a view, and what is known of the constants.                *)
LEMMA ViewFacts ==
    /\ \A v \in Views : v[1] \in Clusters /\ v[2] \in Kinds /\ v = <<v[1], v[2]>>
    /\ NoYaml \notin Clusters
    /\ FirstView \in Views
    /\ \A k \in Kinds : ColumnsOf[k] \subseteq DOMAIN Cells
    /\ 1 \in 1 .. MaxLoads /\ MaxLoads \in Nat /\ MaxPresses \in Nat /\ 0 \in 0 .. MaxPresses
    /\ Names \subseteq Nat /\ NoKey \notin Names /\ IsFiniteSet(Names)
<1>1. \A v \in Views : v[1] \in Clusters /\ v[2] \in Kinds
  BY DEF Clusters, Kinds
<1>2. \A v \in Views : v = <<v[1], v[2]>>
  BY RbacTableAssumption
<1>3. /\ MaxLoads \in Nat /\ 1 \in 1 .. MaxLoads
      /\ MaxPresses \in Nat /\ 0 \in 0 .. MaxPresses
  BY RbacTableAssumption
<1>4. Names \subseteq Nat /\ NoKey \notin Names /\ IsFiniteSet(Names)
  BY RbacTableAssumption
<1>5. NoYaml \notin Clusters /\ FirstView \in Views
  BY RbacTableAssumption
<1>6. \A k \in Kinds : ColumnsOf[k] \subseteq DOMAIN Cells
  <2>1. ColumnsOf \in [Kinds -> SUBSET DOMAIN Cells]
    BY RbacTableAssumption
  <2> QED
    BY <2>1
<1> QED
  BY <1>1, <1>2, <1>3, <1>4, <1>5, <1>6

(* What has drifted, name by name.                                         *)
LEMMA DriftedFacts ==
    /\ changed \subseteq Drifted
    /\ \A d \in deletions : Active(d) => Unloaded(d, d.targets \ d.left) \subseteq Drifted
    /\ UNCHANGED <<changed, deletions>> => Drifted' = Drifted
BY DEF Drifted, Active, Unloaded

(* What is shown, or on its way, stays as it is and as good as it is.      *)
LEMMA Drifts ==
    ASSUME IInv, UNCHANGED <<view, resources, loads, calm>>, Drifted \subseteq Drifted',
           \A v \in Views, n \in Names :
             \/ n \in server[v[1]][v[2]] <=> n \in server'[v[1]][v[2]]
             \/ <<v, n>> \in Drifted'
    PROVE  ServerInv'
<1>1. view \in Views /\ \A l \in loads : l.view \in Views
  BY DEF IInv, TableInv, LoadInv, Loads
<1>2. ASSUME calm, loads = {}, resources.names # {}, NEW n \in Names
      PROVE  \/ n \in resources.names <=> n \in server'[view[1]][view[2]]
             \/ <<view, n>> \in Drifted'
  <2>1. \/ n \in resources.names <=> n \in server[view[1]][view[2]]
        \/ <<view, n>> \in Drifted
    BY <1>2 DEF IInv, ServerInv, Current
  <2> QED
    BY <1>1, <2>1
<1>3. ASSUME calm, NEW l \in loads, l.at = "answer", NEW n \in Names
      PROVE  \/ n \in l.names <=> n \in server'[l.view[1]][l.view[2]]
             \/ <<l.view, n>> \in Drifted'
  <2>1. \/ n \in l.names <=> n \in server[l.view[1]][l.view[2]]
        \/ <<l.view, n>> \in Drifted
    BY <1>3 DEF IInv, ServerInv, Current
  <2> QED
    BY <1>1, <2>1
<1> QED
  BY <1>2, <1>3 DEF ServerInv, Current

(* The invariant says at least what the runs check.                        *)
LEMMA IInvImplies ==
    ASSUME IInv
    PROVE  SelectionListed /\ PayloadCoherent /\ ShowsServer
<1>1. SelectionListed
  <2>1. sort.column \in DOMAIN Cells \cup {"none"}
    BY DEF IInv, TableInv, Sorts, NoSort
  <2>2. TypeOK
    BY <2>1 DEF IInv, TableInv, LoadInv, DeletionInv, TypeOK
  <2>3. BusyHonest
    BY DEF IInv, LoadInv, DeletionInv, BusyHonest
  <2> QED
    BY <2>2, <2>3 DEF IInv, TableInv, SelectionListed
<1>2. PayloadCoherent
  <2> SUFFICES ASSUME loads = {}, calm
               PROVE  IF CanOpen
                      THEN /\ CreatePayload.clusterYaml = CreatePayload.clusterId
                           /\ \A name \in resources.names :
                                /\ OpenPayload(name).clusterYaml = OpenPayload(name).clusterId
                                /\ OpenPayload(name).yaml =
                                     <<OpenPayload(name).clusterId, OpenPayload(name).kind, name>>
                      ELSE resources.names = {}
    BY DEF PayloadCoherent
  <2>1. Coherent
    BY DEF IInv, CalmInv
  <2>2. CASE CanOpen
    <3>1. yaml = view[1] /\ (resources.names # {} => resources.view = view)
      BY <2>1, <2>2 DEF Coherent, CanOpen
    <3>2. CreatePayload.clusterYaml = yaml /\ CreatePayload.clusterId = view[1]
      BY DEF CreatePayload
    <3>3. ASSUME NEW name \in resources.names
          PROVE  /\ OpenPayload(name).clusterYaml = yaml
                 /\ OpenPayload(name).clusterId = view[1]
                 /\ OpenPayload(name).kind = view[2]
                 /\ OpenPayload(name).yaml = <<resources.view[1], resources.view[2], name>>
      BY DEF CreatePayload, OpenPayload
    <3> QED
      BY <2>2, <3>1, <3>2, <3>3
  <2>3. CASE ~CanOpen
    BY <2>1, <2>3 DEF Coherent, CanOpen
  <2> QED
    BY <2>2, <2>3
<1>3. ShowsServer
  <2> SUFFICES ASSUME loads = {}, deletions = {}, calm, resources.names # {}, NEW n \in Names
               PROVE  \/ n \in resources.names <=> n \in server[view[1]][view[2]]
                      \/ <<view, n>> \in changed
    BY DEF ShowsServer
  <2>1. Drifted = changed
    BY DEF Drifted
  <2> QED
    BY <2>1 DEF IInv, ServerInv, Current
<1> QED
  BY <1>1, <1>2, <1>3

(* A load as it begins.                                                    *)
LEMMA NewLoadFacts ==
    ASSUME NEW n \in 1 .. MaxLoads, NEW v \in Views, NEW b \in 0 .. MaxPresses
    PROVE  /\ NewLoad(n, v, b) \in Loads
           /\ NewLoad(n, v, b).view = v /\ NewLoad(n, v, b).at = "connections"
BY DEF NewLoad, Loads

(* The component is mounted with a load of what it shows.                  *)
LEMMA IInvInit == Init => IInv
<1> SUFFICES ASSUME Init PROVE IInv
  OBVIOUS
<1> DEFINE l == NewLoad(1, view, 0)
<1>1. view \in Views /\ l \in Loads /\ l.view = view /\ l.at = "connections" /\ loads = {l}
  <2>1. view \in Views
    BY ViewFacts DEF Init
  <2> QED
    BY <2>1, ViewFacts, NewLoadFacts DEF Init
<1> HIDE DEF l
<1>2. TableInv
  BY <1>1, ViewFacts DEF Init, TableInv, Sorts
<1>3. LoadInv
  BY <1>1, FS_Singleton DEF Init, LoadInv
<1>4. DeletionInv
  BY ViewFacts, RbacTableAssumption DEF Init, DeletionInv
<1>5. CalmInv /\ ServerInv
  BY <1>1 DEF Init, CalmInv, ServerInv
<1>6. AskedInv
  BY DEF Init, AskedInv
<1> QED
  BY <1>2, <1>3, <1>4, <1>5, <1>6 DEF IInv

-----------------------------------------------------------------------------
(* The steps of a load.                                                    *)

(* What a load says of itself.                                             *)
LEMMA LoadFacts ==
    ASSUME IInv, NEW l \in loads
    PROVE  /\ l \in Loads /\ l.view \in Views /\ l.names \subseteq Names
           /\ l.view[1] \in Clusters /\ l.view[2] \in Kinds
           /\ calm => /\ loads = {l} /\ l.view = view
                      /\ l.at # "connections" => yaml = view[1]
<1>1. l \in Loads /\ l.view \in Views /\ l.names \subseteq Names
  BY DEF IInv, LoadInv, Loads
<1>2. calm => /\ loads = {l} /\ l.view = view
              /\ l.at # "connections" => yaml = view[1]
  BY DEF IInv, CalmInv
<1> QED
  BY <1>1, <1>2, ViewFacts

(* A load that goes on is one load still.                                  *)
LEMMA AdvanceFacts ==
    ASSUME IInv, NEW l \in loads, NEW m \in Loads, Advance(l, m)
    PROVE  /\ loads' \subseteq Loads /\ IsFiniteSet(loads') /\ m \in loads' /\ loads' # {}
           /\ loads = {l} => loads' = {m}
           /\ l # m => loads' # loads
<1>1. loads' = (loads \ {l}) \cup {m}
  BY DEF Advance
<1>2. IsFiniteSet(loads')
  BY <1>1, FS_AddElement, FS_RemoveElement DEF IInv, LoadInv
<1> QED
  BY <1>1, <1>2 DEF IInv, LoadInv

(* One that ends is gone.                                                  *)
LEMMA EndLoadFacts ==
    ASSUME IInv, NEW l \in loads, EndLoad(l)
    PROVE  /\ loads' \subseteq Loads /\ IsFiniteSet(loads') /\ loads' = loads \ {l}
           /\ loads = {l} => loads' = {}
           /\ loading' = FALSE
BY FS_RemoveElement DEF IInv, LoadInv, EndLoad

(* The rows the table is given, and what is left of the selection.         *)
LEMMA SetResourcesFacts ==
    ASSUME IInv, NEW v \in Views, NEW names \in SUBSET Names,
           SetResources([view |-> v, names |-> names]), UNCHANGED <<view, sort, filter>>
    PROVE  TableInv' /\ resources'.view = v /\ resources'.names = names
<1>1. /\ resources' = [view |-> v, names |-> names]
      /\ selected' = selected \cap names
      /\ anchor' = IF anchor \in names THEN anchor ELSE NoKey
  BY DEF SetResources, Pruned, PrunedAnchor
<1> QED
  BY <1>1 DEF IInv, TableInv

(* The configuration of the load's cluster is there.                       *)
LEMMA ConnectionsArriveStep ==
    ASSUME IInv, NEW l \in loads, ConnectionsArrive(l)
    PROVE  IInv'
<1> DEFINE m == [l EXCEPT !.at = "listing"]
<1>1. /\ l.view[1] \in Clusters /\ (calm => loads = {l} /\ l.view = view)
      /\ yaml' = l.view[1] /\ Advance(l, m)
  BY LoadFacts DEF ConnectionsArrive, YamlOfLoad
<1>2. m \in Loads /\ m.at = "listing" /\ m.view = l.view
  BY LoadFacts DEF Loads
<1> HIDE DEF m
<1>3. /\ loads' \subseteq Loads /\ IsFiniteSet(loads') /\ m \in loads' /\ loads' # {}
      /\ loads = {l} => loads' = {m}
  BY <1>1, <1>2, AdvanceFacts
<1>4. UNCHANGED <<view, resources, loading, tableVars, deleteVars, switches, calm, elsewhere, changed>>
  BY DEF ConnectionsArrive
<1>5. TableInv' /\ DeletionInv' /\ AskedInv'
  BY <1>4 DEF IInv, TableInv, DeletionInv, AskedInv, tableVars, deleteVars
<1>6. LoadInv'
  BY <1>1, <1>3, <1>4 DEF IInv, LoadInv
<1>7. CalmInv'
  BY <1>1, <1>2, <1>3, <1>4 DEF CalmInv
<1>8. ServerInv'
  BY <1>1, <1>2, <1>3, <1>4 DEF ServerInv
<1> QED
  BY <1>5, <1>6, <1>7, <1>8 DEF IInv

(* The cluster is not among the connections.                               *)
LEMMA ConnectionMissingStep ==
    ASSUME IInv, NEW l \in loads, ConnectionMissing(l)
    PROVE  IInv'
<1>1. /\ l.view \in Views /\ (calm => loads = {l}) /\ yaml' = NoYaml
      /\ SetResources([view |-> l.view, names |-> {}])
      /\ EndLoad(l)
      /\ UNCHANGED <<view, sort, filter, deleteVars, switches, calm, elsewhere, changed>>
  BY LoadFacts DEF ConnectionMissing, MissingYaml
<1>2. TableInv' /\ resources'.names = {}
  BY <1>1, SetResourcesFacts
<1>3. /\ loads' \subseteq Loads /\ IsFiniteSet(loads')
      /\ loads = {l} => loads' = {}
      /\ loading' = FALSE
  BY <1>1, EndLoadFacts
<1>4. LoadInv'
  BY <1>1, <1>3 DEF IInv, LoadInv
<1>5. DeletionInv' /\ AskedInv'
  BY <1>1 DEF IInv, DeletionInv, AskedInv, deleteVars
<1>6. CalmInv' /\ ServerInv'
  BY <1>1, <1>2, <1>3 DEF CalmInv, ServerInv, Coherent
<1> QED
  BY <1>2, <1>4, <1>5, <1>6 DEF IInv

(* The connections or the resources cannot be listed.                      *)
LEMMA LoadFailsStep ==
    ASSUME IInv, NEW l \in loads, LoadFails(l)
    PROVE  IInv'
<1>1. /\ l.view \in Views
      /\ calm => loads = {l} /\ l.view = view /\ (l.at # "connections" => yaml = view[1])
      /\ SetResources([view |-> l.view, names |-> {}])
      /\ EndLoad(l)
      /\ calm' = (calm /\ l.at # "connections")
      /\ UNCHANGED <<view, yaml, sort, filter, deleteVars, switches, elsewhere, changed>>
  BY LoadFacts DEF LoadFails
<1>2. TableInv' /\ resources'.names = {}
  BY <1>1, SetResourcesFacts
<1>3. /\ loads' \subseteq Loads /\ IsFiniteSet(loads')
      /\ loads = {l} => loads' = {}
      /\ loading' = FALSE
  BY <1>1, EndLoadFacts
<1>4. LoadInv'
  BY <1>1, <1>3 DEF IInv, LoadInv
<1>5. DeletionInv' /\ AskedInv'
  BY <1>1 DEF IInv, DeletionInv, AskedInv, deleteVars
<1>6. CalmInv'
  BY <1>1, <1>2, <1>3 DEF CalmInv, Coherent
<1>7. ServerInv'
  BY <1>1, <1>2, <1>3 DEF ServerInv
<1> QED
  BY <1>2, <1>4, <1>5, <1>6, <1>7 DEF IInv

(* The cluster lists the resources.                                        *)
LEMMA HostListsStep ==
    ASSUME IInv, NEW l \in loads, HostLists(l)
    PROVE  IInv'
<1> DEFINE held == server[l.view[1]][l.view[2]]
           m == [l EXCEPT !.at = "answer", !.names = held]
<1>1. /\ l \in Loads /\ l.view[1] \in Clusters /\ l.view[2] \in Kinds /\ l.at = "listing"
      /\ calm => loads = {l} /\ l.view = view /\ (l.at # "connections" => yaml = view[1])
      /\ Advance(l, m) /\ changed' = {}
      /\ UNCHANGED <<view, yaml, resources, loading, tableVars, deleteVars, switches, elsewhere, calm>>
  BY LoadFacts DEF HostLists
<1>2. held \in SUBSET Names
  BY <1>1 DEF IInv, DeletionInv
<1> HIDE DEF held
<1>3. m \in Loads /\ m.at = "answer" /\ m.view = l.view /\ m.names = held
  BY <1>1, <1>2 DEF Loads
<1> HIDE DEF m
<1>4. /\ loads' \subseteq Loads /\ IsFiniteSet(loads') /\ m \in loads' /\ loads' # {}
      /\ loads = {l} => loads' = {m}
  BY <1>1, <1>3, AdvanceFacts
<1>5. TableInv' /\ DeletionInv' /\ AskedInv'
  BY <1>1 DEF IInv, TableInv, DeletionInv, AskedInv, tableVars, deleteVars
<1>6. LoadInv'
  BY <1>1, <1>4 DEF IInv, LoadInv
<1>7. CalmInv'
  BY <1>1, <1>3, <1>4 DEF CalmInv
<1>8. ServerInv'
  <2> SUFFICES ASSUME calm'
               PROVE  /\ loads' # {}
                      /\ \A k \in loads' : k.names = server'[k.view[1]][k.view[2]]
    BY DEF ServerInv, Current
  <2>1. loads' = {m} /\ server' = server
    BY <1>1, <1>4 DEF deleteVars
  <2>2. m.names = server[m.view[1]][m.view[2]]
    BY <1>3 DEF held
  <2> QED
    BY <2>1, <2>2
<1> QED
  BY <1>5, <1>6, <1>7, <1>8 DEF IInv

(* The answer is shown.                                                    *)
LEMMA ResourcesArriveStep ==
    ASSUME IInv, NEW l \in loads, ResourcesArrive(l)
    PROVE  IInv'
<1>1. /\ l.view \in Views /\ l.names \subseteq Names /\ l.at = "answer"
      /\ calm => loads = {l} /\ l.view = view /\ (l.at # "connections" => yaml = view[1])
      /\ resources' = [view |-> l.view, names |-> l.names]
      /\ selected' = {} /\ anchor' = NoKey
      /\ EndLoad(l)
      /\ UNCHANGED <<view, yaml, sort, filter, deleteVars, switches, calm, elsewhere, changed>>
  BY LoadFacts DEF ResourcesArrive, ShowAnswer
<1>2. resources'.view = l.view /\ resources'.names = l.names
  BY <1>1
<1>3. /\ loads' \subseteq Loads /\ IsFiniteSet(loads')
      /\ loads = {l} => loads' = {}
      /\ loading' = FALSE
  BY <1>1, EndLoadFacts
<1>4. TableInv'
  BY <1>1 DEF IInv, TableInv
<1>5. LoadInv'
  BY <1>1, <1>3 DEF IInv, LoadInv
<1>6. DeletionInv' /\ AskedInv'
  BY <1>1 DEF IInv, DeletionInv, AskedInv, deleteVars
<1>7. CalmInv'
  <2>1. yaml # NoYaml \/ ~calm
    BY <1>1, ViewFacts DEF IInv, TableInv
  <2> QED
    BY <1>1, <1>2, <1>3, <2>1 DEF CalmInv, Coherent
<1>8. ServerInv'
  <2> SUFFICES ASSUME calm
               PROVE  /\ loads' = {}
                      /\ \A n \in Names :
                           \/ n \in resources'.names <=> n \in server'[view'[1]][view'[2]]
                           \/ <<view', n>> \in Drifted'
    BY <1>1 DEF ServerInv, Current
  <2>1. Drifted' = Drifted /\ server' = server /\ view' = view
    BY <1>1, DriftedFacts DEF deleteVars
  <2>2. l.view = view /\ Current(l.names, l.view)
    BY <1>1 DEF IInv, ServerInv
  <2> QED
    BY <1>1, <1>2, <1>3, <2>1, <2>2 DEF Current
<1> QED
  BY <1>4, <1>5, <1>6, <1>7, <1>8 DEF IInv

-----------------------------------------------------------------------------
(* A load begins; another view is shown.                                   *)

(* As long as fewer loads than MaxLoads are under way a number is free.    *)
LEMMA FreeNumber ==
    ASSUME IInv, Cardinality(loads) < MaxLoads
    PROVE  (CHOOSE n \in 1..MaxLoads : \A l \in loads : l.n # n) \in 1 .. MaxLoads
<1>1. IsFiniteSet(loads) /\ Cardinality(loads) \in Nat /\ MaxLoads \in Nat
  BY ViewFacts, FS_CardinalityType DEF IInv, LoadInv
<1>2. Cardinality(1 .. MaxLoads) = MaxLoads
  BY <1>1, UpTo
<1> SUFFICES ASSUME \A n \in 1..MaxLoads : \E l \in loads : l.n = n
             PROVE  FALSE
  OBVIOUS
<1> DEFINE g == [n \in 1 .. MaxLoads |-> CHOOSE l \in loads : l.n = n]
<1>3. g \in [1 .. MaxLoads -> loads] /\ \A n \in 1 .. MaxLoads : g[n].n = n
  OBVIOUS
<1> HIDE DEF g
<1>4. g \in Injection(1 .. MaxLoads, loads)
  BY <1>3 DEF Injection, IsInjective
<1>5. Cardinality(1 .. MaxLoads) <= Cardinality(loads)
  BY <1>1, <1>4, FS_Injection
<1> QED
  BY <1>1, <1>2, <1>5

(* One more load: calm only if it is alone and for what is shown.          *)
LEMMA BeginLoadFacts ==
    ASSUME IInv, Cardinality(loads) < MaxLoads,
           NEW v \in Views, NEW b \in 0 .. MaxPresses, NEW shown, BeginLoad(v, b, shown)
    PROVE  /\ loads' \subseteq Loads /\ IsFiniteSet(loads') /\ loads' # {}
           /\ loads \subseteq loads'
           /\ loading' = TRUE /\ calm' \in BOOLEAN
           /\ calm' => /\ v = shown
                       /\ \E m \in loads' : loads' = {m} /\ m.view = v /\ m.at = "connections"
<1> DEFINE n == CHOOSE n \in 1..MaxLoads : \A l \in loads : l.n # n
           m == NewLoad(n, v, b)
<1>1. loads' = loads \cup {m} /\ loading' = TRUE /\ calm' = (loads = {} /\ v = shown)
  BY DEF BeginLoad
<1>2. n \in 1 .. MaxLoads
  BY FreeNumber
<1> HIDE DEF n
<1>3. m \in Loads /\ m.view = v /\ m.at = "connections"
  BY <1>2, NewLoadFacts
<1> HIDE DEF m
<1>4. IsFiniteSet(loads') /\ loads' \subseteq Loads
  BY <1>1, <1>3, FS_AddElement DEF IInv, LoadInv
<1> QED
  BY <1>1, <1>3, <1>4

(* Another cluster or kind is shown.                                       *)
LEMMA SwitchViewStep == ASSUME IInv, NEW v \in Views, SwitchView(v) PROVE IInv'
<1>1. /\ Cardinality(loads) < MaxLoads /\ BeginLoad(v, 0, v)
      /\ view' = v /\ sort' = KeptSort(sort, ColumnsOf[v[2]])
      /\ UNCHANGED <<yaml, resources, selected, anchor, filter, deleteVars, elsewhere, changed>>
  BY DEF SwitchView, Reload
<1>2. /\ loads' \subseteq Loads /\ IsFiniteSet(loads') /\ loads' # {}
      /\ loading' = TRUE /\ calm' \in BOOLEAN
      /\ calm' => \E m \in loads' : loads' = {m} /\ m.view = v /\ m.at = "connections"
  BY <1>1, ViewFacts, BeginLoadFacts
<1>3. TableInv'
  BY <1>1 DEF IInv, TableInv, KeptSort, Sorts
<1>4. LoadInv'
  BY <1>1, <1>2 DEF IInv, LoadInv
<1>5. DeletionInv' /\ AskedInv'
  BY <1>1 DEF IInv, DeletionInv, AskedInv, deleteVars
<1>6. CalmInv'
  BY <1>1, <1>2 DEF CalmInv
<1>7. ServerInv'
  BY <1>2 DEF ServerInv
<1> QED
  BY <1>3, <1>4, <1>5, <1>6, <1>7 DEF IInv

(* A new component is mounted; deletions of the old one go on.             *)
LEMMA RemountStep == ASSUME IInv, NEW v \in Views, Remount(v) PROVE IInv'
<1> DEFINE m == NewLoad(1, v, 0)
<1>1. /\ view' = v /\ yaml' = NoYaml /\ resources' = [view |-> v, names |-> {}]
      /\ selected' = {} /\ anchor' = NoKey /\ sort' = NoSort
      /\ loads' = {m} /\ loading' = TRUE /\ saving' = FALSE
      /\ deletions' = {[d EXCEPT !.orphan = TRUE] : d \in deletions}
      /\ calm' = TRUE
      /\ UNCHANGED <<filter, server, presses, asked, muddled, elsewhere, changed>>
  BY DEF Remount
<1>2. m \in Loads /\ m.view = v /\ m.at = "connections"
  BY ViewFacts, NewLoadFacts
<1> HIDE DEF m
<1>3. TableInv'
  BY <1>1 DEF IInv, TableInv, Sorts
<1>4. LoadInv'
  BY <1>1, <1>2, FS_Singleton DEF IInv, LoadInv
<1>5. ASSUME NEW e \in deletions'
      PROVE  /\ e \in Deletions /\ (e.reloads => e.left = {}) /\ e.left \subseteq e.targets
             /\ \E d \in deletions : e.yaml = d.yaml /\ e.kind = d.kind /\ e.left = d.left
  <2>1. PICK d \in deletions : e = [d EXCEPT !.orphan = TRUE]
    BY <1>1
  <2>2. d \in Deletions /\ (d.reloads => d.left = {}) /\ d.left \subseteq d.targets
    BY DEF IInv, DeletionInv
  <2> QED
    BY <2>1, <2>2 DEF Deletions
<1>6. DeletionInv'
  BY <1>1, <1>5 DEF IInv, DeletionInv
<1>7. AskedInv'
  BY <1>1, <1>5 DEF IInv, AskedInv
<1>8. CalmInv' /\ ServerInv'
  BY <1>1, <1>2 DEF CalmInv, ServerInv
<1> QED
  BY <1>3, <1>4, <1>6, <1>7, <1>8 DEF IInv

-----------------------------------------------------------------------------
(* The steps of the table.                                                 *)

(* The rows that are visible are the listed ones that the filter lets      *)
(* through.                                                                *)
LEMMA VisibleFacts ==
    ASSUME IInv
    PROVE  /\ Range(Visible) = resources.names \cap filter
           /\ \A i, j \in DOMAIN Visible : i < j => RowBefore(sort, Visible[i], Visible[j])
           /\ \A key \in Range(Visible) : \A from, shift :
                 Clicked(Visible, from, key, shift) \subseteq resources.names \cap filter
<1> DEFINE keys == resources.names \cap filter
<1>1. sort \in Sorts /\ keys \in SUBSET Names
  BY DEF IInv, TableInv
<1>2. Visible = Rows(keys, sort)
  BY DEF Visible, VisibleRows, TableRows
<1> HIDE DEF keys
<1>3. /\ Cardinality(keys) \in Nat /\ DOMAIN Visible = 1 .. Cardinality(keys)
      /\ Range(Visible) = keys
      /\ \A i, j \in DOMAIN Visible : i < j => RowBefore(sort, Visible[i], Visible[j])
  BY <1>1, <1>2, RowsFacts
<1>4. ASSUME NEW key \in Range(Visible), NEW from, NEW shift
      PROVE  Clicked(Visible, from, key, shift) \subseteq keys
  BY <1>3, ClickedVisible
<1> QED
  BY <1>3, <1>4 DEF keys

(* What the table does to its own state leaves the rest as it is.          *)
LEMMA TableStep ==
    ASSUME IInv, TableInv', UNCHANGED <<view, resources, yaml, loads, loading, deleteVars, calm,
                     elsewhere, changed>>
    PROVE  IInv'
<1>1. LoadInv' /\ DeletionInv' /\ CalmInv' /\ AskedInv'
  BY DEF IInv, LoadInv, DeletionInv, CalmInv, AskedInv, Coherent, deleteVars
<1>2. Drifted' = Drifted /\ server' = server
  BY DriftedFacts DEF deleteVars
<1>3. ServerInv'
  BY <1>2, Drifts
<1> QED
  BY <1>1, <1>3 DEF IInv

(* A click on a checkbox.                                                  *)
LEMMA ClickRowStep ==
    ASSUME IInv, NEW key \in Names, NEW shift \in BOOLEAN, ClickRow(key, shift)
    PROVE  /\ IInv'
           /\ \A n \in resources.names \ filter : n \in selected <=> n \in selected'
<1> DEFINE rows == ChangedRows(key, shift)
<1>1. /\ key \in Range(Visible)
      /\ selected' = IF key \notin selected THEN selected \cup rows ELSE selected \ rows
      /\ anchor' = key
      /\ UNCHANGED <<view, sort, filter, resources, yaml, loads, loading, deleteVars, calm,
                     elsewhere, changed>>
  BY DEF ClickRow, Checked, loadVars
<1>2. rows \subseteq resources.names \cap filter /\ key \in resources.names
  BY <1>1, VisibleFacts DEF ChangedRows
<1> HIDE DEF rows
<1>3. TableInv'
  BY <1>1, <1>2 DEF IInv, TableInv
<1> QED
  BY <1>1, <1>2, <1>3, TableStep

(* A click on the checkbox in the head.                                    *)
LEMMA ClickAllStep ==
    ASSUME IInv, ClickAll
    PROVE  /\ IInv'
           /\ \A n \in resources.names \ filter : n \in selected <=> n \in selected'
<1> DEFINE rows == Range(Visible)
<1>1. /\ selected' = selected \cup rows \/ selected' = selected \ rows
      /\ UNCHANGED <<view, anchor, sort, filter, resources, yaml, loads, loading, deleteVars, calm,
                     elsewhere, changed>>
  BY DEF ClickAll, AllVisible, Checked, loadVars
<1>2. rows = resources.names \cap filter
  BY VisibleFacts
<1> HIDE DEF rows
<1>3. TableInv'
  BY <1>1, <1>2 DEF IInv, TableInv
<1> QED
  BY <1>1, <1>2, <1>3, TableStep

(* A click on the head of a column.                                        *)
LEMMA ClickHeadStep ==
    ASSUME IInv, NEW column \in DOMAIN Cells, ClickHead(column)
    PROVE  IInv'
<1>1. /\ column \in ColumnsOf[view[2]] /\ sort' = ToggledSort(sort, column)
      /\ UNCHANGED <<view, selected, anchor, filter, resources, yaml, loads, loading, deleteVars, calm,
                     elsewhere, changed>>
  BY DEF ClickHead, loadVars
<1>2. sort' \in {[column |-> column, direction |-> "asc"], [column |-> column, direction |-> "desc"], NoSort}
  BY <1>1 DEF ToggledSort
<1>3. sort' \in Sorts /\ (sort' = NoSort \/ sort'.column = column)
  BY <1>2 DEF Sorts
<1>4. TableInv'
  BY <1>1, <1>3 DEF IInv, TableInv
<1> QED
  BY <1>1, <1>4, TableStep

(* Another text in the search field.                                       *)
LEMMA TypeFilterStep == ASSUME IInv, NEW f \in Filters, TypeFilter(f) PROVE IInv'
<1>1. /\ filter' = f /\ f \subseteq Names
      /\ UNCHANGED <<view, selected, anchor, sort, resources, yaml, loads, loading, deleteVars, calm,
                     elsewhere, changed>>
  BY RbacTableAssumption DEF TypeFilter, loadVars
<1>2. TableInv'
  BY <1>1 DEF IInv, TableInv
<1> QED
  BY <1>1, <1>2, TableStep

-----------------------------------------------------------------------------
(* The steps of a deletion.                                                *)

(* The button: what is selected is of the view, once the table has settled. *)
LEMMA PressDeleteStep == ASSUME IInv, PressDelete PROVE IInv'
<1> DEFINE d == [n |-> presses', view |-> view, yaml |-> yaml, kind |-> resources.view[2],
                 targets |-> selected, left |-> selected, reloads |-> FALSE, orphan |-> FALSE]
<1>1. /\ presses < MaxPresses /\ selected # {} /\ yaml # NoYaml
      /\ presses' = presses + 1 /\ saving' = TRUE
      /\ deletions' = deletions \cup {d}
      /\ asked' = asked \cup {<<view, n>> : n \in selected}
      /\ muddled' = (muddled \/ loads # {} \/ ~calm)
      /\ UNCHANGED <<view, tableVars, loadVars, server, switches, calm, elsewhere, changed>>
  BY DEF PressDelete, Targets
<1>2. /\ d \in Deletions /\ presses' \in 0 .. MaxPresses
      /\ d.yaml = yaml /\ d.kind = resources.view[2] /\ d.left = selected /\ d.targets = selected
      /\ ~d.reloads /\ ~d.orphan
  <2>1. presses' \in 1 .. MaxPresses /\ presses' \in 0 .. MaxPresses
    BY <1>1, ViewFacts DEF IInv, DeletionInv
  <2>2. view \in Views /\ yaml \in Clusters /\ resources.view[2] \in Kinds /\ selected \subseteq Names
    BY <1>1, ViewFacts DEF IInv, TableInv, LoadInv
  <2> QED
    BY <2>1, <2>2 DEF Deletions
<1> HIDE DEF d
<1>3. TableInv' /\ LoadInv' /\ CalmInv'
  BY <1>1 DEF IInv, TableInv, LoadInv, CalmInv, Coherent, tableVars, loadVars
<1>4. DeletionInv'
  <2>1. \E e \in deletions' : ~e.orphan
    BY <1>1, <1>2
  <2>2. /\ deletions' \subseteq Deletions
        /\ \A e \in deletions' : (e.reloads => e.left = {}) /\ e.left \subseteq e.targets
    BY <1>1, <1>2 DEF IInv, DeletionInv
  <2>3. muddled' \in BOOLEAN
    BY <1>1
  <2> QED
    BY <1>1, <1>2, <2>1, <2>2, <2>3 DEF IInv, DeletionInv
<1>5. AskedInv'
  <2> SUFFICES ASSUME ~muddled'
               PROVE  \A e \in deletions' : \A n \in e.left : <<<<e.yaml, e.kind>>, n>> \in asked'
    BY DEF AskedInv
  <2>1. ~muddled /\ loads = {} /\ calm
    BY <1>1
  <2>2. Coherent
    BY <2>1 DEF IInv, CalmInv
  <2>3. resources.names # {}
    BY <1>1 DEF IInv, TableInv
  <2>4. <<yaml, resources.view[2]>> = view
    <3>1. view \in Views
      BY DEF IInv, TableInv
    <3>2. yaml = view[1] /\ resources.view = view
      BY <1>1, <2>2, <2>3 DEF Coherent
    <3> QED
      BY <3>1, <3>2, ViewFacts
  <2>5. \A n \in d.left : <<<<d.yaml, d.kind>>, n>> \in asked'
    BY <1>1, <1>2, <2>4
  <2>6. \A e \in deletions : \A n \in e.left : <<<<e.yaml, e.kind>>, n>> \in asked'
    BY <1>1, <2>1 DEF IInv, AskedInv
  <2> QED
    BY <1>1, <2>5, <2>6
<1>6. ServerInv'
  <2>1. Drifted \subseteq Drifted'
    BY <1>1 DEF Drifted, Active, Unloaded
  <2> QED
    BY <1>1, <2>1, Drifts DEF loadVars
<1> QED
  BY <1>3, <1>4, <1>5, <1>6 DEF IInv

(* What a deletion says of itself.                                         *)
LEMMA DeletionFacts ==
    ASSUME IInv, NEW d \in deletions
    PROVE  /\ d \in Deletions /\ (d.reloads => d.left = {}) /\ d.left \subseteq d.targets
           /\ d.yaml \in Clusters /\ d.kind \in Kinds /\ d.left \subseteq Names
           /\ d.view \in Views /\ d.n \in 0 .. MaxPresses
<1>1. d \in Deletions /\ (d.reloads => d.left = {}) /\ d.left \subseteq d.targets
  BY DEF IInv, DeletionInv
<1>2. d.n \in 1 .. MaxPresses
  BY <1>1 DEF Deletions
<1> QED
  BY <1>1, <1>2, ViewFacts DEF Deletions

(* One resource is deleted: it was asked for, and it is still to be seen   *)
(* that the table is loaded again.                                         *)
LEMMA DeleteOneStep == ASSUME IInv, NEW d \in deletions, DeleteOne(d) PROVE IInv'
<1> DEFINE x == Min(d.left)
           e == [d EXCEPT !.left = @ \ {x}]
<1>1. /\ d.left # {}
      /\ server' = [server EXCEPT ![d.yaml][d.kind] = @ \ {x}]
      /\ deletions' = (deletions \ {d}) \cup {e}
      /\ changed' = IF d.orphan THEN changed \cup Unloaded(d, {x}) ELSE changed
      /\ UNCHANGED <<view, tableVars, loadVars, saving, presses, asked, muddled, switches,
                     elsewhere, calm>>
  BY DEF DeleteOne, TargetCluster
<1>2. x \in d.left
  BY <1>1, DeletionFacts, ViewFacts, LeastNatural
<1> HIDE DEF x
<1>3. /\ d \in Deletions /\ ~d.reloads /\ d.left \subseteq d.targets
      /\ e \in Deletions /\ ~e.reloads /\ e.orphan = d.orphan /\ e.targets = d.targets
      /\ e.yaml = d.yaml /\ e.kind = d.kind /\ e.left = d.left \ {x}
  BY <1>1, DeletionFacts DEF Deletions
<1> HIDE DEF e
<1>4. /\ server' \in [Clusters -> [Kinds -> SUBSET Names]]
      /\ \A c \in Clusters, k \in Kinds :
           server'[c][k] = IF c = d.yaml /\ k = d.kind THEN server[c][k] \ {x} ELSE server[c][k]
  BY <1>1, DeletionFacts DEF IInv, DeletionInv
<1>5. TableInv' /\ LoadInv' /\ CalmInv'
  BY <1>1 DEF IInv, TableInv, LoadInv, CalmInv, Coherent, tableVars, loadVars
<1>6. DeletionInv'
  <2>1. (\E q \in deletions : ~q.orphan) => \E q \in deletions' : ~q.orphan
    BY <1>1, <1>3
  <2>2. /\ deletions' \subseteq Deletions
        /\ \A q \in deletions' : (q.reloads => q.left = {}) /\ q.left \subseteq q.targets
    BY <1>1, <1>3 DEF IInv, DeletionInv
  <2>3. changed' \subseteq (Clusters \X Kinds) \X Names
    BY <1>1, <1>2, DeletionFacts DEF IInv, DeletionInv, Unloaded
  <2> QED
    BY <1>1, <1>4, <2>1, <2>2, <2>3 DEF IInv, DeletionInv
<1>7. AskedInv'
  BY <1>1, <1>3 DEF IInv, AskedInv
<1>8. ServerInv'
  <2>1. x \in d.targets \ e.left
    BY <1>2, <1>3
  <2>2. Active(e) <=> ~d.orphan
    BY <1>3 DEF Active
  <2>3. <<<<d.yaml, d.kind>>, x>> \in Drifted'
    <3>1. CASE d.orphan
      BY <1>1, <3>1 DEF Drifted, Unloaded
    <3>2. CASE ~d.orphan
      BY <1>1, <1>3, <2>1, <2>2, <3>2 DEF Drifted, Active, Unloaded
    <3> QED
      BY <3>1, <3>2
  <2>4. Drifted \subseteq Drifted'
    <3>1. changed \subseteq changed'
      BY <1>1
    <3>2. \A q \in deletions : Active(q) =>
             \E r \in deletions' : /\ Active(r)
                                   /\ Unloaded(q, q.targets \ q.left) \subseteq
                                        Unloaded(r, r.targets \ r.left)
      BY <1>1, <1>3 DEF Active, Unloaded
    <3> QED
      BY <3>1, <3>2 DEF Drifted, Active
  <2>5. ASSUME NEW v \in Views, NEW n \in Names
        PROVE  \/ n \in server[v[1]][v[2]] <=> n \in server'[v[1]][v[2]]
               \/ <<v, n>> \in Drifted'
    <3>1. v[1] \in Clusters /\ v[2] \in Kinds /\ v = <<v[1], v[2]>>
      BY ViewFacts
    <3>2. CASE v[1] = d.yaml /\ v[2] = d.kind /\ n = x
      BY <2>3, <3>1, <3>2
    <3>3. CASE ~(v[1] = d.yaml /\ v[2] = d.kind /\ n = x)
      BY <1>4, <3>1, <3>3
    <3> QED
      BY <3>2, <3>3
  <2> QED
    BY <1>1, <2>4, <2>5, Drifts DEF loadVars
<1> QED
  BY <1>5, <1>6, <1>7, <1>8 DEF IInv

(* A deletion that is over leaves the rest as it is.                       *)
LEMMA DeletionGone ==
    ASSUME IInv, NEW d \in deletions, deletions' = deletions \ {d}, saving' = AfterDeletion(d),
           changed' \subseteq (Clusters \X Kinds) \X Names, changed \subseteq changed',
           Active(d) => Unloaded(d, d.targets \ d.left) \subseteq changed',
           UNCHANGED <<view, tableVars, loadVars, server, presses, asked, muddled, calm, elsewhere>>
    PROVE  IInv'
<1>1. TableInv' /\ LoadInv' /\ CalmInv'
  BY DEF IInv, TableInv, LoadInv, CalmInv, Coherent, tableVars, loadVars
<1>2. DeletionInv'
  <2>1. saving' => \E q \in deletions' : ~q.orphan
    <3>1. CASE d.orphan
      <4>1. saving' = saving
        BY <3>1 DEF AfterDeletion
      <4>2. saving => \E q \in deletions : ~q.orphan
        BY DEF IInv, DeletionInv
      <4> QED
        BY <3>1, <4>1, <4>2
    <3>2. CASE ~d.orphan
      BY <3>2 DEF AfterDeletion
    <3> QED
      BY <3>1, <3>2
  <2>2. saving' \in BOOLEAN
    BY DEF IInv, DeletionInv, AfterDeletion
  <2> QED
    BY <2>1, <2>2 DEF IInv, DeletionInv
<1>3. AskedInv'
  BY DEF IInv, AskedInv
<1>4. ServerInv'
  <2>1. Drifted \subseteq Drifted'
    BY DEF Drifted, Active
  <2> QED
    BY <2>1, Drifts DEF loadVars
<1> QED
  BY <1>1, <1>2, <1>3, <1>4 DEF IInv

(* One of the resources is not deleted, or the load at the end is over.    *)
LEMMA DeletionOverStep ==
    ASSUME IInv, NEW d \in deletions, DeletionFails(d) \/ DeletionEnds(d)
    PROVE  IInv'
<1> USE DEF DeletionInv
<1>1. CASE DeletionFails(d)
  <2>1. Unloaded(d, d.targets \ d.left) \subseteq (Clusters \X Kinds) \X Names
    BY DeletionFacts DEF Unloaded, Deletions
  <2> QED
    BY <1>1, <2>1, DeletionGone DEF DeletionFails, IInv
<1>2. CASE DeletionEnds(d)
  <2>1. ~Active(d) /\ changed' = changed /\ changed \subseteq (Clusters \X Kinds) \X Names
    BY <1>2 DEF DeletionEnds, Active, IInv
  <2> QED
    BY <1>2, <2>1, DeletionGone DEF DeletionEnds
<1> QED
  BY <1>1, <1>2

(* All are deleted: what the button was pressed on is loaded, if the       *)
(* component is still there.                                               *)
LEMMA DeletionReloadsStep == ASSUME IInv, NEW d \in deletions, DeletionReloads(d) PROVE IInv'
<1> DEFINE e == [d EXCEPT !.reloads = TRUE]
<1>1. /\ d.left = {} /\ ~d.reloads /\ Cardinality(loads) < MaxLoads
      /\ deletions' = (deletions \ {d}) \cup {e}
      /\ IF d.orphan THEN UNCHANGED <<loads, loading, calm>>
                     ELSE BeginLoad(d.view, d.n, view)
      /\ UNCHANGED <<view, tableVars, yaml, resources, saving, server, presses,
                     asked, muddled, switches, elsewhere, changed>>
  BY DEF DeletionReloads
<1>2. /\ d \in Deletions /\ d.view \in Views /\ d.n \in 0 .. MaxPresses
      /\ e \in Deletions /\ e.reloads /\ e.orphan = d.orphan /\ e.left = {}
  BY <1>1, DeletionFacts DEF Deletions
<1> HIDE DEF e
<1>3. TableInv'
  BY <1>1 DEF IInv, TableInv, tableVars
<1>4. DeletionInv'
  <2>1. (\E q \in deletions : ~q.orphan) => \E q \in deletions' : ~q.orphan
    BY <1>1, <1>2
  <2>2. /\ deletions' \subseteq Deletions
        /\ \A q \in deletions' : (q.reloads => q.left = {}) /\ q.left \subseteq q.targets
    BY <1>1, <1>2 DEF IInv, DeletionInv
  <2> QED
    BY <1>1, <2>1, <2>2 DEF IInv, DeletionInv
<1>5. AskedInv'
  <2>1. \A q \in deletions' : q \in deletions \/ q.left = {}
    BY <1>1, <1>2
  <2> QED
    BY <1>1, <2>1 DEF IInv, AskedInv
<1>6. CASE d.orphan
  <2>1. UNCHANGED <<loads, loading, calm>>
    BY <1>1, <1>6
  <2>2. LoadInv' /\ CalmInv'
    BY <1>1, <2>1 DEF IInv, LoadInv, CalmInv, Coherent
  <2>3. Drifted \subseteq Drifted'
    BY <1>1, <1>2, <1>6 DEF Drifted, Active
  <2>4. ServerInv'
    BY <1>1, <2>1, <2>3, Drifts
  <2> QED
    BY <1>3, <1>4, <1>5, <2>2, <2>4 DEF IInv
<1>7. CASE ~d.orphan
  <2>1. /\ loads' \subseteq Loads /\ IsFiniteSet(loads') /\ loads' # {}
        /\ loading' = TRUE /\ calm' \in BOOLEAN
        /\ calm' => /\ d.view = view
                    /\ \E m \in loads' : loads' = {m} /\ m.view = d.view /\ m.at = "connections"
    BY <1>1, <1>2, <1>7, BeginLoadFacts
  <2>2. LoadInv'
    BY <1>1, <2>1 DEF IInv, LoadInv
  <2>3. CalmInv'
    BY <1>1, <2>1 DEF CalmInv
  <2>4. ServerInv'
    BY <2>1 DEF ServerInv
  <2> QED
    BY <1>3, <1>4, <1>5, <2>2, <2>3, <2>4 DEF IInv
<1> QED
  BY <1>6, <1>7

(* A change that is not the table's: recorded, and no row with it.         *)
LEMMA ElsewhereStep ==
    ASSUME IInv, NEW v \in Views, NEW x \in Names, ChangedElsewhere(v, x)
    PROVE  IInv'
<1> DEFINE held == server[v[1]][v[2]]
<1>1. /\ server' = [server EXCEPT ![v[1]][v[2]] = Toggled(held, x)]
      /\ changed' = changed \cup {<<v, x>>}
      /\ elsewhere' = elsewhere + 1
      /\ UNCHANGED <<view, tableVars, loadVars, saving, deletions, presses, asked, muddled,
                     switches, calm>>
  BY DEF ChangedElsewhere
<1>2. v[1] \in Clusters /\ v[2] \in Kinds /\ v = <<v[1], v[2]>>
  BY ViewFacts
<1>3. Toggled(held, x) \subseteq Names /\ \A n \in Names \ {x} : n \in Toggled(held, x) <=> n \in held
  BY <1>2 DEF IInv, DeletionInv, Toggled
<1>4. /\ server' \in [Clusters -> [Kinds -> SUBSET Names]]
      /\ \A c \in Clusters, k \in Kinds :
           server'[c][k] = IF c = v[1] /\ k = v[2] THEN Toggled(held, x) ELSE server[c][k]
  <2> HIDE DEF held
  <2> QED
    BY <1>1, <1>2, <1>3 DEF IInv, DeletionInv
<1>5. TableInv' /\ LoadInv' /\ CalmInv' /\ AskedInv'
  BY <1>1 DEF IInv, TableInv, LoadInv, CalmInv, AskedInv, Coherent, tableVars, loadVars
<1>6. DeletionInv'
  BY <1>1, <1>2, <1>4 DEF IInv, DeletionInv
<1>7. ServerInv'
  <2>1. Drifted \subseteq Drifted' /\ <<v, x>> \in Drifted'
    BY <1>1 DEF Drifted, Active, Unloaded
  <2>2. ASSUME NEW u \in Views, NEW n \in Names
        PROVE  \/ n \in server[u[1]][u[2]] <=> n \in server'[u[1]][u[2]]
               \/ <<u, n>> \in Drifted'
    <3>1. u[1] \in Clusters /\ u[2] \in Kinds /\ u = <<u[1], u[2]>>
      BY ViewFacts
    <3>2. CASE u = v /\ n = x
      BY <2>1, <3>2
    <3>3. CASE u = v /\ n # x
      BY <1>2, <1>3, <1>4, <3>3
    <3>4. CASE u # v
      BY <1>2, <1>4, <3>1, <3>4
    <3> QED
      BY <3>2, <3>3, <3>4
  <2> QED
    BY <1>1, <2>1, <2>2, Drifts DEF loadVars
<1> QED
  BY <1>5, <1>6, <1>7 DEF IInv

-----------------------------------------------------------------------------
(* The theorems.                                                           *)

(* Every step keeps the invariant.                                         *)
LEMMA IInvStep == IInv /\ [Next]_vars => IInv'
<1> SUFFICES ASSUME IInv, [Next]_vars PROVE IInv'
  OBVIOUS
<1>1. CASE UNCHANGED vars
  <2>1. TableInv'
    BY <1>1 DEF IInv, TableInv, vars, tableVars, loadVars
  <2> QED
    BY <1>1, <2>1, TableStep DEF vars, loadVars
<1>2. ASSUME NEW l \in loads,
             \/ ConnectionsArrive(l) \/ ConnectionMissing(l)
             \/ LoadFails(l) \/ HostLists(l) \/ ResourcesArrive(l)
      PROVE  IInv'
  BY <1>2, ConnectionsArriveStep, ConnectionMissingStep, LoadFailsStep, HostListsStep,
     ResourcesArriveStep
<1>3. ASSUME NEW v \in Views, SwitchView(v) \/ Remount(v) PROVE IInv'
  BY <1>3, SwitchViewStep, RemountStep
<1>4. ASSUME NEW key \in Names, NEW shift \in BOOLEAN, ClickRow(key, shift) PROVE IInv'
  BY <1>4, ClickRowStep
<1>5. CASE ClickAll \/ PressDelete
  BY <1>5, ClickAllStep, PressDeleteStep
<1>6. ASSUME NEW column \in DOMAIN Cells, ClickHead(column) PROVE IInv'
  BY <1>6, ClickHeadStep
<1>7. ASSUME NEW f \in Filters, TypeFilter(f) PROVE IInv'
  BY <1>7, TypeFilterStep
<1>8. ASSUME NEW d \in deletions,
             DeleteOne(d) \/ DeletionFails(d) \/ DeletionReloads(d) \/ DeletionEnds(d)
      PROVE  IInv'
  BY <1>8, DeleteOneStep, DeletionOverStep, DeletionReloadsStep
<1>9. ASSUME NEW v \in Views, NEW x \in Names, ChangedElsewhere(v, x) PROVE IInv'
  BY <1>9, ElsewhereStep
<1> QED
  BY <1>1, <1>2, <1>3, <1>4, <1>5, <1>6, <1>7, <1>8, <1>9 DEF Next

(* The invariant holds in every state.                                     *)
LEMMA IInvAlways == Spec => []IInv
BY IInvInit, IInvStep, PTL DEF Spec

(* The selection and the anchor are rows that are listed, the sort is by a *)
(* column that is shown, and neither "loading" nor "saving" is shown for   *)
(* nothing.                                                                *)
THEOREM SelectionAlwaysListed == Spec => []SelectionListed
<1>1. IInv => SelectionListed
  BY IInvImplies
<1> QED
  BY <1>1, IInvAlways, PTL

(* An editor opened on a table that has settled is given a resource and a  *)
(* configuration of one cluster.                                           *)
THEOREM PayloadsCoherent == Spec => []PayloadCoherent
<1>1. IInv => PayloadCoherent
  BY IInvImplies
<1> QED
  BY <1>1, IInvAlways, PTL

(* A name that the cluster loses in a step that is not another's was seen  *)
(* selected.                                                               *)
LEMMA AskedStep ==
    ASSUME IInv, [Next]_vars, ~muddled, elsewhere' = elsewhere,
           NEW c \in Clusters, NEW k \in Kinds, NEW n \in server[c][k] \ server'[c][k]
    PROVE  <<<<c, k>>, n>> \in asked
<1> SUFFICES ASSUME server' # server
             PROVE  <<<<c, k>>, n>> \in asked
  OBVIOUS
<1>1. CASE UNCHANGED vars
  BY <1>1 DEF vars, deleteVars
<1>2. ASSUME NEW l \in loads,
             \/ ConnectionsArrive(l) \/ ConnectionMissing(l)
             \/ LoadFails(l) \/ HostLists(l) \/ ResourcesArrive(l)
      PROVE  FALSE
  BY <1>2
     DEF ConnectionsArrive, ConnectionMissing, LoadFails, HostLists, ResourcesArrive, deleteVars
<1>3. ASSUME NEW v \in Views, SwitchView(v) \/ Remount(v) PROVE FALSE
  BY <1>3 DEF SwitchView, Remount, deleteVars
<1>4. ASSUME NEW key \in Names, NEW shift \in BOOLEAN, ClickRow(key, shift) PROVE FALSE
  BY <1>4 DEF ClickRow, deleteVars
<1>5. CASE ClickAll \/ PressDelete
  BY <1>5 DEF ClickAll, PressDelete, deleteVars
<1>6. ASSUME NEW column \in DOMAIN Cells, ClickHead(column) PROVE FALSE
  BY <1>6 DEF ClickHead, deleteVars
<1>7. ASSUME NEW f \in Filters, TypeFilter(f) PROVE FALSE
  BY <1>7 DEF TypeFilter, deleteVars
<1>8. ASSUME NEW d \in deletions, DeletionFails(d) \/ DeletionReloads(d) \/ DeletionEnds(d)
      PROVE  FALSE
  BY <1>8 DEF DeletionFails, DeletionReloads, DeletionEnds
<1>9. ASSUME NEW d \in deletions, DeleteOne(d) PROVE <<<<c, k>>, n>> \in asked
  <2> DEFINE x == Min(d.left)
  <2>1. x \in d.left
    BY <1>9, DeletionFacts, ViewFacts, LeastNatural DEF DeleteOne
  <2>2. server' = [server EXCEPT ![d.yaml][d.kind] = @ \ {x}]
    BY <1>9 DEF DeleteOne, TargetCluster
  <2> HIDE DEF x
  <2>3. c = d.yaml /\ k = d.kind /\ n = x
    BY <2>2 DEF IInv, DeletionInv
  <2> QED
    BY <2>1, <2>3 DEF IInv, AskedInv
<1>10. ASSUME NEW v \in Views, NEW x \in Names, ChangedElsewhere(v, x) PROVE FALSE
  <2>1. elsewhere' = elsewhere + 1 /\ elsewhere \in Nat
    BY <1>10 DEF ChangedElsewhere, IInv, DeletionInv
  <2> QED
    BY <2>1
<1> QED
  BY <1>1, <1>2, <1>3, <1>4, <1>5, <1>6, <1>7, <1>8, <1>9, <1>10 DEF Next

(* What the table deletes was seen selected, however the view and the      *)
(* cluster change meanwhile.                                               *)
THEOREM DeletesWhatWasAsked == Spec => OnlyAskedDeleted
<1>1. IInv /\ [Next]_vars =>
        [~muddled /\ elsewhere' = elsewhere => \A c \in Clusters, k \in Kinds :
           \A n \in server[c][k] \ server'[c][k] : <<<<c, k>>, n>> \in asked]_vars
  BY AskedStep
<1> QED
  BY <1>1, IInvAlways, PTL DEF Spec, OnlyAskedDeleted

(* A table that has settled is outdated only in what changed elsewhere, in *)
(* a deletion that failed or in one of a component that is gone.           *)
THEOREM TableShowsServer == Spec => []ShowsServer
<1>1. IInv => ShowsServer
  BY IInvImplies
<1> QED
  BY <1>1, IInvAlways, PTL

(* A click on the table leaves the selection of hidden rows alone.         *)
LEMMA HiddenStep ==
    ASSUME IInv, [Next]_vars, resources' = resources, loads' = loads,
           NEW n \in resources.names \ filter
    PROVE  n \in selected <=> n \in selected'
<1>1. CASE UNCHANGED vars
  BY <1>1 DEF vars, tableVars
<1>2. ASSUME NEW l \in loads,
             \/ ConnectionMissing(l) \/ LoadFails(l) \/ ResourcesArrive(l)
      PROVE  FALSE
  BY <1>2 DEF ConnectionMissing, LoadFails, ResourcesArrive, EndLoad
<1>3. ASSUME NEW l \in loads, ConnectionsArrive(l) \/ HostLists(l)
      PROVE  selected' = selected
  BY <1>3 DEF ConnectionsArrive, HostLists, tableVars
<1>4. ASSUME NEW v \in Views, SwitchView(v) PROVE selected' = selected
  BY <1>4 DEF SwitchView
<1>5. ASSUME NEW v \in Views, Remount(v) PROVE FALSE
  BY <1>5 DEF Remount
<1>6. ASSUME NEW key \in Names, NEW shift \in BOOLEAN, ClickRow(key, shift)
      PROVE  n \in selected <=> n \in selected'
  BY <1>6, ClickRowStep
<1>7. CASE ClickAll
  BY <1>7, ClickAllStep
<1>8. ASSUME NEW column \in DOMAIN Cells, ClickHead(column) PROVE selected' = selected
  BY <1>8 DEF ClickHead
<1>9. ASSUME NEW f \in Filters, TypeFilter(f) PROVE selected' = selected
  BY <1>9 DEF TypeFilter
<1>10. CASE PressDelete
  BY <1>10 DEF PressDelete, tableVars
<1>11. ASSUME NEW d \in deletions,
              DeleteOne(d) \/ DeletionFails(d) \/ DeletionReloads(d) \/ DeletionEnds(d)
       PROVE  selected' = selected
  BY <1>11 DEF DeleteOne, DeletionFails, DeletionReloads, DeletionEnds, tableVars
<1>12. ASSUME NEW v \in Views, NEW x \in Names, ChangedElsewhere(v, x)
       PROVE  selected' = selected
  BY <1>12 DEF ChangedElsewhere, tableVars
<1> QED
  BY <1>1, <1>2, <1>3, <1>4, <1>5, <1>6, <1>7, <1>8, <1>9, <1>10, <1>11, <1>12 DEF Next

(* What the search hides keeps its selection, whatever is clicked.         *)
THEOREM HiddenRowsUntouched == Spec => HiddenUntouched
<1>1. IInv /\ [Next]_vars =>
        [resources' = resources /\ loads' = loads =>
           \A n \in resources.names \ filter : n \in selected <=> n \in selected']_vars
  BY HiddenStep
<1> QED
  BY <1>1, IInvAlways, PTL DEF Spec, HiddenUntouched

=============================================================================
