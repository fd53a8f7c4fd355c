----------------------- MODULE RequestVerifierProofs -----------------------
(***************************************************************************)
(* Proofs about RequestVerifier, for every skew window, every set of nonce *)
(* keys and every clock that is set back by less than the window.          *)
(***************************************************************************)
EXTENDS RequestVerifier, TLAPS

Entry == [key : NonceKey, timestamp : Time, at : Time]

\* No nonce key stands in the queue twice.
KeysDistinct ==
    \A i, j \in 1 .. Len(order) : order[i].key = order[j].key => i = j

\* What was accepted is remembered, or too old for any time the clock can
\* show from now on.
Guarded ==
    \A a \in accepted : a \in seen \/ a.timestamp + 2 * Skew <= high

ClockOK == high - Drift <= now /\ now <= high

\* When an entry was appended, and in which order, as far as the clock says.
Appended ==
    /\ \A i \in 1 .. Len(order) :
          order[i].at <= high /\ order[i].timestamp <= order[i].at + Skew
    /\ \A i, j \in 1 .. Len(order) : i < j => order[j].at >= order[i].at - Drift

Inv ==
    /\ TypeOK
    /\ ClockOK
    /\ KeysDistinct
    /\ QueueMatchesTable
    /\ Guarded
    /\ NoReplay
    /\ Appended

(* What pruning leaves is the queue from position k + 1 on.                *)
LEMMA KeptFacts ==
    ASSUME order \in Seq(Entry), NEW k \in 0 .. Len(order)
    PROVE  /\ Kept(k) \in Seq(Entry)
           /\ Len(Kept(k)) = Len(order) - k
           /\ \A i \in 1 .. Len(order) - k : Kept(k)[i] = order[i + k]
<1>1. Kept(k) \in Seq(Entry)
  BY DEF Kept
<1>2. Len(Kept(k)) = Len(order) - k
  BY DEF Kept
<1>3. ASSUME NEW i \in 1 .. Len(order) - k PROVE Kept(k)[i] = order[i + k]
  BY <1>3 DEF Kept
<1> QED
  BY <1>1, <1>2, <1>3

(* Pruning keeps table and queue in step: a forgotten item stands nowhere  *)
(* else in the queue, because no key does.                                 *)
LEMMA PruneInStep ==
    ASSUME order \in Seq(Entry), KeysDistinct, QueueMatchesTable,
           NEW k \in 0 .. Len(order)
    PROVE  Remembered(k) = {ItemOf(Kept(k)[i]) : i \in 1 .. Len(Kept(k))}
<1>1. ASSUME NEW e \in Remembered(k)
      PROVE  \E i \in 1 .. Len(Kept(k)) : e = ItemOf(Kept(k)[i])
  <2>1. PICK j \in 1 .. Len(order) : e = ItemOf(order[j])
    BY <1>1 DEF Remembered, QueueMatchesTable, Queued
  <2>2. j \notin 1 .. k
    BY <1>1, <2>1 DEF Remembered
  <2>3. j - k \in 1 .. Len(order) - k /\ (j - k) + k = j
    BY <2>2
  <2> QED
    BY <2>1, <2>3, KeptFacts
<1>2. ASSUME NEW i \in 1 .. Len(Kept(k))
      PROVE  ItemOf(Kept(k)[i]) \in Remembered(k)
  <2>1. i + k \in 1 .. Len(order) /\ Kept(k)[i] = order[i + k]
    BY KeptFacts
  <2>2. ItemOf(order[i + k]) \in seen
    BY <2>1 DEF QueueMatchesTable, Queued
  <2>3. ASSUME NEW j \in 1 .. k PROVE ItemOf(order[j]) # ItemOf(order[i + k])
    <3>1. j \in 1 .. Len(order) /\ j # i + k
      OBVIOUS
    <3>2. order[j].key # order[i + k].key
      BY <2>1, <3>1 DEF KeysDistinct
    <3> QED
      BY <3>2 DEF ItemOf
  <2> QED
    BY <2>1, <2>2, <2>3 DEF Remembered
<1> QED
  BY <1>1, <1>2

(* An accepted request has not been accepted before: either its nonce is   *)
(* still remembered, or its timestamp has left the window for good.        *)
LEMMA AcceptedIsNew ==
    ASSUME Inv, NEW r \in Request, NEW k \in 0 .. Len(order), Drops(k),
           InWindow(r), Fresh(r, Remembered(k))
    PROVE  ItemOf(r) \notin accepted
<1> SUFFICES ASSUME ItemOf(r) \in accepted PROVE FALSE
  OBVIOUS
<1>1. /\ r.timestamp \in Int /\ now \in Int /\ high \in Int
      /\ Skew \in Nat /\ Skew > 0 /\ Drift \in Nat /\ Drift < Skew
  BY WindowAssumption DEF Inv, TypeOK, Request, Time
<1>2. now - r.timestamp <= Skew
  BY DEF InWindow
<1>3. CASE ItemOf(r) \in seen
  <2>1. ItemOf(r) \notin Remembered(k)
    BY DEF Fresh, ItemOf
  <2>2. PICK i \in 1 .. k : ItemOf(r) = ItemOf(order[i])
    BY <1>3, <2>1 DEF Remembered
  <2>3. r.timestamp <= now - 2 * Skew
    BY <2>2 DEF Drops, Cutoff, ItemOf
  <2> QED
    BY <1>1, <1>2, <2>3
<1>4. CASE r.timestamp + 2 * Skew <= high
  BY <1>1, <1>2, <1>4 DEF Inv, ClockOK
<1> QED
  BY <1>3, <1>4 DEF Inv, Guarded, ItemOf

(* The fields of an entry of the queue are numbers.                        *)
LEMMA EntryFields ==
    ASSUME TypeOK, NEW j \in 1 .. Len(order)
    PROVE  order[j] \in Entry /\ order[j].timestamp \in Int /\ order[j].at \in Int
<1>1. order \in Seq(Entry)
  BY DEF TypeOK, Entry
<1>2. order[j] \in Entry
  BY <1>1
<1> QED
  BY <1>2, WindowAssumption DEF Entry, Time

(* What is left of the queue after pruning was appended recently: its head *)
(* is inside twice the window, and nothing behind it is much older.        *)
LEMMA KeptIsRecent ==
    ASSUME Inv, NEW k \in 0 .. Len(order), Drops(k),
           NEW i \in 1 .. Len(Kept(k))
    PROVE  Kept(k)[i].at > now - 3 * Skew - Drift
<1>1. order \in Seq(Entry)
  BY DEF Inv, TypeOK, Entry
<1>2. i + k \in 1 .. Len(order) /\ Kept(k)[i] = order[i + k]
  BY <1>1, KeptFacts
<1>3. k + 1 \in 1 .. Len(order) /\ order[k + 1].timestamp > now - 2 * Skew
  BY <1>1, <1>2 DEF Drops, Cutoff
<1>4. /\ order[k + 1].timestamp \in Int /\ order[k + 1].at \in Int
      /\ order[i + k].at \in Int
      /\ now \in Int /\ Skew \in Int /\ Drift \in Nat
  <2>1. now \in Int /\ Skew \in Int /\ Drift \in Nat
    BY WindowAssumption DEF Inv, TypeOK, Time
  <2> QED
    BY <1>2, <1>3, <2>1, EntryFields DEF Inv
<1>5. order[k + 1].timestamp <= order[k + 1].at + Skew
  BY <1>3 DEF Inv, Appended
<1>6. order[i + k].at >= order[k + 1].at - Drift
  <2>1. CASE i = 1
    BY <2>1, <1>4
  <2>2. CASE i # 1
    <3>1. k + 1 < i + k
      BY <2>2
    <3> QED
      BY <3>1, <1>2, <1>3 DEF Inv, Appended
  <2> QED
    BY <2>1, <2>2
<1>7. order[i + k].at > now - 3 * Skew - Drift
  BY <1>3, <1>4, <1>5, <1>6
<1> QED
  BY <1>2, <1>7

-----------------------------------------------------------------------------
(* The invariant is inductive.                                             *)

(* A server that has just started has accepted nothing.                    *)
LEMMA InitInv == Init => Inv
<1> SUFFICES ASSUME Init PROVE Inv
  OBVIOUS
<1>1. order = <<>> /\ Len(order) = 0
  BY DEF Init
<1>2. TypeOK /\ ClockOK
  BY <1>1, WindowAssumption DEF Init, TypeOK, ClockOK, Time
<1>3. KeysDistinct /\ Appended
  BY <1>1 DEF KeysDistinct, Appended
<1>4. QueueMatchesTable /\ Guarded /\ NoReplay
  BY <1>1 DEF Init, QueueMatchesTable, Queued, Guarded, NoReplay
<1> QED
  BY <1>2, <1>3, <1>4 DEF Inv

(* A refused request prunes and changes nothing else.                      *)
LEMMA RefuseInv ==
    ASSUME Inv, NEW k \in 0 .. Len(order), Drops(k), Refuse(k),
           UNCHANGED <<now, high>>
    PROVE  Inv'
<1>1. order \in Seq(Entry)
  BY DEF Inv, TypeOK, Entry
<1>2. /\ order' \in Seq(Entry)
      /\ Len(order') = Len(order) - k
      /\ \A i \in 1 .. Len(order') : i + k \in 1 .. Len(order) /\ order'[i] = order[i + k]
  BY <1>1, KeptFacts DEF Refuse
<1>3. TypeOK'
  BY <1>2 DEF Inv, TypeOK, Refuse, Remembered, Entry
<1>4. ClockOK' /\ NoReplay'
  BY DEF Inv, ClockOK, NoReplay, Refuse
<1>5. KeysDistinct'
  BY <1>2 DEF Inv, KeysDistinct
<1>6. QueueMatchesTable'
  BY <1>1, <1>2, PruneInStep DEF Inv, QueueMatchesTable, Queued, Refuse
<1>7. Appended'
  <2>1. ASSUME NEW i \in 1 .. Len(order')
        PROVE  order'[i].at <= high /\ order'[i].timestamp <= order'[i].at + Skew
    BY <1>2 DEF Inv, Appended
  <2>2. ASSUME NEW i \in 1 .. Len(order'), NEW j \in 1 .. Len(order'), i < j
        PROVE  order'[j].at >= order'[i].at - Drift
    <3>1. i + k < j + k
      BY <1>2, <2>2
    <3> QED
      BY <1>2, <3>1 DEF Inv, Appended
  <2> QED
    BY <2>1, <2>2 DEF Appended
<1>8. Guarded'
  <2> SUFFICES ASSUME NEW a \in accepted PROVE a \in Remembered(k) \/ a.timestamp + 2 * Skew <= high
    BY DEF Guarded, Refuse
  <2>1. CASE a \in seen /\ a \notin Remembered(k)
    <3>1. PICK i \in 1 .. k : a = ItemOf(order[i])
      BY <2>1 DEF Remembered
    <3>2. a.timestamp <= now - 2 * Skew
      BY <3>1 DEF Drops, Cutoff, ItemOf
    <3>3. a.timestamp \in Int /\ now \in Int /\ high \in Int /\ Skew \in Int
      BY WindowAssumption DEF Inv, TypeOK, Item, Time
    <3> QED
      BY <3>2, <3>3 DEF Inv, ClockOK
  <2>2. CASE a \notin seen
    BY <2>2 DEF Inv, Guarded
  <2> QED
    BY <2>1, <2>2
<1> QED
  BY <1>3, <1>4, <1>5, <1>6, <1>7, <1>8 DEF Inv

(* An accepted request prunes and is appended; its key was in neither.     *)
LEMMA AcceptInv ==
    ASSUME Inv, NEW r \in Request, NEW k \in 0 .. Len(order), Drops(k),
           InWindow(r), Fresh(r, Remembered(k)), Accept(r, k),
           UNCHANGED <<now, high>>
    PROVE  Inv'
<1> DEFINE n == Len(order) - k
           e == [key |-> r.key, timestamp |-> r.timestamp, at |-> now]
<1>1. order \in Seq(Entry)
  BY DEF Inv, TypeOK, Entry
<1>2. e \in Entry /\ ItemOf(e) = ItemOf(r) /\ ItemOf(r) \in Item
  BY DEF Inv, TypeOK, Entry, Request, ItemOf, Item
<1>3. /\ order' \in Seq(Entry)
      /\ n \in Nat
      /\ Len(order') = n + 1
      /\ order'[n + 1] = e
      /\ \A i \in 1 .. n : /\ i + k \in 1 .. Len(order)
                           /\ order'[i] = order[i + k]
                           /\ order'[i] = Kept(k)[i]
  <2>1. order' = Append(Kept(k), e)
    BY DEF Accept
  <2>2. Kept(k) \in Seq(Entry) /\ Len(Kept(k)) = n /\ n \in Nat
    BY <1>1, KeptFacts
  <2>3. order' \in Seq(Entry) /\ Len(order') = n + 1 /\ order'[n + 1] = e
    BY <1>2, <2>1, <2>2
  <2>4. ASSUME NEW i \in 1 .. n
        PROVE  /\ i + k \in 1 .. Len(order)
               /\ order'[i] = order[i + k]
               /\ order'[i] = Kept(k)[i]
    <3>1. order'[i] = Kept(k)[i]
      BY <2>1, <2>2, <1>2
    <3> QED
      BY <1>1, <3>1, KeptFacts
  <2> QED
    BY <2>2, <2>3, <2>4
<1>4. TypeOK'
  BY <1>2, <1>3 DEF Inv, TypeOK, Accept, Remembered, Entry
<1>5. ClockOK'
  BY DEF Inv, ClockOK
<1>6. NoReplay'
  BY AcceptedIsNew DEF Inv, NoReplay, Accept
<1>7. seen' = {ItemOf(Kept(k)[i]) : i \in 1 .. n} \cup {ItemOf(e)}
  BY <1>1, <1>2, PruneInStep, KeptFacts DEF Inv, Accept
<1>8. KeysDistinct'
  <2>1. ASSUME NEW i \in 1 .. n PROVE order'[i].key # e.key
    <3>1. ItemOf(Kept(k)[i]) \in Remembered(k)
      BY <1>1, PruneInStep, KeptFacts DEF Inv
    <3> QED
      BY <1>3, <3>1 DEF Fresh, ItemOf
  <2>2. ASSUME NEW i \in 1 .. n, NEW j \in 1 .. n, order'[i].key = order'[j].key
        PROVE  i = j
    BY <1>3, <2>2 DEF Inv, KeysDistinct
  <2> SUFFICES ASSUME NEW i \in 1 .. n + 1, NEW j \in 1 .. n + 1,
                      order'[i].key = order'[j].key
               PROVE  i = j
    BY <1>3 DEF KeysDistinct
  <2>3. CASE i \in 1 .. n /\ j \in 1 .. n
    BY <2>2, <2>3
  <2>4. CASE i = n + 1 /\ j \in 1 .. n
    BY <1>3, <2>1, <2>4
  <2>5. CASE j = n + 1 /\ i \in 1 .. n
    BY <1>3, <2>1, <2>5
  <2> QED
    BY <1>3, <2>3, <2>4, <2>5
<1>9. QueueMatchesTable'
  <2>1. Queued' = {ItemOf(order'[i]) : i \in 1 .. n + 1}
    BY <1>3 DEF Queued, ItemOf
  <2>2. ASSUME NEW i \in 1 .. n + 1 PROVE ItemOf(order'[i]) \in seen'
    <3>1. CASE i \in 1 .. n
      BY <1>3, <1>7, <3>1
    <3>2. CASE i = n + 1
      BY <1>3, <1>7, <3>2
    <3> QED
      BY <1>3, <3>1, <3>2
  <2>3. ASSUME NEW x \in seen' PROVE \E i \in 1 .. n + 1 : x = ItemOf(order'[i])
    <3>1. CASE x = ItemOf(e)
      BY <1>3, <3>1
    <3>2. CASE \E i \in 1 .. n : x = ItemOf(Kept(k)[i])
      <4>1. PICK i \in 1 .. n : x = ItemOf(Kept(k)[i])
        BY <3>2
      <4>2. i \in 1 .. n + 1 /\ x = ItemOf(order'[i])
        BY <1>3, <4>1
      <4> QED
        BY <4>2
    <3> QED
      BY <1>7, <3>1, <3>2
  <2> QED
    BY <2>1, <2>2, <2>3 DEF QueueMatchesTable
<1>10. Guarded'
  <2> SUFFICES ASSUME NEW a \in accepted, a # ItemOf(r)
               PROVE  a \in Remembered(k) \/ a.timestamp + 2 * Skew <= high
    BY DEF Guarded, Accept
  <2>1. CASE a \in seen /\ a \notin Remembered(k)
    <3>1. PICK i \in 1 .. k : a = ItemOf(order[i])
      BY <2>1 DEF Remembered
    <3>2. a.timestamp <= now - 2 * Skew
      BY <3>1 DEF Drops, Cutoff, ItemOf
    <3>3. a.timestamp \in Int /\ now \in Int /\ high \in Int /\ Skew \in Int
      BY WindowAssumption DEF Inv, TypeOK, Item, Time
    <3> QED
      BY <3>2, <3>3 DEF Inv, ClockOK
  <2>2. CASE a \notin seen
    BY <2>2 DEF Inv, Guarded
  <2> QED
    BY <2>1, <2>2
<1>11. Appended'
  <2>1. /\ now \in Int /\ high \in Int /\ Skew \in Int /\ Drift \in Int
        /\ r.timestamp \in Int /\ now <= high /\ now >= high - Drift
        /\ r.timestamp <= now + Skew
    BY WindowAssumption DEF Inv, TypeOK, ClockOK, Time, Request, InWindow
  <2>2. ASSUME NEW i \in 1 .. n + 1
        PROVE  order'[i].at <= high /\ order'[i].timestamp <= order'[i].at + Skew
    <3>1. CASE i \in 1 .. n
      BY <1>3, <3>1 DEF Inv, Appended
    <3>2. CASE i = n + 1
      BY <1>3, <2>1, <3>2
    <3> QED
      BY <1>3, <3>1, <3>2
  <2>3. ASSUME NEW i \in 1 .. n + 1, NEW j \in 1 .. n + 1, i < j
        PROVE  order'[j].at >= order'[i].at - Drift
    <3>1. CASE j \in 1 .. n
      <4>1. i \in 1 .. n /\ i + k < j + k
        BY <1>3, <2>3, <3>1
      <4> QED
        BY <1>3, <3>1, <4>1 DEF Inv, Appended
    <3>2. CASE j = n + 1
      <4>1. i \in 1 .. n
        BY <1>3, <2>3, <3>2
      <4>2. order'[i].at \in Int /\ order'[i].at <= high
        BY <1>3, <2>2, <4>1, EntryFields DEF Inv
      <4>3. order'[j].at = now
        BY <1>3, <3>2
      <4> QED
        BY <2>1, <4>2, <4>3
    <3>3. j \in 1 .. n \/ j = n + 1
      <4>1. n \in Nat
        BY <1>3
      <4> HIDE DEF n
      <4> QED
        BY <4>1
    <3> QED
      BY <3>1, <3>2, <3>3
  <2> QED
    BY <1>3, <2>2, <2>3 DEF Appended
<1> QED
  BY <1>4, <1>5, <1>6, <1>8, <1>9, <1>10, <1>11 DEF Inv

(* verify, Restart and the clock preserve the invariant.                   *)
LEMMA NextInv == Inv /\ [Next]_vars => Inv'
<1> SUFFICES ASSUME Inv, [Next]_vars PROVE Inv'
  OBVIOUS
<1>1. ASSUME NEW r \in Request, verify(r) PROVE Inv'
  <2>1. PICK k \in 0 .. Len(order) :
          /\ Drops(k)
          /\ IF InWindow(r) /\ Fresh(r, Remembered(k)) /\ r.valid
             THEN Accept(r, k) ELSE Refuse(k)
    BY <1>1 DEF verify
  <2>2. UNCHANGED <<now, high>>
    BY <1>1 DEF verify
  <2>3. CASE InWindow(r) /\ Fresh(r, Remembered(k)) /\ r.valid
    BY <2>1, <2>2, <2>3, AcceptInv
  <2>4. CASE ~(InWindow(r) /\ Fresh(r, Remembered(k)) /\ r.valid)
    BY <2>1, <2>2, <2>4, RefuseInv
  <2> QED
    BY <2>3, <2>4
<1>2. CASE Restart
  <2>1. order' = <<>> /\ Len(order') = 0
    BY <1>2 DEF Restart
  <2>2. TypeOK' /\ ClockOK' /\ NoReplay'
    BY <1>2, <2>1 DEF Restart, Inv, TypeOK, ClockOK, NoReplay
  <2>3. KeysDistinct' /\ Appended'
    BY <2>1 DEF KeysDistinct, Appended
  <2>4. QueueMatchesTable' /\ Guarded'
    BY <1>2, <2>1 DEF Restart, QueueMatchesTable, Queued, Guarded
  <2> QED
    BY <2>2, <2>3, <2>4 DEF Inv
<1>3. ASSUME NEW t \in Time, ClockMoves(t) PROVE Inv'
  <2>1. TypeOK' /\ KeysDistinct' /\ QueueMatchesTable' /\ NoReplay'
    BY <1>3 DEF ClockMoves, Inv, TypeOK, KeysDistinct, QueueMatchesTable, Queued, NoReplay
  <2>2. /\ high \in Int /\ high' \in Int /\ now' \in Int /\ Drift \in Nat
        /\ high' >= high
    BY <1>3, WindowAssumption DEF ClockMoves, Inv, TypeOK, Time
  <2>3. ClockOK'
    BY <1>3, <2>2 DEF ClockMoves, ClockOK
  <2>4. Guarded'
    <3> SUFFICES ASSUME NEW a \in accepted, a \notin seen
                 PROVE  a.timestamp + 2 * Skew <= high'
      BY <1>3 DEF ClockMoves, Guarded
    <3>1. a.timestamp + 2 * Skew <= high
      BY DEF Inv, Guarded
    <3>2. a.timestamp \in Int /\ Skew \in Int
      BY WindowAssumption DEF Inv, TypeOK, Item, Time
    <3> QED
      BY <2>2, <3>1, <3>2
  <2>5. Appended'
    <3>1. ASSUME NEW i \in 1 .. Len(order) PROVE order[i].at <= high'
      <4>1. order[i].at \in Int /\ order[i].at <= high
        BY EntryFields DEF Inv, Appended
      <4> QED
        BY <2>2, <4>1
    <3> QED
      BY <1>3, <3>1 DEF ClockMoves, Inv, Appended
  <2> QED
    BY <2>1, <2>3, <2>4, <2>5 DEF Inv
<1>4. CASE UNCHANGED vars
  BY <1>4 DEF vars, Inv, TypeOK, ClockOK, KeysDistinct, QueueMatchesTable, Queued,
              Guarded, NoReplay, Appended
<1> QED
  BY <1>1, <1>2, <1>3, <1>4 DEF Next

-----------------------------------------------------------------------------
(* NoReplay: no signed request passes RequestVerifier.verify twice while   *)
(* the server runs, for any window and any clock set back by less than it. *)
THEOREM NeverReplayed == Spec => []NoReplay
<1>1. Inv => NoReplay
  BY DEF Inv
<1> QED
  BY InitInv, NextInv, <1>1, PTL DEF Spec

(* QueueMatchesTable: _seen_nonce_at and _nonce_order hold the same items, *)
(* so no nonce is remembered that _prune will not drop.                    *)
THEOREM TableInStep == Spec => []QueueMatchesTable
<1>1. Inv => QueueMatchesTable
  BY DEF Inv
<1> QED
  BY InitInv, NextInv, <1>1, PTL DEF Spec

(* HistoryBounded: whatever verify leaves in the queue was accepted less   *)
(* than three windows (and a drift) ago.                                   *)
THEOREM TableBounded == Spec => HistoryBounded
<1> DEFINE Step == order' # order =>
                     \A i \in DOMAIN order' : order'[i].at > now - 3 * Skew - Drift
<1>1. Inv /\ [Next]_vars => [Step]_vars
  <2> SUFFICES ASSUME Inv, Next PROVE Step
    OBVIOUS
  <2>1. ASSUME NEW r \in Request, verify(r) PROVE Step
    <3>1. PICK k \in 0 .. Len(order) : Drops(k) /\ (Accept(r, k) \/ Refuse(k))
      BY <2>1 DEF verify
    <3>2. order \in Seq(Entry)
      BY DEF Inv, TypeOK, Entry
    <3>3. Kept(k) \in Seq(Entry) /\ Len(Kept(k)) \in Nat
      BY <3>2, KeptFacts
    <3>4. CASE Refuse(k)
      <4>1. DOMAIN order' = 1 .. Len(Kept(k)) /\ order' = Kept(k)
        BY <3>3, <3>4 DEF Refuse
      <4> QED
        BY <3>1, <4>1, KeptIsRecent
    <3>5. CASE Accept(r, k)
      <4> DEFINE e == [key |-> r.key, timestamp |-> r.timestamp, at |-> now]
      <4>1. order' = Append(Kept(k), e)
        BY <3>5 DEF Accept
      <4>2. DOMAIN order' = 1 .. Len(Kept(k)) + 1 /\ order'[Len(Kept(k)) + 1] = e
        BY <3>3, <4>1
      <4>3. ASSUME NEW i \in 1 .. Len(Kept(k)) PROVE order'[i] = Kept(k)[i]
        BY <3>3, <4>1
      <4>4. e.at = now /\ now > now - 3 * Skew - Drift
        BY WindowAssumption DEF Inv, TypeOK, Time
      <4>5. ASSUME NEW i \in 1 .. Len(Kept(k)) + 1
            PROVE  order'[i].at > now - 3 * Skew - Drift
        <5>1. CASE i \in 1 .. Len(Kept(k))
          BY <3>1, <4>3, <5>1, KeptIsRecent
        <5>2. CASE i = Len(Kept(k)) + 1
          BY <4>2, <4>4, <5>2
        <5> QED
          BY <3>3, <5>1, <5>2
      <4> QED
        BY <4>2, <4>5
    <3> QED
      BY <3>1, <3>4, <3>5
  <2>2. CASE Restart
    BY <2>2 DEF Restart
  <2>3. ASSUME NEW t \in Time, ClockMoves(t) PROVE Step
    BY <2>3 DEF ClockMoves
  <2> QED
    BY <2>1, <2>2, <2>3 DEF Next
<1> QED
  BY InitInv, NextInv, <1>1, PTL DEF Spec, HistoryBounded
=============================================================================
