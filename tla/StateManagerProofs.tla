------------------------ MODULE StateManagerProofs ------------------------
(***************************************************************************)
(* Proofs about StateManager for every set of node ids, keys and groups    *)
(* and every bound on versions and epochs.                                 *)
(***************************************************************************)
EXTENDS StateManager, TLAPS

\* What the rank compares: any record with these four fields.
RankedFields(s) ==
    /\ s.version \in Nat
    /\ s.leader_epoch \in Nat
    /\ s.leader_node_id \in Nat
    /\ s.leader_pubkey \in Nat

(* The rank is a strict order on what it compares.                         *)
LEMMA RankTransitive ==
    ASSUME NEW r, NEW s, NEW t,
           RankedFields(r), RankedFields(s), RankedFields(t),
           RankBelow(r, s), RankBelow(s, t)
    PROVE  RankBelow(r, t)
BY DEF RankedFields, RankBelow, LeaderPrecedes

(* No state ranks below itself: RankBelow is strict.                       *)
LEMMA RankIrreflexive ==
    ASSUME NEW s, RankedFields(s)
    PROVE  ~RankBelow(s, s)
BY DEF RankedFields, RankBelow, LeaderPrecedes

(* An accepted state keeps the fingerprint or ranks strictly higher: the   *)
(* heart of _expected_signing_keys.                                        *)
LEMMA AcceptsRaisesRank ==
    ASSUME NEW cur, NEW new, NEW trusted, NEW verify,
           RankedFields(cur), RankedFields(new),
           Accepts(cur, new, trusted, verify)
    PROVE  /\ new.version >= cur.version
           /\ new.leader_epoch >= cur.leader_epoch
           /\ Fingerprint(cur) = Fingerprint(new) \/ RankBelow(cur, new)
<1>1. Admissible(cur, new, trusted)
  BY DEF Accepts
<1>2. new.version >= cur.version /\ new.leader_epoch >= cur.leader_epoch
  BY <1>1 DEF Admissible
<1>3. CASE SameTermContinues(cur, new)
  BY <1>2, <1>3 DEF SameTermContinues, SameLeader, Fingerprint, RankBelow, RankedFields
<1>4. CASE ConflictWon(cur, new)
  BY <1>2, <1>4 DEF ConflictWon, ConflictingClaim, RankBelow, RankedFields
<1>5. CASE LeaderRotation(cur, new, trusted)
  BY <1>5 DEF LeaderRotation, RankBelow, RankedFields
<1> QED
  BY <1>1, <1>2, <1>3, <1>4, <1>5 DEF Admissible

(* Everything the rank compares is a natural number.                       *)
LEMMA NumericSets ==
    /\ NodeId \subseteq Nat /\ Key \subseteq Nat
    /\ 1 .. MaxVersion \subseteq Nat /\ 1 .. MaxEpoch \subseteq Nat
<1>1. NodeId \subseteq Nat /\ Key \subseteq Nat
  BY IdAssumption
<1>2. 1 .. MaxVersion \subseteq Nat /\ 1 .. MaxEpoch \subseteq Nat
  BY BoundAssumption
<1> QED
  BY <1>1, <1>2

(* Every well-formed group state, and its fingerprint, can be ranked.      *)
LEMMA GroupStateRanked ==
    ASSUME NEW s \in GroupState
    PROVE  /\ RankedFields(s)
           /\ RankedFields(Fingerprint(s))
<1>1. /\ s.version \in 1 .. MaxVersion
      /\ s.leader_epoch \in 1 .. MaxEpoch
      /\ s.leader_node_id \in NodeId
      /\ s.leader_pubkey \in Key
  BY DEF GroupState
<1>2. RankedFields(s)
  BY <1>1, NumericSets DEF RankedFields
<1> QED
  BY <1>2 DEF RankedFields, Fingerprint

-----------------------------------------------------------------------------
(* The inductive invariant: everything given up ranks strictly below what  *)
(* is held.  NoReturn alone is not inductive, since it does not say why a  *)
(* state that was never held can not lead back to an abandoned one.        *)

AllBelow ==
    \A old \in abandoned : current_state # NoState /\ RankBelow(old, current_state)

Inv == TypeOK /\ AllBelow

(* bootstrap_state signs a well-formed state for every group.              *)
LEMMA BootstrapTyped ==
    ASSUME NEW g \in GroupId
    PROVE  BootstrapState(g) \in GroupState
BY IdAssumption, BoundAssumption DEF BootstrapState, GroupState, NodeRecord

(* A node that has stored nothing has given up nothing.                    *)
LEMMA InitInv == Init => Inv
BY DEF Init, Inv, TypeOK, AllBelow

(* bootstrap_state and replace_state preserve the invariant: the one gives *)
(* up nothing, the other only what ranks strictly below what it accepts.   *)
LEMMA NextInv == Inv /\ [Next]_vars => Inv'
<1> SUFFICES ASSUME Inv, [Next]_vars PROVE Inv'
  OBVIOUS
<1> USE DEF Inv
<1>1. ASSUME NEW g \in GroupId, bootstrap_state(g) PROVE Inv'
  BY <1>1, BootstrapTyped DEF bootstrap_state, TypeOK, AllBelow
<1>2. ASSUME NEW new \in GroupState, NEW trusted \in Key \cup {NoKey},
             NEW verify \in BOOLEAN, replace_state(new, trusted, verify)
      PROVE  Inv'
  <2>1. CASE current_state = NoState
    <3>1. abandoned = {}
      BY <2>1 DEF AllBelow
    <3> QED
      BY <1>2, <2>1, <3>1 DEF replace_state, TypeOK, AllBelow
  <2>2. CASE current_state # NoState
    <3>1. current_state \in GroupState
      BY <2>2 DEF TypeOK
    <3>2. Accepts(current_state, new, trusted, verify) /\ current_state' = new
      BY <1>2, <2>2 DEF replace_state, Replaceable
    <3>3. RankedFields(current_state) /\ RankedFields(new)
      BY <3>1, GroupStateRanked
    <3>4. Fingerprint(current_state) = Fingerprint(new) \/ RankBelow(current_state, new)
      BY <3>2, <3>3, AcceptsRaisesRank
    <3>5. TypeOK'
      BY <1>2, <3>1 DEF replace_state, TypeOK, GroupState, Fingerprint
    <3>6. new # NoState
      BY NoStateAssumption
    <3>7. CASE Fingerprint(current_state) = Fingerprint(new)
      <4>1. abandoned' = abandoned
        BY <1>2, <3>7 DEF replace_state
      <4>2. ASSUME NEW old \in abandoned PROVE RankBelow(old, new)
        BY <4>2, <3>7 DEF AllBelow, RankBelow, LeaderPrecedes, Fingerprint
      <4> QED
        BY <3>2, <3>5, <3>6, <4>1, <4>2 DEF AllBelow
    <3>8. CASE /\ Fingerprint(current_state) # Fingerprint(new)
               /\ RankBelow(current_state, new)
      <4>1. abandoned' = abandoned \cup {Fingerprint(current_state)}
        BY <1>2, <2>2, <3>8 DEF replace_state
      <4>2. RankBelow(Fingerprint(current_state), new)
        BY <3>8 DEF RankBelow, LeaderPrecedes, Fingerprint
      <4>3. ASSUME NEW old \in abandoned PROVE RankBelow(old, new)
        <5>1. RankedFields(old)
          <6>1. /\ old.version \in 1 .. MaxVersion
                /\ old.leader_epoch \in 1 .. MaxEpoch
                /\ old.leader_node_id \in NodeId
                /\ old.leader_pubkey \in Key
            BY DEF TypeOK
          <6> QED
            BY <6>1, NumericSets DEF RankedFields
        <5>2. RankBelow(old, current_state)
          BY DEF AllBelow
        <5> QED
          BY <5>1, <5>2, <3>3, <3>8, RankTransitive
      <4> QED
        BY <3>2, <3>5, <3>6, <4>1, <4>2, <4>3 DEF AllBelow
    <3> QED
      BY <3>4, <3>7, <3>8
  <2> QED
    BY <2>1, <2>2
<1>3. CASE UNCHANGED vars
  BY <1>3 DEF vars, TypeOK, AllBelow
<1> QED
  BY <1>1, <1>2, <1>3 DEF Next

(* TypeOK: the held state and the history stay well formed whatever is     *)
(* delivered to replace_state.                                             *)
THEOREM TypeCorrect == Spec => []TypeOK
<1>1. Inv => TypeOK
  BY DEF Inv
<1> QED
  BY InitInv, NextInv, <1>1, PTL DEF Spec

(* NoReturn: a fingerprint a node has given up is never current again,     *)
(* for any deliveries to replace_state in any order.                       *)
THEOREM NeverReturns == Spec => []NoReturn
<1>1. Inv => NoReturn
  <2> SUFFICES ASSUME Inv, current_state # NoState,
                      Fingerprint(current_state) \in abandoned
               PROVE  FALSE
    BY DEF NoReturn
  <2>1. RankBelow(Fingerprint(current_state), current_state)
    BY DEF Inv, AllBelow
  <2>2. RankBelow(current_state, current_state)
    BY <2>1 DEF RankBelow, LeaderPrecedes, Fingerprint
  <2>3. RankedFields(current_state)
    BY GroupStateRanked DEF Inv, TypeOK
  <2> QED
    BY <2>2, <2>3, RankIrreflexive
<1> QED
  BY InitInv, NextInv, <1>1, PTL DEF Spec

(* ReplaceNeverRegresses: replace_state lowers neither the version nor the *)
(* leader epoch, nor the leader order within one of them.                  *)
THEOREM NeverRegresses == Spec => ReplaceNeverRegresses
<1> DEFINE Step ==
      \/ \E g \in GroupId : bootstrap_state(g)
      \/ current_state = NoState
      \/ /\ current_state'.version >= current_state.version
         /\ current_state'.leader_epoch >= current_state.leader_epoch
         /\ ~RankBelow(current_state', current_state)
<1>1. Inv /\ [Next]_vars => [Step]_vars
  <2> SUFFICES ASSUME Inv, Next, current_state # NoState,
                      NEW new \in GroupState, NEW trusted \in Key \cup {NoKey},
                      NEW verify \in BOOLEAN, replace_state(new, trusted, verify)
               PROVE  Step
    BY DEF Next
  <2>1. current_state \in GroupState
    BY DEF Inv, TypeOK
  <2>2. Accepts(current_state, new, trusted, verify) /\ current_state' = new
    BY DEF replace_state, Replaceable
  <2>3. RankedFields(current_state) /\ RankedFields(new)
    BY <2>1, GroupStateRanked
  <2>4. /\ new.version >= current_state.version
        /\ new.leader_epoch >= current_state.leader_epoch
        /\ \/ Fingerprint(current_state) = Fingerprint(new)
           \/ RankBelow(current_state, new)
    BY <2>2, <2>3, AcceptsRaisesRank
  <2>5. ~RankBelow(new, current_state)
    <3>1. CASE Fingerprint(current_state) = Fingerprint(new)
      BY <3>1, <2>3, RankIrreflexive DEF Fingerprint, RankBelow, LeaderPrecedes
    <3>2. CASE RankBelow(current_state, new)
      BY <3>2, <2>3, RankTransitive, RankIrreflexive
    <3> QED
      BY <2>4, <3>1, <3>2
  <2> QED
    BY <2>2, <2>4, <2>5
<1> QED
  BY InitInv, NextInv, <1>1, PTL DEF Spec, ReplaceNeverRegresses
=============================================================================
