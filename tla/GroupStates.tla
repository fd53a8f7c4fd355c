----------------------------- MODULE GroupStates -----------------------------
(***************************************************************************)
(* The rules by which a node decides whether an incoming GroupState may    *)
(* replace the one it holds (StateManager._expected_signing_keys and       *)
(* validate_new_state in cluster/state_manager.py), as operators on two    *)
(* states.  Every node of the cluster, leader, follower or runtime, takes  *)
(* a new state through these rules and no other way, except for the        *)
(* bootstrap of a fresh group.                                             *)
(*                                                                         *)
(* Node ids and public keys are numbers: the code only compares them, and  *)
(* orders them as strings.  A signature is represented by the key under    *)
(* which it verifies, and the empty signature by NoKey; an unset trust     *)
(* anchor is NoKey too.                                                    *)
(***************************************************************************)
EXTENDS Integers

NoKey == 0

\* A member of the group; its role is the list it stands in.
NodeRecord(NodeId, Key) == [node_id : NodeId, public_key : Key]

SameLeader(s, t) ==
    /\ s.leader_node_id = t.leader_node_id
    /\ s.leader_pubkey = t.leader_pubkey

\* _leader_order(s) < _leader_order(t): pairs compared lexicographically.
LeaderPrecedes(s, t) ==
    \/ s.leader_node_id < t.leader_node_id
    \/ /\ s.leader_node_id = t.leader_node_id
       /\ s.leader_pubkey < t.leader_pubkey

ControlPlaneKeys(s) == {m.public_key : m \in s.control_planes}

IsSafeMembershipSuperset(cur, new) == cur.control_planes \subseteq new.control_planes

-----------------------------------------------------------------------------
(* The transitions, for a node that already holds a state.                 *)

\* A different leader claims the term that cur already gives to another.
ConflictingClaim(cur, new) ==
    /\ new.leader_epoch = cur.leader_epoch
    /\ \/ new.version = cur.version /\ ~SameLeader(cur, new)
       \/ new.version > cur.version /\ new.leader_node_id # cur.leader_node_id

\* StateVersionRegressedError: the state is older, or loses the conflict.
Regressed(cur, new) ==
    /\ new.group_id = cur.group_id
    /\ \/ new.version < cur.version
       \/ new.leader_epoch < cur.leader_epoch
       \/ /\ new.version >= cur.version
          /\ ConflictingClaim(cur, new)
          /\ new.leader_pubkey \in ControlPlaneKeys(cur)
          /\ ~LeaderPrecedes(new, cur)

\* The current leader goes on: a renewal, or its next version.
SameTermContinues(cur, new) == SameLeader(cur, new)

\* Mutant: the order of the two claims is not looked at.
ConflictWonByAnyone(cur, new) ==
    /\ ConflictingClaim(cur, new)
    /\ new.leader_pubkey \in ControlPlaneKeys(cur)

\* Two leaders claim one term: the first in leader order wins.
ConflictWon(cur, new) ==
    /\ ConflictingClaim(cur, new)
    /\ new.leader_pubkey \in ControlPlaneKeys(cur)
    /\ LeaderPrecedes(new, cur)

\* A new leader in a higher epoch: known to the old membership, or vouched
\* for by the caller's trust anchor, or caught up with during bootstrap.
LeaderRotation(cur, new, trusted) ==
    /\ new.version > cur.version
    /\ new.leader_epoch > cur.leader_epoch
    /\ new.leader_node_id # cur.leader_node_id
    /\ \/ new.leader_pubkey \in ControlPlaneKeys(cur)
       \/ /\ new.leader_pubkey \in ControlPlaneKeys(new)
          /\ \/ trusted = new.leader_pubkey
             \/ cur.leader_epoch <= 1 /\ IsSafeMembershipSuperset(cur, new)

\* Mutant: an older version is not refused.
AdmissibleAnyVersion(cur, new, trusted) ==
    /\ new.group_id = cur.group_id
    /\ new.leader_epoch >= cur.leader_epoch
    /\ \/ SameTermContinues(cur, new)
       \/ ConflictWon(cur, new)
       \/ LeaderRotation(cur, new, trusted)

Admissible(cur, new, trusted) ==
    /\ new.group_id = cur.group_id
    /\ new.version >= cur.version
    /\ new.leader_epoch >= cur.leader_epoch
    /\ \/ SameTermContinues(cur, new)
       \/ ConflictWon(cur, new)
       \/ LeaderRotation(cur, new, trusted)

\* The keys whose signature is accepted on an admissible state.
SigningKeys(cur, new, trusted) ==
    IF SameLeader(cur, new) THEN {cur.leader_pubkey}
    ELSE IF new.leader_epoch = cur.leader_epoch THEN {new.leader_pubkey}
    ELSE (ControlPlaneKeys(cur) \cup {new.leader_pubkey, trusted}) \ {NoKey}

Signed(new, keys) == new.leader_signature \in keys \ {NoKey}

-----------------------------------------------------------------------------
(* validate_new_state: the state is taken, with or without the signature   *)
(* being required.  A node without a state needs a trust anchor.           *)

AcceptsFirst(new, trusted, verify) ==
    /\ trusted # NoKey
    /\ verify => Signed(new, {trusted})

Accepts(cur, new, trusted, verify) ==
    /\ Admissible(cur, new, trusted)
    /\ verify => Signed(new, SigningKeys(cur, new, trusted))

-----------------------------------------------------------------------------
(* A rank that no accepted state lowers.  Version first, then the term,    *)
(* then the leader order, in which the earlier leader ranks higher.        *)

RankBelow(s, t) ==
    \/ s.version < t.version
    \/ s.version = t.version /\ s.leader_epoch < t.leader_epoch
    \/ /\ s.version = t.version
       /\ s.leader_epoch = t.leader_epoch
       /\ LeaderPrecedes(t, s)
=============================================================================
