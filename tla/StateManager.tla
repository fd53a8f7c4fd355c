---------------------------- MODULE StateManager ----------------------------
(***************************************************************************)
(* One node's StateManager (cluster/state_manager.py): it bootstraps a     *)
(* group, and afterwards is handed states by whoever calls replace_state:  *)
(* the node's own operations, replayed events, peers' snapshots, the       *)
(* answer to a join.  The environment is unrestricted: any state may       *)
(* arrive, in any order, any number of times, signed by any key or none,   *)
(* with any trust anchor.  current_state is saved before replace_state     *)
(* returns, so a restart finds it unchanged and is a stuttering step.      *)
(***************************************************************************)
EXTENDS GroupStates

CONSTANTS
    NodeId,      \* node ids, ordered
    Key,         \* public keys, ordered
    GroupId,     \* group ids
    Member,      \* the node records that exist
    Self,        \* the node record of this node
    NoState,     \* get_state() of a node without a group
    MaxVersion,  \* bound on the versions that arrive
    MaxEpoch     \* bound on the epochs that arrive

ASSUME IdAssumption ==
    /\ NodeId \subseteq Nat
    /\ Key \subseteq Nat \ {NoKey}
    /\ Member \subseteq NodeRecord(NodeId, Key)
    /\ Self \in Member
ASSUME BoundAssumption ==
    /\ MaxVersion \in Nat \ {0}
    /\ MaxEpoch \in Nat \ {0}

\* The fields of a GroupState that validation reads.
GroupState ==
    [group_id : GroupId, version : 1 .. MaxVersion, leader_epoch : 1 .. MaxEpoch,
     leader_node_id : NodeId, leader_pubkey : Key,
     control_planes : SUBSET Member,
     leader_signature : Key \cup {NoKey}]

ASSUME NoStateAssumption == NoState \notin GroupState

\* What tells two states apart to the node: version, term and leader.
Fingerprint(s) ==
    [version |-> s.version, leader_epoch |-> s.leader_epoch,
     leader_node_id |-> s.leader_node_id, leader_pubkey |-> s.leader_pubkey]

VARIABLES
    current_state,  \* the state held in memory and in storage
    abandoned       \* history: fingerprints this node gave up since bootstrap

vars == <<current_state, abandoned>>

TypeOK ==
    /\ current_state \in GroupState \cup {NoState}
    /\ abandoned \subseteq
         [version : 1 .. MaxVersion, leader_epoch : 1 .. MaxEpoch,
          leader_node_id : NodeId, leader_pubkey : Key]

Init ==
    /\ current_state = NoState
    /\ abandoned = {}

\* Mutant: versions count from 0.
BootstrapStateFromZero(g) ==
    [group_id |-> g, version |-> 0, leader_epoch |-> 1,
     leader_node_id |-> Self.node_id, leader_pubkey |-> Self.public_key,
     control_planes |-> {Self}, leader_signature |-> Self.public_key]

BootstrapState(g) ==
    [group_id |-> g, version |-> 1, leader_epoch |-> 1,
     leader_node_id |-> Self.node_id, leader_pubkey |-> Self.public_key,
     control_planes |-> {Self}, leader_signature |-> Self.public_key]

\* bootstrap_state has no condition: it starts a new history on any node.
bootstrap_state(g) ==
    /\ current_state' = BootstrapState(g)
    /\ abandoned' = {}

Replaceable(new, trusted, verify) ==
    IF current_state = NoState
    THEN AcceptsFirst(new, trusted, verify)
    ELSE Accepts(current_state, new, trusted, verify)

\* replace_state: a refused state raises and leaves everything as it was.
replace_state(new, trusted, verify) ==
    /\ Replaceable(new, trusted, verify)
    /\ current_state' = new
    /\ abandoned' =
         IF current_state = NoState \/ Fingerprint(current_state) = Fingerprint(new)
         THEN abandoned
         ELSE abandoned \cup {Fingerprint(current_state)}

Next ==
    \/ \E g \in GroupId : bootstrap_state(g)
    \/ \E new \in GroupState, trusted \in Key \cup {NoKey}, verify \in BOOLEAN :
          replace_state(new, trusted, verify)

Spec == Init /\ [][Next]_vars

-----------------------------------------------------------------------------
(* Properties.                                                             *)

\* No order of deliveries brings a node back to a term, version and leader
\* it has given up: conflicting leaders of one term are resolved one way
\* only (_expected_signing_keys), so nodes cannot be made to oscillate.
NoReturn ==
    current_state # NoState => Fingerprint(current_state) \notin abandoned

\* replace_state never lowers the version or the leader epoch, and within
\* one version and epoch only moves the leadership forward in leader order.
ReplaceNeverRegresses ==
    [][ \/ \E g \in GroupId : bootstrap_state(g)
        \/ current_state = NoState
        \/ /\ current_state'.version >= current_state.version
           /\ current_state'.leader_epoch >= current_state.leader_epoch
           /\ ~RankBelow(current_state', current_state) ]_vars
=============================================================================
