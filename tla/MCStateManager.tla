--------------------------- MODULE MCStateManager ---------------------------
(* StateManager on two node ids and two keys; the second node was set up   *)
(* twice, so that its id exists with either key.                           *)
EXTENDS StateManager

MCSelf == [node_id |-> 1, public_key |-> 1]
MCMember == {MCSelf, [node_id |-> 2, public_key |-> 1], [node_id |-> 2, public_key |-> 2]}
=============================================================================
