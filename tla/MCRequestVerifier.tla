------------------------- MODULE MCRequestVerifier -------------------------
(* RequestVerifier on two nonce keys, which nothing tells apart.           *)
EXTENDS RequestVerifier, TLC

KeySymmetry == Permutations(NonceKey)
=============================================================================
