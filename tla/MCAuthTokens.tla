---------------------------- MODULE MCAuthTokens ----------------------------
(* AuthTokens for model checking: requests are alike. *)
EXTENDS AuthTokens, TLC

Symmetry == Permutations(Requests)
=============================================================================
