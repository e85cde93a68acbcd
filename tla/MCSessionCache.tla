--------------------------- MODULE MCSessionCache ---------------------------
(* SessionCache for TLC: requests, tokens and users are interchangeable.     *)
EXTENDS SessionCache, TLC

Interchangeable == Permutations(Requests) \cup Permutations(Tokens) \cup Permutations(Users)
=============================================================================
