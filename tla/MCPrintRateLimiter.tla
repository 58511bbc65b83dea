------------------------- MODULE MCPrintRateLimiter -------------------------
(* PrintRateLimiter for TLC: requests and clients are interchangeable.     *)
EXTENDS PrintRateLimiter, TLC

Symmetry == Permutations(Requests) \cup Permutations(Clients)
=============================================================================
