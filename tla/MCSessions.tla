----------------------------- MODULE MCSessions -----------------------------
(* SessionManager for TLC. Requests are interchangeable, and so are session ids:  *)
(* the safety runs use both symmetries, the liveness run uses none.               *)
EXTENDS SessionManager, TLC

Symmetry == Permutations(Ops) \cup Permutations(Sessions)
=============================================================================
