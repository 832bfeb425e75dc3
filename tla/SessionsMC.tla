----------------------------- MODULE SessionsMC -----------------------------
(***************************************************************************)
(* Small instances of Sessions: model values for tokens, rows and requests.*)
(* Where RotationPeriod = 1 and IdleTimeout = 2 a tick is fifteen minutes  *)
(* and they keep the ratio of the defaults in core/config.py.              *)
(***************************************************************************)
EXTENDS Sessions, TLC

Symmetry == Permutations(Token) \cup Permutations(Sid) \cup Permutations(Req)
=============================================================================
