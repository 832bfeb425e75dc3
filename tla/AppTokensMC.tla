----------------------------- MODULE AppTokensMC -----------------------------
(***************************************************************************)
(* Small instances of AppTokens: two requests, an installation that may be *)
(* removed and made again.                                                 *)
(***************************************************************************)
EXTENDS AppTokens, TLC

Requests == Permutations(Req)
=============================================================================
