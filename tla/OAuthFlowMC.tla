---------------------------- MODULE OAuthFlowMC -----------------------------
(***************************************************************************)
(* Small instances of OAuthFlow: model values throughout.  Codes, states,  *)
(* users, identities, link tokens and requests are interchangeable.        *)
(***************************************************************************)
EXTENDS OAuthFlow, TLC

Symmetry ==
    Permutations(State) \cup Permutations(Code) \cup Permutations(Identity)
    \cup Permutations(User) \cup Permutations(Req)
=============================================================================
