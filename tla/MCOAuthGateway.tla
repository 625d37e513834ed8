--------------------------- MODULE MCOAuthGateway ---------------------------
(***************************************************************************)
(* A small instance of OAuthGateway.                                       *)
(***************************************************************************)
EXTENDS OAuthGateway, TLC

CONSTANTS app, desktop, verifier

MCTwoRedirects == {app, desktop}
MCOneVerifier == {verifier}

(* Requests are interchangeable: no action tells one task from another.    *)
Symmetry == Permutations(Tasks)
=============================================================================
