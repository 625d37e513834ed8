----------------------------- MODULE MCContainers -----------------------------
(***************************************************************************)
(* Small instances of Containers.                                          *)
(***************************************************************************)
EXTENDS Containers

CONSTANTS c1, c2, p1

(* Each kind of container under each runtime: Docker for the vault server  *)
(* and Apple's for the plugin; and Docker for the plugin, with a vault     *)
(* server that the owner moves from one runtime to the other.              *)
MCEitherKind == {CoreNames, {c1, p1}}

MCEveryPolicy == {"skip", "refuse", "collect"}
=============================================================================
