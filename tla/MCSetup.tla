-------------------------------- MODULE MCSetup --------------------------------
(***************************************************************************)
(* Small instances of Setup.                                               *)
(***************************************************************************)
EXTENDS Setup

(* A file without access mode or switch, for a public origin of one's own  *)
(* with local access, and for Docker without isolation, which may be       *)
(* switched on; and one that nobody can load.                              *)
MCHandWritten ==
  {[PORT |-> 2, LOCAL_PORT |-> 1, TOKEN |-> "token", PASSWORD |-> "plain", DIRECT |-> TRUE,
    RUNTIME |-> "docker", VAULT |-> TRUE, ISOLATED |-> FALSE],
   [PORT |-> 1, PASSWORD |-> "plain", NAMED |-> TRUE, DIRECT |-> TRUE]}
=============================================================================
