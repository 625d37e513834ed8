--------------------------- MODULE TokenLifecycle ---------------------------
(***************************************************************************)
(* What the gateway promises about the OAuth tokens it hands out, without  *)
(* saying how.  A login yields one authorization code; a code yields at    *)
(* most one access+refresh pair, its root; a refresh replaces the pair of  *)
(* a login by a fresh one; and a pair that was replaced, or whose refresh  *)
(* token was dropped, is never usable again.                               *)
(*                                                                         *)
(* Codes and pairs are named by members of Id; a name is used once.        *)
(***************************************************************************)
CONSTANT Id    \* names of codes and pairs

VARIABLES
  outstanding,  \* codes that may still be redeemed
  live,         \* the pairs a client may refresh: [login |-> code, pair |-> p]
  used          \* every name a code or a pair has had

vars == <<outstanding, live, used>>

Init ==
  /\ outstanding = {}
  /\ live = {}
  /\ used = {}

(* The owner logs in and a code never seen before becomes redeemable.      *)
Authorize(c) ==
  /\ c \notin used
  /\ outstanding' = outstanding \cup {c}
  /\ used' = used \cup {c}
  /\ UNCHANGED live

(* Codes are lost: a failed exchange burns one, a restart burns them all.  *)
Forget(S) ==
  /\ S \subseteq outstanding
  /\ outstanding' = outstanding \ S
  /\ UNCHANGED <<live, used>>

(* A code becomes the root pair of its login; the login has no other pair. *)
Redeem(c, p) ==
  /\ c \in outstanding
  /\ p \notin used
  /\ \A l \in live : l.login # c
  /\ outstanding' = outstanding \ {c}
  /\ live' = live \cup {[login |-> c, pair |-> p]}
  /\ used' = used \cup {p}

(* One pair of a login is replaced by a fresh one.                         *)
Rotate(l, p) ==
  /\ l \in live
  /\ p \notin used
  /\ live' = (live \ {l}) \cup {[login |-> l.login, pair |-> p]}
  /\ used' = used \cup {p}
  /\ UNCHANGED outstanding

(* Pairs whose refresh token has expired are dropped.                      *)
Drop(S) ==
  /\ S \subseteq live
  /\ live' = live \ S
  /\ UNCHANGED <<outstanding, used>>

Next ==
  \/ \E c \in Id : Authorize(c)
  \/ \E S \in SUBSET outstanding : Forget(S)
  \/ \E c \in outstanding, p \in Id : Redeem(c, p)
  \/ \E l \in live, p \in Id : Rotate(l, p)
  \/ \E S \in SUBSET live : Drop(S)

Spec == Init /\ [][Next]_vars
=============================================================================
