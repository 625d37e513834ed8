------------------------------- MODULE MCRouter -------------------------------
(* Router with two plugins whose names and tools are made to be confused.  *)
EXTENDS Router

Entry(name, valid, token) == [name |-> name, valid |-> valid, token |-> token]
Offer(tools, resources) == [tools |-> tools, resources |-> resources]
Tool(name, link) == [name |-> name, link |-> link]

A == <<"a">>
B == <<"b">>
AB == <<"a", "b">>
A_ == <<"a", "_">>
_B == <<"_", "b">>

MCLetters == {"a", "b", "t", "_"}

MCConfigs ==
  {<<Entry(A, TRUE, TRUE), Entry(n, TRUE, FALSE)>> : n \in {AB, A_}}
  \cup {<<Entry(A, valid, FALSE), Entry(A, TRUE, TRUE)>> : valid \in BOOLEAN}
MCCoreOffers == {Offer({Tool(A, B), Tool(B, NoUri)}, {B})}
MCPluginOffers == {Offer({Tool(B, B)}, {B, NoUri}), Offer({Tool(_B, A)}, {})}
MCNames == {B} \cup {Prefixed(n, x) : n \in {A, AB, A_}, x \in {B, _B}}
MCNative == <<"t">>
MCHeaders == {{"authorization", "x-brain3-upstream-secret", "accept", "connection"}}
=============================================================================
