----------------------------- MODULE MCVaultFiles -----------------------------
(* VaultFiles with notes of the same name, and diffs of one and two hunks. *)
EXTENDS VaultFiles, TLC

X == <<"x", "lf">>
Y == <<"y", "lf">>
XY == X \o Y

Note(dir) == [dir |-> dir, name |-> "n", stamp |-> 0]
MCNotes == {Note("a"), Note("b"), Note(Trash)}

MCTexts == {XY, <<"x", "crlf", "y", "crlf">>, <<"x">>}

(* A hunk whose header counts its lines.                                   *)
Hunk(start, lines) ==
  [start |-> start, lines |-> lines,
   old |-> Cardinality({k \in DOMAIN lines : lines[k].mark # "add"}),
   new |-> Cardinality({k \in DOMAIN lines : lines[k].mark # "del"})]
Keep(text) == [mark |-> "keep", text |-> text]
Del(text) == [mark |-> "del", text |-> text]
Add(text) == [mark |-> "add", text |-> text]

MCDiffs ==
  {<<Hunk(1, <<Keep(X), Add(Y)>>)>>,
   <<Hunk(1, <<Del(X)>>), Hunk(2, <<Keep(Y), Add(X)>>)>>,
   <<Hunk(1, <<Add(Y), Keep(X)>>), Hunk(2, <<Del(Y), Add(X)>>)>>,
   <<Hunk(0, <<Add(Y)>>)>>,
   <<[Hunk(1, <<Keep(X)>>) EXCEPT !.new = 2]>>}
MCAppend == {<<Hunk(1, <<Keep(X), Add(Y)>>)>>}
MCNoDiffs == {}
=============================================================================
