----------------------------- MODULE UnifiedDiff -----------------------------
(***************************************************************************)
(* How the vault server applies a unified diff to a text, and what the     *)
(* diff means.  A text is a sequence of characters, of which "lf" and      *)
(* "crlf" end a line; a hunk is the position, the two counts of its header *)
(* and its lines, each a mark (keep, del or add, for blank, minus and      *)
(* plus) and a text that may lack its line end.                            *)
(*                                                                         *)
(* What the server computes in a loop is a function of how many steps of   *)
(* the loop are done.                                                      *)
(***************************************************************************)
EXTENDS Integers, FiniteSetsExt, SequencesExt

CONSTANT Chars    \* the characters of texts

Newlines == {"lf", "crlf"}
ASSUME CharsAssumption == Newlines \subseteq Chars

Ended(line) == line # <<>> /\ line[Len(line)] \in Newlines
OneLine(text) == \A i \in 1..(Len(text) - 1) : text[i] \notin Newlines

(* read_text: line ends are translated.                                    *)
Read(content) == [i \in DOMAIN content |-> IF content[i] = "crlf" THEN "lf" ELSE content[i]]

(* splitlines(keepends=True), and "".join.                                 *)
Split(content) ==
  LET lines[i \in 0..Len(content)] ==
        IF i = 0 THEN <<>>
        ELSE IF i = 1 \/ content[i - 1] \in Newlines THEN Append(lines[i - 1], <<content[i]>>)
        ELSE [lines[i - 1] EXCEPT ![Len(lines[i - 1])] = Append(@, content[i])]
  IN lines
Lines(content) == Split(content)[Len(content)]

Join(lines) ==
  LET text[k \in 0..Len(lines)] == IF k = 0 THEN <<>> ELSE text[k - 1] \o lines[k]
  IN text
Joined(lines) == Join(lines)[Len(lines)]

(* _norm: lines are compared without their ends.                           *)
Words(line) == IF Ended(line) THEN SubSeq(line, 1, Len(line) - 1) ELSE line
Norm(lines) == [k \in DOMAIN lines |-> Words(lines[k])]

(* The texts of the lines of a hunk that have one of the marks.            *)
HunkLines == [mark : {"keep", "del", "add"}, text : {t \in Seq(Chars) : OneLine(t)}]
Hunks == [start : Nat, old : Nat, new : Nat, lines : Seq(HunkLines)]

Pick(lines, marks) ==
  LET texts[j \in 0..Len(lines)] ==
        IF j = 0 THEN <<>>
        ELSE IF lines[j].mark \in marks THEN Append(texts[j - 1], lines[j].text)
        ELSE texts[j - 1]
  IN texts
OldLines(hunk) == Pick(hunk.lines, {"keep", "del"})[Len(hunk.lines)]
NewLines(hunk) == Pick(hunk.lines, {"keep", "add"})[Len(hunk.lines)]

(* _parse_unified_diff: the counts of the header are those of the hunk.    *)
WellFormed(hunk) == hunk.old = Len(OldLines(hunk)) /\ hunk.new = Len(NewLines(hunk))

-----------------------------------------------------------------------------
(* _apply_hunks: one hunk after the other, on the lines that the ones      *)
(* before it left; offset is by how many lines they made the text longer.  *)

(* What replaces the lines after the first at: of a line that is kept,     *)
(* what the text has there.                                                *)
Replaced(lines, at, hunk) ==
  LET new[j \in 0..Len(hunk.lines)] ==
        IF j = 0 THEN <<>>
        ELSE IF hunk.lines[j].mark = "keep"
             THEN Append(new[j - 1], lines[at + Len(Pick(hunk.lines, {"keep", "del"})[j])])
        ELSE IF hunk.lines[j].mark = "del" THEN new[j - 1]
        ELSE Append(new[j - 1], hunk.lines[j].text)
  IN new
NewSegment(lines, at, hunk) == Replaced(lines, at, hunk)[Len(hunk.lines)]

(* Mutant of ApplyHunk: later hunks are looked for where they were.        *)
ApplyHunkInPlace(done, hunk) ==
  LET at == Max({0, hunk.start - 1})
      end == at + Len(OldLines(hunk)) IN
  IF ~done.ok \/ Norm(SubSeq(done.lines, at + 1, Min({end, Len(done.lines)}))) # Norm(OldLines(hunk))
  THEN [done EXCEPT !.ok = FALSE]
  ELSE [done EXCEPT !.lines = SubSeq(@, 1, Min({at, Len(@)})) \o NewSegment(@, at, hunk)
                                \o SubSeq(@, end + 1, Len(@))]

ApplyHunk(done, hunk) ==
  LET at == Max({0, hunk.start - 1 + done.offset})
      end == at + Len(OldLines(hunk)) IN
  IF ~done.ok \/ Norm(SubSeq(done.lines, at + 1, Min({end, Len(done.lines)}))) # Norm(OldLines(hunk))
  THEN [done EXCEPT !.ok = FALSE]
  ELSE LET new == NewSegment(done.lines, at, hunk) IN
       [ok |-> TRUE,
        lines |-> SubSeq(done.lines, 1, Min({at, Len(done.lines)})) \o new
                    \o SubSeq(done.lines, end + 1, Len(done.lines)),
        offset |-> done.offset + Len(new) - Len(OldLines(hunk))]

Apply(content, hunks) ==
  LET done[k \in 0..Len(hunks)] ==
        IF k = 0 THEN [ok |-> TRUE, lines |-> Lines(content), offset |-> 0]
        ELSE ApplyHunk(done[k - 1], hunks[k])
  IN done
ApplyHunks(content, hunks) == Apply(content, hunks)[Len(hunks)]

Accepts(content, hunks) ==
  hunks # <<>> /\ (\A k \in DOMAIN hunks : WellFormed(hunks[k])) /\ ApplyHunks(content, hunks).ok
Updated(content, hunks) == Joined(ApplyHunks(content, hunks).lines)

-----------------------------------------------------------------------------
(* What a diff means.  A hunk stands for the lines from FirstOf on; one with *)
(* no old lines stands between the line it names and the next.  Nothing    *)
(* here depends on an order in which hunks are applied.                    *)

FirstOf(hunk) == IF hunk.old = 0 THEN hunk.start + 1 ELSE hunk.start
LastOf(hunk) == FirstOf(hunk) + hunk.old - 1

(* Each hunk is for lines after those of the one before it.                *)
InOrder(hunks) ==
  /\ \A k \in DOMAIN hunks : FirstOf(hunks[k]) >= 1
  /\ \A k \in 2..Len(hunks) : LastOf(hunks[k - 1]) < FirstOf(hunks[k])

FitsAt(words, hunk) ==
  /\ LastOf(hunk) <= Len(words)
  /\ SubSeq(words, FirstOf(hunk), LastOf(hunk)) = Norm(OldLines(hunk))

Fits(content, hunks) ==
  LET words == Norm(Lines(content)) IN
  /\ hunks # <<>> /\ InOrder(hunks)
  /\ \A k \in DOMAIN hunks : WellFormed(hunks[k]) /\ FitsAt(words, hunks[k])

(* The words of the text after the diff, up to the end of a hunk: those    *)
(* between the hunks stay.                                                 *)
UpTo(hunks, k) == IF k = 0 THEN 0 ELSE LastOf(hunks[k])
MeantUpTo(words, hunks) ==
  LET meant[k \in 0..Len(hunks)] ==
        IF k = 0 THEN <<>>
        ELSE (meant[k - 1] \o SubSeq(words, UpTo(hunks, k - 1) + 1, FirstOf(hunks[k]) - 1))
               \o Norm(NewLines(hunks[k]))
  IN meant
Meant(content, hunks) ==
  LET words == Norm(Lines(content)) IN
  MeantUpTo(words, hunks)[Len(hunks)] \o SubSeq(words, UpTo(hunks, Len(hunks)) + 1, Len(words))

(* Diffs and texts for which the server's reading is the usual one: every  *)
(* line ends, and a hunk has old lines unless it is the first and for the  *)
(* very beginning.                                                         *)
Plain(content, hunks) ==
  /\ content = <<>> \/ Ended(content)
  /\ \A k \in DOMAIN hunks :
       /\ hunks[k].old = 0 => k = 1 /\ hunks[k].start = 0
       /\ \A j \in DOMAIN hunks[k].lines :
            hunks[k].lines[j].mark = "add" => Ended(hunks[k].lines[j].text)
=============================================================================
