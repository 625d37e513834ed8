--------------------------- MODULE UnifiedDiffProofs ---------------------------
(***************************************************************************)
(* Lemmas about UnifiedDiff: what its loops compute.  The library states   *)
(* induction with an operator as its parameter, so here it is stated with  *)
(* a set, and follows from the well-foundedness of the natural numbers.    *)
(***************************************************************************)
EXTENDS UnifiedDiff, SequenceTheorems, WellFoundedInduction, TLAPS

(* A set that has 0, and the successor of each of its numbers, has all.    *)
LEMMA SetInduction ==
  ASSUME NEW S, 0 \in S, \A n \in Nat : n \in S => n + 1 \in S
  PROVE  Nat \subseteq S
<1> DEFINE T == {n \in Nat : n \notin S}
<1>1. IsWellFoundedOn(OpToRel(<, Nat), Nat)
  BY NatLessThanWellFounded
<1>2. SUFFICES ASSUME T # {} PROVE FALSE
  OBVIOUS
<1>3. PICK x \in T : \A y \in T : ~(<<y, x>> \in OpToRel(<, Nat))
  <2> HIDE DEF T
  <2>1. T \subseteq Nat
    BY DEF T
  <2> QED BY <1>1, <1>2, <2>1, WFMin, Zenon
<1>4. x # 0 /\ x - 1 \in Nat /\ x = (x - 1) + 1
  OBVIOUS
<1>5. x - 1 \in T
  BY <1>4
<1>6. <<x - 1, x>> \in OpToRel(<, Nat)
  BY <1>4 DEF OpToRel
<1> QED BY <1>3, <1>5, <1>6

(* The same for the steps of a loop that is done n times.                  *)
LEMMA LoopInduction ==
  ASSUME NEW n \in Nat, NEW S, 0 \in S, \A k \in 1..n : k - 1 \in S => k \in S
  PROVE  0..n \subseteq S
<1> DEFINE T == {k \in Nat : k <= n => k \in S}
<1>1. 0 \in T
  OBVIOUS
<1>2. ASSUME NEW k \in Nat, k \in T PROVE k + 1 \in T
  BY <1>2
<1>3. Nat \subseteq T
  <2> HIDE DEF T
  <2> QED BY <1>1, <1>2, SetInduction
<1> QED BY <1>3

-----------------------------------------------------------------------------
(* What each loop computes, step by step.                                  *)

(* splitlines.                                                             *)
LEMMA SplitDef ==
  ASSUME NEW content, Len(content) \in Nat
  PROVE  /\ DOMAIN Split(content) = 0..Len(content)
         /\ Split(content)[0] = <<>>
         /\ \A k \in 1..Len(content) : Split(content)[k] = 
             IF k = 1 \/ content[k - 1] \in Newlines THEN Append(Split(content)[k - 1], <<content[k]>>)
             ELSE [Split(content)[k - 1] EXCEPT ![Len(Split(content)[k - 1])] = Append(@, content[k])]
<1> DEFINE Step(f, k) == 
             IF k = 1 \/ content[k - 1] \in Newlines THEN Append(f[k - 1], <<content[k]>>)
             ELSE [f[k - 1] EXCEPT ![Len(f[k - 1])] = Append(@, content[k])]
           Is(f, m) == f = [k \in 0..m |-> IF k = 0 THEN <<>> ELSE Step(f, k)]
           S == {m \in Nat : \E f : Is(f, m)}
<1>1. Len(content) \in Nat
  OBVIOUS
<1>2. 0 \in S
  <2>1. Is([k \in 0..0 |-> <<>>], 0)
    OBVIOUS
  <2>2. \E f : Is(f, 0)
    <3> HIDE DEF Is
    <3> QED BY <2>1
  <2> QED BY <2>2
<1>3. ASSUME NEW m \in Nat, m \in S PROVE m + 1 \in S
  <2>1. PICK f : Is(f, m)
    BY <1>3
  <2> DEFINE g == [k \in 0..(m + 1) |-> IF k = 0 THEN <<>> ELSE Step(f, k)]
  <2>2. ASSUME NEW k \in 0..(m + 1), k # 0 PROVE Step(f, k) = Step(g, k)
    <3>1. k - 1 \in 0..m /\ k - 1 \in 0..(m + 1)
      BY <2>2
    <3>2. f[k - 1] = g[k - 1]
      <4> HIDE DEF Step
      <4> QED BY <2>1, <3>1
    <3> QED BY <3>2
  <2>3. Is(g, m + 1)
    <3> HIDE DEF Step
    <3> QED BY <2>2
  <2>4. \E h : Is(h, m + 1)
    <3> HIDE DEF Is, g
    <3> QED BY <2>3
  <2> HIDE DEF Is
  <2> QED BY <2>4
<1>4. \E f : Is(f, Len(content))
  <2>1. Len(content) \in S
    <3> HIDE DEF S
    <3> QED BY <1>1, <1>2, <1>3, SetInduction
  <2> HIDE DEF Is
  <2> QED BY <2>1
<1>5. Split(content) = CHOOSE f : Is(f, Len(content))
  BY DEF Split
<1>6. Is(Split(content), Len(content))
  <2> HIDE DEF Is
  <2> QED BY <1>4, <1>5
<1>7. \A k \in 1..Len(content) : k \in 0..Len(content) /\ k # 0
  BY <1>1
<1>8. 0 \in 0..Len(content)
  BY <1>1
<1> HIDE DEF Step
<1>9. Split(content)[0] = <<>> /\ DOMAIN Split(content) = 0..Len(content)
  BY <1>6, <1>8
<1>10. \A k \in 1..Len(content) : Split(content)[k] = Step(Split(content), k)
  BY <1>6, <1>7
<1> QED BY <1>9, <1>10 DEF Step

(* "".join.                                                                *)
LEMMA JoinDef ==
  ASSUME NEW lines, Len(lines) \in Nat
  PROVE  /\ DOMAIN Join(lines) = 0..Len(lines)
         /\ Join(lines)[0] = <<>>
         /\ \A k \in 1..Len(lines) : Join(lines)[k] = Join(lines)[k - 1] \o lines[k]
<1> DEFINE Step(f, k) == f[k - 1] \o lines[k]
           Is(f, m) == f = [k \in 0..m |-> IF k = 0 THEN <<>> ELSE Step(f, k)]
           S == {m \in Nat : \E f : Is(f, m)}
<1>1. Len(lines) \in Nat
  OBVIOUS
<1>2. 0 \in S
  <2>1. Is([k \in 0..0 |-> <<>>], 0)
    OBVIOUS
  <2>2. \E f : Is(f, 0)
    <3> HIDE DEF Is
    <3> QED BY <2>1
  <2> QED BY <2>2
<1>3. ASSUME NEW m \in Nat, m \in S PROVE m + 1 \in S
  <2>1. PICK f : Is(f, m)
    BY <1>3
  <2> DEFINE g == [k \in 0..(m + 1) |-> IF k = 0 THEN <<>> ELSE Step(f, k)]
  <2>2. ASSUME NEW k \in 0..(m + 1), k # 0 PROVE Step(f, k) = Step(g, k)
    <3>1. k - 1 \in 0..m /\ k - 1 \in 0..(m + 1)
      BY <2>2
    <3>2. f[k - 1] = g[k - 1]
      <4> HIDE DEF Step
      <4> QED BY <2>1, <3>1
    <3> QED BY <3>2
  <2>3. Is(g, m + 1)
    <3> HIDE DEF Step
    <3> QED BY <2>2
  <2>4. \E h : Is(h, m + 1)
    <3> HIDE DEF Is, g
    <3> QED BY <2>3
  <2> HIDE DEF Is
  <2> QED BY <2>4
<1>4. \E f : Is(f, Len(lines))
  <2>1. Len(lines) \in S
    <3> HIDE DEF S
    <3> QED BY <1>1, <1>2, <1>3, SetInduction
  <2> HIDE DEF Is
  <2> QED BY <2>1
<1>5. Join(lines) = CHOOSE f : Is(f, Len(lines))
  BY DEF Join
<1>6. Is(Join(lines), Len(lines))
  <2> HIDE DEF Is
  <2> QED BY <1>4, <1>5
<1>7. \A k \in 1..Len(lines) : k \in 0..Len(lines) /\ k # 0
  BY <1>1
<1>8. 0 \in 0..Len(lines)
  BY <1>1
<1> HIDE DEF Step
<1>9. Join(lines)[0] = <<>> /\ DOMAIN Join(lines) = 0..Len(lines)
  BY <1>6, <1>8
<1>10. \A k \in 1..Len(lines) : Join(lines)[k] = Step(Join(lines), k)
  BY <1>6, <1>7
<1> QED BY <1>9, <1>10 DEF Step

(* The lines with a mark.                                                  *)
LEMMA PickDef ==
  ASSUME NEW lines, NEW marks, Len(lines) \in Nat
  PROVE  /\ DOMAIN Pick(lines, marks) = 0..Len(lines)
         /\ Pick(lines, marks)[0] = <<>>
         /\ \A k \in 1..Len(lines) : Pick(lines, marks)[k] = 
             IF lines[k].mark \in marks THEN Append(Pick(lines, marks)[k - 1], lines[k].text) ELSE Pick(lines, marks)[k - 1]
<1> DEFINE Step(f, k) == 
             IF lines[k].mark \in marks THEN Append(f[k - 1], lines[k].text) ELSE f[k - 1]
           Is(f, m) == f = [k \in 0..m |-> IF k = 0 THEN <<>> ELSE Step(f, k)]
           S == {m \in Nat : \E f : Is(f, m)}
<1>1. Len(lines) \in Nat
  OBVIOUS
<1>2. 0 \in S
  <2>1. Is([k \in 0..0 |-> <<>>], 0)
    OBVIOUS
  <2>2. \E f : Is(f, 0)
    <3> HIDE DEF Is
    <3> QED BY <2>1
  <2> QED BY <2>2
<1>3. ASSUME NEW m \in Nat, m \in S PROVE m + 1 \in S
  <2>1. PICK f : Is(f, m)
    BY <1>3
  <2> DEFINE g == [k \in 0..(m + 1) |-> IF k = 0 THEN <<>> ELSE Step(f, k)]
  <2>2. ASSUME NEW k \in 0..(m + 1), k # 0 PROVE Step(f, k) = Step(g, k)
    <3>1. k - 1 \in 0..m /\ k - 1 \in 0..(m + 1)
      BY <2>2
    <3>2. f[k - 1] = g[k - 1]
      <4> HIDE DEF Step
      <4> QED BY <2>1, <3>1
    <3> QED BY <3>2
  <2>3. Is(g, m + 1)
    <3> HIDE DEF Step
    <3> QED BY <2>2
  <2>4. \E h : Is(h, m + 1)
    <3> HIDE DEF Is, g
    <3> QED BY <2>3
  <2> HIDE DEF Is
  <2> QED BY <2>4
<1>4. \E f : Is(f, Len(lines))
  <2>1. Len(lines) \in S
    <3> HIDE DEF S
    <3> QED BY <1>1, <1>2, <1>3, SetInduction
  <2> HIDE DEF Is
  <2> QED BY <2>1
<1>5. Pick(lines, marks) = CHOOSE f : Is(f, Len(lines))
  BY DEF Pick
<1>6. Is(Pick(lines, marks), Len(lines))
  <2> HIDE DEF Is
  <2> QED BY <1>4, <1>5
<1>7. \A k \in 1..Len(lines) : k \in 0..Len(lines) /\ k # 0
  BY <1>1
<1>8. 0 \in 0..Len(lines)
  BY <1>1
<1> HIDE DEF Step
<1>9. Pick(lines, marks)[0] = <<>> /\ DOMAIN Pick(lines, marks) = 0..Len(lines)
  BY <1>6, <1>8
<1>10. \A k \in 1..Len(lines) : Pick(lines, marks)[k] = Step(Pick(lines, marks), k)
  BY <1>6, <1>7
<1> QED BY <1>9, <1>10 DEF Step

(* The new segment of a hunk.                                              *)
LEMMA ReplacedDef ==
  ASSUME NEW lines, NEW at, NEW hunk, Len(hunk.lines) \in Nat
  PROVE  /\ DOMAIN Replaced(lines, at, hunk) = 0..Len(hunk.lines)
         /\ Replaced(lines, at, hunk)[0] = <<>>
         /\ \A k \in 1..Len(hunk.lines) : Replaced(lines, at, hunk)[k] = 
             IF hunk.lines[k].mark = "keep"
             THEN Append(Replaced(lines, at, hunk)[k - 1], lines[at + Len(Pick(hunk.lines, {"keep", "del"})[k])])
             ELSE IF hunk.lines[k].mark = "del" THEN Replaced(lines, at, hunk)[k - 1]
             ELSE Append(Replaced(lines, at, hunk)[k - 1], hunk.lines[k].text)
<1> DEFINE Step(f, k) == 
             IF hunk.lines[k].mark = "keep"
             THEN Append(f[k - 1], lines[at + Len(Pick(hunk.lines, {"keep", "del"})[k])])
             ELSE IF hunk.lines[k].mark = "del" THEN f[k - 1]
             ELSE Append(f[k - 1], hunk.lines[k].text)
           Is(f, m) == f = [k \in 0..m |-> IF k = 0 THEN <<>> ELSE Step(f, k)]
           S == {m \in Nat : \E f : Is(f, m)}
<1>1. Len(hunk.lines) \in Nat
  OBVIOUS
<1>2. 0 \in S
  <2>1. Is([k \in 0..0 |-> <<>>], 0)
    OBVIOUS
  <2>2. \E f : Is(f, 0)
    <3> HIDE DEF Is
    <3> QED BY <2>1
  <2> QED BY <2>2
<1>3. ASSUME NEW m \in Nat, m \in S PROVE m + 1 \in S
  <2>1. PICK f : Is(f, m)
    BY <1>3
  <2> DEFINE g == [k \in 0..(m + 1) |-> IF k = 0 THEN <<>> ELSE Step(f, k)]
  <2>2. ASSUME NEW k \in 0..(m + 1), k # 0 PROVE Step(f, k) = Step(g, k)
    <3>1. k - 1 \in 0..m /\ k - 1 \in 0..(m + 1)
      BY <2>2
    <3>2. f[k - 1] = g[k - 1]
      <4> HIDE DEF Step
      <4> QED BY <2>1, <3>1
    <3> QED BY <3>2
  <2>3. Is(g, m + 1)
    <3> HIDE DEF Step
    <3> QED BY <2>2
  <2>4. \E h : Is(h, m + 1)
    <3> HIDE DEF Is, g
    <3> QED BY <2>3
  <2> HIDE DEF Is
  <2> QED BY <2>4
<1>4. \E f : Is(f, Len(hunk.lines))
  <2>1. Len(hunk.lines) \in S
    <3> HIDE DEF S
    <3> QED BY <1>1, <1>2, <1>3, SetInduction
  <2> HIDE DEF Is
  <2> QED BY <2>1
<1>5. Replaced(lines, at, hunk) = CHOOSE f : Is(f, Len(hunk.lines))
  BY DEF Replaced
<1>6. Is(Replaced(lines, at, hunk), Len(hunk.lines))
  <2> HIDE DEF Is
  <2> QED BY <1>4, <1>5
<1>7. \A k \in 1..Len(hunk.lines) : k \in 0..Len(hunk.lines) /\ k # 0
  BY <1>1
<1>8. 0 \in 0..Len(hunk.lines)
  BY <1>1
<1> HIDE DEF Step
<1>9. Replaced(lines, at, hunk)[0] = <<>> /\ DOMAIN Replaced(lines, at, hunk) = 0..Len(hunk.lines)
  BY <1>6, <1>8
<1>10. \A k \in 1..Len(hunk.lines) : Replaced(lines, at, hunk)[k] = Step(Replaced(lines, at, hunk), k)
  BY <1>6, <1>7
<1> QED BY <1>9, <1>10 DEF Step

(* One hunk after the other.                                               *)
LEMMA ApplyDef ==
  ASSUME NEW content, NEW hunks, Len(hunks) \in Nat
  PROVE  /\ DOMAIN Apply(content, hunks) = 0..Len(hunks)
         /\ Apply(content, hunks)[0] = [ok |-> TRUE, lines |-> Lines(content), offset |-> 0]
         /\ \A k \in 1..Len(hunks) : Apply(content, hunks)[k] = ApplyHunk(Apply(content, hunks)[k - 1], hunks[k])
<1> DEFINE Step(f, k) == ApplyHunk(f[k - 1], hunks[k])
           Is(f, m) == f = [k \in 0..m |-> IF k = 0 THEN [ok |-> TRUE, lines |-> Lines(content), offset |-> 0] ELSE Step(f, k)]
           S == {m \in Nat : \E f : Is(f, m)}
<1>1. Len(hunks) \in Nat
  OBVIOUS
<1>2. 0 \in S
  <2>1. Is([k \in 0..0 |-> [ok |-> TRUE, lines |-> Lines(content), offset |-> 0]], 0)
    OBVIOUS
  <2>2. \E f : Is(f, 0)
    <3> HIDE DEF Is
    <3> QED BY <2>1
  <2> QED BY <2>2
<1>3. ASSUME NEW m \in Nat, m \in S PROVE m + 1 \in S
  <2>1. PICK f : Is(f, m)
    BY <1>3
  <2> DEFINE g == [k \in 0..(m + 1) |-> IF k = 0 THEN [ok |-> TRUE, lines |-> Lines(content), offset |-> 0] ELSE Step(f, k)]
  <2>2. ASSUME NEW k \in 0..(m + 1), k # 0 PROVE Step(f, k) = Step(g, k)
    <3>1. k - 1 \in 0..m /\ k - 1 \in 0..(m + 1)
      BY <2>2
    <3>2. f[k - 1] = g[k - 1]
      <4> HIDE DEF Step
      <4> QED BY <2>1, <3>1
    <3> QED BY <3>2
  <2>3. Is(g, m + 1)
    <3> HIDE DEF Step
    <3> QED BY <2>2
  <2>4. \E h : Is(h, m + 1)
    <3> HIDE DEF Is, g
    <3> QED BY <2>3
  <2> HIDE DEF Is
  <2> QED BY <2>4
<1>4. \E f : Is(f, Len(hunks))
  <2>1. Len(hunks) \in S
    <3> HIDE DEF S
    <3> QED BY <1>1, <1>2, <1>3, SetInduction
  <2> HIDE DEF Is
  <2> QED BY <2>1
<1>5. Apply(content, hunks) = CHOOSE f : Is(f, Len(hunks))
  BY DEF Apply
<1>6. Is(Apply(content, hunks), Len(hunks))
  <2> HIDE DEF Is
  <2> QED BY <1>4, <1>5
<1>7. \A k \in 1..Len(hunks) : k \in 0..Len(hunks) /\ k # 0
  BY <1>1
<1>8. 0 \in 0..Len(hunks)
  BY <1>1
<1> HIDE DEF Step
<1>9. Apply(content, hunks)[0] = [ok |-> TRUE, lines |-> Lines(content), offset |-> 0] /\ DOMAIN Apply(content, hunks) = 0..Len(hunks)
  BY <1>6, <1>8
<1>10. \A k \in 1..Len(hunks) : Apply(content, hunks)[k] = Step(Apply(content, hunks), k)
  BY <1>6, <1>7
<1> QED BY <1>9, <1>10 DEF Step

(* What the hunks mean.                                                    *)
LEMMA MeantDef ==
  ASSUME NEW words, NEW hunks, Len(hunks) \in Nat
  PROVE  /\ DOMAIN MeantUpTo(words, hunks) = 0..Len(hunks)
         /\ MeantUpTo(words, hunks)[0] = <<>>
         /\ \A k \in 1..Len(hunks) : MeantUpTo(words, hunks)[k] = 
             (MeantUpTo(words, hunks)[k - 1] \o SubSeq(words, UpTo(hunks, k - 1) + 1, FirstOf(hunks[k]) - 1))
               \o Norm(NewLines(hunks[k]))
<1> DEFINE Step(f, k) == 
             (f[k - 1] \o SubSeq(words, UpTo(hunks, k - 1) + 1, FirstOf(hunks[k]) - 1))
               \o Norm(NewLines(hunks[k]))
           Is(f, m) == f = [k \in 0..m |-> IF k = 0 THEN <<>> ELSE Step(f, k)]
           S == {m \in Nat : \E f : Is(f, m)}
<1>1. Len(hunks) \in Nat
  OBVIOUS
<1>2. 0 \in S
  <2>1. Is([k \in 0..0 |-> <<>>], 0)
    OBVIOUS
  <2>2. \E f : Is(f, 0)
    <3> HIDE DEF Is
    <3> QED BY <2>1
  <2> QED BY <2>2
<1>3. ASSUME NEW m \in Nat, m \in S PROVE m + 1 \in S
  <2>1. PICK f : Is(f, m)
    BY <1>3
  <2> DEFINE g == [k \in 0..(m + 1) |-> IF k = 0 THEN <<>> ELSE Step(f, k)]
  <2>2. ASSUME NEW k \in 0..(m + 1), k # 0 PROVE Step(f, k) = Step(g, k)
    <3>1. k - 1 \in 0..m /\ k - 1 \in 0..(m + 1)
      BY <2>2
    <3>2. f[k - 1] = g[k - 1]
      <4> HIDE DEF Step
      <4> QED BY <2>1, <3>1
    <3> QED BY <3>2
  <2>3. Is(g, m + 1)
    <3> HIDE DEF Step
    <3> QED BY <2>2
  <2>4. \E h : Is(h, m + 1)
    <3> HIDE DEF Is, g
    <3> QED BY <2>3
  <2> HIDE DEF Is
  <2> QED BY <2>4
<1>4. \E f : Is(f, Len(hunks))
  <2>1. Len(hunks) \in S
    <3> HIDE DEF S
    <3> QED BY <1>1, <1>2, <1>3, SetInduction
  <2> HIDE DEF Is
  <2> QED BY <2>1
<1>5. MeantUpTo(words, hunks) = CHOOSE f : Is(f, Len(hunks))
  BY DEF MeantUpTo
<1>6. Is(MeantUpTo(words, hunks), Len(hunks))
  <2> HIDE DEF Is
  <2> QED BY <1>4, <1>5
<1>7. \A k \in 1..Len(hunks) : k \in 0..Len(hunks) /\ k # 0
  BY <1>1
<1>8. 0 \in 0..Len(hunks)
  BY <1>1
<1> HIDE DEF Step
<1>9. MeantUpTo(words, hunks)[0] = <<>> /\ DOMAIN MeantUpTo(words, hunks) = 0..Len(hunks)
  BY <1>6, <1>8
<1>10. \A k \in 1..Len(hunks) : MeantUpTo(words, hunks)[k] = Step(MeantUpTo(words, hunks), k)
  BY <1>6, <1>7
<1> QED BY <1>9, <1>10 DEF Step

-----------------------------------------------------------------------------
(* Sequences.                                                              *)

(* One element more of a sequence.                                         *)
LEMMA Extend ==
  ASSUME NEW S, NEW s \in Seq(S), NEW j \in 0..(Len(s) - 1)
  PROVE  /\ SubSeq(s, 1, j) \in Seq(S) /\ Len(SubSeq(s, 1, j)) = j
         /\ SubSeq(s, 1, j + 1) = Append(SubSeq(s, 1, j), s[j + 1])
<1>1. Len(s) \in Nat /\ j \in Nat /\ j + 1 \in 1..Len(s) /\ s[j + 1] \in S
  BY ElementOfSeq, LenProperties
<1>2. \A i \in 1..j : s[i] \in S
  BY <1>1, ElementOfSeq
<1>3. /\ SubSeq(s, 1, j) \in Seq(S) /\ Len(SubSeq(s, 1, j)) = j
      /\ \A i \in 1..j : SubSeq(s, 1, j)[i] = s[i]
  BY <1>1, <1>2, SubSeqProperties
<1>4. /\ SubSeq(s, 1, j + 1) \in Seq(S) /\ Len(SubSeq(s, 1, j + 1)) = j + 1
      /\ \A i \in 1..(j + 1) : SubSeq(s, 1, j + 1)[i] = s[i]
  BY <1>1, <1>2, SubSeqProperties
<1> DEFINE a == Append(SubSeq(s, 1, j), s[j + 1])
<1>5. /\ a \in Seq(S) /\ Len(a) = j + 1 /\ a[j + 1] = s[j + 1]
      /\ \A i \in 1..j : a[i] = s[i]
  BY <1>1, <1>3, AppendProperties
<1>6. \A i \in 1..(j + 1) : SubSeq(s, 1, j + 1)[i] = a[i]
  <2> HIDE DEF a
  <2> QED BY <1>1, <1>4, <1>5
<1>7. SubSeq(s, 1, j + 1) = a
  <2> HIDE DEF a
  <2> QED BY <1>4, <1>5, <1>6, SeqEqual
<1> QED BY <1>3, <1>7

(* Another last element.                                                   *)
LEMMA ReplaceLast ==
  ASSUME NEW S, NEW s \in Seq(S), NEW y \in S, NEW z \in S
  PROVE  /\ Append(s, y)[Len(Append(s, y))] = y
         /\ [Append(s, y) EXCEPT ![Len(Append(s, y))] = z] = Append(s, z)
<1> DEFINE a == Append(s, y)
           b == Append(s, z)
           n == Len(s) + 1
<1>1. a \in Seq(S) /\ Len(a) = n /\ a[n] = y /\ \A i \in 1..Len(s) : a[i] = s[i]
  BY AppendProperties
<1>2. b \in Seq(S) /\ Len(b) = n /\ b[n] = z /\ \A i \in 1..Len(s) : b[i] = s[i]
  BY AppendProperties
<1>3. Len(s) \in Nat /\ n \in 1..n
  BY LenProperties
<1> HIDE DEF a, b
<1>4. /\ [a EXCEPT ![n] = z] \in Seq(S) /\ Len([a EXCEPT ![n] = z]) = n
      /\ \A i \in 1..n : [a EXCEPT ![n] = z][i] = IF i = n THEN z ELSE a[i]
  BY <1>1, <1>3, ExceptSeq
<1>5. \A i \in 1..n : [a EXCEPT ![n] = z][i] = b[i]
  BY <1>1, <1>2, <1>3, <1>4
<1>6. [a EXCEPT ![n] = z] = b
  <2> HIDE DEF n
  <2> QED BY <1>2, <1>4, <1>5, SeqEqual
<1> QED BY <1>1, <1>6 DEF a, b

(* The first of two sequences, and what follows it.                        *)
LEMMA ConcatAppend ==
  ASSUME NEW S, NEW s \in Seq(S), NEW t \in Seq(S), NEW x \in S
  PROVE  s \o Append(t, x) = Append(s \o t, x)
<1>1. Append(t, x) = t \o <<x>> /\ <<x>> \in Seq(S)
  BY AppendIsConcat
<1>2. s \o t \in Seq(S)
  BY ConcatProperties
<1>3. Append(s \o t, x) = (s \o t) \o <<x>>
  BY <1>2, AppendIsConcat
<1> QED BY <1>1, <1>3, ConcatAssociative

-----------------------------------------------------------------------------
(* Texts and their lines.                                                  *)
Text == Seq(Chars)
Line == {l \in Text : Ended(l) /\ OneLine(l)}

LEMMA TextFacts ==
  ASSUME NEW text \in Text
  PROVE  /\ Len(text) \in Nat /\ DOMAIN text = 1..Len(text)
         /\ \A i \in 1..Len(text) : text[i] \in Chars
         /\ text = <<>> <=> Len(text) = 0
  BY DEF Text

(* The lines of the first characters of a text do not depend on the others.*)
LEMMA SplitLocal ==
  ASSUME NEW s \in Text, NEW t \in Text, NEW i \in 0..Len(s)
  PROVE  Split(s \o t)[i] = Split(s)[i]
<1> DEFINE T == {k \in 0..Len(s) : Split(s \o t)[k] = Split(s)[k]}
<1>1. /\ s \o t \in Text /\ Len(s) \in Nat /\ Len(s \o t) = Len(s) + Len(t) /\ Len(t) \in Nat
      /\ \A k \in 1..Len(s) : (s \o t)[k] = s[k]
  BY DEF Text
<1>2. 0 \in T
  BY <1>1, SplitDef
<1>3. ASSUME NEW k \in 1..Len(s), k - 1 \in T PROVE k \in T
  <2>1. /\ k \in 1..Len(s \o t) /\ (s \o t)[k] = s[k]
        /\ k # 1 => (s \o t)[k - 1] = s[k - 1]
    BY <1>1
  <2>2. Split(s \o t)[k - 1] = Split(s)[k - 1]
    BY <1>3
  <2> QED BY <1>1, <2>1, <2>2, SplitDef
<1>4. 0..Len(s) \subseteq T
  <2> HIDE DEF T
  <2> QED BY <1>1, <1>2, <1>3, LoopInduction
<1> QED BY <1>4

(* A line after a text that is empty or ends a line is one line more.      *)
LEMMA SplitLine ==
  ASSUME NEW s \in Text, s = <<>> \/ Ended(s), NEW l \in Line, Lines(s) \in Seq(Text)
  PROVE  Lines(s \o l) = Append(Lines(s), l)
<1> DEFINE n == Len(s)
           m == Len(l) - 1
           T == {j \in 0..m : Split(s \o l)[n + j + 1] = Append(Lines(s), SubSeq(l, 1, j + 1))}
<1>1. /\ l \in Text /\ Ended(l) /\ OneLine(l) /\ Len(l) \in Nat /\ l # <<>> /\ m \in Nat
  <2>1. l \in Text /\ Ended(l) /\ OneLine(l)
    BY DEF Line
  <2> QED BY <2>1, TextFacts DEF Ended
<1>2. /\ s \o l \in Text /\ n \in Nat /\ Len(s \o l) = n + Len(l)
      /\ \A j \in 1..Len(l) : (s \o l)[n + j] = l[j]
      /\ \A j \in 1..n : (s \o l)[j] = s[j]
  BY <1>1 DEF Text
<1>3. 0 \in T
  <2>1. Split(s \o l)[n] = Lines(s)
    BY <1>1, <1>2, SplitLocal DEF Lines
  <2>2. n + 1 = 1 \/ (s \o l)[n + 1 - 1] \in Newlines
    <3>1. CASE s = <<>>
      BY <3>1
    <3>2. CASE Ended(s)
      BY <1>2, <3>2 DEF Ended
    <3> QED BY <3>1, <3>2
  <2>3. n + 1 \in 1..Len(s \o l) /\ n + 1 - 1 = n
    BY <1>1, <1>2
  <2>4. Split(s \o l)[n + 1] = Append(Split(s \o l)[n], <<(s \o l)[n + 1]>>)
    <3> DEFINE text == s \o l
               i == n + 1
    <3> HIDE DEF text, i
    <3>1. i \in 1..Len(text) /\ i - 1 = n /\ (i = 1 \/ text[i - 1] \in Newlines) /\ Len(text) \in Nat
      BY <1>2, <2>2, <2>3, TextFacts DEF text, i
    <3>2. Split(text)[i] = Append(Split(text)[i - 1], <<text[i]>>)
      BY <3>1, SplitDef
    <3> QED BY <3>1, <3>2 DEF text, i
  <2>5. (s \o l)[n + 1] = l[1]
    BY <1>1, <1>2
  <2>6. SubSeq(l, 1, 1) = <<l[1]>>
    <3>1. SubSeq(l, 1, 0) = <<>>
      BY SubSeqEmpty
    <3>2. \A j \in 0..(Len(l) - 1) : SubSeq(l, 1, j + 1) = Append(SubSeq(l, 1, j), l[j + 1])
      BY Extend DEF Text
    <3>3. 0 \in 0..(Len(l) - 1) /\ 0 + 1 = 1
      BY <1>1
    <3>4. SubSeq(l, 1, 1) = Append(<<>>, l[1])
      BY <3>1, <3>2, <3>3
    <3> QED BY <3>4
  <2> QED BY <1>1, <1>2, <2>1, <2>4, <2>5, <2>6
<1>4. ASSUME NEW j \in 1..m, j - 1 \in T PROVE j \in T
  <2> DEFINE i == n + j + 1
             before == Append(Lines(s), SubSeq(l, 1, j))
  <2>1. i \in 1..Len(s \o l) /\ i # 1 /\ i - 1 = n + (j - 1) + 1 /\ i - 1 = n + j
    BY <1>1, <1>2
  <2>2. (s \o l)[i - 1] = l[j] /\ l[j] \notin Newlines /\ (s \o l)[i] = l[j + 1]
    BY <1>1, <1>2, <2>1 DEF OneLine
  <2>3. Split(s \o l)[i - 1] = before
    BY <1>4, <2>1
  <2>4. Split(s \o l)[i] = [before EXCEPT ![Len(before)] = Append(@, (s \o l)[i])]
    <3> DEFINE text == s \o l
    <3> HIDE DEF before, i, text
    <3>1. i \in 1..Len(text) /\ i # 1 /\ text[i - 1] \notin Newlines /\ Len(text) \in Nat
      BY <1>2, <2>1, <2>2, TextFacts DEF text
    <3>2. Split(text)[i] = [Split(text)[i - 1] EXCEPT ![Len(Split(text)[i - 1])] = Append(@, text[i])]
      BY <3>1, SplitDef
    <3> QED BY <2>3, <3>2 DEF text
  <2>5. SubSeq(l, 1, j) \in Text /\ Append(SubSeq(l, 1, j), l[j + 1]) = SubSeq(l, 1, j + 1)
    <3>1. j \in 0..(Len(l) - 1)
      BY <1>1
    <3> QED BY <1>1, <3>1, Extend DEF Text
  <2>6. [before EXCEPT ![Len(before)] = Append(@, l[j + 1])] = Append(Lines(s), SubSeq(l, 1, j + 1))
    <3> DEFINE x == SubSeq(l, 1, j)
               z == Append(x, l[j + 1])
    <3>1. x \in Text /\ z \in Text
      BY <1>1, <2>5, AppendProperties, ElementOfSeq DEF Text
    <3> HIDE DEF x, z
    <3>2. before[Len(before)] = x
      BY <3>1, ReplaceLast DEF x
    <3>3. [Append(Lines(s), x) EXCEPT ![Len(Append(Lines(s), x))] = z] = Append(Lines(s), z)
      BY <3>1, ReplaceLast
    <3>4. [before EXCEPT ![Len(before)] = Append(@, l[j + 1])]
            = [before EXCEPT ![Len(before)] = Append(before[Len(before)], l[j + 1])]
      BY Zenon
    <3> QED BY <2>5, <3>2, <3>3, <3>4 DEF x, z, before
  <2>7. Split(s \o l)[n + j + 1] = Append(Lines(s), SubSeq(l, 1, j + 1))
    <3> HIDE DEF before
    <3> QED BY <2>2, <2>4, <2>6
  <2>8. j \in 0..m
    BY <1>1
  <2> QED BY <2>7, <2>8
<1>5. 0..m \subseteq T
  <2> HIDE DEF T, m, n
  <2> QED BY <1>1, <1>3, <1>4, LoopInduction
<1>6. m \in T
  <2> HIDE DEF T, m
  <2> QED BY <1>1, <1>5
<1>7. Split(s \o l)[Len(s \o l)] = Append(Lines(s), SubSeq(l, 1, Len(l)))
  BY <1>1, <1>2, <1>6
<1>8. SubSeq(l, 1, Len(l)) = l
  BY <1>1, SubSeqFull DEF Text
<1> QED BY <1>7, <1>8 DEF Lines

(* A text that is joined from lines has those lines.                       *)
LEMMA LinesJoined ==
  ASSUME NEW lines \in Seq(Line)
  PROVE  Joined(lines) \in Text /\ Lines(Joined(lines)) = lines
<1> DEFINE n == Len(lines)
           J == Join(lines)
           T == {k \in 0..n : /\ J[k] \in Text /\ (J[k] = <<>> \/ Ended(J[k]))
                              /\ Lines(J[k]) = SubSeq(lines, 1, k)}
<1>1. n \in Nat /\ lines \in Seq(Text) /\ \A k \in 1..n : lines[k] \in Line /\ lines[k] \in Text
  BY LenProperties, SeqMonotonic, ElementOfSeq DEF Line
<1>2. 0 \in T
  <2>0. <<>> \in Text
    BY DEF Text
  <2>1. J[0] = <<>>
    BY <1>1, JoinDef
  <2>2. Len(<<>>) = 0
    OBVIOUS
  <2>3. Split(<<>>)[0] = <<>>
    BY <2>2, SplitDef
  <2>4. SubSeq(lines, 1, 0) = <<>>
    BY SubSeqEmpty
  <2>5. Lines(<<>>) = <<>> /\ 0 \in 0..n
    BY <1>1, <2>2, <2>3 DEF Lines
  <2> HIDE DEF J
  <2> QED BY <2>0, <2>1, <2>4, <2>5
<1>3. ASSUME NEW k \in 1..n, k - 1 \in T PROVE k \in T
  <2> DEFINE s == J[k - 1]
             l == lines[k]
  <2>1. J[k] = s \o l
    BY <1>1, JoinDef
  <2>2. s \in Text /\ (s = <<>> \/ Ended(s)) /\ Lines(s) = SubSeq(lines, 1, k - 1)
    BY <1>3
  <2>3. l \in Line /\ l \in Text
    BY <1>1
  <2>4. k - 1 \in 0..(n - 1) /\ k = (k - 1) + 1
    BY <1>1
  <2>5. Lines(s) \in Seq(Text) /\ SubSeq(lines, 1, k) = Append(SubSeq(lines, 1, k - 1), l)
    <3> DEFINE i == k - 1
    <3>1. i \in 0..(Len(lines) - 1) /\ i + 1 = k
      BY <2>4
    <3>2. SubSeq(lines, 1, i) \in Seq(Text) /\ SubSeq(lines, 1, i + 1) = Append(SubSeq(lines, 1, i), lines[i + 1])
      <4> HIDE DEF i
      <4> QED BY <1>1, <3>1, Extend
    <3> QED BY <2>2, <3>1, <3>2
  <2> HIDE DEF s, l, J
  <2>6. Lines(s \o l) = SubSeq(lines, 1, k)
    BY <2>2, <2>3, <2>5, SplitLine
  <2>7. s \o l \in Text /\ Ended(s \o l)
    <3>1. /\ s \o l \in Text /\ Len(s \o l) = Len(s) + Len(l)
          /\ \A i \in 1..(Len(s) + Len(l)) : (s \o l)[i] = IF i <= Len(s) THEN s[i] ELSE l[i - Len(s)]
      BY <2>2, <2>3, ConcatProperties DEF Text
    <3>2. Ended(l) /\ Len(l) \in Nat /\ Len(s) \in Nat /\ l # <<>> /\ Len(l) # 0
      BY <2>2, <2>3, TextFacts DEF Line, Ended
    <3>3. Len(s) + Len(l) \in 1..(Len(s) + Len(l)) /\ ~(Len(s) + Len(l) <= Len(s))
      BY <3>2
    <3>4. (s \o l)[Len(s) + Len(l)] = l[Len(l)] /\ Len(s \o l) # 0
      BY <3>1, <3>2, <3>3
    <3>5. s \o l # <<>>
      BY <3>1, <3>4, TextFacts
    <3> QED BY <3>1, <3>2, <3>4, <3>5 DEF Ended
  <2>8. k \in 0..n
    BY <1>1
  <2> QED BY <2>1, <2>6, <2>7, <2>8
<1>4. n \in T
  <2> HIDE DEF T, n, J
  <2>1. n \in Nat /\ n \in 0..n
    BY <1>1
  <2>2. 0..n \subseteq T
    BY <1>2, <1>3, <2>1, LoopInduction
  <2> QED BY <2>1, <2>2
<1>5. SubSeq(lines, 1, n) = lines
  BY <1>1, SubSeqFull
<1> QED BY <1>4, <1>5 DEF Joined

(* The lines of a text that is empty or ends a line.                       *)
LEMMA LinesAreLines ==
  ASSUME NEW text \in Text
  PROVE  /\ Lines(text) \in Seq({l \in Text : OneLine(l)})
         /\ text = <<>> \/ Ended(text) => Lines(text) \in Seq(Line)
<1> DEFINE n == Len(text)
           Open == {l \in Text : OneLine(l) /\ l # <<>>}
           (* The first i characters, of which the last, and all others, are in a line. *)
           T == {i \in 0..n :
                   IF i = 0 THEN Split(text)[i] = <<>>
                   ELSE \E s \in Seq(Line), l \in Open :
                          Split(text)[i] = Append(s, l) /\ l[Len(l)] = text[i]}
<1>1. n \in Nat /\ \A i \in 1..n : text[i] \in Chars
  BY TextFacts
<1>2. 0 \in T
  BY <1>1, SplitDef
<1>3. ASSUME NEW i \in 1..n, i - 1 \in T PROVE i \in T
  <2> DEFINE c == text[i]
             before == Split(text)[i - 1]
             now == Split(text)[i]
  <2>1. c \in Chars /\ i \in 0..n /\ i # 0
    BY <1>1
  <2>2. now = IF i = 1 \/ text[i - 1] \in Newlines THEN Append(before, <<c>>)
              ELSE [before EXCEPT ![Len(before)] = Append(@, c)]
    BY <1>1, SplitDef
  <2>3. <<c>> \in Open /\ <<c>>[Len(<<c>>)] = c
    <3>1. <<c>> \in Text /\ Len(<<c>>) = 1 /\ <<c>>[1] = c /\ <<c>> # <<>>
      BY <2>1 DEF Text
    <3> QED BY <3>1 DEF OneLine
  <2> HIDE DEF now, c
  <2>4. CASE i = 1
    <3>1. before = <<>>
      BY <1>3, <2>4
    <3>2. now = Append(<<>>, <<c>>) /\ <<>> \in Seq(Line)
      BY <2>2, <2>4, <3>1
    <3> QED BY <2>1, <2>3, <3>2 DEF now, c
  <2>5. ASSUME i # 1
        PROVE  \E s \in Seq(Line), l \in Open : before = Append(s, l) /\ l[Len(l)] = text[i - 1]
    BY <1>1, <1>3, <2>5
  <2>6. CASE i # 1 /\ text[i - 1] \in Newlines
    <3>1. PICK s \in Seq(Line), l \in Open : before = Append(s, l) /\ l[Len(l)] = text[i - 1]
      BY <2>5, <2>6
    <3>2. l \in Line
      BY <2>6, <3>1 DEF Line, Ended
    <3>3. before \in Seq(Line)
      BY <3>1, <3>2, AppendProperties
    <3>4. now = Append(before, <<c>>)
      BY <2>2, <2>6
    <3> HIDE DEF before
    <3> QED BY <2>1, <2>3, <3>3, <3>4 DEF now, c
  <2>7. CASE i # 1 /\ text[i - 1] \notin Newlines
    <3>1. PICK s \in Seq(Line), l \in Open : before = Append(s, l) /\ l[Len(l)] = text[i - 1]
      BY <2>5, <2>7
    <3> DEFINE m == Append(l, c)
    <3>2. l \in Text /\ s \in Seq(Text) /\ OneLine(l) /\ l # <<>> /\ Len(l) \in Nat
      BY <3>1, SeqMonotonic, TextFacts DEF Line
    <3>3. /\ m \in Text /\ m # <<>> /\ Len(m) = Len(l) + 1 /\ m[Len(m)] = c
          /\ \A k \in 1..Len(l) : m[k] = l[k]
      BY <2>1, <3>2, AppendProperties DEF Text
    <3> HIDE DEF m
    <3>4. OneLine(m)
      <4>1. ASSUME NEW k \in 1..(Len(m) - 1) PROVE m[k] \notin Newlines
        <5>1. k \in 1..Len(l) /\ (k \in 1..(Len(l) - 1) \/ k = Len(l))
          BY <3>2, <3>3
        <5> QED BY <2>7, <3>1, <3>2, <3>3, <5>1 DEF OneLine
      <4> QED BY <4>1 DEF OneLine
    <3>5. now = Append(s, m)
      <4>1. now = [before EXCEPT ![Len(before)] = Append(before[Len(before)], c)]
        BY <2>2, <2>7
      <4>2. before[Len(before)] = l
        BY <3>1, <3>2, ReplaceLast
      <4>3. [Append(s, l) EXCEPT ![Len(Append(s, l))] = m] = Append(s, m)
        BY <3>2, <3>3, ReplaceLast
      <4> QED BY <3>1, <4>1, <4>2, <4>3 DEF m
    <3> QED BY <2>1, <3>1, <3>3, <3>4, <3>5 DEF now, c
  <2> QED BY <2>4, <2>6, <2>7
<1>4. n \in T
  <2> HIDE DEF T, n
  <2> QED BY <1>1, <1>2, <1>3, LoopInduction
<1>5. CASE text = <<>>
  <2>1. n = 0
    BY <1>5
  <2>2. Lines(text) = <<>>
    BY <1>4, <2>1 DEF Lines
  <2> QED BY <2>2
<1>6. CASE text # <<>>
  <2>1. n # 0
    BY <1>6, TextFacts
  <2>2. PICK s \in Seq(Line), l \in Open : Lines(text) = Append(s, l) /\ l[Len(l)] = text[n]
    BY <1>4, <2>1 DEF Lines
  <2>3. s \in Seq({x \in Text : OneLine(x)}) /\ l \in {x \in Text : OneLine(x)}
    BY <2>2, SeqMonotonic DEF Line
  <2>4. Ended(text) => l \in Line
    BY <2>2 DEF Line, Ended
  <2> HIDE DEF Open
  <2> QED BY <1>6, <2>2, <2>3, <2>4, AppendProperties
<1> QED BY <1>5, <1>6

-----------------------------------------------------------------------------
(* Lines without their ends.                                               *)
LEMMA WordsType == ASSUME NEW line \in Text PROVE Words(line) \in Text
<1>1. CASE Ended(line)
  <2>1. Len(line) \in Nat /\ Len(line) # 0
    BY <1>1, TextFacts DEF Ended
  <2>2. \A i \in 1..(Len(line) - 1) : line[i] \in Chars
    BY <2>1, TextFacts
  <2>3. SubSeq(line, 1, Len(line) - 1) \in Text
    BY <2>1, <2>2, SubSeqProperties DEF Text
  <2> QED BY <1>1, <2>3 DEF Words
<1>2. CASE ~Ended(line)
  BY <1>2 DEF Words
<1> QED BY <1>1, <1>2

LEMMA NormType ==
  ASSUME NEW lines \in Seq(Text)
  PROVE  /\ Norm(lines) \in Seq(Text) /\ Len(Norm(lines)) = Len(lines)
         /\ \A k \in 1..Len(lines) : Norm(lines)[k] = Words(lines[k])
<1>1. Len(lines) \in Nat /\ DOMAIN lines = 1..Len(lines) /\ \A k \in 1..Len(lines) : lines[k] \in Text
  BY LenProperties
<1>2. Norm(lines) = [k \in 1..Len(lines) |-> Words(lines[k])]
  BY <1>1 DEF Norm
<1>3. \A k \in 1..Len(lines) : Words(lines[k]) \in Text
  BY <1>1, WordsType
<1>4. Norm(lines) \in [1..Len(lines) -> Text]
  BY <1>2, <1>3
<1> QED BY <1>1, <1>2, <1>4

LEMMA NormConcat ==
  ASSUME NEW s \in Seq(Text), NEW t \in Seq(Text)
  PROVE  Norm(s \o t) = Norm(s) \o Norm(t)
<1>1. /\ s \o t \in Seq(Text) /\ Len(s \o t) = Len(s) + Len(t) /\ Len(s) \in Nat /\ Len(t) \in Nat
      /\ \A i \in 1..(Len(s) + Len(t)) : (s \o t)[i] = IF i <= Len(s) THEN s[i] ELSE t[i - Len(s)]
  BY ConcatProperties, LenProperties
<1>2. /\ Norm(s) \in Seq(Text) /\ Len(Norm(s)) = Len(s)
      /\ \A i \in 1..Len(s) : Norm(s)[i] = Words(s[i])
      /\ Norm(t) \in Seq(Text) /\ Len(Norm(t)) = Len(t)
      /\ \A i \in 1..Len(t) : Norm(t)[i] = Words(t[i])
  BY NormType
<1>3. /\ Norm(s \o t) \in Seq(Text) /\ Len(Norm(s \o t)) = Len(s \o t)
      /\ \A i \in 1..Len(s \o t) : Norm(s \o t)[i] = Words((s \o t)[i])
  BY <1>1, NormType
<1>4. /\ Norm(s) \o Norm(t) \in Seq(Text) /\ Len(Norm(s) \o Norm(t)) = Len(s) + Len(t)
      /\ \A i \in 1..(Len(s) + Len(t)) :
           (Norm(s) \o Norm(t))[i] = IF i <= Len(s) THEN Norm(s)[i] ELSE Norm(t)[i - Len(s)]
  <2> DEFINE u == Norm(s)
             v == Norm(t)
  <2>1. u \in Seq(Text) /\ v \in Seq(Text) /\ Len(u) = Len(s) /\ Len(v) = Len(t)
    BY <1>2
  <2> HIDE DEF u, v
  <2>2. /\ u \o v \in Seq(Text) /\ Len(u \o v) = Len(u) + Len(v)
        /\ \A i \in 1..(Len(u) + Len(v)) : (u \o v)[i] = IF i <= Len(u) THEN u[i] ELSE v[i - Len(u)]
    BY <2>1, ConcatProperties
  <2> QED BY <2>1, <2>2 DEF u, v
<1>5. ASSUME NEW i \in 1..(Len(s) + Len(t)) PROVE Norm(s \o t)[i] = (Norm(s) \o Norm(t))[i]
  <2>1. CASE i <= Len(s)
    <3>1. i \in 1..Len(s)
      BY <1>1, <2>1
    <3> QED BY <1>1, <1>2, <1>3, <1>4, <2>1, <3>1
  <2>2. CASE ~(i <= Len(s))
    <3>1. i - Len(s) \in 1..Len(t)
      BY <1>1, <2>2
    <3> QED BY <1>1, <1>2, <1>3, <1>4, <2>2, <3>1
  <2> QED BY <2>1, <2>2
<1> QED BY <1>1, <1>3, <1>4, <1>5, SeqEqual

LEMMA NormSubSeq ==
  ASSUME NEW s \in Seq(Text), NEW m \in 1..(Len(s) + 1), NEW n \in 0..Len(s)
  PROVE  Norm(SubSeq(s, m, n)) = SubSeq(Norm(s), m, n)
<1> DEFINE l == IF m <= n THEN n - m + 1 ELSE 0
<1>1. Len(s) \in Nat /\ m \in Int /\ n \in Int /\ l \in Nat
  BY LenProperties
<1>2. /\ Norm(s) \in Seq(Text) /\ Len(Norm(s)) = Len(s)
      /\ \A i \in 1..Len(s) : Norm(s)[i] = Words(s[i]) /\ s[i] \in Text /\ Norm(s)[i] \in Text
  BY NormType, ElementOfSeq
<1>3. \A i \in m..n : i \in 1..Len(s) /\ s[i] \in Text /\ Norm(s)[i] \in Text
  BY <1>1, <1>2
<1>4. /\ SubSeq(s, m, n) \in Seq(Text) /\ Len(SubSeq(s, m, n)) = l
      /\ \A i \in 1..(n - m + 1) : SubSeq(s, m, n)[i] = s[m + i - 1]
  BY <1>1, <1>3, SubSeqProperties
<1>5. /\ SubSeq(Norm(s), m, n) \in Seq(Text) /\ Len(SubSeq(Norm(s), m, n)) = l
      /\ \A i \in 1..(n - m + 1) : SubSeq(Norm(s), m, n)[i] = Norm(s)[m + i - 1]
  BY <1>1, <1>3, SubSeqProperties
<1>6. /\ Norm(SubSeq(s, m, n)) \in Seq(Text) /\ Len(Norm(SubSeq(s, m, n))) = l
      /\ \A i \in 1..l : Norm(SubSeq(s, m, n))[i] = Words(SubSeq(s, m, n)[i])
  BY <1>4, NormType
<1>7. ASSUME NEW i \in 1..l PROVE Norm(SubSeq(s, m, n))[i] = SubSeq(Norm(s), m, n)[i]
  <2>1. i \in 1..(n - m + 1) /\ m + i - 1 \in 1..Len(s)
    BY <1>1
  <2>2. SubSeq(s, m, n)[i] = s[m + i - 1] /\ SubSeq(Norm(s), m, n)[i] = Norm(s)[m + i - 1]
    BY <1>4, <1>5, <2>1
  <2>3. Norm(SubSeq(s, m, n))[i] = Words(SubSeq(s, m, n)[i])
    BY <1>6
  <2>4. Norm(s)[m + i - 1] = Words(s[m + i - 1])
    BY <1>2, <2>1
  <2> QED BY <2>2, <2>3, <2>4
<1> HIDE DEF l
<1> QED BY <1>5, <1>6, <1>7, SeqEqual

LEMMA NormAppend ==
  ASSUME NEW s \in Seq(Text), NEW l \in Text
  PROVE  Norm(Append(s, l)) = Append(Norm(s), Words(l))
<1>1. /\ Append(s, l) \in Seq(Text) /\ Len(Append(s, l)) = Len(s) + 1 /\ Len(s) \in Nat
      /\ Append(s, l)[Len(s) + 1] = l
      /\ \A i \in 1..Len(s) : Append(s, l)[i] = s[i]
  BY AppendProperties, LenProperties
<1>2. /\ Norm(s) \in Seq(Text) /\ Len(Norm(s)) = Len(s) /\ Words(l) \in Text
      /\ \A i \in 1..Len(s) : Norm(s)[i] = Words(s[i])
  BY NormType, WordsType
<1>3. /\ Norm(Append(s, l)) \in Seq(Text) /\ Len(Norm(Append(s, l))) = Len(s) + 1
      /\ \A i \in 1..(Len(s) + 1) : Norm(Append(s, l))[i] = Words(Append(s, l)[i])
  BY <1>1, NormType
<1>4. /\ Append(Norm(s), Words(l)) \in Seq(Text) /\ Len(Append(Norm(s), Words(l))) = Len(s) + 1
      /\ Append(Norm(s), Words(l))[Len(s) + 1] = Words(l)
      /\ \A i \in 1..Len(s) : Append(Norm(s), Words(l))[i] = Norm(s)[i]
  BY <1>2, AppendProperties
<1>5. ASSUME NEW i \in 1..(Len(s) + 1)
      PROVE  Norm(Append(s, l))[i] = Append(Norm(s), Words(l))[i]
  <2>1. i \in 1..Len(s) \/ i = Len(s) + 1
    BY <1>1
  <2> QED BY <1>1, <1>2, <1>3, <1>4, <2>1
<1> QED BY <1>3, <1>4, <1>5, SeqEqual

-----------------------------------------------------------------------------
(* The lines of a hunk.                                                    *)
LEMMA HunkLineFacts ==
  ASSUME NEW lines \in Seq(HunkLines)
  PROVE  /\ Len(lines) \in Nat
         /\ \A k \in 1..Len(lines) :
              /\ lines[k].mark \in {"keep", "del", "add"}
              /\ lines[k].text \in Text /\ OneLine(lines[k].text)
<1>1. Len(lines) \in Nat
  BY LenProperties
<1>2. ASSUME NEW k \in 1..Len(lines)
      PROVE  /\ lines[k].mark \in {"keep", "del", "add"}
             /\ lines[k].text \in Text /\ OneLine(lines[k].text)
  <2> DEFINE texts == {t \in Seq(Chars) : OneLine(t)}
  <2>1. lines[k] \in HunkLines
    BY ElementOfSeq
  <2>2. lines[k] \in [mark : {"keep", "del", "add"}, text : texts]
    BY <2>1 DEF HunkLines
  <2>3. lines[k].mark \in {"keep", "del", "add"} /\ lines[k].text \in texts
    <3> HIDE DEF texts
    <3> QED BY <2>2
  <2> QED BY <2>3 DEF Text
<1> QED BY <1>1, <1>2

LEMMA PickType ==
  ASSUME NEW lines \in Seq(HunkLines), NEW marks, NEW j \in 0..Len(lines)
  PROVE  Pick(lines, marks)[j] \in Seq(Text)
<1> DEFINE n == Len(lines)
           P == Pick(lines, marks)
           T == {k \in 0..n : P[k] \in Seq(Text)}
<1>1. n \in Nat /\ \A k \in 1..n : lines[k].text \in Text
  BY HunkLineFacts
<1>2. /\ P[0] = <<>>
      /\ \A k \in 1..n : P[k] = IF lines[k].mark \in marks THEN Append(P[k - 1], lines[k].text)
                                ELSE P[k - 1]
  BY <1>1, PickDef
<1> HIDE DEF P, n
<1>3. P[0] \in Seq(Text)
  <2>1. <<>> \in Seq(Text)
    BY EmptySeq
  <2> QED BY <1>2, <2>1, Zenon
<1>4. 0 \in T
  BY <1>1, <1>3
<1>5. ASSUME NEW k \in 1..n, k - 1 \in T PROVE k \in T
  <2>1. P[k - 1] \in Seq(Text) /\ lines[k].text \in Text /\ k \in 0..n
    BY <1>1, <1>5
  <2>2. P[k] = P[k - 1] \/ P[k] = Append(P[k - 1], lines[k].text)
    BY <1>2
  <2>3. Append(P[k - 1], lines[k].text) \in Seq(Text)
    BY <2>1, AppendProperties
  <2>4. P[k] \in Seq(Text)
    BY <2>1, <2>2, <2>3, Zenon
  <2> QED BY <2>1, <2>4
<1>6. 0..n \subseteq T
  <2> HIDE DEF T
  <2> QED BY <1>1, <1>4, <1>5, LoopInduction
<1> QED BY <1>6 DEF n, P

(* What is picked is not changed by what is picked later.                  *)
LEMMA PickGrows ==
  ASSUME NEW lines \in Seq(HunkLines), NEW marks, NEW i \in 0..Len(lines)
  PROVE  \A j \in i..Len(lines) :
           /\ Len(Pick(lines, marks)[i]) <= Len(Pick(lines, marks)[j])
           /\ \A q \in 1..Len(Pick(lines, marks)[i]) :
                Pick(lines, marks)[j][q] = Pick(lines, marks)[i][q]
<1> DEFINE n == Len(lines)
           P == Pick(lines, marks)
           Same(j) == Len(P[i]) <= Len(P[j]) /\ \A q \in 1..Len(P[i]) : P[j][q] = P[i][q]
           T == {j \in 0..n : j >= i => Same(j)}
<1>1. n \in Nat /\ \A k \in 1..n : lines[k].text \in Text
  BY HunkLineFacts
<1>2. \A j \in 0..n : P[j] \in Seq(Text) /\ Len(P[j]) \in Nat
  BY PickType, LenProperties
<1>3. \A k \in 1..n : P[k] = IF lines[k].mark \in marks THEN Append(P[k - 1], lines[k].text)
                             ELSE P[k - 1]
  BY <1>1, PickDef
<1> HIDE DEF P, n
<1>4. Same(i)
  BY <1>2 DEF n
<1>5. 0 \in T
  <2>1. i >= 0 /\ (0 >= i => i = 0)
    OBVIOUS
  <2> HIDE DEF Same
  <2>2. 0 >= i => Same(0)
    BY <1>4, <2>1
  <2> QED BY <1>1, <2>2
<1>6. ASSUME NEW k \in 1..n, k - 1 \in T PROVE k \in T
  <2>1. CASE k - 1 >= i
    <3>1. Same(k - 1) /\ k - 1 \in 0..n /\ k \in 0..n /\ i \in 0..n
      BY <1>1, <1>6, <2>1, SMTT(30) DEF n
    <3>2. P[k - 1] \in Seq(Text) /\ Len(P[k - 1]) \in Nat /\ Len(P[i]) \in Nat
      BY <1>2, <3>1
    <3>3. CASE P[k] = P[k - 1]
      BY <3>1, <3>3
    <3>4. CASE P[k] = Append(P[k - 1], lines[k].text)
      <4>1. /\ Len(P[k]) = Len(P[k - 1]) + 1
            /\ \A q \in 1..Len(P[k - 1]) : P[k][q] = P[k - 1][q]
        BY <1>1, <3>2, <3>4, AppendProperties
      <4>2. \A q \in 1..Len(P[i]) : q \in 1..Len(P[k - 1])
        BY <3>1, <3>2
      <4> QED BY <3>1, <3>2, <4>1, <4>2
    <3> QED BY <1>3, <3>3, <3>4
  <2>2. CASE k - 1 < i /\ k >= i
    <3>1. k = i
      BY <2>2
    <3>2. Same(k)
      BY <1>4, <3>1
    <3> HIDE DEF Same
    <3> QED BY <1>1, <3>2
  <2>3. CASE ~(k >= i)
    BY <1>1, <2>3
  <2> QED BY <2>1, <2>2, <2>3
<1>7. 0..n \subseteq T
  <2> HIDE DEF T
  <2> QED BY <1>1, <1>5, <1>6, LoopInduction
<1>8. \A j \in i..n : Same(j)
  <2> HIDE DEF Same
  <2> QED BY <1>1, <1>7 DEF n
<1> QED BY <1>8 DEF P, n

(* A line with the mark is the last that is picked up to it.               *)
LEMMA PickLast ==
  ASSUME NEW lines \in Seq(HunkLines), NEW marks, NEW j \in 1..Len(lines), lines[j].mark \in marks
  PROVE  LET P == Pick(lines, marks)
             n == Len(lines) IN
         /\ Len(P[j]) \in 1..Len(P[n]) /\ Len(P[j]) = Len(P[j - 1]) + 1
         /\ P[n][Len(P[j])] = lines[j].text
<1> DEFINE n == Len(lines)
           P == Pick(lines, marks)
<1>1. n \in Nat /\ j \in 0..n /\ j - 1 \in 0..n /\ lines[j].text \in Text /\ n \in j..n
  BY HunkLineFacts
<1>2. P[j] = Append(P[j - 1], lines[j].text)
  BY <1>1, PickDef
<1>3. P[j - 1] \in Seq(Text) /\ Len(P[j - 1]) \in Nat
  BY <1>1, PickType, LenProperties
<1>4. Len(P[j]) = Len(P[j - 1]) + 1 /\ P[j][Len(P[j - 1]) + 1] = lines[j].text
  BY <1>1, <1>2, <1>3, AppendProperties
<1>5. Len(P[j]) <= Len(P[n]) /\ \A q \in 1..Len(P[j]) : P[n][q] = P[j][q]
  BY <1>1, PickGrows, ZenonT(30)
<1>6. Len(P[n]) \in Nat
  <2>1. n \in 0..Len(lines)
    BY <1>1
  <2> QED BY <2>1, PickType, LenProperties
<1> HIDE DEF P, n
<1>7. Len(P[j]) \in 1..Len(P[n]) /\ P[n][Len(P[j])] = lines[j].text
  BY <1>3, <1>4, <1>5, <1>6
<1> QED BY <1>4, <1>7 DEF P, n

-----------------------------------------------------------------------------
(* One hunk.                                                               *)

(* The new segment, by the marks of the lines.                             *)
LEMMA ReplacedLines ==
  ASSUME NEW lines, NEW at, NEW hunk, Len(hunk.lines) \in Nat
  PROVE  LET R == Replaced(lines, at, hunk)
             P == Pick(hunk.lines, {"keep", "del"})
             n == Len(hunk.lines) IN
         /\ R[0] = <<>>
         /\ \A j \in 1..n : hunk.lines[j].mark = "keep" => R[j] = Append(R[j - 1], lines[at + Len(P[j])])
         /\ \A j \in 1..n : hunk.lines[j].mark = "del" => R[j] = R[j - 1]
         /\ \A j \in 1..n : hunk.lines[j].mark = "add" => R[j] = Append(R[j - 1], hunk.lines[j].text)
<1> DEFINE R == Replaced(lines, at, hunk)
           P == Pick(hunk.lines, {"keep", "del"})
           n == Len(hunk.lines)
<1>1. R[0] = <<>>
  BY ReplacedDef
<1>2. \A j \in 1..n : R[j] = IF hunk.lines[j].mark = "keep" THEN Append(R[j - 1], lines[at + Len(P[j])])
                          ELSE IF hunk.lines[j].mark = "del" THEN R[j - 1]
                          ELSE Append(R[j - 1], hunk.lines[j].text)
  BY ReplacedDef
<1> HIDE DEF R, P, n
<1>3. ASSUME NEW j \in 1..n
      PROVE  /\ hunk.lines[j].mark = "keep" => R[j] = Append(R[j - 1], lines[at + Len(P[j])])
             /\ hunk.lines[j].mark = "del" => R[j] = R[j - 1]
             /\ hunk.lines[j].mark = "add" => R[j] = Append(R[j - 1], hunk.lines[j].text)
  BY <1>2
<1> QED BY <1>1, <1>3 DEF R, P, n

(* What replaces the old lines of a hunk are lines of the text and those   *)
(* that the hunk adds, in any set that both are in.                        *)
LEMMA SegmentType ==
  ASSUME NEW S, NEW lines \in Seq(S), NEW at \in Nat, NEW hunk \in Hunks,
         Len(OldLines(hunk)) = 0 \/ at + Len(OldLines(hunk)) <= Len(lines),
         \A j \in 1..Len(hunk.lines) : hunk.lines[j].mark = "add" => hunk.lines[j].text \in S
  PROVE  \A j \in 0..Len(hunk.lines) : Replaced(lines, at, hunk)[j] \in Seq(S)
<1> DEFINE R == Replaced(lines, at, hunk)
           P == Pick(hunk.lines, {"keep", "del"})
           n == Len(hunk.lines)
           T == {j \in 0..n : R[j] \in Seq(S)}
<1>1. hunk.lines \in Seq(HunkLines)
  BY DEF Hunks
<1>2. n \in Nat /\ \A j \in 1..n : hunk.lines[j].mark \in {"keep", "del", "add"}
  BY <1>1, HunkLineFacts
<1>3. /\ R[0] = <<>>
      /\ \A j \in 1..n : hunk.lines[j].mark = "keep" => R[j] = Append(R[j - 1], lines[at + Len(P[j])])
      /\ \A j \in 1..n : hunk.lines[j].mark = "del" => R[j] = R[j - 1]
      /\ \A j \in 1..n : hunk.lines[j].mark = "add" => R[j] = Append(R[j - 1], hunk.lines[j].text)
  BY <1>2, ReplacedLines
<1>4. ASSUME NEW j \in 1..n, hunk.lines[j].mark = "keep" PROVE lines[at + Len(P[j])] \in S
  <2>1. Len(P[j]) \in 1..Len(P[n])
    BY <1>1, <1>4, PickLast
  <2>2. Len(P[n]) = Len(OldLines(hunk)) /\ Len(lines) \in Nat
    BY LenProperties DEF OldLines
  <2>3. Len(P[n]) \in Nat
    <3>1. n \in 0..n
      BY <1>2
    <3> QED BY <1>1, <3>1, PickType, LenProperties
  <2> HIDE DEF P
  <2>4. at + Len(P[j]) \in 1..Len(lines)
    BY <2>1, <2>2, <2>3
  <2> QED BY <2>4, ElementOfSeq
<1> HIDE DEF R, P, n
<1>5. 0 \in T
  <2>1. <<>> \in Seq(S)
    BY EmptySeq
  <2>2. R[0] \in Seq(S)
    BY <1>3, <2>1, Zenon
  <2> QED BY <1>2, <2>2
<1>6. ASSUME NEW j \in 1..n, j - 1 \in T PROVE j \in T
  <2>1. R[j - 1] \in Seq(S) /\ j \in 0..n
    BY <1>2, <1>6
  <2>2. ASSUME NEW x \in S PROVE Append(R[j - 1], x) \in Seq(S)
    BY <2>1, AppendProperties
  <2>3. hunk.lines[j].mark = "add" => hunk.lines[j].text \in S
    BY DEF n
  <2>4. R[j] \in Seq(S)
    BY <1>2, <1>3, <1>4, <2>1, <2>2, <2>3
  <2> QED BY <2>1, <2>4
<1>7. 0..n \subseteq T
  <2> HIDE DEF T
  <2> QED BY <1>2, <1>5, <1>6, LoopInduction
<1> QED BY <1>7 DEF n, R

(* If the old lines of a hunk are what the text has there, the new segment *)
(* is the new lines of the hunk, but for line ends.                        *)
LEMMA SegmentMeans ==
  ASSUME NEW lines \in Seq(Text), NEW at \in Nat, NEW hunk \in Hunks,
         at + Len(OldLines(hunk)) <= Len(lines),
         Norm(SubSeq(lines, at + 1, at + Len(OldLines(hunk)))) = Norm(OldLines(hunk))
  PROVE  /\ NewSegment(lines, at, hunk) \in Seq(Text)
         /\ Norm(NewSegment(lines, at, hunk)) = Norm(NewLines(hunk))
<1> DEFINE R == Replaced(lines, at, hunk)
           P == Pick(hunk.lines, {"keep", "del"})
           N == Pick(hunk.lines, {"keep", "add"})
           n == Len(hunk.lines)
           old == OldLines(hunk)
           T == {j \in 0..n : Norm(R[j]) = Norm(N[j])}
<1>1. hunk.lines \in Seq(HunkLines)
  BY DEF Hunks
<1>2. /\ n \in Nat
      /\ \A j \in 1..n : hunk.lines[j].mark \in {"keep", "del", "add"} /\ hunk.lines[j].text \in Text
  BY <1>1, HunkLineFacts
<1>3. /\ R[0] = <<>>
      /\ \A j \in 1..n : hunk.lines[j].mark = "keep" => R[j] = Append(R[j - 1], lines[at + Len(P[j])])
      /\ \A j \in 1..n : hunk.lines[j].mark = "del" => R[j] = R[j - 1]
      /\ \A j \in 1..n : hunk.lines[j].mark = "add" => R[j] = Append(R[j - 1], hunk.lines[j].text)
  <2>1. n \in Nat
    BY <1>2
  <2> HIDE DEF N, old, T
  <2> QED BY <2>1, ReplacedLines
<1>4. /\ N[0] = <<>>
      /\ \A j \in 1..n : N[j] = IF hunk.lines[j].mark \in {"keep", "add"}
                                THEN Append(N[j - 1], hunk.lines[j].text) ELSE N[j - 1]
  BY <1>2, PickDef
<1>5. \A j \in 0..n : R[j] \in Seq(Text)
  <2>1. \A j \in 1..Len(hunk.lines) : hunk.lines[j].mark = "add" => hunk.lines[j].text \in Text
    BY <1>2
  <2> QED BY <2>1, SegmentType
<1>6. \A j \in 0..n : N[j] \in Seq(Text)
  BY <1>1, PickType
<1>7. old \in Seq(Text) /\ Len(old) \in Nat /\ Len(lines) \in Nat
  <2>1. n \in 0..n
    BY <1>2
  <2>2. old \in Seq(Text)
    BY <1>1, <2>1, PickType DEF OldLines
  <2> QED BY <2>2, LenProperties
<1>8. ASSUME NEW j \in 1..n, hunk.lines[j].mark = "keep"
      PROVE  /\ lines[at + Len(P[j])] \in Text
             /\ Words(lines[at + Len(P[j])]) = Words(hunk.lines[j].text)
  <2> DEFINE q == Len(P[j])
             there == SubSeq(lines, at + 1, at + Len(old))
  <2>1. q \in 1..Len(old) /\ old[q] = hunk.lines[j].text
    BY <1>1, <1>8, PickLast DEF OldLines
  <2> HIDE DEF q, old
  <2>2. \A i \in (at + 1)..(at + Len(old)) : i \in 1..Len(lines) /\ lines[i] \in Text
    BY <1>7, ElementOfSeq DEF old
  <2>3. /\ there \in Seq(Text) /\ Len(there) = Len(old)
        /\ \A i \in 1..Len(old) : there[i] = lines[at + i]
    <3> DEFINE a == at + 1
               b == at + Len(old)
    <3>1. a \in Int /\ b \in Int /\ b - a + 1 = Len(old) /\ (a <= b <=> Len(old) # 0)
      BY <1>7
    <3>2. /\ SubSeq(lines, a, b) \in Seq(Text)
          /\ Len(SubSeq(lines, a, b)) = IF a <= b THEN b - a + 1 ELSE 0
          /\ \A i \in 1..(b - a + 1) : SubSeq(lines, a, b)[i] = lines[a + i - 1]
      <4> HIDE DEF a, b
      <4> QED BY <2>2, <3>1, SubSeqProperties DEF a, b
    <3>3. \A i \in 1..Len(old) : a + i - 1 = at + i
      OBVIOUS
    <3> QED BY <3>1, <3>2, <3>3
  <2> HIDE DEF there
  <2>4. Norm(there)[q] = Words(there[q]) /\ Norm(old)[q] = Words(old[q])
    BY <1>7, <2>1, <2>3, NormType
  <2>5. Norm(there) = Norm(old)
    BY DEF there, old
  <2>6. there[q] = lines[at + q] /\ lines[at + q] \in Text
    BY <1>7, <2>1, <2>2, <2>3
  <2> QED BY <2>1, <2>4, <2>5, <2>6 DEF q
<1> HIDE DEF R, P, N, n, old
<1>9. 0 \in T
  BY <1>2, <1>3, <1>4
<1>10. ASSUME NEW j \in 1..n, j - 1 \in T PROVE j \in T
  <2>1. j \in 0..n /\ j - 1 \in 0..n /\ Norm(R[j - 1]) = Norm(N[j - 1])
    BY <1>2, <1>10
  <2>2. R[j - 1] \in Seq(Text) /\ N[j - 1] \in Seq(Text)
    BY <1>5, <1>6, <2>1
  <2>3. ASSUME NEW x \in Text, NEW y \in Text, Words(x) = Words(y)
        PROVE Norm(Append(R[j - 1], x)) = Norm(Append(N[j - 1], y))
    BY <2>1, <2>2, <2>3, NormAppend
  <2>4. CASE hunk.lines[j].mark = "keep"
    <3>1. R[j] = Append(R[j - 1], lines[at + Len(P[j])]) /\ N[j] = Append(N[j - 1], hunk.lines[j].text)
      BY <1>3, <1>4, <2>4
    <3>2. Norm(R[j]) = Norm(N[j])
      BY <1>2, <1>8, <2>3, <2>4, <3>1
    <3> QED BY <2>1, <3>2
  <2>5. CASE hunk.lines[j].mark = "del"
    <3>1. R[j] = R[j - 1] /\ N[j] = N[j - 1]
      BY <1>3, <1>4, <2>5
    <3> QED BY <2>1, <3>1
  <2>6. CASE hunk.lines[j].mark = "add"
    <3>1. R[j] = Append(R[j - 1], hunk.lines[j].text) /\ N[j] = Append(N[j - 1], hunk.lines[j].text)
      BY <1>3, <1>4, <2>6
    <3>2. Norm(R[j]) = Norm(N[j])
      BY <1>2, <2>3, <3>1
    <3> QED BY <2>1, <3>2
  <2> QED BY <1>2, <2>4, <2>5, <2>6
<1>11. n \in T /\ n \in 0..n
  <2>1. 0..n \subseteq T
    <3> HIDE DEF T
    <3> QED BY <1>2, <1>9, <1>10, LoopInduction
  <2> QED BY <1>2, <2>1
<1>12. R[n] \in Seq(Text) /\ Norm(R[n]) = Norm(N[n])
  BY <1>5, <1>11
<1> QED BY <1>12 DEF NewSegment, NewLines, R, N, n

(* The first and last lines of a text whose beginning, up to line e, was   *)
(* replaced by P: those after it are where they were, moved by what was    *)
(* added.                                                                  *)
CutsAt(P, L, e, a, b) ==
  LET X == P \o SubSeq(L, e + 1, Len(L))
      d == Len(P) - e IN
  /\ Len(X) = Len(L) + d
  /\ SubSeq(X, 1, a + d) = P \o SubSeq(L, e + 1, a)
  /\ SubSeq(X, a + d + 1, b + d) = SubSeq(L, a + 1, b)
  /\ SubSeq(X, b + d + 1, Len(X)) = SubSeq(L, b + 1, Len(L))

LEMMA Cut ==
  ASSUME NEW S, NEW P \in Seq(S), NEW L \in Seq(S),
         NEW e \in 0..Len(L), NEW a \in e..Len(L), NEW b \in a..Len(L)
  PROVE  P \o SubSeq(L, e + 1, Len(L)) \in Seq(S) /\ CutsAt(P, L, e, a, b)
<1> DEFINE n == Len(L)
           p == Len(P)
           R == SubSeq(L, e + 1, n)
           X == P \o R
           d == p - e
<1>1. n \in Nat /\ p \in Nat /\ e \in Nat /\ a \in Nat /\ b \in Nat /\ e <= a /\ a <= b /\ b <= n
  BY LenProperties
<1>2. ASSUME NEW i \in 1..n PROVE L[i] \in S
  BY ElementOfSeq
<1>3. ASSUME NEW i \in 1..p PROVE P[i] \in S
  BY ElementOfSeq
<1>4. ASSUME NEW k \in 0..n, NEW m \in 0..n, k <= m
      PROVE  /\ SubSeq(L, k + 1, m) \in Seq(S) /\ Len(SubSeq(L, k + 1, m)) = m - k
             /\ \A i \in 1..(m - k) : SubSeq(L, k + 1, m)[i] = L[k + i]
  <2> DEFINE f == k + 1
  <2>1. f \in Int /\ m \in Int /\ (\A i \in f..m : L[i] \in S) /\ m - f + 1 = m - k
    BY <1>1, <1>2, <1>4
  <2>2. /\ SubSeq(L, f, m) \in Seq(S)
        /\ Len(SubSeq(L, f, m)) = IF f <= m THEN m - f + 1 ELSE 0
        /\ \A i \in 1..(m - f + 1) : SubSeq(L, f, m)[i] = L[f + i - 1]
    <3> HIDE DEF f
    <3> QED BY <2>1, SubSeqProperties
  <2>3. (f <= m \/ m - k = 0) /\ \A i \in 1..(m - k) : f + i - 1 = k + i
    BY <1>1, <1>4
  <2> QED BY <2>1, <2>2, <2>3
<1>5. /\ R \in Seq(S) /\ Len(R) = n - e /\ \A i \in 1..(n - e) : R[i] = L[e + i]
  BY <1>1, <1>4
<1>6. /\ X \in Seq(S) /\ Len(X) = n + d /\ Len(X) \in Nat
      /\ \A i \in 1..p : X[i] = P[i]
      /\ \A i \in (e + 1)..n : X[i + d] = L[i]
  <2> HIDE DEF R
  <2>1. /\ X \in Seq(S) /\ Len(X) = p + (n - e)
        /\ \A i \in 1..(p + (n - e)) : X[i] = IF i <= p THEN P[i] ELSE R[i - p]
    <3>1. /\ X \in Seq(S) /\ Len(X) = Len(P) + Len(R)
          /\ \A i \in 1..(Len(P) + Len(R)) : X[i] = IF i <= Len(P) THEN P[i] ELSE R[i - Len(P)]
      BY <1>5, ConcatProperties
    <3> HIDE DEF X
    <3> QED BY <1>5, <3>1
  <2> HIDE DEF X
  <2>2. ASSUME NEW i \in (e + 1)..n PROVE X[i + d] = L[i]
    <3> DEFINE j == i + d
    <3>1. j \in 1..(p + (n - e)) /\ ~(j <= p) /\ j - p = i - e /\ i - e \in 1..(n - e) /\ e + (i - e) = i
      BY <1>1
    <3>2. X[j] = R[i - e]
      <4> HIDE DEF j, n, p
      <4> QED BY <2>1, <3>1
    <3>3. R[i - e] = L[e + (i - e)]
      <4> HIDE DEF n
      <4> QED BY <1>5, <3>1
    <3> QED BY <3>1, <3>2, <3>3
  <2> QED BY <1>1, <2>1, <2>2
<1> HIDE DEF X, R
<1>7. ASSUME NEW f \in 1..(n + d + 1), NEW m \in 0..(n + d)
      PROVE  /\ SubSeq(X, f, m) \in Seq(S)
             /\ Len(SubSeq(X, f, m)) = IF f <= m THEN m - f + 1 ELSE 0
             /\ \A i \in 1..(m - f + 1) : SubSeq(X, f, m)[i] = X[f + i - 1]
  <2>1. f \in Int /\ m \in Int /\ \A i \in f..m : i \in 1..Len(X)
    BY <1>1, <1>6
  <2>2. \A i \in f..m : X[i] \in S
    BY <1>6, <2>1, ElementOfSeq
  <2> QED BY <2>1, <2>2, SubSeqProperties
<1>8. SubSeq(X, 1, a + d) = P \o SubSeq(L, e + 1, a)
  <2> DEFINE left == SubSeq(X, 1, a + d)
             mid == SubSeq(L, e + 1, a)
             right == P \o mid
  <2>1. 1 \in 1..(n + d + 1) /\ a + d \in 0..(n + d) /\ a + d - 1 + 1 = a + d
    BY <1>1
  <2>2. left \in Seq(S) /\ Len(left) = a + d /\ \A i \in 1..(a + d) : left[i] = X[i]
    <3>1. /\ left \in Seq(S) /\ Len(left) = IF 1 <= a + d THEN a + d - 1 + 1 ELSE 0
          /\ \A i \in 1..(a + d - 1 + 1) : left[i] = X[1 + i - 1]
      <4> DEFINE f == 1
                 m == a + d
      <4>1. f \in 1..(n + d + 1) /\ m \in 0..(n + d)
        BY <2>1
      <4>2. /\ SubSeq(X, f, m) \in Seq(S)
            /\ Len(SubSeq(X, f, m)) = IF f <= m THEN m - f + 1 ELSE 0
            /\ \A i \in 1..(m - f + 1) : SubSeq(X, f, m)[i] = X[f + i - 1]
        <5> HIDE DEF f, m
        <5> QED BY <1>7, <4>1
      <4> QED BY <4>2
    <3>2. \A i \in 1..(a + d) : 1 + i - 1 = i
      BY <1>1
    <3> HIDE DEF left
    <3> QED BY <1>1, <2>1, <3>1, <3>2
  <2>3. mid \in Seq(S) /\ Len(mid) = a - e /\ \A i \in 1..(a - e) : mid[i] = L[e + i]
    BY <1>1, <1>4
  <2> HIDE DEF left, mid
  <2>4. /\ right \in Seq(S) /\ Len(right) = p + (a - e)
        /\ \A i \in 1..(p + (a - e)) : right[i] = IF i <= p THEN P[i] ELSE mid[i - p]
    <3>1. /\ right \in Seq(S) /\ Len(right) = Len(P) + Len(mid)
          /\ \A i \in 1..(Len(P) + Len(mid)) : right[i] = IF i <= Len(P) THEN P[i] ELSE mid[i - Len(P)]
      BY <2>3, ConcatProperties
    <3> HIDE DEF right
    <3> QED BY <2>3, <3>1
  <2> HIDE DEF right
  <2>5. ASSUME NEW i \in 1..(a + d) PROVE left[i] = right[i]
    <3>1. i \in 1..(p + (a - e))
      BY <1>1
    <3>2. CASE i <= p
      <4>1. i \in 1..p
        BY <1>1, <3>2
      <4> QED BY <1>6, <2>2, <2>4, <3>1, <3>2, <4>1
    <3>3. CASE ~(i <= p)
      <4>1. i - p \in 1..(a - e) /\ i - d \in (e + 1)..n /\ (i - d) + d = i /\ e + (i - p) = i - d
        BY <1>1, <3>3
      <4>2. X[i] = L[i - d]
        BY <1>6, <4>1
      <4> QED BY <2>2, <2>3, <2>4, <3>1, <3>3, <4>1, <4>2
    <3> QED BY <3>2, <3>3
  <2>6. Len(left) = Len(right)
    BY <1>1, <2>2, <2>4
  <2>7. left = right
    BY <2>2, <2>4, <2>5, <2>6, SeqEqual
  <2> QED BY <2>7 DEF left, right, mid
<1>9. ASSUME NEW k \in a..n, NEW m \in k..n
      PROVE  SubSeq(X, k + d + 1, m + d) = SubSeq(L, k + 1, m)
  <2> DEFINE f == k + d + 1
             g == m + d
             left == SubSeq(X, f, g)
             right == SubSeq(L, k + 1, m)
  <2>1. /\ f \in 1..(n + d + 1) /\ g \in 0..(n + d) /\ g - f + 1 = m - k /\ (f <= g \/ m - k = 0)
        /\ k \in 0..n /\ m \in 0..n /\ k <= m
    BY <1>1
  <2>2. /\ left \in Seq(S) /\ Len(left) = IF f <= g THEN g - f + 1 ELSE 0
        /\ \A i \in 1..(g - f + 1) : left[i] = X[f + i - 1]
    <3> HIDE DEF f, g
    <3> QED BY <1>7, <2>1
  <2>3. right \in Seq(S) /\ Len(right) = m - k /\ \A i \in 1..(m - k) : right[i] = L[k + i]
    BY <1>4, <2>1
  <2> HIDE DEF left, right
  <2>4. ASSUME NEW i \in 1..(m - k) PROVE left[i] = right[i]
    <3>1. f + i - 1 = (k + i) + d /\ k + i \in (e + 1)..n
      BY <1>1, <2>1
    <3> QED BY <1>6, <2>1, <2>2, <2>3, <3>1
  <2>5. Len(left) = m - k
    BY <1>1, <2>1, <2>2
  <2>6. left = right
    BY <2>2, <2>3, <2>4, <2>5, SeqEqual
  <2> QED BY <2>6 DEF left, right
<1>10. SubSeq(X, a + d + 1, b + d) = SubSeq(L, a + 1, b)
  BY <1>1, <1>9
<1>11. SubSeq(X, b + d + 1, n + d) = SubSeq(L, b + 1, n)
  <2>1. b \in a..n /\ n \in b..n
    BY <1>1
  <2> QED BY <1>9, <2>1
<1> QED BY <1>6, <1>8, <1>10, <1>11 DEF X, R, CutsAt

LEMMA MaxMin ==
  ASSUME NEW a \in Int, NEW b \in Int
  PROVE  /\ Max({a, b}) = IF a >= b THEN a ELSE b
         /\ Min({a, b}) = IF a <= b THEN a ELSE b
<1>1. Max({a, b}) \in {a, b} /\ \A y \in {a, b} : Max({a, b}) >= y
  <2>1. \E x \in {a, b} : \A y \in {a, b} : x >= y
    OBVIOUS
  <2> QED BY <2>1 DEF Max
<1>2. Min({a, b}) \in {a, b} /\ \A y \in {a, b} : Min({a, b}) <= y
  <2>1. \E x \in {a, b} : \A y \in {a, b} : x <= y
    OBVIOUS
  <2> QED BY <2>1 DEF Min
<1> QED BY <1>1, <1>2

(* What the loop over the hunks has done.                                  *)
Done == [ok : BOOLEAN, lines : Seq(Text), offset : Int]

LEMMA OldLinesType ==
  ASSUME NEW hunk \in Hunks
  PROVE  /\ OldLines(hunk) \in Seq(Text) /\ Len(OldLines(hunk)) \in Nat
         /\ NewLines(hunk) \in Seq(Text)
<1>1. hunk.lines \in Seq(HunkLines)
  BY DEF Hunks
<1>2. Len(hunk.lines) \in 0..Len(hunk.lines)
  BY <1>1, LenProperties
<1> QED BY <1>1, <1>2, PickType, LenProperties DEF OldLines, NewLines

(* A hunk is refused, or its old lines are in the text.                    *)
LEMMA ApplyHunkCases ==
  ASSUME NEW done \in Done, NEW hunk \in Hunks
  PROVE  LET x == hunk.start - 1 + done.offset
             at == IF x >= 0 THEN x ELSE 0
             size == Len(OldLines(hunk))
             n == Len(done.lines)
             new == NewSegment(done.lines, at, hunk)
             there == SubSeq(done.lines, at + 1, IF at + size <= n THEN at + size ELSE n) IN
         IF ~done.ok \/ Norm(there) # Norm(OldLines(hunk))
         THEN ApplyHunk(done, hunk) = [done EXCEPT !.ok = FALSE]
         ELSE /\ size = 0 \/ at + size <= n
              /\ ApplyHunk(done, hunk) =
                   [ok |-> TRUE,
                    lines |-> (SubSeq(done.lines, 1, IF at <= n THEN at ELSE n) \o new)
                                \o SubSeq(done.lines, at + size + 1, n),
                    offset |-> done.offset + Len(new) - size]
<1> DEFINE x == hunk.start - 1 + done.offset
           at == IF x >= 0 THEN x ELSE 0
           size == Len(OldLines(hunk))
           n == Len(done.lines)
           to == IF at + size <= n THEN at + size ELSE n
           there == SubSeq(done.lines, at + 1, to)
<1>1. x \in Int /\ done.lines \in Seq(Text) /\ n \in Nat /\ size \in Nat /\ at \in Nat
  <2>1. hunk.start \in Nat /\ done.offset \in Int /\ done.lines \in Seq(Text)
    BY DEF Hunks, Done
  <2> QED BY <2>1, OldLinesType, LenProperties
<1>2. Max({0, x}) = at /\ Min({at + size, n}) = to /\ Min({at, n}) = IF at <= n THEN at ELSE n
  <2> HIDE DEF x, size, n
  <2>1. Max({0, x}) = at
    BY <1>1, MaxMin
  <2> HIDE DEF at
  <2>2. at + size \in Int /\ at \in Int /\ n \in Int
    BY <1>1
  <2>3. Min({at + size, n}) = IF at + size <= n THEN at + size ELSE n
    BY <2>2, MaxMin
  <2>4. Min({at, n}) = IF at <= n THEN at ELSE n
    BY <2>2, MaxMin
  <2> QED BY <2>1, <2>3, <2>4
<1>3. ASSUME Norm(there) = Norm(OldLines(hunk)), size # 0 PROVE at + size <= n
  <2>1. /\ \A i \in (at + 1)..to : i \in 1..n
        /\ to \in Int /\ at + 1 \in Int /\ to <= at + size
    BY <1>1
  <2>2. \A i \in (at + 1)..to : done.lines[i] \in Text
    BY <1>1, <2>1, ElementOfSeq
  <2>3. there \in Seq(Text) /\ Len(there) = IF at + 1 <= to THEN to - (at + 1) + 1 ELSE 0
    <3> DEFINE f == at + 1
    <3>1. f \in Int /\ to \in Int /\ \A i \in f..to : done.lines[i] \in Text
      BY <2>1, <2>2
    <3> HIDE DEF f, to
    <3>2. /\ SubSeq(done.lines, f, to) \in Seq(Text)
          /\ Len(SubSeq(done.lines, f, to)) = IF f <= to THEN to - f + 1 ELSE 0
      BY <3>1, SubSeqProperties
    <3> QED BY <3>2 DEF f
  <2> HIDE DEF there
  <2>4. Len(there) = size
    BY <1>3, <2>3, NormType, OldLinesType
  <2> HIDE DEF at, n, size
  <2> QED BY <1>1, <1>3, <2>1, <2>3, <2>4
<1>4. ApplyHunk(done, hunk) =
        IF ~done.ok \/ Norm(there) # Norm(OldLines(hunk)) THEN [done EXCEPT !.ok = FALSE]
        ELSE [ok |-> TRUE,
              lines |-> SubSeq(done.lines, 1, IF at <= n THEN at ELSE n) \o NewSegment(done.lines, at, hunk)
                          \o SubSeq(done.lines, at + size + 1, n),
              offset |-> done.offset + Len(NewSegment(done.lines, at, hunk)) - size]
  BY <1>2, Zenon DEF ApplyHunk
<1> QED BY <1>3, <1>4

LEMMA ApplyHunkType ==
  ASSUME NEW done \in Done, NEW hunk \in Hunks
  PROVE  ApplyHunk(done, hunk) \in Done
<1> DEFINE x == hunk.start - 1 + done.offset
           at == IF x >= 0 THEN x ELSE 0
           size == Len(OldLines(hunk))
           n == Len(done.lines)
           new == NewSegment(done.lines, at, hunk)
<1>1. /\ done.lines \in Seq(Text) /\ n \in Nat /\ size \in Nat /\ at \in Nat
      /\ done.offset \in Int /\ done.ok \in BOOLEAN
  <2>1. hunk.start \in Nat /\ done.offset \in Int /\ done.lines \in Seq(Text)
    BY DEF Hunks, Done
  <2> QED BY <2>1, OldLinesType, LenProperties DEF Done
<1>2. CASE ApplyHunk(done, hunk) = [done EXCEPT !.ok = FALSE]
  BY <1>2 DEF Done
<1>3. ASSUME size = 0 \/ at + size <= n,
             ApplyHunk(done, hunk) =
               [ok |-> TRUE,
                lines |-> (SubSeq(done.lines, 1, IF at <= n THEN at ELSE n) \o new)
                            \o SubSeq(done.lines, at + size + 1, n),
                offset |-> done.offset + Len(new) - size]
      PROVE  ApplyHunk(done, hunk) \in Done
  <2>1. new \in Seq(Text) /\ Len(new) \in Nat
    <3>1. /\ hunk.lines \in Seq(HunkLines) /\ Len(hunk.lines) \in 0..Len(hunk.lines)
          /\ \A j \in 1..Len(hunk.lines) : hunk.lines[j].text \in Text
      BY HunkLineFacts DEF Hunks
    <3>2. \A j \in 0..Len(hunk.lines) : Replaced(done.lines, at, hunk)[j] \in Seq(Text)
      <4> HIDE DEF at
      <4> QED BY <1>1, <1>3, <3>1, SegmentType
    <3>3. new \in Seq(Text)
      BY <3>1, <3>2 DEF NewSegment
    <3> QED BY <3>3, LenProperties
  <2>2. ASSUME NEW f \in Nat \ {0}, NEW m \in 0..n PROVE SubSeq(done.lines, f, m) \in Seq(Text)
    <3>1. \A i \in f..m : done.lines[i] \in Text
      BY <1>1, ElementOfSeq
    <3> QED BY <3>1, SubSeqProperties
  <2> HIDE DEF at, n, size, new
  <2> DEFINE m == IF at <= n THEN at ELSE n
             f == at + size + 1
  <2>0. m \in 0..n /\ n \in 0..n /\ 1 \in Nat \ {0} /\ f \in Nat \ {0}
    BY <1>1
  <2> HIDE DEF m, f
  <2>3. SubSeq(done.lines, 1, m) \in Seq(Text)
    BY <2>0, <2>2
  <2>4. SubSeq(done.lines, f, n) \in Seq(Text)
    BY <2>0, <2>2
  <2>5. (SubSeq(done.lines, 1, m) \o new) \o SubSeq(done.lines, f, n) \in Seq(Text)
    BY <2>1, <2>3, <2>4, ConcatProperties
  <2> QED BY <1>1, <1>3, <2>1, <2>5 DEF Done, m, f
<1> QED BY <1>2, <1>3, ApplyHunkCases

(* A diff makes a text of a text, whatever it makes of it.                 *)
LEMMA ApplyType ==
  ASSUME NEW content \in Text, NEW hunks \in Seq(Hunks)
  PROVE  \A k \in 0..Len(hunks) : Apply(content, hunks)[k] \in Done
<1> DEFINE D == Apply(content, hunks)
           n == Len(hunks)
           T == {k \in 0..n : D[k] \in Done}
<1>1. n \in Nat /\ \A k \in 1..n : hunks[k] \in Hunks
  BY LenProperties, ElementOfSeq
<1>2. D[0] = [ok |-> TRUE, lines |-> Lines(content), offset |-> 0]
  BY <1>1, ApplyDef
<1>3. \A k \in 1..n : D[k] = ApplyHunk(D[k - 1], hunks[k])
  BY <1>1, ApplyDef
<1> HIDE DEF D, n
<1>4. Lines(content) \in Seq(Text)
  <2> DEFINE S == {l \in Text : OneLine(l)}
  <2>1. Lines(content) \in Seq(S) /\ S \subseteq Text
    BY LinesAreLines
  <2> HIDE DEF S
  <2> QED BY <2>1, SeqMonotonic
<1>5. 0 \in T
  <2>1. D[0] \in Done
    BY <1>2, <1>4 DEF Done
  <2> QED BY <1>1, <2>1
<1>6. ASSUME NEW k \in 1..n, k - 1 \in T PROVE k \in T
  <2>1. D[k - 1] \in Done /\ k \in 0..n
    BY <1>1, <1>6
  <2>2. ApplyHunk(D[k - 1], hunks[k]) \in Done
    BY <1>1, <2>1, ApplyHunkType
  <2> QED BY <1>3, <2>1, <2>2
<1>7. 0..n \subseteq T
  <2> HIDE DEF T
  <2> QED BY <1>1, <1>5, <1>6, LoopInduction
<1> QED BY <1>7 DEF D, n

LEMMA JoinType ==
  ASSUME NEW lines \in Seq(Text)
  PROVE  Joined(lines) \in Text
<1> DEFINE J == Join(lines)
           n == Len(lines)
           T == {k \in 0..n : J[k] \in Text}
<1>1. n \in Nat /\ \A k \in 1..n : lines[k] \in Text
  BY LenProperties, ElementOfSeq
<1>2. J[0] = <<>> /\ \A k \in 1..n : J[k] = J[k - 1] \o lines[k]
  BY <1>1, JoinDef
<1> HIDE DEF J, n
<1>3. 0 \in T
  <2>1. <<>> \in Text
    BY EmptySeq DEF Text
  <2>2. J[0] \in Text
    BY <1>2, <2>1, Zenon
  <2> QED BY <1>1, <2>2
<1>4. ASSUME NEW k \in 1..n, k - 1 \in T PROVE k \in T
  <2>1. J[k - 1] \in Text /\ lines[k] \in Text /\ k \in 0..n
    BY <1>1, <1>4
  <2>2. J[k - 1] \o lines[k] \in Text
    BY <2>1, ConcatProperties DEF Text
  <2> QED BY <1>2, <2>1, <2>2
<1>5. 0..n \subseteq T
  <2> HIDE DEF T
  <2> QED BY <1>1, <1>3, <1>4, LoopInduction
<1>6. J[n] \in Text
  BY <1>1, <1>5
<1> QED BY <1>6 DEF Joined, J, n

LEMMA UpdatedType ==
  ASSUME NEW content \in Text, NEW hunks \in Seq(Hunks)
  PROVE  Updated(content, hunks) \in Text
<1>1. Len(hunks) \in 0..Len(hunks)
  BY LenProperties
<1>2. Apply(content, hunks)[Len(hunks)] \in Done
  BY <1>1, ApplyType
<1>3. ApplyHunks(content, hunks).lines \in Seq(Text)
  BY <1>2 DEF ApplyHunks, Done
<1> QED BY <1>3, JoinType DEF Updated

-----------------------------------------------------------------------------
(* Plain diffs that fit.                                                   *)

(* A hunk is applied where its lines are: P is what the hunks before it    *)
(* made of the lines up to e; the hunk is for those after a, up to b.      *)
LEMMA HunkStep ==
  ASSUME NEW L \in Seq(Line), NEW P \in Seq(Line), NEW hunk \in Hunks,
         NEW e \in 0..Len(L), NEW a \in e..Len(L), NEW b \in a..Len(L),
         Len(OldLines(hunk)) = b - a, SubSeq(Norm(L), a + 1, b) = Norm(OldLines(hunk)),
         hunk.start - 1 = a \/ (hunk.start - 1 < 0 /\ a = 0 /\ P = <<>>),
         \A j \in 1..Len(hunk.lines) : hunk.lines[j].mark = "add" => Ended(hunk.lines[j].text)
  PROVE  LET done == [ok |-> TRUE, lines |-> P \o SubSeq(L, e + 1, Len(L)), offset |-> Len(P) - e] IN
         \E new \in Seq(Line) :
           LET Q == (P \o SubSeq(L, e + 1, a)) \o new IN
           /\ ApplyHunk(done, hunk) =
                [ok |-> TRUE, lines |-> Q \o SubSeq(L, b + 1, Len(L)), offset |-> Len(Q) - b]
           /\ Q \in Seq(Line)
           /\ Norm(Q) = (Norm(P) \o SubSeq(Norm(L), e + 1, a)) \o Norm(NewLines(hunk))
<1> DEFINE n == Len(L)
           X == P \o SubSeq(L, e + 1, n)
           d == Len(P) - e
           done == [ok |-> TRUE, lines |-> X, offset |-> d]
           old == OldLines(hunk)
           x == hunk.start - 1 + d
           at == IF x >= 0 THEN x ELSE 0
           new == NewSegment(X, at, hunk)
           mid == SubSeq(L, e + 1, a)
           Q == (P \o mid) \o new
<1>1. /\ n \in Nat /\ Len(P) \in Nat /\ e \in Nat /\ a \in Nat /\ b \in Nat
      /\ e <= a /\ a <= b /\ b <= n /\ Len(old) = b - a /\ hunk.start \in Int
      /\ L \in Seq(Text) /\ P \in Seq(Text) /\ Line \subseteq Text
  BY LenProperties, SeqMonotonic, SMTT(30) DEF Line, Hunks
<1>2. at = a + d
  <2>1. CASE hunk.start - 1 = a
    BY <1>1, <2>1
  <2>2. CASE hunk.start - 1 < 0 /\ a = 0 /\ P = <<>>
    <3>1. Len(P) = 0
      BY <2>2
    <3> QED BY <1>1, <2>2, <3>1
  <2> QED BY <2>1, <2>2
<1>3. /\ X \in Seq(Line) /\ Len(X) = n + d
      /\ SubSeq(X, 1, a + d) = P \o mid
      /\ SubSeq(X, a + d + 1, b + d) = SubSeq(L, a + 1, b)
      /\ SubSeq(X, b + d + 1, Len(X)) = SubSeq(L, b + 1, n)
  <2>1. P \o SubSeq(L, e + 1, Len(L)) \in Seq(Line) /\ CutsAt(P, L, e, a, b)
    BY Cut
  <2> QED BY <2>1, Zenon DEF CutsAt
<1>4. X \in Seq(Text) /\ done \in Done
  <2>1. X \in Seq(Text)
    BY <1>1, <1>3, SeqMonotonic
  <2>2. d \in Int
    BY <1>1
  <2> HIDE DEF X, d
  <2> QED BY <2>1, <2>2 DEF Done
<1>5. a + d \in Nat /\ a + d + (b - a) = b + d /\ b + d <= n + d
  BY <1>1
<1>6. Norm(SubSeq(X, a + d + 1, b + d)) = Norm(old)
  <2>1. a + 1 \in 1..(n + 1) /\ b \in 0..n
    BY <1>1
  <2>2. Norm(SubSeq(L, a + 1, b)) = SubSeq(Norm(L), a + 1, b)
    BY <1>1, <2>1, NormSubSeq
  <2> QED BY <1>3, <2>2
<1>7. ApplyHunk(done, hunk) =
        [ok |-> TRUE, lines |-> Q \o SubSeq(L, b + 1, n), offset |-> d + Len(new) - (b - a)]
  <2>1. done.ok /\ done.lines = X /\ done.offset = d
    OBVIOUS
  <2> DEFINE m == Len(X)
             size == Len(old)
             there == SubSeq(X, at + 1, IF at + size <= m THEN at + size ELSE m)
  <2>2. /\ at + size <= m /\ at <= m /\ at + size = b + d /\ m = Len(X) /\ size = b - a
        /\ at + 1 = a + d + 1 /\ at + size + 1 = b + d + 1
    <3>1. m = Len(X) /\ m = n + d /\ size = b - a
      BY <1>1, <1>3
    <3>2. d \in Int /\ a + d \in Nat
      BY <1>1
    <3> HIDE DEF X, d, m, size, at, n, old
    <3> QED BY <1>1, <1>2, <3>1, <3>2
  <2> HIDE DEF done, m, size
  <2>3. Norm(there) = Norm(old)
    BY <1>6, <2>2
  <2>4. IF ~done.ok \/ Norm(there) # Norm(old)
        THEN ApplyHunk(done, hunk) = [done EXCEPT !.ok = FALSE]
        ELSE ApplyHunk(done, hunk) =
               [ok |-> TRUE,
                lines |-> (SubSeq(X, 1, IF at <= m THEN at ELSE m) \o new) \o SubSeq(X, at + size + 1, m),
                offset |-> d + Len(new) - size]
    <3> HIDE DEF X, d
    <3> QED BY <1>4, <2>1, ApplyHunkCases, Zenon DEF m, size
  <2>5. ApplyHunk(done, hunk) =
          [ok |-> TRUE,
           lines |-> (SubSeq(X, 1, IF at <= m THEN at ELSE m) \o new) \o SubSeq(X, at + size + 1, m),
           offset |-> d + Len(new) - size]
    BY <2>1, <2>3, <2>4
  <2>6. SubSeq(X, 1, IF at <= m THEN at ELSE m) = P \o mid
    BY <1>2, <1>3, <2>2
  <2>7. SubSeq(X, at + size + 1, m) = SubSeq(L, b + 1, n)
    BY <1>3, <2>2
  <2> HIDE DEF at, X, new, mid, d
  <2> QED BY <2>2, <2>5, <2>6, <2>7
<1>8. new \in Seq(Line)
  <2>1. at \in Nat /\ at + Len(old) <= Len(X)
    BY <1>1, <1>2, <1>3, <1>5
  <2>2. \A j \in 1..Len(hunk.lines) : hunk.lines[j].mark = "add" => hunk.lines[j].text \in Line
    <3>1. \A j \in 1..Len(hunk.lines) : hunk.lines[j].text \in Text /\ OneLine(hunk.lines[j].text)
      BY HunkLineFacts DEF Hunks
    <3> QED BY <3>1 DEF Line
  <2>3. Len(hunk.lines) \in 0..Len(hunk.lines)
    BY HunkLineFacts DEF Hunks
  <2> HIDE DEF at, X, new
  <2>4. \A j \in 0..Len(hunk.lines) : Replaced(X, at, hunk)[j] \in Seq(Line)
    BY <1>3, <2>1, <2>2, SegmentType
  <2> QED BY <2>3, <2>4 DEF NewSegment, new
<1>9. Norm(new) = Norm(NewLines(hunk))
  <2>1. at \in Nat /\ at + Len(old) <= Len(X)
    BY <1>1, <1>2, <1>3, <1>5
  <2>2. at + 1 = a + d + 1 /\ at + Len(old) = b + d
    BY <1>1, <1>2, <1>5
  <2>3. Norm(SubSeq(X, at + 1, at + Len(old))) = Norm(old)
    BY <1>6, <2>2
  <2> HIDE DEF at, X
  <2> QED BY <1>4, <2>1, <2>3, SegmentMeans
<1>10. mid \in Seq(Line) /\ Len(mid) = a - e
  <2>1. \A i \in (e + 1)..a : i \in 1..n
    BY <1>1
  <2>2. \A i \in (e + 1)..a : L[i] \in Line
    BY <2>1, ElementOfSeq
  <2> DEFINE f == e + 1
  <2>3. f \in Int /\ a \in Int /\ a - f + 1 = a - e /\ (f <= a \/ a - e = 0)
    BY <1>1
  <2>4. /\ SubSeq(L, f, a) \in Seq(Line)
        /\ Len(SubSeq(L, f, a)) = IF f <= a THEN a - f + 1 ELSE 0
    <3> HIDE DEF f
    <3> QED BY <2>2, <2>3, SubSeqProperties DEF f
  <2> QED BY <1>1, <2>3, <2>4
<1> HIDE DEF new, mid
<1>11. Q \in Seq(Line) /\ Len(Q) = Len(P) + (a - e) + Len(new)
  <2>1. P \o mid \in Seq(Line) /\ Len(P \o mid) = Len(P) + Len(mid)
    BY <1>10, ConcatProperties
  <2>2. Q \in Seq(Line) /\ Len(Q) = Len(P \o mid) + Len(new)
    BY <1>8, <2>1, ConcatProperties
  <2> HIDE DEF Q
  <2> QED BY <1>10, <2>1, <2>2
<1>12. d + Len(new) - (b - a) = Len(Q) - b
  <2>1. Len(new) \in Nat
    BY <1>8, LenProperties
  <2> HIDE DEF Q
  <2> QED BY <1>1, <1>11, <2>1
<1>13. Norm(Q) = (Norm(P) \o SubSeq(Norm(L), e + 1, a)) \o Norm(NewLines(hunk))
  <2>1. mid \in Seq(Text) /\ new \in Seq(Text) /\ P \o mid \in Seq(Text)
    <3>1. mid \in Seq(Text) /\ new \in Seq(Text)
      BY <1>1, <1>8, <1>10, SeqMonotonic
    <3> QED BY <1>1, <3>1, ConcatProperties
  <2>2. Norm(Q) = Norm(P \o mid) \o Norm(new)
    BY <2>1, NormConcat
  <2>3. Norm(P \o mid) = Norm(P) \o Norm(mid)
    BY <1>1, <2>1, NormConcat
  <2>4. Norm(mid) = SubSeq(Norm(L), e + 1, a)
    <3>1. e + 1 \in 1..(n + 1) /\ a \in 0..n
      BY <1>1
    <3> QED BY <1>1, <3>1, NormSubSeq DEF mid
  <2> QED BY <1>9, <2>2, <2>3, <2>4
<1>14. ApplyHunk(done, hunk) =
         [ok |-> TRUE, lines |-> Q \o SubSeq(L, b + 1, n), offset |-> Len(Q) - b]
  <2> HIDE DEF done, Q, d
  <2> QED BY <1>7, <1>12
<1> QED BY <1>8, <1>11, <1>13, <1>14 DEF mid

(* What is accepted is there: an accepted hunk finds its lines in the text *)
(* at the place it names.                                                  *)
LEMMA HunkIsThere ==
  ASSUME NEW L \in Seq(Line), NEW P \in Seq(Line), NEW hunk \in Hunks,
         NEW e \in 0..Len(L), NEW a \in Nat, e <= a,
         hunk.start - 1 = a \/ (hunk.start - 1 < 0 /\ a = 0 /\ P = <<>>),
         Len(OldLines(hunk)) > 0 \/ a = 0,
         ApplyHunk([ok |-> TRUE, lines |-> P \o SubSeq(L, e + 1, Len(L)), offset |-> Len(P) - e], hunk).ok
  PROVE  LET b == a + Len(OldLines(hunk)) IN
         b <= Len(L) /\ SubSeq(Norm(L), a + 1, b) = Norm(OldLines(hunk))
<1> DEFINE n == Len(L)
           X == P \o SubSeq(L, e + 1, n)
           d == Len(P) - e
           done == [ok |-> TRUE, lines |-> X, offset |-> d]
           old == OldLines(hunk)
           size == Len(old)
           b == a + size
           x == hunk.start - 1 + d
           at == IF x >= 0 THEN x ELSE 0
           m == Len(X)
           there == SubSeq(X, at + 1, IF at + size <= m THEN at + size ELSE m)
<1>1. /\ n \in Nat /\ Len(P) \in Nat /\ e \in Nat /\ e <= n /\ hunk.start \in Int
      /\ L \in Seq(Text) /\ P \in Seq(Text) /\ Line \subseteq Text /\ size \in Nat
  BY LenProperties, SeqMonotonic, OldLinesType, SMTT(30) DEF Line, Hunks
<1>2. at = a + d
  <2>1. CASE hunk.start - 1 = a
    BY <1>1, <2>1
  <2>2. CASE hunk.start - 1 < 0 /\ a = 0 /\ P = <<>>
    <3>1. Len(P) = 0
      BY <2>2
    <3> QED BY <1>1, <2>2, <3>1
  <2> QED BY <2>1, <2>2
<1>3. X \in Seq(Line) /\ m = n + d
  <2>1. e \in e..Len(L)
    BY <1>1
  <2>2. P \o SubSeq(L, e + 1, Len(L)) \in Seq(Line) /\ CutsAt(P, L, e, e, e)
    BY <2>1, Cut
  <2> QED BY <2>2, Zenon DEF CutsAt
<1>4. X \in Seq(Text) /\ done \in Done
  <2>1. X \in Seq(Text)
    BY <1>1, <1>3, SeqMonotonic
  <2>2. d \in Int
    BY <1>1
  <2> HIDE DEF X, d
  <2> QED BY <2>1, <2>2 DEF Done
<1>5. (size = 0 \/ at + size <= m) /\ Norm(there) = Norm(old)
  <2>1. done.ok /\ done.lines = X /\ done.offset = d /\ ApplyHunk(done, hunk).ok
    OBVIOUS
  <2> HIDE DEF X, d, done
  <2>2. IF ~done.ok \/ Norm(there) # Norm(old)
        THEN ApplyHunk(done, hunk) = [done EXCEPT !.ok = FALSE]
        ELSE size = 0 \/ at + size <= m
    BY <1>4, <2>1, ApplyHunkCases, Zenon
  <2>3. ~[done EXCEPT !.ok = FALSE].ok
    BY <1>4 DEF Done
  <2> HIDE DEF there, at, size, m
  <2> QED BY <2>1, <2>2, <2>3
<1>6. b <= n /\ at + size <= m /\ a \in e..n /\ b \in a..n /\ at + 1 = a + d + 1 /\ at + size = b + d
  <2>1. d \in Int /\ (size > 0 \/ a = 0)
    BY <1>1
  <2>2. b = a + size
    OBVIOUS
  <2> HIDE DEF X, d, m, size, at, n, b
  <2> QED BY <1>1, <1>2, <1>3, <1>5, <2>1, <2>2
<1>7. there = SubSeq(L, a + 1, b)
  <2>1. CutsAt(P, L, e, a, b)
    BY <1>6, Cut
  <2>2. SubSeq(X, a + d + 1, b + d) = SubSeq(L, a + 1, b)
    BY <2>1, Zenon DEF CutsAt
  <2> HIDE DEF X, d, at, size, m, b
  <2> QED BY <1>6, <2>2
<1>8. Norm(SubSeq(L, a + 1, b)) = SubSeq(Norm(L), a + 1, b)
  <2>1. a + 1 \in 1..(n + 1) /\ b \in 0..n
    BY <1>1, <1>6
  <2> QED BY <1>1, <2>1, NormSubSeq
<1> HIDE DEF there
<1> QED BY <1>5, <1>6, <1>7, <1>8

(* What the lines of a diff that fits are: each hunk is for the lines from *)
(* after FirstOf - 1 up to LastOf, and begins after the one before it.     *)
LEMMA FitsBounds ==
  ASSUME NEW content \in Text, NEW hunks \in Seq(Hunks),
         Plain(content, hunks), InOrder(hunks), NEW k \in 1..Len(hunks),
         \A i \in 1..k : WellFormed(hunks[i]) /\ FitsAt(Norm(Lines(content)), hunks[i])
  PROVE  LET L == Lines(content)
             e == UpTo(hunks, k - 1)
             a == FirstOf(hunks[k]) - 1
             b == UpTo(hunks, k) IN
         /\ e \in 0..Len(L) /\ a \in e..Len(L) /\ b \in a..Len(L)
         /\ Len(OldLines(hunks[k])) = b - a
         /\ SubSeq(Norm(L), a + 1, b) = Norm(OldLines(hunks[k]))
         /\ hunks[k].start - 1 = a \/ (hunks[k].start - 1 < 0 /\ a = 0 /\ k = 1)
         /\ b = LastOf(hunks[k])
<1> DEFINE L == Lines(content)
           n == Len(L)
           a(i) == FirstOf(hunks[i]) - 1
           b(i) == LastOf(hunks[i])
<1>1. /\ Len(hunks) \in Nat
      /\ \A i \in 1..Len(hunks) : hunks[i].start \in Nat /\ hunks[i].old \in Nat
  <2>1. \A i \in 1..Len(hunks) : hunks[i] \in Hunks
    BY ElementOfSeq
  <2> QED BY <2>1, LenProperties DEF Hunks
<1>2. L \in Seq(Text) /\ n \in Nat /\ Len(Norm(L)) = n
  <2> DEFINE S == {l \in Text : OneLine(l)}
  <2>1. L \in Seq(S) /\ S \subseteq Text
    BY LinesAreLines
  <2>2. L \in Seq(Text)
    <3> HIDE DEF S, L
    <3> QED BY <2>1, SeqMonotonic
  <2> QED BY <2>2, NormType, LenProperties
<1>3. DOMAIN hunks = 1..Len(hunks)
  BY LenProperties
<1>4. ASSUME NEW i \in 1..k
      PROVE  /\ hunks[i].old = Len(OldLines(hunks[i]))
             /\ FirstOf(hunks[i]) >= 1 /\ b(i) <= n
             /\ SubSeq(Norm(L), FirstOf(hunks[i]), b(i)) = Norm(OldLines(hunks[i]))
  <2>1. i \in DOMAIN hunks
    BY <1>1, <1>3
  <2> QED BY <1>2, <2>1 DEF InOrder, FitsAt, WellFormed
<1>5. ASSUME NEW i \in 1..k
      PROVE  /\ a(i) \in Nat /\ b(i) = a(i) + hunks[i].old /\ b(i) \in 0..n /\ a(i) \in 0..n /\ a(i) <= b(i)
             /\ a(i) + 1 = FirstOf(hunks[i])
             /\ hunks[i].start - 1 = a(i) \/ (hunks[i].start - 1 < 0 /\ a(i) = 0 /\ i = 1)
  <2>0. i \in 1..Len(hunks)
    BY <1>1
  <2>1. hunks[i].old = 0 => i = 1 /\ hunks[i].start = 0
    BY <1>3, <2>0 DEF Plain
  <2>2. hunks[i].start \in Nat /\ hunks[i].old \in Nat
    BY <1>1, <2>0
  <2>3. FirstOf(hunks[i]) = IF hunks[i].old = 0 THEN hunks[i].start + 1 ELSE hunks[i].start
    BY DEF FirstOf
  <2>4. LastOf(hunks[i]) = FirstOf(hunks[i]) + hunks[i].old - 1
    BY DEF LastOf
  <2>5. FirstOf(hunks[i]) >= 1 /\ LastOf(hunks[i]) <= n /\ n \in Nat
    BY <1>2, <1>4
  <2> HIDE DEF n
  <2> QED BY <2>1, <2>2, <2>3, <2>4, <2>5, SMTT(30)
<1>6. UpTo(hunks, k) = b(k)
  BY <1>1 DEF UpTo
<1>7. UpTo(hunks, k - 1) \in 0..n /\ UpTo(hunks, k - 1) <= a(k)
  <2>1. CASE k = 1
    BY <1>2, <1>5, <2>1 DEF UpTo
  <2>2. CASE k # 1
    <3>1. k \in 2..Len(hunks) /\ k - 1 \in 1..k /\ k - 1 # 0 /\ k \in 1..k
      BY <1>1, <2>2
    <3>2. b(k - 1) < FirstOf(hunks[k])
      BY <3>1 DEF InOrder
    <3>3. UpTo(hunks, k - 1) = b(k - 1)
      BY <3>1 DEF UpTo
    <3>4. b(k - 1) \in 0..n /\ a(k) \in Nat /\ a(k) + 1 = FirstOf(hunks[k])
      BY <1>5, <3>1
    <3> HIDE DEF a, b
    <3> QED BY <1>2, <3>2, <3>3, <3>4
  <2> QED BY <2>1, <2>2
<1>8. /\ a(k) \in UpTo(hunks, k - 1)..n /\ UpTo(hunks, k) \in a(k)..n
      /\ Len(OldLines(hunks[k])) = UpTo(hunks, k) - a(k)
  <2>1. a(k) \in 0..n /\ b(k) \in 0..n /\ a(k) <= b(k) /\ b(k) = a(k) + hunks[k].old /\ hunks[k].old \in Nat
    BY <1>1, <1>5
  <2>2. hunks[k].old = Len(OldLines(hunks[k]))
    BY <1>4
  <2> HIDE DEF a, b, n
  <2> QED BY <1>2, <1>6, <1>7, <2>1, <2>2
<1>9. /\ SubSeq(Norm(L), a(k) + 1, UpTo(hunks, k)) = Norm(OldLines(hunks[k]))
      /\ hunks[k].start - 1 = a(k) \/ (hunks[k].start - 1 < 0 /\ a(k) = 0 /\ k = 1)
  BY <1>4, <1>5, <1>6
<1> QED BY <1>6, <1>7, <1>8, <1>9

(* The loop after k hunks has turned the lines up to the end of the k-th   *)
(* into what they should become, P, and knows by how much they moved.      *)
Reached(content, hunks, k, P) ==
  LET L == Lines(content) IN
  /\ Apply(content, hunks)[k] =
       [ok |-> TRUE, lines |-> P \o SubSeq(L, UpTo(hunks, k) + 1, Len(L)), offset |-> Len(P) - UpTo(hunks, k)]
  /\ Norm(P) = MeantUpTo(Norm(L), hunks)[k]
  /\ k = 0 => P = <<>>

(* As long as the hunks fit, the loop goes on.                             *)
LEMMA Progress ==
  ASSUME NEW content \in Text, NEW hunks \in Seq(Hunks), Plain(content, hunks), InOrder(hunks),
         NEW m \in 0..Len(hunks),
         \A i \in 1..m : WellFormed(hunks[i]) /\ FitsAt(Norm(Lines(content)), hunks[i])
  PROVE  \A k \in 0..m : \E P \in Seq(Line) : Reached(content, hunks, k, P)
<1> DEFINE L == Lines(content)
           words == Norm(L)
           n == Len(hunks)
           D == Apply(content, hunks)
           M == MeantUpTo(words, hunks)
           E(k) == UpTo(hunks, k)
           Is(P, k) ==
             /\ D[k] = [ok |-> TRUE, lines |-> P \o SubSeq(L, E(k) + 1, Len(L)), offset |-> Len(P) - E(k)]
             /\ Norm(P) = M[k]
             /\ k = 0 => P = <<>>
           T == {k \in 0..m : \E P \in Seq(Line) : Is(P, k)}
<1>1. n \in Nat /\ m \in Nat /\ m <= n /\ \A k \in 1..n : hunks[k] \in Hunks
  BY LenProperties, ElementOfSeq
<1>2. L \in Seq(Line) /\ L \in Seq(Text) /\ Len(L) \in Nat /\ Line \subseteq Text
  <2>1. L \in Seq(Line)
    BY LinesAreLines DEF Plain
  <2>2. Line \subseteq Text
    BY DEF Line
  <2> HIDE DEF L
  <2> QED BY <2>1, <2>2, SeqMonotonic, LenProperties
<1>3. D[0] = [ok |-> TRUE, lines |-> L, offset |-> 0] /\ \A k \in 1..n : D[k] = ApplyHunk(D[k - 1], hunks[k])
  BY <1>1, ApplyDef
<1>4. /\ M[0] = <<>>
      /\ \A k \in 1..n : M[k] = (M[k - 1] \o SubSeq(words, E(k - 1) + 1, FirstOf(hunks[k]) - 1))
                                  \o Norm(NewLines(hunks[k]))
  BY <1>1, MeantDef
<1>5. 0 \in T
  <2>1. <<>> \in Seq(Line) /\ Len(<<>>) = 0 /\ E(0) = 0
    BY EmptySeq DEF UpTo
  <2>2. SubSeq(L, 0 + 1, Len(L)) = L
    BY <1>2, SubSeqFull
  <2>3. <<>> \o L = L
    BY <1>2, ConcatEmptySeq
  <2>4. Norm(<<>>) = <<>>
    BY DEF Norm
  <2>5. Len(<<>>) - E(0) = 0
    BY <2>1
  <2> HIDE DEF L, E, D, M
  <2>6. D[0] = [ok |-> TRUE, lines |-> <<>> \o SubSeq(L, E(0) + 1, Len(L)), offset |-> Len(<<>>) - E(0)]
    BY <1>3, <2>1, <2>2, <2>3, <2>5, Zenon
  <2>7. Norm(<<>>) = M[0]
    BY <1>4, <2>4, Zenon
  <2>8. Is(<<>>, 0)
    BY <2>6, <2>7, Zenon
  <2>9. \E P \in Seq(Line) : Is(P, 0)
    <3> HIDE DEF Is
    <3> QED BY <2>1, <2>8, Zenon
  <2> HIDE DEF Is
  <2> QED BY <1>1, <2>9
<1>6. ASSUME NEW k \in 1..m, k - 1 \in T PROVE k \in T
  <2> DEFINE hunk == hunks[k]
             e == E(k - 1)
             a == FirstOf(hunk) - 1
             b == E(k)
             done(P) == [ok |-> TRUE, lines |-> P \o SubSeq(L, e + 1, Len(L)), offset |-> Len(P) - e]
             Q(P, new) == (P \o SubSeq(L, e + 1, a)) \o new
  <2>1. PICK P \in Seq(Line) : Is(P, k - 1)
    <3> HIDE DEF Is
    <3> QED BY <1>6
  <2>2. hunk \in Hunks /\ k \in 0..m /\ k # 0 /\ k \in 1..n /\ 1..k \subseteq 1..m
    BY <1>1
  <2>3. /\ e \in 0..Len(L) /\ a \in e..Len(L) /\ b \in a..Len(L)
        /\ Len(OldLines(hunk)) = b - a /\ SubSeq(Norm(L), a + 1, b) = Norm(OldLines(hunk))
        /\ hunk.start - 1 = a \/ (hunk.start - 1 < 0 /\ a = 0 /\ k = 1)
    BY <2>2, FitsBounds
  <2>4. \A j \in 1..Len(hunk.lines) : hunk.lines[j].mark = "add" => Ended(hunk.lines[j].text)
    <3>1. k \in DOMAIN hunks /\ DOMAIN hunk.lines = 1..Len(hunk.lines)
      BY <2>2, LenProperties DEF Hunks
    <3> QED BY <3>1 DEF Plain
  <2>5. hunk.start - 1 = a \/ (hunk.start - 1 < 0 /\ a = 0 /\ P = <<>>)
    <3>1. k = 1 => P = <<>>
      BY <2>1
    <3> HIDE DEF a, hunk, Is
    <3> QED BY <2>3, <3>1
  <2> HIDE DEF hunk, a, b, e, L
  <2>6. PICK new \in Seq(Line) :
          /\ ApplyHunk(done(P), hunk) =
               [ok |-> TRUE, lines |-> Q(P, new) \o SubSeq(L, b + 1, Len(L)), offset |-> Len(Q(P, new)) - b]
          /\ Q(P, new) \in Seq(Line)
          /\ Norm(Q(P, new)) = (Norm(P) \o SubSeq(Norm(L), e + 1, a)) \o Norm(NewLines(hunk))
    BY <1>2, <2>2, <2>3, <2>4, <2>5, HunkStep
  <2>7. D[k - 1] = done(P) /\ Norm(P) = M[k - 1]
    BY <2>1 DEF e
  <2>8. D[k] = ApplyHunk(D[k - 1], hunk)
    BY <1>3, <2>2 DEF hunk
  <2>9. M[k] = (M[k - 1] \o SubSeq(Norm(L), e + 1, a)) \o Norm(NewLines(hunk))
    BY <1>4, <2>2 DEF hunk, e, a
  <2>10. Is(Q(P, new), k)
    <3> HIDE DEF Q, done, D, M
    <3> QED BY <2>2, <2>6, <2>7, <2>8, <2>9 DEF b
  <2>11. \E R \in Seq(Line) : Is(R, k)
    <3> HIDE DEF Is, Q
    <3> QED BY <2>6, <2>10
  <2> HIDE DEF Is
  <2> QED BY <2>2, <2>11
<1>7. 0..m \subseteq T
  <2> HIDE DEF T
  <2> QED BY <1>1, <1>5, <1>6, LoopInduction
<1> QED BY <1>7 DEF Reached

(* A diff that fits is accepted, and makes of a text what it means.        *)
LEMMA FittingDiffs ==
  ASSUME NEW content \in Text, NEW hunks \in Seq(Hunks),
         Plain(content, hunks), Fits(content, hunks)
  PROVE  /\ Accepts(content, hunks)
         /\ Norm(Lines(Updated(content, hunks))) = Meant(content, hunks)
<1> DEFINE L == Lines(content)
           words == Norm(L)
           n == Len(hunks)
           D == Apply(content, hunks)
           M == MeantUpTo(words, hunks)
           E(k) == UpTo(hunks, k)
           Is(P, k) ==
             /\ D[k] = [ok |-> TRUE, lines |-> P \o SubSeq(L, E(k) + 1, Len(L)), offset |-> Len(P) - E(k)]
             /\ Norm(P) = M[k]
             /\ k = 0 => P = <<>>
<1>0. InOrder(hunks) /\ \A k \in 1..n : WellFormed(hunks[k]) /\ FitsAt(words, hunks[k])
  <2>1. DOMAIN hunks = 1..n
    BY LenProperties
  <2> QED BY <2>1 DEF Fits
<1>1. n \in Nat /\ \A k \in 1..n : hunks[k] \in Hunks
  BY LenProperties, ElementOfSeq
<1>2. L \in Seq(Line) /\ L \in Seq(Text) /\ Len(L) \in Nat /\ Line \subseteq Text
  <2>1. L \in Seq(Line)
    BY LinesAreLines DEF Plain
  <2>2. Line \subseteq Text
    BY DEF Line
  <2> HIDE DEF L
  <2> QED BY <2>1, <2>2, SeqMonotonic, LenProperties
<1>8. PICK P \in Seq(Line) : Is(P, n)
  <2>1. n \in 0..n /\ \A i \in 1..n : WellFormed(hunks[i]) /\ FitsAt(words, hunks[i])
    BY <1>1, <1>0 DEF Fits
  <2>2. \E P \in Seq(Line) : Reached(content, hunks, n, P)
    BY <1>0, <2>1, Progress
  <2> QED BY <2>2 DEF Reached
<1>9. Accepts(content, hunks)
  <2>1. D[n].ok
    <3> HIDE DEF D
    <3> QED BY <1>8
  <2> QED BY <2>1 DEF Accepts, ApplyHunks, Fits
<1> DEFINE R == SubSeq(L, E(n) + 1, Len(L))
           result == P \o R
<1>10. R \in Seq(Line) /\ Norm(R) = SubSeq(words, E(n) + 1, Len(words))
  <2>1. E(n) \in 0..Len(L)
    <3>1. n \in 1..n
      <4>1. n # 0
        BY EmptySeq DEF Fits
      <4> QED BY <1>1, <4>1
    <3>2. /\ FirstOf(hunks[n]) - 1 \in UpTo(hunks, n - 1)..Len(L) /\ UpTo(hunks, n - 1) \in 0..Len(L)
          /\ E(n) \in (FirstOf(hunks[n]) - 1)..Len(L)
      BY <1>0, <1>1, <3>1, FitsBounds DEF Fits
    <3> HIDE DEF E, L
    <3> QED BY <1>2, <3>2
  <2> DEFINE f == E(n) + 1
             m == Len(L)
  <2> HIDE DEF E, L
  <2>2. f \in 1..(m + 1) /\ m \in 0..m /\ f \in Int /\ m \in Int /\ \A i \in f..m : i \in 1..m
    BY <1>2, <2>1
  <2>3. \A i \in f..m : L[i] \in Line
    BY <1>2, <2>2, ElementOfSeq
  <2>4. Len(words) = m
    BY <1>2, NormType
  <2> HIDE DEF f
  <2>5. SubSeq(L, f, m) \in Seq(Line)
    BY <2>2, <2>3, SubSeqProperties
  <2>6. Norm(SubSeq(L, f, m)) = SubSeq(words, f, m)
    BY <1>2, <2>2, NormSubSeq
  <2> QED BY <2>4, <2>5, <2>6 DEF f
<1>11. result \in Seq(Line) /\ Norm(result) = M[n] \o SubSeq(words, E(n) + 1, Len(words))
  <2>1. P \in Seq(Text) /\ R \in Seq(Text)
    <3> HIDE DEF R
    <3> QED BY <1>2, <1>10, SeqMonotonic
  <2>2. Norm(P) = M[n]
    BY <1>8
  <2> HIDE DEF R, M, words
  <2>3. result \in Seq(Line)
    BY <1>10, ConcatProperties
  <2>4. Norm(result) = Norm(P) \o Norm(R)
    BY <2>1, NormConcat
  <2> QED BY <1>10, <2>2, <2>3, <2>4
<1>12. Lines(Updated(content, hunks)) = result
  <2>1. D[n].lines = result
    <3>1. D[n] = [ok |-> TRUE, lines |-> result, offset |-> Len(P) - E(n)]
      BY <1>8
    <3> HIDE DEF D, result, E
    <3> QED BY <3>1
  <2>2. Updated(content, hunks) = Joined(result)
    BY <2>1 DEF Updated, ApplyHunks
  <2> HIDE DEF result
  <2> QED BY <1>11, <2>2, LinesJoined
<1>13. M[n] \o SubSeq(words, E(n) + 1, Len(words)) = Meant(content, hunks)
  BY DEF Meant
<1> QED BY <1>9, <1>11, <1>12, <1>13

(* A diff that is accepted fits.                                           *)
LEMMA AcceptedFits ==
  ASSUME NEW content \in Text, NEW hunks \in Seq(Hunks), Plain(content, hunks), InOrder(hunks),
         Accepts(content, hunks)
  PROVE  Fits(content, hunks)
<1> DEFINE L == Lines(content)
           words == Norm(L)
           n == Len(hunks)
           D == Apply(content, hunks)
           S == {k \in 0..n : D[k].ok => \A i \in 1..k : FitsAt(words, hunks[i])}
<1>1. /\ n \in Nat /\ DOMAIN hunks = 1..n
      /\ \A k \in 1..n : hunks[k] \in Hunks /\ hunks[k].start \in Nat /\ hunks[k].old \in Nat
  <2>1. n \in Nat /\ DOMAIN hunks = 1..n
    BY LenProperties
  <2>2. \A k \in 1..n : hunks[k] \in Hunks
    BY ElementOfSeq
  <2> QED BY <2>1, <2>2 DEF Hunks
<1>2. \A k \in 1..n : WellFormed(hunks[k])
  BY <1>1 DEF Accepts
<1>3. \A k \in 1..n : D[k] = ApplyHunk(D[k - 1], hunks[k])
  BY <1>1, ApplyDef
<1>4. L \in Seq(Line) /\ L \in Seq(Text) /\ Len(L) \in Nat /\ Len(words) = Len(L)
  <2>1. L \in Seq(Line)
    BY LinesAreLines DEF Plain
  <2>2. Line \subseteq Text
    BY DEF Line
  <2> HIDE DEF L
  <2>3. L \in Seq(Text)
    BY <2>1, <2>2, SeqMonotonic
  <2> QED BY <2>1, <2>3, LenProperties, NormType
<1>5. 0 \in S
  BY <1>1
<1>6. ASSUME NEW k \in 1..n, k - 1 \in S PROVE k \in S
  <2> DEFINE hunk == hunks[k]
             e == UpTo(hunks, k - 1)
             a == FirstOf(hunk) - 1
             b == a + Len(OldLines(hunk))
  <2>1. SUFFICES ASSUME D[k].ok PROVE \A i \in 1..k : FitsAt(words, hunks[i])
    <3>1. k \in 0..n
      BY <1>1
    <3> HIDE DEF D, words
    <3> QED BY <3>1
  <2>2. k - 1 \in 0..n /\ 1..(k - 1) \subseteq 1..n /\ hunk \in Hunks
    BY <1>1
  <2>3. D[k - 1].ok
    <3>1. D[k - 1] \in Done
      BY <2>2, ApplyType
    <3>2. ~D[k - 1].ok => D[k] = [D[k - 1] EXCEPT !.ok = FALSE]
      <4> HIDE DEF D
      <4> QED BY <1>3, <2>2, <3>1, ApplyHunkCases, Zenon
    <3>3. ~[D[k - 1] EXCEPT !.ok = FALSE].ok
      <4> HIDE DEF D
      <4> QED BY <3>1 DEF Done
    <3> HIDE DEF D
    <3> QED BY <2>1, <3>2, <3>3
  <2>4. \A i \in 1..(k - 1) : WellFormed(hunks[i]) /\ FitsAt(words, hunks[i])
    <3> HIDE DEF D, words
    <3> QED BY <1>2, <1>6, <2>2, <2>3
  <2>5. PICK P \in Seq(Line) : Reached(content, hunks, k - 1, P)
    <3>1. \A j \in 0..(k - 1) : \E P \in Seq(Line) : Reached(content, hunks, j, P)
      BY <2>2, <2>4, Progress
    <3>2. k - 1 \in 0..(k - 1)
      BY <2>2
    <3> QED BY <3>1, <3>2
  <2>6. D[k - 1] = [ok |-> TRUE, lines |-> P \o SubSeq(L, e + 1, Len(L)), offset |-> Len(P) - e]
        /\ (k = 1 => P = <<>>)
    <3>1. k = 1 => k - 1 = 0
      OBVIOUS
    <3> QED BY <2>5, <3>1 DEF Reached
  <2>7. hunk.old = Len(OldLines(hunk)) /\ FirstOf(hunk) >= 1 /\ (hunk.old = 0 => k = 1 /\ hunk.start = 0)
    BY <1>1, <1>2 DEF WellFormed, InOrder, Plain
  <2>8. FirstOf(hunk) = (IF hunk.old = 0 THEN hunk.start + 1 ELSE hunk.start)
        /\ LastOf(hunk) = FirstOf(hunk) + hunk.old - 1 /\ hunk.start \in Nat /\ hunk.old \in Nat
    BY <1>1 DEF FirstOf, LastOf
  <2>9. e \in 0..Len(L) /\ e <= a
    <3>1. CASE k = 1
      <4>1. e = 0
        BY <3>1 DEF UpTo
      <4> HIDE DEF e, hunk, L
      <4> QED BY <1>4, <2>7, <2>8, <4>1
    <3>2. CASE k # 1
      <4>1. k - 1 \in 1..n /\ k \in 2..n /\ k - 1 # 0
        BY <1>1, <3>2
      <4>2. /\ FirstOf(hunks[k - 1]) - 1 \in UpTo(hunks, (k - 1) - 1)..Len(L)
            /\ UpTo(hunks, (k - 1) - 1) \in 0..Len(L)
            /\ e \in (FirstOf(hunks[k - 1]) - 1)..Len(L)
        BY <2>4, <4>1, FitsBounds
      <4>3. e = LastOf(hunks[k - 1]) /\ LastOf(hunks[k - 1]) < FirstOf(hunk)
        BY <4>1 DEF UpTo, InOrder
      <4> HIDE DEF e, hunk, L
      <4> QED BY <1>4, <2>8, <4>2, <4>3
    <3> QED BY <3>1, <3>2
  <2>10. /\ a \in Nat /\ a + 1 = FirstOf(hunk) /\ b = LastOf(hunk) /\ (Len(OldLines(hunk)) > 0 \/ a = 0)
         /\ hunk.start - 1 = a \/ (hunk.start - 1 < 0 /\ a = 0 /\ P = <<>>)
    <3> DEFINE f == FirstOf(hunk)
               size == Len(OldLines(hunk))
               first == hunk.start
    <3>1. f \in Nat /\ f >= 1 /\ size \in Nat /\ first \in Nat /\ LastOf(hunk) = f + size - 1
          /\ f = (IF size = 0 THEN first + 1 ELSE first)
          /\ (size = 0 => k = 1 /\ first = 0)
      <4> HIDE DEF hunk
      <4> QED BY <2>7, <2>8
    <3>2. size = 0 => P = <<>>
      BY <2>6, <3>1
    <3>3. a = f - 1 /\ b = a + size
      OBVIOUS
    <3> HIDE DEF hunk, f, size, first, a, b
    <3>4. /\ a \in Nat /\ a + 1 = f /\ b = LastOf(hunk) /\ (size > 0 \/ a = 0)
          /\ first - 1 = a \/ (first - 1 < 0 /\ a = 0 /\ P = <<>>)
      BY <3>1, <3>2, <3>3
    <3> QED BY <3>4 DEF f, size, first
  <2>11. ApplyHunk(D[k - 1], hunk).ok
    BY <1>3, <2>1
  <2> HIDE DEF e, a, hunk, L, D
  <2>12. b <= Len(L) /\ SubSeq(Norm(L), a + 1, b) = Norm(OldLines(hunk))
    BY <1>4, <2>2, <2>6, <2>9, <2>10, <2>11, HunkIsThere
  <2>13. FitsAt(words, hunk)
    BY <1>4, <2>10, <2>12 DEF FitsAt
  <2>14. \A i \in 1..k : i = k \/ i \in 1..(k - 1)
    BY <1>1
  <2> HIDE DEF words
  <2> QED BY <2>4, <2>13, <2>14 DEF hunk
<1>7. n \in S
  <2> HIDE DEF S
  <2>1. 0..n \subseteq S
    BY <1>1, <1>5, <1>6, LoopInduction
  <2> QED BY <1>1, <2>1
<1>8. D[n].ok /\ hunks # <<>>
  BY DEF Accepts, ApplyHunks
<1> HIDE DEF D
<1> QED BY <1>1, <1>2, <1>7, <1>8 DEF Fits

(* The server accepts a plain diff whose hunks are in order if and only if *)
(* it fits the text, and then makes of the text what the diff means: the   *)
(* loop over the hunks, with its offset, looks for each where its lines    *)
(* are by then, and nowhere else.                                          *)
THEOREM PlainDiffs ==
  ASSUME NEW content \in Text, NEW hunks \in Seq(Hunks),
         Plain(content, hunks), InOrder(hunks)
  PROVE  /\ Accepts(content, hunks) <=> Fits(content, hunks)
         /\ Accepts(content, hunks) => Norm(Lines(Updated(content, hunks))) = Meant(content, hunks)
BY FittingDiffs, AcceptedFits
=============================================================================
