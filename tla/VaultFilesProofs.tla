--------------------------- MODULE VaultFilesProofs ---------------------------
(***************************************************************************)
(* Theorems about VaultFiles.  What is said of diffs rests on PlainDiffs,  *)
(* of UnifiedDiffProofs: the vault gives it what was read, and replaces    *)
(* what was read.                                                          *)
(***************************************************************************)
EXTENDS VaultFiles, UnifiedDiffProofs

(* Temporary files are the one being written and what a crash left.        *)
TempsCounted ==
  \E n \in {0, 1} :
    /\ ~crashed => n = 0
    /\ temps = n + (IF op.step = "replace" THEN 1 ELSE 0)

(* Unless an editor came between, a call knows what it is about to replace. *)
ReadIsThere ==
  /\ op.step \in {"temp", "replace"} /\ ~raced /\ op.at \in DOMAIN files =>
       Knows(Read(files[op.at]))
  /\ op.step = "look" => op.expected = FALSE

(* Names in the trash with the present time were given in this second.     *)
Recent(place) == place.stamp <= clock /\ (place.stamp = clock => place.name \in stamped)
StampsAreRecent ==
  /\ \A p \in DOMAIN files : Recent(p)
  /\ op.step = "rename" => Recent(op.to)

(* A rename replaces nothing.                                              *)
RenamesToNowhere ==
  op.step = "rename" /\ ~raced /\ ~crowded => op.to \notin DOMAIN files

(* What is in files, and about to be, is text.                             *)
FilesAreTexts ==
  /\ \A p \in DOMAIN files : files[p] \in Text
  /\ op.step \in {"temp", "replace"} => op.new \in Text

(* A diff that is about to be written is the one that was read for, and    *)
(* unless an editor came between, what was read is still there.            *)
DiffInHand ==
  op.tool = "diff" =>
    /\ op.step \in {"temp", "replace"}
    /\ op.hunks \in Diffs /\ op.read \in Text
    /\ Accepts(op.read, op.hunks) /\ op.new = Updated(op.read, op.hunks)
    /\ ~raced => op.at \in DOMAIN files

(* What came of the last diff: it applies and was applied to what was      *)
(* there, or it does not apply and was refused.                            *)
LastDiff ==
  last # NoDiff =>
    /\ last.hunks \in Diffs /\ last.of \in Text
    /\ last.ok \in BOOLEAN
    /\ ~raced => /\ last.ok <=> Accepts(last.of, last.hunks)
                 /\ last.ok => last.gave = Updated(last.of, last.hunks)

(* Notes are written by the tools that write, and moved by the others; the *)
(* frontmatter to be written is that of the text that was read.            *)
CallInHand ==
  /\ op.step \in {"temp", "replace"} =>
       /\ op.tool \in {"diff", "create", "frontmatter"}
       /\ op.tool = "frontmatter" =>
            op.new = WithField(op.read) /\ (~raced => op.at \in DOMAIN files)
  /\ op.step = "rename" =>
       op.tool \in {"move", "delete"} /\ (op.tool = "delete" <=> InTrash(op.to))
  /\ op.step = "look" => op.tool = "frontmatter"

IInv ==
  /\ TypeOK
  /\ FilesAreTexts /\ DiffInHand /\ CallInHand /\ LastDiff
  /\ TempsCounted
  /\ ReadIsThere /\ StampsAreRecent /\ RenamesToNowhere
  /\ NothingIsLost

-----------------------------------------------------------------------------
(* Initially there are only notes, of which each text is owed.             *)
LEMMA InitInv == Init => IInv
<1> SUFFICES ASSUME Init PROVE IInv
  OBVIOUS
<1> USE DEF Init
<1>1. TypeOK
  <2>1. DOMAIN files \subseteq Places
    BY DEF Places
  <2>2. op.step = "idle" /\ op.tool = "none" /\ op.left = <<>>
    BY DEF Idle
  <2>3. clock \in 1..MaxTime /\ calls \in 0..MaxCalls /\ edits \in 0..MaxEdits /\ temps \in 0..2
    BY BoundAssumption
  <2>4. op.left \in Seq(Resolved)
    BY <2>2
  <2>5. crowded \in BOOLEAN /\ raced \in BOOLEAN /\ crashed \in BOOLEAN
    OBVIOUS
  <2>6. stamped \subseteq Names /\ DOMAIN op = DOMAIN Idle
    OBVIOUS
  <2>7. op.tool \in Tools
    BY <2>2 DEF Tools
  <2> HIDE DEF Init
  <2>8. op = Idle
    BY DEF Init
  <2> QED BY <2>1, <2>2, <2>3, <2>4, <2>5, <2>6, <2>7, <2>8 DEF TypeOK, CallOK, HistoryOK
<1>2. TempsCounted /\ ReadIsThere /\ RenamesToNowhere
  BY DEF TempsCounted, ReadIsThere, RenamesToNowhere, Idle
<1>3. StampsAreRecent
  BY NotesAssumption DEF StampsAreRecent, Recent, Idle
<1>4. NothingIsLost
  BY DEF NothingIsLost
<1>5. FilesAreTexts
  BY TextAssumption DEF FilesAreTexts, Text, Idle
<1>6. DiffInHand /\ CallInHand /\ LastDiff
  BY DEF DiffInHand, CallInHand, LastDiff, Idle
<1> QED BY <1>1, <1>2, <1>3, <1>4, <1>5, <1>6 DEF IInv

-----------------------------------------------------------------------------
(* The calls that have something to do after they began.                   *)
Begins(p) ==
  \/ \E hunks \in Diffs, expected \in BOOLEAN : VaultApplyUnifiedDiff(p, hunks, expected)
  \/ \E text \in Texts : VaultCreateOverwriteFile(p, text)
  \/ \E q \in Notes : VaultBatchFrontmatterUpdate(p, q) \/ VaultMove(p, q)
  \/ VaultDelete(p)

(* What every field of an idle call is.                                    *)
LEMMA IdleFields ==
  /\ Idle.tool = "none" /\ Idle.step = "idle" /\ Idle.left = <<>> /\ Idle.expected = FALSE
  /\ DOMAIN Idle = {"tool", "step", "at", "to", "read", "new", "hunks", "expected", "left"}
  BY DEF Idle

(* The trash has a place for every note, which no note has.                *)
LEMMA TrashPlaces ==
  ASSUME TypeOK, NEW p \in Resolved
  PROVE  /\ TrashPlace(p) \in Places /\ InTrash(TrashPlace(p))
         /\ TrashPlace(p).stamp \in {0, clock} /\ TrashPlace(p).name = p.name
         /\ TrashPlace(p) \in DOMAIN files =>
              TrashPlace(p).stamp = clock /\ [p EXCEPT !.dir = Trash] \in DOMAIN files
<1> DEFINE plain == [p EXCEPT !.dir = Trash]
<1>1. p \in Notes /\ p.name \in Names /\ p = [dir |-> p.dir, name |-> p.name, stamp |-> 0]
  BY NotesAssumption DEF Resolved, Names
<1>2. plain = [dir |-> Trash, name |-> p.name, stamp |-> 0]
  BY <1>1
<1>3. [plain EXCEPT !.stamp = clock] = [dir |-> Trash, name |-> p.name, stamp |-> clock]
  <2> HIDE DEF plain
  <2> QED BY <1>2
<1>4. clock \in 0..MaxTime /\ 0 \in 0..MaxTime
  BY BoundAssumption DEF TypeOK, HistoryOK
<1>5. TrashPlace(p) = IF plain \in DOMAIN files THEN [plain EXCEPT !.stamp = clock] ELSE plain
  BY DEF TrashPlace
<1> QED BY <1>1, <1>2, <1>3, <1>4, <1>5 DEF Places, InTrash

(* Every step keeps the types.                                             *)
LEMMA CallStep == TypeOK /\ [Next]_vars => CallOK'
<1> SUFFICES ASSUME CallOK, TypeOK, [Next]_vars PROVE CallOK'
  BY DEF TypeOK
<1>0. <<>> \in Seq(Resolved)
  OBVIOUS
<1> USE <1>0, IdleFields DEF CallOK
<1>1. CASE op' = op
  BY <1>1
<1>2. CASE op' = Idle
  BY <1>2 DEF Tools
<1>3. ASSUME NEW p \in Notes, NEW hunks \in Diffs, NEW expected \in BOOLEAN,
             VaultApplyUnifiedDiff(p, hunks, expected), op' # op
      PROVE CallOK'
  <2>1. p \in Resolved /\ op = Idle
    BY <1>3 DEF VaultApplyUnifiedDiff, Call
  <2>2. op' = [Idle EXCEPT !.tool = "diff", !.step = "temp", !.at = p,
                           !.read = Read(files[p]), !.new = Updated(Read(files[p]), hunks),
                           !.hunks = hunks, !.expected = expected]
    BY <1>3 DEF VaultApplyUnifiedDiff, Goes
  <2> QED BY <2>1, <2>2 DEF Tools
<1>4. ASSUME NEW p \in Notes, NEW text \in Texts, VaultCreateOverwriteFile(p, text) PROVE CallOK'
  <2>1. p \in Resolved /\ op' = [Idle EXCEPT !.tool = "create", !.step = "temp", !.at = p, !.new = text]
    BY <1>4 DEF VaultCreateOverwriteFile, Call, Goes
  <2> QED BY <2>1 DEF Tools
<1>5. ASSUME NEW p \in Notes, NEW q \in Notes, VaultBatchFrontmatterUpdate(p, q) PROVE CallOK'
  <2>1. /\ p \in Resolved /\ q \in Resolved
        /\ op' = [Idle EXCEPT !.tool = "frontmatter", !.step = "look", !.left = <<p, q>>]
    BY <1>5 DEF VaultBatchFrontmatterUpdate, Call, Goes
  <2>2. <<p, q>> \in Seq(Resolved)
    BY <2>1
  <2> QED BY <2>1, <2>2 DEF Tools
<1>6. ASSUME NEW p \in Notes, NEW q \in Notes, VaultMove(p, q) PROVE CallOK'
  <2>1. /\ p \in Resolved /\ q \in Resolved
        /\ op' = [Idle EXCEPT !.tool = "move", !.step = "rename", !.at = p, !.to = q]
    BY <1>6 DEF VaultMove, Call, Goes
  <2>2. q \in Places
    BY DEF Places
  <2> QED BY <2>1, <2>2 DEF Tools
<1>7. ASSUME NEW p \in Notes, VaultDelete(p) PROVE CallOK'
  <2>1. /\ p \in Resolved
        /\ op' = [Idle EXCEPT !.tool = "delete", !.step = "rename", !.at = p, !.to = TrashPlace(p)]
    BY <1>7 DEF VaultDelete, Call, Goes
  <2>2. TrashPlace(p) \in Places
    BY <2>1, TrashPlaces
  <2> QED BY <2>1, <2>2 DEF Tools
<1>8. ASSUME NEW p \in Notes, NextUpdate(p) PROVE CallOK'
  <2>1. op.step = "look" /\ op.left # <<>> /\ p = Head(op.left)
    BY <1>8 DEF NextUpdate
  <2>2. p \in Resolved /\ Tail(op.left) \in Seq(Resolved)
    BY <2>1
  <2>3. \/ op' = [op EXCEPT !.step = "temp", !.at = p, !.left = Tail(@),
                           !.read = Read(files[p]), !.new = WithField(Read(files[p]))]
        \/ op' = [op EXCEPT !.left = Tail(@)]
    BY <1>8 DEF NextUpdate
  <2> QED BY <2>1, <2>2, <2>3
<1>9. CASE MakeTemp
  BY <1>9 DEF MakeTemp
<1>10. ASSUME op' = AfterWrite PROVE CallOK'
  BY <1>10 DEF AfterWrite, Tools
<1>11. CASE UNCHANGED vars
  BY <1>1, <1>11 DEF vars
<1>12. ASSUME NEW p \in Notes, VaultRead(p) PROVE op' = op
  BY <1>12 DEF VaultRead
<1>13. BatchDone \/ RenameFails \/ Crash \/ Rename => op' = Idle
  BY DEF BatchDone, RenameFails, Crash, Rename
<1>14. Replace \/ WriteFails => op' = AfterWrite
  BY DEF Replace, WriteFails
<1>15. Tick => op' = op
  BY DEF Tick
<1>16. ASSUME NEW p \in Resolved, (\E text \in Texts : EditorWrites(p, text)) \/ EditorRemoves(p)
       PROVE op' = op
  BY <1>16 DEF EditorWrites, EditorRemoves, Edit
<1> HIDE DEF CallOK
<1> QED BY <1>1, <1>2, <1>3, <1>4, <1>5, <1>6, <1>7, <1>8, <1>9, <1>10, <1>11, <1>12, <1>13,
           <1>14, <1>15, <1>16 DEF Next

(* Counts and history keep their types.                                    *)
LEMMA HistoryStep == TypeOK /\ [Next]_vars => HistoryOK'
<1> SUFFICES ASSUME CallOK, HistoryOK, [Next]_vars PROVE HistoryOK'
  BY DEF TypeOK
<1> USE DEF HistoryOK
<1>1. ASSUME NEW p \in Notes, VaultDelete(p) PROVE HistoryOK'
  <2>1. p.name \in Names
    BY DEF Names
  <2>2. stamped' \subseteq Names
    BY <1>1, <2>1 DEF VaultDelete
  <2>3. crowded' \in BOOLEAN
    BY <1>1 DEF VaultDelete
  <2>4. calls' \in 0..MaxCalls
    BY <1>1, BoundAssumption DEF VaultDelete, Call
  <2>5. UNCHANGED <<clock, edits, raced, crashed>>
    BY <1>1 DEF VaultDelete
  <2> QED BY <2>2, <2>3, <2>4, <2>5
<1>2. ASSUME NEW p \in Notes, Call(p), UNCHANGED <<clock, edits, stamped, crowded, raced, crashed>>
      PROVE HistoryOK'
  <2>1. calls' \in 0..MaxCalls
    BY <1>2, BoundAssumption DEF Call
  <2> QED BY <1>2, <2>1
<1>3. ASSUME NEW p \in Notes, Begins(p), ~VaultDelete(p)
      PROVE Call(p) /\ UNCHANGED <<clock, edits, stamped, crowded, raced, crashed>>
  BY <1>3 DEF Begins, VaultApplyUnifiedDiff, VaultCreateOverwriteFile, VaultBatchFrontmatterUpdate,
              VaultMove
<1>4. ASSUME NEW p \in Resolved, Edit(p) PROVE HistoryOK'
  <2>1. edits' \in 0..MaxEdits
    BY <1>4, BoundAssumption DEF Edit
  <2>2. raced' \in BOOLEAN
    BY <1>4 DEF Edit
  <2>3. UNCHANGED <<clock, calls, stamped, crowded, crashed>>
    BY <1>4 DEF Edit
  <2> QED BY <2>1, <2>2, <2>3
<1>5. ASSUME NEW p \in Resolved, (\E text \in Texts : EditorWrites(p, text)) \/ EditorRemoves(p)
      PROVE Edit(p)
  BY <1>5 DEF EditorWrites, EditorRemoves
<1>6. CASE Tick
  <2>1. clock' \in 1..MaxTime
    BY <1>6, BoundAssumption DEF Tick
  <2>2. stamped' = {} /\ UNCHANGED <<calls, edits, crowded, raced, crashed>>
    BY <1>6 DEF Tick
  <2> QED BY <2>1, <2>2
<1>7. CASE Crash
  BY <1>7 DEF Crash, counts
<1>8. CASE UNCHANGED <<clock, calls, edits, stamped, crowded, raced, crashed>>
  BY <1>8
<1>9. BatchDone \/ MakeTemp \/ Replace \/ WriteFails \/ Rename \/ RenameFails \/ UNCHANGED vars
        => UNCHANGED <<clock, calls, edits, stamped, crowded, raced, crashed>>
  BY DEF BatchDone, MakeTemp, Replace, WriteFails, Rename, RenameFails, vars, counts, history
<1>10. ASSUME NEW p \in Notes, VaultRead(p) \/ NextUpdate(p)
       PROVE UNCHANGED <<clock, calls, edits, stamped, crowded, raced, crashed>>
  BY <1>10 DEF VaultRead, NextUpdate, counts, history
<1> HIDE DEF HistoryOK
<1> QED BY <1>1, <1>2, <1>3, <1>4, <1>5, <1>6, <1>7, <1>8, <1>9, <1>10 DEF Next, Begins

(* Only three steps change files.                                          *)
LEMMA FilesSteps ==
  [Next]_vars =>
    \/ UNCHANGED files
    \/ Replace \/ Rename
    \/ \E p \in Resolved : (\E text \in Texts : EditorWrites(p, text)) \/ EditorRemoves(p)
  BY DEF Next, vars, VaultRead, VaultApplyUnifiedDiff, VaultCreateOverwriteFile,
         VaultBatchFrontmatterUpdate, VaultMove, VaultDelete, NextUpdate, BatchDone, MakeTemp,
         WriteFails, RenameFails, Crash, Tick

(* Files stay where files can be.                                          *)
LEMMA FilesStep == TypeOK /\ [Next]_vars => DOMAIN files' \subseteq Places
<1> SUFFICES ASSUME CallOK, DOMAIN files \subseteq Places, [Next]_vars
             PROVE DOMAIN files' \subseteq Places
  BY DEF TypeOK
<1>1. Resolved \subseteq Places
  BY DEF Resolved, Places
<1>2. CASE Replace
  BY <1>1, <1>2 DEF Replace, CallOK, Put
<1>3. CASE Rename
  BY <1>3 DEF Rename, CallOK, Put, Without, Restrict
<1>4. ASSUME NEW p \in Resolved, NEW text \in Texts, EditorWrites(p, text)
      PROVE DOMAIN files' \subseteq Places
  BY <1>1, <1>4 DEF EditorWrites, Put
<1>5. ASSUME NEW p \in Resolved, EditorRemoves(p) PROVE DOMAIN files' \subseteq Places
  BY <1>5 DEF EditorRemoves, Without, Restrict
<1> QED BY <1>2, <1>3, <1>4, <1>5, FilesSteps

(* Every temporary file is accounted for.                                  *)
LEMMA TempsStep == TypeOK /\ TempsCounted /\ [Next]_vars => TempsCounted' /\ temps' \in 0..2
<1> SUFFICES ASSUME CallOK, HistoryOK, TempsCounted, [Next]_vars PROVE TempsCounted'
  BY DEF TypeOK, TempsCounted
<1> USE IdleFields
<1>1. PICK n \in {0, 1} : /\ ~crashed => n = 0
                          /\ temps = n + (IF op.step = "replace" THEN 1 ELSE 0)
  BY DEF TempsCounted
<1>2. CASE MakeTemp
  BY <1>1, <1>2 DEF MakeTemp, history, CallOK, TempsCounted
<1>3. CASE WriteFails
  BY <1>1, <1>3 DEF WriteFails, AfterWrite, history, TempsCounted
<1>4. CASE Replace
  BY <1>1, <1>4 DEF Replace, AfterWrite, TempsCounted
<1>5. CASE Crash
  BY <1>1, <1>5 DEF Crash, TempsCounted
<1>6. CASE UNCHANGED <<temps, crashed>> /\ (op' = op \/ (op.step # "replace" /\ op'.step # "replace"))
  BY <1>1, <1>6 DEF TempsCounted
<1>7. ASSUME NEW p \in Notes, Begins(p)
      PROVE UNCHANGED <<temps, crashed>> /\ op.step # "replace" /\ (op' = op \/ op'.step # "replace")
  BY <1>7 DEF Begins, VaultApplyUnifiedDiff, VaultCreateOverwriteFile, VaultBatchFrontmatterUpdate,
              VaultMove, VaultDelete, Call, Goes
<1>8. ASSUME NEW p \in Notes, NextUpdate(p)
      PROVE UNCHANGED <<temps, crashed>> /\ op.step # "replace" /\ op'.step # "replace"
  BY <1>8 DEF NextUpdate, history, CallOK
<1>9. BatchDone \/ Rename \/ RenameFails =>
        UNCHANGED <<temps, crashed>> /\ op.step # "replace" /\ op'.step # "replace"
  BY DEF BatchDone, Rename, RenameFails, history
<1>10. ASSUME NEW p \in Resolved, (\E text \in Texts : EditorWrites(p, text)) \/ EditorRemoves(p)
       PROVE UNCHANGED <<temps, crashed, op>>
  BY <1>10 DEF EditorWrites, EditorRemoves, Edit
<1>11. Tick \/ UNCHANGED vars => UNCHANGED <<temps, crashed, op>>
  BY DEF Tick, vars, history
<1>12. ASSUME NEW p \in Notes, VaultRead(p) PROVE UNCHANGED <<temps, crashed, op>>
  BY <1>12 DEF VaultRead, history
<1> QED BY <1>2, <1>3, <1>4, <1>5, <1>6, <1>7, <1>8, <1>9, <1>10, <1>11, <1>12 DEF Next, Begins

(* What a call has read is there until it is replaced.                     *)
LEMMA ReadStep == TypeOK /\ ReadIsThere /\ [Next]_vars => ReadIsThere'
<1> SUFFICES ASSUME CallOK, ReadIsThere, [Next]_vars PROVE ReadIsThere'
  BY DEF TypeOK
<1> USE IdleFields
<1>1. CASE op'.step \in {"idle", "rename"}
  BY <1>1 DEF ReadIsThere
<1>2. CASE UNCHANGED <<files, op, seen, raced>>
  BY <1>2 DEF ReadIsThere, Knows
<1>3. ASSUME NEW p \in Notes, NEW hunks \in Diffs, NEW expected \in BOOLEAN,
             VaultApplyUnifiedDiff(p, hunks, expected), op' # op
      PROVE ReadIsThere'
  <2>1. /\ expected => seen = Read(files[p])
        /\ UNCHANGED <<files, seen>>
        /\ op' = [Idle EXCEPT !.tool = "diff", !.step = "temp", !.at = p,
                             !.read = Read(files[p]), !.new = Updated(Read(files[p]), hunks),
                             !.hunks = hunks, !.expected = expected]
    BY <1>3 DEF VaultApplyUnifiedDiff, Goes
  <2>2. op'.step = "temp" /\ op'.at = p /\ op'.read = Read(files[p]) /\ op'.expected = expected
    BY <2>1
  <2> QED BY <2>1, <2>2 DEF ReadIsThere, Knows
<1>4. ASSUME NEW p \in Notes, NEW text \in Texts, VaultCreateOverwriteFile(p, text)
      PROVE ReadIsThere'
  <2>1. op'.step = "temp" /\ op'.tool = "create"
    BY <1>4 DEF VaultCreateOverwriteFile, Goes
  <2> QED BY <2>1 DEF ReadIsThere, Knows
<1>5. ASSUME NEW p \in Notes, NEW q \in Notes, VaultBatchFrontmatterUpdate(p, q)
      PROVE ReadIsThere'
  <2>1. op'.step = "look" /\ op'.expected = FALSE
    BY <1>5 DEF VaultBatchFrontmatterUpdate, Goes
  <2> QED BY <2>1 DEF ReadIsThere
<1>6. ASSUME NEW p \in Notes, VaultDelete(p) \/ \E q \in Notes : VaultMove(p, q)
      PROVE op'.step = "rename"
  BY <1>6 DEF VaultDelete, VaultMove, Goes
<1>7. ASSUME NEW p \in Notes, NextUpdate(p) PROVE ReadIsThere'
  <2>1. op.step = "look" /\ op.expected = FALSE /\ UNCHANGED <<files, seen>>
    BY <1>7 DEF NextUpdate, ReadIsThere
  <2>2. \/ op'.step = "look" /\ op'.expected = FALSE
        \/ op'.step = "temp" /\ op'.at = p /\ op'.read = Read(files[p]) /\ op'.expected = FALSE
    BY <1>7, <2>1 DEF NextUpdate, CallOK
  <2> QED BY <2>1, <2>2 DEF ReadIsThere, Knows
<1>8. CASE MakeTemp
  <2>1. /\ op.step = "temp" /\ op' = [op EXCEPT !.step = "replace"]
        /\ UNCHANGED <<files, seen, raced>>
    BY <1>8 DEF MakeTemp, history
  <2>2. /\ op'.step = "replace" /\ op'.at = op.at /\ op'.read = op.read
        /\ op'.tool = op.tool /\ op'.expected = op.expected
    BY <2>1 DEF CallOK
  <2> QED BY <2>1, <2>2 DEF ReadIsThere, Knows
<1>9. CASE Replace \/ WriteFails
  <2>1. op' = AfterWrite
    BY <1>9 DEF Replace, WriteFails
  <2>2. op'.step = "idle" \/ (op'.step = "look" /\ op'.expected = FALSE)
    BY <2>1 DEF AfterWrite
  <2> QED BY <2>2 DEF ReadIsThere
<1>10. ASSUME NEW p \in Resolved, (\E text \in Texts : EditorWrites(p, text)) \/ EditorRemoves(p)
       PROVE ReadIsThere'
  <2>1. /\ UNCHANGED <<op, seen>> /\ raced' = (raced \/ p \in {op.at, op.to})
    BY <1>10 DEF EditorWrites, EditorRemoves, Edit
  <2>2. ASSUME op.at # p, op.at \in DOMAIN files'
        PROVE op.at \in DOMAIN files /\ files'[op.at] = files[op.at]
    BY <1>10, <2>2 DEF EditorWrites, EditorRemoves, Put, Without, Restrict
  <2> QED BY <2>1, <2>2 DEF ReadIsThere, Knows
<1>11. BatchDone \/ RenameFails \/ Crash \/ Rename => op'.step = "idle"
  BY DEF BatchDone, RenameFails, Crash, Rename
<1>12. Tick \/ UNCHANGED vars => UNCHANGED <<files, op, seen, raced>>
  BY DEF Tick, vars, history
<1>13. ASSUME NEW p \in Notes, VaultRead(p) PROVE op'.step = "idle"
  BY <1>13 DEF VaultRead
<1>14. ASSUME NEW p \in Notes, NEW hunks \in Diffs, NEW expected \in BOOLEAN,
             VaultApplyUnifiedDiff(p, hunks, expected), op' = op
       PROVE UNCHANGED <<files, op, seen, raced>>
  BY <1>14 DEF VaultApplyUnifiedDiff
<1> QED BY <1>1, <1>2, <1>3, <1>4, <1>5, <1>6, <1>7, <1>8, <1>9, <1>10, <1>11, <1>12, <1>13,
           <1>14 DEF Next

(* Times in the trash are of this second or before.                        *)
LEMMA StampsStep == TypeOK /\ StampsAreRecent /\ [Next]_vars => StampsAreRecent'
<1> SUFFICES ASSUME TypeOK, StampsAreRecent, [Next]_vars PROVE StampsAreRecent'
  OBVIOUS
<1> USE IdleFields
<1>1. CallOK /\ HistoryOK /\ DOMAIN files \subseteq Places
  BY DEF TypeOK
<1>2. clock \in 1..MaxTime
  BY <1>1 DEF HistoryOK
<1>3. ASSUME NEW p \in Notes PROVE p.stamp = 0
  BY NotesAssumption
<1>4. ASSUME NEW p \in Places PROVE p.stamp \in Nat
  BY <1>3 DEF Places
<1>5. CASE UNCHANGED <<files, clock, stamped>> /\ op'.step # "rename"
  BY <1>5 DEF StampsAreRecent, Recent
<1>6. CASE UNCHANGED <<files, clock, stamped, op>>
  BY <1>6 DEF StampsAreRecent, Recent
<1>7. ASSUME NEW p \in Notes, NEW q \in Notes, VaultMove(p, q) PROVE StampsAreRecent'
  <2>1. op'.to = q /\ UNCHANGED <<files, clock, stamped>>
    BY <1>7 DEF VaultMove, Goes
  <2> QED BY <1>2, <1>3, <2>1 DEF StampsAreRecent, Recent
<1>8. ASSUME NEW p \in Notes, VaultDelete(p) PROVE StampsAreRecent'
  <2>1. p \in Resolved /\ op'.to = TrashPlace(p) /\ UNCHANGED <<files, clock>>
    BY <1>8 DEF VaultDelete, Call, Goes
  <2>2. /\ stamped \subseteq stamped'
        /\ [p EXCEPT !.dir = Trash] \in DOMAIN files => p.name \in stamped'
    BY <1>8 DEF VaultDelete
  <2>3. [p EXCEPT !.dir = Trash].stamp = 0 /\ p = [dir |-> p.dir, name |-> p.name, stamp |-> 0]
    BY <1>3, NotesAssumption
  <2>4. TrashPlace(p).stamp = clock => p.name \in stamped'
    BY <1>2, <2>2, <2>3 DEF TrashPlace
  <2>5. TrashPlace(p).stamp \in {0, clock} /\ TrashPlace(p).name = p.name
    BY <2>1, TrashPlaces
  <2> QED BY <1>2, <2>1, <2>2, <2>4, <2>5 DEF StampsAreRecent, Recent
<1>9. CASE Replace
  <2>1. /\ UNCHANGED <<clock, stamped>> /\ DOMAIN files' = DOMAIN files \cup {op.at}
        /\ op.at \in Notes /\ op'.step # "rename"
    BY <1>1, <1>9 DEF Replace, counts, CallOK, Resolved, AfterWrite, Put
  <2> QED BY <1>2, <1>3, <2>1 DEF StampsAreRecent, Recent
<1>10. CASE Rename
  <2>1. /\ UNCHANGED <<clock, stamped>> /\ DOMAIN files' \subseteq DOMAIN files \cup {op.to}
        /\ op'.step # "rename"
    BY <1>10 DEF Rename, counts, Put, Without, Restrict
  <2> QED BY <1>10, <2>1 DEF StampsAreRecent, Recent, Rename
<1>11. ASSUME NEW p \in Resolved, (\E text \in Texts : EditorWrites(p, text)) \/ EditorRemoves(p)
       PROVE StampsAreRecent'
  <2>1. UNCHANGED <<op, clock, stamped>> /\ DOMAIN files' \subseteq DOMAIN files \cup {p}
    BY <1>11 DEF EditorWrites, EditorRemoves, Edit, Put, Without, Restrict
  <2>2. p.stamp = 0
    BY <1>3 DEF Resolved
  <2> QED BY <1>2, <2>1, <2>2 DEF StampsAreRecent, Recent
<1>12. CASE Tick
  <2>1. clock' = clock + 1 /\ UNCHANGED <<files, op>>
    BY <1>12 DEF Tick
  <2>2. ASSUME NEW p \in Places, Recent(p) PROVE Recent(p)'
    BY <1>2, <1>4, <2>1, <2>2 DEF Recent
  <2> QED BY <1>1, <2>1, <2>2 DEF StampsAreRecent, CallOK
<1>13. ASSUME NEW p \in Notes,
              \/ \E hunks \in Diffs, expected \in BOOLEAN : VaultApplyUnifiedDiff(p, hunks, expected)
              \/ \E text \in Texts : VaultCreateOverwriteFile(p, text)
              \/ \E q \in Notes : VaultBatchFrontmatterUpdate(p, q)
       PROVE UNCHANGED <<files, clock, stamped>> /\ op'.step # "rename"
  BY <1>13 DEF VaultApplyUnifiedDiff, VaultCreateOverwriteFile, VaultBatchFrontmatterUpdate, Goes, Call
<1>14. ASSUME NEW p \in Notes, VaultRead(p) \/ NextUpdate(p)
       PROVE UNCHANGED <<files, clock, stamped>> /\ op'.step # "rename"
  BY <1>1, <1>14 DEF VaultRead, NextUpdate, counts, history, CallOK
<1>15. BatchDone \/ MakeTemp \/ WriteFails \/ RenameFails \/ Crash =>
         UNCHANGED <<files, clock, stamped>> /\ op'.step # "rename"
  BY <1>1 DEF BatchDone, MakeTemp, WriteFails, RenameFails, Crash, AfterWrite, counts, history, CallOK
<1>16. UNCHANGED vars => UNCHANGED <<files, clock, stamped, op>>
  BY DEF vars, counts, history
<1> QED BY <1>5, <1>6, <1>7, <1>8, <1>9, <1>10, <1>11, <1>12, <1>13, <1>14, <1>15, <1>16 DEF Next

(* The place that a rename is for stays free.                              *)
LEMMA NowhereStep ==
  TypeOK /\ StampsAreRecent /\ RenamesToNowhere /\ [Next]_vars => RenamesToNowhere'
<1> SUFFICES ASSUME TypeOK, StampsAreRecent, RenamesToNowhere, [Next]_vars PROVE RenamesToNowhere'
  OBVIOUS
<1> USE IdleFields
<1>1. CallOK /\ HistoryOK
  BY DEF TypeOK
<1>2. CASE op'.step # "rename"
  BY <1>2 DEF RenamesToNowhere
<1>3. CASE UNCHANGED <<files, op, raced, crowded>>
  BY <1>3 DEF RenamesToNowhere
<1>4. ASSUME NEW p \in Notes, NEW q \in Notes, VaultMove(p, q) PROVE RenamesToNowhere'
  <2>1. op'.to = q /\ q \notin DOMAIN files /\ UNCHANGED files
    BY <1>4 DEF VaultMove, Goes
  <2> QED BY <2>1 DEF RenamesToNowhere
<1>5. ASSUME NEW p \in Notes, VaultDelete(p) PROVE RenamesToNowhere'
  <2> DEFINE to == TrashPlace(p)
  <2>1. p \in Resolved /\ op'.to = to /\ UNCHANGED files
    BY <1>5 DEF VaultDelete, Call, Goes
  <2>2. to \in DOMAIN files =>
          to.stamp = clock /\ to.name = p.name /\ [p EXCEPT !.dir = Trash] \in DOMAIN files
    BY <2>1, TrashPlaces
  <2>3. to \in DOMAIN files => p.name \in stamped
    <3> HIDE DEF to
    <3> QED BY <2>2 DEF StampsAreRecent, Recent
  <2>4. to \in DOMAIN files => crowded'
    BY <1>5, <2>2, <2>3 DEF VaultDelete
  <2> QED BY <2>1, <2>4 DEF RenamesToNowhere
<1>6. ASSUME NEW p \in Resolved, (\E text \in Texts : EditorWrites(p, text)) \/ EditorRemoves(p)
      PROVE RenamesToNowhere'
  <2>1. /\ UNCHANGED <<op, crowded>> /\ raced' = (raced \/ p \in {op.at, op.to})
        /\ DOMAIN files' \subseteq DOMAIN files \cup {p}
    BY <1>6 DEF EditorWrites, EditorRemoves, Edit, Put, Without, Restrict
  <2> QED BY <2>1 DEF RenamesToNowhere
<1>7. ASSUME NEW p \in Notes,
             \/ \E hunks \in Diffs, expected \in BOOLEAN : VaultApplyUnifiedDiff(p, hunks, expected)
             \/ \E text \in Texts : VaultCreateOverwriteFile(p, text)
             \/ \E q \in Notes : VaultBatchFrontmatterUpdate(p, q)
      PROVE op'.step # "rename"
  BY <1>7 DEF VaultApplyUnifiedDiff, VaultCreateOverwriteFile, VaultBatchFrontmatterUpdate, Goes, Call
<1>8. ASSUME NEW p \in Notes, VaultRead(p) \/ NextUpdate(p) PROVE op'.step # "rename"
  BY <1>1, <1>8 DEF VaultRead, NextUpdate, CallOK
<1>9. BatchDone \/ MakeTemp \/ Replace \/ WriteFails \/ Rename \/ RenameFails \/ Crash =>
        op'.step # "rename"
  BY <1>1 DEF BatchDone, MakeTemp, Replace, WriteFails, Rename, RenameFails, Crash, AfterWrite, CallOK
<1>10. Tick \/ UNCHANGED vars => UNCHANGED <<files, op, raced, crowded>>
  BY DEF Tick, vars, history
<1> QED BY <1>2, <1>3, <1>4, <1>5, <1>6, <1>7, <1>8, <1>9, <1>10 DEF Next

(* No step loses a text that is owed.                                      *)
LEMMA NothingStep == IInv /\ [Next]_vars => NothingIsLost'
<1> SUFFICES ASSUME CallOK, ReadIsThere, RenamesToNowhere, NothingIsLost, [Next]_vars,
                    ~raced', ~crowded'
             PROVE owed' \subseteq Range(files)'
  BY DEF IInv, TypeOK, NothingIsLost
<1>1. ASSUME UNCHANGED <<files, owed>>, ~raced, ~crowded PROVE owed' \subseteq Range(files)'
  BY <1>1 DEF NothingIsLost
<1>2. CASE Replace
  <2>1. ~raced /\ ~crowded
    BY <1>2 DEF Replace
  <2>2. owed \subseteq Range(files) /\ files' = Put(files, op.at, op.new)
    BY <1>2, <2>1 DEF NothingIsLost, Replace
  <2>3. op.new \in Range(files)'
    BY <2>2 DEF Range, Put
  <2>4. ASSUME NEW text \in owed', text # op.new PROVE text \in Range(files)'
    <3>1. text \in owed /\ (op.at \in DOMAIN files /\ Knows(Read(files[op.at])) => text # files[op.at])
      BY <1>2, <2>4 DEF Replace
    <3>2. op.at \in DOMAIN files => Knows(Read(files[op.at]))
      BY <1>2, <2>1 DEF ReadIsThere, Replace
    <3>3. PICK p \in DOMAIN files : text = files[p]
      BY <2>2, <3>1 DEF Range
    <3>4. p # op.at
      BY <3>1, <3>2, <3>3
    <3> QED BY <2>2, <3>3, <3>4 DEF Range, Put
  <2> QED BY <2>3, <2>4
<1>3. CASE Rename
  <2>1. /\ ~raced /\ ~crowded /\ UNCHANGED owed
        /\ op.at \in DOMAIN files /\ op.to \notin DOMAIN files
        /\ files' = Put(Without(files, op.at), op.to, files[op.at])
    BY <1>3 DEF Rename, RenamesToNowhere
  <2>2. ASSUME NEW text \in owed PROVE text \in Range(files)'
    <3>1. PICK p \in DOMAIN files : text = files[p]
      BY <2>1, <2>2 DEF NothingIsLost, Range
    <3>2. CASE p = op.at
      BY <2>1, <3>1, <3>2 DEF Range, Put
    <3>3. CASE p # op.at
      BY <2>1, <3>1, <3>3 DEF Range, Put, Without, Restrict
    <3> QED BY <3>2, <3>3
  <2> QED BY <2>1, <2>2
<1>4. ASSUME NEW p \in Resolved, NEW text \in Texts, EditorWrites(p, text)
      PROVE owed' \subseteq Range(files)'
  <2>1. /\ ~raced /\ ~crowded /\ files' = Put(files, p, text)
        /\ owed' = (owed \ Was(p)) \cup {text}
    BY <1>4 DEF EditorWrites, Edit
  <2>2. ASSUME NEW t \in owed, t \notin Was(p) PROVE t \in Range(files)'
    <3>1. PICK q \in DOMAIN files : t = files[q]
      BY <2>1, <2>2 DEF NothingIsLost, Range
    <3> QED BY <2>1, <2>2, <3>1 DEF Was, Range, Put
  <2>3. text \in Range(files)'
    BY <2>1 DEF Range, Put
  <2> QED BY <2>1, <2>2, <2>3
<1>5. ASSUME NEW p \in Resolved, EditorRemoves(p) PROVE owed' \subseteq Range(files)'
  <2>1. /\ ~raced /\ ~crowded /\ files' = Without(files, p) /\ owed' = owed \ Was(p)
        /\ p \in DOMAIN files
    BY <1>5 DEF EditorRemoves, Edit
  <2>2. ASSUME NEW t \in owed, t \notin Was(p) PROVE t \in Range(files)'
    <3>1. PICK q \in DOMAIN files : t = files[q]
      BY <2>1, <2>2 DEF NothingIsLost, Range
    <3> QED BY <2>1, <2>2, <3>1 DEF Was, Range, Without, Restrict
  <2> QED BY <2>1, <2>2
<1>6. ASSUME NEW p \in Notes, Begins(p) \/ VaultRead(p) \/ NextUpdate(p)
      PROVE UNCHANGED <<files, owed>> /\ ~raced /\ ~crowded
  <2>1. CASE VaultDelete(p)
    BY <2>1 DEF VaultDelete
  <2>2. VaultRead(p) \/ NextUpdate(p) => UNCHANGED <<files, owed, raced, crowded>>
    BY DEF VaultRead, NextUpdate, history
  <2>3. Begins(p) /\ ~VaultDelete(p) => UNCHANGED <<files, owed, raced, crowded>>
    BY DEF Begins, VaultApplyUnifiedDiff, VaultCreateOverwriteFile, VaultBatchFrontmatterUpdate,
           VaultMove
  <2> QED BY <1>6, <2>1, <2>2, <2>3
<1>7. BatchDone \/ MakeTemp \/ WriteFails \/ RenameFails \/ Crash \/ Tick \/ UNCHANGED vars =>
        UNCHANGED <<files, owed>> /\ ~raced /\ ~crowded
  BY DEF BatchDone, MakeTemp, WriteFails, RenameFails, Crash, Tick, vars, history
<1> QED BY <1>1, <1>2, <1>3, <1>4, <1>5, <1>6, <1>7 DEF Next, Begins

-----------------------------------------------------------------------------
(* What tools read and write is text.                                      *)

LEMMA ReadIsText ==
  ASSUME NEW content \in Text
  PROVE  Read(content) \in Text
<1>1. Len(content) \in Nat /\ DOMAIN content = 1..Len(content) /\ \A i \in DOMAIN content : content[i] \in Chars
  BY LenProperties, ElementOfSeq DEF Text
<1>2. "lf" \in Chars
  BY CharsAssumption DEF Newlines
<1>3. \A i \in 1..Len(content) : Read(content)[i] \in Chars
  BY <1>1, <1>2 DEF Read
<1>4. Read(content) = [i \in 1..Len(content) |-> Read(content)[i]]
  BY <1>1 DEF Read
<1> HIDE DEF Text
<1>5. Read(content) \in [1..Len(content) -> Chars]
  <2> DEFINE r == Read(content)
  <2> HIDE DEF r
  <2>1. r = [i \in 1..Len(content) |-> r[i]] /\ \A i \in 1..Len(content) : r[i] \in Chars
    BY <1>3, <1>4 DEF r
  <2>2. r \in [1..Len(content) -> Chars]
    BY <2>1
  <2> QED BY <2>2 DEF r
<1> QED BY <1>1, <1>5, SeqDef DEF Text

LEMMA WithFieldIsText ==
  ASSUME NEW content \in Text
  PROVE  WithField(content) \in Text
<1> DEFINE body == IF IsPrefix(Field, content) THEN SubSeq(content, 3, Len(content)) ELSE content
<1>1. SubSeq(content, 3, Len(content)) \in Seq(Chars)
  <2>1. Len(content) \in Nat /\ \A i \in 1..Len(content) : content[i] \in Chars
    BY LenProperties, ElementOfSeq DEF Text
  <2>2. \A i \in 3..Len(content) : content[i] \in Chars
    BY <2>1
  <2> QED BY <2>1, <2>2, SubSeqProperties DEF Text
<1>2. body \in Seq(Chars)
  BY <1>1 DEF Text
<1>3. Field \in Seq(Chars)
  BY TextAssumption
<1> HIDE DEF body
<1>4. Field \o body \in Seq(Chars)
  BY <1>2, <1>3, ConcatProperties
<1>5. WithField(content) = Field \o body
  BY DEF WithField, body
<1> QED BY <1>4, <1>5 DEF Text

(* Every step keeps files and what is about to be written texts.           *)
LEMMA TextStep == TypeOK /\ FilesAreTexts /\ [Next]_vars => FilesAreTexts'
<1> SUFFICES ASSUME CallOK, FilesAreTexts, [Next]_vars PROVE FilesAreTexts'
  BY DEF TypeOK
<1>1. \A p \in DOMAIN files : Read(files[p]) \in Text
  BY ReadIsText DEF FilesAreTexts
<1>2. \A text \in Texts : text \in Text
  BY TextAssumption DEF Text
<1>3. \A p \in DOMAIN files' : files'[p] \in Text
  <2>1. CASE Replace
    BY <2>1 DEF Replace, Put, FilesAreTexts
  <2>2. CASE Rename
    BY <2>2 DEF Rename, Put, Without, Restrict, FilesAreTexts
  <2>3. ASSUME NEW p \in Resolved, NEW text \in Texts, EditorWrites(p, text)
        PROVE \A q \in DOMAIN files' : files'[q] \in Text
    BY <1>2, <2>3 DEF EditorWrites, Put, FilesAreTexts
  <2>4. ASSUME NEW p \in Resolved, EditorRemoves(p)
        PROVE \A q \in DOMAIN files' : files'[q] \in Text
    BY <2>4 DEF EditorRemoves, Without, Restrict, FilesAreTexts
  <2> QED BY <2>1, <2>2, <2>3, <2>4, FilesSteps DEF FilesAreTexts
<1> DEFINE Written == op'.step \in {"temp", "replace"} => op'.new \in Text
<1>4. ASSUME op' = op PROVE Written
  BY <1>4 DEF FilesAreTexts
<1>5. ASSUME NEW p \in Notes, NEW hunks \in Diffs, NEW expected \in BOOLEAN,
             VaultApplyUnifiedDiff(p, hunks, expected), op' # op
      PROVE Written
  <2>1. /\ p \in DOMAIN files
        /\ op' = [Idle EXCEPT !.tool = "diff", !.step = "temp", !.at = p,
                             !.read = Read(files[p]), !.new = Updated(Read(files[p]), hunks),
                             !.hunks = hunks, !.expected = expected]
    BY <1>5 DEF VaultApplyUnifiedDiff, Goes
  <2>2. Updated(Read(files[p]), hunks) \in Text
    BY <1>1, <2>1, DiffAssumption, UpdatedType
  <2>3. op'.new = Updated(Read(files[p]), hunks)
    BY <2>1, IdleFields
  <2> QED BY <2>2, <2>3
<1>6. ASSUME NEW p \in Notes, NEW text \in Texts, VaultCreateOverwriteFile(p, text)
      PROVE Written
  <2>1. op' = [Idle EXCEPT !.tool = "create", !.step = "temp", !.at = p, !.new = text]
    BY <1>6 DEF VaultCreateOverwriteFile, Goes
  <2>2. op'.new = text
    BY <2>1, IdleFields
  <2> QED BY <1>2, <2>2
<1>7. ASSUME NEW p \in Notes, NextUpdate(p) PROVE Written
  <2>1. op.step = "look"
    BY <1>7 DEF NextUpdate
  <2>2. CASE p \in DOMAIN files
    <3>1. op' = [op EXCEPT !.step = "temp", !.at = p, !.left = Tail(@),
                           !.read = Read(files[p]), !.new = WithField(Read(files[p]))]
      BY <1>7, <2>2 DEF NextUpdate
    <3>2. op'.new = WithField(Read(files[p]))
      BY <3>1, IdleFields DEF CallOK
    <3> QED BY <1>1, <2>2, <3>2, WithFieldIsText
  <2>3. CASE p \notin DOMAIN files
    <3>1. op'.step = "look"
      BY <1>7, <2>1, <2>3, IdleFields DEF NextUpdate, CallOK
    <3> QED BY <3>1
  <2> QED BY <2>2, <2>3
<1>8. ASSUME MakeTemp PROVE Written
  BY <1>8, IdleFields DEF MakeTemp, FilesAreTexts, CallOK
<1>9. ASSUME NEW p \in Notes,
             \E q \in Notes : VaultBatchFrontmatterUpdate(p, q) \/ VaultMove(p, q)
      PROVE Written
  BY <1>9, IdleFields DEF VaultBatchFrontmatterUpdate, VaultMove, Goes
<1>10. ASSUME NEW p \in Notes, VaultDelete(p) PROVE Written
  BY <1>10, IdleFields DEF VaultDelete, Goes
<1>11. Replace \/ WriteFails \/ BatchDone \/ Rename \/ RenameFails \/ Crash => Written
  BY IdleFields DEF Replace, WriteFails, AfterWrite, BatchDone, Rename, RenameFails, Crash
<1>12. ASSUME NEW p \in Resolved, (\E text \in Texts : EditorWrites(p, text)) \/ EditorRemoves(p)
       PROVE op' = op
  BY <1>12 DEF EditorWrites, EditorRemoves, Edit
<1>13. Tick \/ UNCHANGED vars => op' = op
  BY DEF Tick, vars
<1>14. ASSUME NEW p \in Notes, VaultRead(p) PROVE op' = op
  BY <1>14 DEF VaultRead
<1>15. Written
  <2> HIDE DEF Written
  <2> QED BY <1>4, <1>5, <1>6, <1>7, <1>8, <1>9, <1>10, <1>11, <1>12, <1>13, <1>14 DEF Next
<1> QED BY <1>3, <1>15 DEF FilesAreTexts

(* A diff stays in hand until it is written or given up.                   *)
LEMMA DiffStep == TypeOK /\ FilesAreTexts /\ DiffInHand /\ [Next]_vars => DiffInHand'
<1> SUFFICES ASSUME CallOK, FilesAreTexts, DiffInHand, [Next]_vars PROVE DiffInHand'
  BY DEF TypeOK
<1> USE IdleFields
<1>1. CASE op'.tool # "diff"
  BY <1>1 DEF DiffInHand
<1>2. CASE UNCHANGED <<op, files, raced>>
  BY <1>2 DEF DiffInHand
<1>3. ASSUME NEW p \in Notes, NEW hunks \in Diffs, NEW expected \in BOOLEAN,
             VaultApplyUnifiedDiff(p, hunks, expected), op' # op
      PROVE DiffInHand'
  <2>1. /\ p \in DOMAIN files /\ UNCHANGED files /\ Accepts(Read(files[p]), hunks)
        /\ op' = [Idle EXCEPT !.tool = "diff", !.step = "temp", !.at = p,
                             !.read = Read(files[p]), !.new = Updated(Read(files[p]), hunks),
                             !.hunks = hunks, !.expected = expected]
    BY <1>3 DEF VaultApplyUnifiedDiff, Goes
  <2>2. /\ op'.step = "temp" /\ op'.at = p /\ op'.hunks = hunks
        /\ op'.read = Read(files[p]) /\ op'.new = Updated(Read(files[p]), hunks)
    BY <2>1
  <2>3. Read(files[p]) \in Text
    BY <2>1, ReadIsText DEF FilesAreTexts
  <2> QED BY <2>1, <2>2, <2>3 DEF DiffInHand
<1>4. CASE MakeTemp
  <2>1. op' = [op EXCEPT !.step = "replace"] /\ UNCHANGED <<files, raced>>
    BY <1>4 DEF MakeTemp, history
  <2>2. /\ op'.step = "replace" /\ op'.tool = op.tool /\ op'.at = op.at /\ op'.hunks = op.hunks
        /\ op'.read = op.read /\ op'.new = op.new
    BY <2>1 DEF CallOK
  <2> QED BY <2>1, <2>2 DEF DiffInHand
<1>5. ASSUME NEW p \in Resolved, (\E text \in Texts : EditorWrites(p, text)) \/ EditorRemoves(p)
      PROVE DiffInHand'
  <2>1. /\ UNCHANGED op /\ raced' = (raced \/ p \in {op.at, op.to})
        /\ DOMAIN files \ {p} \subseteq DOMAIN files'
    BY <1>5 DEF EditorWrites, EditorRemoves, Edit, Put, Without, Restrict
  <2> QED BY <2>1 DEF DiffInHand
<1>6. ASSUME NEW p \in Notes, Begins(p), op' # op,
             ~\E hunks \in Diffs, expected \in BOOLEAN : VaultApplyUnifiedDiff(p, hunks, expected)
      PROVE op'.tool # "diff"
  BY <1>6 DEF Begins, VaultCreateOverwriteFile, VaultBatchFrontmatterUpdate, VaultMove, VaultDelete, Goes
<1>7. ASSUME NEW p \in Notes, Begins(p), op' = op PROVE op'.tool # "diff"
  BY <1>7 DEF Begins, VaultApplyUnifiedDiff, VaultCreateOverwriteFile, VaultBatchFrontmatterUpdate,
              VaultMove, VaultDelete, Call
<1>8. ASSUME NEW p \in Notes, NextUpdate(p) PROVE op'.tool # "diff"
  BY <1>8 DEF NextUpdate, CallOK, DiffInHand
<1>9. BatchDone \/ Replace \/ WriteFails \/ Rename \/ RenameFails \/ Crash => op'.tool # "diff"
  BY DEF BatchDone, Replace, WriteFails, AfterWrite, Rename, RenameFails, Crash
<1>10. Tick \/ UNCHANGED vars => UNCHANGED <<op, files, raced>>
  BY DEF Tick, vars, history
<1>11. ASSUME NEW p \in Notes, VaultRead(p) PROVE UNCHANGED <<op, files, raced>>
  BY <1>11 DEF VaultRead, history
<1> QED BY <1>1, <1>2, <1>3, <1>4, <1>5, <1>6, <1>7, <1>8, <1>9, <1>10, <1>11 DEF Next, Begins

(* A call goes on with what it began with.                                 *)
LEMMA InHandStep == TypeOK /\ CallInHand /\ [Next]_vars => CallInHand'
<1> SUFFICES ASSUME TypeOK, CallOK, CallInHand, [Next]_vars PROVE CallInHand'
  BY DEF TypeOK
<1> USE IdleFields
<1>1. CASE op' = op /\ (raced => raced') /\ (~raced' => DOMAIN files \cap {op.at} \subseteq DOMAIN files')
  BY <1>1 DEF CallInHand
<1>2. CASE op'.step = "idle"
  BY <1>2 DEF CallInHand
<1>3. ASSUME NEW p \in Notes, Begins(p) PROVE CallInHand'
  <2>1. ASSUME NEW hunks \in Diffs, NEW expected \in BOOLEAN,
               VaultApplyUnifiedDiff(p, hunks, expected)
        PROVE CallInHand'
    <3>1. op' = op \/ (op'.step = "temp" /\ op'.tool = "diff")
      BY <2>1 DEF VaultApplyUnifiedDiff, Goes, Idle
    <3> QED BY <1>1, <2>1, <3>1 DEF VaultApplyUnifiedDiff, CallInHand
  <2>2. ASSUME NEW text \in Texts, VaultCreateOverwriteFile(p, text) PROVE CallInHand'
    BY <2>2 DEF VaultCreateOverwriteFile, Goes, Idle, CallInHand
  <2>3. ASSUME NEW q \in Notes, VaultBatchFrontmatterUpdate(p, q) PROVE CallInHand'
    BY <2>3 DEF VaultBatchFrontmatterUpdate, Goes, Idle, CallInHand
  <2>4. ASSUME NEW q \in Notes, VaultMove(p, q) PROVE CallInHand'
    BY <2>4 DEF VaultMove, Goes, Idle, CallInHand, Resolved
  <2>5. CASE VaultDelete(p)
    <3>1. InTrash(TrashPlace(p))
      BY TrashPlaces, <2>5 DEF VaultDelete, Call
    <3> QED BY <2>5, <3>1 DEF VaultDelete, Goes, Idle, CallInHand
  <2> QED BY <1>3, <2>1, <2>2, <2>3, <2>4, <2>5 DEF Begins
<1>4. ASSUME NEW p \in Notes, NextUpdate(p) PROVE CallInHand'
  <2>1. CASE p \in DOMAIN files
    <3>1. /\ op.step = "look" /\ UNCHANGED files
          /\ op' = [op EXCEPT !.step = "temp", !.at = p, !.left = Tail(@),
                              !.read = Read(files[p]), !.new = WithField(Read(files[p]))]
      BY <1>4, <2>1 DEF NextUpdate
    <3>2. /\ op'.step = "temp" /\ op'.at = p /\ op'.tool = op.tool
          /\ op'.read = Read(files[p]) /\ op'.new = WithField(Read(files[p]))
      BY <3>1 DEF CallOK
    <3> QED BY <2>1, <3>1, <3>2 DEF CallInHand
  <2>2. CASE p \notin DOMAIN files
    <3>1. op.step = "look" /\ op' = [op EXCEPT !.left = Tail(@)]
      BY <1>4, <2>2 DEF NextUpdate
    <3>2. op'.step = "look" /\ op'.tool = op.tool
      BY <3>1 DEF CallOK
    <3> QED BY <3>1, <3>2 DEF CallInHand
  <2> QED BY <2>1, <2>2
<1>5. CASE MakeTemp
  <2>1. op.step = "temp" /\ op' = [op EXCEPT !.step = "replace"] /\ UNCHANGED <<files, raced>>
    BY <1>5 DEF MakeTemp, history
  <2>2. /\ op'.step = "replace" /\ op'.tool = op.tool /\ op'.at = op.at
        /\ op'.read = op.read /\ op'.new = op.new
    BY <2>1 DEF CallOK
  <2> QED BY <2>1, <2>2 DEF CallInHand
<1>6. CASE op' = AfterWrite
  <2>1. op'.step = "idle" \/ (op'.step = "look" /\ op'.tool = "frontmatter")
    BY <1>6 DEF AfterWrite, Idle
  <2> QED BY <2>1 DEF CallInHand
<1>7. Replace \/ WriteFails => op' = AfterWrite
  BY DEF Replace, WriteFails
<1>8. BatchDone \/ Rename \/ RenameFails \/ Crash => op'.step = "idle"
  BY DEF BatchDone, Rename, RenameFails, Crash
<1>9. ASSUME NEW p \in Resolved, (\E text \in Texts : EditorWrites(p, text)) \/ EditorRemoves(p)
      PROVE CallInHand'
  <2>1. /\ UNCHANGED op /\ raced' = (raced \/ p \in {op.at, op.to})
        /\ DOMAIN files \ {p} \subseteq DOMAIN files'
    BY <1>9 DEF EditorWrites, EditorRemoves, Edit, Put, Without, Restrict
  <2> QED BY <1>1, <2>1
<1>10. Tick \/ UNCHANGED vars => UNCHANGED <<op, files, raced>>
  BY DEF Tick, vars, history
<1>11. ASSUME NEW p \in Notes, VaultRead(p) PROVE UNCHANGED <<op, files, raced>>
  BY <1>11 DEF VaultRead, history
<1> QED
  BY <1>1, <1>2, <1>3, <1>4, <1>5, <1>6, <1>7, <1>8, <1>9, <1>10, <1>11 DEF Next, Begins

(* What is recorded of a diff is what came of it.                          *)
LEMMA LastStep ==
  TypeOK /\ FilesAreTexts /\ ReadIsThere /\ DiffInHand /\ LastDiff /\ [Next]_vars => LastDiff'
<1> SUFFICES ASSUME CallOK, FilesAreTexts, ReadIsThere, DiffInHand, LastDiff, [Next]_vars
             PROVE LastDiff'
  BY DEF TypeOK
<1>1. CASE last' = NoDiff
  BY <1>1 DEF LastDiff
<1>2. CASE last' = last /\ (raced => raced')
  BY <1>2 DEF LastDiff
<1>3. ASSUME NEW p \in Notes, NEW hunks \in Diffs, NEW expected \in BOOLEAN,
             VaultApplyUnifiedDiff(p, hunks, expected)
      PROVE LastDiff'
  <2>1. CASE ~Accepts(Read(files[p]), hunks)
    <3>1. /\ last' = [NoDiff EXCEPT !.of = Read(files[p]), !.hunks = hunks, !.ok = FALSE]
          /\ p \in DOMAIN files
      BY <1>3, <2>1 DEF VaultApplyUnifiedDiff
    <3>2. last'.of = Read(files[p]) /\ last'.hunks = hunks /\ last'.ok = FALSE
      BY <3>1 DEF NoDiff
    <3>3. Read(files[p]) \in Text
      BY <3>1, ReadIsText DEF FilesAreTexts
    <3> QED BY <2>1, <3>2, <3>3 DEF LastDiff
  <2>2. CASE Accepts(Read(files[p]), hunks)
    BY <1>1, <1>3, <2>2 DEF VaultApplyUnifiedDiff, Goes
  <2> QED BY <2>1, <2>2
<1>4. CASE Replace /\ op.tool = "diff"
  <2> DEFINE of == IF op.at \in DOMAIN files THEN Read(files[op.at]) ELSE <<>>
  <2>1. UNCHANGED raced /\ op.step = "replace"
        /\ last' = [of |-> of, hunks |-> op.hunks, gave |-> op.new, ok |-> TRUE]
    BY <1>4 DEF Replace
  <2>2. /\ op.hunks \in Diffs /\ Accepts(op.read, op.hunks) /\ op.new = Updated(op.read, op.hunks)
        /\ ~raced => op.at \in DOMAIN files
    BY <1>4 DEF DiffInHand
  <2>3. of \in Text
    <3>1. <<>> \in Text
      BY EmptySeq DEF Text
    <3>2. op.at \in DOMAIN files => Read(files[op.at]) \in Text
      BY ReadIsText DEF FilesAreTexts
    <3> QED BY <3>1, <3>2, Zenon
  <2>4. ~raced => of = op.read
    BY <1>4, <2>1, <2>2 DEF ReadIsThere, Knows
  <2> HIDE DEF of
  <2>5. last'.of = of /\ last'.hunks = op.hunks /\ last'.gave = op.new /\ last'.ok = TRUE
    BY <2>1
  <2> QED BY <2>1, <2>2, <2>3, <2>4, <2>5 DEF LastDiff
<1>5. Replace /\ op.tool # "diff" => last' = last /\ raced' = raced
  BY DEF Replace
<1>6. ASSUME NEW p \in Notes, Begins(p),
             ~\E hunks \in Diffs, expected \in BOOLEAN : VaultApplyUnifiedDiff(p, hunks, expected)
      PROVE last' = NoDiff
  BY <1>6 DEF Begins, VaultCreateOverwriteFile, VaultBatchFrontmatterUpdate, VaultMove, VaultDelete, Goes
<1>7. ASSUME NEW p \in Notes, VaultRead(p) \/ NextUpdate(p) PROVE last' = last /\ raced' = raced
  BY <1>7 DEF VaultRead, NextUpdate, history
<1>8. BatchDone \/ MakeTemp \/ WriteFails \/ Rename \/ RenameFails \/ Crash \/ Tick \/ UNCHANGED vars =>
        last' = last /\ raced' = raced
  BY DEF BatchDone, MakeTemp, WriteFails, Rename, RenameFails, Crash, Tick, vars, history
<1>9. ASSUME NEW p \in Resolved, (\E text \in Texts : EditorWrites(p, text)) \/ EditorRemoves(p)
      PROVE last' = last /\ (raced => raced')
  BY <1>9 DEF EditorWrites, EditorRemoves, Edit
<1> QED BY <1>1, <1>2, <1>3, <1>4, <1>5, <1>6, <1>7, <1>8, <1>9 DEF Next, Begins

-----------------------------------------------------------------------------
(* The invariant is inductive.                                             *)
LEMMA Invariance == Spec => []IInv
<1>1. IInv /\ [Next]_vars => IInv'
  <2> SUFFICES ASSUME IInv, [Next]_vars PROVE IInv'
    OBVIOUS
  <2>1. /\ TypeOK /\ FilesAreTexts /\ DiffInHand /\ CallInHand /\ LastDiff
        /\ TempsCounted /\ ReadIsThere /\ StampsAreRecent /\ RenamesToNowhere
    BY DEF IInv
  <2>2. TypeOK'
    BY <2>1, CallStep, HistoryStep, FilesStep, TempsStep DEF TypeOK
  <2>3. TempsCounted' /\ ReadIsThere' /\ StampsAreRecent' /\ RenamesToNowhere'
    BY <2>1, TempsStep, ReadStep, StampsStep, NowhereStep
  <2>4. NothingIsLost'
    BY NothingStep
  <2>5. FilesAreTexts' /\ DiffInHand' /\ CallInHand' /\ LastDiff'
    BY <2>1, TextStep, DiffStep, InHandStep, LastStep
  <2> QED BY <2>2, <2>3, <2>4, <2>5 DEF IInv
<1> QED BY InitInv, <1>1, PTL DEF Spec

(* Every variable of the vault keeps its type, and every call under way is *)
(* for a note that tools may touch, never for one in the trash.            *)
THEOREM TypeCorrect == Spec => []TypeOK
<1>1. IInv => TypeOK
  BY DEF IInv
<1> QED BY Invariance, <1>1, PTL

(* For any number of notes, texts, diffs, calls and edits: a text that was *)
(* written is in a file or in the trash until somebody replaces it who     *)
(* knows it, unless an editor raced a call or two deletions shared a name  *)
(* and a second.                                                           *)
THEOREM NoTextIsLost == Spec => []NothingIsLost
<1>1. IInv => NothingIsLost
  BY DEF IInv
<1> QED BY Invariance, <1>1, PTL

(* Without a crash the only temporary file is the one that is being        *)
(* written: failed writes, in a batch or alone, leave none.                *)
THEOREM VaultIsTidy == Spec => []NoLitter
<1>1. IInv => NoLitter
  BY DEF IInv, TempsCounted, NoLitter
<1> QED BY Invariance, <1>1, PTL

(* For any texts, diffs, calls and edits: a plain diff with its hunks in   *)
(* order is accepted if and only if it fits what the note holds when it is *)
(* replaced, and what is written is what the diff means, wherever its      *)
(* hunks are and however many.                                             *)
THEOREM DiffsAreApplied == Spec => []PlainDiffIsApplied
<1>1. ASSUME LastDiff PROVE PlainDiffIsApplied
  <2> SUFFICES ASSUME last # NoDiff, ~raced, Plain(last.of, last.hunks), InOrder(last.hunks)
               PROVE  /\ last.ok <=> Fits(last.of, last.hunks)
                      /\ last.ok => Norm(Lines(last.gave)) = Meant(last.of, last.hunks)
    BY DEF PlainDiffIsApplied
  <2>1. last.of \in Text /\ last.hunks \in Seq(Hunks)
    BY <1>1, DiffAssumption DEF LastDiff
  <2>2. /\ Accepts(last.of, last.hunks) <=> Fits(last.of, last.hunks)
        /\ Accepts(last.of, last.hunks) =>
             Norm(Lines(Updated(last.of, last.hunks))) = Meant(last.of, last.hunks)
    BY <2>1, PlainDiffs
  <2> QED BY <1>1, <2>2 DEF LastDiff
<1>2. IInv => PlainDiffIsApplied
  BY <1>1 DEF IInv
<1> QED BY Invariance, <1>2, PTL

(* The steps that change files.                                            *)
LEMMA EffectStep ==
  ASSUME IInv, Next, files' # files, edits' = edits, ~raced, ~crowded
  PROVE  Effect /\ (op' = Idle \/ op'.step = "look")
<1>1. /\ ReadIsThere /\ RenamesToNowhere /\ DiffInHand /\ CallInHand
  BY DEF IInv
<1>2. CASE Replace
  <2>1. op.step = "replace" /\ files' = Put(files, op.at, op.new) /\ op' = AfterWrite
    BY <1>2 DEF Replace
  <2>2. op' = Idle \/ op'.step = "look"
    BY <2>1 DEF AfterWrite, Idle
  <2>3. CASE op.tool = "create"
    BY <2>1, <2>2, <2>3 DEF Effect
  <2>4. CASE op.tool = "frontmatter"
    <3>1. op.at \in DOMAIN files /\ op.new = WithField(op.read)
      BY <1>1, <2>1, <2>4 DEF CallInHand
    <3>2. op.read = Read(files[op.at])
      BY <1>1, <2>1, <2>4, <3>1 DEF ReadIsThere, Knows
    <3> QED BY <2>1, <2>2, <2>4, <3>1, <3>2 DEF Effect
  <2>5. CASE op.tool = "diff"
    <3>1. /\ op.at \in DOMAIN files /\ Accepts(op.read, op.hunks)
          /\ op.new = Updated(op.read, op.hunks)
      BY <1>1, <2>5 DEF DiffInHand
    <3>2. op.read = Read(files[op.at]) /\ (op.expected => seen = op.read)
      BY <1>1, <2>1, <2>5, <3>1 DEF ReadIsThere, Knows
    <3> QED BY <2>1, <2>2, <2>5, <3>1, <3>2 DEF Effect
  <2> QED BY <1>1, <2>1, <2>3, <2>4, <2>5 DEF CallInHand
<1>3. CASE Rename
  BY <1>1, <1>3 DEF Rename, CallInHand, RenamesToNowhere, Effect
<1>4. ASSUME NEW p \in Notes, VaultRead(p) \/ Begins(p) \/ NextUpdate(p)
      PROVE files' = files
  BY <1>4 DEF VaultRead, Begins, VaultApplyUnifiedDiff, VaultCreateOverwriteFile,
              VaultBatchFrontmatterUpdate, VaultMove, VaultDelete, NextUpdate
<1>5. BatchDone \/ MakeTemp \/ WriteFails \/ RenameFails \/ Crash \/ Tick => files' = files
  BY DEF BatchDone, MakeTemp, WriteFails, RenameFails, Crash, Tick
<1>6. ASSUME NEW p \in Resolved, (\E text \in Texts : EditorWrites(p, text)) \/ EditorRemoves(p)
      PROVE edits' # edits
  <2>1. edits \in Nat
    BY BoundAssumption DEF IInv, TypeOK, HistoryOK
  <2> QED BY <1>6, <2>1 DEF EditorWrites, EditorRemoves, Edit
<1> QED BY <1>2, <1>3, <1>4, <1>5, <1>6 DEF Next, Begins

(* For any notes, texts, diffs, calls and edits: what a call does to the   *)
(* vault it does in one step, to the vault as it is then.                  *)
THEOREM CallsTakeEffectAtOnce == Spec => CallsAreAtomic
<1>1. IInv /\ [Next]_vars =>
        [files' # files /\ edits' = edits /\ ~raced /\ ~crowded =>
           Effect /\ (op' = Idle \/ op'.step = "look")]_vars
  BY EffectStep
<1> QED BY Invariance, <1>1, PTL DEF Spec, CallsAreAtomic
=============================================================================
