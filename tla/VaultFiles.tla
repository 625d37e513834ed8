----------------------------- MODULE VaultFiles ------------------------------
(***************************************************************************)
(* The tools of the vault server that change notes, next to the editors    *)
(* that change the same files at any time.  The server runs one tool call  *)
(* at a time, in its event loop; what a call looked at may have changed by *)
(* the time it acts.                                                       *)
(*                                                                         *)
(* A place is a directory, a name and a stamp: 0, but for names in the     *)
(* trash that a time was added to.  The hash of a text is the text.        *)
(***************************************************************************)
EXTENDS UnifiedDiff, Functions

CONSTANTS
  Notes,       \* places that tools and editors name
  Texts,       \* what editors and clients write
  Diffs,       \* sequences of hunks
  MaxCalls,    \* bound: calls that change files
  MaxEdits,    \* bound: changes by editors
  MaxTime      \* bound: the clock, in seconds

(* The line of the frontmatter that an update writes.                      *)
Field == <<"f", "lf">>

ASSUME BoundAssumption == {MaxCalls, MaxEdits} \subseteq Nat /\ MaxTime \in Nat \ {0}
ASSUME NotesAssumption ==
  \A p \in Notes : p = [dir |-> p.dir, name |-> p.name, stamp |-> 0]
ASSUME TextAssumption == Texts \subseteq Seq(Chars) /\ Field \in Seq(Chars)
ASSUME DiffAssumption == Diffs \subseteq Seq(Hunks)

VARIABLES
  files,       \* the text at each place where there is a file
  temps,       \* temporary files in the vault
  op,          \* the tool call under way
  seen,        \* the text whose hash the client last got
  clock,
  calls, edits, \* counts
  (* History.                                                              *)
  owed,        \* texts nobody has replaced knowingly
  stamped,     \* names that a stamp was added to in this second
  crowded,     \* and one of them twice
  trashed,     \* texts of the files that were reported deleted
  raced,       \* an editor changed what a call was at work on
  crashed,     \* the server was stopped in the middle of a call
  last         \* the last diff: of what text, and what came of it

counts == <<clock, calls, edits>>
history == <<owed, stamped, crowded, trashed, raced, crashed, last>>
vars == <<files, temps, op, seen, counts, history>>

-----------------------------------------------------------------------------
Trash == ".trash"
InTrash(place) == place.dir = Trash

(* resolve_vault_path: tools do not touch directories that begin with a    *)
(* dot, the trash least of all.                                            *)
Resolved == {p \in Notes : ~InTrash(p)}

Names == {p.name : p \in Notes}
Places == Notes \cup [dir : {Trash}, name : Names, stamp : 0..MaxTime]

(* Mutant of TrashPlace: the note gets its name in its own directory.      *)
StampedBeside(p) == [p EXCEPT !.stamp = clock]

(* Mutant of TrashPlace: a name in the trash is taken over.                *)
TakenOver(p) == [p EXCEPT !.dir = Trash]

(* delete_path: if the name is taken, the time in seconds is added to it,  *)
(* whether or not that name is taken too.                                  *)
TrashPlace(p) ==
  LET plain == [p EXCEPT !.dir = Trash] IN
  IF plain \in DOMAIN files THEN [plain EXCEPT !.stamp = clock] ELSE plain

-----------------------------------------------------------------------------
Put(fs, p, text) == [q \in DOMAIN fs \cup {p} |-> IF q = p THEN text ELSE fs[q]]
Without(fs, p) == Restrict(fs, DOMAIN fs \ {p})

NoText == <<"none">>
Nowhere == [dir |-> Trash, name |-> "", stamp |-> 0]
Idle == [tool |-> "none", step |-> "idle", at |-> Nowhere, to |-> Nowhere,
         read |-> NoText, new |-> NoText, hunks |-> <<>>, expected |-> FALSE, left |-> <<>>]
NoDiff == [of |-> NoText, hunks |-> <<>>, gave |-> NoText, ok |-> TRUE]
Tools == {"none", "diff", "create", "frontmatter", "move", "delete"}

CallOK ==
  /\ DOMAIN op = DOMAIN Idle
  /\ op.tool \in Tools /\ op.step \in {"idle", "look", "temp", "replace", "rename"}
  /\ op.step = "idle" <=> op = Idle
  /\ op.step \in {"temp", "replace", "rename"} => op.at \in Resolved
  /\ op.step = "rename" => op.to \in Places
  /\ op.left \in Seq(Resolved)

HistoryOK ==
  /\ clock \in 1..MaxTime /\ calls \in 0..MaxCalls /\ edits \in 0..MaxEdits
  /\ stamped \subseteq Names
  /\ crowded \in BOOLEAN /\ raced \in BOOLEAN /\ crashed \in BOOLEAN

TypeOK ==
  /\ DOMAIN files \subseteq Places
  /\ temps \in 0..2
  /\ CallOK /\ HistoryOK

Init ==
  /\ \E P \in SUBSET Notes : files \in [P -> Texts]
  /\ temps = 0 /\ op = Idle
  /\ seen = NoText
  /\ clock = 1 /\ calls = 0 /\ edits = 0
  /\ owed = Range(files) /\ trashed = {}
  /\ stamped = {} /\ crowded = FALSE
  /\ raced = FALSE /\ crashed = FALSE
  /\ last = NoDiff

-----------------------------------------------------------------------------
(* Tool calls.  A call that is refused changes nothing, and is left out,   *)
(* but for diffs.                                                          *)

Call(p) == op = Idle /\ p \in Resolved /\ calls < MaxCalls /\ calls' = calls + 1
Goes(next) == op' = next /\ last' = NoDiff

(* vault_read, vault_batch_read: the client keeps the text, or its hash.   *)
VaultRead(p) ==
  /\ op = Idle /\ p \in Resolved \cap DOMAIN files
  /\ seen' = Read(files[p])
  /\ UNCHANGED <<files, temps, op, counts, history>>

(* vault_apply_unified_diff, up to write_file_atomic; with expected_hash,  *)
(* the text must be the one the client saw.                                *)
VaultApplyUnifiedDiff(p, hunks, expected) ==
  /\ Call(p) /\ p \in DOMAIN files
  /\ LET content == Read(files[p])
         new == Updated(content, hunks) IN
     /\ expected => seen = content
     /\ \/ /\ ~Accepts(content, hunks)
           /\ last' = [NoDiff EXCEPT !.of = content, !.hunks = hunks, !.ok = FALSE] /\ op' = op
        \/ /\ Accepts(content, hunks) /\ new # content
           /\ Goes([Idle EXCEPT !.tool = "diff", !.step = "temp", !.at = p,
                                !.read = content, !.new = new, !.hunks = hunks,
                                !.expected = expected])
  /\ UNCHANGED <<files, temps, seen, clock, edits, owed, stamped, crowded, trashed, raced, crashed>>

(* vault_create_overwrite_file.                                            *)
VaultCreateOverwriteFile(p, text) ==
  /\ Call(p)
  /\ Goes([Idle EXCEPT !.tool = "create", !.step = "temp", !.at = p, !.new = text])
  /\ UNCHANGED <<files, temps, seen, clock, edits, owed, stamped, crowded, trashed, raced, crashed>>

(* vault_batch_frontmatter_update: one note after the other.               *)
VaultBatchFrontmatterUpdate(p, q) ==
  /\ Call(p) /\ q \in Resolved \ {p}
  /\ Goes([Idle EXCEPT !.tool = "frontmatter", !.step = "look", !.left = <<p, q>>])
  /\ UNCHANGED <<files, temps, seen, clock, edits, owed, stamped, crowded, trashed, raced, crashed>>

(* The frontmatter is serialized anew, and the body with one line end or   *)
(* none, as it had before.                                                 *)
WithField(content) ==
  LET body == IF IsPrefix(Field, content) THEN SubSeq(content, 3, Len(content)) ELSE content IN
  Field \o body

(* The next note of the batch; a note that is missing is passed over.      *)
NextUpdate(p) ==
  /\ op.step = "look" /\ op.left # <<>> /\ p = Head(op.left)
  /\ IF p \in DOMAIN files
     THEN op' = [op EXCEPT !.step = "temp", !.at = p, !.left = Tail(@),
                           !.read = Read(files[p]), !.new = WithField(Read(files[p]))]
     ELSE op' = [op EXCEPT !.left = Tail(@)]
  /\ UNCHANGED <<files, temps, seen, counts, history>>

BatchDone ==
  /\ op.step = "look" /\ op.left = <<>>
  /\ op' = Idle
  /\ UNCHANGED <<files, temps, seen, counts, history>>

AfterWrite ==
  IF op.tool = "frontmatter" THEN [Idle EXCEPT !.tool = op.tool, !.step = "look", !.left = op.left]
  ELSE Idle

-----------------------------------------------------------------------------
(* write_file_atomic: a temporary file, then a rename over the note.       *)

MakeTemp ==
  /\ op.step = "temp"
  /\ temps' = temps + 1
  /\ op' = [op EXCEPT !.step = "replace"]
  /\ UNCHANGED <<files, seen, counts, history>>

(* A call that knows what it replaces: it was told to replace anything, or *)
(* has read what is there, as has the client if it gave a hash.            *)
Knows(content) == op.tool = "create" \/ (op.read = content /\ (op.expected => seen = content))

Replace ==
  /\ op.step = "replace"
  /\ files' = Put(files, op.at, op.new)
  /\ temps' = temps - 1
  /\ owed' = {op.new} \cup
       (owed \ IF op.at \in DOMAIN files /\ Knows(Read(files[op.at])) THEN {files[op.at]} ELSE {})
  /\ last' = IF op.tool # "diff" THEN last
             ELSE [of |-> IF op.at \in DOMAIN files THEN Read(files[op.at]) ELSE <<>>,
                   hunks |-> op.hunks, gave |-> op.new, ok |-> TRUE]
  /\ op' = AfterWrite
  /\ UNCHANGED <<seen, counts, stamped, crowded, trashed, raced, crashed>>

(* Mutant of WriteFails: the temporary file is left.                       *)
WriteFailsUntidily ==
  /\ op.step \in {"temp", "replace"}
  /\ op' = AfterWrite
  /\ UNCHANGED <<files, temps, seen, counts, history>>

(* Too large, the directory is gone, the disk is full; the batch goes on.  *)
WriteFails ==
  /\ op.step \in {"temp", "replace"}
  /\ temps' = IF op.step = "replace" THEN temps - 1 ELSE temps
  /\ op' = AfterWrite
  /\ UNCHANGED <<files, seen, counts, history>>

-----------------------------------------------------------------------------
(* move_path and delete_path: a check, then a rename, which replaces what  *)
(* is at the destination by then.                                          *)

VaultMove(p, q) ==
  /\ Call(p) /\ q \in Resolved
  /\ p \in DOMAIN files /\ q \notin DOMAIN files
  /\ Goes([Idle EXCEPT !.tool = "move", !.step = "rename", !.at = p, !.to = q])
  /\ UNCHANGED <<files, temps, seen, clock, edits, owed, stamped, crowded, trashed, raced, crashed>>

VaultDelete(p) ==
  /\ Call(p) /\ p \in DOMAIN files
  /\ Goes([Idle EXCEPT !.tool = "delete", !.step = "rename", !.at = p, !.to = TrashPlace(p)])
  /\ LET taken == [p EXCEPT !.dir = Trash] \in DOMAIN files IN
     /\ stamped' = IF taken THEN stamped \cup {p.name} ELSE stamped
     /\ crowded' = (crowded \/ (taken /\ p.name \in stamped))
  /\ UNCHANGED <<files, temps, seen, clock, edits, owed, trashed, raced, crashed>>

Rename ==
  /\ op.step = "rename" /\ op.at \in DOMAIN files
  /\ files' = Put(Without(files, op.at), op.to, files[op.at])
  /\ trashed' = IF op.tool = "delete" THEN trashed \cup {files[op.at]} ELSE trashed
  /\ op' = Idle
  /\ UNCHANGED <<temps, seen, counts, owed, stamped, crowded, raced, crashed, last>>

RenameFails ==
  /\ op.step = "rename"
  /\ op' = Idle
  /\ UNCHANGED <<files, temps, seen, counts, history>>

-----------------------------------------------------------------------------
(* The server is stopped and starts anew: only a temporary file can stay.  *)
Crash ==
  /\ op # Idle /\ ~crashed
  /\ op' = Idle /\ crashed' = TRUE
  /\ UNCHANGED <<files, temps, seen, counts, owed, stamped, crowded, trashed, raced, last>>

(* Editors, at any time.                                                   *)
Edit(p) ==
  /\ edits < MaxEdits /\ edits' = edits + 1
  /\ raced' = (raced \/ p \in {op.at, op.to})
  /\ UNCHANGED <<temps, op, seen, clock, calls, stamped, crowded, trashed, crashed, last>>
Was(p) == IF p \in DOMAIN files THEN {files[p]} ELSE {}

EditorWrites(p, text) ==
  /\ Edit(p)
  /\ files' = Put(files, p, text)
  /\ owed' = (owed \ Was(p)) \cup {text}

EditorRemoves(p) ==
  /\ Edit(p) /\ p \in DOMAIN files
  /\ files' = Without(files, p)
  /\ owed' = owed \ Was(p)

Tick ==
  /\ clock < MaxTime /\ clock' = clock + 1
  /\ stamped' = {}
  /\ UNCHANGED <<files, temps, op, seen, calls, edits, owed, crowded, trashed, raced, crashed, last>>

Next ==
  \/ \E p \in Notes :
       \/ VaultRead(p)
       \/ \E hunks \in Diffs, expected \in BOOLEAN : VaultApplyUnifiedDiff(p, hunks, expected)
       \/ \E text \in Texts : VaultCreateOverwriteFile(p, text)
       \/ \E q \in Notes : VaultBatchFrontmatterUpdate(p, q) \/ VaultMove(p, q)
       \/ VaultDelete(p)
       \/ NextUpdate(p)
  \/ BatchDone
  \/ MakeTemp \/ Replace \/ WriteFails
  \/ Rename \/ RenameFails
  \/ Crash
  \/ \E p \in Resolved : (\E text \in Texts : EditorWrites(p, text)) \/ EditorRemoves(p)
  \/ Tick

Spec == Init /\ [][Next]_vars

-----------------------------------------------------------------------------
(* Properties.                                                             *)

(* A diff is accepted if and only if it fits the text, and makes of it what *)
(* it means, as the text was when it was replaced and not only when it was *)
(* read: lines the diff does not name keep their place, whatever hunks     *)
(* come before, and a diff whose lines are elsewhere changes none.         *)
PlainDiffIsApplied ==
  LET of == last.of IN
  last # NoDiff /\ ~raced /\ Plain(of, last.hunks) /\ InOrder(last.hunks) =>
    /\ last.ok <=> Fits(of, last.hunks)
    /\ last.ok => Norm(Lines(last.gave)) = Meant(of, last.hunks)

(* Nothing is lost: a text that was written is in a file or in the trash   *)
(* until an editor, or a call that has read it or was told to replace      *)
(* anything, replaces it.  Unless an editor changes a note while a call is *)
(* at work on it, or a name gets a stamp twice in a second.                *)
NothingIsLost ==
  ~raced /\ ~crowded => owed \subseteq Range(files)

(* Calls that fail leave no temporary file in the vault.                   *)
NoLitter == ~crashed => temps = IF op.step = "replace" THEN 1 ELSE 0

(* What the call under way is to do, had it the vault as it is to itself.  *)
Effect ==
  \/ op.tool = "create" /\ files' = Put(files, op.at, op.new)
  \/ /\ op.tool \in {"diff", "frontmatter"} /\ op.at \in DOMAIN files
     /\ LET content == Read(files[op.at]) IN
        \/ /\ op.tool = "diff" /\ Accepts(content, op.hunks)
           /\ op.expected => seen = content
           /\ files' = Put(files, op.at, Updated(content, op.hunks))
        \/ /\ op.tool = "frontmatter"
           /\ files' = Put(files, op.at, WithField(content))
  \/ /\ op.tool \in {"move", "delete"} /\ op.tool = "delete" <=> InTrash(op.to)
     /\ op.at \in DOMAIN files /\ op.to \notin DOMAIN files
     /\ files' = Put(Without(files, op.at), op.to, files[op.at])

(* Calls are atomic.  However long ago a call read, compared a hash or     *)
(* looked whether a name is free, it changes the vault in one step as if   *)
(* it did all of that now, and then goes on to the next note of its batch  *)
(* or is over; unless an editor changed its note meanwhile or a stamp was  *)
(* given twice.                                                            *)
CallsAreAtomic ==
  [][files' # files /\ edits' = edits /\ ~raced /\ ~crowded =>
       Effect /\ (op' = Idle \/ op'.step = "look")]_vars

(* What tests and documentation say.                                       *)

(* A diff that fits is applied.                                            *)
DiffIsApplied ==
  LET of == last.of IN
  last # NoDiff /\ ~raced /\ Fits(of, last.hunks) =>
    last.ok /\ Norm(Lines(last.gave)) = Meant(of, last.hunks)

(* Files are moved to the trash, not hard deleted.                         *)
NotHardDeleted == trashed \subseteq Range(files)
=============================================================================
