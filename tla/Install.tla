------------------------------- MODULE Install -------------------------------
(***************************************************************************)
(* memriver install and the configuration half of memriver uninstall: one  *)
(* command plans its edits of several harnesses' files, shows them, asks    *)
(* about each, and writes the accepted ones as a transaction with backups   *)
(* and a rollback (install/__init__.py), while the user and other programs  *)
(* edit, replace, link and delete the same files.  A step that reads or     *)
(* writes one file is one action; the command may be interrupted or killed  *)
(* between any two.                                                         *)
(***************************************************************************)
EXTENDS Editors, TLC

CONSTANTS
    Selections,      \* the harnesses one command may name, each in HARNESSES' order
    Found,           \* what may stand at the paths before the first command
    DisabledByEnv,   \* CLAUDE_CODE_DISABLE_AUTO_MEMORY is "1" in the environment
    MaxEdits,        \* bound: edits by others
    MaxDeclined,     \* bound: changes of one run the user declines, where Install is run by itself
    MaxRuns          \* bound: commands run, where Install is run by itself

VARIABLES
    files,      \* files[p]: what stands at path p
    dirs,       \* dirs[p]: p's parent directory: "none", "theirs", "ours" (this run made it)
    backups,    \* every backup file ever written
    run,        \* the command under way
    others      \* what others did: their edits, and the paths they touched

installVars == <<files, dirs, backups, run, others>>
-----------------------------------------------------------------------------
(* The harnesses: targets(), operations() and their removal, for each *)

ClaudeCodeTargets == <<"claude.json", "settings.json">>
CodexTargets == <<"config.toml", "hooks.json">>
CursorTargets == <<"cursor/mcp.json", "AGENTS.md">>
KiroTargets == <<"kiro/mcp.json", "memriver.md">>

\* memriver's own file, deleted when nothing is left in it.
DeleteIfEmptied(p) == p = "memriver.md"

Op(p, key, kind) == [path |-> p, key |-> key, kind |-> kind]
HookOps(p, events) == {Op(p, event, "hook-array") : event \in events}
ProtocolOps(targets) ==
    {Op(targets[1], "mcp", "json-object"), Op(targets[2], "block", "marker-block")}

SessionEvents == {"SessionStart", "Stop", "UserPromptSubmit", "SessionEnd"}
ClaudeCodeOperations ==
    {Op(ClaudeCodeTargets[1], "mcp", "json-object")}
        \cup HookOps(ClaudeCodeTargets[2], SessionEvents \cup {"PreToolUse"})
CodexOperations ==
    {Op(CodexTargets[1], "mcp", "toml-table")} \cup HookOps(CodexTargets[2], SessionEvents)
CursorOperations == ProtocolOps(CursorTargets)
KiroOperations == ProtocolOps(KiroTargets)

HARNESSES ==
    [claude |-> [targets |-> ClaudeCodeTargets, operations |-> ClaudeCodeOperations],
     codex |-> [targets |-> CodexTargets, operations |-> CodexOperations],
     cursor |-> [targets |-> CursorTargets, operations |-> CursorOperations],
     kiro |-> [targets |-> KiroTargets, operations |-> KiroOperations]]

TargetsOf(h) == HARNESSES[h].targets
OwnOperations(h) == HARNESSES[h].operations

\* The targets of one harness after another; each has two.
TargetPaths(harnesses) ==
    [i \in 1..2 * Len(harnesses) |-> TargetsOf(harnesses[(i + 1) \div 2])[2 - (i % 2)]]
Paths == UNION {ToSet(TargetPaths(harnesses)) : harnesses \in Selections}

\* The harness's own memory: offered to be switched off, never back on.
NativeSwitch == [claude |-> Op("settings.json", "native", "setting"),
                 codex |-> Op("config.toml", "native", "setting")]
NativeMemory(h) == IF h \in DOMAIN NativeSwitch THEN {NativeSwitch[h]} ELSE {}
OffersDisablingAutoMemory(t) == ~DisabledByEnv /\ t # <<"disabled">>
MemoriesEnabled(t) == t = <<"on">>
OffersNative(h, t) == IF h = "codex" THEN MemoriesEnabled(t) ELSE OffersDisablingAutoMemory(t)

AllOperations == UNION {OwnOperations(h) \cup NativeMemory(h) :
                           h \in UNION {ToSet(harnesses) : harnesses \in Selections}}
KeysOf(p) == {op.key : op \in {o \in AllOperations : o.path = p}}

Absent(p) == [is |-> "absent", text |-> [k \in KeysOf(p) |-> <<>>], user |-> {}, mode |-> "none"]

\* What may stand at p: nothing, or a file of somebody's with some text.
Standing(p, f) ==
    \/ f = Absent(p)
    \/ /\ f = [is |-> f.is, text |-> f.text, user |-> f.user, mode |-> f.mode]
       /\ f.is \in {"file", "link", "garbled"} /\ f.mode # "none"

\* The one file that is TOML; its parsers and those of JSON reject any other text.
IsToml(p) == p = CodexTargets[1]
Readable(p, key, t) ==
    CASE key = "native" -> TRUE
      [] key = "block" -> IsText(t)
      [] key = "mcp" -> IsText(t) /\ IF IsToml(p) THEN WellFormedToml(t) ELSE WellFormedJson(t)
      [] OTHER -> IsText(t) /\ \A group \in ToSet(t) : IsText(group)

ASSUME SelectionsAssumption == Selections \subseteq Seq(DOMAIN HARNESSES)
\* No edit of anybody's is counted before the first command.
ASSUME FoundAssumption ==
    \A found \in Found :
        /\ DOMAIN found = Paths
        /\ \A p \in Paths :
              /\ Standing(p, found[p]) /\ found[p].user = {}
              /\ \A key \in KeysOf(p) : Readable(p, key, found[p].text[key])

Operations(command, harnesses, snap) ==
    (UNION {OwnOperations(h) : h \in ToSet(harnesses)})
        \cup (IF command = "uninstall" THEN {} ELSE
              UNION {{op \in NativeMemory(h) : OffersNative(h, snap[op.path].text["native"])} :
                        h \in ToSet(harnesses)})

Edit(command, op, snap) ==
    LET t == snap[op.path].text[op.key] IN
    IF command = "uninstall" THEN ApplyRemoval(op.kind, t) ELSE ApplyEdit(op.kind, t)

\* The text of p once the given operations are applied to what was read.
RenderedText(command, ops, snap, p) ==
    [k \in KeysOf(p) |->
        LET mine == {op \in ops : op.path = p /\ op.key = k} IN
        IF mine = {} THEN snap[p].text[k]
        ELSE Edit(command, CHOOSE op \in mine : TRUE, snap)]
-----------------------------------------------------------------------------
(* Planning and consent *)

NoRun == [pc |-> "idle", number |-> 0, command |-> "none", harnesses |-> <<>>, snap |-> <<>>, changes |-> {},
          accepted |-> {}, pending |-> {}, backup |-> <<>>, writes |-> <<>>,
          left |-> {}, missed |-> {}]
Ended == {"done", "failed", "refused", "killed"}

InstallInit ==
    /\ files \in Found
    /\ dirs = [p \in Paths |-> IF files[p].is = "absent" THEN "none" ELSE "theirs"]
    /\ backups = {}
    /\ run = NoRun
    /\ others = [count |-> 0, edits |-> {}, late |-> {}, exposed |-> {}, touched |-> {},
                 ever |-> {}, first |-> files]

\* _plan: read every target, refuse a link, a file its parser rejects or an
\* ambiguous text, and find the
\* operations that would change something.  Nothing is written.
PlanRun(command, harnesses) ==
    LET ops == Operations(command, harnesses, files)
        targets == ToSet(TargetPaths(harnesses))
        changes == {op \in ops : Edit(command, op, files) # files[op.path].text[op.key]}
    IN  /\ run' = [NoRun EXCEPT !.number = run.number + 1, !.command = command, !.harnesses = harnesses,
                      !.snap = [p \in targets |-> files[p]], !.changes = changes,
                      !.pc = IF \/ \E p \in targets : files[p].is \in {"link", "garbled"}
                                \/ \E op \in changes : Edit(command, op, files) = Refused
                             THEN "refused" ELSE "asking"]
        /\ dirs' = [p \in Paths |-> IF dirs[p] = "ours" THEN "theirs" ELSE dirs[p]]
        /\ others' = [others EXCEPT !.touched = {}]
        /\ UNCHANGED <<files, backups>>

\* One answer for each change; what was accepted is rendered anew.
Pending(accepted) ==
    {p \in ToSet(TargetPaths(run.harnesses)) :
        RenderedText(run.command, accepted, run.snap, p) # run.snap[p].text}

Confirm(accepted, next) ==
    /\ run.pc = "asking"
    /\ accepted \subseteq run.changes
    /\ run' = [run EXCEPT !.pc = next, !.accepted = accepted, !.pending = Pending(accepted)]
    /\ UNCHANGED <<files, dirs, backups, others>>
-----------------------------------------------------------------------------
(* The write transaction: _write_target for each pending file, in order *)

Target ==
    LET order == TargetPaths(run.harnesses)
    IN  order[Min({i \in DOMAIN order : order[i] \in run.pending})]
NewText == RenderedText(run.command, run.accepted, run.snap, Target)
Existed(p) == run.snap[p].mode # "none"
Deleting(p) ==
    /\ DeleteIfEmptied(p) /\ Existed(p) /\ run.snap[p].user = {}
    /\ \A k \in KeysOf(p) : NewText[k] = <<>>

\* A directory this run made goes again while it is empty.
RemoveCreatedDirs(p, now) ==
    IF dirs[p] = "ours" /\ now[p].is = "absent" THEN [dirs EXCEPT ![p] = "none"] ELSE dirs

Finish ==
    /\ run.pc = "checking" /\ run.pending = {}
    /\ run' = [run EXCEPT !.pc = "done"]
    /\ UNCHANGED <<files, dirs, backups, others>>

\* Mutant: planning's reading of the file is trusted.
CheckNothing ==
    /\ run.pc = "checking" /\ run.pending # {}
    /\ run' = [run EXCEPT !.pc = "preparing"]
    /\ UNCHANGED <<files, dirs, backups, others>>

\* The file is read again and must be what planning read, never a link.
CheckUnchanged ==
    /\ run.pc = "checking" /\ run.pending # {}
    /\ run' = [run EXCEPT !.pc = IF files[Target] = run.snap[Target] THEN "preparing"
                                 ELSE "rolling"]
    /\ UNCHANGED <<files, dirs, backups, others>>

\* Missing parents are made and the pre-image is copied, as it is by now.
Prepare ==
    /\ run.pc = "preparing"
    /\ IF Existed(Target) /\ files[Target].is = "absent"
       THEN /\ run' = [run EXCEPT !.pc = "rolling"]
            /\ UNCHANGED <<dirs, backups>>
       ELSE /\ dirs' = IF dirs[Target] = "none" THEN [dirs EXCEPT ![Target] = "ours"] ELSE dirs
            /\ run' = [run EXCEPT !.pc = "replacing",
                          !.backup = IF Existed(Target) THEN files[Target] ELSE Absent(Target)]
            /\ backups' = IF Existed(Target)
                          THEN backups \cup {[path |-> Target, file |-> files[Target]]}
                          ELSE backups
    /\ UNCHANGED <<files, others>>

WriteEntry(written) ==
    [path |-> Target, backup |-> run.backup, written |-> written]

Written ==
    [is |-> "file", text |-> NewText, user |-> run.snap[Target].user,
     mode |-> IF Existed(Target) THEN run.snap[Target].mode ELSE "own"]

\* The atomic replacement has landed; it is in the ledger one step later.
Replace ==
    /\ run.pc = "replacing" /\ ~Deleting(Target)
    /\ files' = [files EXCEPT ![Target] = Written]
    /\ run' = [run EXCEPT !.pc = "landed"]
    /\ UNCHANGED <<dirs, backups, others>>

Record ==
    /\ run.pc = "landed"
    /\ run' = [run EXCEPT !.pc = "checking", !.pending = @ \ {Target},
                          !.writes = Append(@, WriteEntry(Written))]
    /\ UNCHANGED <<files, dirs, backups, others>>

\* Mutant: the deletion is recorded once it has happened, like a rewrite.
UnlinkThenRecord ==
    /\ run.pc = "replacing" /\ Deleting(Target) /\ files[Target].is # "absent"
    /\ files' = [files EXCEPT ![Target] = Absent(Target)]
    /\ \/ run' = [run EXCEPT !.pc = "checking", !.pending = @ \ {Target},
                             !.writes = Append(@, WriteEntry(Absent(Target)))]
       \/ run' = [run EXCEPT !.pc = "rolling"]
    /\ UNCHANGED <<dirs, backups, others>>

\* A deletion is in the ledger before the file goes.
Unlink ==
    /\ run.pc = "replacing" /\ Deleting(Target)
    /\ \/ /\ files[Target].is # "absent"
          /\ files' = [files EXCEPT ![Target] = Absent(Target)]
          /\ run' = [run EXCEPT !.pc = "checking", !.pending = @ \ {Target},
                                !.writes = Append(@, WriteEntry(Absent(Target)))]
       \/ /\ run' = [run EXCEPT !.pc = "rolling",
                                !.writes = Append(@, WriteEntry(Absent(Target)))]
          /\ UNCHANGED files
    /\ UNCHANGED <<dirs, backups, others>>

\* An I/O error, or Ctrl-C, before the write at hand is in the ledger.
Fail ==
    /\ run.pc \in {"checking", "preparing", "replacing", "landed"} /\ run.pending # {}
    /\ dirs' = RemoveCreatedDirs(Target, files)
    /\ run' = [run EXCEPT !.pc = "rolling",
                          !.missed = IF run.pc = "landed" THEN {Target} ELSE {}]
    /\ UNCHANGED <<files, backups, others>>

\* Rollback gives the newest write up: the file stays as it is, and is reported.
Leave ==
    /\ run' = [run EXCEPT !.pc = "rolling", !.writes = Front(@), !.left = @ \cup {Last(run.writes).path}]
    /\ UNCHANGED <<files, dirs, backups, others>>

BeforeWrite(write) ==
    IF write.backup.is = "absent" THEN Absent(write.path) ELSE [write.backup EXCEPT !.is = "file"]

\* _roll_back, newest write first, looks at the file: what the run wrote is to be
\* undone; a deletion that never happened, and a new file that is gone, need
\* nothing; anything else, or a check that fails, is left.
CheckWritten ==
    /\ run.pc = "rolling" /\ run.writes # <<>>
    /\ LET write == Last(run.writes)
           p == write.path
           needless == write.backup.is = "absent" \/ write.written.is = "absent"
       IN  \/ /\ files[p] = write.written
              /\ run' = [run EXCEPT !.pc = "restoring"]
              /\ UNCHANGED <<files, dirs, backups, others>>
           \/ /\ files[p] # write.written /\ needless /\ files[p] = BeforeWrite(write)
              /\ run' = [run EXCEPT !.writes = Front(@)]
              /\ dirs' = RemoveCreatedDirs(p, files)
              /\ UNCHANGED <<files, backups, others>>
           \/ Leave

\* Then it puts the backup back, or removes what the run created, over whatever
\* stands there by now and with no backup of it; or that fails.
Restore ==
    /\ run.pc = "restoring"
    /\ LET write == Last(run.writes)  p == write.path IN
       \/ /\ files' = [files EXCEPT ![p] = BeforeWrite(write)]
          /\ dirs' = RemoveCreatedDirs(p, files')
          /\ run' = [run EXCEPT !.pc = "rolling", !.writes = Front(@)]
          /\ UNCHANGED <<backups, others>>
       \/ Leave

RolledBack ==
    /\ run.pc = "rolling" /\ run.writes = <<>>
    /\ run' = [run EXCEPT !.pc = "failed"]
    /\ UNCHANGED <<files, dirs, backups, others>>

Kill ==
    /\ run.pc \in {"checking", "preparing", "replacing", "landed", "rolling", "restoring"}
    /\ run' = [run EXCEPT !.pc = "killed"]
    /\ UNCHANGED <<files, dirs, backups, others>>

WriteStep ==
    \/ Finish \/ CheckUnchanged \/ Prepare \/ Replace \/ Record \/ Unlink
    \/ Fail \/ CheckWritten \/ Restore \/ RolledBack \/ Kill
-----------------------------------------------------------------------------
(* The user, and every other program that edits these files *)

NextEdit == others.count + 1

\* p has been looked at for the last time, and is about to be replaced.
Late(p) == run.pc \in {"preparing", "replacing"} /\ p = Target
\* Rollback has looked at p, and is about to put the backup back.
Restoring(p) == run.pc = "restoring" /\ p = Last(run.writes).path
\* No backup of p is still to be taken either.
Exposed(p) == Restoring(p) \/ (Late(p) /\ (run.pc = "replacing" \/ ~Existed(p)))

\* Someone does something to p while a command is under way.
Touch(p, edits, givenUp) ==
    /\ others.count < MaxEdits
    /\ run.pc \notin Ended \cup {"idle"}
    /\ others' = [others EXCEPT
                     !.count = NextEdit,
                     !.edits = (@ \cup edits) \ givenUp,
                     !.late = IF Late(p) THEN @ \cup edits ELSE @,
                     !.exposed = IF Exposed(p) THEN @ \cup edits ELSE @,
                     !.touched = @ \cup {p},
                     !.ever = @ \cup {p}]
    /\ UNCHANGED <<backups, run>>

UserEdits(p) ==
    /\ files[p].is = "file"
    /\ files' = [files EXCEPT ![p].user = @ \cup {NextEdit}]
    /\ Touch(p, {<<p, NextEdit>>}, {})
    /\ UNCHANGED dirs

UserCreates(p) ==
    /\ files[p].is = "absent"
    /\ files' = [files EXCEPT ![p] = [Absent(p) EXCEPT !.is = "file", !.mode = "found",
                                                      !.user = {NextEdit}]]
    /\ Touch(p, {<<p, NextEdit>>}, {})
    /\ dirs' = [dirs EXCEPT ![p] = "theirs"]

\* The user gives up what the file held: their edits in it are no loss.
UserDeletes(p) ==
    /\ files[p].is # "absent"
    /\ files' = [files EXCEPT ![p] = Absent(p)]
    /\ Touch(p, {}, {<<p, e>> : e \in files[p].user})
    /\ UNCHANGED dirs

UserLinks(p) ==
    /\ files[p].is = "file"
    /\ files' = [files EXCEPT ![p].is = "link"]
    /\ Touch(p, {}, {})
    /\ UNCHANGED dirs

UserStep == \E p \in Paths : UserEdits(p) \/ UserCreates(p) \/ UserDeletes(p) \/ UserLinks(p)

\* The commands by themselves, one after another.
\* Bound: all of them name the same harnesses; no file belongs to two.
Begin ==
    /\ run.pc \in Ended \cup {"idle"} /\ run.number < MaxRuns
    /\ \E command \in {"install", "uninstall"}, harnesses \in Selections :
          /\ run.harnesses \in {<<>>, harnesses}
          /\ PlanRun(command, harnesses)

Answered ==
    \E declined \in {some \in SUBSET run.changes : Cardinality(some) <= MaxDeclined} :
        Confirm(run.changes \ declined, "checking")

InstallNext == Begin \/ Answered \/ WriteStep \/ UserStep
InstallSpec == InstallInit /\ [][InstallNext]_installVars
-----------------------------------------------------------------------------
(* What a run may never do to the files it shares with the user *)

\* A failed run has undone every write, except where somebody else has been at
\* the file or the report names it: its files and its directories are as
\* planning found them.  A write interrupted before it joined the ledger is
\* the one case the report does not name.
AllOrNothing ==
    run.pc = "failed" =>
        \A p \in DOMAIN run.snap \ (others.touched \cup run.left \cup run.missed) :
            files[p] = run.snap[p] /\ (files[p].is = "absent" => dirs[p] # "ours")

\* Nobody's edit is lost, whatever the run does and wherever it stops: it is
\* in the file, or, when it came after the run's last look at the file, at
\* least in the backup taken next.  Two windows are not closed, as the code's own
\* comments say: between that backup (or, where there was no file, that look) and
\* the replacement, and between rollback's check of a file and its restore.
EditsSurvive ==
    \A edit \in others.edits \ others.exposed :
        LET p == edit[1]  mark == edit[2] IN
        \/ mark \in files[p].user
        \/ edit \in others.late /\ \E b \in backups : b.path = p /\ mark \in b.file.user

\* What of one of p's texts is not memriver's: JSON's items, the groups of a hook
\* array, or a text's tokens outside the block or the table, line ends left aside.
Foreign(p, key, t) ==
    CASE key = "block" -> LET span == MarkerSpan(t) IN
             Without(IF span \in {Refused, <<>>} THEN t
                     ELSE SubSeq(t, 1, span[1] - 1) \o DropFront(t, span[2]), {"n", "r"})
      [] key = "mcp" -> IF IsToml(p) THEN Without(TomlDelete(t), {"n", "r"})
                        ELSE Without(t, {"m", "o", "w", "c"})
      [] OTHER -> Without(t, {<<"cur">>, <<"old">>})

\* A text memriver's entry is added to at its end: no table outside the group of
\* memriver's follows it.
AddedAtEnd(p, key, t) == key = "block" \/ (key = "mcp" /\ IsToml(p) /\ GroupEnd(t) = Len(t))
Own(t) == \E i \in DOMAIN t : t[i] \in {"T", "O", "B"}

\* Text whose last newline is a bare carriage return.
BareReturn(t) == t # <<>> /\ Last(t) = "r"

\* Whatever was installed and taken out again, interrupted or rolled back, a file
\* nobody else touched keeps all that is not memriver's, in its order.  A text that
\* had no block or table of memriver's, and gets it at its end, goes on as it was found
\* while one is in it, and is byte for byte that text once it is out; one that ends
\* in a bare carriage return may lose that.  A table put in among others' leaves its
\* blank line, or takes one; comments after an older table of memriver's are part of it.
GivenBack ==
    \A p \in Paths \ others.ever : \A key \in KeysOf(p) \ {"native"} :
        LET t == files[p].text[key]  first == others.first[p].text[key] IN
        /\ Foreign(p, key, t) = Foreign(p, key, first)
        /\ AddedAtEnd(p, key, first) /\ ~Own(first) /\ ~BareReturn(first) =>
              IsPrefix(first, t) /\ (~Own(t) => t = first)
=============================================================================
