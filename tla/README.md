# Verification of memriver

This directory holds TLA+ models of memriver, the TLC configurations that check them, and TLAPS proofs.
Paths below are relative to the repository; `core` is `packages/memriver-core/src/memriver_core`, `dream` is
`packages/memriver-dream/src/memriver_dream`, `cli` is `packages/memriver/src/memriver`.

## 1. The system

memriver keeps memories (short texts with provenance) for coding agents in one SQLite file per user. It has no daemon.
Everything that runs is a short-lived process, and any number of them run at once on one store:

- an **MCP server** per harness session (reads and writes memories, confirms and registers sessions);
- **hooks** the harness runs on session start, prompt, tool use, stop and session end;
- **commands** of the user: `project`, `memory`, `undo`, `doctor`, `install`, `uninstall`;
- a nightly **dream run** that summarises sessions and consolidates, extracts and retires memories through a model.

They meet in the database (`BEGIN IMMEDIATE` transactions), in the file system (directories, links, git worktrees), in
`dream/.lock`, `dream/dream.db` and the report files.

### Inventory

| Component | State | Operations | What is hard | What makes it correct |
|---|---|---|---|---|
| Memory store `core/repository/sqlite/memory_store.py` | `memories`, `memory_versions`, `memory_sources`, `changes`, `change_steps`, `memory_reads` | batch `apply`, `undo`, agent `write`, `plan_hard_delete`/`hard_delete`, `touch_read`, `prune_reads` | batches that fail late, citations against concurrent rewrites, stale purge plans, undo of what others built on, late reads | all or nothing; row = newest version; citations exist, are older, form no cycle; trust is never raised; history is permanent; a purge removes what was shown |
| Memory service `core/application/memory.py` | none | `record`, `update`, `delete`, `apply`, `read` | a context that is stale after the policy and the classifier ran | writes go only where the session may write |
| Projects `core/repository/sqlite/project_store.py`, `cli/project_commands.py` | `projects`; the plan on a terminal | init, adopt, unbind (plan, then confirmed write), `ensure_global`, `resolve` | minutes between plan and answer; the file system moves | bound or released only as shown; one project per directory; one global |
| Directories, worktrees `core/repository/directories.py`, `worktree.py` | the file system | canonicalise, compare, nearest bound root, purge | links, re-pointed roots, replaced directories | resolution never guesses; a purge empties only the confirmed directory |
| Sessions `core/application/sessions.py`, `core/repository/sqlite/session_store.py` | `sessions`, `tool_calls` | start, prompt, stop, end, confirm, register, save mark, publish summary, tool-call routing | each hook reads, resolves outside any transaction, then writes | a project once set stands; only the candidate shown is confirmed; no prompt is lost; nudges keep their distance |
| Hooks, server `cli/hooks.py`, `cli/server.py` | calls in flight, which of them are cancelled | one call per event or tool | die or time out anywhere; cancelled calls go on; the harness keeps one server across `/clear` and resume | a call acts for the session that made it; an edit repeated is made once; what is answered is so; a dead hook leaves a state the next event can use |
| Database `core/repository/sqlite/database.py` | the file and its schema | open, create, transact | several first writers | one schema, never half-made |
| Dream run `dream/run.py`, `report.py`, `lock.py`, `changes.py`, `store.py` | `runs`, report files, the lock | run, skip, close interrupted runs, apply a group, retention, report command | three stores, no common transaction; kills | every committed change is told; row and report agree; one run at a time |
| Dream phases `dream/phases/` | `ttl_reviews`, `scope_passes`, `source_checks`, `session_summaries` | scan, summarise, consolidate, extract, recheck, retire | long model calls between reading and writing, checkpoints, streaks | a stale judgment is never carried out; what was left out or flagged is never built on; unfinished work is found again |
| Schedule, dream commands `cli/dream_plugin/` | plist, launchd | init, run, report, uninstall | load fails after unload; launchd does not answer | the schedule before comes back, or its loss is reported |
| Install, uninstall `cli/install/`, `cli/uninstall.py` | harness config files, backups, the store's directory | plan, write, roll back, purge | a write fails half way; the user edits meanwhile; the directory is swapped | nothing of the user's is lost; what was put in comes out; a purge empties what was confirmed |
| Executors, classifier `cli/executor/`, `cli/classifier_plugin/` | none | one model call, one verdict | timeouts, unusable answers | no verdict never means "allowed" where a block is required |
| Content policy, diagnostics `core/content_policy/`, `core/application/maintenance.py`, `cli/doctor.py` | none | scan text, inspect tables | parsing | read-only |

## 2. Modules

| Module | Models | Status |
|---|---|---|
| `MemoryStore` | the memory store, one action per operation inside a transaction plus begin, commit, rollback, crash | complete for state-changing operations |
| `VersionLog` | the abstract promise: an append-only log of changes and versions; `MemoryStore` implements it | complete |
| `Projects` | bindings, plans on terminals, the file system, resolution | complete |
| `Sessions` | session rows and the calls of hooks and server; extends `Projects`, whose actions interleave | complete for state-changing operations |
| `ToolCalls` | which session a tool call acts for, its handler, cancellation, repetition, answer | of Claude Code and Codex, reads, writes and updates; without `memory_delete`, and without `session_confirm` and `session_register`, whose writes are in `Sessions` |
| `DreamRun` | runs, reports, lock, retention, report command | complete |
| `Summaries` | session summaries: listing, attempts, checkpoints, publication | complete |
| `ScopePasses` | the policy scan, consolidation, extraction and recheck, their digests, against the writes of others | complete |
| `Retire` | retirement of unused memories: listing, review streaks, conditional delete | complete |
| `Editors` | the editors of config texts: put memriver's entry in, take it out | pure operators; four kinds of text |
| `Install` | one command on many harness files: plan, confirm, write, record, roll back; the user at the same files. Extends `Editors` | complete pipeline |
| `Schedule` | plist and launchd job, replaced or removed with rollback | complete |
| `Setup` | install, dream init and uninstall with purge, one after another, and the first writers of a store. Extends `Install` and `Schedule`, whose steps it runs | complete, with one writer beside the commands |
| `MemoryStoreProofs`, `SessionsProofs`, `ToolCallsProofs`, `DreamRunProofs`, `SummariesProofs`, `ScopePassesProofs`, `RetireProofs`, `SetupProofs` | theorems about those modules; `SessionsProofs` has those of `Projects`, `SetupProofs` those of `Install` |  see section 5 |
| `MCMemoryStore`, `MCSessions`, `MCToolCalls`, `MCSummaries`, `MCScopePasses`, `MCRetire`, `MCInstall`, `MCSetup` | values for the constants, symmetry sets | |

The modules meet as the components do. `Sessions` takes the steps of `Projects` between its own reads and writes; `Setup` takes those of
`Install` and `Schedule`. The others share the database only through what one transaction promises the next, and
each models the writes of the rest as steps of others: `ScopePasses` and `Retire` the writes, soft deletes, restores and purges of agents and the user (an undo is restores and soft deletes), `Summaries` the prompts of `Sessions`,
`DreamRun` any group of changes, `ToolCalls` the rows `Sessions` may leave.

### MemoryStore

`db` is the committed database, `work` the database as the open write transaction sees it; `BEGIN IMMEDIATE` makes
transactions serial, so there is one. A batch is opened by `BeginApply`, `BeginWrite` or `BeginUndo`, its operations are
`Create`, `Update`, `SoftDelete`, `Restore`, its end is `Commit` (with the cycle check of `_refuse_cycles`) or `Rollback`,
which also stands for a crash or any refusal. `PlanHardDelete` shows a plan; `HardDelete` recomputes it and goes on only if
it is the same. `TouchRead` records a read later than it happened and in any order. A text is a member of a small set
with a trust level; times are abstracted to the order in which facts are recorded. SQL cascades are part of the action
that causes them.

### Projects

`projects` is the table, `leads` says where each path leads on the file system (a file tree with directory links), `shown`
is the plan each terminal displays. `PlanX` reads and shows; `ConfirmX` re-checks and writes in one transaction;
`FilesChange` replaces the file tree by any other. Left out: a comparison the file system cannot answer (it only refuses
or degrades), dangling links (a path either leads to a directory or nowhere), a store that is itself re-pointed during a
prompt, and the list of nested projects a plan displays. Two UNIQUE indexes (`projects.root` and `projects_one_global`, `database.py:86,90`) keep part of
`BindingsSound` and `OneGlobal` on their own, by refusing what the lock and the checks let through; the models have the lock and the checks, which the code relies on first.

### Sessions

A hook or server call that reads and later writes is a record in `calls`: `StartNew` then `Register`, `PromptNew` then
`PromptLands`, `ConfirmRead` then `Confirm` (which finds nothing to do for a session without a row), `RegisterRead` then `AssignProject`, `SaveRead` then `SaveWrites` then
`MarkSaved`, `SummaryRead` then `PublishSummary`. What the code does in one transaction (`StartAgain`, `PromptAgain`, `Stop`,
`EndSession`) is one action with the time its call began, which may be earlier than the present. `Drop` ends a call
between its read and its write. `history` records what happened to a session and is read by properties only.

### DreamRun

A process is a record in `procs`; each action is one write (a row, an append, a commit of core) with its outcomes: it
succeeds, it raises, or it takes effect and raises all the same (an ambiguous commit, a failing close, a signal).
`Kill` ends a process anywhere and with it its lock. A report is the sequence of its change, status and note lines. The
phases are left open: a run may try any group, and core may accept or refuse it. `Age` passes the retention period of a run.

### Summaries

`rows` is the table `session_summaries`, `run` the candidates of the run under way with the activity seen, `job` the session it works on.
A transcript is the number of its whole records (it is append-only, so equal numbers are equal input) and whether it ends inside one
(`torn`). A room holds `Size[room]` records, which is `2 ^ (Halvings - room)` in the runs; which inputs exceed the estimated budget, or are found too large by the
executor, are the constants `Estimated` and `Refused`. A call (`Call`) may not fit, find no call left (`OutOfCalls` keeps a checkpoint),
be refused as too large (`TooLarge` halves the room), fail, or be answered. Of `attempted_at` only the order is kept (`Recounted`). The rounds of
merging partial summaries are one possible merge per part; the rounds of merging at the very end (`summarize.py:232`) are left out, as partial summaries
merged before they outgrow half the room fit it at the settings memriver has; how the text of a part is cut is left out. A
prompt that lands without moving `last_active_at` (section 4) does not occur here.

### Retire

`mems` holds of each memory what the listing reads (its version, last change, last read, number of read facts), `reviews` is the
table `ttl_reviews`, `run` the listing and the candidate asked about. Memories and usage are read one after the other
(`BeginListing`, `FinishListing`), and between any two steps anyone may read (`TouchRead`, with an earlier stamp), rewrite, restore, purge or prune.
`Retire` is the soft delete with `expected_version` and `unread_since`, which may always be refused (policy, group limit).
`clock` counts days.

### ToolCalls

`harness` is Claude Code or Codex, `current` the conversation on screen, `rows` what the row of each session grants, `toolCalls` the table
`tool_calls`, `memory` of each project one memory, version by version (the call that edited it, or an undo), and the calls that wrote others,
`requests` each call with its place in the code. `Ask` is the harness: an update names a memory at the version read and says something new or what is there
already, and a call that was dropped unanswered may be made again as it was. `HookBegins` takes the time, `HookRecords` is `record_call` with its prune, `HookFails`
the hook that dies or writes nothing. `Start` is `_session_key` and `_context_of`: Claude Code's mapping, read best effort, else the session the server was started in.
`Write` and `Read` are the transaction; an update that says what the memory says already succeeds and writes nothing (`Unchanged`), one at another version is
refused. `ActFails` is a refusal of the policy or the classifier, or a busy store; `MarkSaved` the save mark after the commit. `Undo` restores, from the command line, the text a memory
began with. `Interrupt`, `Cancel` and `Answer` are `respond_unless_cancelled`: a worker thread goes on when its call is cancelled, and only its answer is dropped.
`Clear` is `/clear` or a resume. `AnswersAreTrue` says that "done" means changed, or that the memory had the very text at the version the call named (`Already`),
and that a call that changed something says so. Left out: search, whose calls are reads; `memory_delete`, a soft delete at the version read; and Cursor and Kiro, whose
server answers for the directory it was started in and keeps no session.

### ScopePasses

`mems` is the store (each row with what every version cites), `passes` and `checks` are the tables `scope_passes` and `source_checks`, `run` the run
with its place in the code. A digest is the set of versions it is taken over, as long as two inputs that differ have digests that do.
`Scan` finds the versions today's policy hits (`Hits`). A scope goes from `List` (skipped when its input is what its last pass
stored) over `ReadSources` and `Answered` to judgments: `Consolidate` (merge, rewrite, supersede), `Extract` with `Traced` and then `ApplyExtracted`, `Flag` for an
instruction-like memory, `NotApplied` for all that was refused; `EndPass` stores the input sent if all of it was settled. `ListEntries`, `Recheck`, `KeepEntry`, `Reword`
and `LeaveEntry` are the recheck. The model's answer is any set of judgments the rules let through; which of two memories is the newer is left
open, as it would take times. A retired source may be replaced by what cites it at the version listed, whatever has become of that memory since (`Successors`), as the code
asks the table of citations of all versions. `Apply` is `apply_group` at the versions sent. `Remember` (in a project; agents write nothing global), `Update`, `SoftDelete`, `Restore` and `Purge` are agents and the
user at any time; an undo is made of restores and soft deletes. `retired` of a row holds the versions at which it is deleted, as a restore goes back to any.
`Kill` ends the run anywhere. `extracted`, `flagged` and `keptOn`, and of `run` `touched`, `born`, `shunned` and `skipped`, are read by properties only.

### Editors and Install

`Editors` has what the four editors make of a text: hook arrays are sequences of groups of handlers, a JSON object its members, commas and
whitespace, a TOML file the headers of tables (`h`; `s` of the group memriver's is in; `T` and `O` its own as this or an older memriver writes it), line ends and the rest, a marked block two markers and a body among lines. An ambiguous text is refused.
What tomlkit does is in `TomlAppend` and `TomlDelete`: a table is added after the tables of its group that stand together, so in mid file where others follow
(`GroupEnd`), at the end where there is no such group, with a blank line before it; what stands below a table's header up to the next one, comments too, is part of it and goes with it. Only an addition at the end gets its newline
from memriver, and only that one comes back byte for byte: `GivenBack` promises this of such texts (`AddedAtEnd`) and of all others that nothing but line ends and what was part
of memriver's table changes. Left out are a group written as an inline table, which is refused, and a table of memriver's written inline, which is rewritten. `WellFormedJson`
is what the JSON parser lets through (items apart, one member of a name), and `Readable` in `Install` what every file planned was read as.
`files`, `dirs` and `backups` are the file system, `run` the command. `PlanRun` reads every target and renders; `Confirm` takes one answer for each change; then for each pending
file `CheckUnchanged`, `Prepare` (parents and backup), `Replace` or `Unlink`, `Record`; after `Fail` come, newest write first, `CheckWritten` (is what the run wrote still there?) and `Restore`, or `Leave`, which reports a file somebody else has
changed. `Fail` stands for an I/O error or an interrupt at any of these steps, `Kill` for the end of the process. The user edits, creates, deletes
or links any file at any step. Four windows are in the code and in the model: between the check and the replacement, where an edit that comes
then is only in the backup (`late`); between that backup, or where there was no file that check, and the replacement, and between the rollback's check and its
restore, where an edit is in neither (`exposed`; the docstring of `_roll_back` says of the second that nothing closes it, `install/__init__.py:727`); and between the replacement and its entry in the ledger, where an
interrupt leaves a write that no rollback undoes (`missed`). The properties name each as an exception.

### Schedule and Setup

`plist` and `loaded` are the file and what launchd has loaded, `agent` the replacement or removal under way; any call of launchctl may fail, lie still or not be
answered. `Setup` runs one command after another: `cmd` is its stage. `StartInstall` makes the store (`OpenStore`, `CreateFile`, `BeginWrite`, `CommitWrite`: the
file, then under its write lock the schema and the global project) before any config file; `StartDreamInit` schedules; `StartUninstall` goes through config, schedule
and, with `--purge-data`, the store: `PlanPurge` shows the directory, `OpenPurge` opens it again through its parent and goes on only if it is
the one shown, `EmptyDirectory` removes through that descriptor, `DetachRoot` the name. `SwapStore` puts another directory at the path. Between the last look at the name and
its removal (`rmdir`, which takes no directory that holds anything) another empty directory may take its place.

## 3. What is checked

| Run | Question | Bounds |
|---|---|---|
| `MemoryBatches` | Is a batch, an undo, an agent write or a purge ever half done, mis-attributed, laundered or more than was shown? Can deletes and citations leave a version without its source, or a cycle? | two memories citing each other, two operations a batch, three changes, three versions, and no read facts, which none of these properties looks at |
| `SessionProjects` | Does a session keep its one project and write nowhere else, is only what was shown bound, and is resolution never a guess? | one session, two callers, one terminal, two projects, a directory that moves |
| `SessionPrompts` | Are prompts and nudges right whatever order calls land in? | one session, two callers, four prompts, two recent ones kept, two clock readings |
| `ToolCalls` | Does a call act for its session, is an edit repeated made once, and is what the agent is told so? | two sessions, two calls, one project, three clock readings, a retention of one; the `VIEW` leaves out the mapping of a call that is being handled, and rows, clock and conversation once every call is: nothing reads them any more |
| `DreamRuns` | Do rows, reports and committed changes agree under kills and failed writes? Does the lock come free? | two runs and a report command, one group applied, two tried |
| `SummaryParts` | Does every record reach a published summary, and every session an outcome? | two sessions: three records that fit one by one, in the smallest of three rooms; and none; two calls an attempt, one attempt a run, one failure or kill |
| `SummaryCheckpoints` | Is a session with a checkpoint finished by later runs? (it need not be) | one session, six records, two rooms, no failure |
| `ScopePasses` | Is what a run acts on, keeps, spares and counts as judged what it sent? | six stores of two or three memories in two projects and global, two runs, one write, delete, restore or purge of others, two judgments an answer, two changes a run, three versions |
| `ScopeFlags` | Is a scope that flagged a memory judged again by the next run? (it need not be) | one global memory and one written since, three runs, two writes of others |
| `Retirement` | Is only what nobody used retired, and only for a judgment of that version? | two memories, three days, limit two, one candidate and one change a run |
| `Installs` | Is a failed command undone, is no edit of the user's lost outside the two windows, and does a file come back? | each harness by itself, two commands on it (no file belongs to two harnesses), one edit of others, one change declined |
| `Setup` | Does a failing command leave the schedule, a new store and a swapped directory as they must be? | three commands, Kiro's two files, one writer beside them, two directories, one swap; answers all yes or all no |

Deadlock is not checked: an idle memriver, and a model at its bounds, may stop.

Why the bounds are enough: the races are between one reader-then-writer and one other write, so two callers or two
terminals show them; a citation cycle needs two memories; a nudge after a nudge needs four
prompts at interval two; a killed run, its successor and a concurrent report are the most that touch one report file. Three
records at two calls an attempt need a checkpoint and, at the smallest room, two runs; a second session shows whether it waits for
the first. A streak of two, broken by a new version, needs three days and three versions. A mapping that is pruned, and a call
repeated after a cancellation, need two calls; two sessions tell a call's own from another. Two runs tell a stored digest from an input that moved; two judgments
tell an order in an answer; the stores of `ScopePasses` (`Begin` in `MCScopePasses`) are an entry citing a memory of each project, one of them rewritten since; those two and
no entry yet; two memories of one project; an entry that cites none; one a source of which the policy hits; and one a source of which was retired and is carried on by another source. A file installed, edited and taken out needs two commands
and an edit; the files found (`MCFound`) are absent, the user's, an older memriver's beside or between the user's (a TOML table between two others, another server's table with one of another group after it, a JSON member between two with whitespace around the commas), without a last newline, and one its parser rejects, in three combinations; others link and delete
them meanwhile. Replacing a schedule, removing it, and purging
need three commands. In `Setup` others touch the store only while a command does (`StoreInUse`), for what they do between commands is another
store to begin with.

Citations in a chain of three memories, a history of many reads, and two terminals that bind and unbind at once are too large to be run beside
the rest; what was asked of them (`RowIsLatestVersion`, `NoSourceCycle`, `BindingsSound`, `BoundAsShown`, `UnboundAsShown`, `ResolvesToNearest`) is proved for every size, section 5.

Each property has a mutant of the modelled code (a dropped guard, a swapped order, a stale value), defined beside the
operator it changes, that makes TLC find it violated.

### Fairness

`DreamRuns` needs it for `LockComesFree`. `DreamFairSpec` has weak fairness for each started run's and each report
command's next step: executor calls have a timeout (`DREAM_CALL_TIMEOUT_S`), database waits have `BUSY_TIMEOUT_MS`, and the lock
is not waited for. Nothing is assumed to be started, killed or to succeed.

`SummaryParts` and `SummaryCheckpoints` use `SummariesFairSpec`: weak fairness for the start of a run, which the daily schedule gives, and
for its next step, for the same timeouts. Failed calls and kills are bounded by `MaxTrouble`, for if every call fails no summary
can come. A harness need not complete a torn record; `SessionsFinish` excepts such a session.

The other modules state safety only. What might be asked of them does not follow from the code's scheduling: nothing retries an
install, a purge or a tool call but the user or the agent, and a candidate for retirement whose call always fails stays the oldest.

## 4. Disagreements with the documentation

Two are runs:

- `SummaryCheckpoints`: a session has one checkpoint, used only at the room it was planned with (`dream/phases/summarize.py:217`), and every
  attempt begins at the full room. If the executor finds a part too large that one run does not reach, runs alternate: one leaves a
  checkpoint at the full room, the next resumes it, goes to half the room, begins there anew and leaves its own in place of it. The
  session is never finished, though `dream/phases/summarize.py:5` says that one with a checkpoint "is finished by later runs, new activity or not"
  and `README.md:510` that it "keeps its progress for the next".
- `ScopeFlags`: a pass that flagged a memory stores no digest, but the digest of an earlier finished pass stays
  (`dream/phases/consolidate.py:268`). Where the scope's input comes back to that one, as when what was written since is soft-deleted, the next run skips the scope and the
  flagged memory is not judged again, though `dream/phases/consolidate.py:229` says "no digest is stored and the next run judges the scope
  again, re-flagging and re-excluding it until it is fixed" and `README.md:524` the same of global.

These were met while modelling and are not among the runs:

- `publish_summary` detects activity since the session was read by comparing `last_active_at`. A prompt takes its time before its content scan and its wait for
  the write lock, and landing later it does not move a `last_active_at` that another event has set meanwhile. So: a hook takes the time of a
  prompt; a stop event with a later time lands; the dream run reads the session; the prompt lands; the summary is published over it.
  The comment in `core/repository/sqlite/session_store.py:378` says that activity since the read means the summary does not cover it.
- `memriver dream report` takes the run lock for retention, and a run that starts meanwhile records itself
  as skipped because "another run holds the lock" (`dream/run.py:271`, `dream/lock.py:16`, `README.md:495`).
- A text that ended in a bare carriage return before a marked block or a TOML table was appended may come back without it (`cli/install/editors.py`, the removal takes one
  line end before the block or table, and `\r\n` is one); `GivenBack` excepts it (`BareReturn`).
- Where launchd has given up the job and then does not say so, `dream init` fails ahead of the block that restores, so the schedule is
  lost; it is reported as unconfirmed (`cli/dream_plugin/schedule.py`). `ScheduleStands` excepts it (`lost`).

## 5. What is proved

`MemoryStoreProofs` proves, for every set of memories, projects and texts and every bound, that `Spec` implies `[]TypeOK`,
`[]RowIsLatestVersion`, `[]NoDanglingSource`, `[]CitesOlderChanges`, `[]TrustFollowsSources` and `[]NoSourceCycle`. The only
assumptions are the named `ASSUME`s of `MemoryStore`.

None of these is inductive alone. The invariant `Core` says that `db` and `work` are each a good database (`GoodDb`: types, rows are
newest versions, versions are numbered without gaps, citations exist and are older and no more trusted), that what a batch
remembers of itself describes `work`, that purged memories are gone from both, and that `work` extends `db`. Each operation
writes versions only through `WriteVersion`, so the heart of it is one lemma, that a write whose sources fit keeps a database
good, and one lemma per action shows that its sources fit. Freedom from cycles needs more than a state: the check is made on the
batch as a whole before commit, so `Walked` states that committed citations passed it and the proof shows that no other action
adds a citation to committed rows.

That a batch does what it says takes three more invariants on top of `Core`. `Reversed` says that every committed undo takes each step of its change back and the
open one has so far inverted the first steps of a change that still has all of them, and with it `[]UndoTakesBack` holds for changes of any length. `Shown` says of the plan on the
screen that a version listed is never passed by its memory unnoticed, and while it is current the cue is its text; with it `[]PurgedAsShown`. `OnceEach`
says that an open change moves a memory at most one version on, to a state unlike the last; with it every step of the store is a `Change`,
a `Purge` or a stutter of `VersionLog` (`StoreImplementsVersionLog`): the refinement is proved step by step, and nothing of it rests on the bounds of the run.

`SessionsProofs` begins with the projects and proves, for any file tree and any number of terminals and projects,
`[]ProjectTypeOK`, `[]BindingsSound`, `BoundAsShown`, `UnboundAsShown` and `[]ResolvesToNearest`. The invariant `Sound` adds to
`BindingsSound` the shapes of rows and plans (only a plan to make a project names none) and that `leads` is a file tree. Of the
directory tree it assumes `TreeAssumption`: paths are finite, so among some ancestors of a path there is a deepest one.

On that it proves of sessions `[]RowsReadable`, `[]WritesGoHome`, `ProjectStands` and `ConfirmedAsProposed`. The invariant
`Settled` says what a call in flight may have read (`RightCall`): the row it would insert is readable, its session exists, and a
save holds the project of a session that is registered. That survives other steps because `Grows` holds of every one: rows only
come, a project once set stays, and the projects a session may have (`Homes`) never go.
`[]PromptsKept` and `[]NudgesSpaced` follow from a second invariant, `Told`: a row counts and keeps what follows from the prompts that landed, its nudge mark is
the last nudge's count, each nudge had its distance, and the row a call in flight would bring along is fresh however old it is, for it is dropped where another
came first. `NudgeMinPrompts` must not be 0 (`LimitsAssumption`): a row says "no nudge yet" by a mark of 0, and with a minimum of 0 one nudge could follow the
other. `settings.py` fixes it at 5, so no such store exists; the proof is where this came up.

`DreamRunProofs` proves `[]OneRunning`, `[]ReportsHaveRows` and `RetentionSpares` for any number of runs. The invariant `Orderly` says for each
place in the code whether a process there holds the lock (`HoldersLocked`) and has a row, and of which status (`RowsFollow`), and what
a half-done closing or removal is about (`Subjects`). A skipped run acts without the lock: its row is neither old nor running
while it does, so no remover picks it (`Age` excludes that retention passes within the moments a skipped run takes).

On top of it `Truthful` says what a report owes: `RunTells`, that each committed group of a run has its line, which is settled or still the run's to settle,
or the last line for whoever closes the run; `RunWaits`, that while a group is applied its line is open and waited for; `RunCloses`, that a row becomes
"completed" only behind a completed footer, which stays the last word. From it follow `[]ChangesTold` and `[]CompletedIsReported` for reports of any length,
wherever a write fails, takes effect and raises all the same, or the process is killed. Counting the told lines needs no induction: the properties speak of the
line of one change, and each step appends or settles one line.

`SummariesProofs` proves `[]NothingMissed` and `[]SummariesTypeOK` for any number of sessions, any transcripts, limits and budgets. The invariant `Covering` says
what each thing kept stands for: a checkpoint for the records of the parts before it (`Upto`) of the input it was made from, an attempt for those of the parts done,
a digest for records that were judged; and that a session listed stays due until its attempt ends, and while it has not moved since the listing the input
read holds all there was at its last activity. The sizes of the rooms are a constant (`Size`), as the prover cannot reason about powers of two; the theorem holds for any sizes of at least one record, the code's
among them. That parts cover a transcript (`PartsCover`) is arithmetic of `\div`; that times of attempts do not outnumber the sessions uses the library's theorem on surjections.

`RetireProofs` proves every property the run `Retirement` checks, for any memories, limits and times: `[]RetireTypeOK`, `UsedIsKept` and
`RetiredForReason`. The invariant `Careful` says of a listed version, while it is still the row's, that a use since the listing has left
its mark on `lastRead` and that a candidate's last change lies a TTL back (`SeenTracked`, `WaitingTracked`), and of a streak on record for
the version there is that the last verdicts are that many answers of "uncertain" (`StreaksRecorded`). A stale candidate may leave a
streak that means nothing: its version is past, and versions only grow (`Moves`).

`ToolCallsProofs` proves every property the run `ToolCalls` checks, for any number of sessions, calls and projects and any retention: `[]OwnSession`,
`[]EditedOnce` and `[]AnswersAreTrue`. The invariant `Accountable` says of each call what its place in the code implies: a mapping its hook
recorded is in `toolCalls` and right until the retention has passed it, and the clock never runs back (which makes a call `known` only while it must
be found); a call past its transaction and not refused has changed something, or names a version at which the memory said what it says (`RightEnd`). `EditedOnce` holds because the i-th edit
of a memory is an undo or was made by a call that named version i (`EditsInPlace`): a repeated call carries the version of the one it repeats (`OwnEdit`), so both cannot have been made, and
what was undone between moves the version on. An update that repeats no other says something new or what was there (`EditNamed`).

`SetupProofs` proves every property the run `Installs` checks. Of the transaction, `[]AllOrNothing` and, but for the two windows, `[]EditsSurvive`, for any harnesses, files, edits and place of failure; here the
texts stay uninterpreted, for all these need is what of the user's a text holds. The invariant `Transacted` says: each write in the ledger is of one file planned and no longer pending (`LedgerShaped`); a file that nobody else touched is as it was planned or
as the ledger says it was written, and then the ledger has what it was (`Undoable`), also when the rollback has looked and is about to restore; and what a write is about to take away is in the backup it leaves, what a rollback
is about to take away in what it puts back (`Recoverable`). The assumptions are that a command names harnesses there are (`SelectionsAssumption`), and
of the files found that no edit is counted before the first command and that each text is one its parser reads (`FoundAssumption`, `Readable`).

Of what the commands write, `[]GivenBack`: for any texts, of any length, and any order of installs and removals. Every text a run of commands can make of a file's first one has to be
known to be good for every later one, so the invariant `TextsKept`, on top of `Transacted`, says of a text that nobody else touched (`Lawful`): what is not memriver's is what it was in the first one, in its order (`Foreign`);
a text the entry is added to at its end is the first one or that one with the entry (`With`), unless the first had an entry already; TOML holds one table of memriver's at most (`OneOwn`); JSON stays well formed or has no member of memriver's. The same holds of what a run planned, of
what its ledger would put back, and of nothing an editor refused, for that plan is given up (`Planned`). `LawfulEdit` is then a lemma about the editors alone: putting an entry in and taking it out keep
a lawful text lawful. Beneath it there is a chain for each editor: `RoundtripKept` and `RemovalKept` (wherever a table is put in, taken out or put in again, what is left of the text without it is the same but for line ends) and `TomlBack` (what `_undo_added_newline` takes back is the newline that was added, found by the longest common prefix
of the texts before and after), `BlockKept`, `BlockRemoveKept` and `BlockBack`, `JsonKept` and `JsonRemoveKept` (one comma goes with a member, wherever it is among whitespace), `HooksKept`. What `Without`
keeps of texts put together, cut or replaced in is shown by induction over their tokens, on the set of numbers at which it holds. `SetupAllOrNothing` and
`SetupGivenBack` carry the transaction and the texts over to whole commands. It needs one condition on a constant: `Refused` is no sequence of numbers, so neither a span nor the
empty one (`RefusedAssumption`).

It also proves every property the run `Setup` checks, for any directories and writers: `[]ScheduleStands`, `[]OneGlobal` and `PurgedAsConfirmed`. The invariant has a part for each.
`ScheduleRight` says for each place of the replacement what plist and job may be, given what was looked at first. `StoreRight` says that a
writer inside its transaction holds the lock of its directory, that nobody else does, and that what it saw missing still is, so at most one inserts. `PurgeRight`
says that past the prompt what was opened is what was shown and confirmed. The proof covers every step of `Install` that `Setup` takes: none touches the
schedule or the store.

`ScopePassesProofs` proves `[]NeverBuiltOnFlagged`, `WrittenMeanwhileIsNext` and `ActsOnWhatItSent` for any store, any policy hits, any answers and any number of
runs and writes of others. Its root is that memories only grow (`Grow`): one appears with one version, gets one more, or goes for good; each write of a run or of others
does only that. So what was once seen at a version is still found there or purged (`Known`), and the invariant `ScopeInv` can speak of what was sent:
it was there, it is not among what was written since (`Sending`), it cites what was read (`SourcesRight`); a group of operations is built from it and from what
its target cites (`Fits`); what is left out or flagged has never been touched, nor has anything of a scope still to come (`Sparing`), for each scope comes once and
extraction last, where nothing can be flagged. The lemma `WrittenGrows` draws from this what a write of the run changes and cites.

It also proves `[]KeptAsItStands`. What the code stores of a keep is a digest of versions, one set in which an entry, its sources as cited, its sources as they are and what
may stand in for them are no longer told apart; the question is whether two states of the sources can share one. The invariant `KeptInv` says what makes them
unequal: no version cites two versions of a memory or one of its own (`CitesRight`); each version the recheck saw is still there, and deleted or not as it was seen to be, unless the memory was purged
(`ListingRight`, `AsSeen`), for whatever others restore or undo, they add versions and change none; and the sources of an entry kept, or under way, fit together as those of an entry do: each moved source is
cited by the entry, is deleted or has moved, and what stands in for it is itself or a version that cites it (`StandingOf`). From two standings with the same digest `SameEntry`, `SameMoved` and
`SameAllowed` then find the same entry, the same moved sources, and the same stand-ins, for whether one stands in is seen from its version and the sources alone. That citations are well formed in a store to begin with is `CitationsAssumption`: the primary key of `memory_sources` and the refusal of cycles
(`database.py:131-141`, `_refuse_cycles`) see to it.

And it proves `[]TwoProjects`. The property follows citations all the way, so the proof needs what the walk (`AllTheWay`) computes, for any store: it stays within every set that
has where it starts and with each version what that cites (`AllTheWayWithin`), and it is itself such a set (`AllTheWayClosed`), for a walk that still grows meets a new place at each step,
and there are finitely many (`MemoryAssumption`). Both are inductions over the steps of the walk, done on the set of numbers at which they hold (`AllNumbers`, from the
library's theorem that `<` is well founded, which takes no operator). The invariant `TwoInv` says that what any version cites is there (`CitesThere`): a purge takes whatever reaches what it takes, so it
leaves no citation behind; extraction read whose each memory is, and that does not change (`OwnerRight`); and what was traced leads to two projects while it is all there (`ChangeTraced`), which
`apply_group` checks only of what is newly cited, but the rest was there for what cites it is. A walk from citations that are there gives the same before and after a step
(`FromTwoStands`), so what was written stays of two projects (`ExtractedTwo`).

Assumptions are the named `ASSUME`s of the modules; TLC evaluates them in the runs. They say that markers such as `None` are no ids (`MarkersAssumption`,
`WritersAssumption`), that projects are listed once and a run has a layer (`ProjectsAssumption`), that citations are well formed and cite what is there (`CitationsAssumption`), that ids are finitely many (`MemoryAssumption`), that a store or file to begin with is one and can be read (`StoresAssumption`, `FoundAssumption`), that a refusal is no text (`RefusedAssumption`), and that limits are numbers.

Theorems on properties that no run checks any more (`RowIsLatestVersion`, `CitesOlderChanges`, `UnboundAsShown` and the type invariants) are proved all the same.

Where a proof failed, the model or the property was wrong three times. `LimitsAssumption` allowed a
minimum no store has. `Size` was a definition that hid from the proof all that the code relies on, that a part holds a record at least. `GivenBack` excepted the bare carriage return for marked blocks only,
and a TOML text that ends in one loses it in the same way (section 4); it also said nothing of a text while memriver's entry was in it, nor of one that had an older entry to begin with, and now does.

`UNION A \cup B` is `(UNION A) \cup B` to TLC and `UNION (A \cup B)` to TLAPS; the operands of `UNION` and `SUBSET` are in parentheses wherever the two could differ
(`Operations`, `Rewrites`, `News`), so that what is proved is what is checked. For the same reason no token is the string of a comma, which the prover's translation does not survive.

Every safety property of the passing runs, invariant or action property, is proved, and so is the refinement of `VersionLog`. Left to TLC, as out of the prover's reach, is what rests on fairness and `ENABLED`: `LockComesFree` and
`SessionsFinish`; and the two runs that find a violation.

## 6. What is left

Every component that keeps state of its own is modelled. What would add most next:

1. A run in which `Summaries` takes its prompts from `Sessions`, so that the late prompt of section 4 becomes part of `NothingMissed`'s model.
2. The `[dream]` table of `settings.toml`, which `dream init` writes before the schedule.

Runs and properties are kept few, so that all of them can be repeated in an hour: a new module comes with one run, and its properties
take the place of the shallowest there are.

## 7. Not modelled

- Text: rendering, truncation and neutralisation of what is injected, search ranking, secret scanning, transcript parsing, TOML inside a table, inline and dotted tables, JSON escapes.
- Executors and the classifier: one call, one answer, nothing kept. The models take any answer or failure where they are called.
- The content policy: regular expressions over text. What it hits is a constant (`Hits`), that it refuses before a write is in the models.
- Read-only inspection: `doctor`, the inspector, search, listing, views and argument parsing.
- Git itself: its answer is a constant (`MainTree`).
- Damage to the tables from outside memriver, and a comparison the file system cannot answer, which only refuses.
- The cache of uv, cleaned best effort after everything else of an uninstall.
