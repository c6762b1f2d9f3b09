-------------------------------- MODULE Setup --------------------------------
(***************************************************************************)
(* The commands that put memriver in place and take it away, composed:      *)
(* memriver install (the store, then the harnesses' files), memriver dream  *)
(* init (the schedule), and memriver uninstall (the files, then the         *)
(* schedule, then with --purge-data the store), one after another, while    *)
(* the user swaps the store's directory and other memriver processes write  *)
(* a store for the first time.  What the user does to the files is in       *)
(* Install, run by itself.                                                  *)
(***************************************************************************)
EXTENDS Install, Schedule

CONSTANTS
    MaxCommands,     \* bound: commands run
    Objects,         \* the directories that may stand at the store's path
    MaxSwaps,        \* bound: swaps of the store's directory
    Writers          \* other memriver processes that write to the store

VARIABLES
    cmd,       \* which stage of which command, and what it was told
    store,     \* the directory at the store's path, and each directory's content
    writer     \* writer[w]: a first write by w, the install command's own included

setupVars == <<installVars, scheduleVars, cmd, store, writer>>

Installer == "installer"
AllWriters == Writers \cup {Installer}
None == "none"
ASSUME WritersAssumption == None \notin Writers \cup Objects /\ Installer \notin Writers
Free == [pc |-> "idle", dir |-> None, missing |-> FALSE]

AllHarnesses == DOMAIN HARNESSES
NoCommand == [kind |-> "none", stage |-> "over", ok |-> TRUE, purge |-> FALSE, yes |-> FALSE,
              shown |-> None, opened |-> None, listed |-> {}, storeStep |-> FALSE,
              harnesses |-> <<>>, count |-> 0]

SetupInit ==
    /\ InstallInit /\ ScheduleInit
    /\ cmd = NoCommand
    /\ store = [at |-> None, db |-> [o \in Objects |-> "none"], globals |-> [o \in Objects |-> 0],
                other |-> [o \in Objects |-> FALSE], swaps |-> 0, lock |-> [o \in Objects |-> None]]
    /\ writer = [w \in AllWriters |-> Free]

\* "none" no file, "empty" a file with no schema yet, "ready" the schema.
StoreReady == store.at # None /\ store.globals[store.at] > 0

Stage(stage) == cmd' = [cmd EXCEPT !.stage = stage]
Exit(ok) == cmd' = [cmd EXCEPT !.stage = "over", !.ok = ok]
-----------------------------------------------------------------------------
(* A first write: Database.write and ensure_global *)

\* exists(): no file yet means it is created, by whoever is first.
OpenStore(w) ==
    /\ writer[w].pc = "idle"
    /\ writer' = [writer EXCEPT ![w] =
                     IF store.at # None /\ store.db[store.at] # "none"
                     THEN [Free EXCEPT !.pc = "opened", !.dir = store.at]
                     ELSE [Free EXCEPT !.pc = "creating"]]
    /\ UNCHANGED store

\* mkdir, then O_CREAT with O_EXCL; a file that is there by now is used.
CreateFile(w) ==
    /\ writer[w].pc = "creating"
    /\ \E dir \in IF store.at # None THEN {store.at}
                  ELSE {o \in Objects : store.db[o] = "none" /\ ~store.other[o]} :
          /\ store' = [store EXCEPT !.at = dir,
                          !.db[dir] = IF @ = "none" THEN "empty" ELSE @]
          /\ writer' = [writer EXCEPT ![w] = [@ EXCEPT !.pc = "opened", !.dir = dir]]

\* Mutant: the first write looks for the global project before it has the lock.
BeginUnlocked(w) ==
    /\ writer[w].pc = "opened"
    /\ writer' = [writer EXCEPT ![w].pc = "writing",
                                ![w].missing = store.globals[writer[w].dir] = 0]
    /\ UNCHANGED store

\* BEGIN IMMEDIATE takes the write lock; the schema and the global project
\* are looked for under it.  A file unlinked since takes its writes with it.
BeginWrite(w) ==
    /\ writer[w].pc = "opened"
    /\ store.lock[writer[w].dir] = None
    /\ store' = [store EXCEPT !.lock[writer[w].dir] = w]
    /\ writer' = [writer EXCEPT ![w].pc = "writing",
                                ![w].missing = store.globals[writer[w].dir] = 0]

CommitWrite(w) ==
    LET dir == writer[w].dir  unlinked == store.db[dir] = "none" IN
    /\ writer[w].pc = "writing"
    /\ store' = [store EXCEPT !.lock[dir] = None,
                    !.db[dir] = IF unlinked THEN "none" ELSE "ready",
                    !.globals[dir] = IF writer[w].missing /\ ~unlinked THEN @ + 1 ELSE @]
    /\ writer' = [writer EXCEPT ![w].pc = "wrote"]

\* The transaction fails or the process dies: SQLite rolls it back.
FailWrite(w) ==
    /\ writer[w].pc \in {"creating", "opened", "writing"}
    /\ store' = IF writer[w].pc = "writing" THEN [store EXCEPT !.lock[writer[w].dir] = None]
                ELSE store
    /\ writer' = [writer EXCEPT ![w] = [Free EXCEPT !.pc = "failed"]]

\* Bound: others touch the store only while the command at hand does.
StoreInUse == run.pc = "store" \/ cmd.stage \in {"prompt", "purge", "emptying"}

WriterStep(w) ==
    /\ StoreInUse
    /\ \/ CreateFile(w) \/ BeginWrite(w) \/ CommitWrite(w) \/ FailWrite(w)
       \/ w # Installer /\ OpenStore(w)
    /\ UNCHANGED <<installVars, scheduleVars, cmd>>
-----------------------------------------------------------------------------
(* memriver install *)

\* The store step is planned only while there is no global project.
StartInstall ==
    /\ cmd.stage = "over" /\ cmd.count < MaxCommands
    /\ \E harnesses \in Selections :
          cmd' = [NoCommand EXCEPT !.kind = "install", !.stage = "config",
                     !.storeStep = ~StoreReady, !.harnesses = harnesses, !.count = cmd.count + 1]
    /\ run' = [NoRun EXCEPT !.number = run.number]
    /\ UNCHANGED <<files, dirs, backups, others, scheduleVars, store, writer>>

\* Planned, shown, and answered: declining the store ends the command.
\* Bound: every change is accepted or none, Install by itself takes any.
Answer ==
    /\ cmd.kind \in {"install", "uninstall"} /\ cmd.stage = "config"
    /\ \E accepted \in {{}, run.changes} :
          \/ Confirm(accepted, IF cmd.storeStep THEN "store" ELSE "checking")
          \/ cmd.storeStep /\ Confirm({}, "refused")
    /\ UNCHANGED <<scheduleVars, cmd, store, writer>>

\* The store before any harness's file: ensure_global, which may fail.
ApplyStore ==
    /\ run.pc = "store" /\ cmd.stage = "config"
    /\ \/ OpenStore(Installer) /\ UNCHANGED run
       \/ /\ writer[Installer].pc \in {"wrote", "failed"}
          /\ run' = [run EXCEPT !.pc = IF writer[Installer].pc = "wrote" THEN "checking"
                                       ELSE "refused"]
          /\ writer' = [writer EXCEPT ![Installer] = Free]
          /\ UNCHANGED store
    /\ UNCHANGED <<files, dirs, backups, others, scheduleVars, cmd>>

ConfigStep ==
    /\ cmd.stage = "config"
    /\ \/ run.pc = "idle" /\ PlanRun(cmd.kind, cmd.harnesses)
       \/ WriteStep
    /\ UNCHANGED <<scheduleVars, cmd, store, writer>>

\* run_uninstall goes on only past an exit code of 0.
ConfigEnds ==
    /\ cmd.stage = "config" /\ run.pc \in Ended
    /\ IF run.pc # "done" \/ cmd.kind = "install" THEN Exit(run.pc = "done")
       ELSE IF cmd.purge \/ ToSet(cmd.harnesses) = AllHarnesses THEN Stage("schedule")
       ELSE Exit(TRUE)
    /\ agent' = NoAgent
    /\ UNCHANGED <<installVars, plist, loaded, store, writer>>
-----------------------------------------------------------------------------
(* memriver dream init *)

StartDreamInit ==
    /\ cmd.stage = "over" /\ cmd.count < MaxCommands
    /\ StoreReady                       \* "run memriver install first"
    /\ cmd' = [NoCommand EXCEPT !.kind = "dream-init", !.stage = "schedule",
                   !.count = cmd.count + 1]
    /\ store' = [store EXCEPT !.other[store.at] = TRUE]      \* [dream] in settings.toml
    /\ agent' = NoAgent
    /\ UNCHANGED <<installVars, plist, loaded, writer>>
-----------------------------------------------------------------------------
(* memriver uninstall: the schedule, then the store *)

StartUninstall ==
    /\ cmd.stage = "over" /\ cmd.count < MaxCommands
    /\ \E purge \in BOOLEAN, harnesses \in Selections :
          cmd' = [NoCommand EXCEPT !.kind = "uninstall", !.stage = "config", !.purge = purge,
                     !.harnesses = harnesses, !.count = cmd.count + 1]
    /\ run' = [NoRun EXCEPT !.number = run.number]
    /\ UNCHANGED <<files, dirs, backups, others, scheduleVars, store, writer>>

\* Nothing is asked where there is no schedule; a declined removal goes on.
ScheduleStep ==
    /\ cmd.stage = "schedule"
    /\ \/ Look(cmd.kind = "uninstall") /\ UNCHANGED cmd
       \/ CannotLook(cmd.kind = "uninstall") /\ UNCHANGED cmd
       \/ AgentStep /\ UNCHANGED cmd
       \/ /\ agent.pc \in AgentEnded \ {"idle"}
          /\ IF agent.pc \in {"removed", "nothing"} /\ cmd.purge THEN Stage("plan-purge")
             ELSE Exit(agent.pc \in {"installed", "removed", "nothing"})
          /\ UNCHANGED scheduleVars
       \/ /\ cmd.kind = "uninstall" /\ agent.pc = "idle" /\ (plist # "absent" \/ loaded # "no")
          /\ IF cmd.purge THEN Stage("plan-purge") ELSE Exit(TRUE)
          /\ UNCHANGED scheduleVars
    /\ UNCHANGED <<installVars, store, writer>>

Content(o) == (IF store.db[o] = "none" THEN {} ELSE {"db"})
                  \cup (IF store.other[o] THEN {"other"} ELSE {})

\* plan_purge opens the directory that is shown; what it lists must be a
\* store or nothing at all.
PlanPurge ==
    /\ cmd.stage = "plan-purge"
    /\ IF store.at = None THEN Exit(TRUE)
       ELSE IF Content(store.at) # {} /\ "db" \notin Content(store.at) THEN Exit(FALSE)
       ELSE cmd' = [cmd EXCEPT !.stage = "prompt", !.shown = store.at]
    /\ UNCHANGED <<installVars, scheduleVars, store, writer>>

AnswerPurge ==
    /\ cmd.stage = "prompt"
    /\ \/ cmd' = [cmd EXCEPT !.stage = "purge", !.yes = TRUE]
       \/ Exit(TRUE)
    /\ UNCHANGED <<installVars, scheduleVars, store, writer>>

\* Mutant: what stands at the path is taken for what was shown.
OpenPurgeByName ==
    /\ cmd.stage = "purge" /\ store.at # None
    /\ cmd' = [cmd EXCEPT !.stage = "emptying", !.opened = store.at, !.listed = Content(store.at)]
    /\ UNCHANGED <<installVars, scheduleVars, store, writer>>

\* The leaf is opened again through its parent and must be the one shown.
OpenPurge ==
    /\ cmd.stage = "purge"
    /\ IF store.at # cmd.shown THEN Exit(FALSE)
       ELSE cmd' = [cmd EXCEPT !.stage = "emptying", !.opened = store.at,
                                !.listed = Content(store.at)]
    /\ UNCHANGED <<installVars, scheduleVars, store, writer>>

\* The directory opened above is emptied, wherever it has been moved since.
EmptyDirectory ==
    /\ cmd.stage = "emptying" /\ cmd.listed # {}
    /\ \E child \in cmd.listed :
          /\ cmd' = [cmd EXCEPT !.listed = @ \ {child}]
          /\ store' = IF child = "db" THEN [store EXCEPT !.db[cmd.opened] = "none",
                                                         !.globals[cmd.opened] = 0]
                      ELSE [store EXCEPT !.other[cmd.opened] = FALSE]
    /\ UNCHANGED <<installVars, scheduleVars, writer>>

\* The emptied directory goes by name: the name is looked at once more.
DetachRoot ==
    /\ cmd.stage = "emptying" /\ cmd.listed = {}
    /\ LET removed == store.at = cmd.opened /\ Content(cmd.opened) = {} IN
       /\ store' = IF removed THEN [store EXCEPT !.at = None] ELSE store
       /\ Exit(removed)
    /\ UNCHANGED <<installVars, scheduleVars, writer>>

PurgeFails ==
    /\ cmd.stage \in {"purge", "emptying"}
    /\ Exit(FALSE)
    /\ UNCHANGED <<installVars, scheduleVars, store, writer>>

PurgeStep == PlanPurge \/ AnswerPurge \/ OpenPurge \/ EmptyDirectory \/ DetachRoot \/ PurgeFails

\* The user puts another directory at the store's path.
SwapStore ==
    /\ store.swaps < MaxSwaps
    /\ StoreInUse
    /\ \E o \in Objects \ {store.at} :
          store' = [store EXCEPT !.at = o, !.swaps = @ + 1, !.other[o] = TRUE]
    /\ UNCHANGED <<installVars, scheduleVars, cmd, writer>>

SetupNext ==
    \/ StartInstall \/ StartDreamInit \/ StartUninstall
    \/ Answer \/ ApplyStore \/ ConfigStep \/ ConfigEnds \/ ScheduleStep \/ PurgeStep
    \/ SwapStore
    \/ \E w \in AllWriters : WriterStep(w)

SetupSpec == SetupInit /\ [][SetupNext]_setupVars
-----------------------------------------------------------------------------
\* A purge takes what the confirmed directory held, whatever stands at its
\* path by then, and nothing of any other directory.
PurgedAsConfirmed ==
    [][\A o \in Objects :
          Content(o) \ Content(o)' # {} => cmd.yes /\ o = cmd.shown]_setupVars

\* However many processes write to a new store first, it has one global
\* project, and the file of a write that succeeded has its schema.
OneGlobal ==
    \A o \in Objects :
        /\ store.globals[o] <= 1
        /\ store.globals[o] > 0 => store.db[o] = "ready"
=============================================================================
