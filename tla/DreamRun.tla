------------------------------ MODULE DreamRun ------------------------------
(***************************************************************************)
(* Dream runs.  A run takes a file lock, closes what a crash left behind,  *)
(* inserts its row, applies changes and tells each of them in a report it  *)
(* appends to, removes old reports and writes a footer; only then its row  *)
(* says that it completed.  The row, the report and the changes live in    *)
(* three places, no step writes two of them, and any step may fail, be     *)
(* killed, or take effect and raise all the same.  What the phases ask to  *)
(* change is left open.                                                    *)
(***************************************************************************)
EXTENDS Integers, Sequences, SequencesExt

CONSTANTS
    Run,          \* run ids
    Viewer,       \* `memriver dream report`
    None,
    MaxGroups,    \* max_groups_per_run
    MaxTold       \* bound: groups of operations one run tries

ASSUME DreamAssumption ==
    /\ Viewer \notin Run /\ None \notin Run \cup {Viewer}
    /\ MaxGroups \in Nat /\ MaxTold \in Nat

VARIABLES
    runs,         \* the runs rows: id -> [status, old]
    reports,      \* the report files: id -> lines
    procs,        \* what each process does, and remembers
    lock,         \* who holds dream/.lock, or None
    committed     \* the changes core has committed: <<run, line that tells it>>

dreamVars == <<runs, reports, procs, lock, committed>>

Status == {"running", "completed", "failed", "skipped"}
Line == [kind: {"change"}, outcome: {"open", "applied", "not-applied", "unknown"}]
        \cup [kind: {"status"}, outcome: Status] \cup [kind: {"note"}, outcome: {"note"}]
Place == {"unborn", "closing", "closed", "starting", "phases", "applying", "applied",
          "refused", "pruning", "unlinked", "finishing", "failing", "noting",
          "skipping", "skipped", "over"}

\* pending: the applying line is still waiting for its outcome; footer: written.
Process == [at: Place, about: Run \cup {None}, pending: BOOLEAN, groups: 0..MaxGroups,
            footer: BOOLEAN, completed: BOOLEAN]

Live(h) == procs[h].at \notin {"unborn", "over"}
Running == {x \in DOMAIN runs : runs[x].status = "running"}
Content(r) == IF r \in DOMAIN reports THEN reports[r] ELSE <<>>
ChangeLine(outcome) == [kind |-> "change", outcome |-> outcome]
StatusLine(status) == [kind |-> "status", outcome |-> status]
NoteLine == [kind |-> "note", outcome |-> "note"]
Dangling(lines) == lines # <<>> /\ Last(lines) = ChangeLine("open")
Told(lines) == SelectSeq(lines, LAMBDA line : line.kind = "change")

Put(f, x, y) == [z \in DOMAIN f \cup {x} |-> IF z = x THEN y ELSE f[z]]
SetStatus(x, status) == runs' = [runs EXCEPT ![x].status = status]

Fresh(place) == [at |-> place, about |-> None, pending |-> FALSE, groups |-> 0,
                 footer |-> FALSE, completed |-> FALSE]

\* The process goes on at another place, or ends, and with it its hold on the lock.
GoTo(h, place) == procs' = [procs EXCEPT ![h].at = place]
Leave(h) ==
    /\ procs' = [procs EXCEPT ![h] = Fresh("over")]
    /\ lock' = IF lock = h THEN None ELSE lock

------------------------------------------------------------------------------
(* Writing a report *)

\* _complete and _unknown: the open last line gets its outcome.
Settle(lines, outcome) ==
    IF Dangling(lines) THEN Front(lines) \o <<ChangeLine(outcome)>> ELSE lines \o <<NoteLine>>

\* Report._write: what follows a pending line completes it as unknown first.
Written(r, line) ==
    (IF procs[r].pending THEN Settle(Content(r), "unknown") ELSE Content(r)) \o <<line>>

Writes(r, line) == reports' = Put(reports, r, Written(r, line))

------------------------------------------------------------------------------
(* Taking the lock; the runs a crash left running *)

\* run_lock: not blocking; a run that does not get it is a skipped one.
Start(r) ==
    /\ procs[r].at = "unborn"
    /\ IF lock = None THEN lock' = r /\ GoTo(r, "closing")
                      ELSE lock' = lock /\ GoTo(r, "skipping")
    /\ UNCHANGED <<runs, reports, committed>>

\* mark_interrupted: a file that cannot be read or written is left as it is.
MarkInterrupted(r) ==
    /\ procs[r].at = "closing"
    /\ \E x \in Running :
          /\ procs' = [procs EXCEPT ![r].at = "closed", ![r].about = x]
          /\ LET lines == Content(x)
                 told == IF Dangling(lines) THEN Settle(lines, "unknown") ELSE lines
             IN  reports' \in {Put(reports, x, told \o <<StatusLine("failed")>>), reports}
    /\ UNCHANGED <<runs, lock, committed>>

\* finish_run of that run; if it raises, this run ends with no row.
FinishInterrupted(r) ==
    /\ procs[r].at = "closed"
    /\ \/ SetStatus(procs[r].about, "failed") /\ UNCHANGED lock
          /\ procs' = [procs EXCEPT ![r] = Fresh("closing")]
       \/ UNCHANGED runs /\ Leave(r)
    /\ UNCHANGED <<reports, committed>>

\* Mutant of StartRun: the interrupted runs are not waited for.
StartRunAtOnce(r) ==
    /\ procs[r].at = "closing"
    /\ runs' = Put(runs, r, [status |-> "running", old |-> FALSE])
    /\ GoTo(r, "starting")
    /\ UNCHANGED <<reports, lock, committed>>

StartRun(r) ==
    /\ procs[r].at = "closing"
    /\ Running = {}
    /\ \/ /\ runs' = Put(runs, r, [status |-> "running", old |-> FALSE])
          /\ GoTo(r, "starting") /\ UNCHANGED lock
       \/ UNCHANGED runs /\ Leave(r)
    /\ UNCHANGED <<reports, committed>>

WriteHeader(r) ==
    /\ procs[r].at = "starting"
    /\ reports' = Put(reports, r, <<>>)
    /\ GoTo(r, "phases")
    /\ UNCHANGED <<runs, lock, committed>>

------------------------------------------------------------------------------
(* apply_group *)

\* Report.applying, within the group limit: the line is left open.  An append that
\* lands and raises leaves it open with nobody waiting for it.
BeginGroup(r) ==
    /\ procs[r].at = "phases"
    /\ procs[r].groups < MaxGroups
    /\ Len(Told(Content(r))) < MaxTold
    /\ Writes(r, ChangeLine("open"))
    /\ \/ procs' = [procs EXCEPT ![r].at = "applying", ![r].pending = TRUE]
       \/ GoTo(r, "failing")
    /\ UNCHANGED <<runs, lock, committed>>

\* MemoryService.apply commits and returns, or commits and then raises.
ApplyCommits(r) ==
    /\ procs[r].at = "applying"
    /\ committed' = committed \cup {<<r, Len(Content(r))>>}
    /\ \/ procs' = [procs EXCEPT ![r].at = "applied", ![r].groups = @ + 1]
       \/ GoTo(r, "failing")
    /\ UNCHANGED <<runs, reports, lock>>

\* It is refused (BatchConflict, ContentRejected).
ApplyRefused(r) ==
    /\ procs[r].at = "applying"
    /\ GoTo(r, "refused")
    /\ UNCHANGED <<runs, reports, lock, committed>>

Outcome(place) == IF place = "applied" THEN "applied" ELSE "not-applied"

\* Mutants of Complete: the line is not pending any more before the append is tried; a
\* refused group is tried again.
CompleteForgets(r) ==
    LET settled == Put(reports, r, Settle(Content(r), Outcome(procs[r].at))) IN
    /\ procs[r].at \in {"applied", "refused"}
    /\ \/ /\ reports' = settled
          /\ procs' = [procs EXCEPT ![r].at = "phases", ![r].pending = FALSE]
       \/ /\ reports' \in {reports, settled}
          /\ procs' = [procs EXCEPT ![r].at = "failing", ![r].pending = FALSE]
    /\ UNCHANGED <<runs, lock, committed>>
CompleteRetries(r) ==
    /\ procs[r].at \in {"applied", "refused"}
    /\ IF procs[r].at = "refused" THEN GoTo(r, "applying") /\ UNCHANGED reports
       ELSE /\ reports' = Put(reports, r, Settle(Content(r), "applied"))
            /\ procs' = [procs EXCEPT ![r].at = "phases", ![r].pending = FALSE]
    /\ UNCHANGED <<runs, lock, committed>>

\* Report._complete: pending stays set unless the append returned.
Complete(r) ==
    LET settled == Put(reports, r, Settle(Content(r), Outcome(procs[r].at))) IN
    /\ procs[r].at \in {"applied", "refused"}
    /\ \/ /\ reports' = settled
          /\ procs' = [procs EXCEPT ![r].at = "phases", ![r].pending = FALSE]
       \/ reports' \in {reports, settled} /\ GoTo(r, "failing")
    /\ UNCHANGED <<runs, lock, committed>>

\* Anything else that raises: the store, a report line, a phase.
Raise(r) ==
    /\ procs[r].at \in {"starting", "phases", "applying", "pruning", "unlinked"}
    /\ GoTo(r, "failing")
    /\ UNCHANGED <<runs, reports, lock, committed>>

EndPhases(r) ==
    /\ procs[r].at = "phases"
    /\ GoTo(r, "pruning")
    /\ UNCHANGED <<runs, reports, lock, committed>>

------------------------------------------------------------------------------
(* Retention, by a run or by `memriver dream report` *)

\* Mutant of Outdated: a run that is still running is listed too.
OutdatedRunning == {x \in DOMAIN runs : runs[x].old}

\* runs_before: started long ago, and closed.
Outdated == {x \in DOMAIN runs : runs[x].old /\ runs[x].status # "running"}

\* Mutant of Unlink: the row first.
UnlinkRowFirst(h) ==
    /\ procs[h].at = "pruning"
    /\ \E x \in Outdated :
          /\ runs' = [y \in DOMAIN runs \ {x} |-> runs[y]]
          /\ procs' = [procs EXCEPT ![h].at = "unlinked", ![h].about = x]
    /\ UNCHANGED <<reports, lock, committed>>

\* prune_reports: the file first; one that cannot be removed keeps its row.
Unlink(h) ==
    /\ procs[h].at = "pruning"
    /\ \E x \in Outdated :
          /\ reports' = [y \in DOMAIN reports \ {x} |-> reports[y]]
          /\ procs' = [procs EXCEPT ![h].at = "unlinked", ![h].about = x]
    /\ UNCHANGED <<runs, lock, committed>>

DeleteRun(h) ==
    /\ procs[h].at = "unlinked"
    /\ runs' = [y \in DOMAIN runs \ {procs[h].about} |-> runs[y]]
    /\ procs' = [procs EXCEPT ![h].at = "pruning", ![h].about = None]
    /\ UNCHANGED <<reports, lock, committed>>

\* _records takes the lock when it is free; when it is not, it only reads.
View ==
    /\ ~Live(Viewer) /\ lock = None
    /\ lock' = Viewer /\ GoTo(Viewer, "pruning")
    /\ UNCHANGED <<runs, reports, committed>>

\* It reads the rows and lets the lock go, or raises half way.
EndView ==
    /\ procs[Viewer].at \in {"pruning", "unlinked"}
    /\ Leave(Viewer)
    /\ UNCHANGED <<runs, reports, committed>>

------------------------------------------------------------------------------
(* The end of a run *)

\* Mutant of WriteFooter: the row says so whether or not the footer is there.
WriteFooterAfter(r) ==
    /\ procs[r].at = "pruning"
    /\ \/ Writes(r, StatusLine("completed")) \/ UNCHANGED reports
    /\ SetStatus(r, "completed") /\ Leave(r)
    /\ UNCHANGED committed

\* The completed footer; unless its append returns it counts as not written.
WriteFooter(r) ==
    /\ r \in Run /\ procs[r].at = "pruning"
    /\ Writes(r, StatusLine("completed"))
    /\ \/ procs' = [procs EXCEPT ![r].at = "finishing", ![r].pending = FALSE,
                                 ![r].footer = TRUE, ![r].completed = TRUE]
       \/ GoTo(r, "failing")
    /\ UNCHANGED <<runs, lock, committed>>

\* finish_run(completed).
FinishRun(r) ==
    /\ procs[r].at = "finishing"
    /\ \/ SetStatus(r, "completed") /\ Leave(r)
       \/ SetStatus(r, "completed") /\ GoTo(r, "failing") /\ UNCHANGED lock
       \/ UNCHANGED <<runs, lock>> /\ GoTo(r, "failing")
    /\ UNCHANGED <<reports, committed>>

\* The failed footer, unless one is written already; without one the row stays
\* running, for the next run to close.
FailFooter(r) ==
    /\ procs[r].at = "failing" /\ ~procs[r].footer
    /\ \/ /\ Writes(r, StatusLine("failed"))
          /\ procs' = [procs EXCEPT ![r].footer = TRUE, ![r].pending = FALSE]
          /\ UNCHANGED lock
       \/ Writes(r, StatusLine("failed")) /\ Leave(r)
       \/ UNCHANGED reports /\ Leave(r)
    /\ UNCHANGED <<runs, committed>>

\* finish_run(failed), once some footer is there.
FailRun(r) ==
    /\ procs[r].at = "failing" /\ procs[r].footer
    /\ SetStatus(r, "failed") \/ UNCHANGED runs
    /\ IF procs[r].completed THEN GoTo(r, "noting") /\ UNCHANGED lock ELSE Leave(r)
    /\ UNCHANGED <<reports, committed>>

\* After a completed footer, one more line says what the row holds.
Note(r) ==
    /\ procs[r].at = "noting"
    /\ Writes(r, NoteLine) \/ UNCHANGED reports
    /\ Leave(r)
    /\ UNCHANGED <<runs, committed>>

------------------------------------------------------------------------------
(* A skipped run: all of it without the lock *)

SkipRun(r) ==
    /\ procs[r].at = "skipping"
    /\ \/ /\ runs' = Put(runs, r, [status |-> "skipped", old |-> FALSE])
          /\ GoTo(r, "skipped") /\ UNCHANGED lock
       \/ UNCHANGED runs /\ Leave(r)
    /\ UNCHANGED <<reports, committed>>

\* Header and footer, or as much of them as can be written; then a failed footer and
\* a failed row, either of which may not come about.
ReportSkipped(r) ==
    /\ procs[r].at = "skipped"
    /\ \/ reports' = Put(reports, r, <<StatusLine("skipped")>>) /\ UNCHANGED runs
       \/ /\ \E written \in {<<>>, <<StatusLine("skipped")>>} :
                reports' \in {reports, Put(reports, r, written),
                              Put(reports, r, written \o <<StatusLine("failed")>>)}
          /\ SetStatus(r, "failed") \/ UNCHANGED runs
    /\ Leave(r)
    /\ UNCHANGED committed

------------------------------------------------------------------------------
\* The process is killed; the lock dies with it.
Kill(h) ==
    /\ Live(h)
    /\ Leave(h)
    /\ UNCHANGED <<runs, reports, committed>>

\* The retention period of a run passes; a run that writes without the lock is over
\* by then.
Age(x) ==
    /\ ~runs[x].old /\ procs[x].at # "skipped"
    /\ runs' = [runs EXCEPT ![x].old = TRUE]
    /\ UNCHANGED <<reports, procs, lock, committed>>

DreamInit ==
    /\ runs = <<>> /\ reports = <<>>
    /\ procs = [h \in Run \cup {Viewer} |-> Fresh("unborn")]
    /\ lock = None /\ committed = {}

\* What a process does once it has started.
Goes(r) ==
    \/ MarkInterrupted(r) \/ FinishInterrupted(r) \/ StartRun(r) \/ WriteHeader(r)
    \/ BeginGroup(r) \/ ApplyCommits(r) \/ ApplyRefused(r) \/ Complete(r)
    \/ Raise(r) \/ EndPhases(r) \/ Unlink(r) \/ DeleteRun(r)
    \/ WriteFooter(r) \/ FinishRun(r) \/ FailFooter(r) \/ FailRun(r) \/ Note(r)
    \/ SkipRun(r) \/ ReportSkipped(r)

ViewerGoes == Unlink(Viewer) \/ DeleteRun(Viewer) \/ EndView

DreamNext ==
    \/ \E r \in Run : Start(r) \/ Goes(r)
    \/ View \/ ViewerGoes
    \/ \E h \in Run \cup {Viewer} : Kill(h)
    \/ \E x \in DOMAIN runs : Age(x)

DreamSpec == DreamInit /\ [][DreamNext]_dreamVars

\* A started process goes on: every call it makes has a timeout.  Nobody need start
\* one, and nothing need be killed.
DreamFairSpec == DreamSpec /\ (\A r \in Run : WF_dreamVars(Goes(r))) /\ WF_dreamVars(ViewerGoes)

------------------------------------------------------------------------------
\* No two rows are running at once, and one whose process lives holds the lock: when a
\* report takes the lock, a running row is an interrupted run and never a live one.
OneRunning ==
    /\ \A x, y \in Running : x = y
    /\ \A x \in Running : Live(x) => lock = x

\* Line n tells of a change that was made.
Tells(lines, n) ==
    /\ n \in DOMAIN lines
    /\ lines[n].kind = "change" /\ lines[n].outcome \in {"applied", "unknown", "open"}
    /\ lines[n].outcome = "open" => n = Len(lines)

\* Every change core committed is told by its run's report for as long as the run's
\* row is there, as applied or as of unknown outcome, never as not applied; the line is
\* open only as the last thing in the file.
ChangesTold ==
    \A change \in committed :
        LET r == change[1]
            n == change[2]
        IN  r \in DOMAIN reports => Tells(reports[r], n)

\* A report is nobody's but a run's that has a row, so retention finds every file.
ReportsHaveRows == DOMAIN reports \subseteq DOMAIN runs

\* A run's row goes only when it is closed, past its time and without its report, and
\* a report only when its run is closed and past its time.
RetentionSpares ==
    [][/\ \A x \in DOMAIN runs \ DOMAIN runs' :
             runs[x].old /\ runs[x].status # "running" /\ x \notin DOMAIN reports
       /\ \A x \in DOMAIN reports \ DOMAIN reports' :
             runs[x].old /\ runs[x].status # "running"]_dreamVars

\* The last status line says this status.
LastWord(lines, status) ==
    \E n \in DOMAIN lines :
        /\ lines[n] = StatusLine(status)
        /\ \A later \in (n + 1)..Len(lines) : lines[later].kind # "status"

\* The row says completed only if the report's last word is completed, whatever failed
\* to be written and whoever closed the run.
CompletedIsReported ==
    \A x \in DOMAIN runs :
        runs[x].status = "completed" /\ x \in DOMAIN reports => LastWord(reports[x], "completed")

\* A process that is not killed lets the lock go again, however often writes fail.
LockComesFree == \A h \in Run \cup {Viewer} : lock = h ~> lock # h

=============================================================================
