--------------------------- MODULE DreamRunProofs ---------------------------
(***************************************************************************)
(* What TLAPS proves of dream runs, for any number of runs and any limits: *)
(* the row of one run at most says "running", every report belongs to a    *)
(* row, and retention takes away nothing that is not closed and old; every *)
(* change core committed is told by its run's report, and a row that says  *)
(* "completed" has a report that ends on that word.  Orderly relates rows, *)
(* places and the lock; Truthful, which needs it, relates the reports to   *)
(* what was committed and to what their processes remember.                *)
(***************************************************************************)
EXTENDS DreamRun, SequenceTheorems, TLAPS

Anyone == Run \cup {Viewer}
RunRow == [status: Status, old: BOOLEAN]

\* Where a process is between taking the run lock and letting it go.
Locked == Place \ {"unborn", "over", "skipping", "skipped"}

\* Where a run has no row yet, where it certainly has one, and where it is not
\* closed.
Rowless == {"unborn", "closing", "closed", "skipping"}
Unclosed == {"starting", "phases", "applying", "applied", "refused", "pruning",
             "unlinked", "finishing"}
Rowed == Unclosed \cup {"failing", "noting", "skipped"}

RowsTyped ==
    /\ DOMAIN runs \subseteq Run
    /\ runs \in [DOMAIN runs -> RunRow]

\* A process, with no bound on the groups it has applied.
Worker == [at: Place, about: Run \cup {None}, pending: BOOLEAN, groups: Nat,
           footer: BOOLEAN, completed: BOOLEAN]

ProcsTyped == procs \in [Anyone -> Worker]

HoldersLocked == \A h \in Anyone : procs[h].at \in Locked => lock = h

RowsFollow ==
    \A r \in Run :
        /\ procs[r].at \in Rowless => r \notin DOMAIN runs
        /\ procs[r].at \in Rowed => r \in DOMAIN runs
        /\ procs[r].at \in Unclosed => runs[r].status = "running"
        /\ procs[r].at = "skipped" => runs[r] = [status |-> "skipped", old |-> FALSE]

\* The run a process is about: interrupted, while it is being closed; closed and
\* old, while it is being removed, and then its file is gone and nobody writes it.
Subjects ==
    \A h \in Anyone :
        /\ procs[h].at = "closed" => procs[h].about \in Running
        /\ procs[h].at = "unlinked" =>
              procs[h].about \in Outdated /\ procs[h].about \notin DOMAIN reports

OneRow == \A x, y \in Running : x = y

\* The inductive invariant.
Orderly ==
    /\ RowsTyped /\ ProcsTyped /\ HoldersLocked /\ RowsFollow
    /\ Subjects /\ OneRow /\ ReportsHaveRows

(* What reports say: strengthenings of ChangesTold and CompletedIsReported *)

ReportsTyped == reports \in [DOMAIN reports -> Seq(Line)]
CommitsTyped == committed \subseteq Run \X Nat

Open(r, n) == r \in DOMAIN reports /\ reports[r][n].outcome = "open"

\* What r committed is told; a line that is left open is r's to settle while r
\* lives, and the last line for whoever closes r; a report that is gone is gone
\* for good, or a later one would not tell.
RunTells(r) ==
    \A n \in Nat :
        <<r, n>> \in committed =>
            /\ procs[r].at \notin Rowless \cup {"starting", "skipped"}
            /\ r \in DOMAIN reports => Tells(reports[r], n)
            /\ r \notin DOMAIN reports =>
                  /\ procs[r].at = "over"
                  /\ r \in DOMAIN runs => runs[r].status # "running"
            /\ Open(r, n) /\ procs[r].at # "over" => procs[r].pending
            /\ procs[r].at \in {"applying", "refused"} => n # Len(reports[r])

\* While a group is applied its line is open and waited for.
RunWaits(r) ==
    /\ procs[r].at \in {"applying", "applied", "refused"} => procs[r].pending /\ r \in DOMAIN reports
    /\ procs[r].at \in {"applying", "refused"} => Dangling(reports[r])

\* A row becomes "completed" only behind a completed footer, which stays the last word.
RunCloses(r) ==
    /\ procs[r].at \in Rowless \cup (Unclosed \ {"finishing"}) =>
          ~procs[r].footer /\ ~procs[r].completed
    /\ procs[r].at \in {"finishing", "noting"} => procs[r].footer /\ procs[r].completed
    /\ procs[r].at = "failing" =>
          /\ procs[r].completed => procs[r].footer
          /\ ~procs[r].completed => runs[r].status = "running"
    /\ procs[r].at \in {"finishing", "failing", "noting"} /\ procs[r].completed =>
          r \in DOMAIN reports /\ LastWord(reports[r], "completed")
    /\ r \in DOMAIN runs /\ runs[r].status = "completed" /\ r \in DOMAIN reports =>
          LastWord(reports[r], "completed")

Truthful ==
    /\ ReportsTyped /\ CommitsTyped
    /\ \A r \in Run : RunTells(r) /\ RunWaits(r) /\ RunCloses(r)

LEMMA OrderlyInit == DreamInit => Orderly
<1> SUFFICES ASSUME DreamInit PROVE Orderly
  OBVIOUS
<1>1. runs = <<>> /\ reports = <<>> /\ DOMAIN runs = {} /\ DOMAIN reports = {}
  BY DEF DreamInit
<1>2. \A h \in Anyone : procs[h].at = "unborn"
  BY DEF DreamInit, Fresh, Anyone
<1>3. ProcsTyped
  BY DEF DreamInit, Fresh, Anyone, ProcsTyped, Worker, Place
<1>4. RowsTyped
  BY <1>1 DEF RowsTyped
<1>5. HoldersLocked /\ RowsFollow /\ Subjects
  BY <1>1, <1>2
  DEF HoldersLocked, RowsFollow, Subjects, Locked, Unclosed, Rowed, Anyone
<1>6. OneRow /\ ReportsHaveRows
  BY <1>1 DEF OneRow, Running, ReportsHaveRows
<1> QED
  BY <1>3, <1>4, <1>5, <1>6 DEF Orderly

------------------------------------------------------------------------------
LEMMA OrderlyStart ==
    ASSUME Orderly, NEW r \in Run, Start(r)
    PROVE  Orderly'
<1> USE DEF Anyone
<1>1. ProcsTyped'
  BY DEF Orderly, Start, GoTo, ProcsTyped, Worker, Place
<1>2. \A h \in Anyone : h # r => procs'[h] = procs[h]
  BY DEF Orderly, Start, GoTo, ProcsTyped
<1>3. /\ procs'[r].at \in {"closing", "skipping"}
      /\ procs'[r].at = "closing" => lock' = r /\ lock = None
      /\ procs'[r].at = "skipping" => lock' = lock
  BY DEF Orderly, Start, GoTo, ProcsTyped, Worker
<1>4. runs' = runs /\ reports' = reports /\ procs[r].at = "unborn"
  BY DEF Start
<1>5. HoldersLocked'
  BY <1>2, <1>3, DreamAssumption DEF Orderly, HoldersLocked, Locked
<1>6. RowsFollow'
  BY <1>2, <1>3, <1>4 DEF Orderly, RowsFollow, Rowless, Unclosed, Rowed
<1>7. Subjects'
  BY <1>2, <1>3, <1>4 DEF Orderly, Subjects, Running, Outdated
<1>8. RowsTyped' /\ OneRow' /\ ReportsHaveRows'
  BY <1>4 DEF Orderly, RowsTyped, OneRow, ReportsHaveRows, Running
<1> QED
  BY <1>1, <1>5, <1>6, <1>7, <1>8 DEF Orderly

\* A process that ends, or is killed.
LEMMA OrderlyLeave ==
    ASSUME Orderly, NEW h \in Anyone, Leave(h), UNCHANGED <<runs, reports>>
    PROVE  Orderly'
<1> USE DEF Anyone
<1>1. /\ ProcsTyped'
      /\ \A k \in Anyone : k # h => procs'[k] = procs[k]
      /\ procs'[h].at = "over"
  BY DEF Orderly, Leave, Fresh, ProcsTyped, Worker, Place
<1>2. lock' = IF lock = h THEN None ELSE lock
  BY DEF Leave
<1>3. HoldersLocked'
  BY <1>1, <1>2, DreamAssumption DEF Orderly, HoldersLocked, Locked
<1>4. RowsFollow'
  BY <1>1 DEF Orderly, RowsFollow, Rowless, Unclosed, Rowed
<1>5. Subjects'
  BY <1>1 DEF Orderly, Subjects, Running, Outdated
<1>6. RowsTyped' /\ OneRow' /\ ReportsHaveRows'
  BY DEF Orderly, RowsTyped, OneRow, ReportsHaveRows, Running
<1> QED
  BY <1>1, <1>3, <1>4, <1>5, <1>6 DEF Orderly

\* A run that has its row and holds the lock goes on: it writes no report but its
\* own, and closes its row at most.
LEMMA OrderlyWork ==
    ASSUME Orderly, NEW r \in Run,
           procs[r].at \in Rowed \ {"skipped"},
           ProcsTyped',
           \A k \in Anyone : k # r => procs'[k] = procs[k],
           procs'[r].at \in (Rowed \ {"skipped", "unlinked"}) \cup {"over"},
           procs'[r].at \in Unclosed => procs[r].at \in Unclosed,
           lock' = lock \/ (procs'[r].at = "over" /\ lock' = None),
           DOMAIN reports' \subseteq DOMAIN reports \cup {r},
           \/ runs' = runs
           \/ /\ procs'[r].at \notin Unclosed
              /\ \E status \in Status \ {"running"} : SetStatus(r, status)
    PROVE  Orderly'
<1> USE DEF Anyone
<1>1. lock = r /\ r \in DOMAIN runs
  BY DEF Orderly, HoldersLocked, RowsFollow, Rowed, Unclosed, Locked, Place
<1>2. \A k \in Anyone : k # r => procs'[k].at \notin Locked
  BY <1>1 DEF Orderly, HoldersLocked
<1>3. /\ DOMAIN runs' = DOMAIN runs
      /\ \A x \in DOMAIN runs : x # r => runs'[x] = runs[x]
      /\ runs'[r].status = "running" => runs[r].status = "running"
      /\ RowsTyped'
      /\ procs'[r].at \in Unclosed => runs' = runs
  BY <1>1 DEF Orderly, RowsTyped, RunRow, SetStatus
<1>4. HoldersLocked'
  BY <1>1, <1>2 DEF Locked, HoldersLocked
<1>5. RowsFollow'
  BY <1>1, <1>3 DEF Orderly, RowsFollow, Rowless, Unclosed, Rowed
<1>6. Subjects'
  BY <1>2 DEF Subjects, Locked, Rowed, Unclosed, Place
<1>7. OneRow'
  BY <1>3 DEF Orderly, OneRow, Running
<1>8. ReportsHaveRows'
  BY <1>1, <1>3 DEF Orderly, ReportsHaveRows
<1> QED
  BY <1>3, <1>4, <1>5, <1>6, <1>7, <1>8 DEF Orderly

------------------------------------------------------------------------------
(* The steps of a run that has its row *)

LEMMA OrderlyWriteHeader ==
    ASSUME Orderly, NEW r \in Run, WriteHeader(r)
    PROVE  Orderly'
<1> USE DEF Anyone
<1>1. procs \in [Anyone -> Worker] /\ procs[r] \in Worker
  BY DEF Orderly, ProcsTyped
<1>2. /\ ProcsTyped'
      /\ \A k \in Anyone : k # r => procs'[k] = procs[k]
  BY <1>1 DEF WriteHeader, GoTo, ProcsTyped, Worker, Place
<1>3. /\ procs[r].at \in Rowed \ {"skipped"}
      /\ procs'[r].at \in (Rowed \ {"skipped", "unlinked"}) \cup {"over"}
      /\ procs'[r].at \in Unclosed => procs[r].at \in Unclosed
  BY <1>1 DEF WriteHeader, GoTo, Worker, Rowed, Unclosed
<1>4. DOMAIN reports' \subseteq DOMAIN reports \cup {r}
  BY DEF WriteHeader, Put
<1>5. lock' = lock
  BY DEF WriteHeader
<1>6. runs' = runs
  BY DEF WriteHeader
<1> QED
  BY <1>2, <1>3, <1>4, <1>5, <1>6, OrderlyWork

LEMMA OrderlyBeginGroup ==
    ASSUME Orderly, NEW r \in Run, BeginGroup(r)
    PROVE  Orderly'
<1> USE DEF Anyone
<1>1. procs \in [Anyone -> Worker] /\ procs[r] \in Worker
  BY DEF Orderly, ProcsTyped
<1>2. /\ ProcsTyped'
      /\ \A k \in Anyone : k # r => procs'[k] = procs[k]
  BY <1>1 DEF BeginGroup, GoTo, ProcsTyped, Worker, Place
<1>3. /\ procs[r].at \in Rowed \ {"skipped"}
      /\ procs'[r].at \in (Rowed \ {"skipped", "unlinked"}) \cup {"over"}
      /\ procs'[r].at \in Unclosed => procs[r].at \in Unclosed
  BY <1>1 DEF BeginGroup, GoTo, Worker, Rowed, Unclosed
<1>4. DOMAIN reports' \subseteq DOMAIN reports \cup {r}
  BY DEF BeginGroup, Writes, Put
<1>5. lock' = lock
  BY DEF BeginGroup
<1>6. runs' = runs
  BY DEF BeginGroup
<1> QED
  BY <1>2, <1>3, <1>4, <1>5, <1>6, OrderlyWork

LEMMA OrderlyApplyCommits ==
    ASSUME Orderly, NEW r \in Run, ApplyCommits(r)
    PROVE  Orderly'
<1> USE DEF Anyone
<1>1. procs \in [Anyone -> Worker] /\ procs[r] \in Worker
  BY DEF Orderly, ProcsTyped
<1>2. /\ ProcsTyped'
      /\ \A k \in Anyone : k # r => procs'[k] = procs[k]
  BY <1>1 DEF ApplyCommits, GoTo, ProcsTyped, Worker, Place
<1>3. /\ procs[r].at \in Rowed \ {"skipped"}
      /\ procs'[r].at \in (Rowed \ {"skipped", "unlinked"}) \cup {"over"}
      /\ procs'[r].at \in Unclosed => procs[r].at \in Unclosed
  BY <1>1 DEF ApplyCommits, GoTo, Worker, Rowed, Unclosed
<1>4. DOMAIN reports' \subseteq DOMAIN reports \cup {r}
  BY DEF ApplyCommits
<1>5. lock' = lock
  BY DEF ApplyCommits
<1>6. runs' = runs
  BY DEF ApplyCommits
<1> QED
  BY <1>2, <1>3, <1>4, <1>5, <1>6, OrderlyWork

LEMMA OrderlyApplyRefused ==
    ASSUME Orderly, NEW r \in Run, ApplyRefused(r)
    PROVE  Orderly'
<1> USE DEF Anyone
<1>1. procs \in [Anyone -> Worker] /\ procs[r] \in Worker
  BY DEF Orderly, ProcsTyped
<1>2. /\ ProcsTyped'
      /\ \A k \in Anyone : k # r => procs'[k] = procs[k]
  BY <1>1 DEF ApplyRefused, GoTo, ProcsTyped, Worker, Place
<1>3. /\ procs[r].at \in Rowed \ {"skipped"}
      /\ procs'[r].at \in (Rowed \ {"skipped", "unlinked"}) \cup {"over"}
      /\ procs'[r].at \in Unclosed => procs[r].at \in Unclosed
  BY <1>1 DEF ApplyRefused, GoTo, Worker, Rowed, Unclosed
<1>4. DOMAIN reports' \subseteq DOMAIN reports \cup {r}
  BY DEF ApplyRefused
<1>5. lock' = lock
  BY DEF ApplyRefused
<1>6. runs' = runs
  BY DEF ApplyRefused
<1> QED
  BY <1>2, <1>3, <1>4, <1>5, <1>6, OrderlyWork

LEMMA OrderlyComplete ==
    ASSUME Orderly, NEW r \in Run, Complete(r)
    PROVE  Orderly'
<1> USE DEF Anyone
<1>1. procs \in [Anyone -> Worker] /\ procs[r] \in Worker
  BY DEF Orderly, ProcsTyped
<1>2. /\ ProcsTyped'
      /\ \A k \in Anyone : k # r => procs'[k] = procs[k]
  BY <1>1 DEF Complete, GoTo, ProcsTyped, Worker, Place
<1>3. /\ procs[r].at \in Rowed \ {"skipped"}
      /\ procs'[r].at \in (Rowed \ {"skipped", "unlinked"}) \cup {"over"}
      /\ procs'[r].at \in Unclosed => procs[r].at \in Unclosed
  BY <1>1 DEF Complete, GoTo, Worker, Rowed, Unclosed
<1>4. DOMAIN reports' \subseteq DOMAIN reports \cup {r}
  BY DEF Complete, Put
<1>5. lock' = lock
  BY DEF Complete
<1>6. runs' = runs
  BY DEF Complete
<1> QED
  BY <1>2, <1>3, <1>4, <1>5, <1>6, OrderlyWork

LEMMA OrderlyRaise ==
    ASSUME Orderly, NEW r \in Run, Raise(r)
    PROVE  Orderly'
<1> USE DEF Anyone
<1>1. procs \in [Anyone -> Worker] /\ procs[r] \in Worker
  BY DEF Orderly, ProcsTyped
<1>2. /\ ProcsTyped'
      /\ \A k \in Anyone : k # r => procs'[k] = procs[k]
  BY <1>1 DEF Raise, GoTo, ProcsTyped, Worker, Place
<1>3. /\ procs[r].at \in Rowed \ {"skipped"}
      /\ procs'[r].at \in (Rowed \ {"skipped", "unlinked"}) \cup {"over"}
      /\ procs'[r].at \in Unclosed => procs[r].at \in Unclosed
  BY <1>1 DEF Raise, GoTo, Worker, Rowed, Unclosed
<1>4. DOMAIN reports' \subseteq DOMAIN reports \cup {r}
  BY DEF Raise
<1>5. lock' = lock
  BY DEF Raise
<1>6. runs' = runs
  BY DEF Raise
<1> QED
  BY <1>2, <1>3, <1>4, <1>5, <1>6, OrderlyWork

LEMMA OrderlyEndPhases ==
    ASSUME Orderly, NEW r \in Run, EndPhases(r)
    PROVE  Orderly'
<1> USE DEF Anyone
<1>1. procs \in [Anyone -> Worker] /\ procs[r] \in Worker
  BY DEF Orderly, ProcsTyped
<1>2. /\ ProcsTyped'
      /\ \A k \in Anyone : k # r => procs'[k] = procs[k]
  BY <1>1 DEF EndPhases, GoTo, ProcsTyped, Worker, Place
<1>3. /\ procs[r].at \in Rowed \ {"skipped"}
      /\ procs'[r].at \in (Rowed \ {"skipped", "unlinked"}) \cup {"over"}
      /\ procs'[r].at \in Unclosed => procs[r].at \in Unclosed
  BY <1>1 DEF EndPhases, GoTo, Worker, Rowed, Unclosed
<1>4. DOMAIN reports' \subseteq DOMAIN reports \cup {r}
  BY DEF EndPhases
<1>5. lock' = lock
  BY DEF EndPhases
<1>6. runs' = runs
  BY DEF EndPhases
<1> QED
  BY <1>2, <1>3, <1>4, <1>5, <1>6, OrderlyWork

LEMMA OrderlyWriteFooter ==
    ASSUME Orderly, NEW r \in Run, WriteFooter(r)
    PROVE  Orderly'
<1> USE DEF Anyone
<1>1. procs \in [Anyone -> Worker] /\ procs[r] \in Worker
  BY DEF Orderly, ProcsTyped
<1>2. /\ ProcsTyped'
      /\ \A k \in Anyone : k # r => procs'[k] = procs[k]
  BY <1>1 DEF WriteFooter, GoTo, ProcsTyped, Worker, Place
<1>3. /\ procs[r].at \in Rowed \ {"skipped"}
      /\ procs'[r].at \in (Rowed \ {"skipped", "unlinked"}) \cup {"over"}
      /\ procs'[r].at \in Unclosed => procs[r].at \in Unclosed
  BY <1>1 DEF WriteFooter, GoTo, Worker, Rowed, Unclosed
<1>4. DOMAIN reports' \subseteq DOMAIN reports \cup {r}
  BY DEF WriteFooter, Writes, Put
<1>5. lock' = lock
  BY DEF WriteFooter
<1>6. runs' = runs
  BY DEF WriteFooter
<1> QED
  BY <1>2, <1>3, <1>4, <1>5, <1>6, OrderlyWork

LEMMA OrderlyFinishRun ==
    ASSUME Orderly, NEW r \in Run, FinishRun(r)
    PROVE  Orderly'
<1> USE DEF Anyone
<1>1. procs \in [Anyone -> Worker] /\ procs[r] \in Worker
  BY DEF Orderly, ProcsTyped
<1>2. /\ ProcsTyped'
      /\ \A k \in Anyone : k # r => procs'[k] = procs[k]
  <2>1. CASE procs' = [procs EXCEPT ![r] = Fresh("over")]
    BY <1>1, <2>1 DEF Fresh, ProcsTyped, Worker, Place
  <2>2. CASE GoTo(r, "failing")
    BY <1>1, <2>2 DEF GoTo, ProcsTyped, Worker, Place
  <2> QED
    BY <2>1, <2>2 DEF FinishRun, Leave
<1>3. /\ procs[r].at \in Rowed \ {"skipped"}
      /\ procs'[r].at \in (Rowed \ {"skipped", "unlinked"}) \cup {"over"}
      /\ procs'[r].at \in Unclosed => procs[r].at \in Unclosed
  BY <1>1 DEF FinishRun, GoTo, Leave, Fresh, Worker, Rowed, Unclosed
<1>4. DOMAIN reports' \subseteq DOMAIN reports \cup {r}
  BY DEF FinishRun
<1>5. lock' = lock \/ (procs'[r].at = "over" /\ lock' = None)
  BY <1>1, <1>3 DEF FinishRun, Leave, Fresh, Orderly, HoldersLocked, Rowed, Unclosed, Locked, Place
<1>6. \/ runs' = runs
      \/ /\ procs'[r].at \notin Unclosed
         /\ \E status \in Status \ {"running"} : SetStatus(r, status)
  BY <1>1 DEF FinishRun, GoTo, Leave, Fresh, Worker, Unclosed, Status
<1> QED
  BY <1>2, <1>3, <1>4, <1>5, <1>6, OrderlyWork

LEMMA OrderlyFailFooter ==
    ASSUME Orderly, NEW r \in Run, FailFooter(r)
    PROVE  Orderly'
<1> USE DEF Anyone
<1>1. procs \in [Anyone -> Worker] /\ procs[r] \in Worker
  BY DEF Orderly, ProcsTyped
<1>2. /\ ProcsTyped'
      /\ \A k \in Anyone : k # r => procs'[k] = procs[k]
  <2>1. CASE procs' = [procs EXCEPT ![r] = Fresh("over")]
    BY <1>1, <2>1 DEF Fresh, ProcsTyped, Worker, Place
  <2>2. CASE procs' = [procs EXCEPT ![r].footer = TRUE, ![r].pending = FALSE]
    BY <1>1, <2>2 DEF GoTo, ProcsTyped, Worker, Place
  <2> QED
    BY <2>1, <2>2 DEF FailFooter, Leave
<1>3. /\ procs[r].at \in Rowed \ {"skipped"}
      /\ procs'[r].at \in (Rowed \ {"skipped", "unlinked"}) \cup {"over"}
      /\ procs'[r].at \in Unclosed => procs[r].at \in Unclosed
  BY <1>1 DEF FailFooter, GoTo, Leave, Fresh, Worker, Rowed, Unclosed
<1>4. DOMAIN reports' \subseteq DOMAIN reports \cup {r}
  BY DEF FailFooter, Writes, Put
<1>5. lock' = lock \/ (procs'[r].at = "over" /\ lock' = None)
  BY <1>1, <1>3 DEF FailFooter, Leave, Fresh, Orderly, HoldersLocked, Rowed, Unclosed, Locked, Place
<1>6. runs' = runs
  BY DEF FailFooter
<1> QED
  BY <1>2, <1>3, <1>4, <1>5, <1>6, OrderlyWork

LEMMA OrderlyFailRun ==
    ASSUME Orderly, NEW r \in Run, FailRun(r)
    PROVE  Orderly'
<1> USE DEF Anyone
<1>1. procs \in [Anyone -> Worker] /\ procs[r] \in Worker
  BY DEF Orderly, ProcsTyped
<1>2. /\ ProcsTyped'
      /\ \A k \in Anyone : k # r => procs'[k] = procs[k]
  <2>1. CASE procs' = [procs EXCEPT ![r] = Fresh("over")]
    BY <1>1, <2>1 DEF Fresh, ProcsTyped, Worker, Place
  <2>2. CASE GoTo(r, "noting")
    BY <1>1, <2>2 DEF GoTo, ProcsTyped, Worker, Place
  <2> QED
    BY <2>1, <2>2 DEF FailRun, Leave
<1>3. /\ procs[r].at \in Rowed \ {"skipped"}
      /\ procs'[r].at \in (Rowed \ {"skipped", "unlinked"}) \cup {"over"}
      /\ procs'[r].at \in Unclosed => procs[r].at \in Unclosed
  BY <1>1 DEF FailRun, GoTo, Leave, Fresh, Worker, Rowed, Unclosed
<1>4. DOMAIN reports' \subseteq DOMAIN reports \cup {r}
  BY DEF FailRun
<1>5. lock' = lock \/ (procs'[r].at = "over" /\ lock' = None)
  BY <1>1, <1>3 DEF FailRun, Leave, Fresh, Orderly, HoldersLocked, Rowed, Unclosed, Locked, Place
<1>6. \/ runs' = runs
      \/ /\ procs'[r].at \notin Unclosed
         /\ \E status \in Status \ {"running"} : SetStatus(r, status)
  BY <1>1 DEF FailRun, GoTo, Leave, Fresh, Worker, Unclosed, Status
<1> QED
  BY <1>2, <1>3, <1>4, <1>5, <1>6, OrderlyWork

LEMMA OrderlyNote ==
    ASSUME Orderly, NEW r \in Run, Note(r)
    PROVE  Orderly'
<1> USE DEF Anyone
<1>1. procs \in [Anyone -> Worker] /\ procs[r] \in Worker
  BY DEF Orderly, ProcsTyped
<1>2. /\ ProcsTyped'
      /\ \A k \in Anyone : k # r => procs'[k] = procs[k]
  <2>1. CASE procs' = [procs EXCEPT ![r] = Fresh("over")]
    BY <1>1, <2>1 DEF Fresh, ProcsTyped, Worker, Place
  <2> QED
    BY <2>1 DEF Note, Leave
<1>3. /\ procs[r].at \in Rowed \ {"skipped"}
      /\ procs'[r].at \in (Rowed \ {"skipped", "unlinked"}) \cup {"over"}
      /\ procs'[r].at \in Unclosed => procs[r].at \in Unclosed
  BY <1>1 DEF Note, GoTo, Leave, Fresh, Worker, Rowed, Unclosed
<1>4. DOMAIN reports' \subseteq DOMAIN reports \cup {r}
  BY DEF Note, Writes, Put
<1>5. lock' = lock \/ (procs'[r].at = "over" /\ lock' = None)
  BY <1>1, <1>3 DEF Note, Leave, Fresh, Orderly, HoldersLocked, Rowed, Unclosed, Locked, Place
<1>6. runs' = runs
  BY DEF Note
<1> QED
  BY <1>2, <1>3, <1>4, <1>5, <1>6, OrderlyWork

------------------------------------------------------------------------------
(* The steps of a run that has no row yet *)

LEMMA OrderlyMarkInterrupted ==
    ASSUME Orderly, NEW r \in Run, MarkInterrupted(r)
    PROVE  Orderly'
<1> USE DEF Anyone
<1>1. procs \in [Anyone -> Worker] /\ procs[r] \in Worker
  BY DEF Orderly, ProcsTyped
<1>2. PICK x \in Running : procs' = [procs EXCEPT ![r].at = "closed", ![r].about = x]
                           /\ DOMAIN reports' \subseteq DOMAIN reports \cup {x}
  BY DEF MarkInterrupted, Put
<1>3. x \in DOMAIN runs /\ x \in Run
  BY DEF Orderly, RowsTyped, Running
<1>4. /\ ProcsTyped'
      /\ \A k \in Anyone : k # r => procs'[k] = procs[k]
      /\ procs'[r].at = "closed" /\ procs'[r].about = x
  BY <1>1, <1>2, <1>3 DEF ProcsTyped, Worker, Place
<1>5. runs' = runs /\ lock' = lock /\ lock = r /\ procs[r].at = "closing"
  BY DEF MarkInterrupted, Orderly, HoldersLocked, Locked, Place
<1>6. HoldersLocked' /\ RowsFollow'
  BY <1>4, <1>5 DEF Orderly, HoldersLocked, Locked, Place, RowsFollow, Rowless, Unclosed, Rowed
<1>7. Subjects'
  BY <1>4, <1>5 DEF Orderly, HoldersLocked, Subjects, Locked, Place, Running
<1>8. RowsTyped' /\ OneRow' /\ ReportsHaveRows'
  BY <1>2, <1>3, <1>5 DEF Orderly, RowsTyped, OneRow, ReportsHaveRows, Running
<1> QED
  BY <1>4, <1>6, <1>7, <1>8 DEF Orderly

LEMMA OrderlyFinishInterrupted ==
    ASSUME Orderly, NEW r \in Run, FinishInterrupted(r)
    PROVE  Orderly'
<1> USE DEF Anyone
<1>1. CASE UNCHANGED runs /\ Leave(r)
  BY <1>1, OrderlyLeave DEF FinishInterrupted
<1>2. CASE /\ SetStatus(procs[r].about, "failed") /\ UNCHANGED lock
           /\ procs' = [procs EXCEPT ![r] = Fresh("closing")]
  <2> DEFINE x == procs[r].about
  <2>1. /\ ProcsTyped'
        /\ \A k \in Anyone : k # r => procs'[k] = procs[k]
        /\ procs'[r].at = "closing"
    BY <1>2 DEF Orderly, ProcsTyped, Worker, Place, Fresh
  <2>2. /\ lock' = lock /\ lock = r /\ procs[r].at = "closed" /\ reports' = reports
        /\ x \in Running
    BY <1>2 DEF FinishInterrupted, Orderly, HoldersLocked, Subjects, Locked, Place
  <2>3. \A k \in Anyone : k # r => procs[k].at \notin Locked
    BY <2>2 DEF Orderly, HoldersLocked
  <2>4. /\ RowsTyped' /\ DOMAIN runs' = DOMAIN runs
        /\ \A y \in DOMAIN runs : y # x => runs'[y] = runs[y]
        /\ runs'[x].status = "failed"
    BY <1>2, <2>2 DEF Orderly, RowsTyped, RunRow, SetStatus, Status, Running
  <2>5. \A k \in Run : procs[k].at \notin Unclosed /\ (procs[k].at = "skipped" => k # x)
    BY <2>2, <2>3 DEF Orderly, RowsFollow, Running, Unclosed, Locked, Place
  <2>6. HoldersLocked' /\ RowsFollow'
    BY <2>1, <2>2, <2>3, <2>4, <2>5
    DEF Orderly, HoldersLocked, RowsFollow, Rowless, Unclosed, Rowed
  <2>7. Subjects'
    BY <2>1, <2>3 DEF Subjects, Locked, Place
  <2>8. OneRow' /\ ReportsHaveRows'
    BY <2>2, <2>4 DEF Orderly, OneRow, ReportsHaveRows, Running
  <2> QED
    BY <2>1, <2>4, <2>6, <2>7, <2>8 DEF Orderly
<1> QED
  BY <1>1, <1>2 DEF FinishInterrupted

LEMMA OrderlyStartRun ==
    ASSUME Orderly, NEW r \in Run, StartRun(r)
    PROVE  Orderly'
<1> USE DEF Anyone
<1>1. CASE UNCHANGED runs /\ Leave(r)
  BY <1>1, OrderlyLeave DEF StartRun
<1>2. CASE /\ runs' = Put(runs, r, [status |-> "running", old |-> FALSE])
           /\ GoTo(r, "starting") /\ UNCHANGED lock
  <2>1. /\ ProcsTyped'
        /\ \A k \in Anyone : k # r => procs'[k] = procs[k]
        /\ procs'[r].at = "starting"
    BY <1>2 DEF GoTo, Orderly, ProcsTyped, Worker, Place
  <2>2. /\ lock' = lock /\ lock = r /\ procs[r].at = "closing" /\ reports' = reports
        /\ Running = {} /\ r \notin DOMAIN runs
    BY <1>2 DEF StartRun, Orderly, HoldersLocked, RowsFollow, Rowless, Locked, Place
  <2>3. \A k \in Anyone : k # r => procs[k].at \notin Locked
    BY <2>2 DEF Orderly, HoldersLocked
  <2>4. /\ DOMAIN runs' = DOMAIN runs \cup {r}
        /\ \A y \in DOMAIN runs : runs'[y] = runs[y]
        /\ runs'[r].status = "running"
    BY <1>2, <2>2 DEF Put
  <2>5. RowsTyped'
    BY <1>2 DEF Put, Orderly, RowsTyped, RunRow, Status
  <2>6. HoldersLocked' /\ RowsFollow'
    BY <2>1, <2>2, <2>3, <2>4
    DEF Orderly, HoldersLocked, RowsFollow, Rowless, Unclosed, Rowed
  <2>7. Subjects'
    BY <2>1, <2>3 DEF Subjects, Locked, Place
  <2>8. OneRow' /\ ReportsHaveRows'
    BY <2>2, <2>4 DEF Orderly, OneRow, ReportsHaveRows, Running
  <2> QED
    BY <2>1, <2>5, <2>6, <2>7, <2>8 DEF Orderly
<1> QED
  BY <1>1, <1>2 DEF StartRun

------------------------------------------------------------------------------
(* Retention, and time *)

LEMMA OrderlyUnlink ==
    ASSUME Orderly, NEW h \in Anyone, Unlink(h)
    PROVE  Orderly'
<1> USE DEF Anyone
<1>1. PICK x \in Outdated : /\ reports' = [y \in DOMAIN reports \ {x} |-> reports[y]]
                            /\ procs' = [procs EXCEPT ![h].at = "unlinked", ![h].about = x]
  BY DEF Unlink
<1>2. x \in DOMAIN runs /\ x \in Run /\ x \notin Running
  BY DEF Orderly, RowsTyped, Outdated, Running
<1>3. /\ ProcsTyped'
      /\ \A k \in Anyone : k # h => procs'[k] = procs[k]
      /\ procs'[h].at = "unlinked" /\ procs'[h].about = x
  BY <1>1, <1>2 DEF Orderly, ProcsTyped, Worker, Place
<1>4. runs' = runs /\ lock' = lock /\ lock = h /\ procs[h].at = "pruning"
  BY DEF Unlink, Orderly, HoldersLocked, Locked, Place
<1>5. HoldersLocked' /\ RowsFollow'
  BY <1>3, <1>4 DEF Orderly, HoldersLocked, Locked, Place, RowsFollow, Rowless, Unclosed, Rowed
<1>6. Subjects'
  <2>1. \A k \in Anyone : k # h => procs'[k].at \notin Locked
    BY <1>3, <1>4 DEF Orderly, HoldersLocked
  <2>2. x \in Outdated' /\ x \notin DOMAIN reports'
    BY <1>1, <1>4 DEF Outdated
  <2> QED
    BY <1>3, <2>1, <2>2 DEF Subjects, Locked, Place
<1>7. RowsTyped' /\ OneRow' /\ ReportsHaveRows'
  BY <1>1, <1>4 DEF Orderly, RowsTyped, OneRow, ReportsHaveRows, Running
<1> QED
  BY <1>3, <1>5, <1>6, <1>7 DEF Orderly

LEMMA OrderlyDeleteRun ==
    ASSUME Orderly, NEW h \in Anyone, DeleteRun(h)
    PROVE  Orderly'
<1> USE DEF Anyone
<1> DEFINE x == procs[h].about
<1>1. /\ ProcsTyped'
      /\ \A k \in Anyone : k # h => procs'[k] = procs[k]
      /\ procs'[h].at = "pruning"
  BY DEF DeleteRun, Orderly, ProcsTyped, Worker, Place
<1>2. /\ lock' = lock /\ lock = h /\ procs[h].at = "unlinked" /\ reports' = reports
      /\ x \in Outdated /\ x \notin DOMAIN reports
  BY DEF DeleteRun, Orderly, HoldersLocked, Subjects, Locked, Place
<1>3. \A k \in Anyone : k # h => procs[k].at \notin Locked
  BY <1>2 DEF Orderly, HoldersLocked
<1>4. /\ DOMAIN runs' = DOMAIN runs \ {x}
      /\ \A y \in DOMAIN runs' : runs'[y] = runs[y]
  BY DEF DeleteRun
<1>5. RowsTyped'
  BY DEF DeleteRun, Orderly, RowsTyped
<1>6. procs[x].at \notin Rowed
  BY <1>2, <1>3 DEF Orderly, RowsTyped, RowsFollow, Outdated, Rowed, Unclosed, Locked, Place
<1>7. HoldersLocked' /\ RowsFollow'
  BY <1>1, <1>2, <1>3, <1>4, <1>6
  DEF Orderly, HoldersLocked, RowsFollow, Rowless, Unclosed, Rowed
<1>8. Subjects'
  BY <1>1, <1>3 DEF Subjects, Locked, Place
<1>9. OneRow' /\ ReportsHaveRows'
  BY <1>2, <1>4 DEF Orderly, OneRow, ReportsHaveRows, Running
<1> QED
  BY <1>1, <1>5, <1>7, <1>8, <1>9 DEF Orderly

LEMMA OrderlyView ==
    ASSUME Orderly, View
    PROVE  Orderly'
<1> USE DEF Anyone
<1>1. /\ ProcsTyped'
      /\ \A k \in Anyone : k # Viewer => procs'[k] = procs[k]
      /\ procs'[Viewer].at = "pruning"
  BY DEF View, GoTo, Orderly, ProcsTyped, Worker, Place
<1>2. runs' = runs /\ reports' = reports /\ lock = None /\ lock' = Viewer
  BY DEF View
<1>3. HoldersLocked'
  BY <1>1, <1>2, DreamAssumption DEF Orderly, HoldersLocked
<1>4. RowsFollow'
  BY <1>1, <1>2, DreamAssumption DEF Orderly, RowsFollow
<1>5. Subjects' /\ RowsTyped' /\ OneRow' /\ ReportsHaveRows'
  BY <1>1, <1>2
  DEF Orderly, Subjects, Outdated, Running, RowsTyped, OneRow, ReportsHaveRows
<1> QED
  BY <1>1, <1>3, <1>4, <1>5 DEF Orderly

LEMMA OrderlyAge ==
    ASSUME Orderly, NEW x \in DOMAIN runs, Age(x)
    PROVE  Orderly'
<1> USE DEF Anyone
<1>1. UNCHANGED <<reports, procs, lock>> /\ procs[x].at # "skipped"
  BY DEF Age
<1>2. /\ RowsTyped' /\ DOMAIN runs' = DOMAIN runs
      /\ \A y \in DOMAIN runs : runs'[y].status = runs[y].status
      /\ \A y \in DOMAIN runs : runs[y].old => runs'[y].old
      /\ \A y \in DOMAIN runs : y # x => runs'[y] = runs[y]
  BY DEF Age, Orderly, RowsTyped, RunRow
<1>3. ProcsTyped' /\ HoldersLocked' /\ ReportsHaveRows'
  BY <1>1, <1>2 DEF Orderly, ProcsTyped, HoldersLocked, ReportsHaveRows
<1>4. RowsFollow'
  BY <1>1, <1>2 DEF Orderly, RowsFollow, Rowed, Unclosed
<1>5. Subjects' /\ OneRow'
  BY <1>1, <1>2 DEF Orderly, Subjects, Outdated, Running, OneRow
<1> QED
  BY <1>2, <1>3, <1>4, <1>5 DEF Orderly

------------------------------------------------------------------------------
(* A skipped run *)

LEMMA OrderlySkipRun ==
    ASSUME Orderly, NEW r \in Run, SkipRun(r)
    PROVE  Orderly'
<1> USE DEF Anyone
<1>1. CASE UNCHANGED runs /\ Leave(r)
  BY <1>1, OrderlyLeave DEF SkipRun
<1>2. CASE /\ runs' = Put(runs, r, [status |-> "skipped", old |-> FALSE])
           /\ GoTo(r, "skipped") /\ UNCHANGED lock
  <2>1. /\ ProcsTyped'
        /\ \A k \in Anyone : k # r => procs'[k] = procs[k]
        /\ procs'[r].at = "skipped"
    BY <1>2 DEF GoTo, Orderly, ProcsTyped, Worker, Place
  <2>2. lock' = lock /\ reports' = reports /\ r \notin DOMAIN runs
    BY <1>2 DEF SkipRun, Orderly, RowsFollow, Rowless
  <2>3. /\ DOMAIN runs' = DOMAIN runs \cup {r}
        /\ \A y \in DOMAIN runs : runs'[y] = runs[y]
        /\ runs'[r] = [status |-> "skipped", old |-> FALSE]
    BY <1>2, <2>2 DEF Put
  <2>4. RowsTyped'
    BY <1>2 DEF Put, Orderly, RowsTyped, RunRow, Status
  <2>5. HoldersLocked'
    BY <2>1, <2>2 DEF Orderly, HoldersLocked, Locked
  <2>6. RowsFollow'
    BY <2>1, <2>3 DEF Orderly, RowsFollow, Rowless, Unclosed, Rowed
  <2>7. Subjects'
    BY <2>1, <2>2, <2>3 DEF Orderly, Subjects, Running, Outdated
  <2>8. OneRow' /\ ReportsHaveRows'
    BY <2>2, <2>3 DEF Orderly, OneRow, ReportsHaveRows, Running
  <2> QED
    BY <2>1, <2>4, <2>5, <2>6, <2>7, <2>8 DEF Orderly
<1> QED
  BY <1>1, <1>2 DEF SkipRun

LEMMA OrderlyReportSkipped ==
    ASSUME Orderly, NEW r \in Run, ReportSkipped(r)
    PROVE  Orderly'
<1> USE DEF Anyone
<1>1. /\ ProcsTyped'
      /\ \A k \in Anyone : k # r => procs'[k] = procs[k]
      /\ procs'[r].at = "over"
  BY DEF ReportSkipped, Leave, Fresh, Orderly, ProcsTyped, Worker, Place
<1>2. /\ lock' = IF lock = r THEN None ELSE lock
      /\ r \in DOMAIN runs /\ runs[r] = [status |-> "skipped", old |-> FALSE]
  BY DEF ReportSkipped, Leave, Orderly, RowsFollow, Rowed
<1>3. DOMAIN reports' \subseteq DOMAIN reports \cup {r}
  BY DEF ReportSkipped, Put
<1>4. runs' = runs \/ SetStatus(r, "failed")
  BY DEF ReportSkipped
<1>5. /\ RowsTyped' /\ DOMAIN runs' = DOMAIN runs
      /\ \A y \in DOMAIN runs : y # r => runs'[y] = runs[y]
      /\ runs'[r].status \in {"skipped", "failed"}
  <2>1. CASE runs' = runs
    BY <1>2, <2>1 DEF Orderly, RowsTyped
  <2>2. CASE SetStatus(r, "failed")
    BY <1>2, <2>2 DEF SetStatus, Orderly, RowsTyped, RunRow, Status
  <2> QED
    BY <1>4, <2>1, <2>2
<1>6. HoldersLocked'
  BY <1>1, <1>2, DreamAssumption DEF Orderly, HoldersLocked, Locked
<1>7. RowsFollow'
  BY <1>1, <1>5 DEF Orderly, RowsFollow, Rowless, Unclosed, Rowed
<1>8. Subjects'
  BY <1>1, <1>2, <1>3, <1>5 DEF Orderly, Subjects, Running, Outdated
<1>9. OneRow' /\ ReportsHaveRows'
  BY <1>2, <1>3, <1>5 DEF Orderly, OneRow, ReportsHaveRows, Running
<1> QED
  BY <1>1, <1>5, <1>6, <1>7, <1>8, <1>9 DEF Orderly

------------------------------------------------------------------------------
(* Every step *)

LEMMA OrderlyStutter == Orderly /\ UNCHANGED dreamVars => Orderly'
  BY DEF dreamVars, Orderly, RowsTyped, ProcsTyped, HoldersLocked, RowsFollow, Subjects,
         OneRow, ReportsHaveRows, Running, Outdated

LEMMA OrderlyGoes ==
    ASSUME Orderly, NEW r \in Run, Goes(r)
    PROVE  Orderly'
<1>1. r \in Anyone
  BY DEF Anyone
<1>2. CASE MarkInterrupted(r) \/ FinishInterrupted(r) \/ StartRun(r) \/ WriteHeader(r)
  BY <1>2, OrderlyMarkInterrupted, OrderlyFinishInterrupted, OrderlyStartRun,
     OrderlyWriteHeader
<1>3. CASE BeginGroup(r) \/ ApplyCommits(r) \/ ApplyRefused(r) \/ Complete(r)
  BY <1>3, OrderlyBeginGroup, OrderlyApplyCommits, OrderlyApplyRefused, OrderlyComplete
<1>4. CASE Raise(r) \/ EndPhases(r) \/ Unlink(r) \/ DeleteRun(r)
  BY <1>1, <1>4, OrderlyRaise, OrderlyEndPhases, OrderlyUnlink, OrderlyDeleteRun
<1>5. CASE WriteFooter(r) \/ FinishRun(r) \/ FailFooter(r) \/ FailRun(r) \/ Note(r)
  BY <1>5, OrderlyWriteFooter, OrderlyFinishRun, OrderlyFailFooter, OrderlyFailRun,
     OrderlyNote
<1>6. CASE SkipRun(r) \/ ReportSkipped(r)
  BY <1>6, OrderlySkipRun, OrderlyReportSkipped
<1> QED
  BY <1>2, <1>3, <1>4, <1>5, <1>6 DEF Goes

LEMMA OrderlyNext == Orderly /\ [DreamNext]_dreamVars => Orderly'
<1> SUFFICES ASSUME Orderly, [DreamNext]_dreamVars PROVE Orderly'
  OBVIOUS
<1>1. ASSUME NEW r \in Run, Start(r) \/ Goes(r) PROVE Orderly'
  BY <1>1, OrderlyStart, OrderlyGoes
<1>2. CASE View
  BY <1>2, OrderlyView
<1>3. CASE ViewerGoes
  <2>1. Viewer \in Anyone
    BY DEF Anyone
  <2>2. CASE EndView
    BY <2>1, <2>2, OrderlyLeave DEF EndView
  <2> QED
    BY <1>3, <2>1, <2>2, OrderlyUnlink, OrderlyDeleteRun DEF ViewerGoes
<1>4. ASSUME NEW h \in Anyone, Kill(h) PROVE Orderly'
  BY <1>4, OrderlyLeave DEF Kill
<1>5. ASSUME NEW x \in DOMAIN runs, Age(x) PROVE Orderly'
  BY <1>5, OrderlyAge
<1>6. CASE UNCHANGED dreamVars
  BY <1>6, OrderlyStutter
<1> QED
  BY <1>1, <1>2, <1>3, <1>4, <1>5, <1>6 DEF DreamNext, Anyone

------------------------------------------------------------------------------
(* The theorems *)

\* Rows, reports and the lock agree in every reachable state.
THEOREM OrderlyInvariant == DreamSpec => []Orderly
  BY OrderlyInit, OrderlyNext, PTL DEF DreamSpec

\* A row that says "running" is alone, and its process, if it lives, holds the run lock.
THEOREM OneRunningHolds == DreamSpec => []OneRunning
<1>1. Orderly => OneRunning
  <2> SUFFICES ASSUME Orderly, NEW x \in Running, Live(x) PROVE lock = x
    BY DEF Orderly, OneRow, OneRunning
  <2>1. x \in Run /\ x \in DOMAIN runs /\ runs[x].status = "running"
    BY DEF Orderly, RowsTyped, Running
  <2>2. procs[x].at \in Place /\ procs[x].at \notin {"unborn", "over", "skipping", "skipped"}
    BY <2>1 DEF Orderly, ProcsTyped, Worker, Anyone, RowsFollow, Rowless, Live
  <2> QED
    BY <2>1, <2>2 DEF Orderly, HoldersLocked, Locked, Anyone
<1> QED
  BY <1>1, OrderlyInvariant, PTL

\* No report outlives its row.
THEOREM ReportsHaveRowsHolds == DreamSpec => []ReportsHaveRows
<1>1. Orderly => ReportsHaveRows
  BY DEF Orderly
<1> QED
  BY <1>1, OrderlyInvariant, PTL

\* A step that is not retention's takes away no row and no report.
LEMMA OthersKeep ==
    ASSUME Orderly, [DreamNext]_dreamVars,
           ~\E h \in Anyone : Unlink(h) \/ DeleteRun(h)
    PROVE  DOMAIN runs \subseteq DOMAIN runs' /\ DOMAIN reports \subseteq DOMAIN reports'
<1> DEFINE Kept == DOMAIN runs \subseteq DOMAIN runs' /\ DOMAIN reports \subseteq DOMAIN reports'
<1>1. ASSUME NEW r \in Run, Start(r) \/ Goes(r) PROVE Kept
  <2>1. CASE Start(r) \/ ApplyCommits(r) \/ ApplyRefused(r) \/ Raise(r) \/ EndPhases(r)
    BY <2>1 DEF Start, ApplyCommits, ApplyRefused, Raise, EndPhases
  <2>2. CASE MarkInterrupted(r) \/ FinishInterrupted(r) \/ StartRun(r) \/ WriteHeader(r)
    BY <2>2
    DEF MarkInterrupted, FinishInterrupted, StartRun, WriteHeader, Put, SetStatus
  <2>3. CASE BeginGroup(r) \/ Complete(r) \/ WriteFooter(r) \/ FailFooter(r) \/ Note(r)
    BY <2>3 DEF BeginGroup, Complete, WriteFooter, FailFooter, Note, Writes, Put
  <2>4. CASE FinishRun(r) \/ FailRun(r)
    BY <2>4 DEF FinishRun, FailRun, SetStatus
  <2>5. CASE SkipRun(r) \/ ReportSkipped(r)
    BY <2>5 DEF SkipRun, ReportSkipped, SetStatus, Put
  <2> QED
    BY <1>1, <2>1, <2>2, <2>3, <2>4, <2>5 DEF Goes, Anyone
<1>2. CASE View \/ EndView \/ (\E h \in Anyone : Kill(h)) \/ UNCHANGED dreamVars
  BY <1>2 DEF View, EndView, Kill, dreamVars
<1>3. ASSUME NEW x \in DOMAIN runs, Age(x) PROVE Kept
  BY <1>3 DEF Age
<1> QED
  BY <1>1, <1>2, <1>3 DEF DreamNext, ViewerGoes, Anyone

\* Retention takes away the report of a closed, old run, and its row when the report
\* is gone; nothing else takes a row or a report away.
THEOREM RetentionSparesHolds == DreamSpec => RetentionSpares
<1> DEFINE Spares ==
        /\ \A x \in DOMAIN runs \ DOMAIN runs' :
             runs[x].old /\ runs[x].status # "running" /\ x \notin DOMAIN reports
        /\ \A x \in DOMAIN reports \ DOMAIN reports' :
             runs[x].old /\ runs[x].status # "running"
<1>1. ASSUME Orderly, [DreamNext]_dreamVars PROVE Spares
  <2>1. ASSUME NEW h \in Anyone, Unlink(h) PROVE Spares
    BY <2>1 DEF Unlink, Outdated
  <2>2. ASSUME NEW h \in Anyone, DeleteRun(h) PROVE Spares
    <3>1. procs[h].about \in Outdated /\ procs[h].about \notin DOMAIN reports
      BY <1>1, <2>2 DEF Orderly, Subjects, DeleteRun
    <3>2. DOMAIN runs' = DOMAIN runs \ {procs[h].about} /\ reports' = reports
      BY <2>2 DEF DeleteRun
    <3> QED
      BY <3>1, <3>2 DEF Outdated
  <2> QED
    BY <1>1, <2>1, <2>2, OthersKeep
<1>2. Orderly /\ [DreamNext]_dreamVars => [Spares]_dreamVars
  BY <1>1
<1> QED
  BY <1>2, OrderlyInvariant, PTL DEF DreamSpec, RetentionSpares
------------------------------------------------------------------------------
(* Lines *)

\* A line appended leaves every settled line as it was.
LEMMA AppendTells ==
    ASSUME NEW lines \in Seq(Line), NEW line \in Line, NEW n,
           Tells(lines, n), lines[n].outcome # "open"
    PROVE  /\ Tells(lines \o <<line>>, n)
           /\ (lines \o <<line>>)[n].outcome # "open"
           /\ n < Len(lines \o <<line>>)
BY DEF Tells

\* The open last line gets its outcome, and no other line changes.
LEMMA SettleLines ==
    ASSUME NEW lines \in Seq(Line), NEW outcome \in {"applied", "not-applied", "unknown"}
    PROVE  /\ Settle(lines, outcome) \in Seq(Line)
           /\ Dangling(lines) =>
                 /\ Len(lines) > 0 /\ Len(Settle(lines, outcome)) = Len(lines)
                 /\ \A n \in 1..(Len(lines) - 1) : Settle(lines, outcome)[n] = lines[n]
                 /\ Settle(lines, outcome)[Len(lines)] = ChangeLine(outcome)
           /\ ~Dangling(lines) => Settle(lines, outcome) = lines \o <<NoteLine>>
<1>1. ChangeLine(outcome) \in Line /\ NoteLine \in Line
  BY DEF ChangeLine, NoteLine, Line
<1>2. CASE Dangling(lines)
  <2>1. Settle(lines, outcome) = SubSeq(lines, 1, Len(lines) - 1) \o <<ChangeLine(outcome)>>
    BY <1>2 DEF Settle, Front
  <2>2. Len(lines) > 0 /\ Len(lines) - 1 \in Nat
    BY <1>2 DEF Dangling
  <2>3. /\ SubSeq(lines, 1, Len(lines) - 1) \in Seq(Line)
        /\ Len(SubSeq(lines, 1, Len(lines) - 1)) = Len(lines) - 1
        /\ \A n \in 1..(Len(lines) - 1) : SubSeq(lines, 1, Len(lines) - 1)[n] = lines[n]
    <3>1. PICK k \in Nat : k = Len(lines) - 1
      BY <2>2
    <3>2. 1 \in Int /\ k \in Int /\ \A i \in 1..k : lines[i] \in Line
      BY <3>1
    <3>3. /\ SubSeq(lines, 1, k) \in Seq(Line)
          /\ Len(SubSeq(lines, 1, k)) = IF 1 <= k THEN k - 1 + 1 ELSE 0
          /\ \A i \in 1..(k - 1 + 1) : SubSeq(lines, 1, k)[i] = lines[1 + i - 1]
      BY <3>2, SubSeqProperties, SMTT(30)
    <3> QED
      BY <3>1, <3>3
  <2> QED
    BY <1>1, <1>2, <2>1, <2>2, <2>3
<1>3. CASE ~Dangling(lines)
  BY <1>1, <1>3 DEF Settle
<1> QED
  BY <1>2, <1>3

LEMMA SettleTells ==
    ASSUME NEW lines \in Seq(Line), NEW outcome \in {"applied", "not-applied", "unknown"},
           NEW n, Tells(lines, n),
           outcome # "not-applied" \/ n # Len(lines)
    PROVE  Tells(Settle(lines, outcome), n) /\ Settle(lines, outcome)[n].outcome # "open"
<1>1. n \in 1..Len(lines)
  BY DEF Tells
<1>2. CASE Dangling(lines)
  <2> DEFINE settled == Settle(lines, outcome)
  <2>1. /\ settled \in Seq(Line) /\ Len(settled) = Len(lines)
        /\ \A k \in 1..(Len(lines) - 1) : settled[k] = lines[k]
        /\ settled[Len(lines)] = ChangeLine(outcome)
    BY <1>2, SettleLines
  <2> HIDE DEF settled
  <2>2. n \in 1..Len(settled)
    BY <1>1, <2>1
  <2>3. CASE n = Len(lines)
    BY <2>1, <2>2, <2>3 DEF Tells, ChangeLine, settled
  <2>4. CASE n # Len(lines)
    BY <1>1, <2>1, <2>2, <2>4 DEF Tells, settled
  <2> QED
    BY <2>3, <2>4 DEF settled
<1>3. CASE ~Dangling(lines)
  <2>1. lines[n].outcome # "open"
    BY <1>1, <1>3 DEF Tells, Dangling, Last, ChangeLine, Line
  <2>2. NoteLine \in Line
    BY DEF NoteLine, Line
  <2>3. Tells(lines \o <<NoteLine>>, n) /\ (lines \o <<NoteLine>>)[n].outcome # "open"
    BY <2>1, <2>2, AppendTells
  <2> QED
    BY <1>3, <2>3, SettleLines
<1> QED
  BY <1>2, <1>3

\* Only a status line changes the last word.
LEMMA AppendLastWord ==
    ASSUME NEW lines \in Seq(Line), NEW line \in Line
    PROVE  /\ line.kind # "status" /\ LastWord(lines, "completed") =>
                LastWord(lines \o <<line>>, "completed")
           /\ line = StatusLine("completed") => LastWord(lines \o <<line>>, "completed")
<1> DEFINE longer == lines \o <<line>>
<1>1. /\ DOMAIN longer = 1..(Len(lines) + 1) /\ Len(longer) = Len(lines) + 1
      /\ DOMAIN lines = 1..Len(lines) /\ Len(lines) \in Nat
      /\ \A k \in 1..Len(lines) : longer[k] = lines[k]
      /\ longer[Len(lines) + 1] = line
  OBVIOUS
<1> HIDE DEF longer
<1>2. ASSUME line.kind # "status", LastWord(lines, "completed")
      PROVE  LastWord(longer, "completed")
  <2>1. PICK n \in DOMAIN lines :
          /\ lines[n] = StatusLine("completed")
          /\ \A later \in (n + 1)..Len(lines) : lines[later].kind # "status"
    BY <1>2 DEF LastWord
  <2>2. \A later \in (n + 1)..Len(longer) : longer[later].kind # "status"
    BY <1>1, <1>2, <2>1
  <2> QED
    BY <1>1, <2>1, <2>2 DEF LastWord
<1>3. ASSUME line = StatusLine("completed") PROVE LastWord(longer, "completed")
  BY <1>1, <1>3 DEF LastWord
<1> QED
  BY <1>2, <1>3 DEF longer

LEMMA SettleLastWord ==
    ASSUME NEW lines \in Seq(Line), NEW outcome \in {"applied", "not-applied", "unknown"},
           LastWord(lines, "completed")
    PROVE  LastWord(Settle(lines, outcome), "completed")
<1>1. CASE Dangling(lines)
  <2>1. PICK n \in 1..Len(lines) :
          /\ lines[n] = StatusLine("completed")
          /\ \A later \in (n + 1)..Len(lines) : lines[later].kind # "status"
    BY DEF LastWord
  <2>2. n # Len(lines)
    BY <1>1, <2>1 DEF Dangling, Last, ChangeLine, StatusLine
  <2> DEFINE settled == Settle(lines, outcome)
  <2>3. /\ settled \in Seq(Line) /\ Len(settled) = Len(lines)
        /\ \A k \in 1..(Len(lines) - 1) : settled[k] = lines[k]
        /\ settled[Len(lines)] = ChangeLine(outcome)
    BY <1>1, SettleLines
  <2> HIDE DEF settled
  <2>4. \A later \in (n + 1)..Len(settled) : settled[later].kind # "status"
    BY <2>1, <2>3 DEF ChangeLine
  <2>5. n \in DOMAIN settled /\ settled[n] = StatusLine("completed")
    BY <2>1, <2>2, <2>3
  <2> QED
    BY <2>4, <2>5 DEF LastWord, settled
<1>2. CASE ~Dangling(lines)
  BY <1>2, SettleLines, AppendLastWord DEF NoteLine, Line
<1> QED
  BY <1>1, <1>2

------------------------------------------------------------------------------
(* What a step leaves as it was *)

\* A step that is none of run k's: its row may age, or go when its report is gone.
Apart(k) ==
    /\ procs'[k] = procs[k]
    /\ k \in DOMAIN reports' <=> k \in DOMAIN reports
    /\ k \in DOMAIN reports => reports'[k] = reports[k]
    /\ k \in DOMAIN runs' <=> k \in DOMAIN runs
    /\ k \in DOMAIN runs => runs'[k].status = runs[k].status
    /\ \A n \in Nat : <<k, n>> \in committed' <=> <<k, n>> \in committed

RunTruthful(r) == RunTells(r) /\ RunWaits(r) /\ RunCloses(r)

LEMMA ApartKeeps ==
    ASSUME Orderly, NEW k \in Run, RunTruthful(k), Apart(k)
    PROVE  RunTruthful(k)'
<1> USE DEF Apart
<1>1. procs[k].at \in Rowed => k \in DOMAIN runs
  BY DEF Orderly, RowsFollow
<1>2. RunTells(k)'
  BY DEF RunTruthful, RunTells, Open
<1>3. RunWaits(k)'
  BY DEF RunTruthful, RunWaits
<1>4. RunCloses(k)'
  BY <1>1 DEF RunTruthful, RunCloses, Rowed
<1> QED
  BY <1>2, <1>3, <1>4 DEF RunTruthful

\* One run's affairs change at most, and it stays truthful.
LEMMA OneRunSteps ==
    ASSUME Orderly, Truthful, ReportsTyped', CommitsTyped',
           NEW x \in Run, RunTruthful(x)', \A k \in Run \ {x} : Apart(k)
    PROVE  Truthful'
<1>1. \A k \in Run \ {x} : RunTruthful(k)'
  BY ApartKeeps DEF Truthful, RunTruthful
<1> QED
  BY <1>1 DEF Truthful, RunTruthful

\* A report is put in the place of an old one, or is a new one.
LEMMA PutReport ==
    ASSUME ReportsTyped, NEW r \in Run, NEW lines \in Seq(Line), reports' = Put(reports, r, lines)
    PROVE  /\ ReportsTyped' /\ DOMAIN reports' = DOMAIN reports \cup {r}
           /\ reports'[r] = lines
           /\ \A k \in Run \ {r} : /\ k \in DOMAIN reports' <=> k \in DOMAIN reports
                                   /\ k \in DOMAIN reports => reports'[k] = reports[k]
BY DEF ReportsTyped, Put

LEMMA ContentTyped ==
    ASSUME ReportsTyped, NEW r
    PROVE  Content(r) \in Seq(Line) /\ (r \in DOMAIN reports => Content(r) = reports[r])
BY DEF ReportsTyped, Content

\* A line that r writes while it lives leaves all it committed told and settled,
\* and its last word unless it is a status line itself.
LEMMA WriteTells ==
    ASSUME ReportsTyped, NEW r \in Run, NEW line \in Line, Writes(r, line)
    PROVE  /\ ReportsTyped' /\ r \in DOMAIN reports'
           /\ \A k \in Run \ {r} : /\ k \in DOMAIN reports' <=> k \in DOMAIN reports
                                   /\ k \in DOMAIN reports => reports'[k] = reports[k]
           /\ RunTells(r) /\ procs[r].at # "over" =>
                \A n \in Nat : <<r, n>> \in committed =>
                    /\ Tells(reports'[r], n) /\ reports'[r][n].outcome # "open"
                    /\ n < Len(reports'[r])
           /\ Len(reports'[r]) > 0 /\ Last(reports'[r]) = line
           /\ line.kind # "status" /\ r \in DOMAIN reports /\ LastWord(reports[r], "completed") =>
                LastWord(reports'[r], "completed")
           /\ line = StatusLine("completed") => LastWord(reports'[r], "completed")
<1> DEFINE told == IF procs[r].pending THEN Settle(Content(r), "unknown") ELSE Content(r)
<1>1. told \in Seq(Line)
  BY ContentTyped, SettleLines
<1>2. reports' = Put(reports, r, told \o <<line>>)
  BY DEF Writes, Written
<1>3. ASSUME RunTells(r), procs[r].at # "over", NEW n \in Nat, <<r, n>> \in committed
      PROVE  Tells(told, n) /\ told[n].outcome # "open"
  <2>1. r \in DOMAIN reports /\ Tells(reports[r], n) /\ Content(r) = reports[r]
        /\ Content(r) \in Seq(Line)
        /\ (reports[r][n].outcome = "open" => procs[r].pending)
    BY <1>3, ContentTyped DEF RunTells, Open
  <2>2. CASE procs[r].pending
    BY <2>1, <2>2, SettleTells
  <2>3. CASE ~procs[r].pending
    BY <2>1, <2>3
  <2> QED
    BY <2>2, <2>3
<1>4. ASSUME r \in DOMAIN reports, LastWord(reports[r], "completed")
      PROVE  LastWord(told, "completed")
  BY <1>4, ContentTyped, SettleLastWord
<1> HIDE DEF told
<1>5. told \o <<line>> \in Seq(Line)
  BY <1>1
<1>6. /\ ReportsTyped' /\ DOMAIN reports' = DOMAIN reports \cup {r}
      /\ reports'[r] = told \o <<line>>
      /\ \A k \in Run \ {r} : /\ k \in DOMAIN reports' <=> k \in DOMAIN reports
                              /\ k \in DOMAIN reports => reports'[k] = reports[k]
  BY <1>2, <1>5, PutReport
<1>7. Len(reports'[r]) > 0 /\ Last(reports'[r]) = line
  BY <1>1, <1>6 DEF Last
<1>8. ASSUME RunTells(r), procs[r].at # "over", NEW n \in Nat, <<r, n>> \in committed
      PROVE  /\ Tells(reports'[r], n) /\ reports'[r][n].outcome # "open"
             /\ n < Len(reports'[r])
  BY <1>1, <1>3, <1>6, <1>8, AppendTells
<1>9. /\ line.kind # "status" /\ r \in DOMAIN reports /\ LastWord(reports[r], "completed") =>
           LastWord(reports'[r], "completed")
      /\ line = StatusLine("completed") => LastWord(reports'[r], "completed")
  BY <1>1, <1>4, <1>6, AppendLastWord
<1> QED
  BY <1>6, <1>7, <1>8, <1>9

------------------------------------------------------------------------------
(* The run and its report *)

LEMMA TruthfulInit == DreamInit => Truthful
<1> SUFFICES ASSUME DreamInit PROVE Truthful
  OBVIOUS
<1>1. /\ runs = <<>> /\ reports = <<>> /\ DOMAIN runs = {} /\ DOMAIN reports = {} /\ committed = {}
      /\ \A r \in Run : procs[r] = Fresh("unborn")
  BY DEF DreamInit
<1>2. ReportsTyped /\ CommitsTyped
  BY <1>1 DEF ReportsTyped, CommitsTyped
<1>3. \A r \in Run : RunTells(r) /\ RunWaits(r) /\ RunCloses(r)
  BY <1>1 DEF RunTells, RunWaits, RunCloses, Fresh, Unclosed
<1> QED
  BY <1>2, <1>3 DEF Truthful

LEMMA TruthfulStart ==
    ASSUME Orderly, Truthful, NEW r \in Run, Start(r)
    PROVE  Truthful'
<1>1. /\ procs \in [Anyone -> Worker] /\ Run \subseteq Anyone
      /\ procs[r].at = "unborn" /\ r \notin DOMAIN runs
  BY DEF Orderly, ProcsTyped, RowsFollow, Rowless, Start, Anyone
<1>2. /\ \A k \in Run \ {r} : procs'[k] = procs[k]
      /\ procs'[r].at \in {"closing", "skipping"}
      /\ procs'[r].footer = procs[r].footer /\ procs'[r].completed = procs[r].completed
      /\ runs' = runs /\ reports' = reports /\ committed' = committed
  BY <1>1 DEF Start, GoTo, Worker
<1>3. RunTells(r)' /\ RunWaits(r)'
  BY <1>1, <1>2 DEF Truthful, RunTells, RunWaits, Rowless
<1>4. RunCloses(r)'
  BY <1>1, <1>2 DEF Truthful, RunCloses, Rowless, Unclosed
<1>5. \A k \in Run \ {r} : Apart(k)
  BY <1>2 DEF Apart
<1> QED
  BY <1>2, <1>3, <1>4, <1>5, OneRunSteps DEF Truthful, RunTruthful, ReportsTyped, CommitsTyped

\* A process ends, or is killed, without another word.
LEMMA TruthfulLeave ==
    ASSUME Orderly, Truthful, NEW h \in Anyone, Leave(h), UNCHANGED <<runs, reports, committed>>
    PROVE  Truthful'
<1>1. /\ procs \in [Anyone -> Worker] /\ Run \subseteq Anyone
      /\ procs' = [procs EXCEPT ![h] = Fresh("over")]
  BY DEF Orderly, ProcsTyped, Leave, Anyone
<1>2. ASSUME NEW k \in Run \ {h} PROVE RunTruthful(k)'
  BY <1>1, ApartKeeps DEF Truthful, RunTruthful, Apart
<1>3. ASSUME h \in Run PROVE RunTruthful(h)'
  <2>1. procs'[h].at = "over"
    BY <1>1 DEF Fresh
  <2>2. RunTells(h)'
    BY <1>3, <2>1 DEF Truthful, RunTells, Open, Rowless
  <2>3. RunWaits(h)' /\ RunCloses(h)'
    BY <1>3, <2>1 DEF Truthful, RunWaits, RunCloses, Rowless, Unclosed
  <2> QED
    BY <2>2, <2>3 DEF RunTruthful
<1> QED
  BY <1>2, <1>3 DEF Truthful, RunTruthful, ReportsTyped, CommitsTyped

\* A run whose row says "running", or that has none, and that nobody works on but a
\* process holding the lock: its own process is over.
LEMMA ClosedAreOver ==
    ASSUME Orderly, NEW h \in Anyone, procs[h].at \in Locked, NEW x \in Run, x # h,
           x \in DOMAIN runs, runs[x] # [status |-> "skipped", old |-> FALSE]
    PROVE  procs[x].at = "over"
<1>1. procs[x].at \notin Locked
  BY DEF Orderly, HoldersLocked, Anyone
<1>2. procs[x].at \in Place
  BY DEF Orderly, ProcsTyped, Worker, Anyone
<1> QED
  BY <1>1, <1>2 DEF Orderly, RowsFollow, Rowless, Rowed, Locked, Place

LEMMA TruthfulMarkInterrupted ==
    ASSUME Orderly, Truthful, NEW r \in Run, MarkInterrupted(r)
    PROVE  Truthful'
<1>1. procs \in [Anyone -> Worker] /\ r \in Anyone /\ procs[r].at = "closing" /\ r \notin DOMAIN runs
  BY DEF Orderly, ProcsTyped, RowsFollow, Rowless, MarkInterrupted, Anyone
<1>2. PICK x \in Running :
        /\ procs' = [procs EXCEPT ![r].at = "closed", ![r].about = x]
        /\ LET lines == Content(x)
               told == IF Dangling(lines) THEN Settle(lines, "unknown") ELSE lines
           IN  reports' \in {Put(reports, x, told \o <<StatusLine("failed")>>), reports}
  BY DEF MarkInterrupted
<1>3. x \in Run /\ x # r /\ x \in DOMAIN runs /\ runs[x].status = "running" /\ procs[x].at = "over"
  BY <1>1, <1>2, ClosedAreOver DEF Running, Orderly, RowsTyped, Locked, Place
<1>4. /\ \A k \in Run \ {r} : procs'[k] = procs[k]
      /\ procs'[r].at = "closed"
      /\ procs'[r].footer = procs[r].footer /\ procs'[r].completed = procs[r].completed
      /\ runs' = runs /\ committed' = committed
  BY <1>1, <1>2 DEF MarkInterrupted, Worker, Anyone
<1> DEFINE told == IF Dangling(Content(x)) THEN Settle(Content(x), "unknown") ELSE Content(x)
<1>5. told \in Seq(Line) /\ StatusLine("failed") \in Line /\ told \o <<StatusLine("failed")>> \in Seq(Line)
  BY ContentTyped, SettleLines DEF Truthful, StatusLine, Line, Status
<1>6. ASSUME NEW n \in Nat, <<x, n>> \in committed
      PROVE  Tells(told, n) /\ told[n].outcome # "open"
  <2>1. x \in DOMAIN reports /\ Tells(reports[x], n) /\ Content(x) = reports[x]
        /\ reports[x] \in Seq(Line)
    BY <1>3, <1>6, ContentTyped DEF Truthful, RunTells
  <2>2. CASE Dangling(Content(x))
    BY <2>1, <2>2, SettleTells
  <2>3. CASE ~Dangling(Content(x))
    <3>1. reports[x][n].outcome # "open"
      BY <2>1, <2>3 DEF Tells, Dangling, Last, ChangeLine, Line
    <3> QED
      BY <2>1, <2>3, <3>1
  <2> QED
    BY <2>2, <2>3
<1> HIDE DEF told
<1>7. CASE reports' = reports
  <2>1. \A k \in Run \ {r} : Apart(k)
    BY <1>4, <1>7 DEF Apart
  <2>2. RunTells(r)' /\ RunWaits(r)' /\ RunCloses(r)'
    BY <1>1, <1>4, <1>7 DEF Truthful, RunTells, RunWaits, RunCloses, Rowless, Unclosed
  <2> QED
    BY <1>4, <1>7, <2>1, <2>2, OneRunSteps DEF Truthful, RunTruthful, ReportsTyped, CommitsTyped
<1>8. CASE reports' = Put(reports, x, told \o <<StatusLine("failed")>>)
  <2>1. /\ ReportsTyped' /\ x \in DOMAIN reports' /\ reports'[x] = told \o <<StatusLine("failed")>>
        /\ \A k \in Run \ {x} : /\ k \in DOMAIN reports' <=> k \in DOMAIN reports
                                /\ k \in DOMAIN reports => reports'[k] = reports[k]
    BY <1>3, <1>5, <1>8, PutReport DEF Truthful
  <2>2. ASSUME NEW k \in Run \ {r, x} PROVE RunTruthful(k)'
    BY <1>4, <2>1, ApartKeeps DEF Truthful, RunTruthful, Apart
  <2>3. RunTells(r)' /\ RunWaits(r)' /\ RunCloses(r)'
    BY <1>1, <1>4 DEF Truthful, RunTells, RunWaits, RunCloses, Rowless, Unclosed
  <2>4. RunTells(x)'
    <3>1. ASSUME NEW n \in Nat, <<x, n>> \in committed
          PROVE  Tells(reports'[x], n) /\ reports'[x][n].outcome # "open"
      BY <1>5, <1>6, <2>1, <3>1, AppendTells
    <3>2. x \in DOMAIN reports' /\ procs'[x].at = "over"
      BY <1>3, <1>4, <2>1
    <3> QED
      BY <1>4, <3>1, <3>2 DEF RunTells, Open, Rowless
  <2>5. RunWaits(x)' /\ RunCloses(x)'
    BY <1>3, <1>4 DEF RunWaits, RunCloses, Rowless, Unclosed
  <2>6. \A k \in Run : RunTruthful(k)'
    BY <2>2, <2>3, <2>4, <2>5 DEF RunTruthful
  <2> QED
    BY <1>4, <2>1, <2>6 DEF Truthful, RunTruthful, CommitsTyped
<1> QED
  BY <1>2, <1>7, <1>8 DEF told

LEMMA TruthfulFinishInterrupted ==
    ASSUME Orderly, Truthful, NEW r \in Run, FinishInterrupted(r)
    PROVE  Truthful'
<1>1. procs \in [Anyone -> Worker] /\ r \in Anyone /\ procs[r].at = "closed" /\ r \notin DOMAIN runs
  BY DEF Orderly, ProcsTyped, RowsFollow, Rowless, FinishInterrupted, Anyone
<1>2. CASE SetStatus(procs[r].about, "failed") /\ procs' = [procs EXCEPT ![r] = Fresh("closing")]
  <2>0. PICK x : x = procs[r].about
    OBVIOUS
  <2>1. x \in Run /\ x # r /\ x \in DOMAIN runs /\ runs[x].status = "running" /\ procs[x].at = "over"
    BY <1>1, <2>0, ClosedAreOver DEF Running, Orderly, Subjects, RowsTyped, Locked, Place
  <2>2. /\ \A k \in Run \ {r} : procs'[k] = procs[k]
        /\ procs'[r] = Fresh("closing") /\ reports' = reports /\ committed' = committed
        /\ DOMAIN runs' = DOMAIN runs /\ runs'[x].status = "failed"
        /\ \A k \in DOMAIN runs : k # x => runs'[k] = runs[k]
    BY <1>1, <1>2, <2>0, <2>1 DEF FinishInterrupted, SetStatus, Anyone, Orderly, RowsTyped, RunRow
  <2>3. ASSUME NEW k \in Run \ {r, x} PROVE RunTruthful(k)'
    BY <2>2, ApartKeeps DEF Truthful, RunTruthful, Apart
  <2>4. RunTells(r)' /\ RunWaits(r)' /\ RunCloses(r)'
    BY <1>1, <2>2 DEF Truthful, RunTells, RunWaits, RunCloses, Rowless, Unclosed, Fresh
  <2>5. RunTells(x)' /\ RunWaits(x)' /\ RunCloses(x)'
    BY <2>1, <2>2 DEF Truthful, RunTells, RunWaits, RunCloses, Rowless, Unclosed, Open
  <2> QED
    BY <2>2, <2>3, <2>4, <2>5 DEF Truthful, RunTruthful, ReportsTyped, CommitsTyped
<1>3. CASE UNCHANGED runs /\ Leave(r)
  BY <1>1, <1>3, TruthfulLeave DEF FinishInterrupted
<1> QED
  BY <1>2, <1>3 DEF FinishInterrupted

LEMMA TruthfulStartRun ==
    ASSUME Orderly, Truthful, NEW r \in Run, StartRun(r)
    PROVE  Truthful'
<1>1. procs \in [Anyone -> Worker] /\ r \in Anyone /\ procs[r].at = "closing" /\ r \notin DOMAIN runs
  BY DEF Orderly, ProcsTyped, RowsFollow, Rowless, StartRun, Anyone
<1>2. CASE runs' = Put(runs, r, [status |-> "running", old |-> FALSE]) /\ GoTo(r, "starting")
  <2>1. /\ \A k \in Run \ {r} : procs'[k] = procs[k]
        /\ procs'[r].at = "starting"
        /\ procs'[r].footer = procs[r].footer /\ procs'[r].completed = procs[r].completed
        /\ reports' = reports /\ committed' = committed
        /\ r \in DOMAIN runs' /\ runs'[r].status = "running"
        /\ \A k \in Run \ {r} : /\ k \in DOMAIN runs' <=> k \in DOMAIN runs
                                /\ k \in DOMAIN runs => runs'[k] = runs[k]
    BY <1>1, <1>2 DEF StartRun, GoTo, Put, Worker, Anyone
  <2>2. \A k \in Run \ {r} : Apart(k)
    BY <2>1 DEF Apart
  <2>3. RunTells(r)' /\ RunWaits(r)' /\ RunCloses(r)'
    BY <1>1, <2>1 DEF Truthful, RunTells, RunWaits, RunCloses, Rowless, Unclosed
  <2> QED
    BY <2>1, <2>2, <2>3, OneRunSteps DEF Truthful, RunTruthful, ReportsTyped, CommitsTyped
<1>3. CASE UNCHANGED runs /\ Leave(r)
  BY <1>1, <1>3, TruthfulLeave DEF StartRun
<1> QED
  BY <1>2, <1>3 DEF StartRun

LEMMA TruthfulWriteHeader ==
    ASSUME Orderly, Truthful, NEW r \in Run, WriteHeader(r)
    PROVE  Truthful'
<1>1. /\ procs \in [Anyone -> Worker] /\ r \in Anyone
      /\ procs[r].at = "starting" /\ r \in DOMAIN runs /\ runs[r].status = "running"
  BY DEF Orderly, ProcsTyped, RowsFollow, Rowed, Unclosed, WriteHeader, Anyone
<1>2. /\ \A k \in Run \ {r} : procs'[k] = procs[k]
      /\ procs'[r].at = "phases"
      /\ procs'[r].footer = procs[r].footer /\ procs'[r].completed = procs[r].completed
      /\ runs' = runs /\ committed' = committed
  BY <1>1 DEF WriteHeader, GoTo, Worker, Anyone
<1>3. /\ ReportsTyped' /\ r \in DOMAIN reports'
      /\ \A k \in Run \ {r} : /\ k \in DOMAIN reports' <=> k \in DOMAIN reports
                              /\ k \in DOMAIN reports => reports'[k] = reports[k]
  <2>1. <<>> \in Seq(Line) /\ reports' = Put(reports, r, <<>>)
    BY DEF WriteHeader
  <2> QED
    BY <2>1, PutReport DEF Truthful
<1>4. \A k \in Run \ {r} : Apart(k)
  BY <1>2, <1>3 DEF Apart
<1>5. RunTells(r)' /\ RunWaits(r)' /\ RunCloses(r)'
  BY <1>1, <1>2 DEF Truthful, RunTells, RunWaits, RunCloses, Rowless, Unclosed
<1> QED
  BY <1>2, <1>3, <1>4, <1>5, OneRunSteps DEF Truthful, RunTruthful, CommitsTyped

------------------------------------------------------------------------------
(* Groups *)

\* A run writes a line and stays truthful, if it waits for no line it has not left
\* open and closes no row it has not told.
LEMMA WriteSteps ==
    ASSUME Orderly, Truthful, NEW r \in Run, NEW line \in Line, Writes(r, line),
           procs[r].at # "over", UNCHANGED <<runs, committed>>,
           \A k \in Run \ {r} : procs'[k] = procs[k],
           procs'[r].at \notin Rowless \cup {"starting", "skipped"},
           RunWaits(r)', RunCloses(r)'
    PROVE  Truthful'
<1>1. ReportsTyped /\ RunTells(r)
  BY DEF Truthful
<1>2. /\ ReportsTyped' /\ r \in DOMAIN reports'
      /\ \A k \in Run \ {r} : /\ k \in DOMAIN reports' <=> k \in DOMAIN reports
                              /\ k \in DOMAIN reports => reports'[k] = reports[k]
      /\ \A n \in Nat : <<r, n>> \in committed =>
            /\ Tells(reports'[r], n) /\ reports'[r][n].outcome # "open"
            /\ n < Len(reports'[r])
  BY <1>1, WriteTells
<1>3. \A n \in Nat : n < Len(reports'[r]) => n # Len(reports'[r])
  BY <1>2 DEF ReportsTyped
<1>4. RunTells(r)'
  BY <1>2, <1>3 DEF RunTells, Open
<1>5. \A k \in Run \ {r} : Apart(k)
  BY <1>2 DEF Apart
<1> QED
  BY <1>2, <1>4, <1>5, OneRunSteps DEF Truthful, RunTruthful, CommitsTyped

LEMMA TruthfulBeginGroup ==
    ASSUME Orderly, Truthful, NEW r \in Run, BeginGroup(r)
    PROVE  Truthful'
<1>1. /\ procs \in [Anyone -> Worker] /\ r \in Anyone
      /\ procs[r].at = "phases" /\ r \in DOMAIN runs /\ runs[r].status = "running"
      /\ ~procs[r].footer /\ ~procs[r].completed
  BY DEF Orderly, ProcsTyped, RowsFollow, Rowed, Unclosed, BeginGroup, Anyone, Truthful, RunCloses
<1>2. /\ \A k \in Run \ {r} : procs'[k] = procs[k]
      /\ (procs'[r].at = "applying" /\ procs'[r].pending) \/ procs'[r].at = "failing"
      /\ procs'[r].footer = procs[r].footer /\ procs'[r].completed = procs[r].completed
      /\ runs' = runs /\ committed' = committed
  BY <1>1 DEF BeginGroup, GoTo, Worker, Anyone
<1>3. ChangeLine("open") \in Line /\ Writes(r, ChangeLine("open"))
  BY DEF BeginGroup, ChangeLine, Line
<1>4. r \in DOMAIN reports' /\ Len(reports'[r]) > 0 /\ Last(reports'[r]) = ChangeLine("open")
  BY <1>3, WriteTells DEF Truthful
<1>5. Dangling(reports'[r])
  BY <1>4 DEF Dangling
<1>6. RunWaits(r)'
  BY <1>2, <1>4, <1>5 DEF RunWaits
<1>7. RunCloses(r)'
  BY <1>1, <1>2 DEF RunCloses, Rowless, Unclosed
<1> QED
  BY <1>1, <1>2, <1>3, <1>6, <1>7, WriteSteps DEF Rowless

LEMMA TruthfulApplyCommits ==
    ASSUME Orderly, Truthful, NEW r \in Run, ApplyCommits(r)
    PROVE  Truthful'
<1>1. /\ procs \in [Anyone -> Worker] /\ r \in Anyone
      /\ procs[r].at = "applying" /\ r \in DOMAIN runs /\ runs[r].status = "running"
      /\ ~procs[r].footer /\ ~procs[r].completed
      /\ procs[r].pending /\ r \in DOMAIN reports /\ Dangling(reports[r])
  BY DEF Orderly, ProcsTyped, RowsFollow, Rowed, Unclosed, ApplyCommits, Anyone, Truthful,
         RunCloses, RunWaits
<1>2. /\ \A k \in Run \ {r} : procs'[k] = procs[k]
      /\ procs'[r].at \in {"applied", "failing"} /\ procs'[r].pending
      /\ procs'[r].footer = procs[r].footer /\ procs'[r].completed = procs[r].completed
      /\ runs' = runs /\ reports' = reports
  BY <1>1 DEF ApplyCommits, GoTo, Worker, Anyone
<1>3. reports[r] \in Seq(Line) /\ committed' = committed \cup {<<r, Len(reports[r])>>}
  BY <1>1, ContentTyped DEF ApplyCommits, Truthful
<1>4. Tells(reports[r], Len(reports[r])) /\ Len(reports[r]) \in Nat
  BY <1>1, <1>3 DEF Tells, Dangling, Last, ChangeLine
<1>5. RunTells(r)'
  BY <1>1, <1>2, <1>3, <1>4 DEF Truthful, RunTells, Rowless, Open
<1>6. RunWaits(r)' /\ RunCloses(r)'
  BY <1>1, <1>2 DEF RunWaits, RunCloses, Rowless, Unclosed
<1>7. \A k \in Run \ {r} : Apart(k)
  BY <1>2, <1>3 DEF Apart
<1>8. ReportsTyped' /\ CommitsTyped'
  BY <1>2, <1>3, <1>4 DEF Truthful, ReportsTyped, CommitsTyped
<1> QED
  BY <1>5, <1>6, <1>7, <1>8, OneRunSteps DEF RunTruthful

LEMMA TruthfulApplyRefused ==
    ASSUME Orderly, Truthful, NEW r \in Run, ApplyRefused(r)
    PROVE  Truthful'
<1>1. procs \in [Anyone -> Worker] /\ r \in Anyone /\ procs[r].at = "applying"
  BY DEF Orderly, ProcsTyped, ApplyRefused, Anyone
<1>2. /\ \A k \in Run \ {r} : procs'[k] = procs[k]
      /\ procs'[r].at = "refused" /\ procs'[r].pending = procs[r].pending
      /\ procs'[r].footer = procs[r].footer /\ procs'[r].completed = procs[r].completed
      /\ runs' = runs /\ reports' = reports /\ committed' = committed
  BY <1>1 DEF ApplyRefused, GoTo, Worker, Anyone
<1>3. RunTells(r)' /\ RunWaits(r)' /\ RunCloses(r)'
  BY <1>1, <1>2 DEF Truthful, RunTells, RunWaits, RunCloses, Rowless, Unclosed, Open
<1>4. \A k \in Run \ {r} : Apart(k)
  BY <1>2 DEF Apart
<1> QED
  BY <1>2, <1>3, <1>4, OneRunSteps DEF Truthful, RunTruthful, ReportsTyped, CommitsTyped

LEMMA TruthfulComplete ==
    ASSUME Orderly, Truthful, NEW r \in Run, Complete(r)
    PROVE  Truthful'
<1> DEFINE settled == Settle(Content(r), Outcome(procs[r].at))
<1>1. /\ procs \in [Anyone -> Worker] /\ r \in Anyone
      /\ procs[r].at \in {"applied", "refused"} /\ r \in DOMAIN runs /\ runs[r].status = "running"
      /\ ~procs[r].footer /\ ~procs[r].completed /\ procs[r].pending /\ r \in DOMAIN reports
  BY DEF Orderly, ProcsTyped, RowsFollow, Rowed, Unclosed, Complete, Anyone, Truthful,
         RunCloses, RunWaits
<1>2. /\ \A k \in Run \ {r} : procs'[k] = procs[k]
      /\ procs'[r].at \in {"phases", "failing"}
      /\ procs'[r].footer = procs[r].footer /\ procs'[r].completed = procs[r].completed
      /\ runs' = runs /\ committed' = committed
      /\ \/ reports' = Put(reports, r, settled)
         \/ reports' = reports /\ procs'[r].pending = procs[r].pending
  <2>1. /\ runs' = runs /\ committed' = committed
        /\ \/ /\ reports' = Put(reports, r, settled)
              /\ procs' = [procs EXCEPT ![r].at = "phases", ![r].pending = FALSE]
           \/ /\ reports' \in {reports, Put(reports, r, settled)}
              /\ procs' = [procs EXCEPT ![r].at = "failing"]
    BY DEF Complete, GoTo
  <2> HIDE DEF settled
  <2>2. CASE procs' = [procs EXCEPT ![r].at = "phases", ![r].pending = FALSE]
    BY <1>1, <2>1, <2>2 DEF Worker, Anyone
  <2>3. CASE procs' = [procs EXCEPT ![r].at = "failing"]
    <3>1. procs'[r] = [procs[r] EXCEPT !.at = "failing"] /\ procs[r] \in Worker
      BY <1>1, <2>3
    <3>2. procs'[r].pending = procs[r].pending /\ procs'[r].at = "failing"
          /\ procs'[r].footer = procs[r].footer /\ procs'[r].completed = procs[r].completed
      BY <3>1 DEF Worker
    <3>3. \A k \in Run \ {r} : procs'[k] = procs[k]
      BY <1>1, <2>3
    <3>4. reports' \in {reports, Put(reports, r, settled)}
      BY <2>1
    <3> QED
      BY <2>1, <3>2, <3>3, <3>4
  <2> QED
    BY <2>1, <2>2, <2>3
<1>3. RunWaits(r)' /\ RunCloses(r)'
  BY <1>1, <1>2 DEF RunWaits, RunCloses, Rowless, Unclosed
<1>4. CASE reports' = reports /\ procs'[r].pending = procs[r].pending
  <2>1. RunTells(r)'
    BY <1>1, <1>2, <1>4 DEF Truthful, RunTells, Rowless, Open
  <2>2. \A k \in Run \ {r} : Apart(k)
    BY <1>2, <1>4 DEF Apart
  <2> QED
    BY <1>2, <1>3, <1>4, <2>1, <2>2, OneRunSteps
    DEF Truthful, RunTruthful, ReportsTyped, CommitsTyped
<1>5. CASE reports' = Put(reports, r, settled)
  <2>1. /\ Content(r) \in Seq(Line) /\ Content(r) = reports[r]
        /\ Outcome(procs[r].at) \in {"applied", "not-applied", "unknown"}
    BY <1>1, ContentTyped DEF Truthful, Outcome
  <2>2. settled \in Seq(Line)
    BY <2>1, SettleLines
  <2>3. ASSUME NEW n \in Nat, <<r, n>> \in committed
        PROVE  Tells(settled, n) /\ settled[n].outcome # "open"
    <3>1. /\ Tells(Content(r), n)
          /\ Outcome(procs[r].at) # "not-applied" \/ n # Len(Content(r))
      BY <1>1, <2>1, <2>3 DEF Truthful, RunTells, Outcome
    <3> QED
      BY <2>1, <3>1, SettleTells
  <2> HIDE DEF settled
  <2>4. /\ ReportsTyped' /\ r \in DOMAIN reports' /\ reports'[r] = settled
        /\ \A k \in Run \ {r} : /\ k \in DOMAIN reports' <=> k \in DOMAIN reports
                                /\ k \in DOMAIN reports => reports'[k] = reports[k]
    BY <1>5, <2>2, PutReport DEF Truthful
  <2>5. RunTells(r)'
    BY <1>2, <2>3, <2>4 DEF RunTells, Rowless, Open
  <2>6. \A k \in Run \ {r} : Apart(k)
    BY <1>2, <2>4 DEF Apart
  <2> QED
    BY <1>2, <1>3, <2>4, <2>5, <2>6, OneRunSteps DEF Truthful, RunTruthful, CommitsTyped
<1> QED
  BY <1>2, <1>4, <1>5

LEMMA TruthfulRaise ==
    ASSUME Orderly, Truthful, NEW r \in Run, Raise(r) \/ EndPhases(r)
    PROVE  Truthful'
<1>1. /\ procs \in [Anyone -> Worker] /\ r \in Anyone
      /\ procs[r].at \in {"starting", "phases", "applying", "pruning", "unlinked"}
      /\ r \in DOMAIN runs /\ runs[r].status = "running"
      /\ ~procs[r].footer /\ ~procs[r].completed
  BY DEF Orderly, ProcsTyped, RowsFollow, Rowed, Unclosed, Raise, EndPhases, Anyone, Truthful,
         RunCloses
<1>2. /\ \A k \in Run \ {r} : procs'[k] = procs[k]
      /\ procs'[r].at \in {"failing", "pruning"} /\ procs'[r].pending = procs[r].pending
      /\ procs'[r].footer = procs[r].footer /\ procs'[r].completed = procs[r].completed
      /\ runs' = runs /\ reports' = reports /\ committed' = committed
  BY <1>1 DEF Raise, EndPhases, GoTo, Worker, Anyone
<1>3. RunTells(r)'
  BY <1>1, <1>2 DEF Truthful, RunTells, Rowless, Open
<1>4. RunWaits(r)' /\ RunCloses(r)'
  BY <1>1, <1>2 DEF RunWaits, RunCloses, Rowless, Unclosed
<1>5. \A k \in Run \ {r} : Apart(k)
  BY <1>2 DEF Apart
<1> QED
  BY <1>2, <1>3, <1>4, <1>5, OneRunSteps DEF Truthful, RunTruthful, ReportsTyped, CommitsTyped

------------------------------------------------------------------------------
(* Retention, and a skipped run *)

LEMMA TruthfulUnlink ==
    ASSUME Orderly, Truthful, NEW h \in Anyone, Unlink(h)
    PROVE  Truthful'
<1>1. procs \in [Anyone -> Worker] /\ procs[h].at = "pruning" /\ Run \subseteq Anyone
  BY DEF Orderly, ProcsTyped, Unlink, Anyone
<1>2. PICK x \in Outdated :
        /\ reports' = [y \in DOMAIN reports \ {x} |-> reports[y]]
        /\ procs' = [procs EXCEPT ![h].at = "unlinked", ![h].about = x]
  BY DEF Unlink
<1>3. x \in Run /\ x \in DOMAIN runs /\ runs[x].old /\ runs[x].status # "running"
  BY <1>2 DEF Outdated, Orderly, RowsTyped
<1>4. x # h
  BY <1>1, <1>3 DEF Orderly, RowsFollow, Unclosed
<1>5. procs[x].at = "over"
  BY <1>1, <1>3, <1>4, ClosedAreOver DEF Locked, Place
<1>6. /\ \A k \in Run \ {h} : procs'[k] = procs[k]
      /\ procs'[h].at = "unlinked" /\ procs'[h].pending = procs[h].pending
      /\ procs'[h].footer = procs[h].footer /\ procs'[h].completed = procs[h].completed
      /\ runs' = runs /\ committed' = committed
  BY <1>1, <1>2 DEF Unlink, Worker
<1>7. /\ DOMAIN reports' = DOMAIN reports \ {x}
      /\ \A k \in DOMAIN reports' : reports'[k] = reports[k]
  BY <1>2
<1>8. ASSUME NEW k \in Run \ {x, h} PROVE RunTruthful(k)'
  BY <1>6, <1>7, ApartKeeps DEF Truthful, RunTruthful, Apart
<1>9. RunTells(x)' /\ RunWaits(x)' /\ RunCloses(x)'
  BY <1>3, <1>4, <1>5, <1>6, <1>7 DEF RunTells, RunWaits, RunCloses, Rowless, Unclosed, Open
<1>10. ASSUME h \in Run PROVE RunTells(h)' /\ RunWaits(h)' /\ RunCloses(h)'
  <2>1. h \in DOMAIN reports' <=> h \in DOMAIN reports
    BY <1>4, <1>7
  <2>2. h \in DOMAIN runs /\ runs[h].status = "running"
    BY <1>1, <1>10 DEF Orderly, RowsFollow, Rowed, Unclosed
  <2> QED
    BY <1>1, <1>6, <1>7, <1>10, <2>1, <2>2
    DEF Truthful, RunTells, RunWaits, RunCloses, Rowless, Unclosed, Open
<1>11. ReportsTyped'
  BY <1>2, <1>7 DEF Truthful, ReportsTyped
<1>12. \A k \in Run : RunTruthful(k)'
  BY <1>8, <1>9, <1>10 DEF RunTruthful
<1> QED
  BY <1>6, <1>11, <1>12 DEF Truthful, RunTruthful, CommitsTyped

LEMMA TruthfulDeleteRun ==
    ASSUME Orderly, Truthful, NEW h \in Anyone, DeleteRun(h)
    PROVE  Truthful'
<1>0. PICK x : x = procs[h].about
  OBVIOUS
<1>1. procs \in [Anyone -> Worker] /\ procs[h].at = "unlinked" /\ Run \subseteq Anyone
  BY DEF Orderly, ProcsTyped, DeleteRun, Anyone
<1>2. /\ x \in Run /\ x \in DOMAIN runs /\ runs[x].old /\ runs[x].status # "running"
      /\ x \notin DOMAIN reports
  BY <1>0, <1>1 DEF Outdated, Orderly, Subjects, RowsTyped
<1>3. x # h
  BY <1>1, <1>2 DEF Orderly, RowsFollow, Unclosed
<1>4. /\ \A k \in Run \ {h} : procs'[k] = procs[k]
      /\ procs'[h].at = "pruning" /\ procs'[h].pending = procs[h].pending
      /\ procs'[h].footer = procs[h].footer /\ procs'[h].completed = procs[h].completed
      /\ reports' = reports /\ committed' = committed
      /\ runs' = [y \in DOMAIN runs \ {x} |-> runs[y]]
  BY <1>0, <1>1 DEF DeleteRun, Worker
<1>5. procs[x].at = "over"
  BY <1>1, <1>2, <1>3, ClosedAreOver DEF Locked, Place
<1>6. /\ DOMAIN runs' = DOMAIN runs \ {x}
      /\ \A k \in DOMAIN runs' : runs'[k] = runs[k]
  BY <1>4
<1>7. ASSUME NEW k \in Run \ {x, h} PROVE RunTruthful(k)'
  BY <1>4, <1>6, ApartKeeps DEF Truthful, RunTruthful, Apart
<1>8. RunTells(x)' /\ RunWaits(x)' /\ RunCloses(x)'
  BY <1>2, <1>3, <1>4, <1>5, <1>6 DEF RunTells, RunWaits, RunCloses, Rowless, Unclosed, Truthful, Open
<1>9. ASSUME h \in Run PROVE RunTells(h)' /\ RunWaits(h)' /\ RunCloses(h)'
  <2>1. h \in DOMAIN runs' /\ h \in DOMAIN runs /\ runs'[h] = runs[h] /\ runs[h].status = "running"
    BY <1>1, <1>3, <1>6, <1>9 DEF Orderly, RowsFollow, Rowed, Unclosed
  <2> QED
    BY <1>1, <1>4, <1>9, <2>1
    DEF Truthful, RunTells, RunWaits, RunCloses, Rowless, Unclosed, Open
<1>10. \A k \in Run : RunTruthful(k)'
  BY <1>7, <1>8, <1>9 DEF RunTruthful
<1> QED
  BY <1>4, <1>10 DEF Truthful, RunTruthful, CommitsTyped, ReportsTyped

LEMMA TruthfulSkipRun ==
    ASSUME Orderly, Truthful, NEW r \in Run, SkipRun(r)
    PROVE  Truthful'
<1>1. procs \in [Anyone -> Worker] /\ r \in Anyone /\ procs[r].at = "skipping" /\ r \notin DOMAIN runs
  BY DEF Orderly, ProcsTyped, RowsFollow, Rowless, SkipRun, Anyone
<1>2. CASE runs' = Put(runs, r, [status |-> "skipped", old |-> FALSE]) /\ GoTo(r, "skipped")
  <2>1. /\ \A k \in Run \ {r} : procs'[k] = procs[k]
        /\ procs'[r].at = "skipped"
        /\ reports' = reports /\ committed' = committed
        /\ r \in DOMAIN runs' /\ runs'[r].status = "skipped"
        /\ \A k \in Run \ {r} : /\ k \in DOMAIN runs' <=> k \in DOMAIN runs
                                /\ k \in DOMAIN runs => runs'[k] = runs[k]
    BY <1>1, <1>2 DEF SkipRun, GoTo, Put, Worker, Anyone
  <2>2. \A k \in Run \ {r} : Apart(k)
    BY <2>1 DEF Apart
  <2>3. RunTells(r)' /\ RunWaits(r)' /\ RunCloses(r)'
    BY <1>1, <2>1 DEF Truthful, RunTells, RunWaits, RunCloses, Rowless, Unclosed
  <2> QED
    BY <2>1, <2>2, <2>3, OneRunSteps DEF Truthful, RunTruthful, ReportsTyped, CommitsTyped
<1>3. CASE UNCHANGED runs /\ Leave(r)
  BY <1>1, <1>3, TruthfulLeave DEF SkipRun
<1> QED
  BY <1>2, <1>3 DEF SkipRun

LEMMA TruthfulReportSkipped ==
    ASSUME Orderly, Truthful, NEW r \in Run, ReportSkipped(r)
    PROVE  Truthful'
<1>1. /\ procs \in [Anyone -> Worker] /\ r \in Anyone /\ procs[r].at = "skipped"
      /\ r \in DOMAIN runs /\ runs[r].status = "skipped" /\ runs \in [DOMAIN runs -> RunRow]
  BY DEF Orderly, ProcsTyped, RowsTyped, RowsFollow, Rowed, ReportSkipped, Anyone
<1>2. /\ \A k \in Run \ {r} : procs'[k] = procs[k]
      /\ procs'[r].at = "over" /\ committed' = committed
  BY <1>1 DEF ReportSkipped, Leave, Fresh, Worker, Anyone
<1>3. /\ DOMAIN runs' = DOMAIN runs /\ runs'[r].status # "completed"
      /\ \A k \in Run \ {r} : k \in DOMAIN runs => runs'[k] = runs[k]
  <2>1. CASE runs' = runs
    BY <1>1, <2>1
  <2>2. CASE SetStatus(r, "failed")
    BY <1>1, <2>2 DEF SetStatus, RunRow
  <2> QED
    BY <2>1, <2>2 DEF ReportSkipped
<1>4. /\ ReportsTyped'
      /\ \A k \in Run \ {r} : /\ k \in DOMAIN reports' <=> k \in DOMAIN reports
                              /\ k \in DOMAIN reports => reports'[k] = reports[k]
  <2>1. ASSUME NEW lines \in Seq(Line), reports' = Put(reports, r, lines)
        PROVE  /\ ReportsTyped'
               /\ \A k \in Run \ {r} : /\ k \in DOMAIN reports' <=> k \in DOMAIN reports
                                       /\ k \in DOMAIN reports => reports'[k] = reports[k]
    BY <2>1, PutReport DEF Truthful
  <2>2. StatusLine("skipped") \in Line /\ StatusLine("failed") \in Line
    BY DEF StatusLine, Line, Status
  <2>3. /\ <<>> \in Seq(Line) /\ <<StatusLine("skipped")>> \in Seq(Line)
        /\ <<>> \o <<StatusLine("failed")>> \in Seq(Line)
        /\ <<StatusLine("skipped")>> \o <<StatusLine("failed")>> \in Seq(Line)
    BY <2>2
  <2>4. CASE reports' = reports
    BY <2>4 DEF Truthful, ReportsTyped
  <2>5. \/ reports' = reports \/ reports' = Put(reports, r, <<>>)
        \/ reports' = Put(reports, r, <<StatusLine("skipped")>>)
        \/ reports' = Put(reports, r, <<>> \o <<StatusLine("failed")>>)
        \/ reports' = Put(reports, r, <<StatusLine("skipped")>> \o <<StatusLine("failed")>>)
    BY DEF ReportSkipped
  <2> QED
    BY <2>1, <2>3, <2>4, <2>5
<1>5. RunTells(r)' /\ RunWaits(r)' /\ RunCloses(r)'
  BY <1>1, <1>2, <1>3 DEF Truthful, RunTells, RunWaits, RunCloses, Rowless, Unclosed
<1>6. \A k \in Run \ {r} : Apart(k)
  BY <1>2, <1>3, <1>4 DEF Apart
<1> QED
  BY <1>2, <1>4, <1>5, <1>6, OneRunSteps DEF Truthful, RunTruthful, CommitsTyped

------------------------------------------------------------------------------
(* The end of a run *)

LEMMA TruthfulWriteFooter ==
    ASSUME Orderly, Truthful, NEW r \in Run, WriteFooter(r)
    PROVE  Truthful'
<1>1. /\ procs \in [Anyone -> Worker] /\ r \in Anyone
      /\ procs[r].at = "pruning" /\ r \in DOMAIN runs /\ runs[r].status = "running"
      /\ ~procs[r].footer /\ ~procs[r].completed
  BY DEF Orderly, ProcsTyped, RowsFollow, Rowed, Unclosed, WriteFooter, Anyone, Truthful,
         RunCloses
<1>2. StatusLine("completed") \in Line /\ Writes(r, StatusLine("completed"))
  BY DEF WriteFooter, StatusLine, Line, Status
<1>3. r \in DOMAIN reports' /\ LastWord(reports'[r], "completed")
  BY <1>2, WriteTells DEF Truthful
<1>4. /\ \A k \in Run \ {r} : procs'[k] = procs[k]
      /\ \/ procs'[r].at = "finishing" /\ procs'[r].footer /\ procs'[r].completed
         \/ procs'[r].at = "failing" /\ ~procs'[r].completed
      /\ runs' = runs /\ committed' = committed
  BY <1>1 DEF WriteFooter, GoTo, Worker, Anyone
<1>5. RunWaits(r)' /\ RunCloses(r)'
  BY <1>1, <1>3, <1>4 DEF RunWaits, RunCloses, Rowless, Unclosed
<1> QED
  BY <1>1, <1>2, <1>4, <1>5, WriteSteps DEF Rowless

LEMMA TruthfulFinishRun ==
    ASSUME Orderly, Truthful, NEW r \in Run, FinishRun(r)
    PROVE  Truthful'
<1>1. /\ procs \in [Anyone -> Worker] /\ r \in Anyone
      /\ procs[r].at = "finishing" /\ r \in DOMAIN runs /\ runs[r].status = "running"
      /\ procs[r].footer /\ procs[r].completed
      /\ r \in DOMAIN reports /\ LastWord(reports[r], "completed")
  BY DEF Orderly, ProcsTyped, RowsFollow, Rowed, Unclosed, FinishRun, Anyone, Truthful,
         RunCloses
<1>2. /\ \A k \in Run \ {r} : procs'[k] = procs[k]
      /\ reports' = reports /\ committed' = committed
      /\ \/ procs'[r].at = "over"
         \/ /\ procs'[r].at = "failing" /\ procs'[r].footer /\ procs'[r].completed
            /\ procs'[r].pending = procs[r].pending
  BY <1>1 DEF FinishRun, GoTo, Leave, Fresh, Worker, Anyone
<1>3. /\ DOMAIN runs' = DOMAIN runs
      /\ \A k \in Run \ {r} : k \in DOMAIN runs => runs'[k] = runs[k]
  BY DEF FinishRun, SetStatus, Orderly, RowsTyped
<1>4. RunTells(r)'
  BY <1>1, <1>2 DEF Truthful, RunTells, Rowless, Open
<1>5. RunWaits(r)' /\ RunCloses(r)'
  BY <1>1, <1>2 DEF RunWaits, RunCloses, Rowless, Unclosed
<1>6. \A k \in Run \ {r} : Apart(k)
  BY <1>2, <1>3 DEF Apart
<1> QED
  BY <1>2, <1>4, <1>5, <1>6, OneRunSteps DEF Truthful, RunTruthful, ReportsTyped, CommitsTyped

LEMMA TruthfulFailFooter ==
    ASSUME Orderly, Truthful, NEW r \in Run, FailFooter(r)
    PROVE  Truthful'
<1>1. /\ procs \in [Anyone -> Worker] /\ r \in Anyone
      /\ procs[r].at = "failing" /\ r \in DOMAIN runs
      /\ ~procs[r].completed /\ runs[r].status = "running"
  BY DEF Orderly, ProcsTyped, RowsFollow, Rowed, FailFooter, Anyone, Truthful, RunCloses
<1>2. CASE UNCHANGED reports /\ Leave(r)
  BY <1>1, <1>2, TruthfulLeave DEF FailFooter
<1>3. CASE Writes(r, StatusLine("failed"))
  <2>1. /\ \A k \in Run \ {r} : procs'[k] = procs[k]
        /\ procs'[r].at \in {"failing", "over"} /\ ~procs'[r].completed
        /\ runs' = runs /\ committed' = committed
    BY <1>1 DEF FailFooter, Leave, Fresh, Worker, Anyone
  <2>2. StatusLine("failed") \in Line
    BY DEF StatusLine, Line, Status
  <2>3. RunWaits(r)' /\ RunCloses(r)'
    BY <1>1, <2>1 DEF RunWaits, RunCloses, Rowless, Unclosed
  <2> QED
    BY <1>1, <1>3, <2>1, <2>2, <2>3, WriteSteps DEF Rowless
<1> QED
  BY <1>2, <1>3 DEF FailFooter

LEMMA TruthfulFailRun ==
    ASSUME Orderly, Truthful, NEW r \in Run, FailRun(r)
    PROVE  Truthful'
<1>1. /\ procs \in [Anyone -> Worker] /\ r \in Anyone
      /\ procs[r].at = "failing" /\ r \in DOMAIN runs /\ procs[r].footer
      /\ procs[r].completed => r \in DOMAIN reports /\ LastWord(reports[r], "completed")
      /\ runs[r].status = "completed" /\ r \in DOMAIN reports => LastWord(reports[r], "completed")
  BY DEF Orderly, ProcsTyped, RowsFollow, Rowed, FailRun, Anyone, Truthful, RunCloses
<1>2. /\ \A k \in Run \ {r} : procs'[k] = procs[k]
      /\ reports' = reports /\ committed' = committed
      /\ \/ procs'[r].at = "over"
         \/ /\ procs'[r].at = "noting" /\ procs'[r].footer /\ procs'[r].completed
            /\ procs[r].completed /\ procs'[r].pending = procs[r].pending
  BY <1>1 DEF FailRun, GoTo, Leave, Fresh, Worker, Anyone
<1>3. /\ DOMAIN runs' = DOMAIN runs
      /\ \A k \in Run \ {r} : k \in DOMAIN runs => runs'[k] = runs[k]
      /\ runs'[r].status = "completed" => runs[r].status = "completed"
  <2>1. CASE runs' = runs
    BY <2>1
  <2>2. CASE SetStatus(r, "failed")
    BY <1>1, <2>2 DEF SetStatus, Orderly, RowsTyped, RunRow
  <2> QED
    BY <2>1, <2>2 DEF FailRun
<1>4. RunTells(r)'
  BY <1>1, <1>2 DEF Truthful, RunTells, Rowless, Open
<1>5. RunWaits(r)' /\ RunCloses(r)'
  BY <1>1, <1>2, <1>3 DEF RunWaits, RunCloses, Rowless, Unclosed
<1>6. \A k \in Run \ {r} : Apart(k)
  BY <1>2, <1>3 DEF Apart
<1> QED
  BY <1>2, <1>4, <1>5, <1>6, OneRunSteps DEF Truthful, RunTruthful, ReportsTyped, CommitsTyped

LEMMA TruthfulNote ==
    ASSUME Orderly, Truthful, NEW r \in Run, Note(r)
    PROVE  Truthful'
<1>1. /\ procs \in [Anyone -> Worker] /\ r \in Anyone
      /\ procs[r].at = "noting" /\ r \in DOMAIN reports /\ LastWord(reports[r], "completed")
  BY DEF Orderly, ProcsTyped, Note, Anyone, Truthful, RunCloses
<1>2. CASE UNCHANGED reports
  BY <1>1, <1>2, TruthfulLeave DEF Note
<1>3. CASE Writes(r, NoteLine)
  <2>1. /\ \A k \in Run \ {r} : procs'[k] = procs[k]
        /\ procs'[r].at = "over"
        /\ runs' = runs /\ committed' = committed
    BY <1>1 DEF Note, Leave, Fresh, Anyone
  <2>2. NoteLine \in Line /\ NoteLine.kind # "status"
    BY DEF NoteLine, Line
  <2>3. LastWord(reports'[r], "completed")
    BY <1>1, <1>3, <2>2, WriteTells DEF Truthful
  <2>4. RunWaits(r)' /\ RunCloses(r)'
    BY <2>1, <2>3 DEF RunWaits, RunCloses, Rowless, Unclosed
  <2> QED
    BY <1>1, <1>3, <2>1, <2>2, <2>4, WriteSteps DEF Rowless
<1> QED
  BY <1>2, <1>3 DEF Note

LEMMA TruthfulView ==
    ASSUME Orderly, Truthful, View
    PROVE  Truthful'
<1>1. /\ procs \in [Anyone -> Worker]
      /\ \A k \in Run : procs'[k] = procs[k]
      /\ runs' = runs /\ reports' = reports /\ committed' = committed
  BY DreamAssumption DEF View, GoTo, Orderly, ProcsTyped, Anyone
<1>2. \A k \in Run : Apart(k)
  BY <1>1 DEF Apart
<1> QED
  BY <1>1, <1>2, ApartKeeps DEF Truthful, RunTruthful, ReportsTyped, CommitsTyped

LEMMA TruthfulAge ==
    ASSUME Orderly, Truthful, NEW x \in DOMAIN runs, Age(x)
    PROVE  Truthful'
<1>1. /\ procs' = procs /\ reports' = reports /\ committed' = committed
      /\ DOMAIN runs' = DOMAIN runs
      /\ \A k \in DOMAIN runs : runs'[k].status = runs[k].status
  BY DEF Age, Orderly, RowsTyped, RunRow
<1>2. \A k \in Run : Apart(k)
  BY <1>1 DEF Apart
<1> QED
  BY <1>1, <1>2, ApartKeeps DEF Truthful, RunTruthful, ReportsTyped, CommitsTyped

------------------------------------------------------------------------------
(* What reports say, in every reachable state *)

LEMMA TruthfulGoes ==
    ASSUME Orderly, Truthful, NEW r \in Run, Goes(r)
    PROVE  Truthful'
<1>1. r \in Anyone
  BY DEF Anyone
<1>2. CASE MarkInterrupted(r) \/ FinishInterrupted(r) \/ StartRun(r) \/ WriteHeader(r)
  BY <1>2, TruthfulMarkInterrupted, TruthfulFinishInterrupted, TruthfulStartRun,
     TruthfulWriteHeader
<1>3. CASE BeginGroup(r) \/ ApplyCommits(r) \/ ApplyRefused(r) \/ Complete(r)
  BY <1>3, TruthfulBeginGroup, TruthfulApplyCommits, TruthfulApplyRefused, TruthfulComplete
<1>4. CASE Raise(r) \/ EndPhases(r) \/ Unlink(r) \/ DeleteRun(r)
  BY <1>1, <1>4, TruthfulRaise, TruthfulUnlink, TruthfulDeleteRun
<1>5. CASE WriteFooter(r) \/ FinishRun(r) \/ FailFooter(r) \/ FailRun(r) \/ Note(r)
  BY <1>5, TruthfulWriteFooter, TruthfulFinishRun, TruthfulFailFooter, TruthfulFailRun,
     TruthfulNote
<1>6. CASE SkipRun(r) \/ ReportSkipped(r)
  BY <1>6, TruthfulSkipRun, TruthfulReportSkipped
<1> QED
  BY <1>2, <1>3, <1>4, <1>5, <1>6 DEF Goes

LEMMA TruthfulNext == Orderly /\ Truthful /\ [DreamNext]_dreamVars => Truthful'
<1> SUFFICES ASSUME Orderly, Truthful, [DreamNext]_dreamVars PROVE Truthful'
  OBVIOUS
<1>1. ASSUME NEW r \in Run, Start(r) \/ Goes(r) PROVE Truthful'
  BY <1>1, TruthfulStart, TruthfulGoes
<1>2. CASE View
  BY <1>2, TruthfulView
<1>3. CASE ViewerGoes
  <2>1. Viewer \in Anyone
    BY DEF Anyone
  <2>2. CASE EndView
    BY <2>1, <2>2, TruthfulLeave DEF EndView
  <2> QED
    BY <1>3, <2>1, <2>2, TruthfulUnlink, TruthfulDeleteRun DEF ViewerGoes
<1>4. ASSUME NEW h \in Anyone, Kill(h) PROVE Truthful'
  BY <1>4, TruthfulLeave DEF Kill
<1>5. ASSUME NEW x \in DOMAIN runs, Age(x) PROVE Truthful'
  BY <1>5, TruthfulAge
<1>6. CASE UNCHANGED dreamVars
  <2>1. \A k \in Run : Apart(k)
    BY <1>6 DEF dreamVars, Apart
  <2> QED
    BY <1>6, <2>1, ApartKeeps DEF Truthful, RunTruthful, ReportsTyped, CommitsTyped, dreamVars
<1> QED
  BY <1>1, <1>2, <1>3, <1>4, <1>5, <1>6 DEF DreamNext, Anyone

THEOREM TruthfulInvariant == DreamSpec => []Truthful
  BY OrderlyInvariant, TruthfulInit, TruthfulNext, PTL DEF DreamSpec

\* Whatever is killed, refused or fails to be written: a change core has committed is
\* told by its run's report, and never as not applied.
THEOREM ChangesToldHolds == DreamSpec => []ChangesTold
<1>1. Truthful => ChangesTold
  <2> SUFFICES ASSUME Truthful, NEW change \in committed, change[1] \in DOMAIN reports
               PROVE  Tells(reports[change[1]], change[2])
    BY DEF ChangesTold
  <2>1. PICK r \in Run, n \in Nat : change = <<r, n>>
    BY DEF Truthful, CommitsTyped
  <2> QED
    BY <2>1 DEF Truthful, RunTells
<1> QED
  BY <1>1, TruthfulInvariant, PTL

\* A row says "completed" only of a run whose report ends on that word.
THEOREM CompletedIsReportedHolds == DreamSpec => []CompletedIsReported
<1>1. Orderly /\ Truthful => CompletedIsReported
  BY DEF Orderly, RowsTyped, Truthful, RunCloses, CompletedIsReported
<1> QED
  BY <1>1, OrderlyInvariant, TruthfulInvariant, PTL

=============================================================================
