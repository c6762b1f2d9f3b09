----------------------------- MODULE Summaries -----------------------------
(***************************************************************************)
(* Session summaries.  A run lists the bound sessions with activity that   *)
(* no final outcome covers, and works on those tried longest ago: it       *)
(* reads the transcript, has a model summarise it part by part, publishes  *)
(* the result unless the session has moved, and records what it covered.   *)
(* A session that needs more calls than a run may spend leaves a           *)
(* checkpoint.  Meanwhile sessions go on, calls fail and runs are killed.  *)
(* There is one run at a time (see DreamRun).                              *)
(***************************************************************************)
EXTENDS Integers, FiniteSets

CONSTANTS
    Session,      \* bound sessions
    None,
    MaxSessions,  \* max_sessions_per_run
    MaxCalls,     \* DREAM_MAX_CALLS_PER_SESSION
    Halvings,     \* DREAM_MAX_ROOM_HALVINGS
    Size,         \* halvings -> records that a part holds at that room
    Estimated,    \* <<session, halvings, part>>: input over the budget by our own estimate
    Refused,      \* <<session, halvings, part>>: input the executor finds too large
    MaxActive,    \* bound: activity of a session
    MaxLines,     \* bound, per session: records of its transcript
    MaxTrouble    \* bound: failed calls, refused texts and killed runs

ASSUME SummariesAssumption ==
    /\ IsFiniteSet(Session) /\ None \notin Session
    /\ {MaxSessions, MaxCalls} \subseteq Nat \ {0} /\ MaxLines \in [Session -> Nat]
    /\ {Halvings, MaxActive, MaxTrouble} \subseteq Nat
    /\ Size \in [0..Halvings -> Nat \ {0}]

VARIABLES
    active,       \* session -> last_active_at
    lines,        \* session -> whole records in its transcript
    torn,         \* session -> the file ends inside a record
    rows,         \* session -> its session_summaries row
    run,          \* the run under way: what it listed
    job,          \* the session it works on, and how far
    troubles,     \* how often something failed
    judged,       \* session -> the records its published summary was made from, or that
                  \* were found not worth one
    hooked        \* history: session -> whole records there were at its last activity

summaryVars == <<active, lines, torn, rows, run, job, troubles, judged, hooked>>
sessionVars == <<active, lines, torn, hooked>>

Rooms == 0..Halvings
Records == Nat \ {0}

\* What a model keeps of the parts it read: nothing, one partial summary, several.
Kept == 0..2

Checkpoint == [read: Nat, room: Rooms, next: Nat, kept: Kept,
               covered: SUBSET Records]

\* -1 stands for NULL, attempted = 0 too; a session without a row is one never attempted.
\* readable: the last outcome was not "unreadable".
Row == [through: -1..MaxActive, attempted: 0..(Cardinality(Session) + 1),
        digest: Nat \cup {-1}, complete: BOOLEAN, readable: BOOLEAN,
        progress: Checkpoint \cup {None}]
NoRow == [through |-> -1, attempted |-> 0, digest |-> -1, complete |-> FALSE,
          readable |-> TRUE, progress |-> None]

Run == [going: BOOLEAN, due: SUBSET Session, seen: [Session -> 0..MaxActive],
        at: 0..(Cardinality(Session) + 1)]
NoRun == [going |-> FALSE, due |-> {}, seen |-> [s \in Session |-> 0], at |-> 0]

\* next: parts covered; covered: the records they hold.
Job == [at: {"none", "reading", "summarizing", "merging", "publishing", "ok", "empty"},
        session: Session \cup {None}, read: Nat, whole: BOOLEAN, room: Rooms,
        calls: 0..MaxCalls, next: Nat, kept: Kept, covered: SUBSET Records]
NoJob == [at |-> "none", session |-> None, read |-> 0, whole |-> FALSE, room |-> 0,
          calls |-> 0, next |-> 0, kept |-> 0, covered |-> {}]

------------------------------------------------------------------------------
(* Parts and rooms *)

\* plan_chunks: the records in order, as many to a part as the room holds; at least one,
\* for a part is never empty.
Parts(room, n) == (n + Size[room] - 1) \div Size[room]
Part(room, n, k) == {i \in 1..n : Size[room] * (k - 1) < i /\ i <= Size[room] * k}

\* Mutant of Resumes: a checkpoint is taken up at any room.
ResumesAnywhere(progress, room, n) == progress # None /\ progress.next <= Parts(room, n)

\* A checkpoint is resumed only at the room it was planned with.
Resumes(progress, room, n) ==
    progress # None /\ progress.room = room /\ progress.next <= Parts(room, n)

\* _Attempt: one pass at one room size; one part is summarised whole.
Pass(s, n, whole, room, calls) ==
    LET progress == rows'[s].progress
        start == [at |-> "summarizing", session |-> s, read |-> n, whole |-> whole,
                  room |-> room, calls |-> calls, next |-> 0, kept |-> 0, covered |-> {}]
    IN  IF Parts(room, n) > 1 /\ Resumes(progress, room, n)
        THEN [start EXCEPT !.next = progress.next, !.kept = progress.kept,
                           !.covered = progress.covered]
        ELSE start

------------------------------------------------------------------------------
(* Listing *)

Due(s) == rows[s].through < active[s]

\* Mutant of Before: the least recently active first, whenever it was tried.
BeforeByActivity(a, b) == active[a] <= active[b]

\* Never attempted first, then the oldest attempt, then the least recently active.
Before(a, b) ==
    \/ rows[a].attempted < rows[b].attempted
    \/ rows[a].attempted = rows[b].attempted /\ active[a] <= active[b]

\* Of attempted_at only the order matters: times are counted from the oldest.
Earlier(s) == {rows[x].attempted : x \in {y \in Session : rows[y].attempted <= rows[s].attempted}}
Recounted(s) == [rows[s] EXCEPT !.attempted = Cardinality(Earlier(s) \ {0})]

ListSessions ==
    LET due == {s \in Session : Due(s)} IN
    /\ ~run.going /\ due # {}
    /\ \E chosen \in SUBSET due :
          /\ Cardinality(chosen) <= MaxSessions
          /\ chosen # due => Cardinality(chosen) = MaxSessions
          /\ \A a \in chosen, b \in due \ chosen : Before(a, b)
          /\ run' = [going |-> TRUE, due |-> chosen,
                     seen |-> [s \in Session |-> IF s \in chosen THEN active[s] ELSE 0],
                     at |-> 1 + Cardinality({rows[x].attempted : x \in Session} \ {0})]
    /\ rows' = [s \in Session |-> Recounted(s)]
    /\ UNCHANGED <<active, lines, torn, job, troubles, judged, hooked>>

EndRun ==
    /\ run.going /\ run.due = {} /\ job = NoJob
    /\ run' = NoRun
    /\ UNCHANGED <<sessionVars, rows, job, troubles, judged>>

------------------------------------------------------------------------------
(* One session *)

\* The attempt is recorded before anything is tried.
Attempt(s) ==
    /\ s \in run.due /\ job = NoJob
    /\ \A other \in run.due : rows[s].attempted <= rows[other].attempted
    /\ rows' = [rows EXCEPT ![s].attempted = run.at]
    /\ run' = [run EXCEPT !.due = @ \ {s}]
    /\ job' = [NoJob EXCEPT !.at = "reading", !.session = s]
    /\ UNCHANGED <<sessionVars, troubles, judged>>

\* _final: it covers the activity seen in the listing, and no checkpoint is left.
Final(s, digest, complete, readable) ==
    /\ rows' = [rows EXCEPT ![s] = [@ EXCEPT !.through = run.seen[s], !.digest = digest,
                                             !.complete = complete, !.readable = readable,
                                             !.progress = None]]
    /\ job' = NoJob

\* _pending: the session stays due.
Pending(s) ==
    /\ rows' = [rows EXCEPT ![s].readable = TRUE]
    /\ job' = NoJob

Trouble == troubles < MaxTrouble /\ troubles' = troubles + 1

\* The transcript cannot be read, or holds nothing new, or nothing at all.
Unreadable ==
    /\ job.at = "reading"
    /\ Final(job.session, rows[job.session].digest, rows[job.session].complete, FALSE)
    /\ UNCHANGED <<sessionVars, run, troubles, judged>>

Unchanged ==
    LET s == job.session IN
    /\ job.at = "reading" /\ lines[s] = rows[s].digest
    /\ IF rows[s].complete \/ ~torn[s] THEN Final(s, lines[s], TRUE, TRUE) ELSE Pending(s)
    /\ UNCHANGED <<sessionVars, run, troubles, judged>>

NoRecords ==
    LET s == job.session IN
    /\ job.at = "reading" /\ lines[s] = 0 /\ rows[s].digest # 0
    /\ Final(s, 0, ~torn[s], TRUE)
    /\ judged' = [judged EXCEPT ![s] = {}]
    /\ UNCHANGED <<sessionVars, run, troubles>>

\* A checkpoint of other input, or that the policy now refuses, is discarded.
ReadTranscript ==
    LET s == job.session
        bare == [rows EXCEPT ![s].progress = None]
        same == rows[s].progress # None /\ rows[s].progress.read = lines[s]
    IN
    /\ job.at = "reading" /\ lines[s] \notin {0, rows[s].digest}
    /\ \/ rows' = (IF same THEN rows ELSE bare) /\ UNCHANGED troubles
       \/ same /\ rows' = bare /\ Trouble
    /\ job' = Pass(s, lines[s], ~torn[s], 0, 0)
    /\ UNCHANGED <<sessionVars, run, judged>>

------------------------------------------------------------------------------
(* Calls *)

\* A smaller room, from its own beginning, or an end.
TooLarge(calls) ==
    IF job.room = Halvings THEN Pending(job.session)
    ELSE /\ UNCHANGED rows
         /\ job' = Pass(job.session, job.read, job.whole, job.room + 1, calls)

\* _spend: out of calls, what this pass covered is kept.
OutOfCalls ==
    /\ IF job.next = 0 THEN Pending(job.session)
       ELSE /\ rows' = [rows EXCEPT ![job.session] =
                  [@ EXCEPT !.readable = TRUE,
                            !.progress = [read |-> job.read, room |-> job.room,
                                          next |-> job.next, kept |-> job.kept,
                                          covered |-> job.covered]]]
            /\ job' = NoJob

\* One call about a part (0: about partial summaries): it does not fit, there is no call
\* left, the executor finds it too large, it fails or its text is refused, or Answered.
Call(part, Answered) ==
    LET input == <<job.session, job.room, part>> IN
    /\ \/ input \in Estimated /\ TooLarge(job.calls) /\ UNCHANGED troubles
       \/ input \notin Estimated /\ job.calls = MaxCalls /\ OutOfCalls /\ UNCHANGED troubles
       \/ /\ input \notin Estimated /\ job.calls < MaxCalls
          /\ \/ input \in Refused /\ TooLarge(job.calls + 1) /\ UNCHANGED troubles
             \/ input \notin Refused /\ Answered /\ UNCHANGED <<rows, troubles>>
             \/ input \notin Refused /\ Pending(job.session) /\ Trouble
    /\ UNCHANGED <<sessionVars, run, judged>>

Several == Parts(job.room, job.read) > 1

\* The next part; several partial summaries may have outgrown half the room.
SummarizePart ==
    /\ job.at = "summarizing" /\ Several /\ job.next < Parts(job.room, job.read)
    /\ Call(job.next + 1,
            \E kept \in {job.kept, IF job.kept = 2 THEN 2 ELSE job.kept + 1},
               at \in {"summarizing", "merging"} :
               /\ at = "merging" => kept = 2
               /\ job' = [job EXCEPT !.calls = @ + 1, !.next = @ + 1, !.kept = kept, !.at = at,
                             !.covered = @ \cup Part(job.room, job.read, job.next + 1)])

Merge ==
    /\ job.at = "merging"
    /\ Call(0, job' = [job EXCEPT !.calls = @ + 1, !.kept = 1, !.at = "summarizing"])

\* Every part was covered and none was worth keeping.
NothingKept ==
    /\ job.at = "summarizing" /\ Several
    /\ job.next = Parts(job.room, job.read) /\ job.kept = 0
    /\ job' = [job EXCEPT !.at = "empty"]
    /\ UNCHANGED <<sessionVars, rows, run, troubles, judged>>

\* The final call, on the only part or on the partial summaries.
SummarizeWhole ==
    /\ job.at = "summarizing"
    /\ Several => job.next = Parts(job.room, job.read) /\ job.kept > 0
    /\ Call(IF Several THEN 0 ELSE 1,
            \E at \in {"publishing", "empty"} :
               job' = [job EXCEPT !.calls = @ + 1, !.at = at,
                          !.covered = IF Several THEN @ ELSE Part(job.room, job.read, 1)])

------------------------------------------------------------------------------
(* Results *)

\* publish_unless the session has moved since it was listed.
Publish ==
    LET s == job.session IN
    /\ job.at = "publishing"
    /\ \/ /\ active[s] = run.seen[s]
          /\ judged' = [judged EXCEPT ![s] = job.covered]
          /\ job' = [job EXCEPT !.at = "ok"]
          /\ UNCHANGED <<rows, troubles>>
       \/ active[s] # run.seen[s] /\ Pending(s) /\ UNCHANGED <<judged, troubles>>
       \/ Pending(s) /\ Trouble /\ UNCHANGED judged
    /\ UNCHANGED <<sessionVars, run>>

RecordFinal ==
    LET s == job.session IN
    /\ job.at \in {"ok", "empty"}
    /\ Final(s, job.read, job.whole, TRUE)
    /\ judged' = [judged EXCEPT ![s] = job.covered]
    /\ UNCHANGED <<sessionVars, run, troubles>>

\* A store failure, a kill: the run is over, what it wrote stays.
EndAbruptly ==
    /\ run.going /\ Trouble
    /\ run' = NoRun /\ job' = NoJob
    /\ UNCHANGED <<sessionVars, rows, judged>>

------------------------------------------------------------------------------
(* What goes on in the sessions *)

\* A hook moves last_active_at.
Activity(s) ==
    /\ active[s] < MaxActive
    /\ active' = [active EXCEPT ![s] = @ + 1]
    /\ hooked' = [hooked EXCEPT ![s] = lines[s]]
    /\ UNCHANGED <<lines, torn, rows, run, job, troubles, judged>>

\* The harness appends a record, in one piece or after a part of it, which may stay alone.
WriteRecord(s) ==
    /\ \/ /\ lines[s] < MaxLines[s]
          /\ lines' = [lines EXCEPT ![s] = @ + 1] /\ torn' = [torn EXCEPT ![s] = FALSE]
       \/ ~torn[s] /\ torn' = [torn EXCEPT ![s] = TRUE] /\ UNCHANGED lines
    /\ UNCHANGED <<active, rows, run, job, troubles, judged, hooked>>

SummariesInit ==
    /\ active = [s \in Session |-> 0] /\ lines = [s \in Session |-> 0]
    /\ torn = [s \in Session |-> FALSE] /\ judged = [s \in Session |-> {}]
    /\ rows = [s \in Session |-> NoRow]
    /\ run = NoRun /\ job = NoJob /\ troubles = 0
    /\ hooked = [s \in Session |-> 0]

Works ==
    \/ EndRun \/ \E s \in Session : Attempt(s)
    \/ Unreadable \/ Unchanged \/ NoRecords \/ ReadTranscript
    \/ SummarizePart \/ Merge \/ NothingKept \/ SummarizeWhole \/ Publish \/ RecordFinal

SummariesNext ==
    \/ ListSessions \/ Works \/ EndAbruptly
    \/ \E s \in Session : Activity(s) \/ WriteRecord(s)

SummariesSpec == SummariesInit /\ [][SummariesNext]_summaryVars

\* Runs come again as they are scheduled, and a run goes on: its calls have a timeout.
SummariesFairSpec ==
    SummariesSpec /\ WF_summaryVars(ListSessions) /\ WF_summaryVars(Works)

------------------------------------------------------------------------------
SummariesTypeOK ==
    /\ active \in [Session -> 0..MaxActive] /\ torn \in [Session -> BOOLEAN]
    /\ lines \in [Session -> Nat] /\ hooked \in [Session -> Nat]
    /\ rows \in [Session -> Row] /\ judged \in [Session -> SUBSET Records]
    /\ run \in Run /\ job \in Job /\ troubles \in 0..MaxTrouble

\* A session that is not due any more, and whose transcript could be read, has had every
\* record there was at its last activity judged: the published summary was made from all
\* of them, or all of them were found not worth one.  Whatever checkpoints, rooms, killed
\* runs and concurrent activity there were, nothing was skipped.
NothingMissed ==
    \A s \in Session :
        ~Due(s) /\ rows[s].readable => 1..hooked[s] \subseteq judged[s]

\* A session left alone comes to a final outcome, if not in this run then in later ones,
\* though other sessions fail or wait for ever; only one whose transcript ends inside a
\* record may stay due.
SessionsFinish == \A s \in Session : []<>(torn[s] \/ ~Due(s))

\* "A session that needs more calls than one run allows keeps a checkpoint in dream.db
\* and is finished by later runs, new activity or not."
CheckpointsFinish ==
    \A s \in Session : <>[]~torn[s] => (rows[s].progress # None ~> ~Due(s))
=============================================================================
