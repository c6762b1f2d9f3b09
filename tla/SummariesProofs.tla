-------------------------- MODULE SummariesProofs --------------------------
(***************************************************************************)
(* What TLAPS proves of session summaries, for any sessions, transcripts,  *)
(* limits and sizes of parts, wherever calls fail and runs are killed.     *)
(***************************************************************************)
EXTENDS Summaries, FiniteSetTheorems, TLAPS

\* The records of the first k parts.
Upto(room, n, k) == {i \in 1..n : i <= Size[room] * k}

\* A checkpoint holds what the parts before it held.
CheckpointRight(progress) ==
    progress # None =>
        progress.covered = Upto(progress.room, progress.read, progress.next)

\* A row covers no activity that is still to come, the records its digest stands for
\* have been judged, and where it covers the last activity all there were then have.
RowRight(s) ==
    /\ rows[s].through <= active[s]
    /\ rows[s].digest <= lines[s]
    /\ 1..rows[s].digest \subseteq judged[s]
    /\ CheckpointRight(rows[s].progress)
    /\ hooked[s] <= lines[s]
    /\ ~Due(s) /\ rows[s].readable => 1..hooked[s] \subseteq judged[s]

\* What a run listed is due until it is done with it.
Listed(s) == run.going /\ Due(s) /\ run.seen[s] <= active[s]

\* The input that was read: if the session has not moved since the listing it holds all
\* records there were at the last activity, and a checkpoint left on the row is of it.
InputRight(s, n) ==
    /\ n <= lines[s] /\ rows[s].digest <= n
    /\ run.seen[s] = active[s] => hooked[s] <= n
    /\ rows[s].progress # None => rows[s].progress.read = n

Calling == {"summarizing", "merging"}
Judging == {"publishing", "ok", "empty"}

JobRight ==
    /\ job.at = "none" => job = NoJob
    /\ job.at # "none" =>
          /\ job.session \in Session /\ Listed(job.session) /\ job.session \notin run.due
    /\ job.at \in Calling \cup Judging => InputRight(job.session, job.read)
    /\ job.at \in Calling => job.covered = Upto(job.room, job.read, job.next)
    /\ job.at \in Judging => job.covered = 1..job.read

Covering ==
    /\ \A s \in Session : RowRight(s)
    /\ \A s \in run.due : Listed(s)
    /\ JobRight

------------------------------------------------------------------------------
(* Parts *)

\* The parts of a room hold all records there are.
LEMMA PartsCover ==
    ASSUME NEW room \in Rooms, NEW n \in Nat
    PROVE  /\ Parts(room, n) \in Nat
           /\ Upto(room, n, Parts(room, n)) = 1..n
<1> DEFINE z == Size[room]
           p == Parts(room, n)
<1>1. z \in Nat \ {0}
  BY SummariesAssumption DEF Rooms
<1>2. p = (n + z - 1) \div z
  BY DEF Parts
<1>3. p \in Nat /\ n <= z * p
  <2> HIDE DEF z, p
  <2>1. n + z - 1 \in Nat
    BY <1>1
  <2>2. (n + z - 1) \div z \in Nat /\ n + z - 1 < z * ((n + z - 1) \div z) + z
    BY <1>1, <2>1
  <2>3. z * p \in Int
    BY <1>1, <1>2, <2>2
  <2> QED
    BY <1>1, <1>2, <2>2, <2>3
<1>4. \A i \in 1..n : i <= z * p
  <2> HIDE DEF z, p
  <2>1. z * p \in Int
    BY <1>1, <1>3
  <2> QED
    BY <1>3, <2>1
<1> QED
  BY <1>3, <1>4 DEF Upto

LEMMA NoPart == ASSUME NEW room \in Rooms, NEW n \in Nat PROVE Upto(room, n, 0) = {}
<1>1. Size[room] \in Nat
  BY SummariesAssumption DEF Rooms
<1> QED
  BY <1>1 DEF Upto

\* Each part adds its records to those of the parts before it.
LEMMA NextPart ==
    ASSUME NEW room \in Rooms, NEW n \in Nat, NEW k \in Nat
    PROVE  Upto(room, n, k) \cup Part(room, n, k + 1) = Upto(room, n, k + 1)
<1> DEFINE z == Size[room]
<1>1. z \in Nat \ {0}
  BY SummariesAssumption DEF Rooms
<1>2. (k + 1) - 1 = k
  OBVIOUS
<1>3. z * k \in Nat /\ z * (k + 1) \in Nat /\ z * k <= z * (k + 1)
  <2> HIDE DEF z
  <2> QED
    BY <1>1
<1> QED
  BY <1>2, <1>3 DEF Upto, Part

\* A single part holds everything.
LEMMA OnlyPart ==
    ASSUME NEW room \in Rooms, NEW n \in Nat, ~(Parts(room, n) > 1)
    PROVE  Part(room, n, 1) = 1..n
<1> DEFINE z == Size[room]
<1>1. z \in Nat \ {0}
  BY SummariesAssumption DEF Rooms
<1>2. Parts(room, n) \in {0, 1} /\ Upto(room, n, Parts(room, n)) = 1..n
  BY PartsCover
<1>3. z * 0 = 0 /\ z * 1 = z /\ z * (1 - 1) = 0
  <2> HIDE DEF z
  <2> QED
    BY <1>1
<1>4. \A i \in 1..n : 0 < i /\ i <= z
  <2> SUFFICES ASSUME NEW i \in 1..n PROVE i <= z
    BY <1>1
  <2>1. i \in Upto(room, n, Parts(room, n))
    BY <1>2
  <2>2. i <= z * 0 \/ i <= z * 1
    BY <1>2, <2>1 DEF Upto
  <2> QED
    BY <1>1, <1>3, <2>2
<1> QED
  BY <1>1, <1>3, <1>4 DEF Part

------------------------------------------------------------------------------
(* Types *)

\* The times of attempts are counted, so there are never more than sessions.
LEMMA AttemptsCounted ==
    ASSUME NEW f \in [Session -> Row], NEW A \in SUBSET Session
    PROVE  Cardinality({f[x].attempted : x \in A} \ {0}) \in 0..Cardinality(Session)
<1> DEFINE T == {f[x].attempted : x \in A}
           g == [x \in A |-> f[x].attempted]
<1>1. IsFiniteSet(A) /\ Cardinality(A) <= Cardinality(Session)
      /\ Cardinality(A) \in Nat /\ Cardinality(Session) \in Nat
  BY FS_Subset, FS_CardinalityType, SummariesAssumption
<1>2. g \in Surjection(A, T)
  BY DEF Surjection
<1>3. IsFiniteSet(T) /\ Cardinality(T) <= Cardinality(A)
  <2> HIDE DEF g, T
  <2> QED
    BY <1>1, <1>2, FS_Surjection
<1>4. IsFiniteSet(T \ {0}) /\ Cardinality(T \ {0}) <= Cardinality(T)
  <2> HIDE DEF T
  <2> QED
    BY <1>3, FS_Subset
<1>5. Cardinality(T) \in Nat /\ Cardinality(T \ {0}) \in Nat
  <2> HIDE DEF T
  <2> QED
    BY <1>3, <1>4, FS_CardinalityType
<1> HIDE DEF T
<1>6. Cardinality(T \ {0}) \in 0..Cardinality(Session)
  BY <1>1, <1>3, <1>4, <1>5
<1> QED
  BY <1>6 DEF T

LEMMA RoomsOk == 0 \in Rooms /\ \A room \in Rooms : room # Halvings => room + 1 \in Rooms
  BY SummariesAssumption DEF Rooms

\* A pass begins at the parts a checkpoint of its room stands for, or at none.
LEMMA PassRight ==
    ASSUME NEW s \in Session, NEW n \in Nat, NEW whole \in BOOLEAN, NEW room \in Rooms,
           NEW calls \in 0..MaxCalls, rows'[s] \in Row,
           CheckpointRight(rows'[s].progress),
           rows'[s].progress # None => rows'[s].progress.read = n,
           NEW pass, pass = Pass(s, n, whole, room, calls)
    PROVE  /\ pass \in Job
           /\ pass.at = "summarizing" /\ pass.session = s /\ pass.read = n
           /\ pass.covered = Upto(pass.room, pass.read, pass.next)
<1> DEFINE progress == rows'[s].progress
           start == [at |-> "summarizing", session |-> s, read |-> n, whole |-> whole,
                     room |-> room, calls |-> calls, next |-> 0, kept |-> 0, covered |-> {}]
<1>1. start \in Job
  BY DEF Job, Kept
<1>2. CASE Parts(room, n) > 1 /\ Resumes(progress, room, n)
  <2>1. progress \in Checkpoint /\ progress.room = room /\ progress.read = n
        /\ progress.covered = Upto(progress.room, progress.read, progress.next)
    BY <1>2 DEF Resumes, Row, CheckpointRight
  <2>2. progress.next \in Nat /\ progress.kept \in Kept /\ progress.covered \in SUBSET Records
    BY <2>1 DEF Checkpoint
  <2>3. pass = [start EXCEPT !.next = progress.next, !.kept = progress.kept,
                             !.covered = progress.covered]
    BY <1>2 DEF Pass
  <2> HIDE DEF progress
  <2> QED
    BY <1>1, <2>1, <2>2, <2>3 DEF Job
<1>3. CASE ~(Parts(room, n) > 1 /\ Resumes(progress, room, n))
  <2>1. pass = start
    BY <1>3 DEF Pass
  <2> QED
    BY <1>1, <2>1, NoPart
<1> QED
  BY <1>2, <1>3

LEMMA TypeInit == SummariesInit => SummariesTypeOK
<1> SUFFICES ASSUME SummariesInit PROVE SummariesTypeOK
  OBVIOUS
<1>0. MaxActive \in Nat /\ MaxTrouble \in Nat /\ MaxCalls \in Nat
      /\ Cardinality(Session) \in Nat
  BY SummariesAssumption, FS_CardinalityType
<1>1. NoRow \in Row
  BY <1>0 DEF NoRow, Row
<1>2. NoRun \in Run
  BY <1>0 DEF NoRun, Run
<1>3. NoJob \in Job
  BY <1>0, RoomsOk DEF NoJob, Job, Kept
<1> QED
  BY <1>0, <1>1, <1>2, <1>3 DEF SummariesInit, SummariesTypeOK

LEMMA Blanks == NoRun \in Run /\ NoJob \in Job
<1>0. MaxActive \in Nat /\ MaxCalls \in Nat /\ Cardinality(Session) \in Nat
  BY SummariesAssumption, FS_CardinalityType
<1> QED
  BY <1>0, RoomsOk DEF NoRun, Run, NoJob, Job, Kept

\* A checkpoint that is written down, and the rows around it, have their types.
LEMMA ResultTyped ==
    ASSUME SummariesTypeOK, job.at # "none", job.session \in Session,
           NEW digest \in Nat \cup {-1}, NEW complete \in BOOLEAN, NEW readable \in BOOLEAN,
           \/ Final(job.session, digest, complete, readable) \/ Pending(job.session)
           \/ OutOfCalls
    PROVE  rows' \in [Session -> Row] /\ job' \in Job
<1> USE DEF SummariesTypeOK
<1>0. rows[job.session] \in Row /\ run.seen[job.session] \in -1..MaxActive
  <2>1. rows[job.session] \in Row /\ run.seen[job.session] \in 0..MaxActive
    BY DEF Run
  <2>2. MaxActive \in Nat
    BY SummariesAssumption
  <2> QED
    BY <2>1, <2>2
<1>1. CASE Final(job.session, digest, complete, readable)
  <2>1. [rows[job.session] EXCEPT !.through = run.seen[job.session], !.digest = digest,
                                  !.complete = complete, !.readable = readable,
                                  !.progress = None] \in Row
    BY <1>0 DEF Row
  <2> QED
    BY <1>1, <2>1, Blanks DEF Final
<1>2. CASE Pending(job.session)
  <2>1. [rows[job.session] EXCEPT !.readable = TRUE] \in Row
    BY <1>0 DEF Row
  <2> QED
    BY <1>2, <2>1, Blanks DEF Pending
<1>3. CASE OutOfCalls /\ ~Pending(job.session)
  <2>1. [read |-> job.read, room |-> job.room, next |-> job.next, kept |-> job.kept,
         covered |-> job.covered] \in Checkpoint
    BY DEF Job, Checkpoint
  <2>2. [rows[job.session] EXCEPT !.readable = TRUE,
             !.progress = [read |-> job.read, room |-> job.room, next |-> job.next,
                           kept |-> job.kept, covered |-> job.covered]] \in Row
    BY <1>0, <2>1 DEF Row
  <2> QED
    BY <1>3, <2>2, Blanks DEF OutOfCalls
<1> QED
  BY <1>1, <1>2, <1>3

------------------------------------------------------------------------------
(* How the invariant is kept *)

Inv == SummariesTypeOK /\ Covering

LEMMA JobTyped ==
    ASSUME Inv
    PROVE  /\ job.at # "none" => job.session \in Session
           /\ job.read \in Nat /\ job.room \in Rooms /\ job.next \in Nat
           /\ job.calls \in 0..MaxCalls /\ job.whole \in BOOLEAN /\ job.kept \in Kept
           /\ job.covered \in SUBSET Records
  BY DEF Inv, SummariesTypeOK, Covering, JobRight, Job

LEMMA RowTyped ==
    ASSUME Inv, NEW s \in Session
    PROVE  /\ active[s] \in Nat /\ lines[s] \in Nat /\ hooked[s] \in Nat
           /\ rows[s] \in Row /\ run.seen[s] \in Nat /\ torn[s] \in BOOLEAN
           /\ rows[s].through \in Int /\ rows[s].digest \in Int /\ rows[s].digest \in Nat \cup {-1}
           /\ rows[s].complete \in BOOLEAN
<1>0. MaxActive \in Nat
  BY SummariesAssumption
<1> QED
  BY <1>0 DEF Inv, SummariesTypeOK, Row, Run

\* A step that leaves a session's row as it is, but for a checkpoint it may drop,
\* leaves it right.
LEMMA RowStays ==
    ASSUME Inv, NEW s \in Session, UNCHANGED <<active, lines, hooked>>,
           \/ rows'[s] = rows[s] \/ rows'[s] = [rows[s] EXCEPT !.progress = None],
           judged'[s] = judged[s]
    PROVE  RowRight(s)' /\ (Due(s) => Due(s)')
<1>1. /\ rows'[s].through = rows[s].through /\ rows'[s].digest = rows[s].digest
      /\ rows'[s].readable = rows[s].readable
      /\ rows'[s].progress = rows[s].progress \/ rows'[s].progress = None
  BY RowTyped DEF Row
<1>2. RowRight(s)
  BY DEF Inv, Covering
<1> QED
  BY <1>1, <1>2 DEF RowRight, Due, CheckpointRight, Upto

\* The end of an attempt concerns the session that was attempted.
LEMMA JobEnds ==
    ASSUME Inv, job.at # "none", job' = NoJob, UNCHANGED <<sessionVars, run>>,
           NEW x \in Session, x = job.session, RowRight(x)',
           \A s \in Session \ {x} : rows'[s] = rows[s] /\ judged'[s] = judged[s]
    PROVE  Covering'
<1>1. \A s \in Session \ {x} : RowRight(s)' /\ (Due(s) => Due(s)')
  BY RowStays DEF sessionVars
<1>2. \A s \in run.due : Listed(s) /\ s # x /\ s \in Session
  BY DEF Inv, Covering, JobRight, SummariesTypeOK, Run
<1>3. \A s \in run'.due : Listed(s)'
  BY <1>1, <1>2 DEF Listed, sessionVars
<1>4. JobRight'
  BY DEF JobRight, NoJob, Calling, Judging
<1> QED
  BY <1>1, <1>3, <1>4 DEF Covering

\* Until then it stays due, and so do the other sessions that are listed.
LEMMA JobGoesOn ==
    ASSUME Inv, job.at # "none", UNCHANGED <<sessionVars, run>>, NEW x, x = job.session,
           rows' = rows \/ rows' = [rows EXCEPT ![job.session].progress = None],
           judged' = judged
    PROVE  /\ \A s \in Session : RowRight(s)'
           /\ \A s \in run'.due : Listed(s)'
           /\ x \in Session /\ Listed(x)' /\ x \notin run'.due
<1>1. \A s \in Session : rows'[s] = rows[s] \/ rows'[s] = [rows[s] EXCEPT !.progress = None]
  BY DEF Inv, SummariesTypeOK
<1>2. \A s \in Session : RowRight(s)' /\ (Due(s) => Due(s)')
  BY <1>1, RowStays DEF sessionVars
<1>3. /\ \A s \in run.due : Listed(s) /\ s \in Session
      /\ x \in Session /\ Listed(x) /\ x \notin run.due
  BY DEF Inv, Covering, JobRight, SummariesTypeOK, Run
<1> QED
  BY <1>2, <1>3 DEF Listed, sessionVars

\* A final outcome covers the activity seen in the listing, and the records up to then.
LEMMA FinalCovers ==
    ASSUME Inv, job.at # "none", UNCHANGED <<sessionVars, run>>,
           NEW digest \in Nat \cup {-1}, NEW complete, NEW readable \in BOOLEAN,
           Final(job.session, digest, complete, readable),
           \A s \in Session \ {job.session} : judged'[s] = judged[s],
           digest <= lines[job.session], 1..digest \subseteq judged'[job.session],
           readable => (run.seen[job.session] = active[job.session] =>
                            hooked[job.session] <= digest)
    PROVE  Covering'
<1> PICK s \in Session : s = job.session
  BY JobTyped
<1>1. /\ rows'[s].through = run.seen[s] /\ rows'[s].digest = digest
      /\ rows'[s].readable = readable /\ rows'[s].progress = None
  BY RowTyped DEF Final, Inv, SummariesTypeOK, Row
<1>2. Listed(s) /\ RowRight(s)
  BY DEF Inv, Covering, JobRight
<1>3. RowRight(s)'
  <2>1. rows'[s].through <= active[s] /\ rows'[s].digest <= lines[s]
        /\ 1..rows'[s].digest \subseteq judged'[s] /\ hooked[s] <= lines[s]
    BY <1>1, <1>2 DEF Listed, RowRight
  <2>2. ASSUME ~Due(s)', rows'[s].readable PROVE 1..hooked[s] \subseteq judged'[s]
    <3>1. run.seen[s] = active[s]
      BY <1>1, <1>2, <2>2, RowTyped DEF Due, Listed, sessionVars
    <3>2. hooked[s] <= digest
      BY <1>1, <2>2, <3>1
    <3>3. 1..hooked[s] \subseteq 1..digest
      BY <3>2, RowTyped
    <3> QED
      BY <1>1, <2>1, <3>3
  <2> QED
    BY <1>1, <2>1, <2>2 DEF RowRight, CheckpointRight, sessionVars
<1>4. \A x \in Session \ {s} : rows'[x] = rows[x]
  BY DEF Final, Inv, SummariesTypeOK
<1> QED
  BY <1>3, <1>4, JobEnds DEF Final

LEMMA PendingCovers ==
    ASSUME Inv, job.at # "none", UNCHANGED <<sessionVars, run, judged>>,
           Pending(job.session)
    PROVE  Covering'
<1> PICK s \in Session : s = job.session
  BY JobTyped
<1>1. /\ rows'[s].through = rows[s].through /\ rows'[s].digest = rows[s].digest
      /\ rows'[s].progress = rows[s].progress
  BY RowTyped DEF Pending, Inv, SummariesTypeOK, Row
<1>2. Due(s) /\ RowRight(s)
  BY DEF Inv, Covering, JobRight, Listed
<1>3. RowRight(s)'
  BY <1>1, <1>2 DEF RowRight, Due, CheckpointRight, Upto, sessionVars
<1>4. \A x \in Session \ {s} : rows'[x] = rows[x]
  BY DEF Pending, Inv, SummariesTypeOK
<1> QED
  BY <1>3, <1>4, JobEnds DEF Pending

\* What is kept of a pass are the parts it covered.
LEMMA OutOfCallsCovers ==
    ASSUME Inv, job.at \in Calling, UNCHANGED <<sessionVars, run, judged>>, OutOfCalls
    PROVE  Covering'
<1>0. job.at # "none"
  BY DEF Calling
<1>1. CASE Pending(job.session)
  BY <1>0, <1>1, PendingCovers
<1>2. CASE ~Pending(job.session)
  <2> PICK s \in Session : s = job.session
    BY <1>0, JobTyped
  <2>1. /\ job' = NoJob
        /\ rows' = [rows EXCEPT ![job.session] =
                  [@ EXCEPT !.readable = TRUE,
                            !.progress = [read |-> job.read, room |-> job.room,
                                          next |-> job.next, kept |-> job.kept,
                                          covered |-> job.covered]]]
    BY <1>2 DEF OutOfCalls
  <2>2. /\ rows'[s].through = rows[s].through /\ rows'[s].digest = rows[s].digest
        /\ rows'[s].progress = [read |-> job.read, room |-> job.room, next |-> job.next,
                                kept |-> job.kept, covered |-> job.covered]
    BY <2>1, RowTyped DEF Inv, SummariesTypeOK, Row
  <2>3. job.covered = Upto(job.room, job.read, job.next)
    BY DEF Inv, Covering, JobRight
  <2>4. Due(s) /\ RowRight(s)
    BY <1>0 DEF Inv, Covering, JobRight, Listed
  <2>5. CheckpointRight(rows'[s].progress)
    BY <2>2, <2>3 DEF CheckpointRight
  <2>6. RowRight(s)'
    BY <2>2, <2>4, <2>5 DEF RowRight, Due, CheckpointRight, Upto, sessionVars
  <2>7. \A x \in Session \ {s} : rows'[x] = rows[x]
    BY <2>1 DEF Inv, SummariesTypeOK
  <2> QED
    BY <1>0, <2>1, <2>6, <2>7, JobEnds
<1> QED
  BY <1>1, <1>2

LEMMA TypesKept ==
    ASSUME Inv, UNCHANGED <<sessionVars, run>>, rows' \in [Session -> Row], job' \in Job,
           judged' \in [Session -> SUBSET Records], UNCHANGED troubles \/ Trouble
    PROVE  SummariesTypeOK'
<1>1. troubles' \in 0..MaxTrouble
  BY SummariesAssumption DEF Inv, SummariesTypeOK, Trouble
<1> QED
  BY <1>1 DEF Inv, SummariesTypeOK, sessionVars

\* An attempt that ends, one way or another.
LEMMA EndKeeps ==
    ASSUME Inv, job.at # "none", UNCHANGED <<sessionVars, run>>,
           NEW digest \in Nat \cup {-1}, NEW complete \in BOOLEAN, NEW readable \in BOOLEAN,
           \/ Final(job.session, digest, complete, readable) \/ Pending(job.session)
           \/ OutOfCalls,
           judged' \in [Session -> SUBSET Records], UNCHANGED troubles \/ Trouble,
           Covering'
    PROVE  Inv'
<1>1. rows' \in [Session -> Row] /\ job' \in Job
  BY ResultTyped, JobTyped DEF Inv
<1> QED
  BY <1>1, TypesKept DEF Inv

LEMMA PendingKeeps ==
    ASSUME Inv, job.at # "none", UNCHANGED <<sessionVars, run, judged>>,
           \/ Pending(job.session) \/ (job.at \in Calling /\ OutOfCalls),
           UNCHANGED troubles \/ Trouble
    PROVE  Inv'
<1>1. Covering'
  BY PendingCovers, OutOfCallsCovers
<1>2. judged' \in [Session -> SUBSET Records]
  BY DEF Inv, SummariesTypeOK
<1>3. TRUE \in BOOLEAN /\ 0 \in Nat \cup {-1}
  OBVIOUS
<1> QED
  BY <1>1, <1>2, <1>3, EndKeeps

\* A pass over the input that was read.
LEMMA PassKeeps ==
    ASSUME Inv, job.at # "none", UNCHANGED <<sessionVars, run, judged>>,
           UNCHANGED troubles \/ Trouble,
           NEW x, x = job.session, NEW n \in Nat, NEW whole \in BOOLEAN,
           NEW room \in Rooms, NEW calls \in 0..MaxCalls,
           rows' = rows \/ rows' = [rows EXCEPT ![x].progress = None],
           n <= lines[x], rows[x].digest <= n,
           run.seen[x] = active[x] => hooked[x] <= n,
           rows'[x].progress # None => rows'[x].progress.read = n,
           job' = Pass(x, n, whole, room, calls)
    PROVE  Inv'
<1>1. /\ \A s \in Session : RowRight(s)'
      /\ \A s \in run'.due : Listed(s)'
      /\ x \in Session /\ Listed(x)' /\ x \notin run'.due
  BY JobGoesOn
<1>2. rows' \in [Session -> Row] /\ rows'[x].digest = rows[x].digest
  <2>1. rows \in [Session -> Row] /\ [rows[x] EXCEPT !.progress = None] \in Row
    BY <1>1, RowTyped DEF Inv, SummariesTypeOK, Row
  <2>2. [rows[x] EXCEPT !.progress = None].digest = rows[x].digest
    BY <1>1, RowTyped DEF Row
  <2> QED
    BY <1>1, <2>1, <2>2
<1>3. CheckpointRight(rows'[x].progress)
  BY <1>1 DEF RowRight, CheckpointRight, Upto
<1>4. /\ job' \in Job /\ job'.at = "summarizing" /\ job'.session = x /\ job'.read = n
      /\ job'.covered = Upto(job'.room, job'.read, job'.next)
  BY <1>1, <1>2, <1>3, PassRight
<1>5. InputRight(x, n)'
  BY <1>2 DEF InputRight, sessionVars
<1>6. JobRight'
  BY <1>1, <1>4, <1>5 DEF JobRight, Calling, Judging, InputRight, Upto, Listed, Due
<1>7. SummariesTypeOK'
  <2>1. judged' \in [Session -> SUBSET Records]
    BY DEF Inv, SummariesTypeOK
  <2> QED
    BY <1>2, <1>4, <2>1, TypesKept
<1> QED
  BY <1>1, <1>6, <1>7 DEF Inv, Covering

LEMMA TooLargeKeeps ==
    ASSUME Inv, job.at \in Calling, UNCHANGED <<sessionVars, run, judged>>,
           UNCHANGED troubles, NEW calls \in 0..MaxCalls, TooLarge(calls)
    PROVE  Inv'
<1>0. job.at # "none"
  BY DEF Calling
<1>1. CASE Pending(job.session)
  BY <1>0, <1>1, PendingKeeps
<1>2. CASE ~Pending(job.session)
  <2> PICK x \in Session : x = job.session
    BY <1>0, JobTyped
  <2> PICK n \in Nat, whole \in BOOLEAN, room \in Rooms :
        n = job.read /\ whole = job.whole /\ room = job.room + 1
    BY <1>2, RoomsOk, JobTyped DEF TooLarge
  <2>1. rows' = rows /\ job' = Pass(x, n, whole, room, calls)
    BY <1>2 DEF TooLarge
  <2>2. InputRight(x, n)
    BY DEF Inv, Covering, JobRight
  <2>3. /\ n <= lines[x] /\ rows[x].digest <= n
        /\ run.seen[x] = active[x] => hooked[x] <= n
        /\ rows'[x].progress # None => rows'[x].progress.read = n
    BY <2>1, <2>2 DEF InputRight
  <2> QED
    BY <1>0, <2>1, <2>3, PassKeeps, Zenon
<1> QED
  BY <1>1, <1>2

\* A call ends the attempt or the pass, or it is answered.
LEMMA CallKeeps ==
    ASSUME Inv, job.at \in Calling, NEW part, NEW ACTION Answered, Call(part, Answered)
    PROVE  \/ Inv'
           \/ Answered /\ job.calls < MaxCalls /\ UNCHANGED <<sessionVars, rows, run, troubles, judged>>
<1>0. UNCHANGED <<sessionVars, run, judged>> /\ job.at # "none"
  BY DEF Call, Calling
<1>1. job.calls \in 0..MaxCalls /\ MaxCalls \in Nat
  BY JobTyped, SummariesAssumption
<1>2. CASE TooLarge(job.calls) /\ UNCHANGED troubles
  BY <1>0, <1>1, <1>2, TooLargeKeeps
<1>3. CASE TooLarge(job.calls + 1) /\ job.calls < MaxCalls /\ UNCHANGED troubles
  <2>1. job.calls + 1 \in 0..MaxCalls
    BY <1>1, <1>3
  <2> QED
    BY <1>0, <1>3, <2>1, TooLargeKeeps
<1>4. CASE OutOfCalls /\ UNCHANGED troubles
  BY <1>0, <1>4, PendingKeeps
<1>5. CASE Pending(job.session) /\ Trouble
  BY <1>0, <1>5, PendingKeeps
<1>6. \/ TooLarge(job.calls) /\ UNCHANGED troubles
      \/ TooLarge(job.calls + 1) /\ job.calls < MaxCalls /\ UNCHANGED troubles
      \/ OutOfCalls /\ UNCHANGED troubles
      \/ Pending(job.session) /\ Trouble
      \/ Answered /\ job.calls < MaxCalls /\ UNCHANGED <<rows, troubles>>
  BY DEF Call
<1> QED
  BY <1>0, <1>2, <1>3, <1>4, <1>5, <1>6, Zenon

\* An answer moves the attempt on.
LEMMA AnswerKeeps ==
    ASSUME Inv, job.at # "none", UNCHANGED <<sessionVars, rows, run, troubles, judged>>,
           job' \in Job, job'.session = job.session, job'.read = job.read,
           job.at \in Calling \cup Judging, job'.at \in Calling \cup Judging,
           job'.at \in Calling => job'.covered = Upto(job'.room, job'.read, job'.next),
           job'.at \in Judging => job'.covered = 1..job'.read
    PROVE  Inv'
<1> PICK x \in Session : x = job.session
  BY JobTyped
<1> PICK n \in Nat : n = job.read
  BY JobTyped
<1>1. /\ \A s \in Session : RowRight(s)'
      /\ \A s \in run'.due : Listed(s)'
      /\ Listed(x)' /\ x \notin run'.due
  BY JobGoesOn
<1>2. InputRight(x, n)
  BY DEF Inv, Covering, JobRight
<1>3. InputRight(x, n)'
  BY <1>2 DEF InputRight, sessionVars
<1>4. job'.at # "none" /\ job'.session = x /\ job'.read = n
  BY DEF Calling, Judging
<1>5. JobRight'
  BY <1>1, <1>3, <1>4 DEF JobRight, Calling, Judging, InputRight, Upto, Listed, Due
<1>6. SummariesTypeOK'
  <2>1. judged' \in [Session -> SUBSET Records] /\ rows' \in [Session -> Row]
    BY DEF Inv, SummariesTypeOK
  <2> QED
    BY <2>1, TypesKept
<1> QED
  BY <1>1, <1>5, <1>6 DEF Inv, Covering

------------------------------------------------------------------------------
(* The steps of a run *)

\* Between steps on its row, a session keeps what RowRight says of it.
LEMMA RowCounted ==
    ASSUME Inv, NEW s \in Session, UNCHANGED <<active, lines, hooked, judged>>, NEW time,
           rows'[s] = [rows[s] EXCEPT !.attempted = time]
    PROVE  RowRight(s)' /\ (Due(s) => Due(s)')
<1>1. /\ rows'[s].through = rows[s].through /\ rows'[s].digest = rows[s].digest
      /\ rows'[s].readable = rows[s].readable /\ rows'[s].progress = rows[s].progress
  BY RowTyped DEF Row
<1>2. RowRight(s)
  BY DEF Inv, Covering
<1> QED
  BY <1>1, <1>2 DEF RowRight, Due, CheckpointRight, Upto

LEMMA ListKeeps == ASSUME Inv, ListSessions PROVE Inv'
<1> DEFINE due == {s \in Session : Due(s)}
           at == 1 + Cardinality({rows[x].attempted : x \in Session} \ {0})
<1>1. PICK chosen \in SUBSET due :
        run' = [going |-> TRUE, due |-> chosen,
                seen |-> [s \in Session |-> IF s \in chosen THEN active[s] ELSE 0],
                at |-> at]
  BY DEF ListSessions
<1>2. /\ rows' = [s \in Session |-> Recounted(s)] /\ ~run.going
      /\ UNCHANGED <<active, lines, torn, job, troubles, judged, hooked>>
  BY DEF ListSessions
<1>3. job.at = "none" /\ job = NoJob
  BY <1>2 DEF Inv, Covering, JobRight, Listed
<1>4. \A s \in Session : RowRight(s)' /\ (Due(s) => Due(s)')
  <2> TAKE s \in Session
  <2> PICK time : time = Cardinality(Earlier(s) \ {0})
    OBVIOUS
  <2>1. rows'[s] = [rows[s] EXCEPT !.attempted = time]
    BY <1>2 DEF Recounted
  <2> QED
    BY <1>2, <2>1, RowCounted
<1>5. run' \in Run
  <2>1. at \in 0..(Cardinality(Session) + 1)
    <3>1. Cardinality({rows[x].attempted : x \in Session} \ {0}) \in 0..Cardinality(Session)
      BY AttemptsCounted DEF Inv, SummariesTypeOK
    <3>2. Cardinality(Session) \in Nat
      BY SummariesAssumption, FS_CardinalityType
    <3> HIDE DEF due
    <3> QED
      BY <3>1, <3>2
  <2> HIDE DEF at
  <2>2. [s \in Session |-> IF s \in chosen THEN active[s] ELSE 0] \in [Session -> 0..MaxActive]
    <3>1. MaxActive \in Nat
      BY SummariesAssumption
    <3> QED
      BY <3>1 DEF Inv, SummariesTypeOK
  <2>3. chosen \in SUBSET Session
    OBVIOUS
  <2> QED
    BY <1>1, <2>1, <2>2, <2>3 DEF Run
<1>6. rows' \in [Session -> Row]
  <2> SUFFICES ASSUME NEW s \in Session PROVE Recounted(s) \in Row
    BY <1>2
  <2>1. Cardinality(Earlier(s) \ {0}) \in 0..Cardinality(Session)
    <3> DEFINE A == {y \in Session : rows[y].attempted <= rows[s].attempted}
    <3>1. A \in SUBSET Session /\ rows \in [Session -> Row]
      BY DEF Inv, SummariesTypeOK
    <3> HIDE DEF A
    <3>2. Cardinality({rows[x].attempted : x \in A} \ {0}) \in 0..Cardinality(Session)
      BY <3>1, AttemptsCounted
    <3> QED
      BY <3>2 DEF A, Earlier
  <2>2. Cardinality(Session) \in Nat
    BY SummariesAssumption, FS_CardinalityType
  <2> PICK time \in 0..(Cardinality(Session) + 1) : time = Cardinality(Earlier(s) \ {0})
    BY <2>1, <2>2
  <2>3. [rows[s] EXCEPT !.attempted = time] \in Row
    BY RowTyped DEF Row
  <2> QED
    BY <2>3 DEF Recounted
<1>7. \A s \in run'.due : Listed(s)'
  <2> SUFFICES ASSUME NEW s \in run'.due PROVE Listed(s)'
    OBVIOUS
  <2>1. /\ s \in chosen /\ s \in Session /\ Due(s)
        /\ run'.going /\ run'.seen[s] = active[s]
    BY <1>1
  <2> QED
    BY <1>2, <1>4, <2>1, RowTyped DEF Listed
<1>8. JobRight'
  BY <1>2, <1>3 DEF JobRight, NoJob, Calling, Judging
<1> QED
  BY <1>2, <1>4, <1>5, <1>6, <1>7, <1>8 DEF Inv, SummariesTypeOK, Covering

LEMMA EndRunKeeps == ASSUME Inv, EndRun \/ EndAbruptly PROVE Inv'
<1>1. /\ run' = NoRun /\ job' = NoJob /\ UNCHANGED <<sessionVars, rows, judged>>
      /\ UNCHANGED troubles \/ Trouble
  BY DEF EndRun, EndAbruptly
<1>2. SummariesTypeOK'
  <2>1. troubles' \in 0..MaxTrouble
    BY <1>1, SummariesAssumption DEF Inv, SummariesTypeOK, Trouble
  <2> QED
    BY <1>1, <2>1, Blanks DEF Inv, SummariesTypeOK, sessionVars
<1>3. \A s \in Session : RowRight(s)'
  BY <1>1, RowStays DEF sessionVars
<1>4. run'.due = {}
  BY <1>1 DEF NoRun
<1>5. JobRight'
  BY <1>1 DEF JobRight, NoJob, Calling, Judging
<1> QED
  BY <1>2, <1>3, <1>4, <1>5 DEF Inv, Covering

LEMMA AttemptKeeps == ASSUME Inv, NEW s \in Session, Attempt(s) PROVE Inv'
<1>1. /\ s \in run.due /\ job = NoJob
      /\ rows' = [rows EXCEPT ![s].attempted = run.at]
      /\ run' = [run EXCEPT !.due = @ \ {s}]
      /\ job' = [NoJob EXCEPT !.at = "reading", !.session = s]
      /\ UNCHANGED <<sessionVars, troubles, judged>>
  BY DEF Attempt
<1>2. /\ run \in Run /\ rows \in [Session -> Row]
  BY DEF Inv, SummariesTypeOK
<1>3. run' \in Run /\ rows' \in [Session -> Row] /\ job' \in Job
  <2>1. run' \in Run
    BY <1>1, <1>2 DEF Run
  <2>2. [rows[s] EXCEPT !.attempted = run.at] \in Row
    BY <1>2 DEF Row, Run
  <2>3. job' \in Job
    BY <1>1, Blanks DEF Job
  <2> QED
    BY <1>1, <1>2, <2>1, <2>2, <2>3
<1>4. \A x \in Session : RowRight(x)' /\ (Due(x) => Due(x)')
  <2> SUFFICES ASSUME NEW x \in Session PROVE RowRight(x)' /\ (Due(x) => Due(x)')
    OBVIOUS
  <2>1. CASE x = s
    <3>1. rows'[x] = [rows[x] EXCEPT !.attempted = run.at]
      BY <1>1, <1>2, <2>1
    <3> PICK time : time = run.at
      OBVIOUS
    <3> QED
      BY <1>1, <3>1, RowCounted DEF sessionVars
  <2>2. CASE x # s
    BY <1>1, <1>2, <2>2, RowStays DEF sessionVars
  <2> QED
    BY <2>1, <2>2
<1>5. /\ run'.due = run.due \ {s} /\ run'.going = run.going /\ run'.seen = run.seen
  BY <1>1, <1>2 DEF Run
<1>6. \A x \in run.due : Listed(x) /\ x \in Session
  BY <1>2 DEF Inv, Covering, Run
<1>7. \A x \in run.due : Listed(x)'
  BY <1>1, <1>4, <1>5, <1>6 DEF Listed, sessionVars
<1>8. job'.at = "reading" /\ job'.session = s
  BY <1>1 DEF NoJob
<1>9. JobRight'
  <2>1. Listed(s)' /\ s \notin run'.due
    BY <1>1, <1>5, <1>7
  <2> QED
    BY <1>8, <2>1 DEF JobRight, Calling, Judging, Listed, Due
<1> QED
  BY <1>1, <1>3, <1>4, <1>5, <1>7, <1>9 DEF Inv, SummariesTypeOK, Covering, sessionVars

LEMMA JudgedTyped ==
    ASSUME Inv, NEW s \in Session, NEW covered \in SUBSET Records,
           judged' = judged \/ judged' = [judged EXCEPT ![s] = covered]
    PROVE  /\ judged' \in [Session -> SUBSET Records]
           /\ \A x \in Session \ {s} : judged'[x] = judged[x]
  BY DEF Inv, SummariesTypeOK

LEMMA FinalKeeps ==
    ASSUME Inv, job.at # "none", UNCHANGED <<sessionVars, run, troubles>>,
           NEW x, x = job.session,
           NEW digest \in Nat \cup {-1}, NEW complete \in BOOLEAN, NEW readable \in BOOLEAN,
           Final(x, digest, complete, readable),
           NEW covered \in SUBSET Records,
           judged' = judged \/ judged' = [judged EXCEPT ![x] = covered],
           digest <= lines[x], 1..digest \subseteq judged'[x],
           readable /\ run.seen[x] = active[x] => hooked[x] <= digest
    PROVE  Inv'
<1>1. x \in Session
  BY JobTyped
<1>2. judged' \in [Session -> SUBSET Records] /\ \A s \in Session \ {x} : judged'[s] = judged[s]
  BY <1>1, JudgedTyped
<1>3. Covering'
  BY <1>2, FinalCovers
<1> QED
  BY <1>2, <1>3, EndKeeps

LEMMA ReadingKeeps == ASSUME Inv, Unreadable \/ Unchanged \/ NoRecords PROVE Inv'
<1>0. job.at = "reading" /\ UNCHANGED <<sessionVars, run, troubles>>
  BY DEF Unreadable, Unchanged, NoRecords
<1> PICK x \in Session : x = job.session
  BY <1>0, JobTyped
<1>1. /\ rows[x].digest <= lines[x] /\ 1..rows[x].digest \subseteq judged[x]
      /\ hooked[x] <= lines[x]
  BY DEF Inv, Covering, RowRight
<1>2. /\ lines[x] \in Nat /\ rows[x].digest \in Nat \cup {-1} /\ rows[x].complete \in BOOLEAN
      /\ torn[x] \in BOOLEAN /\ {} \in SUBSET Records
  BY RowTyped
<1>3. CASE Unreadable
  <2>1. Final(x, rows[x].digest, rows[x].complete, FALSE) /\ judged' = judged
    BY <1>3 DEF Unreadable
  <2> PICK digest \in Nat \cup {-1}, complete \in BOOLEAN :
        digest = rows[x].digest /\ complete = rows[x].complete
    BY <1>2
  <2>2. Final(x, digest, complete, FALSE) /\ digest <= lines[x] /\ 1..digest \subseteq judged'[x]
    BY <1>1, <2>1
  <2> QED
    BY <1>0, <1>2, <2>1, <2>2, FinalKeeps
<1>4. CASE Unchanged
  <2>1. lines[x] = rows[x].digest /\ judged' = judged
        /\ (Final(x, lines[x], TRUE, TRUE) \/ Pending(x))
    BY <1>4 DEF Unchanged
  <2>2. CASE Pending(x)
    BY <1>0, <2>1, <2>2, PendingKeeps
  <2>3. CASE Final(x, lines[x], TRUE, TRUE)
    <3> PICK digest \in Nat \cup {-1} : digest = lines[x]
      BY <1>2
    <3>1. Final(x, digest, TRUE, TRUE) /\ digest <= lines[x] /\ 1..digest \subseteq judged'[x]
          /\ hooked[x] <= digest
      BY <1>1, <1>2, <2>1, <2>3
    <3> QED
      BY <1>0, <1>2, <2>1, <3>1, FinalKeeps
  <2> QED
    BY <2>1, <2>2, <2>3
<1>5. CASE NoRecords
  <2>1. /\ lines[x] = 0 /\ Final(x, 0, ~torn[x], TRUE)
        /\ judged' = [judged EXCEPT ![x] = {}]
    BY <1>5 DEF NoRecords
  <2> PICK digest \in Nat \cup {-1}, complete \in BOOLEAN : digest = 0 /\ complete = ~torn[x]
    BY <1>2
  <2>2. Final(x, digest, complete, TRUE)
    BY <2>1, Zenon
  <2>3. digest <= lines[x] /\ 1..digest \subseteq judged'[x] /\ hooked[x] <= digest
    BY <1>1, <2>1
  <2> QED
    BY <1>0, <1>2, <2>1, <2>2, <2>3, FinalKeeps
<1> QED
  BY <1>3, <1>4, <1>5

LEMMA ReadKeeps == ASSUME Inv, ReadTranscript PROVE Inv'
<1>0. job.at = "reading" /\ UNCHANGED <<sessionVars, run, judged>>
  BY DEF ReadTranscript
<1> PICK x \in Session : x = job.session
  BY <1>0, JobTyped
<1> PICK n \in Nat, whole \in BOOLEAN : n = lines[x] /\ whole = ~torn[x]
  BY RowTyped
<1> DEFINE bare == [rows EXCEPT ![x].progress = None]
           same == rows[x].progress # None /\ rows[x].progress.read = n
<1>1. /\ job' = Pass(x, n, whole, 0, 0)
      /\ UNCHANGED troubles \/ Trouble
      /\ rows' = (IF same THEN rows ELSE bare) \/ rows' = bare
  BY DEF ReadTranscript
<1>2. rows' = rows \/ rows' = bare
  BY <1>1
<1>3. rows'[x].progress # None => rows'[x].progress.read = n
  <2>1. rows \in [Session -> Row] /\ rows[x] \in Row
    BY RowTyped DEF Inv, SummariesTypeOK
  <2>2. bare[x].progress = None
    BY <2>1 DEF Row
  <2> QED
    BY <1>1, <2>2
<1>4. n <= lines[x] /\ rows[x].digest <= n /\ hooked[x] <= n
  BY RowTyped DEF Inv, Covering, RowRight
<1>5. 0 \in Rooms /\ 0 \in 0..MaxCalls
  BY RoomsOk, SummariesAssumption
<1> HIDE DEF bare, same
<1> QED
  BY <1>0, <1>1, <1>2, <1>3, <1>4, <1>5, PassKeeps DEF bare

LEMMA SummarizePartKeeps == ASSUME Inv, SummarizePart PROVE Inv'
<1> DEFINE answer ==
      \E kept \in {job.kept, IF job.kept = 2 THEN 2 ELSE job.kept + 1},
         at \in {"summarizing", "merging"} :
         /\ at = "merging" => kept = 2
         /\ job' = [job EXCEPT !.calls = @ + 1, !.next = @ + 1, !.kept = kept, !.at = at,
                       !.covered = @ \cup Part(job.room, job.read, job.next + 1)]
<1>1. job.at = "summarizing" /\ job.at \in Calling /\ Call(job.next + 1, answer)
  BY DEF SummarizePart, Calling
<1>2. CASE answer /\ job.calls < MaxCalls
           /\ UNCHANGED <<sessionVars, rows, run, troubles, judged>>
  <2>1. PICK kept \in {job.kept, IF job.kept = 2 THEN 2 ELSE job.kept + 1},
             at \in {"summarizing", "merging"} :
           job' = [job EXCEPT !.calls = @ + 1, !.next = @ + 1, !.kept = kept, !.at = at,
                       !.covered = @ \cup Part(job.room, job.read, job.next + 1)]
    BY <1>2
  <2>2. /\ job \in Job /\ job.next \in Nat /\ job.room \in Rooms /\ job.read \in Nat
        /\ job.calls \in 0..MaxCalls /\ MaxCalls \in Nat /\ job.kept \in 0..2
    BY JobTyped, SummariesAssumption DEF Inv, SummariesTypeOK, Kept
  <2>3. Part(job.room, job.read, job.next + 1) \in SUBSET Records
    BY <2>2 DEF Part, Records
  <2>4. job.calls + 1 \in 0..MaxCalls /\ job.next + 1 \in Nat /\ kept \in 0..2
    BY <1>2, <2>2
  <2>5. job' \in Job
    BY <2>1, <2>2, <2>3, <2>4 DEF Job, Kept
  <2>6. /\ job'.at = at /\ job'.session = job.session /\ job'.read = job.read
        /\ job'.room = job.room /\ job'.next = job.next + 1
        /\ job'.covered = job.covered \cup Part(job.room, job.read, job.next + 1)
    BY <2>1, <2>2 DEF Job
  <2>7. job.covered = Upto(job.room, job.read, job.next)
    BY <1>1 DEF Inv, Covering, JobRight
  <2>8. Upto(job.room, job.read, job.next) \cup Part(job.room, job.read, job.next + 1)
        = Upto(job.room, job.read, job.next + 1)
    BY <2>2, NextPart
  <2>9. job'.covered = Upto(job'.room, job'.read, job'.next)
    BY <2>6, <2>7, <2>8
  <2>10. job.at # "none" /\ job'.at \in Calling /\ job'.at \notin Judging
    BY <1>1, <2>6 DEF Calling, Judging
  <2> QED
    BY <1>1, <1>2, <2>5, <2>6, <2>9, <2>10, AnswerKeeps
<1> HIDE DEF answer
<1> QED
  BY <1>1, <1>2, CallKeeps

LEMMA MergeKeeps == ASSUME Inv, Merge PROVE Inv'
<1> DEFINE answer == job' = [job EXCEPT !.calls = @ + 1, !.kept = 1, !.at = "summarizing"]
<1>1. job.at = "merging" /\ job.at \in Calling /\ Call(0, answer)
  BY DEF Merge, Calling
<1>2. CASE answer /\ job.calls < MaxCalls
           /\ UNCHANGED <<sessionVars, rows, run, troubles, judged>>
  <2>1. job \in Job /\ job.calls + 1 \in 0..MaxCalls /\ 1 \in Kept
    BY <1>2, JobTyped, SummariesAssumption DEF Inv, SummariesTypeOK, Kept
  <2>2. job' \in Job
    BY <1>2, <2>1 DEF Job
  <2>3. /\ job'.at = "summarizing" /\ job'.session = job.session /\ job'.read = job.read
        /\ job'.room = job.room /\ job'.next = job.next /\ job'.covered = job.covered
    BY <1>2, <2>1 DEF Job
  <2>4. job'.covered = Upto(job'.room, job'.read, job'.next)
    BY <1>1, <2>3 DEF Inv, Covering, JobRight
  <2>5. job.at # "none" /\ job'.at \in Calling /\ job'.at \notin Judging
    BY <1>1, <2>3 DEF Calling, Judging
  <2> QED
    BY <1>1, <1>2, <2>2, <2>3, <2>4, <2>5, AnswerKeeps
<1> HIDE DEF answer
<1> QED
  BY <1>1, <1>2, CallKeeps

LEMMA NothingKeptKeeps == ASSUME Inv, NothingKept PROVE Inv'
<1>1. /\ job.at = "summarizing" /\ job.next = Parts(job.room, job.read)
      /\ job' = [job EXCEPT !.at = "empty"]
      /\ UNCHANGED <<sessionVars, rows, run, troubles, judged>>
  BY DEF NothingKept
<1>2. job \in Job /\ job.room \in Rooms /\ job.read \in Nat
  BY JobTyped DEF Inv, SummariesTypeOK
<1>3. /\ job' \in Job /\ job'.at = "empty" /\ job'.session = job.session
      /\ job'.read = job.read /\ job'.covered = job.covered
  BY <1>1, <1>2 DEF Job
<1>4. job.covered = Upto(job.room, job.read, job.next)
  BY <1>1 DEF Inv, Covering, JobRight, Calling
<1>5. job'.covered = 1..job'.read
  BY <1>1, <1>2, <1>3, <1>4, PartsCover
<1>6. job.at # "none" /\ job.at \in Calling /\ job'.at \in Judging /\ job'.at \notin Calling
  BY <1>1, <1>3 DEF Calling, Judging
<1> QED
  BY <1>1, <1>3, <1>5, <1>6, AnswerKeeps

LEMMA SummarizeWholeKeeps == ASSUME Inv, SummarizeWhole PROVE Inv'
<1> DEFINE answer ==
      \E at \in {"publishing", "empty"} :
         job' = [job EXCEPT !.calls = @ + 1, !.at = at,
                    !.covered = IF Several THEN @ ELSE Part(job.room, job.read, 1)]
<1>1. /\ job.at = "summarizing" /\ job.at \in Calling
      /\ Several => job.next = Parts(job.room, job.read)
      /\ Call(IF Several THEN 0 ELSE 1, answer)
  BY DEF SummarizeWhole, Calling
<1>2. CASE answer /\ job.calls < MaxCalls
           /\ UNCHANGED <<sessionVars, rows, run, troubles, judged>>
  <2> PICK covered : covered = IF Several THEN job.covered ELSE Part(job.room, job.read, 1)
    OBVIOUS
  <2>1. PICK at \in {"publishing", "empty"} :
           job' = [job EXCEPT !.calls = @ + 1, !.at = at, !.covered = covered]
    BY <1>2
  <2>2. /\ job \in Job /\ job.calls + 1 \in 0..MaxCalls /\ job.room \in Rooms
        /\ job.read \in Nat /\ job.covered \in SUBSET Records
    BY <1>2, JobTyped, SummariesAssumption DEF Inv, SummariesTypeOK
  <2>3. covered = 1..job.read
    <3>1. CASE Several
      <4>1. job.covered = Upto(job.room, job.read, job.next)
        BY <1>1 DEF Inv, Covering, JobRight
      <4> QED
        BY <1>1, <2>2, <3>1, <4>1, PartsCover
    <3>2. CASE ~Several
      BY <2>2, <3>2, OnlyPart DEF Several
    <3> QED
      BY <3>1, <3>2
  <2>4. covered \in SUBSET Records
    BY <2>2, <2>3 DEF Records
  <2>5. /\ job' \in Job /\ job'.at = at /\ job'.session = job.session
        /\ job'.read = job.read /\ job'.covered = covered
    BY <2>1, <2>2, <2>4 DEF Job
  <2>6. job.at # "none" /\ job'.at \in Judging /\ job'.at \notin Calling
    BY <1>1, <2>5 DEF Calling, Judging
  <2> QED
    BY <1>1, <1>2, <2>3, <2>5, <2>6, AnswerKeeps
<1> HIDE DEF answer
<1> PICK part : part = IF Several THEN 0 ELSE 1
  OBVIOUS
<1>3. Call(part, answer)
  BY <1>1
<1> QED
  BY <1>1, <1>2, <1>3, CallKeeps

LEMMA PublishKeeps == ASSUME Inv, Publish PROVE Inv'
<1>1. /\ job.at = "publishing" /\ UNCHANGED <<sessionVars, run>>
      /\ \/ /\ judged' = [judged EXCEPT ![job.session] = job.covered]
            /\ job' = [job EXCEPT !.at = "ok"] /\ UNCHANGED <<rows, troubles>>
         \/ Pending(job.session) /\ UNCHANGED judged /\ (UNCHANGED troubles \/ Trouble)
  BY DEF Publish
<1>2. job.at # "none" /\ job.at \in Judging
  BY <1>1 DEF Judging
<1> PICK x \in Session : x = job.session
  BY <1>2, JobTyped
<1>3. CASE Pending(x) /\ UNCHANGED judged /\ (UNCHANGED troubles \/ Trouble)
  BY <1>1, <1>2, <1>3, PendingKeeps
<1>4. CASE /\ judged' = [judged EXCEPT ![x] = job.covered]
           /\ job' = [job EXCEPT !.at = "ok"] /\ UNCHANGED <<rows, troubles>>
  <2> PICK n \in Nat : n = job.read
    BY JobTyped
  <2>1. job.covered = 1..n /\ InputRight(x, n) /\ Listed(x) /\ x \notin run.due
    BY <1>2 DEF Inv, Covering, JobRight
  <2>2. judged \in [Session -> SUBSET Records] /\ job.covered \in SUBSET Records /\ job \in Job
    BY JobTyped DEF Inv, SummariesTypeOK
  <2>3. judged'[x] = 1..n /\ judged' \in [Session -> SUBSET Records]
        /\ \A s \in Session \ {x} : judged'[s] = judged[s]
    BY <1>4, <2>1, <2>2
  <2>4. /\ job' \in Job /\ job'.at = "ok" /\ job'.session = x /\ job'.read = n
        /\ job'.covered = 1..n
    BY <1>4, <2>1, <2>2 DEF Job
  <2>5. RowRight(x)'
    <3>1. RowRight(x) /\ Due(x)
      BY <2>1 DEF Inv, Covering, Listed
    <3>2. 1..rows[x].digest \subseteq 1..n
      BY <2>1, RowTyped DEF InputRight
    <3> QED
      BY <1>1, <1>4, <2>3, <3>1, <3>2 DEF RowRight, Due, CheckpointRight, Upto, sessionVars
  <2>6. \A s \in Session \ {x} : RowRight(s)'
    BY <1>1, <1>4, <2>3, RowStays DEF sessionVars
  <2>7. (\A s \in run'.due : Listed(s)') /\ Listed(x)' /\ x \notin run'.due /\ InputRight(x, n)'
    BY <1>1, <1>4, <2>1 DEF Inv, Covering, Listed, Due, InputRight, sessionVars
  <2>8. JobRight'
    BY <2>4, <2>7 DEF JobRight, Calling, Judging, InputRight, Listed, Due
  <2>9. SummariesTypeOK'
    <3>1. rows' \in [Session -> Row] /\ UNCHANGED troubles
      BY <1>4 DEF Inv, SummariesTypeOK
    <3> QED
      BY <1>1, <2>3, <2>4, <3>1, TypesKept
  <2> QED
    BY <2>5, <2>6, <2>7, <2>8, <2>9 DEF Inv, Covering
<1> QED
  BY <1>1, <1>3, <1>4

LEMMA RecordKeeps == ASSUME Inv, RecordFinal PROVE Inv'
<1>1. /\ job.at \in {"ok", "empty"} /\ UNCHANGED <<sessionVars, run, troubles>>
      /\ Final(job.session, job.read, job.whole, TRUE)
      /\ judged' = [judged EXCEPT ![job.session] = job.covered]
  BY DEF RecordFinal
<1>2. job.at # "none" /\ job.at \in Judging
  BY <1>1 DEF Judging
<1> PICK x \in Session : x = job.session
  BY <1>2, JobTyped
<1> PICK digest \in Nat \cup {-1}, whole \in BOOLEAN, covered \in SUBSET Records :
      digest = job.read /\ whole = job.whole /\ covered = job.covered
  BY JobTyped
<1>3. covered = 1..digest /\ InputRight(x, digest)
  BY <1>2 DEF Inv, Covering, JobRight
<1>4. judged' = [judged EXCEPT ![x] = covered] /\ judged'[x] = covered
  BY <1>1 DEF Inv, SummariesTypeOK
<1>5. /\ digest <= lines[x] /\ 1..digest \subseteq judged'[x]
      /\ run.seen[x] = active[x] => hooked[x] <= digest
  BY <1>3, <1>4 DEF InputRight
<1>6. Final(x, digest, whole, TRUE)
  BY <1>1, Zenon
<1>7. TRUE \in BOOLEAN
  OBVIOUS
<1> QED
  BY <1>1, <1>2, <1>4, <1>5, <1>6, <1>7, FinalKeeps

------------------------------------------------------------------------------
(* What goes on in the sessions *)

\* A session that moves is due, and no attempt under way will cover it.
LEMMA ActivityKeeps == ASSUME Inv, NEW s \in Session, Activity(s) PROVE Inv'
<1>1. /\ active[s] < MaxActive /\ active' = [active EXCEPT ![s] = @ + 1]
      /\ hooked' = [hooked EXCEPT ![s] = lines[s]]
      /\ UNCHANGED <<lines, torn, rows, run, job, troubles, judged>>
  BY DEF Activity
<1>2. /\ active \in [Session -> 0..MaxActive] /\ MaxActive \in Nat
      /\ hooked \in [Session -> Nat] /\ lines \in [Session -> Nat]
  BY SummariesAssumption DEF Inv, SummariesTypeOK
<1>3. SummariesTypeOK'
  <2>1. active[s] + 1 \in 0..MaxActive
    BY <1>1, <1>2
  <2>2. active' \in [Session -> 0..MaxActive] /\ hooked' \in [Session -> Nat]
    BY <1>1, <1>2, <2>1
  <2> QED
    BY <1>1, <2>2 DEF Inv, SummariesTypeOK
<1>4. \A x \in Session :
        /\ active'[x] = (IF x = s THEN active[x] + 1 ELSE active[x])
        /\ hooked'[x] = (IF x = s THEN lines[x] ELSE hooked[x])
  BY <1>1, <1>2
<1>5. \A x \in Session : RowRight(x)' /\ (Due(x) => Due(x)')
  <2> SUFFICES ASSUME NEW x \in Session PROVE RowRight(x)' /\ (Due(x) => Due(x)')
    OBVIOUS
  <2>1. RowRight(x)
    BY DEF Inv, Covering
  <2>2. CASE x = s
    <3>1. active'[x] = active[x] + 1 /\ hooked'[x] = lines[x] /\ rows[x].through < active'[x]
      BY <1>4, <2>1, <2>2, RowTyped DEF RowRight
    <3>2. Due(x)' /\ hooked'[x] <= lines[x] /\ rows[x].through <= active'[x]
      BY <1>1, <3>1, RowTyped DEF Due
    <3> QED
      BY <1>1, <2>1, <3>2 DEF RowRight, CheckpointRight, Upto
  <2>3. CASE x # s
    <3>1. active'[x] = active[x] /\ hooked'[x] = hooked[x]
      BY <1>4, <2>3
    <3> QED
      BY <1>1, <2>1, <3>1 DEF RowRight, Due, CheckpointRight, Upto
  <2> QED
    BY <2>2, <2>3
<1>6. \A x \in Session : Listed(x) => Listed(x)'
  <2> SUFFICES ASSUME NEW x \in Session, Listed(x) PROVE Listed(x)'
    OBVIOUS
  <2>1. run.seen[x] <= active'[x]
    BY <1>4, RowTyped DEF Listed
  <2> QED
    BY <1>1, <1>5, <2>1 DEF Listed
<1>7. \A x \in run.due : Listed(x) /\ x \in Session
  BY DEF Inv, Covering, SummariesTypeOK, Run
<1>8. JobRight'
  <2>1. ASSUME job.at # "none" PROVE Listed(job.session)' /\ job.session \notin run.due
    BY <1>1, <1>6, <2>1 DEF Inv, Covering, JobRight, Listed, Due
  <2>2. ASSUME job.at \in Calling \cup Judging PROVE InputRight(job.session, job.read)'
    <3> PICK x \in Session, n \in Nat : x = job.session /\ n = job.read
      BY <2>2, JobTyped DEF Calling, Judging
    <3>1. InputRight(x, n) /\ Listed(x)
      BY <2>2 DEF Inv, Covering, JobRight, Calling, Judging
    <3>2. run.seen[x] = active'[x] => hooked'[x] <= n
      BY <1>4, <3>1, RowTyped DEF InputRight, Listed
    <3>3. InputRight(x, n)'
      BY <1>1, <3>1, <3>2 DEF InputRight
    <3> QED
      BY <1>1, <3>3 DEF InputRight
  <2> QED
    BY <1>1, <2>1, <2>2 DEF Inv, Covering, JobRight, Calling, Judging, Upto
<1> QED
  BY <1>1, <1>3, <1>5, <1>6, <1>7, <1>8 DEF Inv, Covering

LEMMA WriteKeeps == ASSUME Inv, NEW s \in Session, WriteRecord(s) PROVE Inv'
<1>1. /\ UNCHANGED <<active, rows, run, job, troubles, judged, hooked>>
      /\ \/ lines' = [lines EXCEPT ![s] = @ + 1] /\ torn' = [torn EXCEPT ![s] = FALSE]
         \/ torn' = [torn EXCEPT ![s] = TRUE] /\ UNCHANGED lines
  BY DEF WriteRecord
<1>2. /\ lines \in [Session -> Nat] /\ torn \in [Session -> BOOLEAN]
  BY DEF Inv, SummariesTypeOK
<1>3. lines' \in [Session -> Nat] /\ torn' \in [Session -> BOOLEAN]
  <2>1. lines[s] + 1 \in Nat /\ TRUE \in BOOLEAN /\ FALSE \in BOOLEAN
    BY <1>2
  <2>2. CASE lines' = [lines EXCEPT ![s] = @ + 1] /\ torn' = [torn EXCEPT ![s] = FALSE]
    BY <1>2, <2>1, <2>2
  <2>3. CASE torn' = [torn EXCEPT ![s] = TRUE] /\ UNCHANGED lines
    BY <1>2, <2>1, <2>3
  <2> QED
    BY <1>1, <2>2, <2>3
<1>4. \A x \in Session : lines[x] <= lines'[x]
  BY <1>1, <1>2
<1>5. \A x \in Session : RowRight(x)'
  <2> SUFFICES ASSUME NEW x \in Session PROVE RowRight(x)'
    OBVIOUS
  <2>1. RowRight(x) /\ lines[x] <= lines'[x] /\ lines'[x] \in Nat
    BY <1>3, <1>4 DEF Inv, Covering
  <2>2. rows[x].digest <= lines'[x] /\ hooked[x] <= lines'[x]
    BY <2>1, RowTyped DEF RowRight
  <2> QED
    BY <1>1, <2>1, <2>2 DEF RowRight, Due, CheckpointRight, Upto
<1>6. \A x \in run'.due : Listed(x)'
  BY <1>1 DEF Inv, Covering, Listed, Due
<1>7. JobRight'
  <2>1. ASSUME job.at \in Calling \cup Judging PROVE InputRight(job.session, job.read)'
    <3> PICK x \in Session, n \in Nat : x = job.session /\ n = job.read
      BY <2>1, JobTyped DEF Calling, Judging
    <3>1. InputRight(x, n) /\ lines[x] <= lines'[x] /\ lines'[x] \in Nat
      BY <1>3, <1>4, <2>1 DEF Inv, Covering, JobRight
    <3>2. n <= lines'[x]
      BY <3>1, RowTyped DEF InputRight
    <3>3. InputRight(x, n)'
      BY <1>1, <3>1, <3>2 DEF InputRight
    <3> QED
      BY <1>1, <3>3 DEF InputRight
  <2> QED
    BY <1>1, <2>1 DEF Inv, Covering, JobRight, Listed, Due, Calling, Judging, Upto
<1> QED
  BY <1>1, <1>3, <1>5, <1>6, <1>7 DEF Inv, Covering, SummariesTypeOK

------------------------------------------------------------------------------
(* The theorems *)

LEMMA InvInit == SummariesInit => Inv
<1> SUFFICES ASSUME SummariesInit PROVE Inv
  OBVIOUS
<1>1. SummariesTypeOK
  BY TypeInit
<1>2. \A s \in Session : RowRight(s)
  BY DEF SummariesInit, NoRow, RowRight, CheckpointRight, Due
<1>3. JobRight /\ run.due = {}
  BY DEF SummariesInit, JobRight, NoJob, NoRun, Calling, Judging
<1> QED
  BY <1>1, <1>2, <1>3 DEF Inv, Covering

LEMMA InvNext == Inv /\ [SummariesNext]_summaryVars => Inv'
<1> SUFFICES ASSUME Inv, [SummariesNext]_summaryVars PROVE Inv'
  OBVIOUS
<1>1. CASE Works
  <2>1. CASE EndRun
    BY <2>1, EndRunKeeps
  <2>2. CASE \E s \in Session : Attempt(s)
    BY <2>2, AttemptKeeps
  <2>3. CASE Unreadable \/ Unchanged \/ NoRecords
    BY <2>3, ReadingKeeps
  <2>4. CASE ReadTranscript
    BY <2>4, ReadKeeps
  <2>5. CASE SummarizePart
    BY <2>5, SummarizePartKeeps
  <2>6. CASE Merge
    BY <2>6, MergeKeeps
  <2>7. CASE NothingKept
    BY <2>7, NothingKeptKeeps
  <2>8. CASE SummarizeWhole
    BY <2>8, SummarizeWholeKeeps
  <2>9. CASE Publish
    BY <2>9, PublishKeeps
  <2>10. CASE RecordFinal
    BY <2>10, RecordKeeps
  <2> QED
    BY <1>1, <2>1, <2>2, <2>3, <2>4, <2>5, <2>6, <2>7, <2>8, <2>9, <2>10 DEF Works
<1>2. CASE ListSessions
  BY <1>2, ListKeeps
<1>3. CASE EndAbruptly
  BY <1>3, EndRunKeeps
<1>4. CASE \E s \in Session : Activity(s) \/ WriteRecord(s)
  BY <1>4, ActivityKeeps, WriteKeeps
<1>5. CASE UNCHANGED summaryVars
  BY <1>5 DEF summaryVars, Inv, SummariesTypeOK, Covering, RowRight, Due, CheckpointRight,
              Upto, Listed, JobRight, InputRight, Calling, Judging
<1> QED
  BY <1>1, <1>2, <1>3, <1>4, <1>5 DEF SummariesNext

\* The inductive invariant: what a row, a checkpoint and the attempt under way cover.
THEOREM CoveringInvariant == SummariesSpec => []Inv
<1> QED
  BY InvInit, InvNext, PTL DEF SummariesSpec

\* Rows, checkpoints, runs and attempts keep their shapes.
THEOREM SummariesTypesHold == SummariesSpec => []SummariesTypeOK
<1>1. Inv => SummariesTypeOK
  BY DEF Inv
<1> QED
  BY <1>1, CoveringInvariant, PTL

\* A session that is not due any more has had every record judged that there was at its
\* last activity, unless its transcript could not be read.
THEOREM NothingMissedHolds == SummariesSpec => []NothingMissed
<1>1. Inv => NothingMissed
  BY DEF Inv, Covering, RowRight, NothingMissed
<1> QED
  BY <1>1, CoveringInvariant, PTL
=============================================================================
