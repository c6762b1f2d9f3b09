---------------------------- MODULE RetireProofs ----------------------------
(***************************************************************************)
(* What TLAPS proves of retirement, for any memories, limits and times:    *)
(* what a run deletes nobody used since its listing began, and it deletes  *)
(* for a judgment, or a full streak of them, of that very version.         *)
(***************************************************************************)
EXTENDS Retire, TLAPS

\* Candidates not judged yet.
Waiting == run.due \cup (IF run.at = "asking" THEN {run.asked} ELSE {})

Shaped ==
    /\ run.began = run.listed
    /\ run.at = "asking" => run.asked \in Candidate /\ run.asked \notin run.due
    /\ run.at \in {"idle", "started", "listing"} => run.due = {}
    /\ \A c, d \in Waiting : c.memory = d.memory => c = d

\* A version seen while listing is no newer than the row; while it is the row's, a use
\* has left its mark on the read time.
Tracked(m, version) ==
    mems[m] # None =>
        /\ version <= mems[m].version
        /\ version = mems[m].version /\ m \in used => mems[m].lastRead >= run.began

SeenTracked ==
    \A m \in Memory :
        run.seen[m] # None =>
            /\ Tracked(m, run.seen[m].version)
            /\ mems[m] # None /\ mems[m].version = run.seen[m].version =>
                   mems[m].changed = run.seen[m].changed

WaitingTracked ==
    \A c \in Waiting :
        /\ Tracked(c.memory, c.version)
        /\ mems[c.memory] # None /\ mems[c.memory].version = c.version =>
               mems[c.memory].changed + TtlDays <= run.now
        /\ reviews[c.memory] # None /\ reviews[c.memory].version = c.version =>
               reviews[c.memory].next <= run.now

\* The j-th last verdict of m: 0 is the last.
Back(m, j) == verdicts[m][Len(verdicts[m]) - j]

\* A streak on record is what the last verdicts were.
Recorded(m) ==
    /\ Len(verdicts[m]) <= UncertainLimit
    /\ mems[m] # None /\ reviews[m] # None =>
          /\ reviews[m].version <= mems[m].version
          /\ reviews[m].version = mems[m].version /\ reviews[m].decision = "uncertain" =>
                /\ reviews[m].streak \in 1..Len(verdicts[m])
                /\ reviews[m].next = Back(m, 0).at + TtlDays
                /\ \A j \in 0..(reviews[m].streak - 1) :
                      Back(m, j).decision = "uncertain" /\ Back(m, j).version = mems[m].version
                /\ \A j \in 1..(reviews[m].streak - 1) :
                      Back(m, j - 1).at >= Back(m, j).at + TtlDays

StreaksRecorded == \A m \in Memory : Recorded(m)

\* The inductive invariant.
Careful == RetireTypeOK /\ Shaped /\ SeenTracked /\ WaitingTracked /\ StreaksRecorded

LEMMA RunFields ==
    ASSUME run \in Run
    PROVE  /\ run.at \in {"idle", "started", "listing", "reviewing", "asking"}
           /\ run.now \in Time /\ run.began \in Time /\ run.listed \in Time
           /\ run.seen \in [Memory -> [version: Version, changed: Time] \cup {None}]
           /\ run.due \subseteq Candidate /\ run.asked \in Candidate \cup {None}
           /\ run.groups \in 0..MaxGroups
BY DEF Run

LEMMA NoRunTyped == NoRun \in Run
BY RetireAssumption DEF NoRun, Run, Time

LEMMA CarefulInit == RetireInit => Careful
<1> SUFFICES ASSUME RetireInit PROVE Careful
  OBVIOUS
<1>1. /\ run = NoRun /\ used = {} /\ clock = 0
      /\ \A m \in Memory : mems[m] = [version |-> 1, deleted |-> FALSE, changed |-> 0,
                                     lastRead |-> -1, reads |-> 0]
      /\ \A m \in Memory : reviews[m] = None /\ verdicts[m] = <<>>
  BY DEF RetireInit
<1>2. RetireTypeOK
  <2>1. mems \in [Memory -> Row \cup {None}]
    BY RetireAssumption DEF RetireInit, Row, Version, Time
  <2>2. reviews \in [Memory -> Review \cup {None}] /\ verdicts \in [Memory -> Seq(Verdict)]
    BY DEF RetireInit
  <2> QED
    BY <1>1, <2>1, <2>2, NoRunTyped, RetireAssumption DEF RetireTypeOK, Time
<1>3. Waiting = {} /\ Shaped
  BY <1>1 DEF Waiting, Shaped, NoRun
<1>4. SeenTracked /\ WaitingTracked
  BY <1>1, <1>3 DEF SeenTracked, WaitingTracked, NoRun
<1>5. StreaksRecorded
  BY <1>1, RetireAssumption DEF StreaksRecorded, Recorded
<1> QED
  BY <1>2, <1>3, <1>4, <1>5 DEF Careful

------------------------------------------------------------------------------
(* Frames *)

LEMMA RowFields ==
    ASSUME RetireTypeOK, NEW m \in Memory, mems[m] # None
    PROVE  /\ mems[m] \in Row
           /\ mems[m].version \in Version /\ mems[m].deleted \in BOOLEAN
           /\ mems[m].changed \in Time /\ mems[m].lastRead \in -1..MaxTime /\ mems[m].reads \in Nat
BY DEF RetireTypeOK, Row

LEMMA ReviewFields ==
    ASSUME RetireTypeOK, NEW m \in Memory, reviews[m] # None
    PROVE  /\ reviews[m].version \in Version /\ reviews[m].decision \in {"keep", "uncertain"}
           /\ reviews[m].streak \in 0..(UncertainLimit - 1) /\ reviews[m].next \in Nat
BY DEF RetireTypeOK, Review

LEMMA WaitingTyped ==
    ASSUME Careful
    PROVE  /\ Waiting \subseteq Candidate
           /\ \A c \in Waiting : c.memory \in Memory /\ c.version \in Version
<1>1. run.due \subseteq Candidate
  BY RunFields DEF Careful, RetireTypeOK
<1>2. Waiting \subseteq Candidate
  BY <1>1 DEF Careful, Shaped, Waiting
<1> QED
  BY <1>2 DEF Candidate

\* A row goes, or has a new version, or was at most read.
Moves(m) ==
    mems'[m] # None =>
        /\ mems[m] # None
        /\ \/ /\ mems'[m].version = mems[m].version /\ mems'[m].changed = mems[m].changed
              /\ mems'[m].lastRead \in -1..MaxTime /\ mems'[m].lastRead >= mems[m].lastRead
              /\ m \in used' => m \in used \/ mems'[m].lastRead >= run.began
           \/ mems'[m].version \in Version /\ mems'[m].version > mems[m].version

LEMMA TrackedKept ==
    ASSUME Careful, NEW m \in Memory, NEW version \in Version, Tracked(m, version), Moves(m),
           run'.began = run.began
    PROVE  /\ Tracked(m, version)'
           /\ mems'[m] # None /\ mems'[m].version = version =>
                 /\ mems[m] # None /\ mems[m].version = version
                 /\ mems'[m].changed = mems[m].changed
<1> SUFFICES ASSUME mems'[m] # None PROVE
        /\ version <= mems'[m].version
        /\ version = mems'[m].version /\ m \in used' => mems'[m].lastRead >= run.began
        /\ mems'[m].version = version =>
              mems[m] # None /\ mems[m].version = version /\ mems'[m].changed = mems[m].changed
  BY DEF Tracked
<1>1. mems[m] # None
  BY DEF Moves
<1>2. mems[m].version \in Version /\ mems[m].lastRead \in -1..MaxTime
  BY <1>1, RowFields DEF Careful
<1>3. run.began \in Time
  BY RunFields DEF Careful, RetireTypeOK
<1>4. MaxTime \in Nat
  BY RetireAssumption
<1> QED
  BY <1>1, <1>2, <1>3, <1>4 DEF Moves, Tracked, Version, Time

LEMMA SeenKept ==
    ASSUME Careful, \A m \in Memory : Moves(m), run'.began = run.began, run'.seen = run.seen
    PROVE  SeenTracked'
<1> SUFFICES ASSUME NEW m \in Memory, NEW version \in Version, run.seen[m] # None,
                    version = run.seen[m].version
             PROVE  /\ mems'[m] # None =>
                          /\ version <= mems'[m].version
                          /\ version = mems'[m].version /\ m \in used' =>
                                mems'[m].lastRead >= run.began
                    /\ mems'[m] # None /\ mems'[m].version = version =>
                          mems'[m].changed = run.seen[m].changed
  BY RunFields DEF SeenTracked, Tracked, Careful, RetireTypeOK
<1>1. /\ Tracked(m, version)
      /\ mems[m] # None /\ mems[m].version = version => mems[m].changed = run.seen[m].changed
  BY DEF Careful, SeenTracked
<1>2. /\ Tracked(m, version)'
      /\ mems'[m] # None /\ mems'[m].version = version =>
            /\ mems[m] # None /\ mems[m].version = version
            /\ mems'[m].changed = mems[m].changed
  BY <1>1, TrackedKept
<1> QED
  BY <1>1, <1>2 DEF Tracked

LEMMA WaitingKept ==
    ASSUME Careful, \A m \in Memory : Moves(m), run'.began = run.began, run'.now = run.now,
           reviews' = reviews, Waiting' \subseteq Waiting
    PROVE  WaitingTracked'
<1> SUFFICES ASSUME NEW c \in Waiting
             PROVE  /\ Tracked(c.memory, c.version)'
                    /\ mems'[c.memory] # None /\ mems'[c.memory].version = c.version =>
                          mems'[c.memory].changed + TtlDays <= run.now
                    /\ reviews[c.memory] # None /\ reviews[c.memory].version = c.version =>
                          reviews[c.memory].next <= run.now
  BY DEF WaitingTracked
<1>1. c.memory \in Memory /\ c.version \in Version
  BY WaitingTyped
<1>2. /\ Tracked(c.memory, c.version)
      /\ mems[c.memory] # None /\ mems[c.memory].version = c.version =>
            mems[c.memory].changed + TtlDays <= run.now
      /\ reviews[c.memory] # None /\ reviews[c.memory].version = c.version =>
            reviews[c.memory].next <= run.now
  BY DEF Careful, WaitingTracked
<1> QED
  BY <1>1, <1>2, TrackedKept DEF Tracked

LEMMA StreaksKept ==
    ASSUME Careful, \A m \in Memory : Moves(m), reviews' = reviews, verdicts' = verdicts
    PROVE  StreaksRecorded'
<1> SUFFICES ASSUME NEW m \in Memory, mems'[m] # None, reviews[m] # None
             PROVE  /\ reviews[m].version <= mems'[m].version
                    /\ mems'[m].version = mems[m].version \/ reviews[m].version # mems'[m].version
  BY DEF Careful, StreaksRecorded, Recorded, Back, Moves
<1>1. mems[m] # None /\ mems[m].version \in Version /\ reviews[m].version \in Version
  BY RowFields, ReviewFields DEF Careful, Moves
<1>2. reviews[m].version <= mems[m].version
  BY <1>1 DEF Careful, StreaksRecorded, Recorded
<1> QED
  BY <1>1, <1>2 DEF Moves, Version

\* No row changes.
LEMMA StillMoves ==
    ASSUME Careful, mems' = mems, used' = used
    PROVE  \A m \in Memory : Moves(m)
<1> SUFFICES ASSUME NEW m \in Memory, mems[m] # None PROVE mems[m].lastRead >= mems[m].lastRead /\ mems[m].lastRead \in -1..MaxTime
  BY DEF Moves
<1> QED
  BY RowFields, RetireAssumption DEF Careful

------------------------------------------------------------------------------
(* Everyone else *)

LEMMA OthersKeep ==
    ASSUME Careful, run' = run, reviews' = reviews, verdicts' = verdicts,
           \A m \in Memory : Moves(m), RetireTypeOK'
    PROVE  Careful'
<1>1. Waiting' = Waiting
  BY DEF Waiting
<1>2. Shaped'
  BY <1>1 DEF Careful, Shaped
<1> QED
  BY <1>1, <1>2, SeenKept, WaitingKept, StreaksKept DEF Careful

LEMMA CarefulTick ==
    ASSUME Careful, Tick PROVE Careful'
<1>1. clock' \in Time
  BY RetireAssumption DEF Careful, RetireTypeOK, Tick, Time
<1>2. RetireTypeOK'
  BY <1>1 DEF Careful, RetireTypeOK, Tick
<1> QED
  BY <1>2, StillMoves, OthersKeep DEF Tick

LEMMA CarefulUnchanged ==
    ASSUME Careful, UNCHANGED retireVars PROVE Careful'
<1>1. RetireTypeOK'
  BY DEF Careful, RetireTypeOK, retireVars
<1> QED
  BY <1>1, StillMoves, OthersKeep DEF retireVars

\* One row changes.
LEMMA OneRowTyped ==
    ASSUME Careful, NEW m \in Memory, NEW row \in Row \cup {None},
           mems' = [mems EXCEPT ![m] = row]
    PROVE  mems' \in [Memory -> Row \cup {None}]
BY DEF Careful, RetireTypeOK

LEMMA OneRowMoves ==
    ASSUME Careful, NEW m \in Memory, NEW row,
           mems' = [mems EXCEPT ![m] = row], \A n \in Memory \ {m} : n \in used' => n \in used,
           Moves(m)
    PROVE  \A n \in Memory : Moves(n)
<1> SUFFICES ASSUME NEW n \in Memory, n # m, mems[n] # None PROVE Moves(n)
  BY DEF Careful, RetireTypeOK, Moves
<1>1. mems'[n] = mems[n]
  BY DEF Careful, RetireTypeOK
<1>2. mems[n].lastRead \in -1..MaxTime
  BY RowFields DEF Careful
<1> QED
  BY <1>1, <1>2, RetireAssumption DEF Moves

LEMMA CarefulTouchRead ==
    ASSUME Careful, NEW m \in Memory, TouchRead(m) PROVE Careful'
<1>1. PICK at \in 0..clock :
          /\ mems' = [mems EXCEPT ![m].lastRead = Later(@, at), ![m].reads = @ + 1]
          /\ used' = IF at >= run.began THEN used \cup {m} ELSE used
  BY DEF TouchRead
<1>2. mems[m] # None /\ clock \in Time
  BY DEF TouchRead, Live, Careful, RetireTypeOK
<1> DEFINE row == [mems[m] EXCEPT !.lastRead = Later(@, at), !.reads = @ + 1]
<1>3. mems' = [mems EXCEPT ![m] = row]
  BY <1>1 DEF Careful, RetireTypeOK
<1>4. /\ Later(mems[m].lastRead, at) \in -1..MaxTime
      /\ Later(mems[m].lastRead, at) >= mems[m].lastRead /\ Later(mems[m].lastRead, at) >= at
  BY <1>2, RowFields, RetireAssumption DEF Careful, Later, Time
<1>5. /\ row \in Row /\ row.version = mems[m].version /\ row.changed = mems[m].changed
      /\ row.lastRead = Later(mems[m].lastRead, at)
  <2>1. mems[m] \in Row /\ mems[m].reads + 1 \in Nat
    BY <1>2, RowFields DEF Careful
  <2> QED
    BY <1>4, <2>1 DEF Row
<1>6. mems'[m] = row
  BY <1>3 DEF Careful, RetireTypeOK
<1>7. at >= run.began \/ used' = used
  BY <1>1
<1>8. Moves(m)
  <2>1. run.began \in Time
    BY RunFields DEF Careful, RetireTypeOK
  <2>2. m \in used' => m \in used \/ row.lastRead >= run.began
    BY <1>5, <1>4, <1>7, <2>1, RetireAssumption DEF Time
  <2> QED
    BY <1>2, <1>5, <1>4, <1>6, <2>2 DEF Moves
<1>9. \A n \in Memory : Moves(n)
  BY <1>1, <1>3, <1>8, OneRowMoves
<1>10. RetireTypeOK'
  BY <1>1, <1>3, <1>5, OneRowTyped DEF TouchRead, Careful, RetireTypeOK
<1> QED
  BY <1>9, <1>10, OthersKeep DEF TouchRead

LEMMA CarefulPruneReads ==
    ASSUME Careful, NEW m \in Memory, PruneReads(m) PROVE Careful'
<1>1. PICK reads \in 0..(mems[m].reads - 1) : mems' = [mems EXCEPT ![m].reads = reads]
  BY DEF PruneReads
<1>2. mems[m] # None
  BY DEF PruneReads
<1> DEFINE row == [mems[m] EXCEPT !.reads = reads]
<1>3. mems' = [mems EXCEPT ![m] = row]
  BY <1>1 DEF Careful, RetireTypeOK
<1>4. /\ row \in Row /\ row.version = mems[m].version /\ row.changed = mems[m].changed
      /\ row.lastRead = mems[m].lastRead
  BY <1>1, <1>2, RowFields DEF Careful, Row
<1>5. mems'[m] = row
  BY <1>3 DEF Careful, RetireTypeOK
<1>6. Moves(m)
  BY <1>2, <1>4, <1>5, RowFields, RetireAssumption DEF Moves, PruneReads, Careful
<1>7. \A n \in Memory : Moves(n)
  BY <1>3, <1>6, OneRowMoves DEF PruneReads
<1>8. RetireTypeOK'
  BY <1>3, <1>4, OneRowTyped DEF PruneReads, Careful, RetireTypeOK
<1> QED
  BY <1>7, <1>8, OthersKeep DEF PruneReads

\* The row of a change, whoever makes it.
LEMMA NextVersion ==
    ASSUME Careful, NEW m \in Memory, NEW deleted \in BOOLEAN, mems[m] # None,
           mems' = [mems EXCEPT ![m].version = @ + 1, ![m].deleted = deleted, ![m].changed = clock],
           used' \subseteq used \cup {m}
    PROVE  /\ mems' \in [Memory -> Row \cup {None}]
           /\ \A n \in Memory : Moves(n)
<1> DEFINE row == [mems[m] EXCEPT !.version = @ + 1, !.deleted = deleted, !.changed = clock]
<1>1. mems' = [mems EXCEPT ![m] = row]
  BY DEF Careful, RetireTypeOK
<1>2. clock \in Time
  BY DEF Careful, RetireTypeOK
<1>3. row \in Row /\ row.version \in Version /\ row.version > mems[m].version
  <2>1. mems[m] \in Row /\ mems[m].version \in Version
    BY RowFields DEF Careful
  <2>2. mems[m].version + 1 \in Version /\ mems[m].version + 1 > mems[m].version
    BY <2>1 DEF Version
  <2> QED
    BY <1>2, <2>1, <2>2 DEF Row
<1>4. mems'[m] = row
  BY <1>1 DEF Careful, RetireTypeOK
<1>5. Moves(m)
  BY <1>3, <1>4 DEF Moves
<1> QED
  BY <1>1, <1>3, <1>5, OneRowTyped, OneRowMoves

LEMMA CarefulChange ==
    ASSUME Careful, NEW m \in Memory, Change(m) PROVE Careful'
<1>1. PICK deleted \in BOOLEAN :
          mems' = [mems EXCEPT ![m].version = @ + 1, ![m].deleted = deleted, ![m].changed = clock]
  BY DEF Change
<1>2. mems' \in [Memory -> Row \cup {None}] /\ \A n \in Memory : Moves(n)
  BY <1>1, NextVersion DEF Change
<1>3. RetireTypeOK'
  BY <1>2 DEF Change, Careful, RetireTypeOK
<1> QED
  BY <1>2, <1>3, OthersKeep DEF Change

LEMMA CarefulHardDelete ==
    ASSUME Careful, NEW m \in Memory, HardDelete(m) PROVE Careful'
<1>1. Moves(m)
  BY DEF HardDelete, Careful, RetireTypeOK, Moves
<1>2. \A n \in Memory : Moves(n)
  BY <1>1, OneRowMoves DEF HardDelete
<1>3. RetireTypeOK'
  BY OneRowTyped DEF HardDelete, Careful, RetireTypeOK
<1> QED
  BY <1>2, <1>3, OthersKeep DEF HardDelete

------------------------------------------------------------------------------
(* The run *)

\* A step of the run that changes neither memories nor reviews: what is left to show.
LEMMA RunKeeps ==
    ASSUME Careful, UNCHANGED <<clock, mems, reviews, verdicts>>, used' \subseteq Memory,
           run' \in Run, Shaped', SeenTracked', WaitingTracked'
    PROVE  Careful'
<1>1. RetireTypeOK'
  BY DEF Careful, RetireTypeOK
<1>2. StreaksRecorded'
  BY DEF Careful, StreaksRecorded, Recorded, Back
<1> QED
  BY <1>1, <1>2 DEF Careful

\* It lists nothing any more.
LEMMA NothingSeen ==
    ASSUME \A m \in Memory : run'.seen[m] = None, run'.due = {}, run'.at # "asking",
           run'.began = run'.listed
    PROVE  SeenTracked' /\ WaitingTracked' /\ Shaped'
<1>1. Waiting' = {}
  BY DEF Waiting
<1> QED
  BY <1>1 DEF SeenTracked, WaitingTracked, Shaped

LEMMA CarefulIdle ==
    ASSUME Careful, EndRun \/ Kill PROVE Careful'
<1>1. run' = NoRun /\ UNCHANGED <<clock, mems, reviews, used, verdicts>>
  BY DEF EndRun, Kill
<1>2. SeenTracked' /\ WaitingTracked' /\ Shaped'
  BY <1>1, NothingSeen DEF NoRun
<1>3. used' \subseteq Memory
  BY <1>1 DEF Careful, RetireTypeOK
<1> QED
  BY <1>1, <1>2, <1>3, NoRunTyped, RunKeeps

LEMMA CarefulStartRun ==
    ASSUME Careful, StartRun PROVE Careful'
<1>1. run' = [NoRun EXCEPT !.at = "started", !.now = clock]
      /\ UNCHANGED <<clock, mems, reviews, used, verdicts>>
  BY DEF StartRun
<1>2. clock \in Time
  BY DEF Careful, RetireTypeOK
<1>3. run' \in Run
  BY <1>1, <1>2, NoRunTyped DEF Run
<1>4. SeenTracked' /\ WaitingTracked' /\ Shaped'
  BY <1>1, NothingSeen DEF NoRun
<1>5. used' \subseteq Memory
  BY <1>1 DEF Careful, RetireTypeOK
<1> QED
  BY <1>1, <1>3, <1>4, <1>5, RunKeeps

LEMMA CarefulBeginListing ==
    ASSUME Careful, BeginListing PROVE Careful'
<1>1. PICK usable \in SUBSET {m \in Memory : Live(m)} :
          run' = [run EXCEPT !.at = "listing", !.began = clock, !.listed = clock,
                     !.seen = [m \in Memory |->
                         IF m \in usable
                         THEN [version |-> mems[m].version, changed |-> mems[m].changed]
                         ELSE None]]
  BY DEF BeginListing
<1>2. /\ run.at = "started" /\ used' = {}
      /\ UNCHANGED <<clock, mems, reviews, verdicts>>
  BY DEF BeginListing
<1> DEFINE seen == [m \in Memory |->
                       IF m \in usable
                       THEN [version |-> mems[m].version, changed |-> mems[m].changed]
                       ELSE None]
<1>3. run \in Run /\ clock \in Time
  BY DEF Careful, RetireTypeOK
<1>4. \A m \in usable : m \in Memory /\ mems[m] # None /\ mems[m].version \in Version
                        /\ mems[m].changed \in Time
  BY RowFields DEF Live, Careful
<1>5. seen \in [Memory -> [version: Version, changed: Time] \cup {None}]
  BY <1>4
<1>6. run' \in Run
  BY <1>1, <1>3, <1>5 DEF Run
<1>7. run'.at = "listing" /\ run'.began = clock /\ run'.listed = clock /\ run'.seen = seen
      /\ run'.due = run.due
  BY <1>1, <1>3 DEF Run
<1>8. Waiting' = {}
  BY <1>2, <1>7 DEF Waiting, Careful, Shaped
<1>9. Shaped' /\ WaitingTracked'
  BY <1>2, <1>7, <1>8 DEF Careful, Shaped, WaitingTracked
<1>10. SeenTracked'
  <2> SUFFICES ASSUME NEW m \in Memory, seen[m] # None
               PROVE  /\ Tracked(m, seen[m].version)' /\ seen[m].changed = mems[m].changed
    BY <1>2, <1>7 DEF SeenTracked
  <2>1. m \in usable /\ seen[m].version = mems[m].version /\ seen[m].changed = mems[m].changed
    OBVIOUS
  <2> QED
    BY <1>2, <1>4, <2>1 DEF Tracked, Version
<1> QED
  BY <1>2, <1>6, <1>9, <1>10, RunKeeps

\* A TTL is at least ttl_days.
LEMMA TtlIsLong ==
    ASSUME Careful, NEW m \in Memory PROVE Ttl(m) \in Nat /\ Ttl(m) >= TtlDays
<1> DEFINE n == Sooner(1 + Reads(m), MultiplierMax)
<1>1. n \in Nat \ {0}
  BY RowFields, RetireAssumption DEF Careful, Reads, Sooner
<1>2. TtlDays \in Nat \ {0}
  BY RetireAssumption
<1>3. \A a \in Nat \ {0}, b \in Nat \ {0} : a * b \in Nat /\ a * b >= a
  OBVIOUS
<1> QED
  BY <1>1, <1>2, <1>3 DEF Ttl

LEMMA CarefulFinishListing ==
    ASSUME Careful, FinishListing PROVE Careful'
<1> DEFINE candidates ==
        {[memory |-> m, version |-> run.seen[m].version, last |-> LastUse(m)] : m \in Unused}
<1>1. PICK due \in SUBSET candidates :
          run' = [run EXCEPT !.at = "reviewing", !.due = due, !.seen = [m \in Memory |-> None]]
  BY DEF FinishListing
<1>2. run.at = "listing" /\ UNCHANGED <<clock, mems, reviews, used, verdicts>>
  BY DEF FinishListing
<1>3. run \in Run
  BY DEF Careful, RetireTypeOK
<1>4. ASSUME NEW m \in Unused
      PROVE  /\ m \in Memory /\ run.seen[m] # None
             /\ run.seen[m].version \in Version /\ run.seen[m].changed \in Time
             /\ LastUse(m) \in Time /\ LastUse(m) >= run.seen[m].changed
             /\ run.seen[m].changed + TtlDays <= run.now
  <2>1. m \in Memory /\ run.seen[m] # None /\ LastUse(m) <= run.now - Ttl(m)
    BY DEF Unused
  <2>2. run.seen[m].version \in Version /\ run.seen[m].changed \in Time /\ run.now \in Time
    BY <1>3, <2>1, RunFields
  <2>3. mems[m] # None => mems[m].lastRead \in -1..MaxTime
    BY <2>1, RowFields DEF Careful
  <2>4. LastUse(m) \in Time /\ LastUse(m) >= run.seen[m].changed
    BY <2>2, <2>3, RetireAssumption DEF LastUse, Later, Time
  <2>5. Ttl(m) \in Nat /\ Ttl(m) >= TtlDays
    BY <2>1, TtlIsLong
  <2>6. run.seen[m].changed + TtlDays <= run.now
    BY <2>1, <2>2, <2>4, <2>5, RetireAssumption DEF Time
  <2> QED
    BY <2>1, <2>2, <2>4, <2>6
<1>5. ASSUME NEW c \in due
      PROVE  /\ c \in Candidate /\ c.memory \in Unused
             /\ c.version = run.seen[c.memory].version
             /\ c = [memory |-> c.memory, version |-> run.seen[c.memory].version,
                     last |-> LastUse(c.memory)]
  <2>1. PICK m \in Unused :
            c = [memory |-> m, version |-> run.seen[m].version, last |-> LastUse(m)]
    BY <1>1
  <2> QED
    BY <1>4, <2>1 DEF Candidate
<1>6. /\ run' \in Run /\ run'.due = due /\ run'.at = "reviewing"
      /\ run'.began = run.began /\ run'.listed = run.listed /\ run'.now = run.now
      /\ run'.seen = [m \in Memory |-> None]
  <2>1. due \subseteq Candidate
    BY <1>5
  <2> QED
    BY <1>1, <1>3, <2>1 DEF Run
<1>7. Waiting' = due
  BY <1>6 DEF Waiting
<1>8. Shaped'
  <2>1. \A c, d \in due : c.memory = d.memory => c = d
    BY <1>5
  <2> QED
    BY <1>6, <1>7, <2>1 DEF Careful, Shaped
<1>9. SeenTracked'
  BY <1>6 DEF SeenTracked
<1>10. WaitingTracked'
  <2> SUFFICES ASSUME NEW c \in due, NEW m \in Memory, NEW version \in Version,
                      m = c.memory, version = c.version
               PROVE  /\ Tracked(m, version)'
                      /\ mems[m] # None /\ mems[m].version = version =>
                            mems[m].changed + TtlDays <= run.now
                      /\ reviews[m] # None /\ reviews[m].version = version =>
                            reviews[m].next <= run.now
    BY <1>2, <1>4, <1>5, <1>6, <1>7 DEF WaitingTracked, Tracked
  <2>1. /\ m \in Unused /\ version = run.seen[m].version /\ run.seen[m] # None
        /\ run.seen[m].changed + TtlDays <= run.now
    BY <1>4, <1>5
  <2>2. Tracked(m, version)
    BY <2>1 DEF Careful, SeenTracked
  <2>3. Tracked(m, version)'
    BY <1>2, <1>6, <2>2 DEF Tracked
  <2>4. mems[m] # None /\ mems[m].version = version => mems[m].changed = run.seen[m].changed
    BY <2>1 DEF Careful, SeenTracked
  <2>5. reviews[m] # None /\ reviews[m].version = version => ~(reviews[m].next > run.now)
    BY <2>1 DEF Unused, Reviewed
  <2>6. reviews[m] # None => reviews[m].next \in Nat
    BY ReviewFields DEF Careful
  <2>7. run.now \in Nat
    BY <1>3, RunFields, RetireAssumption DEF Time
  <2> QED
    BY <2>1, <2>3, <2>4, <2>5, <2>6, <2>7
<1>11. used' \subseteq Memory
  BY <1>2 DEF Careful, RetireTypeOK
<1> QED
  BY <1>2, <1>6, <1>8, <1>9, <1>10, <1>11, RunKeeps

------------------------------------------------------------------------------
(* One candidate *)

\* The run works on: it has no new candidates.
LEMMA RunGoesOn ==
    ASSUME Careful, run' \in Run, run'.began = run.began, run'.listed = run.listed,
           Waiting' \subseteq Waiting,
           run'.at = "asking" => run'.asked \in Candidate /\ run'.asked \notin run'.due,
           run'.at \in {"reviewing", "asking"}
    PROVE  Shaped'
BY DEF Careful, Shaped

LEMMA CarefulAsk ==
    ASSUME Careful, NEW c \in run.due, Ask(c) PROVE Careful'
<1>1. /\ run.at = "reviewing" /\ UNCHANGED <<clock, mems, reviews, used, verdicts>>
      /\ run' = IF mems[c.memory] = None
                THEN [run EXCEPT !.due = @ \ {c}]
                ELSE [run EXCEPT !.due = @ \ {c}, !.at = "asking", !.asked = c]
  BY DEF Ask
<1>2. run \in Run /\ run.due \subseteq Candidate /\ c \in Candidate
  BY RunFields DEF Careful, RetireTypeOK
<1>3. /\ run' \in Run /\ run'.due = run.due \ {c} /\ run'.seen = run.seen
      /\ run'.began = run.began /\ run'.listed = run.listed /\ run'.now = run.now
      /\ \/ run'.at = "reviewing"
         \/ run'.at = "asking" /\ run'.asked = c
  BY <1>1, <1>2 DEF Run
<1>4. Waiting' \subseteq Waiting
  BY <1>3 DEF Waiting
<1>5. Shaped'
  BY <1>1, <1>2, <1>3, <1>4, RunGoesOn
<1>6. SeenTracked' /\ WaitingTracked'
  BY <1>1, <1>3, <1>4, StillMoves, SeenKept, WaitingKept
<1>7. used' \subseteq Memory
  BY <1>1 DEF Careful, RetireTypeOK
<1> QED
  BY <1>1, <1>3, <1>5, <1>6, <1>7, RunKeeps

\* What an answer leaves of the run.
LEMMA AnsweredFields ==
    ASSUME Careful, run.at = "asking", NEW groups \in 0..MaxGroups,
           run' = [Answered EXCEPT !.groups = groups]
    PROVE  /\ run' \in Run /\ run'.at = "reviewing" /\ run'.due = run.due
           /\ run'.seen = run.seen /\ run'.began = run.began /\ run'.listed = run.listed
           /\ run'.now = run.now
           /\ Waiting' = run.due /\ Waiting' \subseteq Waiting /\ run.asked \notin run.due
           /\ run.asked \in Waiting /\ Shaped'
<1>1. run \in Run
  BY DEF Careful, RetireTypeOK
<1>2. /\ run' \in Run /\ run'.at = "reviewing" /\ run'.due = run.due
      /\ run'.seen = run.seen /\ run'.began = run.began /\ run'.listed = run.listed
      /\ run'.now = run.now
  BY <1>1 DEF Run, Answered
<1>3. Waiting' = run.due /\ Waiting' \subseteq Waiting /\ run.asked \in Waiting
  BY <1>2 DEF Waiting
<1>4. Shaped'
  BY <1>2, <1>3, RunGoesOn
<1> QED
  BY <1>2, <1>3, <1>4 DEF Careful, Shaped

LEMMA AnsweredAlone ==
    ASSUME Careful, run.at = "asking", run' = Answered
    PROVE  run' = [Answered EXCEPT !.groups = run.groups] /\ run.groups \in 0..MaxGroups
<1>1. run \in Run
  BY DEF Careful, RetireTypeOK
<1> QED
  BY <1>1, RunFields DEF Run, Answered

LEMMA CarefulNoAnswer ==
    ASSUME Careful, run.at = "asking", run' = Answered,
           UNCHANGED <<clock, mems, reviews, used, verdicts>>
    PROVE  Careful'
<1>1. /\ run' \in Run /\ Shaped' /\ run'.seen = run.seen /\ run'.began = run.began
      /\ run'.now = run.now /\ Waiting' \subseteq Waiting
  BY AnsweredAlone, AnsweredFields
<1>2. SeenTracked' /\ WaitingTracked'
  BY <1>1, StillMoves, SeenKept, WaitingKept
<1>3. used' \subseteq Memory
  BY DEF Careful, RetireTypeOK
<1> QED
  BY <1>1, <1>2, <1>3, RunKeeps

\* The last entries of a sequence, as many as the limit.
Keep(s, e, limit) ==
    IF Len(Append(s, e)) > limit THEN Tail(Append(s, e)) ELSE Append(s, e)

\* t is s with e after it, as far as the limit lets it.
Follows(t, s, e, limit) ==
    /\ Len(t) \in 1..limit /\ Len(t) = Sooner(Len(s) + 1, limit)
    /\ t[Len(t)] = e
    /\ \A j \in 1..(Len(t) - 1) : t[Len(t) - j] = s[Len(s) - (j - 1)]

LEMMA LastKept ==
    ASSUME NEW S, NEW s \in Seq(S), NEW e \in S, NEW limit \in Nat \ {0}, Len(s) <= limit
    PROVE  Keep(s, e, limit) \in Seq(S) /\ Follows(Keep(s, e, limit), s, e, limit)
<1> DEFINE t == Keep(s, e, limit)
<1>1. t = IF Len(Append(s, e)) > limit THEN Tail(Append(s, e)) ELSE Append(s, e)
  BY DEF Keep
<1> HIDE DEF t
<1>2. Append(s, e) \in Seq(S) /\ Len(Append(s, e)) = Len(s) + 1 /\ Len(s) \in Nat
  OBVIOUS
<1>3. \A i \in 1..(Len(s) + 1) : Append(s, e)[i] = IF i = Len(s) + 1 THEN e ELSE s[i]
  OBVIOUS
<1>4. ASSUME Len(s) + 1 > limit PROVE t \in Seq(S) /\ Follows(t, s, e, limit)
  <2>1. t = Tail(Append(s, e)) /\ Len(s) = limit
    BY <1>1, <1>2, <1>4
  <2>2. t \in Seq(S) /\ Len(t) = limit /\ \A i \in 1..limit : t[i] = Append(s, e)[i + 1]
    BY <1>2, <2>1
  <2>3. \A i \in 1..limit : t[i] = IF i = limit THEN e ELSE s[i + 1]
    BY <1>3, <2>1, <2>2
  <2>4. \A j \in 1..(limit - 1) : t[limit - j] = s[limit - (j - 1)]
    <3> SUFFICES ASSUME NEW j \in 1..(limit - 1) PROVE t[limit - j] = s[limit - (j - 1)]
      OBVIOUS
    <3>1. limit - j \in 1..limit /\ limit - j # limit /\ limit - (j - 1) = (limit - j) + 1
      OBVIOUS
    <3> QED
      BY <2>3, <3>1
  <2>5. t[limit] = e /\ Sooner(limit + 1, limit) = limit /\ limit \in 1..limit
    BY <2>3 DEF Sooner
  <2> QED
    BY <2>1, <2>2, <2>4, <2>5 DEF Follows
<1>5. ASSUME Len(s) + 1 <= limit PROVE t \in Seq(S) /\ Follows(t, s, e, limit)
  <2>1. t = Append(s, e) /\ Len(t) = Len(s) + 1
    BY <1>1, <1>2, <1>5
  <2>2. t \in Seq(S) /\ t[Len(t)] = e /\ \A i \in 1..Len(s) : t[i] = s[i]
    BY <1>2, <1>3, <2>1
  <2> QED
    BY <1>2, <1>5, <2>1, <2>2 DEF Sooner, Follows
<1>6. Len(s) + 1 > limit \/ Len(s) + 1 <= limit
  BY <1>2
<1> QED
  BY <1>4, <1>5, <1>6 DEF t

LEMMA Remembered ==
    ASSUME Careful, run.at = "asking", NEW m \in Memory, m = run.asked.memory,
           NEW decision \in {"keep", "uncertain", "delete"}, Remember(m, decision)
    PROVE  /\ verdicts' \in [Memory -> Seq(Verdict)]
           /\ \A n \in Memory \ {m} : verdicts'[n] = verdicts[n]
           /\ Len(verdicts'[m]) \in 1..UncertainLimit
           /\ Len(verdicts'[m]) = Sooner(Len(verdicts[m]) + 1, UncertainLimit)
           /\ Len(verdicts[m]) \in Nat
           /\ verdicts'[m][Len(verdicts'[m])] =
                 [version |-> run.asked.version, decision |-> decision, at |-> run.now]
           /\ \A j \in 1..(Len(verdicts'[m]) - 1) :
                 verdicts'[m][Len(verdicts'[m]) - j] = Back(m, j - 1)
<1> DEFINE e == [version |-> run.asked.version, decision |-> decision, at |-> run.now]
           t == Keep(verdicts[m], e, UncertainLimit)
<1>1. verdicts \in [Memory -> Seq(Verdict)] /\ verdicts' = [verdicts EXCEPT ![m] = t]
  BY DEF Careful, RetireTypeOK, Remember, Keep
<1>2. e \in Verdict
  <2>1. run.asked.version \in Version /\ run.now \in Time
    BY RunFields DEF Careful, RetireTypeOK, Shaped, Candidate
  <2> QED
    BY <2>1 DEF Verdict
<1>3. verdicts[m] \in Seq(Verdict) /\ Len(verdicts[m]) <= UncertainLimit
  BY <1>1 DEF Careful, StreaksRecorded, Recorded
<1>4. UncertainLimit \in Nat \ {0}
  BY RetireAssumption
<1>e. e = [version |-> run.asked.version, decision |-> decision, at |-> run.now]
  OBVIOUS
<1> HIDE DEF e
<1>5. t \in Seq(Verdict) /\ Follows(t, verdicts[m], e, UncertainLimit)
  BY <1>2, <1>3, <1>4, LastKept
<1> HIDE DEF t
<1>6. verdicts'[m] = t /\ \A n \in Memory \ {m} : verdicts'[n] = verdicts[n]
  BY <1>1
<1>7. verdicts' \in [Memory -> Seq(Verdict)]
  BY <1>1, <1>5
<1> QED
  <2>1. Len(verdicts[m]) \in Nat
    BY <1>3
  <2>2. verdicts'[m][Len(verdicts'[m])]
           = [version |-> run.asked.version, decision |-> decision, at |-> run.now]
    BY <1>e, <1>5, <1>6 DEF Follows
  <2>3. \A j \in 1..(Len(verdicts'[m]) - 1) :
           verdicts'[m][Len(verdicts'[m]) - j] = Back(m, j - 1)
    BY <1>5, <1>6 DEF Back, Follows
  <2> QED
    BY <1>5, <1>6, <1>7, <2>1, <2>2, <2>3 DEF Follows

\* An answer of "uncertain" about the version there is: the streak, this answer included,
\* is what the last verdicts are.
LEMMA StreakGrows ==
    ASSUME Careful, run.at = "asking", NEW m \in Memory, m = run.asked.memory,
           mems[m] # None, mems[m].version = run.asked.version,
           Remember(m, "uncertain"), NEW streak, streak = Streak(m, run.asked.version),
           NEW n \in Nat, n = Len(verdicts'[m])
    PROVE  /\ streak \in 1..n /\ verdicts'[m][n].at = run.now
           /\ \A j \in 0..(streak - 1) :
                 verdicts'[m][n - j].decision = "uncertain"
                 /\ verdicts'[m][n - j].version = mems[m].version
           /\ \A j \in 1..(streak - 1) :
                 verdicts'[m][n - (j - 1)].at >= verdicts'[m][n - j].at + TtlDays
<1>1. /\ n \in 1..UncertainLimit /\ n = Sooner(Len(verdicts[m]) + 1, UncertainLimit)
      /\ Len(verdicts[m]) \in Nat
      /\ verdicts'[m][n] =
            [version |-> run.asked.version, decision |-> "uncertain", at |-> run.now]
      /\ \A j \in 1..(n - 1) : verdicts'[m][n - j] = Back(m, j - 1)
  BY Remembered
<1>2. /\ verdicts'[m][n].at = run.now /\ verdicts'[m][n].decision = "uncertain"
      /\ verdicts'[m][n].version = mems[m].version
  BY <1>1
<1>3. CASE streak = 1
  BY <1>1, <1>2, <1>3
<1>4. CASE /\ reviews[m] # None /\ reviews[m].decision = "uncertain"
           /\ reviews[m].version = run.asked.version
  <2> DEFINE k == reviews[m].streak
  <2>1. k \in 0..(UncertainLimit - 1) /\ streak = 1 + k
    BY <1>4, ReviewFields DEF Careful, Streak
  <2>2. /\ k \in 1..Len(verdicts[m]) /\ reviews[m].next = Back(m, 0).at + TtlDays
        /\ \A j \in 0..(k - 1) :
              Back(m, j).decision = "uncertain" /\ Back(m, j).version = mems[m].version
        /\ \A j \in 1..(k - 1) : Back(m, j - 1).at >= Back(m, j).at + TtlDays
    BY <1>4 DEF Careful, StreaksRecorded, Recorded
  <2>3. reviews[m].next <= run.now
    <3>1. run.asked \in Waiting
      BY DEF Waiting
    <3> QED
      BY <1>4, <3>1 DEF Careful, WaitingTracked
  <2> HIDE DEF k
  <2>4. streak \in 2..n
    BY <1>1, <2>1, <2>2, RetireAssumption, SMTT(30) DEF Sooner
  <2>5. \A j \in 1..k : verdicts'[m][n - j] = Back(m, j - 1)
    BY <1>1, <2>1, <2>4
  <2>6. ASSUME NEW j \in 0..(streak - 1)
        PROVE  /\ verdicts'[m][n - j].decision = "uncertain"
               /\ verdicts'[m][n - j].version = mems[m].version
    <3>1. CASE j = 0
      BY <1>1, <1>2, <3>1
    <3>2. CASE j # 0
      <4>1. j \in 1..k /\ j - 1 \in 0..(k - 1)
        BY <2>1, <3>2
      <4> QED
        BY <2>2, <2>5, <4>1
    <3> QED
      BY <3>1, <3>2
  <2>7. ASSUME NEW j \in 1..(streak - 1)
        PROVE  verdicts'[m][n - (j - 1)].at >= verdicts'[m][n - j].at + TtlDays
    <3>1. j \in 1..k
      BY <2>1
    <3>2. CASE j = 1
      <4>1. verdicts'[m][n - 1] = Back(m, 0) /\ n - (j - 1) = n
        BY <1>1, <2>5, <3>1, <3>2
      <4>2. run.now >= Back(m, 0).at + TtlDays
        <5>1. reviews[m].next \in Nat
          BY <1>4, ReviewFields DEF Careful
        <5>2. run.now \in Nat
          BY RunFields, RetireAssumption DEF Careful, RetireTypeOK, Time
        <5> QED
          BY <2>2, <2>3, <5>1, <5>2
      <4> QED
        BY <1>2, <3>2, <4>1, <4>2
    <3>3. CASE j # 1
      <4>1. j - 1 \in 1..(k - 1) /\ j - 1 \in 1..k /\ (j - 1) - 1 = j - 2
        BY <3>1, <3>3, <2>1
      <4>2. verdicts'[m][n - (j - 1)] = Back(m, (j - 1) - 1)
        BY <2>5, <4>1
      <4>3. verdicts'[m][n - j] = Back(m, j - 1)
        BY <2>5, <3>1
      <4>4. Back(m, (j - 1) - 1).at >= Back(m, j - 1).at + TtlDays
        BY <2>2, <4>1
      <4> QED
        BY <4>2, <4>3, <4>4
    <3> QED
      BY <3>2, <3>3
  <2>8. streak \in 1..n
    BY <2>4
  <2> QED
    BY <1>2, <2>6, <2>7, <2>8
<1> QED
  BY <1>3, <1>4 DEF Streak

\* Verdicts are added of one memory.
LEMMA StreaksFollow ==
    ASSUME Careful, NEW m \in Memory, Recorded(m)',
           \A n \in Memory \ {m} :
              verdicts'[n] = verdicts[n] /\ mems'[n] = mems[n] /\ reviews'[n] = reviews[n]
    PROVE  StreaksRecorded'
<1> SUFFICES ASSUME NEW n \in Memory, n # m PROVE Recorded(n)'
  BY DEF StreaksRecorded
<1>1. Recorded(n) /\ verdicts'[n] = verdicts[n] /\ mems'[n] = mems[n] /\ reviews'[n] = reviews[n]
  BY DEF Careful, StreaksRecorded
<1> QED
  BY <1>1 DEF Recorded, Back

\* Who is asked about.
LEMMA AskedTyped ==
    ASSUME Careful, run.at = "asking"
    PROVE  /\ run.asked \in Waiting /\ run.asked.memory \in Memory
           /\ run.asked.version \in Version /\ run.now \in Time
<1>1. run.asked \in Waiting
  BY DEF Waiting
<1>2. run.now \in Time
  BY RunFields DEF Careful, RetireTypeOK
<1> QED
  BY <1>1, <1>2, WaitingTyped

LEMMA CarefulPutReview ==
    ASSUME Careful, NEW decision \in {"keep", "uncertain"},
           NEW streak \in 0..(UncertainLimit - 1), PutReview(decision, streak),
           decision = "uncertain" => streak = Streak(run.asked.memory, run.asked.version)
    PROVE  Careful'
<1> SUFFICES ASSUME NEW m, m = run.asked.memory PROVE Careful'
  OBVIOUS
<1> DEFINE row == [version |-> run.asked.version, decision |-> decision, streak |-> streak,
                   next |-> run.now + TtlDays]
<1>1. /\ run.at = "asking" /\ reviews' = [reviews EXCEPT ![m] = row]
      /\ Remember(m, decision) /\ run' = Answered /\ UNCHANGED <<clock, mems, used>>
  BY DEF PutReview
<1>2. /\ run.asked \in Waiting /\ m \in Memory
      /\ run.asked.version \in Version /\ run.now \in Time
  BY <1>1, AskedTyped
<1>3. /\ run' \in Run /\ run'.at = "reviewing" /\ run'.seen = run.seen
      /\ run'.began = run.began /\ run'.now = run.now
      /\ Waiting' = run.due /\ Waiting' \subseteq Waiting /\ run.asked \notin run.due /\ Shaped'
  BY <1>1, AnsweredAlone, AnsweredFields
<1>4. row \in Review
  BY <1>2, RetireAssumption DEF Review, Time
<1>5. /\ reviews' \in [Memory -> Review \cup {None}] /\ reviews'[m] = row
      /\ \A n \in Memory \ {m} : reviews'[n] = reviews[n]
  BY <1>1, <1>2, <1>4 DEF Careful, RetireTypeOK
<1>6. /\ verdicts' \in [Memory -> Seq(Verdict)]
      /\ \A n \in Memory \ {m} : verdicts'[n] = verdicts[n]
      /\ Len(verdicts'[m]) \in 1..UncertainLimit
  BY <1>1, <1>2, Remembered
<1>7. RetireTypeOK'
  BY <1>1, <1>3, <1>5, <1>6 DEF Careful, RetireTypeOK
<1>8. SeenTracked'
  BY <1>1, <1>3, StillMoves, SeenKept
<1>9. WaitingTracked'
  <2> SUFFICES ASSUME NEW c \in run.due
               PROVE  /\ Tracked(c.memory, c.version)'
                      /\ mems[c.memory] # None /\ mems[c.memory].version = c.version =>
                            mems[c.memory].changed + TtlDays <= run.now
                      /\ reviews'[c.memory] # None /\ reviews'[c.memory].version = c.version =>
                            reviews'[c.memory].next <= run.now
    BY <1>1, <1>3 DEF WaitingTracked
  <2>1. c \in Waiting /\ c.memory \in Memory
    BY <1>3, WaitingTyped DEF Waiting
  <2>2. c.memory # m
    BY <1>2, <1>3, <2>1 DEF Careful, Shaped
  <2>3. reviews'[c.memory] = reviews[c.memory]
    BY <1>5, <2>1, <2>2
  <2> QED
    BY <1>1, <1>3, <2>1, <2>3 DEF Careful, WaitingTracked, Tracked
<1>10. Recorded(m)'
  <2> DEFINE n == Len(verdicts'[m])
  <2>1. n \in Nat /\ n <= UncertainLimit
    BY <1>6, RetireAssumption
  <2>2. mems[m] # None => run.asked.version <= mems[m].version
    BY <1>2 DEF Careful, WaitingTracked, Tracked
  <2>3. ASSUME mems[m] # None, mems[m].version = run.asked.version, decision = "uncertain"
        PROVE  /\ streak \in 1..n /\ verdicts'[m][n].at = run.now
               /\ \A j \in 0..(streak - 1) :
                     verdicts'[m][n - j].decision = "uncertain"
                     /\ verdicts'[m][n - j].version = mems[m].version
               /\ \A j \in 1..(streak - 1) :
                     verdicts'[m][n - (j - 1)].at >= verdicts'[m][n - j].at + TtlDays
    BY <1>1, <1>2, <2>1, <2>3, StreakGrows
  <2>4. n - 0 = n
    BY <2>1
  <2> QED
    BY <1>1, <1>5, <2>1, <2>2, <2>3, <2>4, SMTT(30) DEF Recorded, Back
<1>11. StreaksRecorded'
  BY <1>1, <1>2, <1>5, <1>6, <1>10, StreaksFollow
<1> QED
  BY <1>3, <1>7, <1>8, <1>9, <1>11 DEF Careful

\* A soft delete by the run.
Deletes(m, decision) ==
    /\ run.at = "asking" /\ m = run.asked.memory
    /\ run.groups < MaxGroups /\ Fits(m)
    /\ mems' = [mems EXCEPT ![m].version = @ + 1, ![m].deleted = TRUE, ![m].changed = clock]
    /\ run' = [Answered EXCEPT !.groups = @ + 1]
    /\ Remember(m, decision)
    /\ UNCHANGED <<clock, reviews, used>>

LEMMA RetireCases ==
    ASSUME NEW decision, Retire(decision)
    PROVE  \/ Deletes(run.asked.memory, decision)
           \/ /\ run.at = "asking" /\ run' = Answered
              /\ UNCHANGED <<clock, mems, reviews, used, verdicts>>
BY DEF Retire, Deletes

LEMMA CarefulDeletes ==
    ASSUME Careful, NEW m, NEW decision \in {"uncertain", "delete"}, Deletes(m, decision)
    PROVE  Careful'
<1>1. m \in Memory /\ m = run.asked.memory /\ run.at = "asking"
  BY AskedTyped DEF Deletes
<1>2. mems[m] # None
  BY DEF Deletes, Fits, Live
<1>3. mems' \in [Memory -> Row \cup {None}] /\ \A n \in Memory : Moves(n)
  BY <1>1, <1>2, NextVersion DEF Deletes
<1>4. run' = [Answered EXCEPT !.groups = run.groups + 1] /\ run.groups + 1 \in 0..MaxGroups
  <2>1. run \in Run /\ run.groups \in 0..MaxGroups
    BY RunFields DEF Careful, RetireTypeOK
  <2>2. run' = [Answered EXCEPT !.groups = run.groups + 1]
    BY <2>1 DEF Deletes, Answered, Run
  <2> QED
    BY <2>1, <2>2, RetireAssumption DEF Deletes
<1>5. /\ run' \in Run /\ run'.seen = run.seen /\ run'.began = run.began
      /\ run'.now = run.now /\ Waiting' \subseteq Waiting /\ Shaped'
  BY <1>1, <1>4, AnsweredFields
<1>6. SeenTracked' /\ WaitingTracked'
  BY <1>3, <1>5, SeenKept, WaitingKept DEF Deletes
<1>7. /\ verdicts' \in [Memory -> Seq(Verdict)]
      /\ \A n \in Memory \ {m} : verdicts'[n] = verdicts[n]
      /\ Len(verdicts'[m]) \in 1..UncertainLimit
  BY <1>1, Remembered DEF Deletes
<1>8. RetireTypeOK'
  BY <1>3, <1>5, <1>7 DEF Deletes, Careful, RetireTypeOK
<1>9. Recorded(m)'
  <2>1. mems'[m].version = mems[m].version + 1
    BY <1>1, <1>2, RowFields DEF Deletes, Careful, RetireTypeOK, Row
  <2>2. reviews[m] # None => reviews[m].version <= mems[m].version
    BY <1>1, <1>2 DEF Careful, StreaksRecorded, Recorded
  <2>3. mems[m].version \in Version
    BY <1>1, <1>2, RowFields DEF Careful
  <2>4. reviews[m] # None => reviews[m].version \in Version
    BY <1>1, ReviewFields DEF Careful
  <2>5. reviews' = reviews /\ Len(verdicts'[m]) <= UncertainLimit
    BY <1>7, RetireAssumption DEF Deletes
  <2> QED
    BY <2>1, <2>2, <2>3, <2>4, <2>5 DEF Recorded, Version
<1>10. \A n \in Memory \ {m} : mems'[n] = mems[n] /\ reviews'[n] = reviews[n]
  BY DEF Deletes, Careful, RetireTypeOK
<1>11. StreaksRecorded'
  BY <1>1, <1>7, <1>9, <1>10, StreaksFollow
<1> QED
  BY <1>5, <1>6, <1>8, <1>11 DEF Careful

\* What an answer leads to.
LEMMA AnswerCases ==
    ASSUME Careful, AnswerComes
    PROVE  \/ \E decision \in {"keep", "uncertain"}, streak \in 0..(UncertainLimit - 1) :
                 /\ PutReview(decision, streak)
                 /\ decision = "uncertain" =>
                       streak = Streak(run.asked.memory, run.asked.version)
           \/ /\ Streak(run.asked.memory, run.asked.version) >= UncertainLimit
              /\ Retire("uncertain")
           \/ Retire("delete")
<1>1. PICK decision \in {"keep", "uncertain", "delete"} : Judge(decision)
  BY DEF AnswerComes
<1> DEFINE streak == Streak(run.asked.memory, run.asked.version)
<1>2. streak \in Nat
  <2>1. run.asked.memory \in Memory
    BY AskedTyped DEF AnswerComes
  <2> QED
    BY <2>1, ReviewFields DEF Careful, Streak
<1>3. 0 \in 0..(UncertainLimit - 1)
  BY RetireAssumption
<1> HIDE DEF streak
<1>4. \/ decision = "keep" /\ PutReview("keep", 0)
      \/ decision = "uncertain" /\ streak < UncertainLimit /\ PutReview("uncertain", streak)
      \/ decision = "uncertain" /\ streak >= UncertainLimit /\ Retire("uncertain")
      \/ decision = "delete" /\ Retire("delete")
  BY <1>1 DEF Judge, streak
<1>5. streak < UncertainLimit => streak \in 0..(UncertainLimit - 1)
  BY <1>2, RetireAssumption
<1> QED
  BY <1>3, <1>4, <1>5 DEF streak

LEMMA CarefulAnswerComes ==
    ASSUME Careful, AnswerComes PROVE Careful'
BY AnswerCases, RetireCases, CarefulPutReview, CarefulDeletes, CarefulNoAnswer

LEMMA CarefulNext == Careful /\ [RetireNext]_retireVars => Careful'
<1> SUFFICES ASSUME Careful, [RetireNext]_retireVars PROVE Careful'
  OBVIOUS
<1>1. CASE UNCHANGED retireVars
  BY <1>1, CarefulUnchanged
<1>2. CASE StartRun \/ BeginListing \/ FinishListing \/ EndRun \/ Kill
  BY <1>2, CarefulStartRun, CarefulBeginListing, CarefulFinishListing, CarefulIdle
<1>3. CASE \E c \in run.due : Ask(c)
  BY <1>3, CarefulAsk
<1>4. CASE NoAnswer \/ AnswerComes
  BY <1>4, CarefulNoAnswer, CarefulAnswerComes DEF NoAnswer
<1>5. CASE Tick
  BY <1>5, CarefulTick
<1>6. CASE \E m \in Memory : TouchRead(m) \/ PruneReads(m) \/ Change(m) \/ HardDelete(m)
  BY <1>6, CarefulTouchRead, CarefulPruneReads, CarefulChange, CarefulHardDelete
<1> QED
  BY <1>1, <1>2, <1>3, <1>4, <1>5, <1>6 DEF RetireNext

------------------------------------------------------------------------------
(* Theorems *)

\* Every state of retirement is careful: what a run has seen of a memory, and the streak
\* on record, still say what they must when it deletes (candidates, review).
THEOREM CarefulInvariant == RetireSpec => []Careful
<1> QED
  BY CarefulInit, CarefulNext, PTL DEF RetireSpec

\* Types, with the limits: no streak on record reaches the limit, no run applies more
\* changes than it may (put_review, apply_group).
THEOREM RetireTypesHold == RetireSpec => []RetireTypeOK
<1>1. Careful => RetireTypeOK
  BY DEF Careful
<1> QED
  BY <1>1, CarefulInvariant, PTL

\* Only an answer lets a run delete.
LEMMA RetiringStep ==
    ASSUME Careful, [RetireNext]_retireVars, NEW m \in Memory, Retires(m)
    PROVE  \E decision \in {"uncertain", "delete"} :
              /\ Deletes(m, decision)
              /\ decision = "uncertain" => Streak(m, run.asked.version) >= UncertainLimit
<1>1. run' # run /\ mems'[m] # mems[m]
  BY DEF Retires, Live
<1>2. AnswerComes
  <2>1. RetireNext
    BY <1>1 DEF retireVars
  <2>2. ~(StartRun \/ BeginListing \/ FinishListing \/ EndRun \/ Kill \/ NoAnswer \/ Tick)
    BY <1>1 DEF StartRun, BeginListing, FinishListing, EndRun, Kill, NoAnswer, Tick
  <2>3. ~\E c \in run.due : Ask(c)
    BY <1>1 DEF Ask
  <2>4. ~\E n \in Memory : TouchRead(n) \/ PruneReads(n) \/ Change(n) \/ HardDelete(n)
    BY <1>1 DEF TouchRead, PruneReads, Change, HardDelete
  <2> QED
    BY <2>1, <2>2, <2>3, <2>4 DEF RetireNext
<1>3. ~\E decision \in {"keep", "uncertain"}, streak \in 0..(UncertainLimit - 1) :
          PutReview(decision, streak)
  BY <1>1 DEF PutReview
<1>4. PICK decision \in {"uncertain", "delete"} :
          /\ Retire(decision)
          /\ decision = "uncertain" =>
                Streak(run.asked.memory, run.asked.version) >= UncertainLimit
  BY <1>2, <1>3, AnswerCases
<1>5. Deletes(run.asked.memory, decision)
  BY <1>1, <1>4, RetireCases
<1>6. m = run.asked.memory
  BY <1>1, <1>5 DEF Deletes, Careful, RetireTypeOK
<1> QED
  BY <1>4, <1>5, <1>6

\* What a run soft-deletes nobody has changed, or read at that time or after it, since the
\* run began to list, and it had last changed a TTL before the run: the conditions of the
\* soft delete (expected_version, unread_since) suffice however long the model took.
THEOREM UsedIsKeptHolds == RetireSpec => UsedIsKept
<1>1. Careful /\ [RetireNext]_retireVars =>
         [\A m \in Memory :
             Retires(m) => m \notin used /\ mems[m].changed + TtlDays <= run.now]_retireVars
  <2> SUFFICES ASSUME Careful, [RetireNext]_retireVars, NEW m \in Memory, Retires(m)
               PROVE  m \notin used /\ mems[m].changed + TtlDays <= run.now
    OBVIOUS
  <2>1. PICK decision \in {"uncertain", "delete"} : Deletes(m, decision)
    BY RetiringStep
  <2>2. /\ run.asked \in Waiting /\ m = run.asked.memory /\ mems[m] # None
        /\ mems[m].version = run.asked.version /\ mems[m].lastRead < run.listed
    BY <2>1, AskedTyped DEF Deletes, Fits, Live
  <2>3. /\ m \in used => mems[m].lastRead >= run.began
        /\ mems[m].changed + TtlDays <= run.now
    BY <2>2 DEF Careful, WaitingTracked, Tracked
  <2>4. run.began = run.listed
    BY DEF Careful, Shaped
  <2>5. mems[m].lastRead \in -1..MaxTime /\ MaxTime \in Nat
    BY <2>2, RowFields, RetireAssumption DEF Careful
  <2>6. run.listed \in Time
    BY RunFields DEF Careful, RetireTypeOK
  <2> QED
    BY <2>2, <2>3, <2>4, <2>5, <2>6 DEF Time
<1> QED
  BY <1>1, CarefulInvariant, PTL DEF RetireSpec, UsedIsKept

\* A memory is retired for a judgment of the very version that is deleted: "delete", or
\* uncertain_limit answers of "uncertain" in a row, each a TTL after the one before,
\* whatever versions, refused deletes and killed runs there were in between (review).
THEOREM RetiredForReasonHolds == RetireSpec => RetiredForReason
<1>1. Careful /\ [RetireNext]_retireVars =>
         [\A m \in Memory :
             Retires(m) =>
                LET last == verdicts'[m] IN
                /\ last # <<>> /\ last[Len(last)].version = mems[m].version
                /\ \/ last[Len(last)].decision = "delete"
                   \/ /\ Len(last) = UncertainLimit
                      /\ \A i \in 1..Len(last) : last[i].decision = "uncertain"
                                                 /\ last[i].version = mems[m].version
                      /\ \A i \in 2..Len(last) : last[i].at >= last[i - 1].at + TtlDays]_retireVars
  <2> SUFFICES ASSUME Careful, [RetireNext]_retireVars, NEW m \in Memory, Retires(m),
                      NEW last, last = verdicts'[m]
               PROVE  /\ last # <<>> /\ last[Len(last)].version = mems[m].version
                      /\ \/ last[Len(last)].decision = "delete"
                         \/ /\ Len(last) = UncertainLimit
                            /\ \A i \in 1..Len(last) : last[i].decision = "uncertain"
                                                       /\ last[i].version = mems[m].version
                            /\ \A i \in 2..Len(last) : last[i].at >= last[i - 1].at + TtlDays
    OBVIOUS
  <2>1. PICK decision \in {"uncertain", "delete"} :
            /\ Deletes(m, decision)
            /\ decision = "uncertain" => Streak(m, run.asked.version) >= UncertainLimit
    BY RetiringStep
  <2>2. /\ run.at = "asking" /\ m = run.asked.memory /\ mems[m] # None
        /\ mems[m].version = run.asked.version /\ Remember(m, decision)
    BY <2>1 DEF Deletes, Fits, Live
  <2>3. /\ Len(last) \in 1..UncertainLimit
        /\ last[Len(last)] = [version |-> run.asked.version, decision |-> decision,
                              at |-> run.now]
    BY <2>2, Remembered
  <2>4. last # <<>> /\ last[Len(last)].version = mems[m].version
    BY <2>2, <2>3
  <2>5. CASE decision = "delete"
    BY <2>3, <2>4, <2>5
  <2>6. CASE decision = "uncertain"
    <3> DEFINE n == Len(last)
               streak == Streak(m, run.asked.version)
    <3>1. streak = Streak(m, run.asked.version) /\ n = Len(verdicts'[m]) /\ last = verdicts'[m]
      OBVIOUS
    <3>2. n \in 1..UncertainLimit /\ n \in Nat
      BY <2>3, RetireAssumption
    <3>3. streak >= UncertainLimit
      BY <2>1, <2>6
    <3> HIDE DEF n, streak
    <3>4. /\ streak \in 1..n
          /\ \A j \in 0..(streak - 1) :
                last[n - j].decision = "uncertain" /\ last[n - j].version = mems[m].version
          /\ \A j \in 1..(streak - 1) : last[n - (j - 1)].at >= last[n - j].at + TtlDays
      <4>1. Remember(m, "uncertain")
        BY <2>2, <2>6
      <4>2. /\ streak \in 1..n
            /\ \A j \in 0..(streak - 1) :
                  verdicts'[m][n - j].decision = "uncertain"
                  /\ verdicts'[m][n - j].version = mems[m].version
            /\ \A j \in 1..(streak - 1) :
                  verdicts'[m][n - (j - 1)].at >= verdicts'[m][n - j].at + TtlDays
        BY <2>2, <3>1, <3>2, <4>1, StreakGrows, ZenonT(60)
      <4> QED
        BY <3>1, <4>2
    <3>5. n = UncertainLimit /\ streak = n
      BY <3>2, <3>4, <3>3, RetireAssumption
    <3>6. ASSUME NEW i \in 1..n
          PROVE  last[i].decision = "uncertain" /\ last[i].version = mems[m].version
      <4>1. n - i \in 0..(streak - 1) /\ n - (n - i) = i
        BY <3>2, <3>5
      <4> QED
        BY <3>4, <4>1
    <3>7. ASSUME NEW i \in 2..n PROVE last[i].at >= last[i - 1].at + TtlDays
      <4>1. /\ n - i + 1 \in 1..(streak - 1) /\ n - ((n - i + 1) - 1) = i
            /\ n - (n - i + 1) = i - 1
        BY <3>2, <3>5
      <4> QED
        BY <3>4, <4>1
    <3> QED
      BY <2>4, <3>5, <3>6, <3>7 DEF n
  <2> QED
    BY <2>5, <2>6
<1> QED
  BY <1>1, CarefulInvariant, PTL DEF RetireSpec, RetiredForReason
=============================================================================
