------------------------------- MODULE Retire -------------------------------
(***************************************************************************)
(* Retirement of unused memories.  A run lists the memories unused past    *)
(* their TTL, asks a model about each, records what it keeps or cannot     *)
(* tell, and soft-deletes the rest on the condition that nobody changed or *)
(* read them since the listing began.  Answers of "uncertain" add up over  *)
(* runs.  Meanwhile memories are read, rewritten, deleted, restored and    *)
(* purged, and a run may be killed anywhere.  Of a memory the model keeps  *)
(* what the listing reads; MemoryStore has the rest.                       *)
(***************************************************************************)
EXTENDS Integers, Sequences, FiniteSets

CONSTANTS
    Memory,
    None,
    TtlDays,          \* ttl_days
    MultiplierMax,    \* ttl_read_multiplier_max
    UncertainLimit,   \* uncertain_limit
    MaxCandidates,    \* max_candidates_per_run
    MaxGroups,        \* max_groups_per_run
    MaxTime,          \* bound: the clock
    MaxVersion,       \* bound, per memory: its versions
    MaxReads          \* bound, per memory: its read facts

ASSUME RetireAssumption ==
    /\ None \notin Memory /\ IsFiniteSet(Memory)
    /\ {TtlDays, MultiplierMax, UncertainLimit, MaxCandidates, MaxGroups} \subseteq Nat \ {0}
    /\ MaxTime \in Nat /\ {MaxVersion, MaxReads} \subseteq [Memory -> Nat]

VARIABLES
    clock,
    mems,             \* memory -> its row and the number of its read facts, or None
    reviews,          \* memory -> its ttl_reviews row, or None
    run,              \* the run under way
    used,             \* history: memories changed, or read by their stamp, since its listing began
    verdicts          \* history: memory -> the last judgments recorded or carried out

retireVars == <<clock, mems, reviews, run, used, verdicts>>

Time == 0..MaxTime
Version == Nat \ {0}

\* changed: the later of created and updated; -1: never read.
Row == [version: Version, deleted: BOOLEAN, changed: Time, lastRead: -1..MaxTime, reads: Nat]
Review == [version: Version, decision: {"keep", "uncertain"}, streak: 0..(UncertainLimit - 1), next: Nat]
Verdict == [version: Version, decision: {"keep", "uncertain", "delete"}, at: Time]

\* A memory as it was listed; last: when it was last used, as far as was known then.
Candidate == [memory: Memory, version: Version, last: Time]

Run == [at: {"idle", "started", "listing", "reviewing", "asking"}, now: Time, began: Time,
        listed: Time, seen: [Memory -> [version: Version, changed: Time] \cup {None}],
        due: SUBSET Candidate, asked: Candidate \cup {None}, groups: 0..MaxGroups]
NoRun == [at |-> "idle", now |-> 0, began |-> 0, listed |-> 0,
          seen |-> [m \in Memory |-> None], due |-> {}, asked |-> None, groups |-> 0]

Later(a, b) == IF a > b THEN a ELSE b
Sooner(a, b) == IF a < b THEN a ELSE b

Live(m) == mems[m] # None /\ ~mems[m].deleted

------------------------------------------------------------------------------
(* Listing *)

StartRun ==
    /\ run.at = "idle"
    /\ run' = [NoRun EXCEPT !.at = "started", !.now = clock]
    /\ UNCHANGED <<clock, mems, reviews, used, verdicts>>

\* The memories are read first, the usage of each afterwards.  The scan may leave any out.
BeginListing ==
    /\ run.at = "started"
    /\ \E usable \in SUBSET {m \in Memory : Live(m)} :
          run' = [run EXCEPT !.at = "listing", !.began = clock, !.listed = clock,
                     !.seen = [m \in Memory |->
                         IF m \in usable
                         THEN [version |-> mems[m].version, changed |-> mems[m].changed]
                         ELSE None]]
    /\ used' = {}
    /\ UNCHANGED <<clock, mems, reviews, verdicts>>

LastUse(m) ==
    Later(run.seen[m].changed, IF mems[m] = None THEN -1 ELSE mems[m].lastRead)
Reads(m) == IF mems[m] = None THEN 0 ELSE mems[m].reads
Ttl(m) == TtlDays * Sooner(1 + Reads(m), MultiplierMax)

\* Judged at this version, and not due again yet.
Reviewed(m) ==
    /\ reviews[m] # None
    /\ reviews[m].version = run.seen[m].version
    /\ reviews[m].next > run.now

Unused ==
    {m \in Memory : run.seen[m] # None /\ LastUse(m) <= run.now - Ttl(m) /\ ~Reviewed(m)}

\* Mutant of FinishListing: the listing time is taken when the listing is done.
FinishListingLate ==
    /\ run.at = "listing"
    /\ run' = [run EXCEPT !.at = "reviewing", !.listed = clock,
                  !.seen = [m \in Memory |-> None],
                  !.due = {[memory |-> m, version |-> run.seen[m].version, last |-> LastUse(m)] :
                              m \in Unused}]
    /\ UNCHANGED <<clock, mems, reviews, used, verdicts>>

\* The candidates unused for longest, as many as one run may review.
FinishListing ==
    LET candidates ==
            {[memory |-> m, version |-> run.seen[m].version, last |-> LastUse(m)] : m \in Unused}
    IN
    /\ run.at = "listing"
    /\ \E due \in SUBSET candidates :
          /\ Cardinality(due) <= MaxCandidates
          /\ due # candidates => Cardinality(due) = MaxCandidates
          /\ \A c \in due, other \in candidates \ due : c.last <= other.last
          /\ run' = [run EXCEPT !.at = "reviewing", !.due = due,
                        !.seen = [m \in Memory |-> None]]
    /\ UNCHANGED <<clock, mems, reviews, used, verdicts>>

EndRun ==
    /\ run.at = "reviewing" /\ run.due = {}
    /\ run' = NoRun
    /\ UNCHANGED <<clock, mems, reviews, used, verdicts>>

------------------------------------------------------------------------------
(* One candidate *)

\* A memory purged since the listing is left; else the model is asked.
Ask(c) ==
    /\ run.at = "reviewing" /\ c \in run.due
    /\ \A other \in run.due : c.last <= other.last
    /\ run' = IF mems[c.memory] = None
              THEN [run EXCEPT !.due = @ \ {c}]
              ELSE [run EXCEPT !.due = @ \ {c}, !.at = "asking", !.asked = c]
    /\ UNCHANGED <<clock, mems, reviews, used, verdicts>>

Answered == [run EXCEPT !.at = "reviewing", !.asked = None]

\* No answer, or none that can be used: nothing is recorded.
NoAnswer ==
    /\ run.at = "asking"
    /\ run' = Answered
    /\ UNCHANGED <<clock, mems, reviews, used, verdicts>>

\* Mutant of Streak: whatever version the answers before were about.
StreakOfAny(m, version) ==
    IF reviews[m] # None /\ reviews[m].decision = "uncertain" THEN 1 + reviews[m].streak ELSE 1

\* Uncertain answers in a row, this one included: judgments of the same version.
Streak(m, version) ==
    IF reviews[m] # None /\ reviews[m].decision = "uncertain" /\ reviews[m].version = version
    THEN 1 + reviews[m].streak ELSE 1

\* The last judgments of a memory, as many as can matter.
Remember(m, decision) ==
    LET all == Append(verdicts[m], [version |-> run.asked.version, decision |-> decision,
                                    at |-> run.now])
    IN  verdicts' = [verdicts EXCEPT ![m] =
            IF Len(all) > UncertainLimit THEN Tail(all) ELSE all]

PutReview(decision, streak) ==
    LET m == run.asked.memory IN
    /\ run.at = "asking"
    /\ reviews' = [reviews EXCEPT ![m] =
           [version |-> run.asked.version, decision |-> decision, streak |-> streak,
            next |-> run.now + TtlDays]]
    /\ Remember(m, decision)
    /\ run' = Answered
    /\ UNCHANGED <<clock, mems, used>>

\* SoftDelete(expected_version, unread_since) within apply.
Fits(m) ==
    /\ Live(m) /\ mems[m].version = run.asked.version
    /\ mems[m].lastRead < run.listed

\* The soft delete, unless it is refused: the group limit, a conflict, the policy.
Retire(decision) ==
    LET m == run.asked.memory IN
    /\ run.at = "asking"
    /\ \/ /\ run.groups < MaxGroups /\ Fits(m) /\ mems[m].version < MaxVersion[m]
          /\ mems' = [mems EXCEPT ![m].version = @ + 1, ![m].deleted = TRUE, ![m].changed = clock]
          /\ run' = [Answered EXCEPT !.groups = @ + 1]
          /\ Remember(m, decision)
       \/ run' = Answered /\ UNCHANGED <<mems, verdicts>>
    /\ UNCHANGED <<clock, reviews, used>>

Judge(decision) ==
    LET streak == Streak(run.asked.memory, run.asked.version) IN
    \/ decision = "keep" /\ PutReview("keep", 0)
    \/ decision = "uncertain" /\ streak < UncertainLimit /\ PutReview("uncertain", streak)
    \/ decision = "uncertain" /\ streak >= UncertainLimit /\ Retire("uncertain")
    \/ decision = "delete" /\ Retire("delete")

AnswerComes == run.at = "asking" /\ \E decision \in {"keep", "uncertain", "delete"} : Judge(decision)

Kill ==
    /\ run.at # "idle"
    /\ run' = NoRun
    /\ UNCHANGED <<clock, mems, reviews, used, verdicts>>

------------------------------------------------------------------------------
(* Everyone else *)

Tick ==
    /\ clock < MaxTime
    /\ clock' = clock + 1
    /\ UNCHANGED <<mems, reviews, run, used, verdicts>>

\* touch_read: recorded at any time after the read; pruned facts are not counted again.
TouchRead(m) ==
    /\ Live(m) /\ mems[m].reads < MaxReads[m]
    /\ \E at \in 0..clock :
          /\ mems' = [mems EXCEPT ![m].lastRead = Later(@, at), ![m].reads = @ + 1]
          /\ used' = IF at >= run.began THEN used \cup {m} ELSE used
    /\ UNCHANGED <<clock, reviews, run, verdicts>>

PruneReads(m) ==
    /\ mems[m] # None
    /\ \E reads \in 0..(mems[m].reads - 1) : mems' = [mems EXCEPT ![m].reads = reads]
    /\ UNCHANGED <<clock, reviews, run, used, verdicts>>

\* A rewrite, a soft delete, a restore or an undo by someone else, dream's phases included.
Change(m) ==
    /\ mems[m] # None /\ mems[m].version < MaxVersion[m]
    /\ \E deleted \in BOOLEAN :
          /\ deleted => Live(m)
          /\ mems' = [mems EXCEPT ![m].version = @ + 1, ![m].deleted = deleted, ![m].changed = clock]
    /\ used' = used \cup {m}
    /\ UNCHANGED <<clock, reviews, run, verdicts>>

HardDelete(m) ==
    /\ mems[m] # None
    /\ mems' = [mems EXCEPT ![m] = None]
    /\ UNCHANGED <<clock, reviews, run, used, verdicts>>

RetireInit ==
    /\ clock = 0
    /\ mems = [m \in Memory |-> [version |-> 1, deleted |-> FALSE, changed |-> 0,
                                 lastRead |-> -1, reads |-> 0]]
    /\ reviews = [m \in Memory |-> None]
    /\ run = NoRun /\ used = {}
    /\ verdicts = [m \in Memory |-> <<>>]

RetireNext ==
    \/ StartRun \/ BeginListing \/ FinishListing \/ EndRun \/ Kill
    \/ \E c \in run.due : Ask(c)
    \/ NoAnswer \/ AnswerComes
    \/ Tick
    \/ \E m \in Memory : TouchRead(m) \/ PruneReads(m) \/ Change(m) \/ HardDelete(m)

RetireSpec == RetireInit /\ [][RetireNext]_retireVars

------------------------------------------------------------------------------
RetireTypeOK ==
    /\ clock \in Time
    /\ mems \in [Memory -> Row \cup {None}]
    /\ reviews \in [Memory -> Review \cup {None}]
    /\ run \in Run
    /\ used \subseteq Memory
    /\ verdicts \in [Memory -> Seq(Verdict)]

\* A run deletes a memory (another's delete leaves the run alone).
Retires(m) ==
    /\ Live(m) /\ run' # run
    /\ mems'[m] # None /\ mems'[m].deleted

\* What a run retires nobody has changed, or read at that time or after it, since the run
\* began to list, however long the model took; and it had last changed a TTL before the
\* run.
UsedIsKept ==
    [][\A m \in Memory :
          Retires(m) => m \notin used /\ mems[m].changed + TtlDays <= run.now]_retireVars

\* A memory is retired for a judgment of the very version that is deleted: "delete", or as
\* many answers of "uncertain" in a row as the limit, each a TTL after the one before.
RetiredForReason ==
    [][\A m \in Memory :
          Retires(m) =>
             LET last == verdicts'[m] IN
             /\ last # <<>> /\ last[Len(last)].version = mems[m].version
             /\ \/ last[Len(last)].decision = "delete"
                \/ /\ Len(last) = UncertainLimit
                   /\ \A i \in 1..Len(last) : last[i].decision = "uncertain"
                                              /\ last[i].version = mems[m].version
                   /\ \A i \in 2..Len(last) : last[i].at >= last[i - 1].at + TtlDays]_retireVars
=============================================================================
