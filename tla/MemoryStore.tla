----------------------------- MODULE MemoryStore -----------------------------
(***************************************************************************)
(* The SQLite memory store: `memories` rows hold the current state of each *)
(* memory, `memory_versions` and `memory_sources` every state it ever had, *)
(* `changes` and `change_steps` the log of writes, `memory_reads` the      *)
(* reads.  A change is a batch of operations written one after the other   *)
(* inside one BEGIN IMMEDIATE transaction, so a refusal, an error or a     *)
(* crash between two of them must leave nothing behind.                    *)
(*                                                                         *)
(* `db` is what a reader sees (the last commit), `work` what the writer    *)
(* holding the write lock sees; the two are equal while the lock is free.  *)
(***************************************************************************)
EXTENDS Integers, Sequences, FiniteSets

CONSTANTS
    MemoryId,     \* the ids new_id() can draw
    Project,      \* the projects rows, which no operation here changes
    Global,       \* the one project with is_global = 1
    Management,   \* the caller of MemoryService.apply and undo: no restriction
    Text,         \* descriptions and bodies, told apart and nothing more
    GivenTrust,   \* the trusts a create without sources may be given
    GivenSync,    \* the sync flags a create without sources may be given
    MaxVersion,   \* bound: versions of one memory
    MaxChanges,   \* bound: committed changes
    MaxOps,       \* bound: operations of one change
    MaxTime,      \* bound: read and listing times are 1..MaxTime
    MaxReads      \* bound: stored read facts

\* _TRUST_ORDER: untrusted-derived, agent, user, lowest first.
Trust == 0..2
UserTrust == 2

ASSUME ProjectAssumption == Global \in Project /\ Management \notin Project
ASSUME GivenAssumption == GivenTrust \subseteq Trust /\ GivenSync \subseteq BOOLEAN
ASSUME BoundAssumption ==
    /\ MaxVersion \in Nat /\ MaxChanges \in Nat /\ MaxOps \in Nat \ {0}
    /\ MaxTime \in Nat /\ MaxReads \in Nat

VARIABLES
    db,       \* the committed database
    work,     \* the database as the open write transaction has it
    locked,   \* whether a write transaction holds the write lock
    batch,    \* the change that transaction is writing (_Batch)
    purged,   \* ids hard-deleted so far (a history variable: an id is random)
    plan      \* the hard-delete plan the operator was shown

vars == <<db, work, locked, batch, purged, plan>>

------------------------------------------------------------------------------
(* Rows *)

Key == MemoryId \X Nat          \* (memory_id, version)

\* What a version records besides its sources; type follows text everywhere.
Content == [text: Text, trust: Trust, sync: BOOLEAN, deleted: BOOLEAN]
State == [content: Content, sources: SUBSET Key]

Memory == [project: Project, version: Nat \ {0}, content: Content, last_read_at: 0..MaxTime]
Version == [state: State, change: Nat \ {0}]

OpName == {"create", "update", "soft_delete", "restore"}
Step == [memory: MemoryId, op: OpName, before: Nat, after: Nat]
Actor == Project \cup {Management}
ReadFact == [memory: MemoryId, version: Nat, at: 1..MaxTime]

EmptyBatch == [by |-> Management, count |-> 0, undoes |-> 0,
               before |-> <<>>, cited |-> {}, steps |-> <<>>]
NoPlan == [target |-> {}, items |-> {}, cues |-> <<>>]

\* `f` with `x` at `k`: an INSERT, or an UPDATE of the row with that key.
Put(f, k, x) == [i \in DOMAIN f \cup {k} |-> IF i = k THEN x ELSE f[i]]

Only(f, S) == [i \in DOMAIN f \cap S |-> f[i]]

------------------------------------------------------------------------------
(* Reading a database `d` *)

Existing(d) == DOMAIN d.memories
Current(d, m) == <<m, d.memories[m].version>>
Sources(d, k) == d.versions[k].state.sources

\* _state_of: the row's own columns, and the sources of the row's version.
StateOf(d, m) == [content |-> d.memories[m].content, sources |-> Sources(d, Current(d, m))]

\* Some stored version of `m` cites some version of `s`.
Cites(d, m, s) == \E k \in DOMAIN d.versions : k[1] = m /\ \E r \in Sources(d, k) : r[1] = s

\* _REACHES: the walk from the sources of version `k` along the sources of any
\* version comes back to k's own memory, i.e. every set of memories that holds
\* those sources and whatever its members cite holds that memory too.
ClosedUnderCiting(d, S) == \A m \in S, s \in MemoryId : Cites(d, m, s) => s \in S
LeadsBack(d, k) ==
    \A S \in SUBSET MemoryId :
        ClosedUnderCiting(d, S) /\ (\A r \in Sources(d, k) : r[1] \in S) => k[1] \in S

\* _plan: the target and, to a fixed point, every memory one of whose versions
\* cites a member; a plan is compared by the (id, current version) pairs.
ClosedUnderCited(d, S) == \A s \in S, m \in MemoryId : Cites(d, m, s) => m \in S
\* Mutant of Members: only what cites the target by now.
MembersOfNow(d, target) ==
    {target} \cup {m \in Existing(d) : target \in {r[1] : r \in Sources(d, Current(d, m))}}

Members(d, target) ==
    {m \in MemoryId : \A S \in SUBSET MemoryId :
                          target \in S /\ ClosedUnderCited(d, S) => m \in S}
PlanItems(d, target) == {Current(d, m) : m \in Members(d, target)}

------------------------------------------------------------------------------
(* The start, and the write transaction *)

EmptyDb == [memories |-> <<>>, versions |-> <<>>, changes |-> <<>>, reads |-> {}]

Init ==
    /\ db = EmptyDb /\ work = EmptyDb
    /\ locked = FALSE /\ batch = EmptyBatch
    /\ purged = {} /\ plan = NoPlan

\* The row of the change being written is its last: it was inserted first.
ThisChange == Len(work.changes)

\* UndoRefused: a step is gone, or a memory moved on from the change's version.
Undoable(c) ==
    /\ DOMAIN c.steps = 1..c.count
    /\ \A i \in DOMAIN c.steps :
          /\ c.steps[i].memory \in Existing(db)
          /\ db.memories[c.steps[i].memory].version = c.steps[i].after

\* BEGIN IMMEDIATE and the change row, before any operation.
Begin(by, count, undoes) ==
    /\ ~locked
    /\ Len(db.changes) < MaxChanges
    /\ locked' = TRUE
    /\ work' = [db EXCEPT !.changes =
                   Append(@, [by |-> by, count |-> count, undoes |-> undoes, steps |-> <<>>])]
    /\ batch' = [EmptyBatch EXCEPT !.by = by, !.count = count, !.undoes = undoes]
    /\ UNCHANGED <<db, purged, plan>>

\* MemoryService.apply: the management path, any number of operations.
BeginApply == \E n \in 1..MaxOps : Begin(Management, n, 0)

\* SqliteMemoryStore.write: one operation of an agent whose session is in `p`.
BeginWrite == \E p \in Project : Begin(p, 1, 0)

\* SqliteMemoryStore.undo: as many operations as the change had steps.
BeginUndo ==
    \E c \in 1..Len(db.changes) :
        /\ Undoable(db.changes[c])
        /\ Begin(Management, db.changes[c].count, c)

\* An operation is refused, the process dies or the disk fails: ROLLBACK.  An
\* agent's update that changes nothing ends like this too.
Rollback ==
    /\ locked
    /\ locked' = FALSE /\ work' = db /\ batch' = EmptyBatch
    /\ UNCHANGED <<db, purged, plan>>

\* Mutant of Commit: no cycle check.
CommitUnchecked ==
    /\ locked
    /\ Len(batch.steps) = batch.count
    /\ db' = [work EXCEPT !.changes[ThisChange].steps = batch.steps]
    /\ work' = db'
    /\ locked' = FALSE /\ batch' = EmptyBatch
    /\ UNCHANGED <<purged, plan>>

\* _refuse_cycles, the steps, COMMIT.
Commit ==
    /\ locked
    /\ Len(batch.steps) = batch.count
    /\ \A k \in batch.cited : ~LeadsBack(work, k)
    /\ db' = [work EXCEPT !.changes[ThisChange].steps = batch.steps]
    /\ work' = db'
    /\ locked' = FALSE /\ batch' = EmptyBatch
    /\ UNCHANGED <<purged, plan>>

------------------------------------------------------------------------------
(* The operations of a change (_apply_one) *)

\* _pre_batch: (version, deleted) before this change, <<0, FALSE>> for none.
PreBatch(m) ==
    IF m \in DOMAIN batch.before THEN batch.before[m]
    ELSE IF m \in Existing(work)
         THEN <<work.memories[m].version, work.memories[m].content.deleted>>
         ELSE <<0, FALSE>>

\* _admit: a source set may carry references of the current set, and newly cite
\* other memories at the version they had, undeleted, before this change.
Citable(m, current) ==
    {r \in current \cup {<<s, PreBatch(s)[1]>> :
                            s \in {s \in MemoryId : PreBatch(s)[1] # 0 /\ ~PreBatch(s)[2]}} :
        r[1] # m}
SourceSets(m, current) ==
    {refs \in SUBSET Citable(m, current) : \A r, q \in refs : r[1] = q[1] => r = q}

\* _derived: the lowest trust of all, sync only if all sync; what was given
\* stands when there are no sources.
Lowest(S) == CHOOSE t \in S : \A u \in S : t <= u
\* Mutant of Derived: trust is not lowered.
DerivedSyncOnly(content, refs) ==
    IF refs = {} THEN content
    ELSE [content EXCEPT
             !.sync = @ /\ \A r \in refs : work.versions[r].state.content.sync]

Derived(content, refs) ==
    IF refs = {} THEN content
    ELSE [content EXCEPT
             !.trust = Lowest({@} \cup {work.versions[r].state.content.trust : r \in refs}),
             !.sync = @ /\ \A r \in refs : work.versions[r].state.content.sync]

\* The memories this change has named: each at most once.
Touched == {batch.steps[i].memory : i \in DOMAIN batch.steps}

\* ReadWriteSet.writable: an agent writes its own project, never global.
Writable(by) == IF by = Management THEN Project ELSE {by} \ {Global}

\* _target on both paths: the row, at the version the caller expects.
Target(m, expected, allowDeleted) ==
    /\ m \in Existing(work) \ Touched
    /\ work.memories[m].version = expected
    /\ work.memories[m].project \in Writable(batch.by)
    /\ allowDeleted \/ ~work.memories[m].content.deleted

Running == locked /\ Len(batch.steps) < batch.count

\* _insert_version, and the step of the change: `state` is version `n` of `m`,
\* whose row becomes `row`.
WriteRow(op, m, row, n, state, pre) ==
    /\ work' = [work EXCEPT
                   !.memories = Put(@, m, row),
                   !.versions = Put(@, <<m, n>>, [state |-> state, change |-> ThisChange])]
    /\ batch' = [batch EXCEPT
                   !.before = IF m \in DOMAIN @ THEN @ ELSE Put(@, m, pre),
                   !.cited = @ \cup (IF state.sources = {} THEN {} ELSE {<<m, n>>}),
                   !.steps = Append(@, [memory |-> m, op |-> op, before |-> pre[1], after |-> n])]
    /\ UNCHANGED <<db, locked, purged, plan>>

\* Mutant of WriteVersion: the same state is written again.
WriteVersionAlways(op, m, state) ==
    LET row == work.memories[m]
        n == row.version + 1
    IN  /\ n <= MaxVersion
        /\ WriteRow(op, m, [row EXCEPT !.version = n, !.content = state.content], n, state,
                    <<row.version, row.content.deleted>>)

\* _write_version: the next version of `m` in `state`, unless it is the state
\* the memory already has.
WriteVersion(op, m, state) ==
    LET row == work.memories[m]
        n == row.version + 1
    IN  /\ n <= MaxVersion
        /\ state # StateOf(work, m)
        /\ WriteRow(op, m, [row EXCEPT !.version = n, !.content = state.content], n, state,
                    <<row.version, row.content.deleted>>)

\* _create, under an id no row has; an id is never drawn twice.
Create(m, p, text, trust, sync, refs) ==
    LET given == [text |-> text, trust |-> IF refs = {} THEN trust ELSE UserTrust,
                  sync |-> refs # {} \/ sync, deleted |-> FALSE]
        content == Derived(given, refs)
    IN  /\ m \notin Existing(work) \cup purged
        /\ p \in Writable(batch.by)
        /\ refs = {} \/ batch.by = Management
        /\ refs \in SourceSets(m, {})
        /\ WriteRow("create", m,
                    [project |-> p, version |-> 1, content |-> content, last_read_at |-> 0],
                    1, [content |-> content, sources |-> refs], <<0, FALSE>>)

\* _update: new text or the current one, the current sources or another set,
\* trust and sync from the resulting set.
Update(m, expected, text, refs) ==
    LET old == StateOf(work, m)
    IN  /\ Target(m, expected, FALSE)
        /\ refs = old.sources \/ (batch.by = Management /\ refs \in SourceSets(m, old.sources))
        /\ WriteVersion("update", m,
                        [content |-> Derived([old.content EXCEPT !.text = text], refs),
                         sources |-> refs])

\* _soft_delete: `unread` is the listing time a caller may not see read past.
SoftDelete(m, expected, unread) ==
    LET old == StateOf(work, m)
    IN  /\ Target(m, expected, FALSE)
        /\ unread = 0 \/ (batch.by = Management /\ work.memories[m].last_read_at < unread)
        /\ WriteVersion("soft_delete", m, [old EXCEPT !.content.deleted = TRUE])

\* Mutant of Restore: the sources stay those of the current version.
RestoreContent(m, expected, to) ==
    /\ batch.by = Management
    /\ Target(m, expected, TRUE)
    /\ <<m, to>> \in DOMAIN work.versions
    /\ WriteVersion("restore", m, [work.versions[<<m, to>>].state EXCEPT
                                      !.sources = StateOf(work, m).sources])

\* _restore: a recorded state, trust, sync and sources included, again.
Restore(m, expected, to) ==
    /\ batch.by = Management
    /\ Target(m, expected, TRUE)
    /\ <<m, to>> \in DOMAIN work.versions
    /\ Sources(work, <<m, to>>) \subseteq DOMAIN work.versions
    /\ WriteVersion("restore", m, work.versions[<<m, to>>].state)

\* An operation the caller chose.
ApplyCreate ==
    /\ Running /\ batch.undoes = 0
    /\ \E m \in MemoryId, p \in Project, text \in Text, trust \in GivenTrust, sync \in GivenSync :
          \E refs \in SourceSets(m, {}) : Create(m, p, text, trust, sync, refs)

ApplyUpdate ==
    /\ Running /\ batch.undoes = 0
    /\ \E m \in Existing(work), expected \in 1..MaxVersion, text \in Text :
          \E refs \in SourceSets(m, StateOf(work, m).sources) \cup {StateOf(work, m).sources} :
              Update(m, expected, text, refs)

ApplySoftDelete ==
    /\ Running /\ batch.undoes = 0
    /\ \E m \in Existing(work), expected \in 1..MaxVersion, unread \in 0..MaxTime :
          SoftDelete(m, expected, unread)

ApplyRestore ==
    /\ Running /\ batch.undoes = 0
    /\ \E m \in Existing(work), expected, to \in 1..MaxVersion : Restore(m, expected, to)

\* The step an undo inverts next, in the change's own order.
NextUndone == work.changes[batch.undoes].steps[Len(batch.steps) + 1]

\* SqliteMemoryStore.undo: a create is soft-deleted, anything else put back to
\* the version before.
ApplyInverse ==
    /\ Running /\ batch.undoes # 0
    /\ IF NextUndone.op = "create"
       THEN SoftDelete(NextUndone.memory, NextUndone.after, 0)
       ELSE Restore(NextUndone.memory, NextUndone.after, NextUndone.before)

------------------------------------------------------------------------------
(* Hard delete: a plan is shown, confirmed later, and recomputed *)

\* plan_hard_delete, in a read transaction of its own.
PlanHardDelete ==
    /\ \E m \in Existing(db) :
          plan' = [target |-> {m}, items |-> PlanItems(db, m), cues |-> <<>>]
    /\ UNCHANGED <<db, work, locked, batch, purged>>

\* _plan_text: each item's cue is read afterwards, in another transaction (an
\* item gone by then has none).
ReadCue ==
    /\ \E i \in plan.items :
          /\ i[1] \in Existing(db) \ DOMAIN plan.cues
          /\ plan' = [plan EXCEPT !.cues = Put(@, i[1], db.memories[i[1]].content)]
    /\ UNCHANGED <<db, work, locked, batch, purged>>

\* The change without its steps on `gone`: ON DELETE CASCADE.
WithoutSteps(change, gone) ==
    [change EXCEPT !.steps = Only(@, {i \in DOMAIN @ : @[i].memory \notin gone})]

Without(d, gone) ==
    [d EXCEPT !.memories = Only(@, MemoryId \ gone),
              !.versions = Only(@, {k \in DOMAIN @ : k[1] \notin gone}),
              !.changes = [c \in DOMAIN @ |-> WithoutSteps(@[c], gone)],
              !.reads = {r \in @ : r.memory \notin gone}]

\* Mutant of HardDelete: the ids are compared, not the versions.
HardDeleteByIds ==
    /\ ~locked
    /\ \E target \in plan.target \cap Existing(db) :
          /\ {i[1] : i \in plan.items} = Members(db, target)
          /\ db' = Without(db, Members(db, target))
          /\ purged' = purged \cup Members(db, target)
    /\ work' = db'
    /\ plan' = NoPlan
    /\ UNCHANGED <<locked, batch>>

\* hard_delete: every member goes if the recomputed plan is the one shown.
HardDelete ==
    /\ ~locked
    /\ \E target \in plan.target \cap Existing(db) :
          /\ PlanItems(db, target) = plan.items
          /\ db' = Without(db, Members(db, target))
          /\ purged' = purged \cup Members(db, target)
    /\ work' = db'
    /\ plan' = NoPlan
    /\ UNCHANGED <<locked, batch>>

------------------------------------------------------------------------------
(* Reads *)

Latest(a, b) == IF a > b THEN a ELSE b

\* touch_read: a reader that was handed `version` at `at` records it, later and
\* unless the memory is deleted by then; the fact may fail where the mark does not.
TouchRead ==
    /\ ~locked
    /\ \E m \in Existing(db), at \in 1..MaxTime :
          /\ ~db.memories[m].content.deleted
          /\ \E version \in 1..db.memories[m].version,
                recorded \in BOOLEAN :
                /\ recorded => Cardinality(db.reads) < MaxReads
                /\ db' = [db EXCEPT
                             !.memories[m].last_read_at = Latest(@, at),
                             !.reads = @ \cup (IF recorded
                                 THEN {[memory |-> m, version |-> version, at |-> at]}
                                 ELSE {})]
    /\ work' = db'
    /\ UNCHANGED <<locked, batch, purged, plan>>

\* prune_reads: read facts older than the cutoff go, the marks stay.
PruneReads ==
    /\ ~locked
    /\ \E cutoff \in 1..(MaxTime + 1) :
          db' = [db EXCEPT !.reads = {r \in @ : r.at >= cutoff}]
    /\ work' = db'
    /\ UNCHANGED <<locked, batch, purged, plan>>

------------------------------------------------------------------------------
Apply == ApplyCreate \/ ApplyUpdate \/ ApplySoftDelete \/ ApplyRestore \/ ApplyInverse

Next ==
    \/ BeginApply \/ BeginWrite \/ BeginUndo
    \/ Apply
    \/ Commit \/ Rollback
    \/ PlanHardDelete \/ ReadCue \/ HardDelete
    \/ TouchRead \/ PruneReads

Spec == Init /\ [][Next]_vars

------------------------------------------------------------------------------
(* Types *)

TypeOKDb(d) ==
    /\ Existing(d) \subseteq MemoryId
    /\ \A m \in Existing(d) : d.memories[m] \in Memory
    /\ DOMAIN d.versions \subseteq Key
    /\ \A k \in DOMAIN d.versions : d.versions[k] \in Version
    /\ \A c \in DOMAIN d.changes :
          /\ d.changes[c].by \in Actor
          /\ d.changes[c].undoes \in 0..(c - 1)
          /\ DOMAIN d.changes[c].steps \subseteq 1..d.changes[c].count
          /\ \A i \in DOMAIN d.changes[c].steps : d.changes[c].steps[i] \in Step
    /\ d.reads \subseteq ReadFact

\* The shape of every table, of the open transaction (never more operations
\* than the step_count its change row was given) and of the shown plan.
TypeOK ==
    /\ TypeOKDb(db) /\ TypeOKDb(work)
    /\ locked \in BOOLEAN
    /\ batch.by \in Actor /\ batch.count \in 0..MaxOps /\ batch.cited \subseteq Key
    /\ batch.steps \in Seq(Step) /\ Len(batch.steps) <= batch.count
    /\ purged \subseteq MemoryId /\ purged \cap Existing(db) = {}
    /\ plan.target \subseteq MemoryId /\ plan.items \subseteq Key

------------------------------------------------------------------------------
(* Safety: what memriver doctor looks for (SqliteStoreInspector._history) and *)
(* what it cannot see.                                                        *)

NumberedDb(d) ==
    /\ \A m \in Existing(d) : \A v \in 1..d.memories[m].version : <<m, v>> \in DOMAIN d.versions
    /\ \A k \in DOMAIN d.versions :
          k[1] \in Existing(d) /\ k[2] \in 1..d.memories[k[1]].version

LatestDb(d) ==
    \A m \in Existing(d) :
        d.versions[Current(d, m)].state.content = d.memories[m].content

\* "version-gap" and "version-mismatch": the stored versions of a memory are
\* numbered 1 to its current version, and the row says what the latest one says,
\* though no statement writes both.
RowIsLatestVersion == NumberedDb(db) /\ LatestDb(db)

CitesStoredDb(d) == \A k \in DOMAIN d.versions : Sources(d, k) \subseteq DOMAIN d.versions

\* "dangling-source": whatever was created, restored, undone or hard-deleted, a
\* version cites only stored versions.
NoDanglingSource == CitesStoredDb(db)

AcyclicDb(d) ==
    \A S \in SUBSET MemoryId :
        S # {} => \E m \in S : \A s \in S : ~Cites(d, m, s)

\* "source-cycle": along the sources of any version, old ones included, no walk
\* leads a memory back to itself: every set of memories has a member that cites
\* no member.
NoSourceCycle == AcyclicDb(db)

CitesOlderDb(d) ==
    \A k \in DOMAIN d.versions : \A r \in Sources(d, k) :
        d.versions[r].change < d.versions[k].change

\* A version cites only versions that older changes wrote, never one of its own
\* batch or of a change to come.
CitesOlderChanges == CitesOlderDb(db)

NoMoreTrusted(own, cited) == own.trust <= cited.trust /\ (own.sync => cited.sync)
TrustDb(d) ==
    \A k \in DOMAIN d.versions : \A r \in Sources(d, k) :
        NoMoreTrusted(d.versions[k].state.content, d.versions[r].state.content)

\* Trust cannot be laundered through a citation, a restore or an undo: a version
\* is trusted no more than any version it cites, and syncs only if all of them do.
TrustFollowsSources == TrustDb(db)

\* An undo takes back its change and nothing else: each memory goes from the
\* version the change left to the state it had before (a created one is deleted).
UndoTakesBack ==
    \A c \in DOMAIN db.changes :
        LET change == db.changes[c]
            undone == db.changes[change.undoes]
        IN  change.undoes # 0 =>
              \A i \in DOMAIN change.steps :
                 \E j \in DOMAIN undone.steps :
                    LET now == change.steps[i]
                        then == undone.steps[j]
                        State1(v) == db.versions[<<now.memory, v>>].state
                    IN  /\ now.memory = then.memory
                        /\ now.before = then.after
                        /\ State1(now.after) =
                              IF then.op = "create"
                              THEN [State1(then.after) EXCEPT !.content.deleted = TRUE]
                              ELSE State1(then.before)

\* A hard delete removes what the operator saw: exactly the planned ids, each at
\* the planned version, and where a cue was shown, with the very text it showed,
\* though plan, cues and delete are separate transactions.
PurgedAsShown ==
    [][LET gone == Existing(db) \ Existing(db')
       IN  gone # {} =>
             /\ {Current(db, m) : m \in gone} = plan.items
             /\ \A m \in gone \cap DOMAIN plan.cues : db.memories[m].content = plan.cues[m]
      ]_vars

\* The version log of each memory, for the abstract specification.
Log == [m \in MemoryId |->
           IF m \in Existing(db)
           THEN [v \in 1..db.memories[m].version |-> db.versions[<<m, v>>].state]
           ELSE <<>>]
History == INSTANCE VersionLog WITH log <- Log, gone <- purged

\* The store implements an append-only log of versions.
ImplementsVersionLog == History!Spec
=============================================================================
