------------------------- MODULE MemoryStoreProofs -------------------------
(***************************************************************************)
(* What TLAPS proves of the memory store, for every set of memories, texts *)
(* and projects and every bound.                                           *)
(***************************************************************************)
EXTENDS MemoryStore, TLAPS

\* `f` maps some elements of D into R.
IsPartial(f, D, R) == DOMAIN f \subseteq D /\ f \in [DOMAIN f -> R]

IsChange(c) ==
    /\ c = [by |-> c.by, count |-> c.count, undoes |-> c.undoes, steps |-> c.steps]
    /\ c.by \in Actor /\ c.count \in 0..MaxOps /\ c.undoes \in Nat
    /\ IsPartial(c.steps, 1..c.count, Step)

\* A sequence of changes, each undoing an older one at most.
IsLog(s) ==
    /\ Len(s) \in Nat /\ DOMAIN s = 1..Len(s) /\ s = [i \in 1..Len(s) |-> s[i]]
    /\ \A c \in 1..Len(s) : IsChange(s[c]) /\ s[c].undoes < c

IsDatabase(d) ==
    /\ d = [memories |-> d.memories, versions |-> d.versions,
            changes |-> d.changes, reads |-> d.reads]
    /\ IsPartial(d.memories, MemoryId, Memory)
    /\ IsPartial(d.versions, Key, Version)
    /\ IsLog(d.changes)
    /\ d.reads \subseteq ReadFact

IsBatch(b) ==
    /\ b = [by |-> b.by, count |-> b.count, undoes |-> b.undoes,
            before |-> b.before, cited |-> b.cited, steps |-> b.steps]
    /\ b.by \in Actor /\ b.count \in 0..MaxOps /\ b.undoes \in Nat
    /\ IsPartial(b.before, MemoryId, Nat \X BOOLEAN)
    /\ b.cited \subseteq Key
    /\ b.steps \in Seq(Step) /\ Len(b.steps) <= b.count

\* What a memory was when the open change began.
Committed(m) ==
    IF m \in Existing(db) THEN <<db.memories[m].version, db.memories[m].content.deleted>>
    ELSE <<0, FALSE>>

\* `work` is the committed database, and while the lock is held, that database
\* with a change row and some versions more.
WorkExtendsDb ==
    /\ ~locked => work = db /\ batch = EmptyBatch
    /\ locked => /\ Len(work.changes) = Len(db.changes) + 1
                 /\ work.changes[ThisChange].count = batch.count
                 /\ work.changes[ThisChange].undoes = batch.undoes
    /\ \A c \in 1..Len(db.changes) : work.changes[c] = db.changes[c]
    /\ \A k \in DOMAIN db.versions : k \in DOMAIN work.versions /\ work.versions[k] = db.versions[k]
    /\ \A m \in MemoryId : PreBatch(m) = Committed(m)

IsPlan(p) ==
    /\ p = [target |-> p.target, items |-> p.items, cues |-> p.cues]
    /\ p.target \subseteq MemoryId /\ p.items \subseteq Key

\* Every version names a change that is in the log.
DatedDb(d) == \A k \in DOMAIN d.versions : d.versions[k].change \in 1..Len(d.changes)

\* A database with nothing wrong in it, as far as citing alone can tell.  The
\* parts hold only together: the type of a derived trust needs every cited
\* version to be stored, a restore keeps the trust its version had, and both need
\* the versions numbered without gaps.
GoodDb(d) ==
    /\ IsDatabase(d)
    /\ NumberedDb(d) /\ LatestDb(d) /\ CitesStoredDb(d)
    /\ TrustDb(d) /\ DatedDb(d) /\ CitesOlderDb(d)

\* The inductive invariant.
Core ==
    /\ GoodDb(db) /\ GoodDb(work)
    /\ locked \in BOOLEAN /\ IsBatch(batch) /\ IsPlan(plan)
    /\ purged \subseteq MemoryId
    /\ purged \cap Existing(db) = {} /\ purged \cap Existing(work) = {}
    /\ WorkExtendsDb

------------------------------------------------------------------------------
(* Partial functions, and the lowest trust *)

LEMMA PutPartial ==
    ASSUME NEW D, NEW R, NEW f, IsPartial(f, D, R), NEW k \in D, NEW x \in R
    PROVE  IsPartial(Put(f, k, x), D, R)
  BY DEF Put, IsPartial

LEMMA OnlyPartial ==
    ASSUME NEW D, NEW R, NEW f, IsPartial(f, D, R), NEW S
    PROVE  IsPartial(Only(f, S), D, R)
  BY DEF Only, IsPartial

\* Lowest is a least element of any nonempty set of trusts.
LEMMA LowestIsLeast ==
    ASSUME NEW S \in SUBSET Trust, S # {}
    PROVE  Lowest(S) \in S /\ \A t \in S : Lowest(S) <= t
  <1>1. \E t \in S : \A u \in S : t <= u
    <2> USE DEF Trust
    <2>1. \A u \in S : u \in 0..2
      OBVIOUS
    <2>2. CASE 0 \in S
      <3>1. \A u \in S : 0 <= u
        BY <2>1, SMT
      <3> QED
        BY <2>2, <3>1, Zenon
    <2>3. CASE 0 \notin S /\ 1 \in S
      <3>1. \A u \in S : 1 <= u
        BY <2>1, <2>3, SMT
      <3> QED
        BY <2>3, <3>1, Zenon
    <2>4. CASE 0 \notin S /\ 1 \notin S
      <3>1. \A u \in S : u = 2
        BY <2>1, <2>4, SMT
      <3>2. PICK t \in S : TRUE
        BY Zenon
      <3>3. \A u \in S : t <= u
        BY <3>1, <3>2, SMT
      <3> QED
        BY <3>3, Zenon
    <2> QED
      BY <2>2, <2>3, <2>4, Zenon
  <1> QED
    BY <1>1 DEF Lowest

\* What _derived makes of a content: no more trusted than it was or than any
\* version cited.
LEMMA DerivedIsLower ==
    ASSUME IsDatabase(work), NEW c \in Content, NEW refs \in SUBSET DOMAIN work.versions
    PROVE  /\ Derived(c, refs) \in Content
           /\ Derived(c, refs).text = c.text /\ Derived(c, refs).deleted = c.deleted
           /\ \A r \in refs : NoMoreTrusted(Derived(c, refs), work.versions[r].state.content)
  <1> DEFINE T == {c.trust} \cup {work.versions[r].state.content.trust : r \in refs}
  <1>1. \A r \in refs : work.versions[r].state.content \in Content
    BY DEF IsDatabase, IsPartial, Version, State
  <1>2. T \in SUBSET Trust /\ T # {}
    BY <1>1 DEF Content
  <1>3. Lowest(T) \in Trust /\ \A t \in T : Lowest(T) <= t
    BY <1>2, LowestIsLeast
  <1>4. \A r \in refs : Lowest(T) <= work.versions[r].state.content.trust
    BY <1>3
  <1> QED
    BY <1>1, <1>3, <1>4 DEF Derived, Content, NoMoreTrusted

------------------------------------------------------------------------------
(* What the operations write *)

\* The row of a memory is the state its current version records.
LEMMA CurrentIsStored ==
    ASSUME NEW d, GoodDb(d), NEW m \in Existing(d)
    PROVE  /\ m \in MemoryId /\ d.memories[m] \in Memory
           /\ Current(d, m) \in DOMAIN d.versions
           /\ StateOf(d, m) = d.versions[Current(d, m)].state
           /\ StateOf(d, m) \in State
  <1>1. m \in MemoryId /\ d.memories[m] \in Memory
    BY DEF GoodDb, IsDatabase, IsPartial, Existing
  <1>2. Current(d, m) \in DOMAIN d.versions
    BY <1>1 DEF GoodDb, NumberedDb, Current, Memory
  <1>3. d.versions[Current(d, m)] \in Version
    BY <1>2 DEF GoodDb, IsDatabase, IsPartial
  <1>4. d.versions[Current(d, m)].state.content = d.memories[m].content
    BY DEF GoodDb, LatestDb
  <1> QED
    BY <1>1, <1>2, <1>3, <1>4 DEF StateOf, Sources, Version, State

\* The version `n` that comes after what the writer sees of `m`, in a state that
\* may stand beside the versions there are.
FitState(m, state) ==
    /\ state \in State
    /\ state.sources \subseteq DOMAIN work.versions
    /\ \A r \in state.sources :
          /\ work.versions[r].change < ThisChange
          /\ NoMoreTrusted(state.content, work.versions[r].state.content)

InWork(m) ==
    IF m \in Existing(work) THEN <<work.memories[m].version, work.memories[m].content.deleted>>
    ELSE <<0, FALSE>>

Fits(op, m, row, n, state, pre) ==
    /\ op \in OpName /\ m \in MemoryId \ purged
    /\ pre = InWork(m) /\ n = pre[1] + 1
    /\ row \in Memory /\ row.version = n /\ row.content = state.content
    /\ FitState(m, state)
    /\ m \in Existing(work) => m \notin Touched /\ state # StateOf(work, m)

\* Sources the admission lets through are stored, and older than this change.
LEMMA CitableIsStored ==
    ASSUME Core, locked, NEW m \in MemoryId, NEW current \in SUBSET Key,
           \A r \in current : r \in DOMAIN work.versions /\ work.versions[r].change < ThisChange,
           NEW refs \in SourceSets(m, current)
    PROVE  /\ refs \subseteq DOMAIN work.versions
           /\ \A r \in refs : work.versions[r].change < ThisChange
  <1> SUFFICES ASSUME NEW r \in refs
               PROVE  r \in DOMAIN work.versions /\ work.versions[r].change < ThisChange
    OBVIOUS
  <1>1. CASE r \in current
    BY <1>1
  <1>2. CASE r \notin current
    <2>1. PICK s \in MemoryId : PreBatch(s)[1] # 0 /\ r = <<s, PreBatch(s)[1]>>
      BY <1>2 DEF SourceSets, Citable
    <2>2. s \in Existing(db) /\ r = Current(db, s)
      <3>1. PreBatch(s) = Committed(s)
        BY DEF Core, WorkExtendsDb
      <3>2. s \in Existing(db)
        BY <2>1, <3>1 DEF Committed
      <3> QED
        BY <2>1, <3>1, <3>2 DEF Committed, Current
    <2>3. r \in DOMAIN db.versions /\ db.versions[r].change \in 1..Len(db.changes)
      BY <2>2, CurrentIsStored DEF Core, GoodDb, DatedDb
    <2>4. Len(work.changes) = Len(db.changes) + 1 /\ Len(db.changes) \in Nat
      BY DEF Core, WorkExtendsDb, GoodDb, IsDatabase, IsLog
    <2> QED
      BY <2>3, <2>4 DEF Core, WorkExtendsDb, ThisChange
  <1> QED
    BY <1>1, <1>2

\* The state a stored version records fits again: what a restore needs.
LEMMA StoredFits ==
    ASSUME Core, NEW k \in DOMAIN work.versions, NEW m
    PROVE  FitState(m, work.versions[k].state)
  <1>1. work.versions[k] \in Version
    BY DEF Core, GoodDb, IsDatabase, IsPartial
  <1>2. Len(work.changes) \in Nat
    BY DEF Core, GoodDb, IsDatabase, IsLog
  <1>3. work.versions[k].change \in 1..ThisChange
    BY DEF Core, GoodDb, DatedDb, ThisChange
  <1>4. \A r \in Sources(work, k) :
           /\ r \in DOMAIN work.versions
           /\ work.versions[r].change \in 1..ThisChange
           /\ work.versions[r].change < work.versions[k].change
           /\ NoMoreTrusted(work.versions[k].state.content, work.versions[r].state.content)
    BY DEF Core, GoodDb, CitesStoredDb, CitesOlderDb, TrustDb, DatedDb, ThisChange
  <1>5. \A r \in Sources(work, k) : work.versions[r].change < ThisChange
    BY <1>2, <1>3, <1>4 DEF ThisChange
  <1> QED
    BY <1>1, <1>4, <1>5 DEF FitState, Sources, Version

\* Each operation, if it writes at all, writes such a version, once.
LEMMA WriteVersionFits ==
    ASSUME Core, NEW op \in OpName, NEW m \in Existing(work) \ Touched, NEW state,
           FitState(m, state), WriteVersion(op, m, state)
    PROVE  \E row, n, pre : Fits(op, m, row, n, state, pre) /\ WriteRow(op, m, row, n, state, pre)
  <1> DEFINE old == work.memories[m]
             n == old.version + 1
             row == [old EXCEPT !.version = n, !.content = state.content]
             pre == <<old.version, old.content.deleted>>
  <1>1. m \in MemoryId /\ old \in Memory
    BY CurrentIsStored DEF Core
  <1>2. m \notin purged
    BY DEF Core
  <1>3. row \in Memory /\ row.version = n /\ row.content = state.content
    <2> DEFINE next == [old EXCEPT !.version = n]
    <2>1. n \in Nat \ {0} /\ state.content \in Content
      BY <1>1 DEF Memory, FitState, State
    <2>2. next \in Memory /\ next.version = n
      <3> HIDE DEF n, old
      <3> QED
        BY <1>1, <2>1 DEF Memory
    <2>3. row = [next EXCEPT !.content = state.content]
      OBVIOUS
    <2> HIDE DEF row, n, next
    <2> QED
      BY <2>1, <2>2, <2>3 DEF Memory
  <1>4. pre = InWork(m) /\ n = pre[1] + 1
    BY DEF InWork
  <1>5. WriteRow(op, m, row, n, state, pre)
    BY DEF WriteVersion
  <1>6. state # StateOf(work, m)
    BY DEF WriteVersion
  <1> HIDE DEF row, n, pre
  <1> QED
    BY <1>1, <1>2, <1>3, <1>4, <1>5, <1>6 DEF Fits

LEMMA CreateFits ==
    ASSUME Core, locked, NEW m \in MemoryId, NEW p \in Project, NEW text \in Text,
           NEW trust \in Trust, NEW sync \in BOOLEAN, NEW refs,
           Create(m, p, text, trust, sync, refs)
    PROVE  \E row, n, state, pre :
              Fits("create", m, row, n, state, pre) /\ WriteRow("create", m, row, n, state, pre)
  <1> DEFINE given == [text |-> text, trust |-> IF refs = {} THEN trust ELSE UserTrust,
                       sync |-> refs # {} \/ sync, deleted |-> FALSE]
             content == Derived(given, refs)
             row == [project |-> p, version |-> 1, content |-> content, last_read_at |-> 0]
             state == [content |-> content, sources |-> refs]
  <1>1. given \in Content
    BY DEF Content, Trust, UserTrust
  <1>2. /\ refs \subseteq DOMAIN work.versions
        /\ \A r \in refs : work.versions[r].change < ThisChange
    BY CitableIsStored DEF Create
  <1>3. /\ content \in Content
        /\ \A r \in refs : NoMoreTrusted(content, work.versions[r].state.content)
    <2> HIDE DEF given
    <2> QED
      BY <1>1, <1>2, DerivedIsLower DEF Core, GoodDb
  <1>4. DOMAIN work.versions \subseteq Key
    BY DEF Core, GoodDb, IsDatabase, IsPartial
  <1>5. FitState(m, state)
    BY <1>2, <1>3, <1>4 DEF FitState, State
  <1>6. m \notin Existing(work) /\ m \notin purged
    BY DEF Create
  <1>7. row \in Memory
    BY <1>3, BoundAssumption DEF Memory
  <1>8. Fits("create", m, row, 1, state, <<0, FALSE>>)
    <2>1. row.version = 1 /\ row.content = state.content
      OBVIOUS
    <2>2. <<0, FALSE>> = InWork(m)
      BY <1>6, Zenon DEF InWork
    <2>3. 1 = <<0, FALSE>>[1] + 1
      OBVIOUS
    <2> HIDE DEF row, state
    <2> QED
      BY <1>5, <1>6, <1>7, <2>1, <2>2, <2>3 DEF Fits, OpName
  <1>9. WriteRow("create", m, row, 1, state, <<0, FALSE>>)
    BY DEF Create
  <1> QED
    BY <1>8, <1>9

LEMMA UpdateFits ==
    ASSUME Core, locked, NEW m, NEW expected, NEW text \in Text, NEW refs,
           Update(m, expected, text, refs)
    PROVE  \E row, n, state, pre :
              Fits("update", m, row, n, state, pre) /\ WriteRow("update", m, row, n, state, pre)
  <1> DEFINE old == StateOf(work, m)
             content == Derived([old.content EXCEPT !.text = text], refs)
             state == [content |-> content, sources |-> refs]
  <1>1. m \in Existing(work) \ Touched
    BY DEF Update, Target
  <1>2. m \in MemoryId /\ old \in State /\ FitState(m, old)
    BY <1>1, CurrentIsStored, StoredFits DEF Core
  <1>3. /\ refs \subseteq DOMAIN work.versions
        /\ \A r \in refs : work.versions[r].change < ThisChange
    <2>1. CASE refs = old.sources
      BY <1>2, <2>1 DEF FitState
    <2>2. CASE refs \in SourceSets(m, old.sources)
      <3>1. old.sources \in SUBSET Key
        BY <1>2 DEF State
      <3>2. \A r \in old.sources : r \in DOMAIN work.versions /\ work.versions[r].change < ThisChange
        BY <1>2 DEF FitState
      <3> QED
        BY <1>2, <2>2, <3>1, <3>2, CitableIsStored
    <2> QED
      BY <2>1, <2>2 DEF Update
  <1>4. [old.content EXCEPT !.text = text] \in Content
    BY <1>2 DEF State, Content
  <1>5. /\ content \in Content
        /\ \A r \in refs : NoMoreTrusted(content, work.versions[r].state.content)
    BY <1>3, <1>4, DerivedIsLower DEF Core, GoodDb
  <1>6. DOMAIN work.versions \subseteq Key
    BY DEF Core, GoodDb, IsDatabase, IsPartial
  <1>7. FitState(m, state)
    BY <1>3, <1>5, <1>6 DEF FitState, State
  <1>8. WriteVersion("update", m, state)
    BY DEF Update
  <1> HIDE DEF state
  <1> QED
    BY <1>1, <1>7, <1>8, WriteVersionFits DEF OpName

\* The state of a memory, deleted, fits: what a soft delete needs.
LEMMA DeletedFits ==
    ASSUME Core, NEW m \in Existing(work)
    PROVE  FitState(m, [StateOf(work, m) EXCEPT !.content.deleted = TRUE])
  <1> DEFINE old == StateOf(work, m)
             state == [old EXCEPT !.content.deleted = TRUE]
  <1>1. old \in State /\ FitState(m, old)
    BY CurrentIsStored, StoredFits DEF Core
  <1>2. /\ state \in State /\ state.sources = old.sources
        /\ state.content.trust = old.content.trust /\ state.content.sync = old.content.sync
    BY <1>1 DEF State, Content
  <1> HIDE DEF state, old
  <1>3. FitState(m, state)
    BY <1>1, <1>2 DEF FitState, NoMoreTrusted
  <1> QED
    BY <1>3 DEF state, old

LEMMA SoftDeleteFits ==
    ASSUME Core, locked, NEW m, NEW expected, NEW unread, SoftDelete(m, expected, unread)
    PROVE  \E row, n, state, pre :
              /\ Fits("soft_delete", m, row, n, state, pre)
              /\ WriteRow("soft_delete", m, row, n, state, pre)
  <1> DEFINE state == [StateOf(work, m) EXCEPT !.content.deleted = TRUE]
  <1>1. m \in Existing(work) \ Touched
    BY DEF SoftDelete, Target
  <1>2. WriteVersion("soft_delete", m, state)
    BY DEF SoftDelete
  <1>3. FitState(m, state)
    BY <1>1, DeletedFits
  <1> HIDE DEF state
  <1> QED
    BY <1>1, <1>2, <1>3, WriteVersionFits DEF OpName

LEMMA RestoreFits ==
    ASSUME Core, locked, NEW m, NEW expected, NEW to, Restore(m, expected, to)
    PROVE  \E row, n, state, pre :
              Fits("restore", m, row, n, state, pre) /\ WriteRow("restore", m, row, n, state, pre)
  <1> DEFINE state == work.versions[<<m, to>>].state
  <1>1. m \in Existing(work) \ Touched
    BY DEF Restore, Target
  <1>2. FitState(m, state)
    BY StoredFits DEF Restore
  <1>3. WriteVersion("restore", m, state)
    BY DEF Restore
  <1> HIDE DEF state
  <1> QED
    BY <1>1, <1>2, <1>3, WriteVersionFits DEF OpName

\* Whatever the operation, the step writes one fit version.
LEMMA ApplyWrites ==
    ASSUME Core, Apply
    PROVE  /\ locked /\ Len(batch.steps) < batch.count
           /\ \E op, m, row, n, state, pre :
                 Fits(op, m, row, n, state, pre) /\ WriteRow(op, m, row, n, state, pre)
  <1>1. Running
    BY DEF Apply, ApplyCreate, ApplyUpdate, ApplySoftDelete, ApplyRestore, ApplyInverse
  <1>2. locked /\ Len(batch.steps) < batch.count
    BY <1>1 DEF Running
  <1>3. CASE ApplyCreate
    <2>1. PICK m \in MemoryId, p \in Project, text \in Text, trust \in Trust, sync \in BOOLEAN :
             \E refs : Create(m, p, text, trust, sync, refs)
      BY <1>3, GivenAssumption DEF ApplyCreate
    <2> QED
      BY <1>2, <2>1, CreateFits
  <1>4. CASE ApplyUpdate
    <2>1. PICK text \in Text : \E m, expected, refs : Update(m, expected, text, refs)
      BY <1>4 DEF ApplyUpdate
    <2> QED
      BY <1>2, <2>1, UpdateFits
  <1>5. CASE ApplySoftDelete
    BY <1>2, <1>5, SoftDeleteFits DEF ApplySoftDelete
  <1>6. CASE ApplyRestore
    BY <1>2, <1>6, RestoreFits DEF ApplyRestore
  <1>7. CASE ApplyInverse
    BY <1>2, <1>7, SoftDeleteFits, RestoreFits DEF ApplyInverse
  <1> QED
    BY <1>2, <1>3, <1>4, <1>5, <1>6, <1>7 DEF Apply

------------------------------------------------------------------------------
(* What a write leaves true *)

\* A write adds one row or replaces it, and adds one version that was not there.
Wrote(m, row, n, state) ==
    LET version == [state |-> state, change |-> ThisChange]
    IN  /\ work' = [memories |-> Put(work.memories, m, row),
                    versions |-> Put(work.versions, <<m, n>>, version),
                    changes |-> work.changes, reads |-> work.reads]
        /\ Existing(work') = Existing(work) \cup {m}
        /\ work'.memories[m] = row
        /\ \A i \in Existing(work) : i # m => work'.memories[i] = work.memories[i]
        /\ n \in Nat \ {0} /\ <<m, n>> \in Key /\ <<m, n>> \notin DOMAIN work.versions
        /\ DOMAIN work'.versions = DOMAIN work.versions \cup {<<m, n>>}
        /\ work'.versions[<<m, n>>] = version
        /\ \A k \in DOMAIN work.versions : work'.versions[k] = work.versions[k]
        /\ ThisChange \in Nat \ {0} /\ ThisChange = Len(db.changes) + 1

LEMMA WriteRowEffect ==
    ASSUME Core, locked, NEW op, NEW m, NEW row, NEW n, NEW state, NEW pre,
           Fits(op, m, row, n, state, pre), WriteRow(op, m, row, n, state, pre)
    PROVE  Wrote(m, row, n, state)
  <1> DEFINE version == [state |-> state, change |-> ThisChange]
  <1>1. work' = [memories |-> Put(work.memories, m, row),
                 versions |-> Put(work.versions, <<m, n>>, version),
                 changes |-> work.changes, reads |-> work.reads]
    <2> HIDE DEF version
    <2>1. work = [memories |-> work.memories, versions |-> work.versions,
                  changes |-> work.changes, reads |-> work.reads]
      BY DEF Core, GoodDb, IsDatabase
    <2>2. work' = [work EXCEPT !.memories = Put(@, m, row), !.versions = Put(@, <<m, n>>, version)]
      BY DEF WriteRow, version
    <2> QED
      BY <2>1, <2>2, Zenon
  <1>2. m \in MemoryId /\ n \in Nat \ {0}
    BY DEF Fits, Memory
  <1>3. <<m, n>> \notin DOMAIN work.versions
    <2>1. CASE m \in Existing(work)
      <3>1. n = work.memories[m].version + 1 /\ work.memories[m] \in Memory
        BY <2>1, CurrentIsStored DEF Fits, InWork, Core
      <3> QED
        BY <2>1, <3>1 DEF Core, GoodDb, NumberedDb, Memory
    <2>2. CASE m \notin Existing(work)
      BY <2>2 DEF Core, GoodDb, NumberedDb
    <2> QED
      BY <2>1, <2>2
  <1>4. ThisChange \in Nat \ {0} /\ ThisChange = Len(db.changes) + 1
    BY DEF Core, WorkExtendsDb, ThisChange, GoodDb, IsDatabase, IsLog
  <1> HIDE DEF version
  <1>5. /\ Existing(work') = Existing(work) \cup {m}
        /\ work'.memories[m] = row
        /\ \A i \in Existing(work) : i # m => work'.memories[i] = work.memories[i]
    BY <1>1 DEF Existing, Put
  <1>6. /\ DOMAIN work'.versions = DOMAIN work.versions \cup {<<m, n>>}
        /\ work'.versions[<<m, n>>] = version
        /\ \A k \in DOMAIN work.versions : work'.versions[k] = work.versions[k]
    BY <1>1, <1>3 DEF Put
  <1> QED
    BY <1>1, <1>2, <1>3, <1>4, <1>5, <1>6 DEF version, Key, Wrote

LEMMA WriteKeepsGood ==
    ASSUME Core, locked, NEW op, NEW m, NEW row, NEW n, NEW state, NEW pre,
           Fits(op, m, row, n, state, pre), WriteRow(op, m, row, n, state, pre)
    PROVE  GoodDb(work')
  <1>0. Wrote(m, row, n, state)
    BY WriteRowEffect, Zenon
  <1> DEFINE version == [state |-> state, change |-> ThisChange]
  <1>1. /\ work' = [memories |-> Put(work.memories, m, row),
                    versions |-> Put(work.versions, <<m, n>>, version),
                    changes |-> work.changes, reads |-> work.reads]
        /\ Existing(work') = Existing(work) \cup {m}
        /\ work'.memories[m] = row
        /\ \A i \in Existing(work) : i # m => work'.memories[i] = work.memories[i]
    BY <1>0 DEF Wrote
  <1>2. /\ n \in Nat \ {0} /\ <<m, n>> \in Key /\ <<m, n>> \notin DOMAIN work.versions
        /\ DOMAIN work'.versions = DOMAIN work.versions \cup {<<m, n>>}
        /\ work'.versions[<<m, n>>] = version
        /\ \A k \in DOMAIN work.versions : work'.versions[k] = work.versions[k]
        /\ ThisChange \in Nat \ {0}
    BY <1>0 DEF Wrote
  <1>3. /\ m \in MemoryId /\ row \in Memory /\ row.version = n
        /\ row.content = state.content /\ FitState(m, state)
    BY DEF Fits
  <1>4. GoodDb(work)
    BY DEF Core
  <1>5. version \in Version /\ version.state = state /\ version.change = ThisChange
    BY <1>2, <1>3 DEF Version, FitState
  <1> HIDE DEF version
  <1>6. IsDatabase(work')
    <2>1. IsPartial(work'.memories, MemoryId, Memory)
      BY <1>1, <1>3, <1>4, PutPartial DEF GoodDb, IsDatabase
    <2>2. IsPartial(work'.versions, Key, Version)
      BY <1>1, <1>2, <1>4, <1>5, PutPartial DEF GoodDb, IsDatabase
    <2> QED
      BY <1>1, <1>4, <2>1, <2>2 DEF GoodDb, IsDatabase
  <1>7. NumberedDb(work')
    <2>1. ASSUME NEW i \in Existing(work'), NEW v \in 1..work'.memories[i].version
          PROVE  <<i, v>> \in DOMAIN work'.versions
      <3>1. CASE i # m
        BY <1>1, <1>2, <1>4, <2>1, <3>1 DEF GoodDb, NumberedDb
      <3>2. CASE i = m /\ v = n
        BY <1>2, <3>2
      <3>3. CASE i = m /\ v # n
        <4>1. v \in 1..(n - 1)
          BY <1>1, <1>2, <1>3, <2>1, <3>3
        <4>2. i \in Existing(work) /\ n = work.memories[i].version + 1
              /\ work.memories[i] \in Memory
          <5>1. n # 1
            BY <4>1, <1>2
          <5> QED
            BY <1>2, <3>3, <5>1, <1>4, CurrentIsStored DEF Fits, InWork
        <4>3. v \in 1..work.memories[i].version
          BY <4>1, <4>2 DEF Memory
        <4> QED
          BY <1>2, <1>4, <4>2, <4>3 DEF GoodDb, NumberedDb
      <3> QED
        BY <3>1, <3>2, <3>3
    <2>2. ASSUME NEW k \in DOMAIN work'.versions
          PROVE  k[1] \in Existing(work') /\ k[2] \in 1..work'.memories[k[1]].version
      <3>1. CASE k = <<m, n>>
        BY <1>1, <1>2, <1>3, <3>1
      <3>2. CASE k # <<m, n>>
        <4>1. k[1] \in Existing(work) /\ k[2] \in 1..work.memories[k[1]].version
          BY <1>2, <1>4, <2>2, <3>2 DEF GoodDb, NumberedDb
        <4>2. CASE k[1] = m
          <5>1. n = work.memories[m].version + 1 /\ work.memories[m] \in Memory
            BY <4>1, <4>2, <1>4, CurrentIsStored DEF Fits, InWork
          <5> QED
            BY <1>1, <1>2, <1>3, <4>1, <4>2, <5>1 DEF Memory
        <4>3. CASE k[1] # m
          BY <1>1, <4>1, <4>3
        <4> QED
          BY <4>2, <4>3
      <3> QED
        BY <3>1, <3>2
    <2> QED
      BY <2>1, <2>2 DEF NumberedDb
  <1>8. LatestDb(work')
    <2> SUFFICES ASSUME NEW i \in Existing(work')
                 PROVE  work'.versions[Current(work', i)].state.content = work'.memories[i].content
      BY DEF LatestDb
    <2>1. CASE i = m
      BY <1>1, <1>2, <1>3, <1>5, <2>1 DEF Current
    <2>2. CASE i # m
      <3>1. i \in Existing(work) /\ Current(work', i) = Current(work, i)
        BY <1>1, <2>2 DEF Current
      <3>2. Current(work, i) \in DOMAIN work.versions
        BY <1>4, <3>1, CurrentIsStored
      <3> QED
        BY <1>1, <1>2, <1>4, <2>2, <3>1, <3>2 DEF GoodDb, LatestDb
    <2> QED
      BY <2>1, <2>2
  <1>9. /\ Sources(work', <<m, n>>) = state.sources
        /\ \A k \in DOMAIN work.versions : Sources(work', k) = Sources(work, k)
    BY <1>2, <1>5 DEF Sources
  <1>10. CitesStoredDb(work')
    BY <1>2, <1>3, <1>4, <1>9 DEF GoodDb, CitesStoredDb, FitState
  <1>11. ASSUME NEW k \in DOMAIN work'.versions, NEW r \in Sources(work', k)
         PROVE  /\ NoMoreTrusted(work'.versions[k].state.content, work'.versions[r].state.content)
                /\ work'.versions[r].change < work'.versions[k].change
    <2>1. CASE k = <<m, n>>
      <3>1. /\ r \in DOMAIN work.versions
            /\ NoMoreTrusted(state.content, work.versions[r].state.content)
            /\ work.versions[r].change < ThisChange
        BY <1>3, <1>9, <1>11, <2>1 DEF FitState
      <3> QED
        BY <1>2, <1>5, <2>1, <3>1
    <2>2. CASE k # <<m, n>>
      <3>1. k \in DOMAIN work.versions /\ r \in Sources(work, k)
        BY <1>2, <1>9, <1>11, <2>2
      <3>2. /\ r \in DOMAIN work.versions
            /\ NoMoreTrusted(work.versions[k].state.content, work.versions[r].state.content)
            /\ work.versions[r].change < work.versions[k].change
        BY <1>4, <3>1 DEF GoodDb, CitesStoredDb, TrustDb, CitesOlderDb
      <3> QED
        BY <1>2, <3>1, <3>2
    <2> QED
      BY <2>1, <2>2
  <1>12. TrustDb(work') /\ CitesOlderDb(work')
    BY <1>11 DEF TrustDb, CitesOlderDb
  <1>13. DatedDb(work')
    <2>1. work'.changes = work.changes
      BY <1>1
    <2>2. \A k \in DOMAIN work.versions : work'.versions[k].change \in 1..Len(work.changes)
      BY <1>2, <1>4 DEF GoodDb, DatedDb
    <2>3. work'.versions[<<m, n>>].change \in 1..Len(work.changes)
      BY <1>2, <1>5 DEF ThisChange
    <2> QED
      BY <1>2, <2>1, <2>2, <2>3 DEF DatedDb
  <1> QED
    BY <1>6, <1>7, <1>8, <1>10, <1>12, <1>13 DEF GoodDb

LEMMA ApplyKeepsCore ==
    ASSUME Core, Apply
    PROVE  Core'
  <1>1. locked /\ Len(batch.steps) < batch.count
    BY ApplyWrites
  <1>2. PICK op, m, row, n, state, pre :
           Fits(op, m, row, n, state, pre) /\ WriteRow(op, m, row, n, state, pre)
    BY ApplyWrites
  <1>3. GoodDb(work')
    BY <1>1, <1>2, WriteKeepsGood
  <1>4. Wrote(m, row, n, state)
    BY <1>1, <1>2, WriteRowEffect, Zenon
  <1>5. UNCHANGED <<db, locked, purged, plan>>
    BY <1>2 DEF WriteRow
  <1>6. op \in OpName /\ m \in MemoryId \ purged /\ pre = InWork(m) /\ n = pre[1] + 1
    BY <1>2 DEF Fits
  <1>7. pre \in Nat \X BOOLEAN /\ n \in Nat
    <2>1. CASE m \in Existing(work)
      <3>1. work.memories[m].version \in Nat /\ work.memories[m].content.deleted \in BOOLEAN
        BY <2>1, CurrentIsStored DEF Core, Memory, Content
      <3>2. pre = <<work.memories[m].version, work.memories[m].content.deleted>>
        BY <1>6, <2>1, Zenon DEF InWork
      <3>3. n = work.memories[m].version + 1
        BY <1>6, <3>2
      <3> QED
        BY <3>1, <3>2, <3>3
    <2>2. CASE m \notin Existing(work)
      <3>1. pre = <<0, FALSE>>
        BY <1>6, <2>2, Zenon DEF InWork
      <3>2. n = 1
        BY <1>6, <3>1
      <3> QED
        BY <3>1, <3>2
    <2> QED
      BY <2>1, <2>2
  <1> DEFINE step == [memory |-> m, op |-> op, before |-> pre[1], after |-> n]
             before == IF m \in DOMAIN batch.before THEN batch.before ELSE Put(batch.before, m, pre)
             cited == batch.cited \cup (IF state.sources = {} THEN {} ELSE {<<m, n>>})
  <1>8. batch' = [by |-> batch.by, count |-> batch.count, undoes |-> batch.undoes,
                  before |-> before, cited |-> cited, steps |-> Append(batch.steps, step)]
    <2> DEFINE b == batch
    <2>1. b = [by |-> b.by, count |-> b.count, undoes |-> b.undoes,
               before |-> b.before, cited |-> b.cited, steps |-> b.steps]
      BY DEF Core, IsBatch
    <2>2. batch' = [b EXCEPT !.before = before, !.cited = cited, !.steps = Append(b.steps, step)]
      BY <1>2, Zenon DEF WriteRow
    <2> HIDE DEF step, before, cited
    <2> QED
      BY <2>1, <2>2, Zenon
  <1>9. IsBatch(batch')
    <2>1. step \in Step
      BY <1>6, <1>7 DEF Step
    <2>2. IsPartial(before, MemoryId, Nat \X BOOLEAN)
      BY <1>6, <1>7, PutPartial DEF Core, IsBatch
    <2>3. cited \subseteq Key
      BY <1>4 DEF Core, IsBatch, Wrote
    <2> HIDE DEF step, before, cited
    <2>4. Append(batch.steps, step) \in Seq(Step) /\ Len(Append(batch.steps, step)) <= batch.count
      BY <1>1, <2>1 DEF Core, IsBatch
    <2> QED
      BY <1>8, <2>2, <2>3, <2>4 DEF Core, IsBatch
  <1>10. purged' \cap Existing(work') = {}
    BY <1>4, <1>5, <1>6 DEF Core, Wrote
  <1>11. WorkExtendsDb'
    <2>1. ASSUME NEW i \in MemoryId
          PROVE  PreBatch(i)' = Committed(i)'
      <3>1. Committed(i)' = Committed(i) /\ PreBatch(i) = Committed(i)
        BY <1>5 DEF Committed, Core, WorkExtendsDb, Existing
      <3>2. CASE i \in DOMAIN batch.before
        <4>1. i \in DOMAIN before /\ before[i] = batch.before[i]
          BY <3>2 DEF Put
        <4> HIDE DEF before, cited, step
        <4> QED
          BY <1>8, <3>1, <3>2, <4>1 DEF PreBatch
      <3>3. CASE i \notin DOMAIN batch.before /\ i = m
        <4>1. i \in DOMAIN before /\ before[i] = InWork(m)
          BY <1>6, <3>3 DEF Put
        <4>2. InWork(m) = PreBatch(m)
          BY <3>3 DEF InWork, PreBatch
        <4> HIDE DEF before, cited, step
        <4> QED
          BY <1>8, <3>1, <3>3, <4>1, <4>2 DEF PreBatch
      <3>4. CASE i \notin DOMAIN batch.before /\ i # m
        <4>1. i \notin DOMAIN before
          BY <3>4 DEF Put
        <4>2. i \notin DOMAIN batch'.before
          <5> HIDE DEF before, cited, step
          <5> QED
            BY <1>8, <4>1
        <4>3. /\ i \in Existing(work) <=> i \in Existing(work')
              /\ i \in Existing(work) => work'.memories[i] = work.memories[i]
          BY <1>4, <3>4 DEF Wrote
        <4> QED
          BY <3>1, <3>4, <4>2, <4>3 DEF PreBatch
      <3> QED
        BY <3>2, <3>3, <3>4
    <2>2. work'.changes = work.changes /\ batch'.count = batch.count /\ batch'.undoes = batch.undoes
      <3> HIDE DEF before, cited, step
      <3> QED
        BY <1>4, <1>8 DEF Wrote
    <2>3. \A k \in DOMAIN db.versions : k \in DOMAIN work'.versions /\ work'.versions[k] = db.versions[k]
      BY <1>4 DEF Core, WorkExtendsDb, Wrote
    <2> QED
      BY <1>1, <1>5, <2>1, <2>2, <2>3 DEF Core, WorkExtendsDb, ThisChange
  <1> QED
    BY <1>3, <1>5, <1>9, <1>10, <1>11 DEF Core

------------------------------------------------------------------------------
(* The other steps *)

\* Only the rows, versions and sources decide what is good about a database,
\* not the reads, the read marks or the steps of its log.
LEMMA LogKeepsGood ==
    ASSUME NEW d, NEW e, GoodDb(d), IsLog(e.changes), Len(e.changes) >= Len(d.changes),
           e.reads \subseteq ReadFact,
           e = [memories |-> d.memories, versions |-> d.versions,
                changes |-> e.changes, reads |-> e.reads]
    PROVE  GoodDb(e) /\ Existing(e) = Existing(d)
  <1>1. e.memories = d.memories /\ e.versions = d.versions
    OBVIOUS
  <1>2. IsDatabase(e)
    <2>1. e = [memories |-> e.memories, versions |-> e.versions,
               changes |-> e.changes, reads |-> e.reads]
      BY <1>1, Zenon
    <2> QED
      BY <1>1, <2>1 DEF GoodDb, IsDatabase
  <1>3. DatedDb(e)
    BY <1>1 DEF GoodDb, DatedDb, IsDatabase, IsLog
  <1> QED
    BY <1>1, <1>2, <1>3
    DEF GoodDb, NumberedDb, LatestDb, CitesStoredDb, TrustDb, CitesOlderDb, Existing, Current,
        Sources

LEMMA InitCore == Init => Core
  <1> SUFFICES ASSUME Init PROVE Core
    OBVIOUS
  <1>1. db = EmptyDb /\ work = EmptyDb /\ ~locked /\ locked \in BOOLEAN /\ batch = EmptyBatch
        /\ purged = {} /\ plan = NoPlan
    BY DEF Init
  <1>2. GoodDb(EmptyDb) /\ Existing(EmptyDb) = {}
    <2>1. /\ EmptyDb.memories = <<>> /\ EmptyDb.versions = <<>> /\ EmptyDb.changes = <<>>
          /\ EmptyDb.reads = {}
      BY DEF EmptyDb
    <2>2. DOMAIN EmptyDb.memories = {} /\ DOMAIN EmptyDb.versions = {}
      BY <2>1
    <2>3. IsPartial(EmptyDb.memories, MemoryId, Memory) /\ IsPartial(EmptyDb.versions, Key, Version)
      BY <2>1 DEF IsPartial
    <2>4. IsLog(EmptyDb.changes)
      BY <2>1 DEF IsLog
    <2>5. EmptyDb = [memories |-> EmptyDb.memories, versions |-> EmptyDb.versions,
                     changes |-> EmptyDb.changes, reads |-> EmptyDb.reads]
      BY DEF EmptyDb
    <2>6. IsDatabase(EmptyDb)
      BY <2>1, <2>3, <2>4, <2>5 DEF IsDatabase
    <2> QED
      BY <2>2, <2>6
      DEF GoodDb, NumberedDb, LatestDb, CitesStoredDb, TrustDb, DatedDb, CitesOlderDb, Existing
  <1>3. IsBatch(EmptyBatch)
    <2>1. IsPartial(<<>>, MemoryId, Nat \X BOOLEAN)
      BY DEF IsPartial
    <2>2. <<>> \in Seq(Step) /\ Len(<<>>) = 0
      OBVIOUS
    <2> QED
      BY <2>1, <2>2, BoundAssumption DEF IsBatch, EmptyBatch, Actor
  <1>4. IsPlan(NoPlan)
    BY DEF IsPlan, NoPlan
  <1>5. \A m \in MemoryId : PreBatch(m) = Committed(m)
    BY <1>1 DEF PreBatch, Committed, EmptyBatch
  <1>6. WorkExtendsDb
    BY <1>1, <1>5 DEF WorkExtendsDb
  <1> QED
    BY <1>1, <1>2, <1>3, <1>4, <1>6 DEF Core

\* The committed database seen through a lock that is free or was just taken.
LEMMA FreeLockCommitted ==
    ASSUME ~locked, Core
    PROVE  /\ work = db /\ batch = EmptyBatch
           /\ IsDatabase(db) /\ GoodDb(db)
    BY DEF Core, WorkExtendsDb, GoodDb

LEMMA BeginKeepsCore ==
    ASSUME Core, NEW by \in Actor, NEW count \in 0..MaxOps, NEW undoes \in 0..Len(db.changes),
           Begin(by, count, undoes)
    PROVE  Core'
  <1> DEFINE change == [by |-> by, count |-> count, undoes |-> undoes, steps |-> <<>>]
             L == Len(db.changes)
  <1>1. ~locked /\ locked' /\ locked' \in BOOLEAN /\ UNCHANGED <<db, purged, plan>>
    BY DEF Begin
  <1>2. IsDatabase(db) /\ GoodDb(db) /\ IsLog(db.changes) /\ L \in Nat
    BY <1>1 DEF Core, GoodDb, IsDatabase, IsLog
  <1>3. work' = [memories |-> db.memories, versions |-> db.versions,
                 changes |-> Append(db.changes, change), reads |-> db.reads]
    <2> HIDE DEF change
    <2>1. db = [memories |-> db.memories, versions |-> db.versions,
                changes |-> db.changes, reads |-> db.reads]
      BY <1>2 DEF IsDatabase
    <2>2. work' = [db EXCEPT !.changes = Append(@, change)]
      BY DEF Begin, change
    <2> QED
      BY <2>1, <2>2, Zenon
  <1>4. IsChange(change)
    <2>1. IsPartial(<<>>, 1..count, Step)
      BY DEF IsPartial
    <2> QED
      BY <1>2, <2>1 DEF IsChange
  <1>5. /\ Len(work'.changes) = L + 1
        /\ \A c \in 1..L : work'.changes[c] = db.changes[c]
        /\ work'.changes[L + 1] = change
        /\ IsLog(work'.changes)
    <2> DEFINE s == db.changes
               e == Append(s, change)
    <2>1. s = [i \in 1..Len(s) |-> s[i]] /\ Len(s) \in Nat /\ DOMAIN s = 1..Len(s)
      BY <1>2 DEF IsLog
    <2>2. s \in Seq({s[i] : i \in 1..Len(s)})
      <3> HIDE DEF s
      <3> QED
        BY <2>1
    <2>3. /\ Len(e) = Len(s) + 1 /\ e[Len(s) + 1] = change /\ \A c \in 1..Len(s) : e[c] = s[c]
          /\ DOMAIN e = 1..Len(e) /\ e = [i \in 1..Len(e) |-> e[i]]
      <3> DEFINE T == {s[i] : i \in 1..Len(s)} \cup {change}
      <3> HIDE DEF s, change
      <3>1. s \in Seq(T)
        BY <2>1
      <3> HIDE DEF T
      <3>2. e \in Seq(T) /\ Len(e) = Len(s) + 1 /\ e[Len(s) + 1] = change
            /\ \A c \in 1..Len(s) : e[c] = s[c]
        <4>1. change \in T
          BY DEF T
        <4> QED
          BY <3>1, <4>1
      <3>3. DOMAIN e = 1..Len(e) /\ e = [i \in 1..Len(e) |-> e[i]]
        <4> HIDE DEF e
        <4> QED
          BY <3>2
      <3> QED
        BY <3>2, <3>3
    <2>4. IsLog(e)
      <3>1. \A c \in 1..Len(s) : IsChange(s[c]) /\ s[c].undoes < c
        BY <1>2 DEF IsLog
      <3>2. change.undoes < Len(s) + 1
        BY <1>2
      <3> HIDE DEF s, e, change
      <3>3. \A c \in 1..Len(e) : c \in 1..Len(s) \/ c = Len(s) + 1
        BY <2>1, <2>3
      <3>4. \A c \in 1..Len(e) : IsChange(e[c]) /\ e[c].undoes < c
        BY <1>4, <2>3, <3>1, <3>2, <3>3
      <3> QED
        BY <2>1, <2>3, <3>4 DEF IsLog
    <2>5. work'.changes = e
      BY <1>3
    <2> HIDE DEF e, change
    <2> QED
      BY <2>3, <2>4, <2>5
  <1>6. GoodDb(work') /\ Existing(work') = Existing(db)
    <2>1. work'.changes = Append(db.changes, change) /\ work'.reads = db.reads
      BY <1>3
    <2>2. Len(work'.changes) >= Len(db.changes)
      BY <1>2, <1>5
    <2>3. work'.reads \subseteq ReadFact
      BY <1>2, <2>1 DEF IsDatabase
    <2> HIDE DEF change
    <2> QED
      BY <1>2, <1>3, <1>5, <2>1, <2>2, <2>3, LogKeepsGood
  <1>7. batch' = [by |-> by, count |-> count, undoes |-> undoes,
                  before |-> <<>>, cited |-> {}, steps |-> <<>>]
    BY DEF Begin, EmptyBatch
  <1>a. /\ batch'.by = by /\ batch'.count = count /\ batch'.undoes = undoes
        /\ batch'.before = <<>> /\ batch'.cited = {} /\ batch'.steps = <<>>
    BY <1>7
  <1>8. IsBatch(batch')
    <2>1. IsPartial(<<>>, MemoryId, Nat \X BOOLEAN)
      BY DEF IsPartial
    <2>2. <<>> \in Seq(Step) /\ Len(<<>>) = 0
      OBVIOUS
    <2>3. batch' = [by |-> batch'.by, count |-> batch'.count, undoes |-> batch'.undoes,
                    before |-> batch'.before, cited |-> batch'.cited, steps |-> batch'.steps]
      BY <1>7, <1>a
    <2>4. undoes \in Nat /\ Len(batch'.steps) <= batch'.count
      BY <1>2, <1>a, <2>2
    <2> QED
      BY <1>a, <2>1, <2>2, <2>3, <2>4 DEF IsBatch
  <1>9. WorkExtendsDb'
    <2>1. ASSUME NEW m \in MemoryId
          PROVE  PreBatch(m)' = Committed(m)'
      <3>1. m \notin DOMAIN batch'.before
        BY <1>a
      <3>2. Existing(work') = Existing(db') /\ work'.memories = db'.memories
        BY <1>1, <1>3, <1>6
      <3> QED
        BY <3>1, <3>2 DEF PreBatch, Committed
    <2>2. work'.versions = db'.versions
      BY <1>1, <1>3
    <2>3. /\ work'.changes[L + 1].count = batch'.count
          /\ work'.changes[L + 1].undoes = batch'.undoes
      BY <1>5, <1>7
    <2> QED
      BY <1>1, <1>2, <1>5, <2>1, <2>2, <2>3 DEF WorkExtendsDb, ThisChange
  <1> QED
    BY <1>1, <1>2, <1>6, <1>8, <1>9 DEF Core

LEMMA RollbackKeepsCore ==
    ASSUME Core, Rollback
    PROVE  Core'
  <1>1. /\ locked' = FALSE /\ work' = db /\ db' = db /\ batch' = EmptyBatch
        /\ purged' = purged /\ plan' = plan
    BY DEF Rollback
  <1>2. IsBatch(EmptyBatch)
    <2>1. IsPartial(<<>>, MemoryId, Nat \X BOOLEAN)
      BY DEF IsPartial
    <2>2. <<>> \in Seq(Step) /\ Len(<<>>) = 0
      OBVIOUS
    <2> QED
      BY <2>1, <2>2, BoundAssumption DEF IsBatch, EmptyBatch, Actor
  <1>3. \A m \in MemoryId : PreBatch(m)' = Committed(m)'
    BY <1>1 DEF PreBatch, Committed, EmptyBatch, Existing
  <1>4. WorkExtendsDb'
    BY <1>1, <1>3 DEF WorkExtendsDb
  <1> QED
    BY <1>1, <1>2, <1>4 DEF Core

\* A step that leaves the lock free has only the committed database to answer for.
LEMMA SettledCore ==
    ASSUME locked' = FALSE, work' = db', batch' = EmptyBatch, GoodDb(db'), IsPlan(plan'),
           purged' \subseteq MemoryId, purged' \cap Existing(db') = {}
    PROVE  Core'
  <1>2. IsBatch(EmptyBatch)
    <2>1. IsPartial(<<>>, MemoryId, Nat \X BOOLEAN)
      BY DEF IsPartial
    <2>2. <<>> \in Seq(Step) /\ Len(<<>>) = 0
      OBVIOUS
    <2> QED
      BY <2>1, <2>2, BoundAssumption DEF IsBatch, EmptyBatch, Actor
  <1>3. \A m \in MemoryId : PreBatch(m)' = Committed(m)'
    BY DEF PreBatch, Committed, EmptyBatch, Existing
  <1>4. WorkExtendsDb'
    BY <1>3 DEF WorkExtendsDb
  <1> QED
    BY <1>2, <1>4 DEF Core

LEMMA CommitKeepsCore ==
    ASSUME Core, Commit
    PROVE  Core'
  <1> DEFINE s == work.changes
             L == Len(s)
             new == [s[L] EXCEPT !.steps = batch.steps]
             e == [i \in 1..L |-> IF i = L THEN new ELSE s[i]]
  <1>1. /\ locked /\ locked' = FALSE /\ work' = db' /\ batch' = EmptyBatch
        /\ purged' = purged /\ plan' = plan /\ Len(batch.steps) = batch.count
    BY DEF Commit
  <1>2. GoodDb(work) /\ IsDatabase(work) /\ IsLog(s) /\ L \in Nat \ {0} /\ s[L].count = batch.count
    BY <1>1 DEF Core, GoodDb, WorkExtendsDb, IsDatabase, IsLog, ThisChange
  <1>3. IsChange(new) /\ new.undoes = s[L].undoes
    <2>1. IsChange(s[L])
      BY <1>2 DEF IsLog
    <2>2. IsPartial(batch.steps, 1..batch.count, Step)
      BY <1>1 DEF IsPartial, Core, IsBatch
    <2> DEFINE c == s[L]
    <2>3. c = [by |-> c.by, count |-> c.count, undoes |-> c.undoes, steps |-> c.steps]
      BY <2>1 DEF IsChange
    <2>4. new = [by |-> c.by, count |-> c.count, undoes |-> c.undoes, steps |-> batch.steps]
      <3>1. new = [c EXCEPT !.steps = batch.steps]
        OBVIOUS
      <3> HIDE DEF c, new
      <3> QED
        BY <2>3, <3>1, Zenon
    <2> HIDE DEF new
    <2> QED
      BY <1>2, <2>1, <2>2, <2>4 DEF IsChange
  <1>4. IsLog(e) /\ Len(e) = L
    <2>1. \A c \in 1..L : IsChange(s[c]) /\ s[c].undoes < c
      BY <1>2 DEF IsLog
    <2> HIDE DEF new, s
    <2>2. Len(e) = L /\ DOMAIN e = 1..L
      BY <1>2
    <2>3. \A c \in 1..L : IsChange(e[c]) /\ e[c].undoes < c
      <3> HIDE DEF L
      <3> QED
        BY <1>2, <1>3, <2>1
    <2> QED
      BY <1>2, <2>2, <2>3 DEF IsLog
  <1>5. db' = [memories |-> work.memories, versions |-> work.versions,
               changes |-> e, reads |-> work.reads]
    <2>1. work = [memories |-> work.memories, versions |-> work.versions,
                  changes |-> work.changes, reads |-> work.reads]
      BY <1>2 DEF IsDatabase
    <2>2. db' = [work EXCEPT !.changes = [s EXCEPT ![L] = new]]
      BY DEF Commit, ThisChange
    <2>3. DOMAIN s = 1..L
      BY <1>2 DEF IsLog
    <2>4. [s EXCEPT ![L] = new] = e
      <3> HIDE DEF s, L, new
      <3> QED
        BY <2>3
    <2> HIDE DEF e, s, L, new
    <2> QED
      BY <2>1, <2>2, <2>4, Zenon
  <1>6. GoodDb(db') /\ Existing(db') = Existing(work)
    <2>1. db'.changes = e /\ db'.reads = work.reads
      BY <1>5
    <2>2. Len(db'.changes) >= Len(work.changes) /\ db'.reads \subseteq ReadFact
      BY <1>2, <1>4, <2>1 DEF IsDatabase
    <2> HIDE DEF e, s, L
    <2> QED
      BY <1>2, <1>4, <1>5, <2>1, <2>2, LogKeepsGood
  <1>7. IsPlan(plan') /\ purged' \subseteq MemoryId /\ purged' \cap Existing(db') = {}
    BY <1>1, <1>6 DEF Core
  <1> QED
    BY <1>1, <1>6, <1>7, SettledCore

\* A plan takes only existing memories, and with one every memory that cites it.
LEMMA MembersClosed ==
    ASSUME NEW d, GoodDb(d), NEW target \in Existing(d)
    PROVE  /\ Members(d, target) \subseteq Existing(d) /\ target \in Members(d, target)
           /\ \A s \in Members(d, target), m \in MemoryId :
                 Cites(d, m, s) => m \in Members(d, target)
  <1>1. Existing(d) \subseteq MemoryId
    BY CurrentIsStored
  <1>2. ClosedUnderCited(d, Existing(d))
    BY DEF ClosedUnderCited, Cites, GoodDb, NumberedDb
  <1>3. Members(d, target) \subseteq Existing(d)
    BY <1>1, <1>2 DEF Members
  <1>4. target \in Members(d, target)
    BY <1>1 DEF Members
  <1>5. ASSUME NEW s \in Members(d, target), NEW m \in MemoryId, Cites(d, m, s)
        PROVE  m \in Members(d, target)
    <2>1. ASSUME NEW S \in SUBSET MemoryId, target \in S, ClosedUnderCited(d, S)
          PROVE  m \in S
      <3>1. s \in S
        BY <1>5, <2>1 DEF Members
      <3> QED
        BY <1>5, <2>1, <3>1 DEF ClosedUnderCited
    <2> QED
      BY <2>1 DEF Members
  <1> QED
    BY <1>3, <1>4, <1>5

LEMMA PlanItemsAreKeys ==
    ASSUME NEW d, GoodDb(d), NEW target \in Existing(d)
    PROVE  PlanItems(d, target) \subseteq Key
  <1> SUFFICES ASSUME NEW m \in Members(d, target) PROVE Current(d, m) \in Key
    BY DEF PlanItems
  <1>1. m \in Existing(d)
    BY MembersClosed
  <1> QED
    BY <1>1, CurrentIsStored DEF GoodDb, IsDatabase, IsPartial

LEMMA PlansKeepCore ==
    ASSUME Core, PlanHardDelete \/ ReadCue
    PROVE  Core'
  <1>1. UNCHANGED <<db, work, locked, batch, purged>>
    BY DEF PlanHardDelete, ReadCue
  <1>2. IsPlan(plan')
    <2>1. CASE PlanHardDelete
      <3>1. PICK m \in Existing(db) :
               plan' = [target |-> {m}, items |-> PlanItems(db, m), cues |-> <<>>]
        BY <2>1 DEF PlanHardDelete
      <3>2. m \in MemoryId /\ PlanItems(db, m) \subseteq Key
        BY CurrentIsStored, PlanItemsAreKeys DEF Core
      <3> QED
        BY <3>1, <3>2 DEF IsPlan
    <2>2. CASE ReadCue
      <3>1. PICK i, x : plan' = [plan EXCEPT !.cues = Put(@, i, x)]
        BY <2>2 DEF ReadCue
      <3>2. plan = [target |-> plan.target, items |-> plan.items, cues |-> plan.cues]
        BY DEF Core, IsPlan
      <3>3. plan' = [target |-> plan.target, items |-> plan.items, cues |-> Put(plan.cues, i, x)]
        BY <3>1, <3>2, Zenon
      <3> QED
        BY <3>3 DEF Core, IsPlan
    <2> QED
      BY <2>1, <2>2
  <1>3. WorkExtendsDb'
    <2>1. \A m \in MemoryId : PreBatch(m)' = Committed(m)'
      BY <1>1 DEF PreBatch, Committed, Core, WorkExtendsDb
    <2> QED
      BY <1>1, <2>1 DEF Core, WorkExtendsDb, ThisChange
  <1> QED
    BY <1>1, <1>2, <1>3 DEF Core

\* Hard-deleting a set that whoever cites it belongs to leaves a good database.
LEMMA WithoutKeepsGood ==
    ASSUME NEW d, GoodDb(d), NEW gone \in SUBSET Existing(d),
           \A s \in gone, m \in MemoryId : Cites(d, m, s) => m \in gone
    PROVE  /\ GoodDb(Without(d, gone))
           /\ Existing(Without(d, gone)) = Existing(d) \ gone
  <1> DEFINE e == Without(d, gone)
             rows == Only(d.memories, MemoryId \ gone)
             kept == Only(d.versions, {k \in DOMAIN d.versions : k[1] \notin gone})
             log == [c \in DOMAIN d.changes |-> WithoutSteps(d.changes[c], gone)]
             facts == {r \in d.reads : r.memory \notin gone}
  <1>0. /\ d = [memories |-> d.memories, versions |-> d.versions,
                changes |-> d.changes, reads |-> d.reads]
        /\ IsPartial(d.memories, MemoryId, Memory) /\ IsPartial(d.versions, Key, Version)
        /\ IsLog(d.changes) /\ d.reads \subseteq ReadFact
    BY DEF GoodDb, IsDatabase
  <1>1. e = [memories |-> rows, versions |-> kept, changes |-> log, reads |-> facts]
    <2>1. e = [d EXCEPT !.memories = rows, !.versions = kept, !.changes = log, !.reads = facts]
      BY DEF Without
    <2> HIDE DEF e, rows, kept, log, facts
    <2> QED
      BY <1>0, <2>1, Zenon
  <1>2. /\ DOMAIN rows = Existing(d) \ gone /\ \A m \in DOMAIN rows : rows[m] = d.memories[m]
        /\ \A k : k \in DOMAIN kept <=> k \in DOMAIN d.versions /\ k[1] \notin gone
        /\ \A k \in DOMAIN kept : kept[k] = d.versions[k]
    BY <1>0 DEF Only, Existing, IsPartial
  <1>3. IsPartial(rows, MemoryId, Memory) /\ IsPartial(kept, Key, Version) /\ facts \subseteq ReadFact
    BY <1>0, OnlyPartial
  <1>4. IsLog(log) /\ Len(log) = Len(d.changes)
    <2>1. Len(d.changes) \in Nat /\ DOMAIN d.changes = 1..Len(d.changes)
      BY <1>0 DEF IsLog
    <2>2. DOMAIN log = 1..Len(d.changes) /\ Len(log) = Len(d.changes)
      BY <2>1
    <2>3. ASSUME NEW c \in 1..Len(d.changes)
          PROVE  IsChange(log[c]) /\ log[c].undoes < c
      <3> DEFINE x == d.changes[c]
                 left == Only(x.steps, {i \in DOMAIN x.steps : x.steps[i].memory \notin gone})
      <3>1. IsChange(x) /\ x.undoes < c
        BY <1>0 DEF IsLog
      <3>2. x = [by |-> x.by, count |-> x.count, undoes |-> x.undoes, steps |-> x.steps]
        BY <3>1 DEF IsChange
      <3>3. log[c] = [x EXCEPT !.steps = left]
        BY <2>1 DEF WithoutSteps
      <3>4. IsPartial(left, 1..x.count, Step)
        BY <3>1, OnlyPartial DEF IsChange
      <3>5. log[c] = [by |-> x.by, count |-> x.count, undoes |-> x.undoes, steps |-> left]
        <4> HIDE DEF log, x, left
        <4> QED
          BY <3>2, <3>3, Zenon
      <3> HIDE DEF log, x, left
      <3> QED
        BY <3>1, <3>4, <3>5 DEF IsChange
    <2> QED
      BY <2>1, <2>2, <2>3 DEF IsLog
  <1> HIDE DEF rows, kept, log, facts, e
  <1>5. e.memories = rows /\ e.versions = kept /\ e.changes = log /\ e.reads = facts
    BY <1>1
  <1>6. Existing(e) = Existing(d) \ gone
    BY <1>2, <1>5 DEF Existing
  <1>7. IsDatabase(e)
    <2>1. e = [memories |-> e.memories, versions |-> e.versions,
               changes |-> e.changes, reads |-> e.reads]
      BY <1>1, <1>5, Zenon
    <2> QED
      BY <1>3, <1>4, <1>5, <2>1 DEF IsDatabase
  <1>8. NumberedDb(e)
    BY <1>2, <1>5, <1>6 DEF GoodDb, NumberedDb, Existing
  <1>9. LatestDb(e)
    <2> SUFFICES ASSUME NEW m \in Existing(e)
                 PROVE  e.versions[Current(e, m)].state.content = e.memories[m].content
      BY DEF LatestDb
    <2>1. m \in Existing(d) /\ m \notin gone /\ e.memories[m] = d.memories[m]
      BY <1>2, <1>5, <1>6 DEF Existing
    <2>2. Current(e, m) = Current(d, m) /\ Current(d, m)[1] = m
      BY <2>1 DEF Current
    <2>3. e.versions[Current(e, m)] = d.versions[Current(d, m)]
      BY <1>2, <1>5, <2>1, <2>2, CurrentIsStored
    <2> QED
      BY <2>1, <2>3 DEF GoodDb, LatestDb
  <1>10. CitesStoredDb(e)
    <2> SUFFICES ASSUME NEW k \in DOMAIN e.versions, NEW r \in Sources(e, k)
                 PROVE  r \in DOMAIN e.versions
      BY DEF CitesStoredDb
    <2>1. k \in DOMAIN d.versions /\ k[1] \notin gone /\ r \in Sources(d, k)
      BY <1>2, <1>5 DEF Sources
    <2>2. r \in DOMAIN d.versions
      BY <2>1 DEF GoodDb, CitesStoredDb
    <2>3. k[1] \in MemoryId
      BY <1>0, <2>1 DEF IsPartial, Key
    <2>4. Cites(d, k[1], r[1])
      BY <2>1 DEF Cites
    <2>5. r[1] \notin gone
      BY <2>1, <2>3, <2>4
    <2> QED
      BY <1>2, <1>5, <2>2, <2>5
  <1>11. TrustDb(e) /\ CitesOlderDb(e)
    <2> SUFFICES ASSUME NEW k \in DOMAIN e.versions, NEW r \in Sources(e, k)
                 PROVE  /\ NoMoreTrusted(e.versions[k].state.content, e.versions[r].state.content)
                        /\ e.versions[r].change < e.versions[k].change
      BY DEF TrustDb, CitesOlderDb
    <2>1. k \in DOMAIN d.versions /\ r \in Sources(d, k) /\ r \in DOMAIN e.versions
      BY <1>2, <1>5, <1>10 DEF Sources, CitesStoredDb
    <2>2. e.versions[k] = d.versions[k] /\ e.versions[r] = d.versions[r]
      BY <1>2, <1>5, <2>1
    <2> QED
      BY <2>1, <2>2 DEF GoodDb, TrustDb, CitesOlderDb
  <1>12. DatedDb(e)
    BY <1>2, <1>4, <1>5 DEF GoodDb, DatedDb
  <1>13. GoodDb(e)
    BY <1>7, <1>8, <1>9, <1>10, <1>11, <1>12 DEF GoodDb
  <1> QED
    BY <1>6, <1>13 DEF e

LEMMA HardDeleteKeepsCore ==
    ASSUME Core, HardDelete
    PROVE  Core'
  <1>1. ~locked /\ locked' = FALSE /\ work' = db' /\ batch' = EmptyBatch /\ plan' = NoPlan
    BY FreeLockCommitted DEF HardDelete, Core
  <1>2. PICK target \in Existing(db) :
           /\ db' = Without(db, Members(db, target))
           /\ purged' = purged \cup Members(db, target)
    BY DEF HardDelete
  <1>3. GoodDb(db)
    BY DEF Core
  <1>4. Members(db, target) \subseteq Existing(db) /\ Existing(db) \subseteq MemoryId
    BY <1>3, MembersClosed, CurrentIsStored
  <1>5. GoodDb(db') /\ Existing(db') = Existing(db) \ Members(db, target)
    <2>1. \A s \in Members(db, target), m \in MemoryId :
             Cites(db, m, s) => m \in Members(db, target)
      BY <1>3, MembersClosed
    <2> QED
      BY <1>2, <1>3, <1>4, <2>1, WithoutKeepsGood
  <1>6. purged' \subseteq MemoryId /\ purged' \cap Existing(db') = {}
    BY <1>2, <1>4, <1>5 DEF Core
  <1>7. IsPlan(plan')
    BY <1>1 DEF IsPlan, NoPlan
  <1> QED
    BY <1>1, <1>5, <1>6, <1>7, SettledCore

LEMMA TouchReadKeepsCore ==
    ASSUME Core, TouchRead
    PROVE  Core'
  <1>1. /\ ~locked /\ locked' = FALSE /\ work' = db' /\ batch' = EmptyBatch
        /\ plan' = plan /\ purged' = purged
    BY FreeLockCommitted DEF TouchRead, Core
  <1>2a. PICK m \in Existing(db), at \in 1..MaxTime :
            \E version \in 1..db.memories[m].version, recorded \in BOOLEAN :
               db' = [db EXCEPT
                         !.memories[m].last_read_at = Latest(@, at),
                         !.reads = @ \cup (IF recorded
                             THEN {[memory |-> m, version |-> version, at |-> at]} ELSE {})]
    BY DEF TouchRead
  <1>2. PICK version \in 1..db.memories[m].version, recorded \in BOOLEAN :
           db' = [db EXCEPT
                     !.memories[m].last_read_at = Latest(@, at),
                     !.reads = @ \cup (IF recorded
                         THEN {[memory |-> m, version |-> version, at |-> at]} ELSE {})]
    BY <1>2a
  <1> DEFINE old == db.memories[m]
             row == [old EXCEPT !.last_read_at = Latest(@, at)]
             rows == [db.memories EXCEPT ![m] = row]
             facts == db.reads \cup (IF recorded
                         THEN {[memory |-> m, version |-> version, at |-> at]} ELSE {})
  <1>3. GoodDb(db) /\ IsDatabase(db) /\ m \in MemoryId /\ old \in Memory
    BY CurrentIsStored DEF Core, GoodDb
  <1>4. db' = [memories |-> rows, versions |-> db.versions, changes |-> db.changes, reads |-> facts]
    <2>1. db = [memories |-> db.memories, versions |-> db.versions,
                changes |-> db.changes, reads |-> db.reads]
      BY <1>3 DEF IsDatabase
    <2>2. db' = [db EXCEPT !.memories = rows, !.reads = facts]
      BY <1>2
    <2> HIDE DEF rows, facts
    <2> QED
      BY <2>1, <2>2, Zenon
  <1>5. row \in Memory /\ row.version = old.version /\ row.content = old.content
    <2>1. Latest(old.last_read_at, at) \in 0..MaxTime
      BY <1>3, BoundAssumption DEF Latest, Memory
    <2>2. row = [old EXCEPT !.last_read_at = Latest(old.last_read_at, at)]
      OBVIOUS
    <2> HIDE DEF old, row
    <2> QED
      BY <1>3, <2>1, <2>2 DEF Memory
  <1>6. /\ DOMAIN rows = Existing(db) /\ IsPartial(rows, MemoryId, Memory)
        /\ \A i \in Existing(db) : rows[i].version = db.memories[i].version
                                  /\ rows[i].content = db.memories[i].content
    <2>1. DOMAIN rows = Existing(db)
      BY DEF Existing
    <2>2. rows[m] = row /\ \A i \in Existing(db) : i # m => rows[i] = db.memories[i]
      BY <1>3 DEF IsDatabase, IsPartial, Existing
    <2>3. \A i \in Existing(db) : rows[i] \in Memory
      <3> HIDE DEF row, rows
      <3> QED
        BY <1>3, <1>5, <2>2, CurrentIsStored
    <2>4. rows \in [Existing(db) -> Memory]
      BY <2>1, <2>3
    <2> HIDE DEF row, rows
    <2> QED
      BY <1>3, <1>5, <2>1, <2>2, <2>4 DEF IsPartial, IsDatabase, Existing
  <1>7. facts \subseteq ReadFact
    <2>1. version \in Nat
      BY <1>3 DEF Memory
    <2> QED
      BY <1>3, <2>1 DEF ReadFact, IsDatabase
  <1> HIDE DEF rows, facts, row
  <1>8. db'.memories = rows /\ db'.versions = db.versions /\ db'.changes = db.changes
        /\ db'.reads = facts
    BY <1>4
  <1>9. IsDatabase(db')
    <2>1. db' = [memories |-> db'.memories, versions |-> db'.versions,
                 changes |-> db'.changes, reads |-> db'.reads]
      BY <1>4, <1>8, Zenon
    <2> QED
      BY <1>3, <1>6, <1>7, <1>8, <2>1 DEF IsDatabase
  <1>10. Existing(db') = Existing(db) /\ \A i \in Existing(db) : Current(db', i) = Current(db, i)
    BY <1>6, <1>8 DEF Existing, Current
  <1>11. NumberedDb(db') /\ LatestDb(db')
    BY <1>3, <1>6, <1>8, <1>10 DEF GoodDb, NumberedDb, LatestDb
  <1>12. CitesStoredDb(db') /\ TrustDb(db') /\ DatedDb(db') /\ CitesOlderDb(db')
    BY <1>3, <1>8 DEF GoodDb, CitesStoredDb, TrustDb, DatedDb, CitesOlderDb, Sources
  <1>13. GoodDb(db')
    BY <1>9, <1>11, <1>12 DEF GoodDb
  <1> QED
    BY <1>1, <1>10, <1>13, SettledCore DEF Core

LEMMA PruneReadsKeepsCore ==
    ASSUME Core, PruneReads
    PROVE  Core'
  <1>1. /\ ~locked /\ locked' = FALSE /\ work' = db' /\ batch' = EmptyBatch
        /\ plan' = plan /\ purged' = purged
    BY FreeLockCommitted DEF PruneReads, Core
  <1>2. PICK cutoff : db' = [db EXCEPT !.reads = {r \in @ : r.at >= cutoff}]
    BY DEF PruneReads
  <1>3. IsDatabase(db) /\ GoodDb(db)
    BY DEF Core, GoodDb
  <1> DEFINE facts == {r \in db.reads : r.at >= cutoff}
  <1>4. db' = [memories |-> db.memories, versions |-> db.versions,
               changes |-> db.changes, reads |-> facts]
    <2>1. db = [memories |-> db.memories, versions |-> db.versions,
                changes |-> db.changes, reads |-> db.reads]
      BY <1>3 DEF IsDatabase
    <2>2. db' = [db EXCEPT !.reads = facts]
      BY <1>2
    <2> HIDE DEF facts
    <2> QED
      BY <2>1, <2>2, Zenon
  <1>5. facts \subseteq ReadFact
    BY <1>3 DEF IsDatabase
  <1> HIDE DEF facts
  <1>6. db'.changes = db.changes /\ db'.reads = facts
    BY <1>4
  <1>7. IsLog(db'.changes) /\ Len(db'.changes) >= Len(db.changes)
    BY <1>3, <1>6 DEF IsDatabase, IsLog
  <1>8. GoodDb(db') /\ Existing(db') = Existing(db)
    BY <1>3, <1>4, <1>5, <1>6, <1>7, LogKeepsGood
  <1> QED
    BY <1>1, <1>8, SettledCore DEF Core

------------------------------------------------------------------------------
(* Acyclicity *)

\* What makes acyclicity inductive: _refuse_cycles looks at the versions this
\* change wrote, once, before the commit, and the graph was acyclic without them.
Walked ==
    /\ AcyclicDb(db)
    /\ batch.cited \subseteq DOMAIN work.versions
    /\ (\A k \in batch.cited : ~LeadsBack(work, k)) => AcyclicDb(work)

\* Fewer citations cannot make a cycle.
LEMMA FewerCitesAcyclic ==
    ASSUME NEW d, NEW e, AcyclicDb(d),
           \A m \in MemoryId, s \in MemoryId : Cites(e, m, s) => Cites(d, m, s)
    PROVE  AcyclicDb(e)
  BY DEF AcyclicDb

\* The walk from a version the change wrote before is the shorter, the fewer
\* versions there are.
LEMMA FewerCitesLeadBack ==
    ASSUME NEW d, NEW e, NEW k, Sources(d, k) = Sources(e, k), LeadsBack(d, k),
           \A m \in MemoryId, s \in MemoryId : Cites(d, m, s) => Cites(e, m, s)
    PROVE  LeadsBack(e, k)
  BY DEF LeadsBack, ClosedUnderCiting

\* The one new version is where any new cycle would have to pass.
LEMMA NewVersionClosesNoCycle ==
    ASSUME NEW d, NEW e, NEW k \in Key, AcyclicDb(d),
           Sources(e, k) \subseteq Key, ~LeadsBack(e, k),
           \A m \in MemoryId, s \in MemoryId :
              Cites(e, m, s) => Cites(d, m, s) \/ (m = k[1] /\ \E r \in Sources(e, k) : r[1] = s)
    PROVE  AcyclicDb(e)
  <1>1. PICK T \in SUBSET MemoryId :
           /\ \A m \in T, s \in MemoryId : Cites(e, m, s) => s \in T
           /\ \A r \in Sources(e, k) : r[1] \in T
           /\ k[1] \notin T
    BY DEF LeadsBack, ClosedUnderCiting
  <1> SUFFICES ASSUME NEW S \in SUBSET MemoryId, \A m \in S : \E s \in S : Cites(e, m, s), S # {}
               PROVE  FALSE
    BY Zenon DEF AcyclicDb
  <1>2. CASE S \cap T # {}
    <2>1. ASSUME NEW m \in S \cap T
          PROVE  \E s \in S \cap T : Cites(d, m, s)
      <3>1. PICK s \in S : Cites(e, m, s)
        BY <2>1
      <3>2. s \in T /\ m # k[1]
        BY <1>1, <2>1, <3>1
      <3> QED
        BY <3>1, <3>2
    <2> QED
      BY <1>2, <2>1 DEF AcyclicDb
  <1>3. CASE S \cap T = {}
    <2>1. ASSUME NEW m \in S
          PROVE  \E s \in S : Cites(d, m, s)
      <3>1. PICK s \in S : Cites(e, m, s)
        BY <2>1
      <3>2. s \notin T
        BY <1>3
      <3> QED
        BY <1>1, <3>1, <3>2
    <2> QED
      BY <2>1 DEF AcyclicDb
  <1> QED
    BY <1>2, <1>3

LEMMA ApplyKeepsWalked ==
    ASSUME Core, Walked, Apply
    PROVE  Walked'
  <1>1. locked /\ GoodDb(work)
    BY ApplyWrites DEF Core
  <1>2. PICK op, m, row, n, state, pre :
           Fits(op, m, row, n, state, pre) /\ WriteRow(op, m, row, n, state, pre)
    BY ApplyWrites
  <1>3. Wrote(m, row, n, state)
    BY <1>1, <1>2, WriteRowEffect, Zenon
  <1> DEFINE k == <<m, n>>
  <1>4. /\ k \in Key /\ k \notin DOMAIN work.versions /\ k[1] = m
        /\ DOMAIN work'.versions = DOMAIN work.versions \cup {k}
        /\ Sources(work', k) = state.sources
        /\ \A j \in DOMAIN work.versions : Sources(work', j) = Sources(work, j)
    BY <1>3 DEF Wrote, Sources
  <1>5. state.sources \subseteq DOMAIN work.versions /\ state.sources \subseteq Key
    BY <1>2 DEF Fits, FitState, State
  <1>6. db' = db /\ batch'.cited = batch.cited \cup (IF state.sources = {} THEN {} ELSE {k})
    <2>1. DOMAIN batch = {"by", "count", "undoes", "before", "cited", "steps"}
      BY DEF Core, IsBatch
    <2> QED
      BY <1>2, <2>1 DEF WriteRow
  <1> HIDE DEF k
  <1>7. \A a \in MemoryId, s \in MemoryId : Cites(work, a, s) => Cites(work', a, s)
    BY <1>4 DEF Cites
  <1>8. \A a \in MemoryId, s \in MemoryId :
           Cites(work', a, s) => Cites(work, a, s) \/ (a = k[1] /\ \E r \in Sources(work', k) : r[1] = s)
    BY <1>4 DEF Cites
  <1>9. batch'.cited \subseteq DOMAIN work'.versions
    BY <1>4, <1>6 DEF Walked
  <1>10. ASSUME \A j \in batch'.cited : ~LeadsBack(work', j)
         PROVE  AcyclicDb(work')
    <2>1. ASSUME NEW j \in batch.cited
          PROVE  ~LeadsBack(work, j)
      <3>1. Sources(work', j) = Sources(work, j) /\ ~LeadsBack(work', j)
        BY <1>4, <1>6, <1>10, <2>1 DEF Walked
      <3> QED
        BY <1>7, <3>1, FewerCitesLeadBack
    <2>2. AcyclicDb(work)
      BY <2>1 DEF Walked
    <2>3. CASE state.sources = {}
      <3>1. \A a \in MemoryId, s \in MemoryId : Cites(work', a, s) => Cites(work, a, s)
        BY <1>4, <1>8, <2>3
      <3> QED
        BY <2>2, <3>1, FewerCitesAcyclic
    <2>4. CASE state.sources # {}
      <3>1. ~LeadsBack(work', k)
        BY <1>6, <1>10, <2>4
      <3>2. Sources(work', k) \subseteq Key
        BY <1>4, <1>5
      <3> QED
        BY <1>4, <1>8, <2>2, <3>1, <3>2, NewVersionClosesNoCycle
    <2> QED
      BY <2>3, <2>4
  <1> QED
    BY <1>6, <1>9, <1>10 DEF Walked

LEMMA NextKeepsWalked ==
    ASSUME Core, Core', Walked, [Next]_vars
    PROVE  Walked'
  <1>1. \A d, e : d.versions = e.versions => \A m, s : Cites(d, m, s) <=> Cites(e, m, s)
    BY DEF Cites, Sources
  <1>2. ASSUME ~locked \/ locked', db'.versions = db.versions,
               work'.versions = work.versions \/ ~locked, work'.versions = db'.versions,
               batch'.cited = {}
        PROVE  Walked'
    <2>1. AcyclicDb(db') /\ AcyclicDb(work')
      BY <1>1, <1>2, FewerCitesAcyclic DEF Walked
    <2> QED
      BY <1>2, <2>1 DEF Walked
  <1>3. ASSUME work' = db', batch'.cited = {}, AcyclicDb(db')
        PROVE  Walked'
    BY <1>3 DEF Walked
  <1>4. EmptyBatch.cited = {}
    BY DEF EmptyBatch
  <1>5. CASE BeginApply \/ BeginWrite \/ BeginUndo
    <2>1. PICK by, count, undoes : Begin(by, count, undoes)
      BY <1>5 DEF BeginApply, BeginWrite, BeginUndo
    <2>2. /\ locked' /\ ~locked /\ db' = db
          /\ batch' = [EmptyBatch EXCEPT !.by = by, !.count = count, !.undoes = undoes]
      BY <2>1 DEF Begin
    <2>3. batch'.cited = {}
      BY <2>2 DEF EmptyBatch
    <2>4. work'.versions = db.versions
      <3>1. PICK c : work' = [db EXCEPT !.changes = Append(@, c)]
        BY <2>1 DEF Begin
      <3> QED
        BY <3>1 DEF Core, GoodDb, IsDatabase
    <2> QED
      BY <1>2, <2>2, <2>3, <2>4
  <1>6. CASE Commit
    <2>1. work' = db' /\ batch' = EmptyBatch /\ \A k \in batch.cited : ~LeadsBack(work, k)
      BY <1>6 DEF Commit
    <2>2. db'.versions = work.versions
      <3>1. PICK x : db' = [work EXCEPT !.changes[ThisChange].steps = x]
        BY <1>6 DEF Commit
      <3> QED
        BY <3>1 DEF Core, GoodDb, IsDatabase
    <2>3. AcyclicDb(db')
      BY <1>1, <2>1, <2>2, FewerCitesAcyclic DEF Walked
    <2> QED
      BY <1>3, <1>4, <2>1, <2>3
  <1>7. CASE Rollback
    BY <1>3, <1>4, <1>7 DEF Rollback, Walked
  <1>8. CASE HardDelete
    <2>1. PICK gone : db' = Without(db, gone)
      BY <1>8 DEF HardDelete
    <2>2. db'.versions = Only(db.versions, {k \in DOMAIN db.versions : k[1] \notin gone})
      BY <2>1 DEF Without, Core, GoodDb, IsDatabase
    <2>3. \A m, s : Cites(db', m, s) => Cites(db, m, s)
      BY <2>2 DEF Cites, Sources, Only
    <2>4. AcyclicDb(db')
      BY <2>3, FewerCitesAcyclic DEF Walked
    <2>5. work' = db' /\ batch' = EmptyBatch
      BY <1>8, FreeLockCommitted DEF HardDelete
    <2> QED
      BY <1>3, <1>4, <2>4, <2>5
  <1>9. CASE TouchRead \/ PruneReads
    <2>1. work' = db' /\ batch' = EmptyBatch
      BY <1>9, FreeLockCommitted DEF TouchRead, PruneReads
    <2>2. db'.versions = db.versions
      BY <1>9 DEF TouchRead, PruneReads, Core, GoodDb, IsDatabase
    <2>3. AcyclicDb(db')
      BY <1>1, <2>2, FewerCitesAcyclic DEF Walked
    <2> QED
      BY <1>3, <1>4, <2>1, <2>3
  <1>10. CASE PlanHardDelete \/ ReadCue \/ UNCHANGED vars
    BY <1>10 DEF PlanHardDelete, ReadCue, vars, Walked
  <1> QED
    BY <1>5, <1>6, <1>7, <1>8, <1>9, <1>10, ApplyKeepsWalked DEF Next

------------------------------------------------------------------------------
(* What a step does to the committed rows *)

\* `e` has what `d` has, or some versions and changes more.
Extended(d, e) ==
    /\ \A k \in DOMAIN d.versions : k \in DOMAIN e.versions /\ e.versions[k] = d.versions[k]
    /\ Len(e.changes) >= Len(d.changes) /\ \A c \in 1..Len(d.changes) : e.changes[c] = d.changes[c]

\* Only reads and read marks are different.
RowsKept ==
    /\ Existing(db') = Existing(db)
    /\ \A m \in Existing(db) : /\ db'.memories[m].version = db.memories[m].version
                               /\ db'.memories[m].content = db.memories[m].content
    /\ db'.versions = db.versions /\ db'.changes = db.changes

LEMMA CommitRows ==
    ASSUME Core, Commit
    PROVE  /\ db'.memories = work.memories /\ db'.versions = work.versions
           /\ Existing(db') = Existing(work)
           /\ Len(db'.changes) = Len(db.changes) + 1 /\ Len(db.changes) \in Nat
           /\ \A c \in 1..Len(db.changes) : db'.changes[c] = db.changes[c]
           /\ db'.changes[Len(db.changes) + 1].steps = batch.steps
           /\ db'.changes[Len(db.changes) + 1].undoes = batch.undoes
           /\ Extended(db, db')
  <1> PICK n : n = Len(db.changes)
    OBVIOUS
  <1>1. /\ n = Len(db.changes) /\ n \in Nat /\ IsDatabase(work) /\ IsLog(work.changes)
        /\ Len(work.changes) = n + 1
        /\ ThisChange = n + 1 /\ work.changes[n + 1].undoes = batch.undoes
        /\ \A c \in 1..n : work.changes[c] = db.changes[c]
    BY DEF Core, WorkExtendsDb, Commit, ThisChange, GoodDb, IsDatabase, IsLog
  <1>2. DOMAIN work = {"memories", "versions", "changes", "reads"}
    BY <1>1 DEF IsDatabase
  <1>3. PICK changes : /\ changes = [work.changes EXCEPT ![n + 1].steps = batch.steps]
                       /\ db' = [work EXCEPT !.changes = changes]
    BY <1>1, <1>2 DEF Commit
  <1>4. /\ db'.memories = work.memories /\ db'.versions = work.versions /\ db'.changes = changes
    BY <1>2, <1>3
  <1>5. DOMAIN work.changes = 1..(n + 1) /\ n + 1 \in 1..(n + 1)
    BY <1>1 DEF IsLog
  <1>6. DOMAIN changes = 1..(n + 1) /\ \A c \in 1..n : changes[c] = work.changes[c]
    BY <1>1, <1>3, <1>5
  <1>7. changes[n + 1] = [work.changes[n + 1] EXCEPT !.steps = batch.steps]
    BY <1>3, <1>5
  <1>8. DOMAIN work.changes[n + 1] = {"by", "count", "undoes", "steps"}
    <2>1. IsChange(work.changes[n + 1])
      BY <1>1, <1>5 DEF IsLog
    <2> PICK change : change = work.changes[n + 1]
      OBVIOUS
    <2>2. change = [by |-> change.by, count |-> change.count, undoes |-> change.undoes,
                    steps |-> change.steps]
      BY <2>1 DEF IsChange
    <2>3. DOMAIN change = {"by", "count", "undoes", "steps"}
      BY <2>2
    <2> QED
      BY <2>3
  <1>9. changes[n + 1].steps = batch.steps /\ changes[n + 1].undoes = batch.undoes
    BY <1>1, <1>7, <1>8
  <1>10. GoodDb(db')
    BY CommitKeepsCore DEF Core
  <1>11. Len(changes) = n + 1
    <2>1. Len(changes) \in Nat /\ DOMAIN changes = 1..Len(changes)
      BY <1>4, <1>10 DEF GoodDb, IsDatabase, IsLog
    <2> QED
      BY <1>1, <1>6, <2>1
  <1>12. Extended(db, db')
    BY <1>1, <1>4, <1>6, <1>11 DEF Extended, Core, WorkExtendsDb
  <1> QED
    BY <1>1, <1>4, <1>6, <1>9, <1>11, <1>12 DEF Existing

\* A memory is gone with all its versions and with its steps, and nothing else is.
LEMMA HardDeleteRows ==
    ASSUME Core, HardDelete
    PROVE  \E target \in plan.target \cap Existing(db) :
              \E gone : /\ gone = Members(db, target) /\ gone \subseteq Existing(db)
                        /\ plan.items = {Current(db, m) : m \in gone}
                        /\ purged' = purged \cup gone
                        /\ Existing(db') = Existing(db) \ gone
                        /\ \A m \in Existing(db') : db'.memories[m] = db.memories[m]
                        /\ \A k \in DOMAIN db.versions : k[1] \notin gone =>
                              k \in DOMAIN db'.versions /\ db'.versions[k] = db.versions[k]
                        /\ Len(db'.changes) = Len(db.changes)
                        /\ \A c \in 1..Len(db.changes) :
                              db'.changes[c] = WithoutSteps(db.changes[c], gone)
  <1>1. PICK target \in plan.target \cap Existing(db) :
           /\ PlanItems(db, target) = plan.items
           /\ db' = Without(db, Members(db, target))
           /\ purged' = purged \cup Members(db, target)
    BY DEF HardDelete
  <1> PICK gone : gone = Members(db, target)
    OBVIOUS
  <1>2. gone = Members(db, target) /\ gone \subseteq Existing(db) /\ Existing(db) \subseteq MemoryId
    BY MembersClosed, CurrentIsStored DEF Core
  <1>3. plan.items = {Current(db, m) : m \in gone}
    BY <1>1, <1>2 DEF PlanItems
  <1>4. DOMAIN db = {"memories", "versions", "changes", "reads"} /\ IsLog(db.changes)
    BY DEF Core, GoodDb, IsDatabase
  <1>5. /\ db'.memories = Only(db.memories, MemoryId \ gone)
        /\ db'.versions = Only(db.versions, {k \in DOMAIN db.versions : k[1] \notin gone})
        /\ db'.changes = [c \in DOMAIN db.changes |-> WithoutSteps(db.changes[c], gone)]
    BY <1>1, <1>2, <1>4 DEF Without
  <1>6. /\ Existing(db') = Existing(db) \ gone
        /\ \A m \in Existing(db') : db'.memories[m] = db.memories[m]
        /\ \A k \in DOMAIN db.versions : k[1] \notin gone =>
              k \in DOMAIN db'.versions /\ db'.versions[k] = db.versions[k]
    BY <1>2, <1>5 DEF Only, Existing
  <1>7. /\ DOMAIN db.changes = 1..Len(db.changes) /\ Len(db.changes) \in Nat
        /\ \A c \in 1..Len(db.changes) : db'.changes[c] = WithoutSteps(db.changes[c], gone)
    BY <1>4, <1>5 DEF IsLog
  <1>8. Len(db'.changes) = Len(db.changes)
    <2>1. Len(db'.changes) \in Nat /\ DOMAIN db'.changes = 1..Len(db'.changes)
      BY HardDeleteKeepsCore DEF Core, GoodDb, IsDatabase, IsLog
    <2> QED
      BY <1>5, <1>7, <2>1
  <1> QED
    BY <1>1, <1>2, <1>3, <1>6, <1>7, <1>8

LEMMA OtherRows ==
    ASSUME Core, [Next]_vars, ~Commit, ~HardDelete
    PROVE  RowsKept /\ purged' = purged
  <1>1. DOMAIN db = {"memories", "versions", "changes", "reads"}
    BY DEF Core, GoodDb, IsDatabase
  <1>2. CASE db' = db /\ purged' = purged
    BY <1>2 DEF RowsKept
  <1>3. CASE TouchRead
    <2>1. PICK m \in Existing(db) :
             \E mark, facts : db' = [db EXCEPT !.memories[m].last_read_at = mark, !.reads = facts]
      BY <1>3 DEF TouchRead
    <2> PICK mark, facts : db' = [db EXCEPT !.memories[m].last_read_at = mark, !.reads = facts]
      BY <2>1
    <2>2. PICK rows : /\ rows = [db.memories EXCEPT ![m].last_read_at = mark]
                      /\ db' = [db EXCEPT !.memories = rows, !.reads = facts]
      BY <1>1
    <2>3. db'.memories = rows /\ db'.versions = db.versions /\ db'.changes = db.changes
      BY <1>1, <2>2
    <2>4. \A i \in Existing(db) : DOMAIN db.memories[i] = {"project", "version", "content", "last_read_at"}
      BY CurrentIsStored DEF Core, Memory
    <2>5. /\ DOMAIN rows = Existing(db)
          /\ \A i \in Existing(db) : /\ rows[i].version = db.memories[i].version
                                     /\ rows[i].content = db.memories[i].content
      BY <2>2, <2>4 DEF Existing
    <2> QED
      BY <1>3, <2>3, <2>5 DEF RowsKept, TouchRead, Existing
  <1>4. CASE PruneReads
    <2>1. PICK facts : db' = [db EXCEPT !.reads = facts]
      BY <1>4 DEF PruneReads
    <2> QED
      BY <1>1, <1>4, <2>1 DEF RowsKept, PruneReads, Existing
  <1>5. CASE Apply
    BY <1>2, <1>5, ApplyWrites DEF WriteRow
  <1>6. CASE \/ BeginApply \/ BeginWrite \/ BeginUndo \/ Rollback \/ PlanHardDelete \/ ReadCue
             \/ UNCHANGED vars
    BY <1>2, <1>6 DEF BeginApply, BeginWrite, BeginUndo, Begin, Rollback, PlanHardDelete, ReadCue, vars
  <1> QED
    BY <1>3, <1>4, <1>5, <1>6 DEF Next

------------------------------------------------------------------------------
(* What a confirmed hard delete takes *)

\* What makes a shown plan good for as long as its versions stand: a version listed is
\* never passed by its memory, and while it is the current one the cue is its text.
Shown ==
    /\ \A i \in plan.items :
          /\ i[1] \in Existing(db) \cup purged
          /\ i[1] \in Existing(db) => i[2] <= db.memories[i[1]].version
    /\ \A m \in DOMAIN plan.cues \cap Existing(db) :
          Current(db, m) \in plan.items => db.memories[m].content = plan.cues[m]

\* A commit leaves a memory as it was or at a later version.
LEMMA CommitAdvances ==
    ASSUME Core, Commit, NEW m \in Existing(db)
    PROVE  /\ m \in Existing(db') /\ db.memories[m].version \in Nat \ {0}
           /\ db'.memories[m].version \in Nat \ {0}
           /\ db'.memories[m].version >= db.memories[m].version
           /\ db'.memories[m].version = db.memories[m].version =>
                 db'.memories[m].content = db.memories[m].content
  <1>1. GoodDb(db) /\ GoodDb(db') /\ Extended(db, db')
    BY CommitRows, CommitKeepsCore DEF Core
  <1>2. Current(db, m) \in DOMAIN db.versions /\ db.memories[m] \in Memory
    BY <1>1, CurrentIsStored
  <1>3. Current(db, m) \in DOMAIN db'.versions /\ db'.versions[Current(db, m)] = db.versions[Current(db, m)]
    BY <1>1, <1>2 DEF Extended
  <1>4. m \in Existing(db') /\ db.memories[m].version \in 1..db'.memories[m].version
    BY <1>1, <1>3 DEF GoodDb, NumberedDb, Current
  <1>5. db'.memories[m] \in Memory
    BY <1>1, <1>4, CurrentIsStored
  <1>6. ASSUME db'.memories[m].version = db.memories[m].version
        PROVE  db'.memories[m].content = db.memories[m].content
    <2>1. Current(db', m) = Current(db, m)
      BY <1>6 DEF Current
    <2> QED
      BY <1>1, <1>3, <1>4, <2>1 DEF GoodDb, LatestDb
  <1> QED
    BY <1>2, <1>4, <1>5, <1>6 DEF Memory

LEMMA ShownKept ==
    ASSUME Core, Core', Shown, [Next]_vars
    PROVE  Shown'
  <1>1. plan.items \subseteq Key
    BY DEF Core, IsPlan
  <1>2. \A m \in Existing(db) : db.memories[m].version \in Nat \ {0}
    BY CurrentIsStored DEF Core, Memory
  <1>3. CASE Commit
    <2>1. plan' = plan /\ purged' = purged /\ purged \cap Existing(db') = {}
      BY <1>3 DEF Commit, Core
    <2>2. ASSUME NEW i \in plan.items
          PROVE  /\ i[1] \in Existing(db') \cup purged
                 /\ i[1] \in Existing(db') => i[2] <= db'.memories[i[1]].version
      <3>1. i \in Key
        BY <1>1
      <3>2. CASE i[1] \in Existing(db)
        <4>1. i[2] \in Nat /\ i[2] <= db.memories[i[1]].version
          BY <3>1, <3>2 DEF Shown, Key
        <4> QED
          BY <1>3, <3>2, <4>1, CommitAdvances
      <3>3. CASE i[1] \notin Existing(db)
        BY <2>1, <2>2, <3>3 DEF Shown
      <3> QED
        BY <3>2, <3>3
    <2>3. ASSUME NEW m \in DOMAIN plan.cues \cap Existing(db'), Current(db', m) \in plan.items
          PROVE  db'.memories[m].content = plan.cues[m]
      <3>1. m \in Existing(db) /\ db'.memories[m].version <= db.memories[m].version
        BY <2>1, <2>3 DEF Shown, Current
      <3>2. db'.memories[m].version = db.memories[m].version
        BY <1>3, <3>1, CommitAdvances
      <3>3. Current(db', m) = Current(db, m)
        BY <3>2 DEF Current
      <3> QED
        BY <1>3, <2>3, <3>1, <3>2, <3>3, CommitAdvances DEF Shown
    <2> QED
      BY <2>1, <2>2, <2>3 DEF Shown
  <1>4. CASE HardDelete
    <2>1. plan' = NoPlan
      BY <1>4 DEF HardDelete
    <2> QED
      BY <2>1 DEF Shown, NoPlan
  <1>5. CASE ~Commit /\ ~HardDelete
    <2>1. RowsKept /\ purged' = purged
      BY <1>5, OtherRows
    <2>2. /\ Existing(db') = Existing(db)
          /\ \A m \in Existing(db) : /\ db'.memories[m].version = db.memories[m].version
                                     /\ db'.memories[m].content = db.memories[m].content
                                     /\ Current(db', m) = Current(db, m)
      BY <2>1 DEF RowsKept, Current
    <2>3. CASE plan' = plan
      BY <2>1, <2>2, <2>3 DEF Shown
    <2>4. CASE PlanHardDelete
      <3>1. PICK m \in Existing(db) : plan' = [target |-> {m}, items |-> PlanItems(db, m), cues |-> <<>>]
        BY <2>4 DEF PlanHardDelete
      <3>2. plan'.items = {Current(db, s) : s \in Members(db, m)} /\ DOMAIN plan'.cues = {}
        BY <3>1 DEF PlanItems
      <3>3. Members(db, m) \subseteq Existing(db)
        BY MembersClosed DEF Core
      <3> QED
        BY <1>2, <2>1, <2>2, <3>2, <3>3 DEF Shown, Current
    <2>5. CASE ReadCue
      <3>1. PICK i \in plan.items :
               /\ i[1] \in Existing(db) \ DOMAIN plan.cues
               /\ plan' = [plan EXCEPT !.cues = Put(@, i[1], db.memories[i[1]].content)]
        BY <2>5 DEF ReadCue
      <3>2. plan'.items = plan.items /\ plan'.cues = Put(plan.cues, i[1], db.memories[i[1]].content)
        BY <3>1 DEF Core, IsPlan
      <3>3. \A m \in DOMAIN plan'.cues : \/ m = i[1] /\ plan'.cues[m] = db.memories[m].content
                                         \/ m \in DOMAIN plan.cues /\ plan'.cues[m] = plan.cues[m]
        BY <3>2 DEF Put
      <3> QED
        BY <2>1, <2>2, <3>2, <3>3 DEF Shown
    <2> QED
      BY <1>5, <2>3, <2>4, <2>5, ApplyWrites DEF Next, vars, WriteRow, BeginApply, BeginWrite, BeginUndo,
         Begin, Rollback, TouchRead, PruneReads
  <1> QED
    BY <1>3, <1>4, <1>5

\* Only a hard delete takes rows away, and it takes those of the plan.
LEMMA PurgeTakesShown ==
    ASSUME Core, Core', Shown, [Next]_vars, NEW gone, gone = Existing(db) \ Existing(db'), gone # {}
    PROVE  /\ {Current(db, m) : m \in gone} = plan.items
           /\ \A m \in gone \cap DOMAIN plan.cues : db.memories[m].content = plan.cues[m]
  <1>1. ~Commit
    BY CommitAdvances
  <1>2. HardDelete
    BY <1>1, OtherRows DEF RowsKept
  <1>3. {Current(db, m) : m \in gone} = plan.items
    BY <1>2, HardDeleteRows
  <1>4. \A m \in gone : Current(db, m) \in plan.items /\ m \in Existing(db)
    BY <1>3
  <1> QED
    BY <1>3, <1>4 DEF Shown

------------------------------------------------------------------------------
(* What an undo takes back *)

\* Step `now` puts the memory of step `then` where it was before `then`.
TakesBack(d, now, then) ==
    LET left == IF then.op = "create" THEN then.after ELSE then.before
        was == d.versions[<<now.memory, left>>].state
    IN  /\ now.memory = then.memory /\ now.before = then.after
        /\ {<<now.memory, now.after>>, <<now.memory, left>>} \subseteq DOMAIN d.versions
        /\ d.versions[<<now.memory, now.after>>].state =
              IF then.op = "create" THEN [was EXCEPT !.content.deleted = TRUE] ELSE was

\* Every committed undo takes its change back, and the open one has so far inverted
\* the first steps of a change that still has all of them.
Reversed ==
    /\ \A c \in 1..Len(db.changes) : db.changes[c].undoes # 0 =>
          \A i \in DOMAIN db.changes[c].steps :
             \E j \in DOMAIN db.changes[db.changes[c].undoes].steps :
                TakesBack(db, db.changes[c].steps[i], db.changes[db.changes[c].undoes].steps[j])
    /\ batch.undoes # 0 =>
          /\ locked /\ batch.undoes \in 1..Len(db.changes)
          /\ DOMAIN db.changes[batch.undoes].steps = 1..batch.count
          /\ \A i \in 1..Len(batch.steps) :
                TakesBack(work, batch.steps[i], db.changes[batch.undoes].steps[i])

LEMMA TakesBackKept ==
    ASSUME NEW d, NEW e, NEW now, NEW then, TakesBack(d, now, then),
           \A k \in DOMAIN d.versions : k[1] = now.memory =>
              k \in DOMAIN e.versions /\ e.versions[k] = d.versions[k]
    PROVE  TakesBack(e, now, then)
  <1> DEFINE left == IF then.op = "create" THEN then.after ELSE then.before
  <1>1. \A v : <<now.memory, v>> \in DOMAIN d.versions =>
           <<now.memory, v>> \in DOMAIN e.versions /\ e.versions[<<now.memory, v>>] = d.versions[<<now.memory, v>>]
    OBVIOUS
  <1> HIDE DEF left
  <1> QED
    BY <1>1 DEF TakesBack, left

\* What is said of committed changes outlives a step that takes no version away.
LEMMA OpenReversed ==
    ASSUME Core, Reversed, db'.versions = db.versions, db'.changes = db.changes,
           batch'.undoes # 0 =>
              /\ locked' /\ batch'.undoes \in 1..Len(db.changes)
              /\ DOMAIN db.changes[batch'.undoes].steps = 1..batch'.count
              /\ \A i \in 1..Len(batch'.steps) :
                    TakesBack(work', batch'.steps[i], db.changes[batch'.undoes].steps[i])
    PROVE  Reversed'
  <1>1. \A now, then : TakesBack(db, now, then) => TakesBack(db', now, then)
    BY TakesBackKept
  <1> QED
    BY <1>1 DEF Reversed

LEMMA InverseReverses ==
    ASSUME Core, Reversed, ApplyInverse
    PROVE  Reversed'
  <1> PICK then : then = NextUndone
    OBVIOUS
  <1> PICK last : last = Len(batch.steps)
    OBVIOUS
  <1>1. /\ locked /\ last < batch.count /\ batch.undoes # 0 /\ IsBatch(batch) /\ IsDatabase(work)
        /\ last \in Nat
    BY DEF ApplyInverse, Running, Core, GoodDb, IsBatch
  <1>2. /\ batch.undoes \in 1..Len(db.changes)
        /\ DOMAIN db.changes[batch.undoes].steps = 1..batch.count
        /\ \A i \in 1..last : TakesBack(work, batch.steps[i], db.changes[batch.undoes].steps[i])
    BY <1>1 DEF Reversed
  <1>3. then = db.changes[batch.undoes].steps[last + 1]
    BY <1>2 DEF NextUndone, Core, WorkExtendsDb
  <1> DEFINE left == IF then.op = "create" THEN then.after ELSE then.before
  <1>4. PICK was : was = work.versions[<<then.memory, left>>].state
    OBVIOUS
  <1>5. PICK state : state = IF then.op = "create" THEN [was EXCEPT !.content.deleted = TRUE] ELSE was
    OBVIOUS
  <1>6. /\ then.memory \in Existing(work) \ Touched
        /\ work.memories[then.memory].version = then.after
        /\ <<then.memory, left>> \in DOMAIN work.versions
        /\ FitState(then.memory, state)
        /\ \E op \in OpName : WriteVersion(op, then.memory, state)
    <2>1. CASE then.op = "create"
      <3>1. SoftDelete(then.memory, then.after, 0)
        BY <2>1 DEF ApplyInverse
      <3>2. /\ then.memory \in Existing(work) \ Touched
            /\ work.memories[then.memory].version = then.after
            /\ WriteVersion("soft_delete", then.memory,
                            [StateOf(work, then.memory) EXCEPT !.content.deleted = TRUE])
        BY <3>1 DEF SoftDelete, Target
      <3>3. <<then.memory, left>> = Current(work, then.memory)
        BY <2>1, <3>2 DEF Current
      <3>4. was = StateOf(work, then.memory) /\ <<then.memory, left>> \in DOMAIN work.versions
        BY <1>4, <3>2, <3>3, CurrentIsStored DEF Core
      <3>5. state = [StateOf(work, then.memory) EXCEPT !.content.deleted = TRUE]
        BY <1>5, <2>1, <3>4
      <3>6. FitState(then.memory, state)
        BY <3>2, <3>5, DeletedFits
      <3> QED
        BY <3>2, <3>4, <3>5, <3>6 DEF OpName
    <2>2. CASE then.op # "create"
      <3>1. Restore(then.memory, then.after, then.before)
        BY <2>2 DEF ApplyInverse
      <3>2. /\ then.memory \in Existing(work) \ Touched
            /\ work.memories[then.memory].version = then.after
            /\ <<then.memory, then.before>> \in DOMAIN work.versions
            /\ WriteVersion("restore", then.memory, work.versions[<<then.memory, then.before>>].state)
        BY <3>1 DEF Restore, Target
      <3>3. state = work.versions[<<then.memory, then.before>>].state
        BY <1>4, <1>5, <2>2
      <3>4. FitState(then.memory, state)
        BY <3>2, <3>3, StoredFits
      <3> QED
        BY <2>2, <3>2, <3>3, <3>4 DEF OpName
    <2> QED
      BY <2>1, <2>2
  <1>7. PICK op \in OpName : WriteVersion(op, then.memory, state)
    BY <1>6
  <1>8. PICK row, n, pre : /\ Fits(op, then.memory, row, n, state, pre)
                           /\ WriteRow(op, then.memory, row, n, state, pre)
    BY <1>6, <1>7, WriteVersionFits
  <1>9. Wrote(then.memory, row, n, state)
    BY <1>1, <1>8, WriteRowEffect, Zenon
  <1>10. /\ \A k \in DOMAIN work.versions :
                k \in DOMAIN work'.versions /\ work'.versions[k] = work.versions[k]
         /\ <<then.memory, n>> \in DOMAIN work'.versions
         /\ work'.versions[<<then.memory, n>>].state = state
    BY <1>9 DEF Wrote
  <1>11. pre[1] = then.after
    BY <1>6, <1>8 DEF Fits, InWork
  <1>12. PICK step : step = [memory |-> then.memory, op |-> op, before |-> pre[1], after |-> n]
    OBVIOUS
  <1>13. /\ batch'.steps = Append(batch.steps, step)
         /\ batch'.undoes = batch.undoes /\ batch'.count = batch.count
         /\ db' = db /\ locked' = locked
    <2>1. DOMAIN batch = {"by", "count", "undoes", "before", "cited", "steps"}
      BY <1>1 DEF IsBatch
    <2> QED
      BY <1>8, <1>12, <2>1 DEF WriteRow
  <1>14. TakesBack(work', step, then)
    <2>1. step.memory = then.memory /\ step.before = then.after /\ step.after = n
      BY <1>11, <1>12
    <2>2. <<then.memory, left>> \in DOMAIN work'.versions
          /\ work'.versions[<<then.memory, left>>].state = was
      BY <1>4, <1>6, <1>10
    <2> HIDE DEF left
    <2>3. /\ {<<step.memory, step.after>>, <<step.memory, left>>} \subseteq DOMAIN work'.versions
          /\ work'.versions[<<step.memory, step.after>>].state =
                IF then.op = "create" THEN [work'.versions[<<step.memory, left>>].state
                                               EXCEPT !.content.deleted = TRUE]
                ELSE work'.versions[<<step.memory, left>>].state
      BY <1>5, <1>10, <2>1, <2>2
    <2> QED
      BY <2>1, <2>3 DEF TakesBack, left
  <1>15. \A i \in 1..last : TakesBack(work', batch.steps[i], db.changes[batch.undoes].steps[i])
    BY <1>2, <1>10, TakesBackKept
  <1>16. Len(batch'.steps) = last + 1 /\ batch'.steps[last + 1] = step
         /\ \A i \in 1..last : batch'.steps[i] = batch.steps[i]
    BY <1>1, <1>12, <1>13 DEF IsBatch
  <1>17. \A i \in 1..(last + 1) : TakesBack(work', batch'.steps[i], db.changes[batch.undoes].steps[i])
    <2> SUFFICES ASSUME NEW i \in 1..(last + 1)
                 PROVE  TakesBack(work', batch'.steps[i], db.changes[batch.undoes].steps[i])
      OBVIOUS
    <2>1. CASE i = last + 1
      BY <1>3, <1>14, <1>16, <2>1
    <2>2. CASE i # last + 1
      <3>1. i \in 1..last
        BY <1>1, <2>2
      <3> QED
        BY <1>15, <1>16, <3>1
    <2> QED
      BY <2>1, <2>2
  <1> QED
    BY <1>1, <1>2, <1>13, <1>16, <1>17, OpenReversed

LEMMA CommitReverses ==
    ASSUME Core, Reversed, Commit
    PROVE  Reversed'
  <1> PICK n : n = Len(db.changes)
    OBVIOUS
  <1>1. /\ n = Len(db.changes) /\ n \in Nat /\ db'.versions = work.versions
        /\ Len(db'.changes) = n + 1
        /\ \A c \in 1..n : db'.changes[c] = db.changes[c]
        /\ db'.changes[n + 1].steps = batch.steps /\ db'.changes[n + 1].undoes = batch.undoes
        /\ Extended(db, db')
    BY CommitRows
  <1>2. batch' = EmptyBatch /\ locked /\ Len(batch.steps) = batch.count
        /\ batch.steps \in Seq(Step)
    BY DEF Commit, Core, IsBatch
  <1>3. \A now, then : TakesBack(db, now, then) => TakesBack(db', now, then)
    BY <1>1, TakesBackKept DEF Extended
  <1>4. \A now, then : TakesBack(work, now, then) => TakesBack(db', now, then)
    BY <1>1, TakesBackKept
  <1>5. ASSUME NEW c \in 1..(n + 1), db'.changes[c].undoes # 0, NEW i \in DOMAIN db'.changes[c].steps
        PROVE  \E j \in DOMAIN db'.changes[db'.changes[c].undoes].steps :
                  TakesBack(db', db'.changes[c].steps[i], db'.changes[db'.changes[c].undoes].steps[j])
    <2>1. CASE c = n + 1
      <3>1. /\ batch.undoes \in 1..n /\ DOMAIN db.changes[batch.undoes].steps = 1..batch.count
            /\ i \in 1..Len(batch.steps)
            /\ TakesBack(work, batch.steps[i], db.changes[batch.undoes].steps[i])
        BY <1>1, <1>2, <1>5, <2>1 DEF Reversed
      <3>2. db'.changes[batch.undoes] = db.changes[batch.undoes]
        BY <1>1, <3>1
      <3> QED
        BY <1>1, <1>2, <1>4, <2>1, <3>1, <3>2
    <2>2. CASE c # n + 1
      <3>1. c \in 1..n /\ db'.changes[c] = db.changes[c]
        BY <1>1, <2>2
      <3> PICK u : u = db.changes[c].undoes
        OBVIOUS
      <3>2. u \in 1..n
        <4>1. db.changes[c].undoes \in Nat /\ db.changes[c].undoes < c
          BY <1>1, <3>1 DEF Core, GoodDb, IsDatabase, IsLog, IsChange
        <4> QED
          BY <1>1, <1>5, <3>1, <4>1
      <3>3. db'.changes[u] = db.changes[u]
        BY <1>1, <3>2
      <3>4. PICK j \in DOMAIN db.changes[u].steps :
               TakesBack(db, db.changes[c].steps[i], db.changes[u].steps[j])
        BY <1>1, <1>5, <3>1 DEF Reversed
      <3> QED
        BY <1>3, <3>1, <3>3, <3>4
    <2> QED
      BY <2>1, <2>2
  <1> QED
    BY <1>1, <1>2, <1>5 DEF Reversed, EmptyBatch

\* A hard delete takes the steps of a memory from both changes.
LEMMA HardDeleteReverses ==
    ASSUME Core, Reversed, HardDelete
    PROVE  Reversed'
  <1>1. PICK gone :
           /\ \A k \in DOMAIN db.versions : k[1] \notin gone =>
                 k \in DOMAIN db'.versions /\ db'.versions[k] = db.versions[k]
           /\ Len(db'.changes) = Len(db.changes)
           /\ \A c \in 1..Len(db.changes) : db'.changes[c] = WithoutSteps(db.changes[c], gone)
    BY HardDeleteRows
  <1> PICK n : n = Len(db.changes)
    OBVIOUS
  <1>2. \A c \in 1..n : IsChange(db.changes[c]) /\ db.changes[c].undoes < c
    BY DEF Core, GoodDb, IsDatabase, IsLog
  <1>3. ASSUME NEW c \in 1..n
        PROVE  /\ db'.changes[c].undoes = db.changes[c].undoes
               /\ \A i : i \in DOMAIN db'.changes[c].steps <=>
                     i \in DOMAIN db.changes[c].steps /\ db.changes[c].steps[i].memory \notin gone
               /\ \A i \in DOMAIN db'.changes[c].steps :
                     db'.changes[c].steps[i] = db.changes[c].steps[i]
    <2> PICK change : change = db.changes[c]
      OBVIOUS
    <2>1. change = [by |-> change.by, count |-> change.count, undoes |-> change.undoes,
                    steps |-> change.steps]
      BY <1>2 DEF IsChange
    <2>2. DOMAIN change = {"by", "count", "undoes", "steps"}
      BY <2>1
    <2>3. PICK kept : kept = {i \in DOMAIN change.steps : change.steps[i].memory \notin gone}
      OBVIOUS
    <2>4. WithoutSteps(change, gone) = [change EXCEPT !.steps = Only(change.steps, kept)]
      BY <2>3 DEF WithoutSteps
    <2>5. WithoutSteps(change, gone).undoes = change.undoes
          /\ WithoutSteps(change, gone).steps = Only(change.steps, kept)
      BY <2>2, <2>4
    <2> QED
      BY <1>1, <2>3, <2>5 DEF Only
  <1>4. \A now, then : TakesBack(db, now, then) /\ now.memory \notin gone => TakesBack(db', now, then)
    BY <1>1, TakesBackKept
  <1>5. batch' = EmptyBatch
    BY DEF HardDelete, Core, WorkExtendsDb
  <1>6. ASSUME NEW c \in 1..n, db'.changes[c].undoes # 0, NEW i \in DOMAIN db'.changes[c].steps
        PROVE  \E j \in DOMAIN db'.changes[db'.changes[c].undoes].steps :
                  TakesBack(db', db'.changes[c].steps[i], db'.changes[db'.changes[c].undoes].steps[j])
    <2> PICK u : u = db.changes[c].undoes
      OBVIOUS
    <2>1. /\ db'.changes[c].undoes = u /\ u # 0
          /\ i \in DOMAIN db.changes[c].steps /\ db.changes[c].steps[i].memory \notin gone
          /\ db'.changes[c].steps[i] = db.changes[c].steps[i]
      BY <1>3, <1>6
    <2>2. u \in 1..n
      <3>1. db.changes[c].undoes \in Nat /\ db.changes[c].undoes < c
        BY <1>2 DEF IsChange
      <3>2. n \in Nat
        BY DEF Core, GoodDb, IsDatabase, IsLog
      <3> QED
        BY <2>1, <3>1, <3>2
    <2>3. PICK j \in DOMAIN db.changes[u].steps :
             TakesBack(db, db.changes[c].steps[i], db.changes[u].steps[j])
      BY <2>1 DEF Reversed
    <2>4. db.changes[u].steps[j].memory \notin gone
      BY <2>1, <2>3 DEF TakesBack
    <2>5. j \in DOMAIN db'.changes[u].steps /\ db'.changes[u].steps[j] = db.changes[u].steps[j]
      BY <1>3, <2>2, <2>3, <2>4
    <2> QED
      BY <1>4, <2>1, <2>3, <2>5
  <1> QED
    BY <1>1, <1>5, <1>6 DEF Reversed, EmptyBatch

LEMMA ReversedKept ==
    ASSUME Core, Core', Reversed, [Next]_vars
    PROVE  Reversed'
  <1>1. CASE Commit
    BY <1>1, CommitReverses
  <1>2. CASE HardDelete
    BY <1>2, HardDeleteReverses
  <1>3. CASE ~Commit /\ ~HardDelete
    <2>1. db'.versions = db.versions /\ db'.changes = db.changes
      BY <1>3, OtherRows DEF RowsKept
    <2>2. CASE ApplyInverse
      BY <2>2, InverseReverses
    <2>3. CASE ApplyCreate \/ ApplyUpdate \/ ApplySoftDelete \/ ApplyRestore
      <3>1. batch.undoes = 0
        BY <2>3 DEF ApplyCreate, ApplyUpdate, ApplySoftDelete, ApplyRestore
      <3>2. DOMAIN batch = {"by", "count", "undoes", "before", "cited", "steps"}
        BY DEF Core, IsBatch
      <3>3. \E op, m, row, n, state, pre : WriteRow(op, m, row, n, state, pre)
        BY <2>3, ApplyWrites DEF Apply
      <3>4. batch'.undoes = 0
        BY <3>1, <3>2, <3>3 DEF WriteRow
      <3> QED
        BY <2>1, <3>4, OpenReversed
    <2>4. CASE BeginApply \/ BeginWrite
      <3>1. batch'.undoes = 0
        BY <2>4 DEF BeginApply, BeginWrite, Begin, EmptyBatch
      <3> QED
        BY <2>1, <3>1, OpenReversed
    <2>5. CASE BeginUndo
      <3>1. PICK c \in 1..Len(db.changes) :
               Undoable(db.changes[c]) /\ Begin(Management, db.changes[c].count, c)
        BY <2>5 DEF BeginUndo
      <3>2. locked' /\ batch'.undoes = c /\ batch'.count = db.changes[c].count /\ batch'.steps = <<>>
        BY <3>1 DEF Begin, EmptyBatch
      <3>3. DOMAIN db.changes[c].steps = 1..db.changes[c].count
        BY <3>1 DEF Undoable
      <3> QED
        BY <2>1, <3>2, <3>3, OpenReversed
    <2>6. CASE Rollback \/ TouchRead \/ PruneReads
      <3>1. batch' = EmptyBatch
        BY <2>6 DEF Rollback, TouchRead, PruneReads, Core, WorkExtendsDb
      <3> QED
        BY <2>1, <3>1, OpenReversed DEF EmptyBatch
    <2>7. CASE PlanHardDelete \/ ReadCue \/ UNCHANGED vars
      <3>1. batch' = batch /\ work' = work /\ locked' = locked
        BY <2>7 DEF PlanHardDelete, ReadCue, vars
      <3> QED
        BY <2>1, <3>1, OpenReversed DEF Reversed
    <2> QED
      BY <1>3, <2>2, <2>3, <2>4, <2>5, <2>6, <2>7 DEF Next, Apply
  <1> QED
    BY <1>1, <1>2, <1>3

------------------------------------------------------------------------------
(* The version log that other code may rely on *)

VersionOf(d, m) == IF m \in Existing(d) THEN d.memories[m].version ELSE 0

\* The open change leaves a memory where it was, or names it and moves it one version
\* on, to a state unlike the last; what it wrote, it wrote under its own number.
OnceEach ==
    /\ \A m \in MemoryId :
          \/ VersionOf(work, m) = VersionOf(db, m)
          \/ /\ m \in Touched
             /\ VersionOf(work, m) = VersionOf(db, m) + 1
             /\ m \in Existing(db) =>
                   work.versions[Current(work, m)].state # db.versions[Current(db, m)].state
    /\ \A k \in DOMAIN work.versions \ DOMAIN db.versions : work.versions[k].change = ThisChange

LEMMA SettledOnce ==
    ASSUME work'.memories = db'.memories, work'.versions = db'.versions
    PROVE  OnceEach'
  BY DEF OnceEach, VersionOf, Existing

LEMMA VersionIsPositive ==
    ASSUME NEW d, GoodDb(d), NEW m
    PROVE  VersionOf(d, m) \in Nat /\ (m \in Existing(d) <=> VersionOf(d, m) # 0)
  BY CurrentIsStored DEF VersionOf, Memory

LEMMA ApplyOnce ==
    ASSUME Core, Core', OnceEach, Apply
    PROVE  OnceEach'
  <1>1. locked
    BY ApplyWrites
  <1>2. PICK op, m, row, n, state, pre :
           Fits(op, m, row, n, state, pre) /\ WriteRow(op, m, row, n, state, pre)
    BY ApplyWrites
  <1>3. /\ db' = db
        /\ Existing(work') = Existing(work) \cup {m}
        /\ work'.memories[m] = row /\ row.version = n
        /\ \A i \in Existing(work) : i # m => work'.memories[i] = work.memories[i]
        /\ DOMAIN work'.versions = DOMAIN work.versions \cup {<<m, n>>}
        /\ work'.versions[<<m, n>>] = [state |-> state, change |-> ThisChange]
        /\ \A k \in DOMAIN work.versions : work'.versions[k] = work.versions[k]
        /\ work'.changes = work.changes
    <2>1. Wrote(m, row, n, state)
      BY <1>1, <1>2, WriteRowEffect, Zenon
    <2> QED
      BY <1>2, <2>1 DEF Wrote, Fits, WriteRow
  <1>4. Touched' = Touched \cup {m}
    <2>1. batch.steps \in Seq(Step) /\ DOMAIN batch = {"by", "count", "undoes", "before", "cited", "steps"}
      BY DEF Core, IsBatch
    <2>2. PICK step : step = [memory |-> m, op |-> op, before |-> pre[1], after |-> n]
      OBVIOUS
    <2>3. batch'.steps = Append(batch.steps, step)
      BY <1>2, <2>1, <2>2 DEF WriteRow
    <2>4. step.memory = m
      BY <2>2
    <2> QED
      BY <2>1, <2>3, <2>4 DEF Touched
  <1>5. GoodDb(db) /\ GoodDb(work) /\ GoodDb(work')
    BY DEF Core
  <1>6. n = VersionOf(work, m) + 1 /\ VersionOf(work', m) = n
    BY <1>2, <1>3 DEF Fits, InWork, VersionOf
  <1>7. \A k \in DOMAIN work'.versions \ DOMAIN db'.versions : work'.versions[k].change = ThisChange'
    BY <1>3 DEF OnceEach, ThisChange
  <1>8. ASSUME NEW i \in MemoryId, i # m
        PROVE  \/ VersionOf(work', i) = VersionOf(db', i)
               \/ /\ i \in Touched'
                  /\ VersionOf(work', i) = VersionOf(db', i) + 1
                  /\ i \in Existing(db') =>
                        work'.versions[Current(work', i)].state # db'.versions[Current(db', i)].state
    <2>1. VersionOf(work', i) = VersionOf(work, i)
      BY <1>3, <1>8 DEF VersionOf
    <2>2. CASE VersionOf(work, i) = VersionOf(db, i)
      BY <1>3, <2>1, <2>2
    <2>3. CASE VersionOf(work, i) # VersionOf(db, i)
      <3>1. /\ i \in Touched /\ VersionOf(work, i) = VersionOf(db, i) + 1
            /\ i \in Existing(db) =>
                  work.versions[Current(work, i)].state # db.versions[Current(db, i)].state
        BY <2>3 DEF OnceEach
      <3>2. i \in Existing(work)
        BY <1>5, <3>1, VersionIsPositive
      <3>3. Current(work', i) = Current(work, i) /\ Current(work, i) \in DOMAIN work.versions
        BY <1>3, <1>5, <1>8, <3>2, CurrentIsStored DEF Current
      <3> QED
        BY <1>3, <1>4, <2>1, <3>1, <3>3
    <2> QED
      BY <2>2, <2>3
  <1>9. /\ m \in Touched' /\ VersionOf(work', m) = VersionOf(db', m) + 1
        /\ m \in Existing(db') =>
              work'.versions[Current(work', m)].state # db'.versions[Current(db', m)].state
    <2>1. m \in MemoryId
      BY <1>2 DEF Fits
    <2>2. VersionOf(work, m) = VersionOf(db, m)
      <3>1. CASE m \in Existing(work)
        BY <1>2, <2>1, <3>1 DEF Fits, OnceEach
      <3>2. CASE m \notin Existing(work)
        <4>1. VersionOf(work, m) = 0 /\ VersionOf(db, m) \in Nat
          BY <1>5, <3>2, VersionIsPositive
        <4> QED
          BY <2>1, <4>1 DEF OnceEach
      <3> QED
        BY <3>1, <3>2
    <2>3. ASSUME m \in Existing(db)
          PROVE  work'.versions[Current(work', m)].state # db.versions[Current(db, m)].state
      <3>1. m \in Existing(work)
        BY <1>5, <2>2, <2>3, VersionIsPositive
      <3>2. Current(work', m) = <<m, n>>
        BY <1>3 DEF Current
      <3>3. state # StateOf(work, m)
        BY <1>2, <3>1 DEF Fits
      <3>4. Current(work, m) = Current(db, m) /\ Current(db, m) \in DOMAIN db.versions
        BY <1>5, <2>2, <2>3, <3>1, CurrentIsStored DEF VersionOf, Current
      <3>5. StateOf(work, m) = db.versions[Current(db, m)].state
        BY <1>5, <3>1, <3>4, CurrentIsStored DEF Core, WorkExtendsDb
      <3> QED
        BY <1>3, <3>2, <3>3, <3>5
    <2> QED
      BY <1>3, <1>4, <1>6, <2>2, <2>3
  <1> QED
    BY <1>7, <1>8, <1>9 DEF OnceEach

LEMMA OnceEachKept ==
    ASSUME Core, Core', OnceEach, [Next]_vars
    PROVE  OnceEach'
  <1>1. CASE Apply
    BY <1>1, ApplyOnce
  <1>2. CASE BeginApply \/ BeginWrite \/ BeginUndo
    <2>1. \E changes : work' = [db EXCEPT !.changes = changes] /\ db' = db
      BY <1>2 DEF BeginApply, BeginWrite, BeginUndo, Begin
    <2>2. DOMAIN db = {"memories", "versions", "changes", "reads"}
      BY DEF Core, GoodDb, IsDatabase
    <2> QED
      BY <2>1, <2>2, SettledOnce
  <1>3. CASE Commit \/ Rollback \/ HardDelete \/ TouchRead \/ PruneReads
    <2>1. work' = db'
      BY <1>3 DEF Commit, Rollback, HardDelete, TouchRead, PruneReads
    <2> QED
      BY <2>1, SettledOnce
  <1>4. CASE PlanHardDelete \/ ReadCue \/ UNCHANGED vars
    <2>1. db' = db /\ work' = work /\ batch' = batch
      BY <1>4 DEF PlanHardDelete, ReadCue, vars
    <2> QED
      BY <2>1 DEF OnceEach, Touched, ThisChange
  <1> QED
    BY <1>1, <1>2, <1>3, <1>4 DEF Next

\* The log of memory `m` in database `d`.
LogOf(d, m) ==
    IF m \in Existing(d) THEN [v \in 1..d.memories[m].version |-> d.versions[<<m, v>>].state]
    ELSE <<>>

LEMMA LogEntries ==
    ASSUME NEW d, GoodDb(d), NEW m \in MemoryId
    PROVE  /\ Len(LogOf(d, m)) = VersionOf(d, m)
           /\ \A v \in 1..VersionOf(d, m) : LogOf(d, m)[v] = d.versions[<<m, v>>].state
           /\ m \notin Existing(d) => LogOf(d, m) = <<>>
           /\ \A v \in 1..VersionOf(d, m) : <<m, v>> \in DOMAIN d.versions
  <1>1. CASE m \in Existing(d)
    <2> PICK n : n = d.memories[m].version
      OBVIOUS
    <2>1. n = VersionOf(d, m) /\ n \in Nat /\ \A v \in 1..n : <<m, v>> \in DOMAIN d.versions
      BY <1>1, CurrentIsStored DEF VersionOf, Memory, GoodDb, NumberedDb
    <2>2. \A v \in 1..n : d.versions[<<m, v>>].state \in State
      BY <2>1 DEF GoodDb, IsDatabase, IsPartial, Version
    <2>3. PICK s : s = [v \in 1..n |-> d.versions[<<m, v>>].state]
      OBVIOUS
    <2>4. s \in [1..n -> State]
      BY <2>2, <2>3
    <2>5. Len(s) = n
      BY <2>1, <2>4
    <2>6. LogOf(d, m) = s
      BY <1>1, <2>3 DEF LogOf
    <2> QED
      BY <1>1, <2>1, <2>3, <2>5, <2>6
  <1>2. CASE m \notin Existing(d)
    BY <1>2 DEF LogOf, VersionOf
  <1> QED
    BY <1>1, <1>2

\* What a log cites is in the logs.
LEMMA LogCites ==
    ASSUME NEW d, GoodDb(d), NEW m \in MemoryId, NEW v \in 1..VersionOf(d, m),
           NEW r \in LogOf(d, m)[v].sources
    PROVE  /\ r \in DOMAIN d.versions /\ d.versions[r].change < d.versions[<<m, v>>].change
           /\ d.versions[<<m, v>>].change \in 1..Len(d.changes)
  <1>1. <<m, v>> \in DOMAIN d.versions /\ r \in Sources(d, <<m, v>>)
    BY LogEntries DEF Sources
  <1> QED
    BY <1>1 DEF GoodDb, CitesStoredDb, CitesOlderDb, DatedDb

LEMMA StoredIsLogged ==
    ASSUME NEW d, GoodDb(d), NEW r \in DOMAIN d.versions
    PROVE  r[1] \in MemoryId /\ r[2] \in 1..VersionOf(d, r[1])
  BY CurrentIsStored DEF GoodDb, NumberedDb, VersionOf

\* A commit appends one state to the log of each memory it named.
LEMMA CommitIsChange ==
    ASSUME Core, Core', OnceEach, Commit
    PROVE  History!Change
  <1>1. GoodDb(db) /\ GoodDb(db') /\ GoodDb(work)
    BY DEF Core
  <1>2. /\ db'.memories = work.memories /\ db'.versions = work.versions
        /\ Existing(db') = Existing(work)
        /\ Len(db'.changes) = Len(db.changes) + 1 /\ Len(db.changes) \in Nat
        /\ Extended(db, db')
    BY CommitRows
  <1>3. purged' = purged /\ purged \cap Existing(db') = {} /\ ThisChange = Len(db'.changes)
    BY <1>2 DEF Commit, Core, WorkExtendsDb, ThisChange
  <1>4. \A k \in DOMAIN db.versions : k \in DOMAIN db'.versions /\ db'.versions[k] = db.versions[k]
    BY <1>2 DEF Extended
  <1>5. ASSUME NEW m \in MemoryId
        PROVE  Log'[m] = Log[m] \/ (m \notin purged /\ History!Extends(m))
    <2>1. Log[m] = LogOf(db, m) /\ Log'[m] = LogOf(db', m)
      BY DEF Log, LogOf
    <2>2. VersionOf(db, m) \in Nat /\ VersionOf(db', m) \in Nat
      BY <1>1, VersionIsPositive
    <2>3. /\ Len(Log[m]) = VersionOf(db, m) /\ Len(Log'[m]) = VersionOf(db', m)
          /\ \A v \in 1..VersionOf(db, m) : Log[m][v] = db.versions[<<m, v>>].state
          /\ \A v \in 1..VersionOf(db', m) : Log'[m][v] = db'.versions[<<m, v>>].state
          /\ \A v \in 1..VersionOf(db, m) : <<m, v>> \in DOMAIN db.versions
          /\ m \notin Existing(db) => Log[m] = <<>>
      BY <1>1, <2>1, LogEntries
    <2>4. VersionOf(db', m) = VersionOf(work, m)
      BY <1>2 DEF VersionOf
    <2>5. CASE VersionOf(work, m) = VersionOf(db, m)
      <3>1. CASE m \in Existing(db)
        <4>1. m \in Existing(db') /\ db'.memories[m].version = db.memories[m].version
          BY <1>1, <2>4, <2>5, <3>1, VersionIsPositive DEF VersionOf
        <4>2. \A v \in 1..db.memories[m].version : db'.versions[<<m, v>>] = db.versions[<<m, v>>]
          BY <1>4, <2>3, <3>1 DEF VersionOf
        <4> QED
          BY <2>1, <3>1, <4>1, <4>2 DEF LogOf
      <3>2. CASE m \notin Existing(db)
        <4>1. m \notin Existing(db')
          BY <1>1, <2>4, <2>5, <3>2, VersionIsPositive
        <4> QED
          BY <2>1, <3>2, <4>1 DEF LogOf
      <3> QED
        BY <3>1, <3>2
    <2>6. CASE VersionOf(work, m) # VersionOf(db, m)
      <3>1. /\ VersionOf(db', m) = VersionOf(db, m) + 1
            /\ m \in Existing(db) =>
                  db'.versions[Current(db', m)].state # db.versions[Current(db, m)].state
        BY <1>2, <2>4, <2>6 DEF OnceEach, Current
      <3>2. m \in Existing(db') /\ m \notin purged
        BY <1>1, <1>3, <2>2, <3>1, VersionIsPositive
      <3>3. ASSUME NEW v \in 1..Len(Log[m]) PROVE Log'[m][v] = Log[m][v]
        <4>1. v \in 1..VersionOf(db, m) /\ v \in 1..VersionOf(db', m)
          BY <2>2, <2>3, <3>1
        <4>2. db'.versions[<<m, v>>] = db.versions[<<m, v>>]
          BY <1>4, <2>3, <4>1
        <4> QED
          BY <2>3, <4>1, <4>2
      <3>4. ASSUME Log[m] # <<>>
            PROVE  History!Last(Log'[m]) # History!Last(Log[m])
        <4>1. m \in Existing(db)
          BY <2>3, <3>4
        <4>2. /\ VersionOf(db, m) \in 1..VersionOf(db, m) /\ VersionOf(db', m) \in 1..VersionOf(db', m)
              /\ Current(db, m) = <<m, VersionOf(db, m)>> /\ Current(db', m) = <<m, VersionOf(db', m)>>
          BY <1>1, <2>2, <3>2, <4>1, VersionIsPositive DEF VersionOf, Current
        <4> QED
          BY <2>3, <3>1, <4>1, <4>2 DEF History!Last
      <3>5. History!CitesOnly(Log'[m], Log)
        <4> SUFFICES ASSUME NEW v \in 1..Len(Log'[m]), NEW r \in Log'[m][v].sources
                     PROVE  r[2] \in 1..Len(Log[r[1]])
          BY DEF History!CitesOnly
        <4>1. /\ r \in DOMAIN db'.versions /\ db'.versions[r].change < db'.versions[<<m, v>>].change
              /\ db'.versions[<<m, v>>].change \in 1..Len(db'.changes)
          BY <1>1, <2>1, <2>3, LogCites
        <4>2. db'.versions[r].change # ThisChange
          <5>1. db'.versions[r].change \in Nat
            BY <1>1, <4>1 DEF GoodDb, DatedDb
          <5> QED
            BY <1>2, <1>3, <4>1, <5>1
        <4>3. r \in DOMAIN db.versions
          BY <1>2, <4>1, <4>2 DEF OnceEach
        <4>4. r[1] \in MemoryId /\ r[2] \in 1..VersionOf(db, r[1])
          BY <1>1, <4>3, StoredIsLogged
        <4>5. Len(Log[r[1]]) = VersionOf(db, r[1])
          BY <1>1, <4>4, LogEntries DEF Log, LogOf
        <4> QED
          BY <4>4, <4>5
      <3> QED
        BY <2>3, <3>1, <3>2, <3>3, <3>4, <3>5 DEF History!Extends
    <2> QED
      BY <2>5, <2>6
  <1> QED
    BY <1>3, <1>5 DEF History!Change

\* A hard delete empties the logs of its members, and no log left cites one of them.
LEMMA HardDeleteIsPurge ==
    ASSUME Core, Core', HardDelete
    PROVE  History!Purge
  <1>1. PICK gone :
           /\ gone \subseteq Existing(db)
           /\ purged' = purged \cup gone
           /\ Existing(db') = Existing(db) \ gone
           /\ \A m \in Existing(db') : db'.memories[m] = db.memories[m]
           /\ \A k \in DOMAIN db.versions : k[1] \notin gone =>
                 k \in DOMAIN db'.versions /\ db'.versions[k] = db.versions[k]
    BY HardDeleteRows
  <1>2. GoodDb(db) /\ GoodDb(db') /\ purged \cap Existing(db) = {}
    BY DEF Core
  <1>3. gone \in SUBSET (MemoryId \ purged)
    BY <1>1, <1>2, CurrentIsStored
  <1>4. ASSUME NEW m \in MemoryId
        PROVE  LogOf(db', m) = IF m \in gone THEN <<>> ELSE LogOf(db, m)
    <2>1. CASE m \in Existing(db')
      <3>1. m \in Existing(db) /\ m \notin gone /\ db'.memories[m] = db.memories[m]
        BY <1>1, <2>1
      <3>2. \A v \in 1..db.memories[m].version :
               <<m, v>> \in DOMAIN db.versions /\ db'.versions[<<m, v>>] = db.versions[<<m, v>>]
        BY <1>1, <1>2, <3>1 DEF GoodDb, NumberedDb
      <3> QED
        BY <2>1, <3>1, <3>2 DEF LogOf
    <2>2. CASE m \notin Existing(db')
      BY <1>1, <2>2 DEF LogOf
    <2> QED
      BY <2>1, <2>2
  <1>5. Log' = [m \in MemoryId |-> IF m \in gone THEN <<>> ELSE Log[m]]
    <2>1. Log' = [m \in MemoryId |-> LogOf(db', m)] /\ \A m \in MemoryId : Log[m] = LogOf(db, m)
      BY DEF Log, LogOf
    <2> QED
      BY <1>4, <2>1
  <1>6. ASSUME NEW m \in MemoryId
        PROVE  History!CitesOnly(Log'[m], Log')
    <2>1. \A i \in MemoryId : Log'[i] = LogOf(db', i) /\ Len(Log'[i]) = VersionOf(db', i)
      BY <1>2, LogEntries DEF Log, LogOf
    <2> SUFFICES ASSUME NEW v \in 1..Len(Log'[m]), NEW r \in Log'[m][v].sources
                 PROVE  r[2] \in 1..Len(Log'[r[1]])
      BY DEF History!CitesOnly
    <2>2. r \in DOMAIN db'.versions
      BY <1>2, <2>1, LogCites
    <2> QED
      BY <1>2, <2>1, <2>2, StoredIsLogged
  <1> QED
    BY <1>1, <1>3, <1>5, <1>6 DEF History!Purge

LEMMA StepImplementsLog ==
    ASSUME Core, Core', OnceEach, [Next]_vars
    PROVE  [History!Change \/ History!Purge]_<<Log, purged>>
  <1>1. CASE Commit
    BY <1>1, CommitIsChange
  <1>2. CASE HardDelete
    BY <1>2, HardDeleteIsPurge
  <1>3. CASE ~Commit /\ ~HardDelete
    <2>1. RowsKept /\ purged' = purged
      BY <1>3, OtherRows
    <2>2. \A m \in MemoryId : LogOf(db', m) = LogOf(db, m)
      BY <2>1 DEF RowsKept, LogOf
    <2>3. Log = [m \in MemoryId |-> LogOf(db, m)] /\ Log' = [m \in MemoryId |-> LogOf(db', m)]
      BY DEF Log, LogOf
    <2>4. Log' = Log
      BY <2>2, <2>3
    <2> QED
      BY <2>1, <2>4
  <1> QED
    BY <1>1, <1>2, <1>3

------------------------------------------------------------------------------
(* The theorems *)

LEMMA NextKeepsCore == Core /\ [Next]_vars => Core'
  <1> SUFFICES ASSUME Core, [Next]_vars PROVE Core'
    OBVIOUS
  <1>1. CASE BeginApply
    <2>1. PICK n \in 1..MaxOps : Begin(Management, n, 0)
      BY <1>1 DEF BeginApply
    <2>2. Management \in Actor /\ n \in 0..MaxOps /\ 0 \in 0..Len(db.changes)
      BY BoundAssumption DEF Actor, Core, GoodDb, IsDatabase, IsLog
    <2> QED
      BY <2>1, <2>2, BeginKeepsCore
  <1>2. CASE BeginWrite
    <2>1. PICK p \in Project : Begin(p, 1, 0)
      BY <1>2 DEF BeginWrite
    <2>2. p \in Actor /\ 1 \in 0..MaxOps /\ 0 \in 0..Len(db.changes)
      BY BoundAssumption DEF Actor, Core, GoodDb, IsDatabase, IsLog
    <2> QED
      BY <2>1, <2>2, BeginKeepsCore
  <1>3. CASE BeginUndo
    <2>1. PICK c \in 1..Len(db.changes) : Begin(Management, db.changes[c].count, c)
      BY <1>3 DEF BeginUndo
    <2>2. IsLog(db.changes)
      BY DEF Core, GoodDb, IsDatabase
    <2>3. IsChange(db.changes[c])
      BY <2>2 DEF IsLog
    <2>4. Management \in Actor /\ db.changes[c].count \in 0..MaxOps /\ c \in 0..Len(db.changes)
      BY <2>2, <2>3 DEF Actor, IsLog, IsChange
    <2> QED
      BY <2>1, <2>4, BeginKeepsCore
  <1>4. CASE UNCHANGED vars
    <2>1. \A m \in MemoryId : PreBatch(m)' = Committed(m)'
      BY <1>4 DEF vars, PreBatch, Committed, Core, WorkExtendsDb
    <2>2. WorkExtendsDb'
      BY <1>4, <2>1 DEF vars, Core, WorkExtendsDb, ThisChange
    <2> QED
      BY <1>4, <2>2 DEF vars, Core
  <1> QED
    BY <1>1, <1>2, <1>3, <1>4, ApplyKeepsCore, CommitKeepsCore, RollbackKeepsCore,
       PlansKeepCore, HardDeleteKeepsCore, TouchReadKeepsCore, PruneReadsKeepsCore
    DEF Next

\* The core invariant holds of every reachable state.
THEOREM CoreInvariant == Spec => []Core
  BY InitCore, NextKeepsCore, PTL DEF Spec

\* Every table, the open transaction and the shown plan keep their types; an open
\* change never has more operations than its row was given.
THEOREM TypesHold == Spec => []TypeOK
  <1>1. Core => TypeOK
    <2> SUFFICES ASSUME Core PROVE TypeOK
      OBVIOUS
    <2>1. ASSUME NEW d, IsDatabase(d)
          PROVE  TypeOKDb(d)
      <3>1. \A c \in DOMAIN d.changes :
               /\ c \in Nat /\ IsChange(d.changes[c])
               /\ d.changes[c].undoes \in 0..(c - 1)
        BY <2>1 DEF IsDatabase, IsLog, IsChange
      <3> QED
        BY <2>1, <3>1 DEF IsDatabase, TypeOKDb, IsPartial, IsChange, Existing
    <2> QED
      BY <2>1 DEF Core, GoodDb, TypeOK, IsBatch, IsPlan
  <1> QED
    BY <1>1, CoreInvariant, PTL

\* The versions of a memory are numbered 1 to its current one, and its row says
\* what the latest says.
THEOREM RowsAreLatestVersions == Spec => []RowIsLatestVersion
  <1>1. Core => RowIsLatestVersion
    BY DEF Core, GoodDb, RowIsLatestVersion
  <1> QED
    BY <1>1, CoreInvariant, PTL

\* No version ever cites a version that is not stored, whatever was hard-deleted.
THEOREM NothingDangles == Spec => []NoDanglingSource
  <1>1. Core => NoDanglingSource
    BY DEF Core, GoodDb, NoDanglingSource
  <1> QED
    BY <1>1, CoreInvariant, PTL

\* A version cites only what older changes wrote.
THEOREM CitationsAreOlder == Spec => []CitesOlderChanges
  <1>1. Core => CitesOlderChanges
    BY DEF Core, GoodDb, CitesOlderChanges
  <1> QED
    BY <1>1, CoreInvariant, PTL

\* No sequence of changes, restores and undos makes a version more trusted, or
\* more widely synced, than one it cites.
THEOREM TrustIsNeverRaised == Spec => []TrustFollowsSources
  <1>1. Core => TrustFollowsSources
    BY DEF Core, GoodDb, TrustFollowsSources
  <1> QED
    BY <1>1, CoreInvariant, PTL

\* No memory reaches itself along sources, in any version: neither the batch as a
\* whole nor a restore of an old version closes a loop.
THEOREM SourcesAreAcyclic == Spec => []NoSourceCycle
  <1>1. Init => Walked
    <2> SUFFICES ASSUME Init PROVE Walked
      OBVIOUS
    <2>1. DOMAIN EmptyDb.versions = {} /\ EmptyBatch.cited = {}
      BY DEF EmptyDb, EmptyBatch
    <2>2. AcyclicDb(EmptyDb)
      BY <2>1 DEF AcyclicDb, Cites
    <2> QED
      BY <2>1, <2>2 DEF Init, Walked
  <1>2. Core /\ Core' /\ Walked /\ [Next]_vars => Walked'
    BY NextKeepsWalked
  <1>3. Walked => NoSourceCycle
    BY DEF Walked, NoSourceCycle
  <1> QED
    BY <1>1, <1>2, <1>3, CoreInvariant, PTL DEF Spec

\* A hard delete takes exactly the memories its operator was shown, at the versions and
\* with the texts shown, however long after and whatever was written in between.
THEOREM PurgedAsShownHolds == Spec => PurgedAsShown
  <1>1. Init => Shown
    BY DEF Init, Shown, NoPlan
  <1>2. Core /\ Core' /\ Shown /\ [Next]_vars => Shown'
    BY ShownKept
  <1>3. Core /\ Core' /\ Shown /\ [Next]_vars
          => [LET gone == Existing(db) \ Existing(db')
              IN  gone # {} =>
                    /\ {Current(db, m) : m \in gone} = plan.items
                    /\ \A m \in gone \cap DOMAIN plan.cues : db.memories[m].content = plan.cues[m]]_vars
    BY PurgeTakesShown
  <1>4. Spec => []Shown
    BY <1>1, <1>2, CoreInvariant, PTL DEF Spec
  <1>5. []Core /\ []Shown /\ [][Next]_vars => PurgedAsShown
    BY <1>3, PTL DEF PurgedAsShown
  <1> QED
    BY <1>4, <1>5, CoreInvariant, PTL DEF Spec

\* A committed undo put each memory of its change back where it was before, and a
\* created one among the deleted, whatever was written or hard-deleted since.
THEOREM UndoTakesBackHolds == Spec => []UndoTakesBack
  <1>1. Init => Reversed
    BY DEF Init, Reversed, EmptyDb, EmptyBatch
  <1>2. Core /\ Core' /\ Reversed /\ [Next]_vars => Reversed'
    BY ReversedKept
  <1>3. Core /\ Reversed => UndoTakesBack
    <2> SUFFICES ASSUME Core, Reversed PROVE UndoTakesBack
      OBVIOUS
    <2> SUFFICES ASSUME NEW c \in DOMAIN db.changes, db.changes[c].undoes # 0,
                        NEW i \in DOMAIN db.changes[c].steps
                 PROVE  \E j \in DOMAIN db.changes[db.changes[c].undoes].steps :
                          LET now == db.changes[c].steps[i]
                              then == db.changes[db.changes[c].undoes].steps[j]
                              State1(v) == db.versions[<<now.memory, v>>].state
                          IN  /\ now.memory = then.memory
                              /\ now.before = then.after
                              /\ State1(now.after) =
                                    IF then.op = "create"
                                    THEN [State1(then.after) EXCEPT !.content.deleted = TRUE]
                                    ELSE State1(then.before)
      BY DEF UndoTakesBack
    <2>1. DOMAIN db.changes = 1..Len(db.changes)
      BY DEF Core, GoodDb, IsDatabase, IsLog
    <2>2. PICK j \in DOMAIN db.changes[db.changes[c].undoes].steps :
             TakesBack(db, db.changes[c].steps[i], db.changes[db.changes[c].undoes].steps[j])
      BY <2>1 DEF Reversed
    <2> QED
      BY <2>2 DEF TakesBack
  <1> QED
    BY <1>1, <1>2, <1>3, CoreInvariant, PTL DEF Spec

\* The store implements the append-only version log: a commit appends at most one new
\* state, unlike the last, to each log, citing only what was there before; a hard
\* delete empties some logs for good and leaves no citation of them.
THEOREM StoreImplementsVersionLog == Spec => ImplementsVersionLog
  <1>1. Init => OnceEach /\ History!Init
    BY DEF Init, OnceEach, VersionOf, EmptyDb, Existing, Log, History!Init
  <1>2. Core /\ Core' /\ OnceEach /\ [Next]_vars => OnceEach'
    BY OnceEachKept
  <1>3. Core /\ Core' /\ OnceEach /\ [Next]_vars
          => [History!Change \/ History!Purge]_<<Log, purged>>
    BY StepImplementsLog
  <1> QED
    BY <1>1, <1>2, <1>3, CoreInvariant, PTL DEF Spec, ImplementsVersionLog, History!Spec
=============================================================================
