----------------------------- MODULE ScopePasses -----------------------------
(***************************************************************************)
(* The layers of a dream run that judge memories against each other: every *)
(* project for duplicates and superseded entries (consolidate), global the *)
(* same way, all of them for principles worth a global entry (extract),    *)
(* and the global entries whose sources moved since they cited them        *)
(* (recheck).  A layer lists its memories, sends them to a model and       *)
(* carries out each judgment at the versions sent.  What it sent is kept   *)
(* as a digest once all of it was settled, and skipped while it stays the  *)
(* same.  Meanwhile memories are written, deleted, restored and purged,    *)
(* and a run may be killed anywhere.                                       *)
(***************************************************************************)
EXTENDS Integers, Sequences, FiniteSets

CONSTANTS
    Memory,         \* ids: those of the first store, and those new_id() can draw
    Global,         \* the global project
    ProjectOrder,   \* the ordinary projects, as list_projects() gives them
    Wanted,         \* the choices of phases a run is started with (--phases)
    None,           \* no row yet, nothing
    Gone,           \* purged: the id is never drawn again
    Stores,         \* the stores to begin with: memory -> row, None
    Hits,           \* the versions today's content policy hits, all of them in the stores
    MaxVersion,     \* bound: versions of one memory
    MaxEdits,       \* bound: writes of others
    MaxRuns,        \* bound: runs started
    MaxGroups,      \* max_groups_per_run
    MaxJudgments    \* bound: judgments of one answer, those that flag aside

VARIABLES
    mems,       \* memory -> its row, None, Gone
    passes,     \* scope -> the input of its last finished pass, None (scope_passes)
    checks,     \* global entry -> the input it was last kept on, None (source_checks)
    run,        \* the run under way
    runs,       \* runs started
    edits,      \* writes of others
    extracted,  \* history: the versions extraction wrote
    flagged,    \* history: versions of global reported as instruction-like, and not judged since
    keptOn      \* history: entry -> how its sources stood when it was kept

scopeVars == <<mems, passes, checks, run, runs, edits, extracted, flagged, keptOn>>

Extraction == "extraction"
Ordinary == {ProjectOrder[i] : i \in 1..Len(ProjectOrder)}
Project == Ordinary \cup {Global}
Scope == Project \cup {Extraction}

\* A memory at a version, as citations and digests name it.
Ref == Memory \X (1..MaxVersion)
Ids(refs) == {r[1] : r \in refs}
VersionIn(refs, m) == (CHOOSE r \in refs : r[1] = m)[2]

\* cites: what each version cites, the last one being current; retired: the versions at which the
\* memory is deleted.
Row == [project: Project, retired: SUBSET (1..MaxVersion), cites: Seq(SUBSET Ref)]
\* Ids, versions, rows and projects are no markers; projects are listed once; a run has a layer.
ASSUME MarkersAssumption ==
    /\ None # Gone /\ None \notin Memory \cup Ref \cup Project
    /\ None \notin Row /\ Gone \notin Row
    /\ \A refs \in SUBSET Ref : None # refs
ASSUME ProjectsAssumption ==
    /\ ProjectOrder \in Seq(Ordinary) /\ Global \notin Ordinary /\ Extraction \notin Project
    /\ \A i, j \in 1..Len(ProjectOrder) : ProjectOrder[i] = ProjectOrder[j] => i = j
    /\ \A wanted \in Wanted : wanted \cap {"consolidate", "extract"} # {}
ASSUME StoresAssumption ==
    /\ MaxVersion \in Nat \ {0} /\ Hits \subseteq Ref
    /\ \A rows \in Stores : /\ rows \in [Memory -> Row \cup {None, Gone}]
                            /\ \A m \in Memory : rows[m] \in Row =>
                                   /\ Len(rows[m].cites) \in 1..MaxVersion
                                   /\ rows[m].retired \subseteq 1..Len(rows[m].cites)
\* Ids are drawn from so many and no more.
ASSUME MemoryAssumption == IsFiniteSet(Memory)
\* A version cites versions that are there (the foreign key of memory_sources), one of a memory at most
\* (its primary key), and none of its own (_refuse_cycles).
ASSUME CitationsAssumption ==
    \A rows \in Stores, m \in Memory : rows[m] \in Row =>
        \A v \in 1..Len(rows[m].cites) :
            /\ \A r \in rows[m].cites[v] : rows[r[1]] \in Row /\ r[2] <= Len(rows[r[1]].cites)
            /\ \A r, q \in rows[m].cites[v] : r[1] = q[1] => r = q
            /\ \A r \in rows[m].cites[v] : r[1] # m

Exists(m) == mems[m] \notin {None, Gone}
Current(m) == <<m, Len(mems[m].cites)>>
Deleted(row) == Len(row.cites) \in row.retired
Live(m) == Exists(m) /\ ~Deleted(mems[m])

\* A row with a further version: what it cites, and whether the memory is deleted at it.
NextVersion(row, cites, deleted) ==
    [row EXCEPT !.cites = Append(@, cites),
                !.retired = @ \cup (IF deleted THEN {Len(row.cites) + 1} ELSE {})]
Last(m) == mems[m].cites[Len(mems[m].cites)]

\* A change: the row it creates, the version it rewrites, the versions it soft-deletes.
Group(into, target, cites, retire) ==
    [into |-> into, target |-> target, cites |-> cites, retire |-> retire]

\* sent: what the scope, or the entry, was judged by.  marks: the memories its answer calls
\* instruction-like; flags: those of them still to be reported.
NoRun == [at |-> "idle", todo |-> <<>>, excluded |-> {}, hits |-> {}, groups |-> 0,
          sent |-> {}, sources |-> None, marks |-> {}, flags |-> {}, finished |-> TRUE, left |-> 0,
          owner |-> None, change |-> None,
          seen |-> None, entries |-> {}, entry |-> None, standing |-> None,
          shunned |-> {}, touched |-> {}, born |-> {}, skipped |-> {}]

------------------------------------------------------------------------------
(* The store *)

\* Everything a walk from these reaches, which goes from each to what next gives for it.
AllTheWay(next, from) ==
    LET steps == Cardinality(DOMAIN next)
        reached[i \in 0..steps] ==
            IF i = 0 THEN from
            ELSE LET before == reached[i - 1]
                 IN before \cup UNION {next[x] : x \in before \cap DOMAIN next}
    IN reached[steps]

\* The memories a walk from these reaches along what any version of each cites.
Reach(ids) ==
    AllTheWay([m \in {k \in Memory : Exists(k)} |->
                  UNION {Ids(mems[m].cites[v]) : v \in 1..Len(mems[m].cites)}], ids)

\* What each version there is cites.
Cites ==
    [r \in {q \in Ref : Exists(q[1]) /\ q[2] <= Len(mems[q[1]].cites)} |-> mems[r[1]].cites[r[2]]]

\* A source set with new citations, each in the place of one of the same memory.
Recited(cited, new) == {r \in cited : r[1] \notin Ids(new)} \cup new

Changed(g) == g.retire \cup ({g.target} \ {None})
NewlyCited(g) ==
    g.cites \ (IF g.target = None THEN {} ELSE Last(g.target[1]))

\* Mutant of Applies: a memory is changed at whatever version it is by now.
AppliesToAny(g) ==
    /\ \A r \in Changed(g) : Live(r[1]) /\ Current(r[1])[2] < MaxVersion
    /\ \A r \in NewlyCited(g) : Live(r[1]) /\ Current(r[1]) = r
    /\ g.target # None => g.target[1] \notin Reach(Ids(g.cites))

\* Whether a change finds everything as it was sent; else it is a conflict.
Applies(g) ==
    /\ \A r \in Changed(g) : Live(r[1]) /\ Current(r[1]) = r
    /\ \A r \in NewlyCited(g) : Live(r[1]) /\ Current(r[1]) = r
    /\ g.target # None => g.target[1] \notin Reach(Ids(g.cites))
    /\ \A r \in Changed(g) : r[2] < MaxVersion

\* The rows a change leaves, a created one at new.
Written(g, new) ==
    [m \in Memory |->
        CASE g.into # None /\ m = new -> [project |-> g.into, retired |-> {}, cites |-> <<g.cites>>]
          [] m \in Ids({g.target} \ {None}) -> NextVersion(mems[m], g.cites, FALSE)
          [] m \in Ids(g.retire) -> NextVersion(mems[m], Last(m), TRUE)
          [] OTHER -> mems[m]]

Fresh(g) == IF g.into = None THEN {None} ELSE {m \in Memory : mems[m] = None}

\* apply_group as "dream": it conflicts, a policy or the group limit refuses it, or all of it is written.
Apply(g, new) ==
    /\ run.groups < MaxGroups
    /\ Applies(g)
    /\ new \in Fresh(g)
    /\ mems' = Written(g, new)

------------------------------------------------------------------------------
(* From the start of a run to a scope *)

\* Consolidation goes from project to project, then to global; extraction comes last.
Scopes(wanted) ==
    (IF "consolidate" \in wanted THEN ProjectOrder \o <<Global>> ELSE <<>>)
        \o (IF "extract" \in wanted THEN <<Extraction>> ELSE <<>>)

StartRun ==
    /\ run.at = "idle" /\ runs < MaxRuns
    /\ \E wanted \in Wanted : run' = [NoRun EXCEPT !.at = "scan", !.todo = Scopes(wanted)]
    /\ runs' = runs + 1
    /\ UNCHANGED <<mems, passes, checks, edits, extracted, flagged, keptOn>>

\* A memory whose current version hits is left out of the run; of others, the versions that hit.
Scan ==
    LET hits == {r \in Hits : Exists(r[1])}
        current == {r \in hits : r = Current(r[1])}
    IN
    /\ run.at = "scan"
    /\ run' = [run EXCEPT !.at = "scope", !.excluded = Ids(current), !.hits = hits \ current,
                          !.shunned = hits]
    /\ UNCHANGED <<mems, passes, checks, runs, edits, extracted, flagged, keptOn>>

TheScope == Head(run.todo)

\* What a pass kept for itself is forgotten.  After extraction come the rechecks.
Left ==
    LET next == IF TheScope = Extraction THEN "list" ELSE
                IF Len(run.todo) = 1 THEN "idle" ELSE "scope"
    IN IF next = "idle" THEN NoRun
       ELSE [NoRun EXCEPT !.at = next, !.todo = Tail(run.todo), !.excluded = run.excluded,
                !.hits = run.hits, !.groups = run.groups, !.shunned = run.shunned,
                !.touched = run.touched]

\* What a scope may send: its memories at their versions, those left out of the run aside.
Usable(s) ==
    {Current(m) : m \in {k \in Memory : /\ Live(k) /\ k \notin run.excluded
                                        /\ s # Extraction => mems[k].project = s}}

\* Nothing to judge, or nothing new since it was last settled: skipped.
List ==
    LET input == Usable(TheScope) IN
    /\ run.at = "scope"
    /\ run' = IF input = {} \/ input = passes[TheScope]
              THEN [Left EXCEPT !.skipped = input]
              ELSE [run EXCEPT !.at = "read", !.sent = input, !.skipped = {}]
    /\ UNCHANGED <<mems, passes, checks, runs, edits, extracted, flagged, keptOn>>

\* The sources at the versions listed; a memory purged since ends the pass.
ReadSources ==
    /\ run.at = "read"
    /\ run' = IF \E m \in Ids(run.sent) : ~Exists(m)
              THEN Left
              ELSE [run EXCEPT !.at = "asked",
                       !.sources = [m \in Ids(run.sent) |-> [project |-> mems[m].project,
                                        cites |-> mems[m].cites[VersionIn(run.sent, m)]]]]
    /\ UNCHANGED <<mems, passes, checks, runs, edits, extracted, flagged, keptOn>>

\* Too large, or no answer that can be used: nothing is stored, the next run asks again.
NoAnswer ==
    /\ run.at = "asked"
    /\ run' = Left
    /\ UNCHANGED <<mems, passes, checks, runs, edits, extracted, flagged, keptOn>>

\* Who each memory belongs to, as extraction reads it once it has the answer.
Owners == [m \in {k \in Memory : Exists(k)} |-> mems[m].project]

Answered ==
    /\ run.at = "asked"
    /\ \E marks \in SUBSET (IF TheScope = Extraction THEN {} ELSE Ids(run.sent)) :
          /\ run' = [run EXCEPT !.at = "judging", !.left = MaxJudgments,
                        !.marks = marks, !.flags = marks,
                        !.owner = IF TheScope = Extraction THEN Owners ELSE None]
    /\ flagged' = flagged \ run.sent
    /\ UNCHANGED <<mems, passes, checks, runs, edits, extracted, keptOn>>

------------------------------------------------------------------------------
(* One judgment after the other.  A contradiction, no change, and whatever a rule refuses is      *)
(* reported and leaves all this as it is.                                                         *)

\* An instruction-like memory is left out of all that follows, and its scope judged again.
Flag(m) ==
    /\ run.at = "judging" /\ m \in run.flags
    /\ run' = [run EXCEPT !.flags = @ \ {m}, !.finished = FALSE,
                  !.excluded = @ \cup {m}, !.shunned = @ \cup {r \in run.sent : r[1] = m}]
    /\ flagged' = flagged \cup {r \in run.sent : TheScope = Global /\ r[1] = m}
    /\ UNCHANGED <<mems, passes, checks, runs, edits, extracted, keptOn>>

\* One memory that states what two or more state, which are retired.
Merges ==
    {[change |-> Group(TheScope, None, refs, refs), names |-> Ids(refs)] :
        refs \in {some \in SUBSET run.sent : Cardinality(some) > 1}}

\* A memory outdated by others, cited as the evidence.
Rewrites ==
    UNION {{[change |-> Group(None, r, Recited(run.sources[r[1]].cites, evidence), {}),
             names |-> Ids(evidence \cup {r})] :
                evidence \in (SUBSET (run.sent \ {r})) \ {{}}} : r \in run.sent}

\* A memory a newer one replaces; which of two is newer is left open.
Supersedes ==
    {[change |-> Group(None, None, {}, {pair[1]}), names |-> Ids({pair[1], pair[2]})] :
        pair \in {p \in run.sent \X run.sent : p[1] # p[2]}}

\* Mutant of Spared: in the order of the answer, what was not flagged yet is still changed.
SparedInOrder(names) == names \cap run.excluded = {}

\* A judgment that names a memory the same answer flags is not carried out, wherever it stands.
Spared(names) == names \cap run.marks = {}

\* The versions a write leaves that were not there.
Born(rows) == {<<m, Len(rows[m].cites)>> : m \in {k \in Memory : rows[k] \notin {mems[k], Gone}}}

Touched(g, new) ==
    Ids(Changed(g) \cup NewlyCited(g)) \cup ({new} \ {None})

Consolidate ==
    /\ run.at = "judging" /\ TheScope # Extraction /\ run.left > 0
    /\ \E judgment \in Merges \cup Rewrites \cup Supersedes, new \in Memory \cup {None} :
          LET g == judgment.change IN
          /\ Spared(judgment.names)
          /\ Apply(g, new)
          /\ run' = [run EXCEPT !.left = @ - 1, !.groups = @ + 1, !.touched = @ \cup Touched(g, new),
                                !.born = @ \cup Born(mems')]
    /\ UNCHANGED <<passes, checks, runs, edits, extracted, flagged, keptOn>>

\* Malformed, a reason the policy hits, or a change that was not made: not finished.
NotApplied ==
    /\ run.at \in {"judging", "applying"} /\ run.left > 0
    /\ run' = [run EXCEPT !.at = "judging", !.left = @ - 1, !.finished = FALSE, !.change = None]
    /\ UNCHANGED <<mems, passes, checks, runs, edits, extracted, flagged, keptOn>>

\* A new global entry.
News == {Group(Global, None, refs, {}) : refs \in (SUBSET run.sent) \ {{}}}

\* A global entry that cites more than it did, reworded or not.
Growths ==
    UNION {{Group(None, r, Recited(run.sources[r[1]].cites, refs), {}) :
                refs \in {new \in SUBSET (run.sent \ {r}) : ~new \subseteq run.sources[r[1]].cites}} :
           r \in {s \in run.sent : run.sources[s[1]].project = Global}}

\* Mutant of Traced: a global entry counts as a project of its own.
TracedAsCited(refs) == {run.owner[m] : m \in Ids(refs)}

\* What a trace walks: the citations, and of each global entry among them its own in turn.
Trail(refs) ==
    AllTheWay([r \in {q \in DOMAIN Cites : q[1] \in DOMAIN run.owner /\ run.owner[q[1]] = Global} |->
                  Cites[r]], refs)

\* The ordinary projects the citations come from, those of a global entry through its own.
Traced(refs) == {run.owner[m] : m \in Ids(Trail(refs))} \ {Global}

\* A memory on the way that is gone: the input changed.
Traceable(refs) ==
    \A r \in Trail(refs) : /\ r[1] \in DOMAIN run.owner
                           /\ run.owner[r[1]] = Global => Exists(r[1])

Extract ==
    /\ run.at = "judging" /\ TheScope = Extraction /\ run.left > 0
    /\ \E g \in News \cup Growths :
          /\ Traceable(g.cites)
          /\ Cardinality(Traced(g.cites)) > 1
          /\ run' = [run EXCEPT !.at = "applying", !.change = g]
    /\ UNCHANGED <<mems, passes, checks, runs, edits, extracted, flagged, keptOn>>

ApplyExtracted ==
    /\ run.at = "applying"
    /\ \E new \in Memory \cup {None} :
          /\ Apply(run.change, new)
          /\ run' = [run EXCEPT !.at = "judging", !.left = @ - 1, !.groups = @ + 1, !.change = None,
                                !.touched = @ \cup Touched(run.change, new),
                                !.born = @ \cup Born(mems')]
          /\ extracted' = extracted \cup
                 {IF new = None THEN <<run.change.target[1], run.change.target[2] + 1>> ELSE <<new, 1>>}
    /\ UNCHANGED <<passes, checks, runs, edits, flagged, keptOn>>

\* Mutant of EndPass: what is there by now is taken for judged.
EndPassAsOfNow ==
    /\ run.at = "judging" /\ run.flags = {}
    /\ passes' = IF run.finished THEN [passes EXCEPT ![TheScope] = Usable(TheScope)] ELSE passes
    /\ run' = Left
    /\ UNCHANGED <<mems, checks, runs, edits, extracted, flagged, keptOn>>

\* The input as it was sent is stored, if all of it was settled.
EndPass ==
    /\ run.at = "judging" /\ run.flags = {}
    /\ passes' = IF run.finished THEN [passes EXCEPT ![TheScope] = run.sent] ELSE passes
    /\ run' = Left
    /\ UNCHANGED <<mems, checks, runs, edits, extracted, flagged, keptOn>>

------------------------------------------------------------------------------
(* The recheck of the global entries *)

\* Everything is listed once, deleted memories too.
ListEntries ==
    /\ run.at = "list"
    /\ run' = [run EXCEPT !.at = "recheck", !.seen = mems, !.skipped = {},
                  !.entries = {m \in Memory : Live(m) /\ mems[m].project = Global /\ m \notin run.excluded}]
    /\ UNCHANGED <<mems, passes, checks, runs, edits, extracted, flagged, keptOn>>

Seen(m) == run.seen[m] \notin {None, Gone}
SeenAt(m) == <<m, Len(run.seen[m].cites)>>

\* The sources of an entry as listed, and those whose state is not the one cited.
SourcesOf(e) == mems[e].cites[SeenAt(e)[2]]
Moved(e) == {r \in SourcesOf(e) : Deleted(run.seen[r[1]]) \/ SeenAt(r[1]) # r}

\* A version the recheck would send that the scan keeps from the model.
HeldBack(r) ==
    \/ r \in run.hits
    \/ ~Deleted(run.seen[r[1]]) /\ r[1] \in run.excluded

\* The memories that carry a retired source forward: they cite it at the version listed, whatever
\* version they are at by now.  What was purged since cites nothing.
Successors(e, source) ==
    {m \in Memory \ ({e} \cup run.excluded) :
        /\ Seen(m) /\ ~Deleted(run.seen[m])
        /\ Exists(m) /\ source \in Ids(mems[m].cites[SeenAt(m)[2]])}

\* What each moved source may be replaced by: itself, or if it was retired a successor.
Allowed(e) ==
    {<<r[1], SeenAt(r[1])>> : r \in {s \in Moved(e) : ~Deleted(run.seen[s[1]])}}
        \cup UNION {{<<r[1], SeenAt(m)>> : m \in Successors(e, r[1])} :
                       r \in {s \in Moved(e) : Deleted(run.seen[s[1]])}}

\* Mutant of Pairs: a source counts as it was cited.
PairsAsCited(e) == {SeenAt(e)} \cup Moved(e)

\* What the digest is taken over: the entry, its moved sources as cited and as they are, successors.
Pairs(e) ==
    {SeenAt(e)} \cup Moved(e) \cup {SeenAt(r[1]) : r \in Moved(e)} \cup {p[2] : p \in Allowed(e)}

\* How the sources of an entry stand.
Standing(e) ==
    [entry |-> SeenAt(e), allowed |-> Allowed(e),
     moved |-> {[cited |-> r, now |-> SeenAt(r[1]), deleted |-> Deleted(run.seen[r[1]])] : r \in Moved(e)}]

\* An entry no source of which moved, one the scan holds back, one purged or with a source purged
\* since, and one kept on the same input are passed over; any other is sent.
Recheck(e) ==
    LET rest == [run EXCEPT !.entries = @ \ {e}]
        readable == Exists(e) /\ \A r \in SourcesOf(e) : Seen(r[1]) /\ Exists(r[1])
    IN
    /\ run.at = "recheck" /\ e \in run.entries
    /\ run' = IF \/ ~readable
                 \/ Moved(e) = {}
                 \/ \E r \in Moved(e) : HeldBack(r)
              THEN rest
              ELSE [rest EXCEPT !.at = IF Pairs(e) = checks[e] THEN "kept" ELSE "rechecking",
                       !.entry = e, !.sent = Pairs(e), !.sources = SourcesOf(e),
                       !.standing = Standing(e)]
    /\ UNCHANGED <<mems, passes, checks, runs, edits, extracted, flagged, keptOn>>

Rechecked(r) ==
    [r EXCEPT !.at = "recheck", !.entry = None, !.sent = {}, !.sources = None, !.standing = None]

\* Unchanged since its last keep; or no answer, an overturned entry, a decision that is malformed or
\* refused, or a change that was not made: the entry is left.
LeaveEntry ==
    /\ run.at \in {"kept", "rechecking"}
    /\ run' = Rechecked(run)
    /\ UNCHANGED <<mems, passes, checks, runs, edits, extracted, flagged, keptOn>>

KeepEntry ==
    /\ run.at = "rechecking"
    /\ checks' = [checks EXCEPT ![run.entry] = run.sent]
    /\ keptOn' = [keptOn EXCEPT ![run.entry] = run.standing]
    /\ run' = Rechecked(run)
    /\ UNCHANGED <<mems, passes, runs, edits, extracted, flagged>>

\* Refreshed or revised: some moved sources, each once, are replaced by what was sent for them.
Reword ==
    /\ run.at = "rechecking"
    /\ \E by \in SUBSET run.standing.allowed, new \in {None} :
          LET replaced == {p[1] : p \in by}
              kept == {r \in run.sources : r[1] \notin replaced}
              g == Group(None, SeenAt(run.entry), Recited(kept, {p[2] : p \in by}), {})
          IN
          /\ by # {} /\ Cardinality(replaced) = Cardinality(by)
          /\ Apply(g, new)
          /\ run' = [Rechecked(run) EXCEPT !.groups = @ + 1, !.touched = @ \cup Touched(g, new)]
    /\ UNCHANGED <<passes, checks, runs, edits, extracted, flagged, keptOn>>

EndRun ==
    /\ run.at = "recheck" /\ run.entries = {}
    /\ run' = NoRun
    /\ UNCHANGED <<mems, passes, checks, runs, edits, extracted, flagged, keptOn>>

\* The process dies, or an error ends the run: what was stored stays.
Kill ==
    /\ run.at # "idle"
    /\ run' = NoRun
    /\ UNCHANGED <<mems, passes, checks, runs, edits, extracted, flagged, keptOn>>

------------------------------------------------------------------------------
(* Others: agents and the user *)

Edit(rows) ==
    /\ edits < MaxEdits
    /\ mems' = rows /\ edits' = edits + 1
    /\ run' = IF run.at \in {"read", "asked", "judging", "applying"}
              THEN [run EXCEPT !.born = @ \cup Born(rows)] ELSE run
    /\ UNCHANGED <<passes, checks, runs, extracted, flagged, keptOn>>

\* An agent writes to a project, never to global.
Remember(m, p) ==
    /\ mems[m] = None
    /\ Edit([mems EXCEPT ![m] = [project |-> p, retired |-> {}, cites |-> <<{}>>]])

Writable(m) == Exists(m) /\ Current(m)[2] < MaxVersion

\* Text today's policy passes; the sources stay.
Update(m) ==
    /\ Writable(m) /\ Live(m)
    /\ Edit([mems EXCEPT ![m] = NextVersion(@, Last(m), FALSE)])

\* Refused while the text hits the policy.
SoftDelete(m) ==
    /\ Writable(m) /\ Live(m) /\ Current(m) \notin Hits
    /\ Edit([mems EXCEPT ![m] = NextVersion(@, Last(m), TRUE)])

\* An earlier version once more, as the user restores it: its text, its sources, and deleted if it
\* was.  An undo is made of these and of soft deletes.
Restore(m, v) ==
    /\ Writable(m) /\ v < Current(m)[2] /\ <<m, v>> \notin Hits
    /\ \A r \in mems[m].cites[v] : Exists(r[1])
    /\ Edit([mems EXCEPT ![m] = NextVersion(@, @.cites[v], v \in @.retired)])

\* Everything that ever cited it goes with it, all the way.
Purge(m) ==
    /\ Exists(m)
    /\ Edit([k \in Memory |-> IF Exists(k) /\ m \in Reach({k}) THEN Gone ELSE mems[k]])

Init ==
    /\ mems \in Stores
    /\ passes = [s \in Scope |-> None] /\ checks = [m \in Memory |-> None]
    /\ run = NoRun /\ runs = 0 /\ edits = 0
    /\ extracted = {} /\ flagged = {}
    /\ keptOn = [m \in Memory |-> None]

Next ==
    \/ StartRun \/ Scan \/ List \/ ReadSources \/ NoAnswer \/ Answered
    \/ \E m \in Memory : Flag(m)
    \/ Consolidate \/ NotApplied \/ Extract \/ ApplyExtracted \/ EndPass
    \/ ListEntries \/ (\E e \in Memory : Recheck(e)) \/ LeaveEntry \/ KeepEntry \/ Reword
    \/ EndRun \/ Kill
    \/ \E m \in Memory : \/ Update(m) \/ SoftDelete(m) \/ Purge(m)
                         \/ \E p \in Ordinary : Remember(m, p)
                         \/ \E v \in 1..MaxVersion : Restore(m, v)

ScopeSpec == Init /\ [][Next]_scopeVars

------------------------------------------------------------------------------
(* Properties *)

\* A change of a run never rewrites, retires or newly cites a memory that run left out or flagged,
\* in whatever order the answer gives its judgments, and in whatever scope comes later.
NeverBuiltOnFlagged == run.touched \cap Ids(run.shunned \ run.hits) = {}

\* Every version cited, and every version those cite, all the way.
Behind(r) == AllTheWay(Cites, Cites[r])

\* A global entry extraction wrote comes from two ordinary projects, followed through whatever
\* global entries it cites, whoever wrote and purged meanwhile.
TwoProjects ==
    \A r \in extracted :
        Exists(r[1]) => Cardinality({mems[m].project : m \in Ids(Behind(r))} \ {Global}) > 1

\* A pass never counts as judged what was written while the model thought or by its own changes:
\* the next run does not skip it.
WrittenMeanwhileIsNext ==
    [][\A s \in Scope : passes'[s] # passes[s] => passes'[s] \cap run.born = {}]_scopeVars

\* An entry is left alone after a keep only while it, its moved sources and all that may stand in
\* for them are what they were when it was kept, whatever was written, restored or purged since.
KeptAsItStands == run.at = "kept" => keptOn[run.entry] = run.standing

\* A run changes a memory only from the version it sent, and newly cites only versions it sent.
ActsOnWhatItSent ==
    [][run'.touched # run.touched =>
          \A m \in Memory : mems[m] # mems'[m] =>
             /\ Exists(m) => Current(m) \in run.sent
             /\ LET was == IF Exists(m) THEN Last(m) ELSE {}
                    is == mems'[m].cites[Len(mems'[m].cites)]
                IN is \ was \subseteq run.sent]_scopeVars

\* README: a scope that flagged a memory is judged again by the next run.
FlaggedIsJudgedAgain == run.skipped \cap flagged = {}
=============================================================================
