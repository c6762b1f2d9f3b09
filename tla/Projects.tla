------------------------------ MODULE Projects ------------------------------
(***************************************************************************)
(* Projects and the directories they are bound to.  A binding is planned   *)
(* and shown in one step and confirmed in another, minutes later, with     *)
(* other terminals and the file system moving in between; a directory is   *)
(* resolved to the nearest bound directory above it, or to nothing, or to  *)
(* a refusal to guess.  A comparison the file system cannot answer refuses *)
(* or degrades, which only takes steps away, so it has no state of its own.*)
(***************************************************************************)
EXTENDS Integers, FiniteSets

CONSTANTS
    Project,      \* the ids new_id() can draw
    Dir,          \* absolute path spellings
    Up,           \* Up[d]: the path d and its parents
    Home,         \* the user's home directory
    Store,        \* the canonical directory of the store
    None,         \* NULL: no root, no project
    Gone,         \* where a path leads that is no directory
    MayLead,      \* bound: MayLead[d], where the path d may ever lead
    Terminal      \* bound: the operators' terminals, one plan on each

ASSUME TreeAssumption ==
    /\ Home \in Dir /\ Store \in Dir
    /\ Up \in [Dir -> SUBSET Dir]
    /\ \A d \in Dir : d \in Up[d]
    /\ \A d, e \in Dir : e \in Up[d] => Up[e] \subseteq Up[d]
    /\ \A d \in Dir : \A s \in SUBSET Up[d] : s # {} => \E a \in s : s \subseteq Up[a]
    /\ \A d, e \in Dir : d \in Up[e] /\ e \in Up[d] => d = e
ASSUME MayLeadAssumption == MayLead \in [Dir -> SUBSET (Dir \cup {Gone})]
ASSUME SentinelAssumption == None \notin Dir \cup Project /\ Gone \notin Dir

VARIABLES
    projects,     \* the projects rows: id -> [root, is_global]
    leads,        \* the file system: the real directory a path leads to, or Gone
    shown         \* the plan on each terminal, or None

projectVars == <<projects, leads, shown>>

Row == [root: Dir \cup {None}, is_global: BOOLEAN]
Plan == [kind: {"init", "adopt", "unbind"}, project: Project \cup {None}, root: Dir]
ASSUME PlanAssumption == None \notin Plan

Bound == {p \in DOMAIN projects : projects[p].root # None}
GlobalId == {p \in DOMAIN projects : projects[p].is_global}

PutRow(p, row) ==
    projects' = [q \in DOMAIN projects \cup {p} |-> IF q = p THEN row ELSE projects[q]]

------------------------------------------------------------------------------
(* The file system *)

\* A file tree with directory symlinks: what a path leads to is a real path,
\* below a real path everything is real or a link, below nothing is nothing.
FileTree(f) ==
    /\ f[Home] = Home /\ f[Store] = Store
    /\ \A d \in Dir : f[d] \in MayLead[d]
    /\ \A d \in Dir : f[d] # Gone => f[f[d]] = f[d]
    /\ \A d \in Dir : \A a \in Up[d] :
          /\ f[a] = Gone => f[d] = Gone
          /\ f[d] = d => f[a] = a

FileTrees == {f \in [Dir -> Dir \cup {Gone}] : FileTree(f)}

\* canonical_directory: where `d` leads, for a directory.
CanonicalDirectory(d) == leads[d]

\* same_directory: both exist and are one directory.
SameDirectory(a, b) == leads[a] # Gone /\ leads[a] = leads[b]

\* covers: `outer` is `inner` or above it, by spelling or by the directory itself.
Covers(outer, inner) == \E a \in Up[inner] : outer = a \/ SameDirectory(outer, a)

\* root_state = "not-canonical": the root or something above it was re-pointed.
Redirected(root) == \E a \in Up[root] : leads[a] \notin {a, Gone}

------------------------------------------------------------------------------
(* Resolving a directory *)

BoundAt(a) == {p \in Bound : projects[p].root = a \/ SameDirectory(projects[p].root, a)}

Degraded == [state |-> "degraded", project |-> None]

\* Mutant of NearestBound: no integrity check of the other roots.
NearestBoundUnchecked(start, logical) ==
    LET levels == {a \in Up[logical] : BoundAt(a) # {}}
        nearest == CHOOSE a \in levels : levels \subseteq Up[a]
    IN  CASE CanonicalDirectory(start) = Gone -> Degraded
          [] CanonicalDirectory(start) # Gone /\ levels = {} ->
                [state |-> "none", project |-> None]
          [] OTHER -> IF Cardinality(BoundAt(nearest)) > 1 THEN Degraded
                      ELSE [state |-> "registered",
                            project |-> CHOOSE p \in BoundAt(nearest) : TRUE]

\* nearest_bound: integrity of every root first, then the nearest level with a
\* match, of one project only; the walk runs over `logical`.
NearestBound(start, logical) ==
    LET levels == {a \in Up[logical] : BoundAt(a) # {}}
        nearest == CHOOSE a \in levels : levels \subseteq Up[a]
    IN  CASE \/ CanonicalDirectory(start) = Gone
             \/ \E p \in Bound : Redirected(projects[p].root) -> Degraded
          [] /\ CanonicalDirectory(start) # Gone
             /\ \A p \in Bound : ~Redirected(projects[p].root)
             /\ levels = {} -> [state |-> "none", project |-> None]
          [] OTHER -> IF Cardinality(BoundAt(nearest)) > 1 THEN Degraded
                      ELSE [state |-> "registered",
                            project |-> CHOOSE p \in BoundAt(nearest) : TRUE]

------------------------------------------------------------------------------
(* Plans *)

\* Mutant of Refused: bound directories are compared as text.
RefusedByText(root, project) ==
    \/ Covers(root, Home) \/ Covers(root, Store) \/ Covers(Store, root)
    \/ \E p \in Bound \ {project} : projects[p].root = root

\* _refuse: it would take in the home directory or the store, or lie in the
\* store, or it is another project's directory under any spelling.
Refused(root, project) ==
    \/ Covers(root, Home) \/ Covers(root, Store) \/ Covers(Store, root)
    \/ \E p \in Bound \ {project} :
          projects[p].root = root \/ SameDirectory(root, projects[p].root)

\* _adoptable.
Adoptable(p) == p \in DOMAIN projects /\ ~projects[p].is_global

Show(plan) ==
    /\ \E t \in Terminal : shown[t] = None /\ shown' = [shown EXCEPT ![t] = plan]
    /\ UNCHANGED <<projects, leads>>

\* plan_root for `memriver project init`: the directory itself, no project yet.
PlanInit(d) ==
    /\ CanonicalDirectory(d) # Gone
    /\ ~Refused(CanonicalDirectory(d), None)
    /\ Show([kind |-> "init", project |-> None, root |-> CanonicalDirectory(d)])

\* plan_root for `memriver project adopt` of a project without a directory; one
\* bound here already has nothing to do, one bound elsewhere is refused.
PlanAdopt(p, d) ==
    /\ Adoptable(p)
    /\ CanonicalDirectory(d) # Gone
    /\ ~Refused(CanonicalDirectory(d), p)
    /\ projects[p].root = None
    /\ Show([kind |-> "adopt", project |-> p, root |-> CanonicalDirectory(d)])

\* plan_unbind: the directory named is the stored one, or leads to it.
PlanUnbind(p, d) ==
    /\ p \in Bound
    /\ projects[p].root \in {d, CanonicalDirectory(d)}
    /\ Show([kind |-> "unbind", project |-> p, root |-> projects[p].root])

\* The operator declines, or the confirmed write is refused.
Decline ==
    /\ \E t \in Terminal : shown[t] # None /\ shown' = [shown EXCEPT ![t] = None]
    /\ UNCHANGED <<projects, leads>>

------------------------------------------------------------------------------
(* Confirmed plans, each in one write transaction *)

Answer(t, kind) ==
    /\ shown[t] # None /\ shown[t].kind = kind
    /\ shown' = [shown EXCEPT ![t] = None]
    /\ UNCHANGED leads

\* _check_confirmed: the confirmed directory, on today's file system and rows.
Confirmed(plan, project) ==
    /\ CanonicalDirectory(plan.root) = plan.root
    /\ ~Refused(plan.root, project)

\* projects.root is UNIQUE.
Unique(root) == \A p \in Bound : projects[p].root # root

\* SqliteProjectStore.create: the project and its directory in one row.
ConfirmInit(t, p) ==
    LET plan == shown[t] IN
    /\ Answer(t, "init")
    /\ Confirmed(plan, None)
    /\ p \notin DOMAIN projects
    /\ Unique(plan.root)
    /\ PutRow(p, [root |-> plan.root, is_global |-> FALSE])

\* SqliteProjectStore.bind, on the row as it is now; a project that holds the
\* directory already is left alone, one that holds another is refused.
ConfirmAdopt(t) ==
    LET plan == shown[t] IN
    /\ Answer(t, "adopt")
    /\ Adoptable(plan.project)
    /\ Confirmed(plan, plan.project)
    /\ projects[plan.project].root = None
    /\ Unique(plan.root)
    /\ PutRow(plan.project, [projects[plan.project] EXCEPT !.root = plan.root])

\* SqliteProjectStore.unbind: exactly the pair the confirmation showed.
ConfirmUnbind(t) ==
    LET plan == shown[t] IN
    /\ Answer(t, "unbind")
    /\ plan.project \in DOMAIN projects
    /\ projects[plan.project].root = plan.root
    /\ PutRow(plan.project, [projects[plan.project] EXCEPT !.root = None])

\* Mutant of EnsureGlobal: the row was looked for before the transaction.
EnsureGlobalUnlocked(p) ==
    /\ p \notin DOMAIN projects
    /\ PutRow(p, [root |-> None, is_global |-> TRUE])
    /\ UNCHANGED <<leads, shown>>

\* ensure_global: the row is looked for under the write lock.
EnsureGlobal(p) ==
    /\ GlobalId = {}
    /\ p \notin DOMAIN projects
    /\ PutRow(p, [root |-> None, is_global |-> TRUE])
    /\ UNCHANGED <<leads, shown>>

\* The user makes, removes, links and unlinks directories.
FilesChange ==
    /\ \E f \in FileTrees \ {leads} : leads' = f
    /\ UNCHANGED <<projects, shown>>

------------------------------------------------------------------------------
ProjectInit ==
    /\ projects = <<>>
    /\ leads \in FileTrees
    /\ shown = [t \in Terminal |-> None]

ProjectNext ==
    \/ \E d \in Dir : PlanInit(d)
    \/ \E p \in Project, d \in Dir : PlanAdopt(p, d)
    \/ \E p \in Project, d \in Dir : PlanUnbind(p, d)
    \/ Decline
    \/ \E t \in Terminal, p \in Project : ConfirmInit(t, p)
    \/ \E t \in Terminal : ConfirmAdopt(t)
    \/ \E t \in Terminal : ConfirmUnbind(t)
    \/ \E p \in Project : EnsureGlobal(p)
    \/ FilesChange

ProjectSpec == ProjectInit /\ [][ProjectNext]_projectVars

------------------------------------------------------------------------------
ProjectTypeOK ==
    /\ DOMAIN projects \subseteq Project
    /\ \A p \in DOMAIN projects : projects[p] \in Row
    /\ leads \in FileTrees
    /\ shown \in [Terminal -> Plan \cup {None}]

\* At most one project is global, and it is bound to no directory; no two
\* projects hold one root.
BindingsSound ==
    /\ \A p, q \in GlobalId : p = q
    /\ \A p \in GlobalId : projects[p].root = None
    /\ \A p, q \in Bound : projects[p].root = projects[q].root => p = q

\* A step that answers this plan.
Confirms(plan) == \E t \in Terminal : shown[t] = plan /\ shown'[t] = None

\* A directory is bound only as an operator was shown it, however much changed
\* since: it is real, no other project holds it under any spelling, it does not
\* take in the home directory or the store, and the project held none.
BoundAsShown ==
    [][\A p \in DOMAIN projects' :
          LET root == projects'[p].root
          IN  root # None /\ (p \in DOMAIN projects => projects[p].root # root) =>
                /\ p \in DOMAIN projects => projects[p].root = None
                /\ Confirms([kind |-> IF p \in DOMAIN projects THEN "adopt" ELSE "init",
                             project |-> IF p \in DOMAIN projects THEN p ELSE None,
                             root |-> root])
                /\ leads[root] = root
                /\ Home \notin {d \in Dir : root \in Up[d]}
                /\ Store \notin {d \in Dir : root \in Up[d]} /\ Store \notin Up[root]
                /\ \A q \in Bound : leads[projects[q].root] # root
      ]_projectVars

\* A directory is released only as an operator was shown it, and a project
\* never disappears.
UnboundAsShown ==
    [][\A p \in DOMAIN projects :
          /\ p \in DOMAIN projects'
          /\ projects'[p].is_global = projects[p].is_global
          /\ projects[p].root # None /\ projects'[p].root # projects[p].root =>
                Confirms([kind |-> "unbind", project |-> p, root |-> projects[p].root])
      ]_projectVars

\* What a directory resolves to is never guessed: the project's directory is
\* the real directory or one above it, no other project's lies as near, and a
\* re-pointed root anywhere resolves nothing at all.
ResolvesToNearest ==
    \A d \in Dir :
        LET match == NearestBound(d, CanonicalDirectory(d))
            real == CanonicalDirectory(d)
        IN  match.state = "registered" =>
              /\ real # Gone
              /\ \A p \in Bound : leads[projects[p].root] \in {projects[p].root, Gone}
              /\ projects[match.project].root \in Up[real]
              /\ \A p \in Bound \ {match.project} :
                    projects[p].root \in Up[real] =>
                        projects[match.project].root \notin Up[projects[p].root]
=============================================================================
