--------------------------- MODULE SessionsProofs ---------------------------
(***************************************************************************)
(* What TLAPS proves of projects and their directories, for every file     *)
(* tree, however it moves, and any number of terminals and projects; and   *)
(* of the sessions bound to them, for any number of sessions and calls in  *)
(* flight.                                                                 *)
(***************************************************************************)
EXTENDS Sessions, SequenceTheorems, TLAPS

(* Projects *)

RowsTyped ==
    /\ DOMAIN projects \subseteq Project
    /\ projects \in [DOMAIN projects -> Row]

\* A plan to make a project names none; the others name one.
PlansTyped ==
    /\ shown \in [Terminal -> Plan \cup {None}]
    /\ None \notin Plan
    /\ \A t \in Terminal :
          shown[t] # None => (shown[t].kind = "init" <=> shown[t].project = None)

\* The inductive invariant.
Sound == RowsTyped /\ PlansTyped /\ leads \in FileTrees /\ BindingsSound

LEMMA TreesAreFunctions == FileTrees \subseteq [Dir -> Dir \cup {Gone}]
  BY DEF FileTrees

LEMMA SoundInit == ProjectInit => Sound
<1> SUFFICES ASSUME ProjectInit PROVE Sound
  OBVIOUS
<1>1. projects = <<>> /\ DOMAIN projects = {}
  BY DEF ProjectInit
<1>2. RowsTyped /\ BindingsSound
  BY <1>1 DEF RowsTyped, BindingsSound, GlobalId, Bound
<1>3. PlansTyped
  BY PlanAssumption DEF ProjectInit, PlansTyped
<1> QED
  BY <1>2, <1>3 DEF Sound, ProjectInit

\* A step that changes no row and answers or shows at most one plan.
LEMMA SoundShow ==
    ASSUME Sound, NEW plan \in Plan, plan.kind = "init" <=> plan.project = None, Show(plan)
    PROVE  Sound'
<1>1. PICK t \in Terminal : shown' = [shown EXCEPT ![t] = plan]
  BY DEF Show
<1>2. PlansTyped'
  BY <1>1 DEF Sound, PlansTyped
<1> QED
  BY <1>2 DEF Show, Sound, RowsTyped, BindingsSound, GlobalId, Bound

\* What a confirmed plan holds, and what its answer leaves on the terminals.
LEMMA Answered ==
    ASSUME Sound, NEW t \in Terminal, NEW kind, Answer(t, kind)
    PROVE  /\ PlansTyped' /\ leads' = leads
           /\ shown[t] \in Plan /\ shown[t].root \in Dir
           /\ shown[t].kind = "init" <=> shown[t].project = None
<1>1. PlansTyped' /\ leads' = leads
  BY DEF Answer, Sound, PlansTyped
<1>2. shown[t] \in Plan /\ (shown[t].kind = "init" <=> shown[t].project = None)
  BY DEF Answer, Sound, PlansTyped
<1> QED
  BY <1>1, <1>2 DEF Plan

\* One row changes, without taking a held root and without becoming global, or
\* becomes the only global one and holds no root.
LEMMA SoundPut ==
    ASSUME Sound, NEW p \in Project, NEW row \in Row, PutRow(p, row),
           PlansTyped', leads' \in FileTrees,
           row.is_global => row.root = None,
           \/ row.is_global /\ GlobalId \subseteq {p}
           \/ ~row.is_global,
           row.root # None => \A q \in Bound : q # p => projects[q].root # row.root
    PROVE  Sound'
<1>1. /\ DOMAIN projects' = DOMAIN projects \cup {p}
      /\ projects'[p] = row
      /\ \A q \in DOMAIN projects : q # p => projects'[q] = projects[q]
  BY DEF PutRow
<1>2. RowsTyped'
  BY DEF PutRow, Sound, RowsTyped
<1>3. BindingsSound'
  BY <1>1 DEF Sound, BindingsSound, GlobalId, Bound
<1> QED
  BY <1>2, <1>3 DEF Sound

------------------------------------------------------------------------------
(* Plans *)

LEMMA CanonicalTyped ==
    ASSUME Sound, NEW d \in Dir, CanonicalDirectory(d) # Gone
    PROVE  CanonicalDirectory(d) \in Dir
  BY TreesAreFunctions DEF Sound, CanonicalDirectory

LEMMA SoundPlanInit ==
    ASSUME Sound, NEW d \in Dir, PlanInit(d)
    PROVE  Sound'
<1> DEFINE plan == [kind |-> "init", project |-> None, root |-> CanonicalDirectory(d)]
<1>1. plan \in Plan /\ plan.kind = "init" /\ plan.project = None
  BY CanonicalTyped DEF PlanInit, Plan
<1>2. Show(plan)
  BY DEF PlanInit
<1> HIDE DEF plan
<1> QED
  BY <1>1, <1>2, SoundShow

LEMMA SoundPlanAdopt ==
    ASSUME Sound, NEW p \in Project, NEW d \in Dir, PlanAdopt(p, d)
    PROVE  Sound'
<1> DEFINE plan == [kind |-> "adopt", project |-> p, root |-> CanonicalDirectory(d)]
<1>1. plan \in Plan /\ plan.kind # "init" /\ plan.project # None
  BY CanonicalTyped, SentinelAssumption DEF PlanAdopt, Plan
<1>2. Show(plan)
  BY DEF PlanAdopt
<1> HIDE DEF plan
<1> QED
  BY <1>1, <1>2, SoundShow

LEMMA SoundPlanUnbind ==
    ASSUME Sound, NEW p \in Project, NEW d \in Dir, PlanUnbind(p, d)
    PROVE  Sound'
<1> DEFINE plan == [kind |-> "unbind", project |-> p, root |-> projects[p].root]
<1>1. projects[p].root \in Dir
  BY DEF PlanUnbind, Bound, Sound, RowsTyped, Row
<1>2. plan \in Plan /\ plan.kind # "init" /\ plan.project # None
  BY <1>1, SentinelAssumption DEF Plan
<1>3. Show(plan)
  BY DEF PlanUnbind
<1> HIDE DEF plan
<1> QED
  BY <1>2, <1>3, SoundShow

LEMMA SoundDecline ==
    ASSUME Sound, Decline
    PROVE  Sound'
<1>1. PlansTyped'
  BY DEF Decline, Sound, PlansTyped
<1> QED
  BY <1>1 DEF Decline, Sound, RowsTyped, BindingsSound, GlobalId, Bound

------------------------------------------------------------------------------
(* Confirmed writes, and the file system *)

LEMMA SoundConfirmInit ==
    ASSUME Sound, NEW t \in Terminal, NEW p \in Project, ConfirmInit(t, p)
    PROVE  Sound'
<1> DEFINE row == [root |-> shown[t].root, is_global |-> FALSE]
<1>1. /\ PlansTyped' /\ leads' = leads /\ shown[t].root \in Dir
  BY Answered DEF ConfirmInit
<1>2. row \in Row /\ ~row.is_global
  BY <1>1 DEF Row
<1>3. \A q \in Bound : projects[q].root # row.root
  BY DEF ConfirmInit, Unique
<1>4. PutRow(p, row)
  BY DEF ConfirmInit
<1>5. leads' \in FileTrees
  BY <1>1 DEF Sound
<1> HIDE DEF row
<1> QED
  BY <1>1, <1>2, <1>3, <1>4, <1>5, SoundPut

LEMMA SoundConfirmAdopt ==
    ASSUME Sound, NEW t \in Terminal, ConfirmAdopt(t)
    PROVE  Sound'
<1> DEFINE p == shown[t].project
           row == [projects[p] EXCEPT !.root = shown[t].root]
<1>1. /\ PlansTyped' /\ leads' = leads /\ shown[t].root \in Dir
  BY Answered DEF ConfirmAdopt
<1>2. p \in DOMAIN projects /\ p \in Project /\ ~projects[p].is_global
      /\ projects[p] \in Row
  BY DEF ConfirmAdopt, Adoptable, Sound, RowsTyped
<1>3. row \in Row /\ ~row.is_global /\ row.root = shown[t].root
  BY <1>1, <1>2 DEF Row
<1>4. \A q \in Bound : projects[q].root # row.root
  BY <1>3 DEF ConfirmAdopt, Unique
<1>5. PutRow(p, row)
  BY DEF ConfirmAdopt
<1>6. leads' \in FileTrees
  BY <1>1 DEF Sound
<1> HIDE DEF row, p
<1> QED
  BY <1>1, <1>2, <1>3, <1>4, <1>5, <1>6, SoundPut

LEMMA SoundConfirmUnbind ==
    ASSUME Sound, NEW t \in Terminal, ConfirmUnbind(t)
    PROVE  Sound'
<1> DEFINE p == shown[t].project
           row == [projects[p] EXCEPT !.root = None]
<1>1. /\ PlansTyped' /\ leads' = leads
  BY Answered DEF ConfirmUnbind
<1>2. p \in DOMAIN projects /\ p \in Project /\ projects[p] \in Row
  BY DEF ConfirmUnbind, Sound, RowsTyped
<1>3. row \in Row /\ row.is_global = projects[p].is_global /\ row.root = None
  BY <1>2 DEF Row
<1>4. row.is_global => GlobalId \subseteq {p}
  BY <1>2, <1>3 DEF Sound, BindingsSound, GlobalId
<1>5. PutRow(p, row)
  BY DEF ConfirmUnbind
<1>6. leads' \in FileTrees
  BY <1>1 DEF Sound
<1>7. row.is_global \in BOOLEAN
  BY <1>3 DEF Row
<1> HIDE DEF row, p
<1> QED
  BY <1>1, <1>2, <1>3, <1>4, <1>5, <1>6, <1>7, SoundPut

LEMMA SoundEnsureGlobal ==
    ASSUME Sound, NEW p \in Project, EnsureGlobal(p)
    PROVE  Sound'
<1> DEFINE row == [root |-> None, is_global |-> TRUE]
<1>1. row \in Row /\ row.is_global /\ row.root = None
  BY DEF Row
<1>2. GlobalId \subseteq {p} /\ PutRow(p, row) /\ UNCHANGED <<leads, shown>>
  BY DEF EnsureGlobal
<1>3. PlansTyped' /\ leads' \in FileTrees
  BY <1>2 DEF Sound, PlansTyped
<1> HIDE DEF row
<1> QED
  BY <1>1, <1>2, <1>3, SoundPut

LEMMA SoundNext == Sound /\ [ProjectNext]_projectVars => Sound'
<1> SUFFICES ASSUME Sound, [ProjectNext]_projectVars PROVE Sound'
  OBVIOUS
<1>1. CASE FilesChange
  BY <1>1
  DEF FilesChange, Sound, RowsTyped, PlansTyped, BindingsSound, GlobalId, Bound
<1>2. CASE UNCHANGED projectVars
  BY <1>2 DEF projectVars, Sound, RowsTyped, PlansTyped, BindingsSound, GlobalId, Bound
<1>3. CASE \/ \E d \in Dir : PlanInit(d)
           \/ \E p \in Project, d \in Dir : PlanAdopt(p, d) \/ PlanUnbind(p, d)
           \/ Decline
  BY <1>3, SoundPlanInit, SoundPlanAdopt, SoundPlanUnbind, SoundDecline
<1>4. CASE \/ \E t \in Terminal, p \in Project : ConfirmInit(t, p)
           \/ \E t \in Terminal : ConfirmAdopt(t) \/ ConfirmUnbind(t)
           \/ \E p \in Project : EnsureGlobal(p)
  BY <1>4, SoundConfirmInit, SoundConfirmAdopt, SoundConfirmUnbind, SoundEnsureGlobal
<1> QED
  BY <1>1, <1>2, <1>3, <1>4 DEF ProjectNext

------------------------------------------------------------------------------
(* The theorems *)

THEOREM SoundInvariant == ProjectSpec => []Sound
  BY SoundInit, SoundNext, PTL DEF ProjectSpec

\* Rows, the file tree and the shown plans keep their shapes.
THEOREM ProjectTypesHold == ProjectSpec => []ProjectTypeOK
<1>1. Sound => ProjectTypeOK
  BY DEF Sound, RowsTyped, PlansTyped, ProjectTypeOK
<1> QED
  BY <1>1, SoundInvariant, PTL

\* One global project at most, bound to nothing, and no root held twice.
THEOREM BindingsSoundHolds == ProjectSpec => []BindingsSound
<1>1. Sound => BindingsSound
  BY DEF Sound
<1> QED
  BY <1>1, SoundInvariant, PTL

\* A step that confirms nothing changes no root of a project there was, and binds
\* none that is new.
LEMMA OthersBindNothing ==
    ASSUME Sound, [ProjectNext]_projectVars,
           ~\E t \in Terminal :
              ConfirmAdopt(t) \/ ConfirmUnbind(t) \/ \E p \in Project : ConfirmInit(t, p)
    PROVE  /\ DOMAIN projects \subseteq DOMAIN projects'
           /\ \A p \in DOMAIN projects : projects'[p] = projects[p]
           /\ \A p \in DOMAIN projects' \ DOMAIN projects : projects'[p].root = None
<1> DEFINE Goal == /\ DOMAIN projects \subseteq DOMAIN projects'
                   /\ \A p \in DOMAIN projects : projects'[p] = projects[p]
                   /\ \A p \in DOMAIN projects' \ DOMAIN projects : projects'[p].root = None
<1>1. CASE projects' = projects
  BY <1>1
<1>2. ASSUME NEW p \in Project, EnsureGlobal(p) PROVE Goal
  BY <1>2 DEF EnsureGlobal, PutRow
<1>3. ASSUME NEW d \in Dir, PlanInit(d) PROVE projects' = projects
  BY <1>3 DEF PlanInit, Show
<1>4. ASSUME NEW p \in Project, NEW d \in Dir, PlanAdopt(p, d) \/ PlanUnbind(p, d)
      PROVE  projects' = projects
  BY <1>4 DEF PlanAdopt, PlanUnbind, Show
<1>5. CASE Decline \/ FilesChange \/ UNCHANGED projectVars
  BY <1>5 DEF Decline, FilesChange, projectVars
<1> QED
  BY <1>1, <1>2, <1>3, <1>4, <1>5 DEF ProjectNext

\* What a confirmed adoption and a confirmed release change.
LEMMA AdoptChanges ==
    ASSUME Sound, NEW t \in Terminal, ConfirmAdopt(t)
    PROVE  LET plan == shown[t] IN
           /\ plan \in Plan /\ plan.kind = "adopt" /\ shown'[t] = None
           /\ plan.project \in DOMAIN projects /\ projects[plan.project].root = None
           /\ DOMAIN projects' = DOMAIN projects
           /\ \A q \in DOMAIN projects : q # plan.project => projects'[q] = projects[q]
           /\ projects'[plan.project].root = plan.root
           /\ projects'[plan.project].is_global = projects[plan.project].is_global
<1>1. shown[t] \in Plan
  BY Answered DEF ConfirmAdopt
<1>2. shown'[t] = None /\ shown[t].kind = "adopt"
  BY DEF ConfirmAdopt, Answer, Sound, PlansTyped
<1>3. shown[t].project \in DOMAIN projects /\ projects[shown[t].project].root = None
  BY DEF ConfirmAdopt, Adoptable
<1>4. projects[shown[t].project] \in Row
  BY <1>3 DEF Sound, RowsTyped
<1> QED
  BY <1>1, <1>2, <1>3, <1>4 DEF ConfirmAdopt, PutRow, Row

LEMMA UnbindChanges ==
    ASSUME Sound, NEW t \in Terminal, ConfirmUnbind(t)
    PROVE  LET plan == shown[t] IN
           /\ plan \in Plan /\ plan.kind = "unbind" /\ shown'[t] = None
           /\ plan.project \in DOMAIN projects /\ projects[plan.project].root = plan.root
           /\ DOMAIN projects' = DOMAIN projects
           /\ \A q \in DOMAIN projects : q # plan.project => projects'[q] = projects[q]
           /\ projects'[plan.project].root = None
           /\ projects'[plan.project].is_global = projects[plan.project].is_global
<1>1. shown[t] \in Plan
  BY Answered DEF ConfirmUnbind
<1>2. shown'[t] = None /\ shown[t].kind = "unbind"
  BY DEF ConfirmUnbind, Answer, Sound, PlansTyped
<1>3. shown[t].project \in DOMAIN projects /\ projects[shown[t].project].root = shown[t].root
  BY DEF ConfirmUnbind
<1>4. projects[shown[t].project] \in Row
  BY <1>3 DEF Sound, RowsTyped
<1> QED
  BY <1>1, <1>2, <1>3, <1>4 DEF ConfirmUnbind, PutRow, Row

LEMMA InitChanges ==
    ASSUME Sound, NEW t \in Terminal, NEW p \in Project, ConfirmInit(t, p)
    PROVE  LET plan == shown[t] IN
           /\ plan \in Plan /\ plan.kind = "init" /\ plan.project = None /\ shown'[t] = None
           /\ p \notin DOMAIN projects /\ DOMAIN projects' = DOMAIN projects \cup {p}
           /\ \A q \in DOMAIN projects : projects'[q] = projects[q]
           /\ projects'[p].root = plan.root
<1>1. shown[t] \in Plan /\ (shown[t].kind = "init" <=> shown[t].project = None)
  BY Answered DEF ConfirmInit
<1>2. shown'[t] = None /\ shown[t].kind = "init"
  BY DEF ConfirmInit, Answer, Sound, PlansTyped
<1> QED
  BY <1>1, <1>2 DEF ConfirmInit, PutRow

\* No project goes, and a directory is released only as an operator was shown it.
THEOREM UnboundAsShownHolds == ProjectSpec => UnboundAsShown
<1> DEFINE Shown ==
        \A p \in DOMAIN projects :
          /\ p \in DOMAIN projects'
          /\ projects'[p].is_global = projects[p].is_global
          /\ projects[p].root # None /\ projects'[p].root # projects[p].root =>
                Confirms([kind |-> "unbind", project |-> p, root |-> projects[p].root])
<1>1. ASSUME Sound, [ProjectNext]_projectVars PROVE Shown
  <2>1. ASSUME NEW t \in Terminal, ConfirmAdopt(t) PROVE Shown
    BY <1>1, <2>1, AdoptChanges
  <2>2. ASSUME NEW t \in Terminal, NEW p \in Project, ConfirmInit(t, p) PROVE Shown
    BY <1>1, <2>2, InitChanges
  <2>3. ASSUME NEW t \in Terminal, ConfirmUnbind(t) PROVE Shown
    <3> DEFINE plan == shown[t]
    <3>1. /\ plan \in Plan /\ plan.kind = "unbind" /\ shown'[t] = None
          /\ plan.project \in DOMAIN projects /\ projects[plan.project].root = plan.root
          /\ DOMAIN projects' = DOMAIN projects
          /\ \A q \in DOMAIN projects : q # plan.project => projects'[q] = projects[q]
          /\ projects'[plan.project].is_global = projects[plan.project].is_global
      BY <1>1, <2>3, UnbindChanges
    <3>2. plan = [kind |-> "unbind", project |-> plan.project, root |-> plan.root]
      BY <3>1 DEF Plan
    <3>3. Confirms([kind |-> "unbind", project |-> plan.project,
                    root |-> projects[plan.project].root])
      BY <3>1, <3>2 DEF Confirms
    <3> QED
      BY <3>1, <3>3
  <2> QED
    BY <1>1, <2>1, <2>2, <2>3, OthersBindNothing
<1>2. Sound /\ [ProjectNext]_projectVars => [Shown]_projectVars
  BY <1>1
<1> QED
  BY <1>2, SoundInvariant, PTL DEF ProjectSpec, UnboundAsShown

\* What a confirmation has checked on the file system and the rows of its moment.
Cleared(root) ==
    /\ leads[root] = root
    /\ Home \notin {d \in Dir : root \in Up[d]}
    /\ Store \notin {d \in Dir : root \in Up[d]} /\ Store \notin Up[root]
    /\ \A q \in Bound : leads[projects[q].root] # root

LEMMA ConfirmedIsCleared ==
    ASSUME NEW plan \in Plan, NEW project, project \notin Bound, Confirmed(plan, project)
    PROVE  Cleared(plan.root)
<1>1. plan.root \in Dir /\ plan.root # Gone
  BY SentinelAssumption DEF Plan
<1>2. leads[plan.root] = plan.root /\ ~Refused(plan.root, project)
  BY DEF Confirmed, CanonicalDirectory
<1>3. plan.root \notin Up[Home] /\ plan.root \notin Up[Store] /\ Store \notin Up[plan.root]
  BY <1>2 DEF Refused, Covers
<1>4. \A q \in Bound : leads[projects[q].root] # plan.root
  BY <1>1, <1>2 DEF Refused, SameDirectory
<1> QED
  BY <1>2, <1>3, <1>4 DEF Cleared

\* A directory is bound only as an operator was shown it, and as it then still is.
THEOREM BoundAsShownHolds == ProjectSpec => BoundAsShown
<1> DEFINE Binds(p) == projects'[p].root # None
                       /\ (p \in DOMAIN projects => projects[p].root # projects'[p].root)
           Right(p) ==
                /\ p \in DOMAIN projects => projects[p].root = None
                /\ Confirms([kind |-> IF p \in DOMAIN projects THEN "adopt" ELSE "init",
                             project |-> IF p \in DOMAIN projects THEN p ELSE None,
                             root |-> projects'[p].root])
                /\ Cleared(projects'[p].root)
           Shown == \A p \in DOMAIN projects' : Binds(p) => Right(p)
<1>1. ASSUME Sound, [ProjectNext]_projectVars PROVE Shown
  <2>1. ASSUME NEW t \in Terminal, ConfirmAdopt(t) PROVE Shown
    <3> DEFINE plan == shown[t]
    <3>1. /\ plan \in Plan /\ plan.kind = "adopt" /\ shown'[t] = None
          /\ plan.project \in DOMAIN projects /\ projects[plan.project].root = None
          /\ DOMAIN projects' = DOMAIN projects
          /\ \A q \in DOMAIN projects : q # plan.project => projects'[q] = projects[q]
          /\ projects'[plan.project].root = plan.root
      BY <1>1, <2>1, AdoptChanges
    <3>2. Confirms([kind |-> "adopt", project |-> plan.project, root |-> plan.root])
      <4>1. plan = [kind |-> "adopt", project |-> plan.project, root |-> plan.root]
        BY <3>1 DEF Plan
      <4> QED
        BY <3>1, <4>1 DEF Confirms
    <3>3. Cleared(plan.root)
      BY <2>1, <3>1, ConfirmedIsCleared DEF ConfirmAdopt, Bound
    <3> QED
      BY <3>1, <3>2, <3>3
  <2>2. ASSUME NEW t \in Terminal, NEW p \in Project, ConfirmInit(t, p) PROVE Shown
    <3> DEFINE plan == shown[t]
    <3>1. /\ plan \in Plan /\ plan.kind = "init" /\ plan.project = None /\ shown'[t] = None
          /\ p \notin DOMAIN projects /\ DOMAIN projects' = DOMAIN projects \cup {p}
          /\ \A q \in DOMAIN projects : projects'[q] = projects[q]
          /\ projects'[p].root = plan.root
      BY <1>1, <2>2, InitChanges
    <3>2. Confirms([kind |-> "init", project |-> None, root |-> plan.root])
      <4>1. plan = [kind |-> "init", project |-> None, root |-> plan.root]
        BY <3>1 DEF Plan
      <4> QED
        BY <3>1, <4>1 DEF Confirms
    <3>3. None \notin Bound
      BY <1>1, SentinelAssumption DEF Sound, RowsTyped, Bound
    <3>4. Cleared(plan.root)
      BY <2>2, <3>1, <3>3, ConfirmedIsCleared DEF ConfirmInit
    <3> QED
      BY <3>1, <3>2, <3>4
  <2>3. ASSUME NEW t \in Terminal, ConfirmUnbind(t) PROVE Shown
    BY <1>1, <2>3, UnbindChanges
  <2> QED
    BY <1>1, <2>1, <2>2, <2>3, OthersBindNothing
<1>2. Sound /\ [ProjectNext]_projectVars => [Shown]_projectVars
  BY <1>1
<1>3. [Shown]_projectVars =>
        [\A p \in DOMAIN projects' :
          LET root == projects'[p].root
          IN  root # None /\ (p \in DOMAIN projects => projects[p].root # root) =>
                /\ p \in DOMAIN projects => projects[p].root = None
                /\ Confirms([kind |-> IF p \in DOMAIN projects THEN "adopt" ELSE "init",
                             project |-> IF p \in DOMAIN projects THEN p ELSE None,
                             root |-> root])
                /\ leads[root] = root
                /\ Home \notin {d \in Dir : root \in Up[d]}
                /\ Store \notin {d \in Dir : root \in Up[d]} /\ Store \notin Up[root]
                /\ \A q \in Bound : leads[projects[q].root] # root
        ]_projectVars
  BY DEF Cleared
<1> QED
  BY <1>2, <1>3, SoundInvariant, PTL DEF ProjectSpec, BoundAsShown

------------------------------------------------------------------------------
(* Resolution *)

\* What a match that names a project has gone by: the integrity of every root, and
\* a level where that project and no nearer one is bound.
LEMMA Matched ==
    ASSUME NEW start \in Dir, NEW logical \in Dir,
           NearestBound(start, logical).state = "registered"
    PROVE  /\ CanonicalDirectory(start) # Gone
           /\ \A p \in Bound : ~Redirected(projects[p].root)
           /\ \E a \in Up[logical] :
                 /\ NearestBound(start, logical).project \in BoundAt(a)
                 /\ {b \in Up[logical] : BoundAt(b) # {}} \subseteq Up[a]
<1> DEFINE levels == {a \in Up[logical] : BoundAt(a) # {}}
           nearest == CHOOSE a \in levels : levels \subseteq Up[a]
           found == CHOOSE p \in BoundAt(nearest) : TRUE
           Lost == \/ CanonicalDirectory(start) = Gone
                   \/ \E p \in Bound : Redirected(projects[p].root)
<1>1. CASE Lost
  BY <1>1 DEF NearestBound, Degraded
<1>2. CASE ~Lost /\ levels = {}
  BY <1>2 DEF NearestBound
<1>3. CASE ~Lost /\ levels # {}
  <2>1. \E a \in levels : levels \subseteq Up[a]
    <3>1. levels \in SUBSET Up[logical]
      OBVIOUS
    <3>2. \A s \in SUBSET Up[logical] : s # {} => \E a \in s : s \subseteq Up[a]
      BY TreeAssumption
    <3> HIDE DEF levels
    <3> QED
      BY <1>3, <3>1, <3>2
  <2>2. nearest \in levels /\ levels \subseteq Up[nearest]
    BY <2>1
  <2>3. found \in BoundAt(nearest)
    BY <2>2
  <2>4. NearestBound(start, logical) = IF Cardinality(BoundAt(nearest)) > 1 THEN Degraded
                                       ELSE [state |-> "registered", project |-> found]
    BY <1>3 DEF NearestBound
  <2>5. NearestBound(start, logical).project = found
    <3> HIDE DEF found
    <3>1. CASE Cardinality(BoundAt(nearest)) > 1
      BY <2>4, <3>1 DEF Degraded
    <3>2. CASE ~(Cardinality(BoundAt(nearest)) > 1)
      BY <2>4, <3>2
    <3> QED
      BY <3>1, <3>2
  <2> QED
    BY <1>3, <2>2, <2>3, <2>5
<1> QED
  BY <1>1, <1>2, <1>3

\* A directory resolves to the one project bound nearest above it, with every root
\* in its place.
THEOREM ResolvesToNearestHolds == ProjectSpec => []ResolvesToNearest
<1>1. Sound => ResolvesToNearest
  <2> SUFFICES ASSUME Sound, NEW d \in Dir,
                      NearestBound(d, CanonicalDirectory(d)).state = "registered"
               PROVE  LET match == NearestBound(d, CanonicalDirectory(d))
                          real == CanonicalDirectory(d)
                      IN  /\ real # Gone
                          /\ \A p \in Bound : leads[projects[p].root] \in {projects[p].root, Gone}
                          /\ projects[match.project].root \in Up[real]
                          /\ \A p \in Bound \ {match.project} :
                                projects[p].root \in Up[real] =>
                                    projects[match.project].root \notin Up[projects[p].root]
    BY DEF ResolvesToNearest
  <2> DEFINE real == CanonicalDirectory(d)
             m == NearestBound(d, real).project
             Root(p) == projects[p].root
  <2>1. leads \in [Dir -> Dir \cup {Gone}] /\ FileTree(leads)
    BY DEF Sound, FileTrees
  <2>2. \A p \in Bound : Root(p) \in Dir
    BY DEF Sound, RowsTyped, Bound, Row
  <2>3. real \in Dir \cup {Gone}
    BY <2>1 DEF CanonicalDirectory
  <2>4. real # Gone
    <3>1. CanonicalDirectory(d) # Gone
      <4>1. CASE CanonicalDirectory(d) = Gone
        BY <4>1 DEF NearestBound, Degraded
      <4> QED
        BY <4>1
    <3> QED
      BY <3>1
  <2>5. real \in Dir /\ leads[real] = real
    BY <2>1, <2>3, <2>4 DEF CanonicalDirectory, FileTree
  <2>6. /\ \A p \in Bound : ~Redirected(Root(p))
        /\ \E a \in Up[real] : m \in BoundAt(a) /\ {b \in Up[real] : BoundAt(b) # {}} \subseteq Up[a]
    BY <2>5, Matched
  <2>7. PICK a \in Up[real] :
            m \in BoundAt(a) /\ {b \in Up[real] : BoundAt(b) # {}} \subseteq Up[a]
    BY <2>6
  <2>8. \A p \in Bound : leads[Root(p)] \in {Root(p), Gone}
    BY <2>2, <2>6, TreeAssumption DEF Redirected
  <2>9. a \in Dir /\ leads[a] = a
    BY <2>1, <2>5, TreeAssumption DEF FileTree
  <2>10. m \in Bound /\ Root(m) = a
    BY <2>7, <2>8, <2>9 DEF BoundAt, SameDirectory
  <2>11. ASSUME NEW p \in Bound \ {m}, Root(p) \in Up[real], a \in Up[Root(p)]
         PROVE  FALSE
    <3>1. BoundAt(Root(p)) # {}
      BY DEF BoundAt
    <3>2. Root(p) \in Up[a] /\ Root(p) \in Dir
      BY <2>2, <2>7, <2>11, <3>1
    <3>3. Root(p) = a
      BY <2>9, <2>11, <3>2, TreeAssumption
    <3> QED
      BY <2>10, <3>3 DEF Sound, BindingsSound
  <2> QED
    BY <2>4, <2>8, <2>10, <2>11
<1> QED
  BY <1>1, SoundInvariant, PTL

------------------------------------------------------------------------------
(* Sessions *)

\* The projects a session may have or be proposed.
Homes == DOMAIN projects \ GlobalId

\* A row that reads back: what RowsReadable asks of each.
Readable(row) ==
    /\ row.status = "pending" => row.project = None /\ row.origin = "first-seen"
    /\ row.saved <= row.count /\ row.nudged <= row.count
    /\ row.candidate # None => row.candidate_root # None
    /\ row.project \in Homes \cup {None} /\ row.candidate \in Homes \cup {None}
Good == {row \in Session : Readable(row)}

\* What a call in flight may have read.  A save holds the project of its session,
\* which then is registered and keeps it.
CallOf(kind) ==
    CASE kind = "start" -> [kind: {"start"}, key: SessionKey, seed: Good]
      [] kind = "prompt" -> [kind: {"prompt"}, key: SessionKey, seed: Good,
                             prompt: Prompt, at: Time]
      [] kind = "confirm" -> [kind: {"confirm"}, key: SessionKey]
      [] kind = "register" -> [kind: {"register"}, key: Known, project: Homes]
      [] kind = "save" -> [kind: {"save"}, key: Known, project: Homes]
      [] kind = "publish" -> [kind: {"publish"}, key: Known, active: Time,
                              covers: 0..MaxPrompts]
      [] OTHER -> [kind: {kind}, key: Known]
Kinds == {"start", "prompt", "confirm", "register", "save", "saved", "publish"}
RightCall(call) ==
    /\ call.kind \in Kinds /\ call \in CallOf(call.kind)
    /\ call.kind = "save" => /\ sessions[call.key].status = "registered"
                             /\ sessions[call.key].project = call.project

Tale == [landed: Seq(Prompt), nudges: Seq([count: Nat, saved: Nat]),
         homes: SUBSET Project]

SessionsTyped ==
    /\ Known \subseteq SessionKey
    /\ sessions \in [Known -> Good]
    /\ clock \in Time
    /\ history \in [SessionKey -> Tale]
CallsTyped ==
    /\ calls = [c \in Caller |-> calls[c]]
    /\ \A c \in Caller : calls[c] # None => RightCall(calls[c])

\* The inductive invariant.
Settled == Sound /\ SessionsTyped /\ CallsTyped /\ WritesGoHome

LEMMA SettledInit == SessionInit => Settled
<1> SUFFICES ASSUME SessionInit PROVE Settled
  OBVIOUS
<1>1. sessions = <<>> /\ Known = {}
  BY DEF SessionInit, Known
<1>2. Sound
  BY SoundInit DEF SessionInit
<1>3. clock \in Time
  BY LimitsAssumption DEF SessionInit, Time
<1>4. Untouched \in Tale
  BY DEF Untouched, Tale
<1>5. SessionsTyped
  BY <1>1, <1>3, <1>4 DEF SessionsTyped, SessionInit
<1>6. CallsTyped
  BY DEF SessionInit, CallsTyped
<1>7. WritesGoHome
  BY DEF SessionInit, WritesGoHome, Untouched
<1> QED
  BY <1>2, <1>5, <1>6, <1>7 DEF Settled

------------------------------------------------------------------------------
(* What a directory resolves to may be a session's project *)

LEMMA BoundAreHomes == Sound => Bound \subseteq Homes
  BY DEF Sound, BindingsSound, Bound, Homes, GlobalId

LEMMA ResolvedTyped ==
    ASSUME Sound, NEW d \in Dir
    PROVE  /\ ResolveEntry(d).project \in Bound \cup {None}
           /\ ResolveEntry(d).state = "registered" => ResolveEntry(d).project \in Bound
           /\ ResolveEntry(d).state # "degraded" => CanonicalDirectory(d) \in Dir
<1> DEFINE entry == CanonicalDirectory(d)
           twin == MainTree[entry]
           match == NearestBound(entry, twin)
<1>1. CASE entry = Gone \/ twin = Gone
  BY <1>1 DEF ResolveEntry, Degraded
<1>2. CASE entry # Gone /\ twin # Gone
  <2>1. entry \in Dir /\ twin \in Dir
    BY <1>2, TreesAreFunctions, MainTreeAssumption DEF CanonicalDirectory, Sound
  <2>2. ResolveEntry(d) = match
    BY <1>2 DEF ResolveEntry
  <2>3. match.state \in {"registered", "degraded", "none"}
        /\ (match.state # "registered" => match.project = None)
    BY DEF NearestBound, Degraded
  <2>4. match.state = "registered" => match.project \in Bound
    BY <2>1, Matched DEF BoundAt
  <2> HIDE DEF match
  <2> QED
    BY <2>1, <2>2, <2>3, <2>4
<1> QED
  BY <1>1, <1>2

------------------------------------------------------------------------------
(* The operator's steps *)

\* A project never goes and none becomes global.
LEMMA HomesStay ==
    ASSUME Sound, [ProjectNext]_projectVars
    PROVE  Homes \subseteq Homes'
<1> DEFINE Kept == \A p \in DOMAIN projects :
                      p \in DOMAIN projects' /\ projects'[p].is_global = projects[p].is_global
<1>1. Kept
  <2>1. ASSUME NEW t \in Terminal, ConfirmAdopt(t) PROVE Kept
    BY <2>1, AdoptChanges
  <2>2. ASSUME NEW t \in Terminal, NEW p \in Project, ConfirmInit(t, p) PROVE Kept
    BY <2>2, InitChanges
  <2>3. ASSUME NEW t \in Terminal, ConfirmUnbind(t) PROVE Kept
    BY <2>3, UnbindChanges
  <2> QED
    BY <2>1, <2>2, <2>3, OthersBindNothing
<1> QED
  BY <1>1 DEF Homes, GlobalId

LEMMA GoodStay ==
    ASSUME Homes \subseteq Homes'
    PROVE  Good \subseteq Good'
  BY DEF Good, Readable

\* A call in flight stays right as long as sessions only gain rows, a saved project
\* stays, and homes stay.
LEMMA RightStays ==
    ASSUME NEW call, RightCall(call), Homes \subseteq Homes', Known \subseteq Known',
           call.kind = "save" =>
              /\ sessions'[call.key].status = "registered"
              /\ sessions'[call.key].project = call.project
    PROVE  RightCall(call)'
<1>1. Good \subseteq Good'
  BY GoodStay
<1>2. ASSUME NEW kind \in Kinds PROVE CallOf(kind) \subseteq CallOf(kind)'
  <2>1. CASE kind = "start"
    BY <1>1, <2>1 DEF CallOf
  <2>2. CASE kind = "prompt"
    BY <1>1, <2>2 DEF CallOf
  <2>3. CASE kind \in {"register", "save"}
    BY <2>3 DEF CallOf
  <2>4. CASE kind = "publish"
    BY <2>4 DEF CallOf
  <2>5. CASE kind \in {"confirm", "saved"}
    BY <2>5 DEF CallOf
  <2> QED
    BY <2>1, <2>2, <2>3, <2>4, <2>5 DEF Kinds
<1>3. call \in CallOf(call.kind)'
  BY <1>2 DEF RightCall
<1> QED
  BY <1>3 DEF RightCall

LEMMA SettledOperator ==
    ASSUME Settled, [ProjectNext]_projectVars, UNCHANGED sessionVars
    PROVE  Settled'
<1>1. Sound'
  BY SoundNext DEF Settled
<1>2. Homes \subseteq Homes'
  BY HomesStay DEF Settled
<1>3. /\ sessions' = sessions /\ clock' = clock /\ calls' = calls /\ history' = history
      /\ Known' = Known
  BY DEF sessionVars, Known
<1>4. SessionsTyped'
  BY <1>2, <1>3, GoodStay DEF Settled, SessionsTyped
<1>5. CallsTyped'
  <2>1. calls' = [c \in Caller |-> calls'[c]]
    BY <1>3 DEF Settled, CallsTyped
  <2>2. ASSUME NEW c \in Caller, calls'[c] # None PROVE RightCall(calls[c])'
    <3> DEFINE call == calls[c]
    <3>1. RightCall(call)
      BY <1>3, <2>2 DEF Settled, CallsTyped
    <3> QED
      BY <1>2, <1>3, <3>1, RightStays DEF RightCall
  <2> QED
    BY <1>3, <2>1, <2>2 DEF CallsTyped
<1>6. WritesGoHome'
  BY <1>3 DEF Settled, WritesGoHome
<1> QED
  BY <1>1, <1>4, <1>5, <1>6 DEF Settled

------------------------------------------------------------------------------
(* The steps of sessions *)

\* Rows may come, and a row keeps its project and stays registered.
Grows ==
    /\ Known \subseteq Known' /\ Known' \subseteq SessionKey
    /\ sessions' \in [Known' -> Good]
    /\ \A s \in Known :
          /\ sessions[s].project # None => sessions'[s].project = sessions[s].project
          /\ sessions[s].status = "registered" => sessions'[s].status = "registered"

LEMMA SettledStep ==
    ASSUME Settled, UNCHANGED projectVars, clock' \in Time, Grows,
           calls' = [c \in Caller |-> calls'[c]],
           \A c \in Caller :
              calls'[c] # None => calls'[c] = calls[c] \/ RightCall(calls[c])',
           history' \in [SessionKey -> Tale],
           \A s \in SessionKey :
              \/ history'[s].homes = history[s].homes
              \/ /\ s \in Known /\ sessions[s].status = "registered"
                 /\ sessions[s].project # None
                 /\ history'[s].homes = history[s].homes \cup {sessions[s].project}
    PROVE  Settled'
<1>1. Sound' /\ Homes' = Homes /\ Good' = Good
  <2>1. projects' = projects /\ leads' = leads /\ shown' = shown
    BY DEF projectVars
  <2>2. Sound'
    BY <2>1 DEF Settled, Sound, RowsTyped, PlansTyped, BindingsSound, GlobalId, Bound
  <2>3. Homes' = Homes
    BY <2>1 DEF Homes, GlobalId
  <2> QED
    BY <2>2, <2>3 DEF Good, Readable
<1>2. SessionsTyped'
  BY <1>1 DEF SessionsTyped, Grows
<1>3. CallsTyped'
  <2>1. ASSUME NEW c \in Caller, calls'[c] # None, calls'[c] = calls[c]
        PROVE  RightCall(calls[c])'
    <3> DEFINE call == calls[c]
    <3>1. RightCall(call)
      BY <2>1 DEF Settled, CallsTyped
    <3>2. call.kind = "save" => call.key \in Known /\ call.project \in Homes
      BY <3>1 DEF RightCall, CallOf
    <3>3. None \notin Homes
      BY SentinelAssumption DEF Settled, Sound, RowsTyped, Homes
    <3>4. call.kind = "save" => /\ sessions'[call.key].status = "registered"
                                /\ sessions'[call.key].project = call.project
      BY <3>1, <3>2, <3>3 DEF RightCall, Grows
    <3> QED
      BY <1>1, <2>1, <3>1, <3>4, RightStays DEF Grows, RightCall
  <2> QED
    BY <2>1 DEF CallsTyped
<1>4. WritesGoHome'
  <2> SUFFICES ASSUME NEW s \in SessionKey, history'[s].homes # {}
               PROVE  /\ s \in Known' /\ sessions'[s].status = "registered"
                      /\ history'[s].homes = {sessions'[s].project}
    BY DEF WritesGoHome
  <2>1. history[s].homes # {} => /\ s \in Known /\ sessions[s].status = "registered"
                                 /\ history[s].homes = {sessions[s].project}
    BY DEF Settled, WritesGoHome
  <2>2. history[s].homes \subseteq Project
    BY DEF Settled, SessionsTyped, Tale
  <2>3. None \notin Project
    BY SentinelAssumption
  <2>4. /\ s \in Known /\ sessions[s].status = "registered" /\ sessions[s].project # None
        /\ history'[s].homes = {sessions[s].project}
    BY <2>1, <2>2, <2>3
  <2> QED
    BY <2>4 DEF Grows
<1> QED
  BY <1>1, <1>2, <1>3, <1>4 DEF Settled

LEMMA SettledEnter ==
    ASSUME Settled, NEW call, RightCall(call), Enter(call)
    PROVE  Settled'
<1>1. PICK c \in Idle : calls' = [calls EXCEPT ![c] = call]
  BY DEF Enter
<1>2. UNCHANGED <<projectVars, sessions, clock, history>>
  BY DEF Enter
<1>3. c \in Caller /\ calls' = [d \in Caller |-> IF d = c THEN call ELSE calls[d]]
  BY <1>1 DEF Idle, Settled, CallsTyped
<1>4. RightCall(call)'
  BY <1>2 DEF RightCall, CallOf, Known, Good, Readable, Homes, GlobalId, projectVars
<1>5. \A d \in Caller : calls'[d] = calls[d] \/ RightCall(calls[d])'
  BY <1>3, <1>4 DEF RightCall
<1>6. Grows
  BY <1>2 DEF Settled, SessionsTyped, Grows, Known
<1>7. /\ clock' \in Time /\ history' \in [SessionKey -> Tale]
      /\ \A s \in SessionKey : history'[s].homes = history[s].homes
  BY <1>2 DEF Settled, SessionsTyped
<1> QED
  BY <1>2, <1>3, <1>5, <1>6, <1>7, SettledStep

\* A row is put, in one transaction or at the end of a call.
LEMMA SettledPut ==
    ASSUME Settled, NEW s \in SessionKey, NEW row \in Good, PutSession(s, row),
           s \in Known =>
              /\ sessions[s].project # None => row.project = sessions[s].project
              /\ sessions[s].status = "registered" => row.status = "registered",
           UNCHANGED projectVars, UNCHANGED clock,
           calls' = calls \/ \E c \in Caller : calls' = [calls EXCEPT ![c] = None],
           history' \in [SessionKey -> Tale],
           \A k \in SessionKey : history'[k].homes = history[k].homes
    PROVE  Settled'
<1>1. Grows
  BY DEF Settled, SessionsTyped, Grows, PutSession, Known
<1>2. /\ calls' = [c \in Caller |-> calls'[c]]
      /\ \A c \in Caller : calls'[c] = calls[c] \/ calls'[c] = None
  BY DEF Settled, CallsTyped
<1>3. clock' \in Time
  BY DEF Settled, SessionsTyped
<1> QED
  BY <1>1, <1>2, <1>3, SettledStep

LEMMA SettledSame ==
    ASSUME Settled, UNCHANGED <<projectVars, sessions>>, clock' \in Time,
           calls' = calls \/ \E c \in Caller : calls' = [calls EXCEPT ![c] = None],
           UNCHANGED history
    PROVE  Settled'
<1>1. Grows
  BY DEF Settled, SessionsTyped, Grows, Known
<1>2. /\ calls' = [c \in Caller |-> calls'[c]]
      /\ \A c \in Caller : calls'[c] = calls[c] \/ calls'[c] = None
  BY DEF Settled, CallsTyped
<1>3. history' \in [SessionKey -> Tale]
  BY DEF Settled, SessionsTyped
<1> QED
  BY <1>1, <1>2, <1>3, SettledStep

------------------------------------------------------------------------------
(* New rows, touched rows, prompts *)

LEMMA SeedGood ==
    ASSUME Sound, NEW d \in Dir, NEW fresh \in BOOLEAN, NEW at \in Time,
           ResolveEntry(d).state # "degraded"
    PROVE  Seed(d, fresh, at) \in Good
<1> DEFINE match == ResolveEntry(d)
<1>1. match.project \in Homes \cup {None} /\ CanonicalDirectory(d) \in Dir
  BY ResolvedTyped, BoundAreHomes
<1>2. match.project # None => projects[match.project].root \in Dir
  BY ResolvedTyped DEF Sound, RowsTyped, Bound, Row
<1>3. Homes \subseteq Project
  BY DEF Homes, Sound, RowsTyped
<1>4. <<>> \in Seq(Prompt) /\ 0 \in 0..MaxPrompts
  BY LimitsAssumption
<1> HIDE DEF match
<1>5. None \notin Dir
  BY SentinelAssumption
<1>6. Seed(d, fresh, at) \in Session
  BY <1>1, <1>2, <1>3, <1>4 DEF Seed, Session, MaybeProject, match
<1>7. Readable(Seed(d, fresh, at))
  BY <1>1, <1>2, <1>5 DEF Seed, Readable, match
<1> QED
  BY <1>6, <1>7 DEF Good

LEMMA TouchGood ==
    ASSUME NEW row \in Good, NEW at \in Time
    PROVE  [row EXCEPT !.active = Later(@, at)] \in Good
  BY DEF Good, Session, Readable, Later, Time

LEMMA TrimTyped ==
    ASSUME NEW s \in Seq(Prompt)
    PROVE  Trim(s) \in Seq(Prompt)
<1>1. Later(1, Len(s) - KeepRecent + 1) \in Nat /\ Later(1, Len(s) - KeepRecent + 1) >= 1
  BY LimitsAssumption DEF Later
<1> QED
  BY <1>1 DEF Trim

LEMMA PromptGood ==
    ASSUME NEW row \in Good, NEW prompt \in Prompt, NEW at \in Time, row.count < MaxPrompts
    PROVE  /\ WithPrompt(row, prompt, at) \in Good
           /\ WithPrompt(row, prompt, at).project = row.project
           /\ WithPrompt(row, prompt, at).status = row.status
<1>1. Trim(Append(row.recent, prompt)) \in Seq(Prompt)
  <2>1. row.recent \in Seq(Prompt)
    BY DEF Good, Session
  <2>2. Append(row.recent, prompt) \in Seq(Prompt)
    BY <2>1
  <2> QED
    BY <2>2, TrimTyped
<1>2. WithPrompt(row, prompt, at) \in Session
  <2> DEFINE first == IF row.first = None THEN prompt ELSE row.first
             recent == Trim(Append(row.recent, prompt))
             active == Later(row.active, at)
             count == row.count + 1
  <2>1. row \in Session
    BY DEF Good
  <2>2. first \in Prompt \cup {None} /\ active \in Time
    BY <2>1 DEF Session, Later
  <2>3. count \in 0..MaxPrompts
    BY <2>1, LimitsAssumption DEF Session
  <2>4. recent \in Seq(Prompt)
    BY <1>1
  <2>5. WithPrompt(row, prompt, at) =
           [row EXCEPT !.count = count, !.first = first, !.recent = recent, !.active = active]
    BY <2>1 DEF WithPrompt, Session
  <2> HIDE DEF first, recent, active, count
  <2> QED
    BY <2>1, <2>2, <2>3, <2>4, <2>5 DEF Session
<1>3. Readable(WithPrompt(row, prompt, at))
  BY LimitsAssumption DEF WithPrompt, Good, Session, Readable
<1>4. /\ WithPrompt(row, prompt, at).project = row.project
      /\ WithPrompt(row, prompt, at).status = row.status
  BY DEF WithPrompt, Good, Session
<1> QED
  BY <1>2, <1>3, <1>4 DEF Good

LEMMA KnownGood ==
    ASSUME Settled, NEW s \in Known
    PROVE  s \in SessionKey /\ sessions[s] \in Good /\ sessions[s] \in Session
  BY DEF Settled, SessionsTyped, Good

LEMMA AtTime ==
    ASSUME Settled, NEW at \in 1..clock
    PROVE  at \in Time
  BY LimitsAssumption DEF Settled, SessionsTyped, Time

LEMMA SettledTouch ==
    ASSUME Settled, NEW s \in Known, NEW at \in 1..clock, Touch(s, at), Alone,
           UNCHANGED history
    PROVE  Settled'
<1> DEFINE row == [sessions[s] EXCEPT !.active = Later(@, at)]
<1>1. row \in Good /\ row.project = sessions[s].project /\ row.status = sessions[s].status
  BY KnownGood, AtTime, TouchGood DEF Session
<1>2. PutSession(s, row) /\ UNCHANGED projectVars /\ UNCHANGED clock /\ calls' = calls
  BY DEF Touch, Alone
<1>3. history' \in [SessionKey -> Tale]
  BY DEF Settled, SessionsTyped
<1> HIDE DEF row
<1> QED
  BY <1>1, <1>2, <1>3, KnownGood, SettledPut

LEMMA SettledStartNew ==
    ASSUME Settled, NEW s \in SessionKey, NEW d \in Dir, NEW fresh \in BOOLEAN,
           StartNew(s, d, fresh, clock)
    PROVE  Settled'
<1> DEFINE call == [kind |-> "start", key |-> s, seed |-> Seed(d, fresh, clock)]
<1>1. Seed(d, fresh, clock) \in Good
  BY SeedGood DEF StartNew, Settled, SessionsTyped
<1>2. RightCall(call)
  BY <1>1 DEF RightCall, CallOf, Kinds
<1>3. Enter(call)
  BY DEF StartNew
<1> HIDE DEF call
<1> QED
  BY <1>2, <1>3, SettledEnter

LEMMA SettledPromptNew ==
    ASSUME Settled, NEW s \in SessionKey, NEW d \in Dir, PromptNew(s, d, clock)
    PROVE  Settled'
<1>1. Seed(d, FALSE, clock) \in Good /\ clock \in Time
  BY SeedGood DEF PromptNew, Settled, SessionsTyped
<1>2. PICK prompt \in Prompt :
          Enter([kind |-> "prompt", key |-> s, seed |-> Seed(d, FALSE, clock),
                 prompt |-> prompt, at |-> clock])
  BY DEF PromptNew
<1> DEFINE call == [kind |-> "prompt", key |-> s, seed |-> Seed(d, FALSE, clock),
                    prompt |-> prompt, at |-> clock]
<1>3. RightCall(call)
  BY <1>1 DEF RightCall, CallOf, Kinds
<1> HIDE DEF call
<1> QED
  BY <1>2, <1>3, SettledEnter DEF call

LEMMA SettledRegister ==
    ASSUME Settled, NEW c \in Caller, Register(c)
    PROVE  Settled'
<1>1. /\ UNCHANGED projectVars /\ UNCHANGED clock /\ UNCHANGED history
      /\ calls' = [calls EXCEPT ![c] = None]
  BY DEF Register, Leave
<1>2. calls[c].key \in SessionKey /\ calls[c].seed \in Good
  BY DEF Register, Leave, Settled, CallsTyped, RightCall, CallOf
<1>3. clock' \in Time /\ history' \in [SessionKey -> Tale]
  BY <1>1 DEF Settled, SessionsTyped
<1>4. CASE calls[c].key \in Known
  BY <1>1, <1>3, <1>4, SettledSame DEF Register
<1>5. CASE calls[c].key \notin Known
  <2>1. PutSession(calls[c].key, calls[c].seed)
    BY <1>5 DEF Register
  <2> QED
    BY <1>1, <1>2, <1>3, <1>5, <2>1, SettledPut
<1> QED
  BY <1>4, <1>5

LEMMA SettledAddPrompt ==
    ASSUME Settled, NEW s \in SessionKey, NEW seed \in Good, NEW prompt \in Prompt,
           NEW at \in Time, AddPrompt(s, seed, prompt, at),
           UNCHANGED projectVars, UNCHANGED clock,
           calls' = calls \/ \E c \in Caller : calls' = [calls EXCEPT ![c] = None]
    PROVE  Settled'
<1> DEFINE row == IF s \in Known THEN sessions[s] ELSE seed
           next == WithPrompt(row, prompt, at)
<1>1. row \in Good /\ row.count < MaxPrompts /\ PutSession(s, next)
  BY KnownGood DEF AddPrompt
<1>2. next \in Good /\ next.project = row.project /\ next.status = row.status
  BY <1>1, PromptGood
<1>3. history[s] \in Tale /\ history \in [SessionKey -> Tale]
  BY DEF Settled, SessionsTyped
<1>4. history' = [history EXCEPT ![s].landed = Append(@, prompt)]
  BY DEF AddPrompt, Landed
<1>5. Append(history[s].landed, prompt) \in Seq(Prompt)
  BY <1>3 DEF Tale
<1>6. history' \in [SessionKey -> Tale]
  BY <1>3, <1>4, <1>5 DEF Tale
<1>7. \A k \in SessionKey : history'[k].homes = history[k].homes
  BY <1>3, <1>4 DEF Tale
<1>8. s \in Known => next.project = sessions[s].project /\ next.status = sessions[s].status
  BY <1>2
<1> HIDE DEF next, row
<1> QED
  BY <1>1, <1>2, <1>6, <1>7, <1>8, SettledPut

LEMMA SettledPromptAgain ==
    ASSUME Settled, NEW s \in SessionKey, NEW at \in 1..clock, PromptAgain(s, at)
    PROVE  Settled'
<1>1. s \in Known /\ UNCHANGED projectVars /\ UNCHANGED clock /\ calls' = calls
  BY DEF PromptAgain, Alone
<1>2. PICK prompt \in Prompt : AddPrompt(s, sessions[s], prompt, at)
  BY DEF PromptAgain
<1>3. sessions[s] \in Good /\ at \in Time
  BY <1>1, KnownGood, AtTime
<1> QED
  BY <1>1, <1>2, <1>3, SettledAddPrompt

LEMMA SettledPromptLands ==
    ASSUME Settled, NEW c \in Caller, PromptLands(c)
    PROVE  Settled'
<1> DEFINE call == calls[c]
<1>1. /\ UNCHANGED projectVars /\ UNCHANGED clock
      /\ calls' = [calls EXCEPT ![c] = None]
      /\ AddPrompt(call.key, call.seed, call.prompt, call.at)
  BY DEF PromptLands, Leave
<1>2. call.key \in SessionKey /\ call.seed \in Good /\ call.prompt \in Prompt /\ call.at \in Time
  BY DEF PromptLands, Leave, Settled, CallsTyped, RightCall, CallOf
<1> QED
  BY <1>1, <1>2, SettledAddPrompt

------------------------------------------------------------------------------
(* Stops, confirmations, registrations *)

LEMMA SettledStop ==
    ASSUME Settled, NEW s \in SessionKey, NEW at \in 1..clock, Stop(s, at)
    PROVE  Settled'
<1> DEFINE old == sessions[s]
           nudged == IF Due(old) THEN old.count ELSE old.nudged
           row == [old EXCEPT !.active = Later(@, at), !.nudged = nudged]
<1>1. s \in Known /\ UNCHANGED projectVars /\ UNCHANGED clock /\ calls' = calls
  BY DEF Stop, Alone
<1>2. old \in Good /\ old \in Session /\ at \in Time
  BY <1>1, KnownGood, AtTime
<1>3. nudged \in 0..MaxPrompts /\ nudged <= old.count /\ Later(old.active, at) \in Time
  BY <1>2, LimitsAssumption DEF Good, Session, Readable, Later
<1>4. row \in Session /\ row.project = old.project /\ row.status = old.status
      /\ row.count = old.count /\ row.nudged = nudged
  <2> HIDE DEF old, nudged
  <2> QED
    BY <1>2, <1>3 DEF Session
<1>5. row \in Good
  <2>1. /\ row.saved = old.saved /\ row.candidate = old.candidate
        /\ row.candidate_root = old.candidate_root /\ row.origin = old.origin
    BY <1>2 DEF Session
  <2> HIDE DEF old, nudged, row
  <2> QED
    BY <1>2, <1>3, <1>4, <2>1 DEF Good, Readable
<1>6. PutSession(s, row)
  <2>1. sessions[s].nudged = old.nudged
    OBVIOUS
  <2> QED
    BY <1>2 DEF Stop, Session
<1>7. history[s] \in Tale /\ history \in [SessionKey -> Tale]
  BY DEF Settled, SessionsTyped
<1>8. /\ history' \in [SessionKey -> Tale]
      /\ \A k \in SessionKey : history'[k].homes = history[k].homes
  <2> DEFINE nudge == [count |-> sessions[s].count, saved |-> sessions[s].saved]
  <2>1. nudge \in [count: Nat, saved: Nat]
    BY <1>2, LimitsAssumption DEF Session
  <2>2. Append(history[s].nudges, nudge) \in Seq([count: Nat, saved: Nat])
    BY <1>7, <2>1 DEF Tale
  <2>3. \/ history' = [history EXCEPT ![s].nudges = Append(@, nudge)]
        \/ history' = history
    BY DEF Stop
  <2> DEFINE longer == Append(history[s].nudges, nudge)
  <2>4. longer \in Seq([count: Nat, saved: Nat])
    BY <2>2
  <2>5. history' = [history EXCEPT ![s].nudges = longer] \/ history' = history
    BY <2>3
  <2> HIDE DEF longer
  <2>6. CASE history' = [history EXCEPT ![s].nudges = longer]
    BY <1>7, <2>4, <2>6 DEF Tale
  <2>7. CASE history' = history
    BY <1>7, <2>7
  <2> QED
    BY <2>5, <2>6, <2>7
<1> HIDE DEF row, nudged
<1> QED
  BY <1>1, <1>4, <1>5, <1>6, <1>8, SettledPut

LEMMA SettledConfirmRead ==
    ASSUME Settled, NEW s \in SessionKey, ConfirmRead(s)
    PROVE  Settled'
<1> DEFINE call == [kind |-> "confirm", key |-> s]
<1>1. RightCall(call)
  BY DEF ConfirmRead, RightCall, CallOf, Kinds
<1>2. Enter(call)
  BY DEF ConfirmRead
<1> HIDE DEF call
<1> QED
  BY <1>1, <1>2, SettledEnter

LEMMA SettledRegisterRead ==
    ASSUME Settled, NEW s \in SessionKey, RegisterRead(s)
    PROVE  Settled'
<1> DEFINE project == ResolveEntry(sessions[s].entry).project
           call == [kind |-> "register", key |-> s, project |-> project]
<1>1. s \in Known /\ Sound
  BY DEF RegisterRead, Settled
<1>2. sessions[s].entry \in Dir
  BY <1>1, KnownGood DEF Session
<1>3. project \in Homes
  BY <1>1, <1>2, ResolvedTyped, BoundAreHomes DEF RegisterRead
<1>4. RightCall(call)
  BY <1>1, <1>3 DEF RightCall, CallOf, Kinds
<1>5. Enter(call)
  BY DEF RegisterRead
<1> HIDE DEF call
<1> QED
  BY <1>4, <1>5, SettledEnter

\* A row becomes registered, with a project it may have.
LEMMA RegisteredGood ==
    ASSUME NEW row \in Good, NEW project \in Homes \cup {None}, Sound
    PROVE  [row EXCEPT !.status = "registered", !.project = project] \in Good
<1>1. project \in MaybeProject
  BY DEF Homes, Sound, RowsTyped, MaybeProject
<1>2. row \in Session
  BY DEF Good
<1> QED
  BY <1>1, <1>2 DEF Good, Session, Readable

LEMMA SettledConfirm ==
    ASSUME Settled, NEW c \in Caller, Confirm(c)
    PROVE  Settled'
<1> DEFINE s == calls[c].key
           row == [sessions[s] EXCEPT !.status = "registered", !.project = sessions[s].candidate]
<1>1. /\ UNCHANGED projectVars /\ UNCHANGED clock /\ UNCHANGED history
      /\ calls' = [calls EXCEPT ![c] = None]
  BY DEF Confirm, Leave
<1>3. clock' \in Time /\ history' \in [SessionKey -> Tale]
  BY <1>1 DEF Settled, SessionsTyped
<1>4. CASE s \notin Known \/ sessions[s].status = "registered"
  BY <1>1, <1>3, <1>4, SettledSame DEF Confirm
<1>5. CASE s \in Known /\ sessions[s].status # "registered"
  <2>1. PutSession(s, row)
    BY <1>5 DEF Confirm
  <2>2. sessions[s] \in Good /\ sessions[s] \in Session /\ s \in SessionKey
    BY <1>5, KnownGood
  <2>3. sessions[s].status = "pending" /\ sessions[s].project = None
        /\ sessions[s].candidate \in Homes \cup {None}
    BY <1>5, <2>2 DEF Session, Good, Readable
  <2>4. row \in Good
    BY <2>2, <2>3, RegisteredGood DEF Settled
  <2> HIDE DEF row, s
  <2> QED
    BY <1>1, <1>3, <1>5, <2>1, <2>2, <2>3, <2>4, SettledPut
<1> QED
  BY <1>4, <1>5

LEMMA SettledAssignProject ==
    ASSUME Settled, NEW c \in Caller, AssignProject(c)
    PROVE  Settled'
<1> DEFINE s == calls[c].key
           row == [sessions[s] EXCEPT !.status = "registered", !.project = calls[c].project]
<1>1. /\ UNCHANGED projectVars /\ UNCHANGED clock /\ UNCHANGED history
      /\ calls' = [calls EXCEPT ![c] = None]
  BY DEF AssignProject, Leave
<1>2. s \in Known /\ calls[c].project \in Homes
  BY DEF AssignProject, Leave, Settled, CallsTyped, RightCall, CallOf
<1>3. clock' \in Time /\ history' \in [SessionKey -> Tale]
  BY <1>1 DEF Settled, SessionsTyped
<1>4. CASE sessions[s].project # None \/ sessions[s].candidate # None
  BY <1>1, <1>3, <1>4, SettledSame DEF AssignProject
<1>5. CASE sessions[s].project = None /\ sessions[s].candidate = None
  <2>1. PutSession(s, row)
    BY <1>5 DEF AssignProject
  <2>2. sessions[s] \in Good /\ sessions[s] \in Session /\ s \in SessionKey
    BY <1>2, KnownGood
  <2>3. row \in Good /\ row.status = "registered"
    BY <1>2, <2>2, RegisteredGood DEF Settled, Session
  <2> HIDE DEF row, s
  <2> QED
    BY <1>1, <1>3, <1>5, <2>1, <2>2, <2>3, SettledPut
<1> QED
  BY <1>4, <1>5

------------------------------------------------------------------------------
(* Saves and summaries, and the rest *)

LEMMA SettledSaveRead ==
    ASSUME Settled, NEW s \in SessionKey, SaveRead(s)
    PROVE  Settled'
<1>1. PICK p \in Granted(sessions[s]) : Enter([kind |-> "save", key |-> s, project |-> p])
  BY DEF SaveRead
<1> DEFINE call == [kind |-> "save", key |-> s, project |-> p]
<1>2. s \in Known /\ sessions[s] \in Session
  BY KnownGood DEF SaveRead
<1>3. sessions[s].status = "registered" /\ p = sessions[s].project /\ p \in Homes
  BY <1>1, <1>2 DEF Granted, Homes, Session
<1>4. RightCall(call)
  BY <1>2, <1>3 DEF RightCall, CallOf, Kinds
<1> HIDE DEF call
<1> QED
  BY <1>1, <1>4, SettledEnter DEF call

LEMMA SettledSaveWrites ==
    ASSUME Settled, NEW c \in Caller, SaveWrites(c)
    PROVE  Settled'
<1> DEFINE s == calls[c].key
           p == calls[c].project
<1>1. /\ UNCHANGED <<projectVars, sessions, clock>>
      /\ history' = [history EXCEPT ![s].homes = @ \cup {p}]
      /\ calls' = [calls EXCEPT ![c] = [kind |-> "saved", key |-> s]]
  BY DEF SaveWrites
<1>2. /\ s \in Known /\ p \in Homes /\ sessions[s].status = "registered"
      /\ sessions[s].project = p
  BY DEF SaveWrites, Settled, CallsTyped, RightCall, CallOf
<1>3. s \in SessionKey /\ p \in Project /\ p # None
  BY <1>2, SentinelAssumption, KnownGood DEF Homes, Settled, Sound, RowsTyped
<1>4. Grows
  BY <1>1 DEF Settled, SessionsTyped, Grows, Known
<1>5. /\ calls' = [d \in Caller |-> calls'[d]]
      /\ \A d \in Caller : d # c => calls'[d] = calls[d]
      /\ calls'[c] = [kind |-> "saved", key |-> s]
  BY <1>1 DEF Settled, CallsTyped
<1>6. RightCall(calls[c])'
  <2>1. s \in Known'
    BY <1>1, <1>2 DEF Known
  <2> QED
    BY <1>5, <2>1 DEF RightCall, CallOf, Kinds
<1>7. history \in [SessionKey -> Tale] /\ clock' \in Time
  BY <1>1 DEF Settled, SessionsTyped
<1>8. /\ history' \in [SessionKey -> Tale]
      /\ \A k \in SessionKey : k # s => history'[k].homes = history[k].homes
      /\ history'[s].homes = history[s].homes \cup {p}
  <2> HIDE DEF s, p
  <2> QED
    BY <1>1, <1>3, <1>7 DEF Tale
<1>9. UNCHANGED projectVars
  BY <1>1
<1>10. \A d \in Caller : calls'[d] # None => calls'[d] = calls[d] \/ RightCall(calls[d])'
  BY <1>5, <1>6 DEF RightCall
<1>11. \A k \in SessionKey :
              \/ history'[k].homes = history[k].homes
              \/ /\ k \in Known /\ sessions[k].status = "registered"
                 /\ sessions[k].project # None
                 /\ history'[k].homes = history[k].homes \cup {sessions[k].project}
  BY <1>2, <1>3, <1>8
<1> QED
  BY <1>4, <1>5, <1>7, <1>8, <1>9, <1>10, <1>11, SettledStep

LEMMA SavedGood ==
    ASSUME NEW row \in Good
    PROVE  LET next == [row EXCEPT !.saved = row.count]
           IN  next \in Good /\ next.status = row.status /\ next.project = row.project
<1> DEFINE next == [row EXCEPT !.saved = row.count]
<1>1. row \in Session
  BY DEF Good
<1>2. next \in Session
  BY <1>1 DEF Session
<1>3. /\ next.status = row.status /\ next.project = row.project /\ next.origin = row.origin
      /\ next.saved = row.count /\ next.count = row.count /\ next.nudged = row.nudged
      /\ next.candidate = row.candidate /\ next.candidate_root = row.candidate_root
  BY <1>1 DEF Session
<1>4. Readable(next)
  <2> HIDE DEF next
  <2> QED
    BY <1>1, <1>3, LimitsAssumption DEF Good, Readable, Session
<1> QED
  BY <1>2, <1>3, <1>4 DEF Good

LEMMA SettledMarkSaved ==
    ASSUME Settled, NEW c \in Caller, MarkSaved(c)
    PROVE  Settled'
<1> DEFINE s == calls[c].key
           row == [sessions[s] EXCEPT !.saved = sessions[s].count]
<1>1. /\ UNCHANGED projectVars /\ UNCHANGED clock /\ UNCHANGED history
      /\ calls' = [calls EXCEPT ![c] = None] /\ PutSession(s, row)
  BY DEF MarkSaved, Leave
<1>2. s \in Known
  BY DEF MarkSaved, Leave, Settled, CallsTyped, RightCall, CallOf
<1>3. history' \in [SessionKey -> Tale]
  BY <1>1 DEF Settled, SessionsTyped
<1>4. sessions[s] \in Good /\ sessions[s] \in Session /\ s \in SessionKey
  BY <1>2, KnownGood
<1>5. row \in Good /\ row.status = sessions[s].status /\ row.project = sessions[s].project
  BY <1>4, SavedGood
<1> HIDE DEF row, s
<1> QED
  BY <1>1, <1>3, <1>4, <1>5, SettledPut

LEMMA SettledSummaryRead ==
    ASSUME Settled, NEW s \in SessionKey, SummaryRead(s)
    PROVE  Settled'
<1> DEFINE call == [kind |-> "publish", key |-> s, active |-> sessions[s].active,
                    covers |-> sessions[s].count]
<1>1. s \in Known /\ sessions[s] \in Session
  BY KnownGood DEF SummaryRead
<1>2. RightCall(call)
  BY <1>1 DEF RightCall, CallOf, Kinds, Session
<1>3. Enter(call)
  BY DEF SummaryRead
<1> HIDE DEF call
<1> QED
  BY <1>2, <1>3, SettledEnter

LEMMA SummaryGood ==
    ASSUME NEW row \in Good, NEW covers \in 0..MaxPrompts
    PROVE  LET next == [row EXCEPT !.summary = covers]
           IN  next \in Good /\ next.status = row.status /\ next.project = row.project
<1> DEFINE next == [row EXCEPT !.summary = covers]
<1>1. row \in Session
  BY DEF Good
<1>2. next \in Session
  BY <1>1 DEF Session
<1>3. /\ next.status = row.status /\ next.project = row.project /\ next.origin = row.origin
      /\ next.saved = row.saved /\ next.count = row.count /\ next.nudged = row.nudged
      /\ next.candidate = row.candidate /\ next.candidate_root = row.candidate_root
  BY <1>1 DEF Session
<1>4. Readable(next)
  <2> HIDE DEF next
  <2> QED
    BY <1>3 DEF Good, Readable
<1> QED
  BY <1>2, <1>3, <1>4 DEF Good

LEMMA SettledPublishSummary ==
    ASSUME Settled, NEW c \in Caller, PublishSummary(c)
    PROVE  Settled'
<1> DEFINE s == calls[c].key
           row == [sessions[s] EXCEPT !.summary = calls[c].covers]
<1>1. /\ UNCHANGED projectVars /\ UNCHANGED clock /\ UNCHANGED history
      /\ calls' = [calls EXCEPT ![c] = None] /\ PutSession(s, row)
  BY DEF PublishSummary, Leave
<1>2. s \in Known /\ calls[c].covers \in 0..MaxPrompts
  BY DEF PublishSummary, Leave, Settled, CallsTyped, RightCall, CallOf
<1>3. history' \in [SessionKey -> Tale]
  BY <1>1 DEF Settled, SessionsTyped
<1>4. sessions[s] \in Good /\ sessions[s] \in Session /\ s \in SessionKey
  BY <1>2, KnownGood
<1>5. row \in Good /\ row.status = sessions[s].status /\ row.project = sessions[s].project
  BY <1>2, <1>4, SummaryGood
<1> HIDE DEF row, s
<1> QED
  BY <1>1, <1>3, <1>4, <1>5, SettledPut

LEMMA SettledNext == Settled /\ [SessionNext]_allVars => Settled'
<1> SUFFICES ASSUME Settled, [SessionNext]_allVars PROVE Settled'
  OBVIOUS
<1>1. ASSUME NEW s \in SessionKey, OnSession(s) PROVE Settled'
  <2>1. ASSUME NEW at \in 1..clock, StartAgain(s, at) \/ EndSession(s, at) PROVE Settled'
    BY <2>1, SettledTouch DEF StartAgain, EndSession
  <2>2. ASSUME NEW at \in 1..clock, PromptAgain(s, at) \/ Stop(s, at) PROVE Settled'
    BY <2>2, SettledPromptAgain, SettledStop
  <2> QED
    BY <1>1, <2>1, <2>2, SettledStartNew, SettledPromptNew, SettledConfirmRead,
       SettledRegisterRead, SettledSaveRead, SettledSummaryRead DEF OnSession
<1>2. ASSUME NEW c \in Caller, Lands(c) PROVE Settled'
  <2>1. CASE Drop(c)
    <3>1. clock' \in Time
      BY <2>1 DEF Drop, Leave, Settled, SessionsTyped
    <3> QED
      BY <2>1, <3>1, SettledSame DEF Drop, Leave
  <2> QED
    BY <1>2, <2>1, SettledRegister, SettledPromptLands, SettledConfirm,
       SettledAssignProject, SettledSaveWrites, SettledMarkSaved, SettledPublishSummary
    DEF Lands
<1>3. CASE Tick
  <2>1. clock' \in Time
    BY <1>3, LimitsAssumption DEF Tick, Settled, SessionsTyped, Time
  <2> QED
    BY <1>3, <2>1, SettledSame DEF Tick
<1>4. CASE ProjectNext /\ UNCHANGED sessionVars
  BY <1>4, SettledOperator
<1>5. CASE UNCHANGED allVars
  BY <1>5, SettledOperator DEF allVars, sessionVars, projectVars
<1> QED
  BY <1>1, <1>2, <1>3, <1>4, <1>5 DEF SessionNext

------------------------------------------------------------------------------
(* The theorems *)

THEOREM SettledInvariant == SessionSpec => []Settled
  BY SettledInit, SettledNext, PTL DEF SessionSpec

\* Every row reads back, whatever landed on it and in which order.
THEOREM RowsReadableHolds == SessionSpec => []RowsReadable
<1>1. Settled => RowsReadable
  BY DEF Settled, SessionsTyped, RowsReadable, Good, Readable, Homes
<1> QED
  BY <1>1, SettledInvariant, PTL

\* A session writes to its own project and nowhere else.
THEOREM WritesGoHomeHolds == SessionSpec => []WritesGoHome
<1>1. Settled => WritesGoHome
  BY DEF Settled
<1> QED
  BY <1>1, SettledInvariant, PTL

\* Which rows a step puts, and what it then does to a project or a candidate.
LEMMA ProjectsSettle ==
    ASSUME Settled, [SessionNext]_allVars, NEW s \in Known
    PROVE  /\ s \in Known'
           /\ \/ /\ sessions'[s].project = sessions[s].project
                 /\ sessions'[s].status = sessions[s].status
                 /\ sessions'[s].candidate = sessions[s].candidate
              \/ \E c \in Caller : (Confirm(c) \/ AssignProject(c)) /\ calls[c].key = s
<1> DEFINE Same == /\ s \in Known'
                   /\ sessions'[s].project = sessions[s].project
                   /\ sessions'[s].status = sessions[s].status
                   /\ sessions'[s].candidate = sessions[s].candidate
           Other == \E c \in Caller : (Confirm(c) \/ AssignProject(c)) /\ calls[c].key = s
<1>1. sessions[s] \in Session /\ sessions[s] \in Good /\ s \in SessionKey
  BY KnownGood
<1>2. ASSUME NEW k, NEW row, PutSession(k, row), k = s => row.project = sessions[s].project
                 /\ row.status = sessions[s].status /\ row.candidate = sessions[s].candidate
      PROVE  Same
  BY <1>2 DEF PutSession, Known
<1>3. CASE UNCHANGED sessions
  BY <1>3 DEF Known
<1>4. ASSUME NEW k \in SessionKey, OnSession(k) PROVE Same
  <2>1. ASSUME NEW at \in 1..clock,
               StartAgain(k, at) \/ EndSession(k, at)
        PROVE  Same
    BY <1>1, <1>2, <2>1 DEF StartAgain, EndSession, Touch, Session
  <2>2. ASSUME NEW at \in 1..clock, PromptAgain(k, at) PROVE Same
    <3>1. PICK prompt \in Prompt : AddPrompt(k, sessions[k], prompt, at)
      BY <2>2 DEF PromptAgain
    <3>2. k \in Known
      BY <2>2 DEF PromptAgain
    <3>3. PutSession(k, WithPrompt(sessions[k], prompt, at))
      BY <3>1 DEF AddPrompt
    <3> QED
      BY <1>1, <1>2, <3>3 DEF WithPrompt, Session
  <2>3. ASSUME NEW at \in 1..clock, Stop(k, at) PROVE Same
    BY <1>1, <1>2, <2>3 DEF Stop, Session
  <2>4. CASE UNCHANGED sessions
    BY <1>3, <2>4
  <2> QED
    BY <1>4, <2>1, <2>2, <2>3, <2>4
    DEF OnSession, StartNew, PromptNew, ConfirmRead, RegisterRead, SaveRead, SummaryRead, Enter
<1>5. ASSUME NEW c \in Caller, Lands(c) PROVE Same \/ Other
  <2>1. CASE Register(c)
    BY <1>2, <1>3, <2>1 DEF Register
  <2>2. CASE PromptLands(c)
    <3> DEFINE k == calls[c].key
               old == IF k \in Known THEN sessions[k] ELSE calls[c].seed
    <3>1. PutSession(k, WithPrompt(old, calls[c].prompt, calls[c].at))
      BY <2>2 DEF PromptLands, AddPrompt
    <3>2. k = s => old = sessions[s]
      OBVIOUS
    <3> HIDE DEF k, old
    <3> QED
      BY <1>1, <1>2, <3>1, <3>2 DEF WithPrompt, Session
  <2>3. CASE MarkSaved(c)
    BY <1>1, <1>2, <2>3 DEF MarkSaved, Session
  <2>4. CASE PublishSummary(c)
    BY <1>1, <1>2, <2>4 DEF PublishSummary, Session
  <2>5. CASE SaveWrites(c) \/ Drop(c)
    BY <1>3, <2>5 DEF SaveWrites, Drop
  <2>6. CASE Confirm(c) \/ AssignProject(c)
    <3>1. CASE calls[c].key = s
      BY <2>6, <3>1
    <3>2. CASE calls[c].key # s
      BY <1>2, <1>3, <2>6, <3>2 DEF Confirm, AssignProject
    <3> QED
      BY <3>1, <3>2
  <2> QED
    BY <1>5, <2>1, <2>2, <2>3, <2>4, <2>5, <2>6 DEF Lands
<1>6. CASE Tick \/ UNCHANGED sessionVars \/ UNCHANGED allVars
  BY <1>3, <1>6 DEF Tick, sessionVars, allVars
<1>7. s \in Known'
  <2>1. CASE Other
    BY <2>1 DEF Confirm, AssignProject, PutSession, Known
  <2> QED
    BY <1>4, <1>5, <1>6, <2>1 DEF SessionNext
<1> QED
  BY <1>4, <1>5, <1>6, <1>7 DEF SessionNext

\* A session's project and its candidate stand, and it stays registered.
THEOREM ProjectStandsHolds == SessionSpec => ProjectStands
<1> DEFINE Stands ==
        \A s \in Known :
          /\ s \in DOMAIN sessions'
          /\ sessions[s].project # None => sessions'[s].project = sessions[s].project
          /\ sessions[s].status = "registered" => sessions'[s].status = "registered"
          /\ sessions'[s].candidate = sessions[s].candidate
<1>1. ASSUME Settled, [SessionNext]_allVars PROVE Stands
  <2> SUFFICES ASSUME NEW s \in Known, NEW c \in Caller, Confirm(c) \/ AssignProject(c),
                      calls[c].key = s
               PROVE  /\ sessions[s].project # None => sessions'[s].project = sessions[s].project
                      /\ sessions[s].status = "registered" => sessions'[s].status = "registered"
                      /\ sessions'[s].candidate = sessions[s].candidate
    BY <1>1, ProjectsSettle DEF Known
  <2>1. sessions[s] \in Session /\ Readable(sessions[s])
    BY <1>1, KnownGood DEF Good
  <2>2. CASE UNCHANGED sessions
    BY <2>2
  <2>3. CASE Confirm(c) /\ ~UNCHANGED sessions
    BY <2>1, <2>3 DEF Confirm, PutSession, Session, Readable
  <2>4. CASE AssignProject(c) /\ ~UNCHANGED sessions
    BY <2>1, <2>4, ZenonT(60) DEF AssignProject, PutSession, Session
  <2> QED
    BY <2>2, <2>3, <2>4
<1>2. Settled /\ [SessionNext]_allVars => [Stands]_allVars
  BY <1>1
<1> QED
  BY <1>2, SettledInvariant, PTL DEF SessionSpec, ProjectStands

\* A proposed project is confirmed as it was proposed, or not at all.
THEOREM ConfirmedAsProposedHolds == SessionSpec => ConfirmedAsProposed
<1> DEFINE Proposed ==
        \A s \in Known :
          /\ sessions[s].candidate # None
          /\ sessions'[s].project # sessions[s].project
          => /\ sessions'[s].project = sessions[s].candidate
             /\ projects[sessions[s].candidate].root = sessions[s].candidate_root
<1>1. ASSUME Settled, [SessionNext]_allVars PROVE Proposed
  <2> SUFFICES ASSUME NEW s \in Known, NEW c \in Caller, Confirm(c) \/ AssignProject(c),
                      calls[c].key = s, sessions[s].candidate # None,
                      sessions'[s].project # sessions[s].project
               PROVE  /\ sessions'[s].project = sessions[s].candidate
                      /\ projects[sessions[s].candidate].root = sessions[s].candidate_root
    BY <1>1, ProjectsSettle
  <2>1. sessions[s] \in Session
    BY <1>1, KnownGood
  <2>2. Confirm(c) /\ ~UNCHANGED sessions
    BY DEF AssignProject
  <2> QED
    <3> DEFINE row == [sessions[s] EXCEPT !.status = "registered",
                                          !.project = sessions[s].candidate]
    <3>1. /\ projects[sessions[s].candidate] =
                [root |-> sessions[s].candidate_root, is_global |-> FALSE]
          /\ PutSession(s, row)
      BY <2>2 DEF Confirm
    <3>2. sessions'[s] = row
      BY <3>1 DEF PutSession, Known
    <3>3. row.project = sessions[s].candidate
      BY <2>1 DEF Session
    <3>4. projects[sessions[s].candidate].root = sessions[s].candidate_root
      BY <3>1
    <3> QED
      BY <3>2, <3>3, <3>4
<1>2. Settled /\ [SessionNext]_allVars => [Proposed]_allVars
  BY <1>1
<1> QED
  BY <1>2, SettledInvariant, PTL DEF SessionSpec, ConfirmedAsProposed

------------------------------------------------------------------------------
(* Prompts and nudges *)

\* A row no prompt or nudge has reached.
Fresh(row) == row.count = 0 /\ row.first = None /\ row.recent = <<>> /\ row.nudged = 0

\* What a row says of the prompts that landed and the nudges that were given.
Counted(row, tale) ==
    /\ row.count = Len(tale.landed)
    /\ row.first = IF tale.landed = <<>> THEN None ELSE tale.landed[1]
    /\ row.recent = Trim(tale.landed)
    /\ tale.nudges # <<>> => row.nudged = tale.nudges[Len(tale.nudges)].count

Spaced(nudges) ==
    /\ \A i \in 1..Len(nudges) : nudges[i].count - nudges[i].saved >= NudgeMinPrompts
    /\ \A i \in 2..Len(nudges) : nudges[i].count - nudges[i - 1].count >= NudgeInterval

\* The invariant: a session without a row has had nothing, and the row that a call
\* in flight would bring along is fresh, however long ago it was made.
Told ==
    /\ \A s \in SessionKey :
          /\ IF s \in Known THEN Counted(sessions[s], history[s])
             ELSE history[s].landed = <<>> /\ history[s].nudges = <<>>
          /\ Spaced(history[s].nudges)
    /\ \A c \in Caller :
          calls[c] # None /\ calls[c].kind \in {"start", "prompt"} => Fresh(calls[c].seed)

LEMMA TrimElements ==
    ASSUME NEW s \in Seq(Prompt)
    PROVE  /\ Trim(s) \in Seq(Prompt)
           /\ Len(Trim(s)) = IF Len(s) <= KeepRecent THEN Len(s) ELSE KeepRecent
           /\ \A i \in 1..Len(Trim(s)) : Trim(s)[i] = s[Len(s) - Len(Trim(s)) + i]
<1> PICK n : n = Len(s)
  OBVIOUS
<1> PICK k : k = Later(1, n - KeepRecent + 1)
  OBVIOUS
<1>1. n \in Nat /\ KeepRecent \in Nat \ {0} /\ Trim(s) = SubSeq(s, k, n)
  BY LimitsAssumption DEF Trim
<1>2. k \in Int /\ k = IF n <= KeepRecent THEN 1 ELSE n - KeepRecent + 1
  BY <1>1 DEF Later
<1>3. \A i \in k..n : s[i] \in Prompt
  BY <1>1, <1>2
<1>4. n \in Int /\ k \in Int
  BY <1>1, <1>2
<1>5. /\ SubSeq(s, k, n) \in Seq(Prompt)
      /\ Len(SubSeq(s, k, n)) = IF k <= n THEN n - k + 1 ELSE 0
      /\ \A i \in 1..(n - k + 1) : SubSeq(s, k, n)[i] = s[k + i - 1]
  BY <1>3, <1>4, SubSeqProperties, SMTT(30)
<1>6. Len(Trim(s)) = IF n <= KeepRecent THEN n ELSE KeepRecent
  BY <1>1, <1>2, <1>5
<1>7. ASSUME NEW i \in 1..Len(Trim(s))
      PROVE  Trim(s)[i] = s[n - Len(Trim(s)) + i]
  <2> PICK l : l = Len(Trim(s))
    OBVIOUS
  <2>1. i \in 1..l /\ l = n - k + 1
    BY <1>1, <1>2, <1>6
  <2>2. i \in 1..(n - k + 1) /\ k + i - 1 = n - l + i
    BY <1>1, <1>4, <2>1
  <2>3. Trim(s)[i] = s[k + i - 1]
    BY <1>1, <1>5, <2>2
  <2> QED
    BY <2>2, <2>3
<1> QED
  BY <1>1, <1>5, <1>6, <1>7

\* Keeping the recent prompts one at a time keeps the recent ones of all.
LEMMA TrimAppend ==
    ASSUME NEW s \in Seq(Prompt), NEW prompt \in Prompt
    PROVE  Trim(Append(Trim(s), prompt)) = Trim(Append(s, prompt))
<1> DEFINE t == Trim(s)
           a == Append(t, prompt)
           b == Append(s, prompt)
           n == Len(s)
           k == Len(t)
           l == Len(Trim(a))
<1>0. n \in Nat /\ KeepRecent \in Nat \ {0}
  BY LimitsAssumption
<1>1. /\ t \in Seq(Prompt) /\ k = IF n <= KeepRecent THEN n ELSE KeepRecent
      /\ \A i \in 1..k : t[i] = s[n - k + i]
  BY TrimElements
<1>2. /\ a \in Seq(Prompt) /\ Len(a) = k + 1 /\ a[k + 1] = prompt
      /\ \A i \in 1..k : a[i] = t[i]
  <2> HIDE DEF t
  <2> QED
    BY <1>1, AppendProperties
<1>3. /\ b \in Seq(Prompt) /\ Len(b) = n + 1 /\ b[n + 1] = prompt
      /\ \A i \in 1..n : b[i] = s[i]
  BY AppendProperties
<1>4. /\ Trim(a) \in Seq(Prompt)
      /\ l = IF Len(a) <= KeepRecent THEN Len(a) ELSE KeepRecent
      /\ \A i \in 1..l : Trim(a)[i] = a[Len(a) - l + i]
  <2> HIDE DEF a
  <2> QED
    BY <1>2, TrimElements
<1>5. /\ Trim(b) \in Seq(Prompt)
      /\ Len(Trim(b)) = IF Len(b) <= KeepRecent THEN Len(b) ELSE KeepRecent
      /\ \A i \in 1..Len(Trim(b)) : Trim(b)[i] = b[Len(b) - Len(Trim(b)) + i]
  <2> HIDE DEF b
  <2> QED
    BY <1>3, TrimElements
<1> HIDE DEF t, a, b, n, k, l
<1>6. k \in Nat /\ l \in Nat /\ l <= k + 1 /\ k <= n /\ Len(Trim(b)) = l
  BY <1>0, <1>1, <1>2, <1>3, <1>4, <1>5
<1>7. \A i \in 1..(k + 1) : a[i] = b[n - k + i]
  <2> SUFFICES ASSUME NEW i \in 1..(k + 1) PROVE a[i] = b[n - k + i]
    OBVIOUS
  <2>1. CASE i = k + 1
    <3>1. n - k + i = n + 1
      BY <1>0, <1>6, <2>1
    <3> QED
      BY <1>2, <1>3, <2>1, <3>1
  <2>2. CASE i # k + 1
    <3>1. i \in 1..k /\ n - k + i \in 1..n
      BY <1>0, <1>6, <2>2
    <3> QED
      BY <1>1, <1>2, <1>3, <3>1
  <2> QED
    BY <2>1, <2>2
<1>8. ASSUME NEW i \in 1..l PROVE Trim(a)[i] = Trim(b)[i]
  <2>1. /\ k + 1 - l + i \in 1..(k + 1)
        /\ n - k + (k + 1 - l + i) = n + 1 - l + i
    BY <1>0, <1>6
  <2>2. a[k + 1 - l + i] = b[n + 1 - l + i]
    BY <1>7, <2>1
  <2>3. Trim(a)[i] = a[k + 1 - l + i]
    <3>1. Trim(a)[i] = a[Len(a) - l + i]
      BY <1>4, <1>6, Zenon
    <3>2. /\ Len(a) = k + 1 /\ l = l
          /\ i \in Nat /\ k \in Nat /\ l \in Nat /\ Len(a) \in Nat
      BY <1>2, <1>0, <1>6
    <3>3. Len(a) - l + i = k + 1 - l + i
      BY <3>2
    <3> QED
      BY <3>1, <3>3, Zenon
  <2>4. Trim(b)[i] = b[n + 1 - l + i]
    <3>1. Trim(b)[i] = b[Len(b) - Len(Trim(b)) + i]
      BY <1>5, <1>6, Zenon
    <3>2. /\ Len(b) = n + 1 /\ Len(Trim(b)) = l
          /\ i \in Nat /\ n \in Nat /\ l \in Nat /\ Len(b) \in Nat
      BY <1>3, <1>0, <1>6
    <3>3. Len(b) - Len(Trim(b)) + i = n + 1 - l + i
      BY <3>2
    <3> QED
      BY <3>1, <3>3, Zenon
  <2> QED
    BY <2>2, <2>3, <2>4
<1>9. Trim(a) = Trim(b)
  BY <1>4, <1>5, <1>6, <1>8, SeqEqual DEF l
<1> QED
  BY <1>9 DEF a, b, t

LEMMA FreshCounted ==
    ASSUME NEW row, Fresh(row), NEW tale, tale.landed = <<>>, tale.nudges = <<>>
    PROVE  Counted(row, tale)
<1>1. Trim(<<>>) = <<>>
  <2>0. <<>> \in Seq(Prompt)
    OBVIOUS
  <2> PICK none \in Seq(Prompt) : none = <<>>
    BY <2>0, Zenon
  <2>1. Len(none) = 0 /\ KeepRecent \in Nat
    BY LimitsAssumption
  <2>2. Trim(none) \in Seq(Prompt) /\ Len(Trim(none)) = 0
    <3>1. Trim(none) \in Seq(Prompt)
          /\ Len(Trim(none)) = IF Len(none) <= KeepRecent THEN Len(none) ELSE KeepRecent
      BY TrimElements
    <3> QED
      BY <2>1, <3>1
  <2> QED
    BY <2>2, EmptySeq
<1> QED
  BY <1>1 DEF Fresh, Counted

LEMMA CountedPrompt ==
    ASSUME NEW row \in Session, NEW tale \in Tale, Counted(row, tale), NEW prompt \in Prompt, NEW at,
           NEW told, told.landed = Append(tale.landed, prompt), told.nudges = tale.nudges
    PROVE  Counted(WithPrompt(row, prompt, at), told)
<1> PICK landed : landed = tale.landed
  OBVIOUS
<1> PICK next : next = WithPrompt(row, prompt, at)
  OBVIOUS
<1>1. landed \in Seq(Prompt)
  BY DEF Tale
<1>2. /\ row.count = Len(landed) /\ row.recent = Trim(landed)
      /\ row.first = IF landed = <<>> THEN None ELSE landed[1]
  BY DEF Counted
<1>3. /\ next.count = row.count + 1 /\ next.nudged = row.nudged
      /\ next.first = IF row.first = None THEN prompt ELSE row.first
      /\ next.recent = Trim(Append(row.recent, prompt))
  BY DEF WithPrompt, Session
<1>4. next.recent = Trim(told.landed)
  BY <1>1, <1>2, <1>3, TrimAppend
<1>5. told.landed # <<>> /\ Len(told.landed) = Len(landed) + 1
      /\ told.landed[1] = IF landed = <<>> THEN prompt ELSE landed[1]
  BY <1>1, AppendProperties
<1>6. landed # <<>> => landed[1] \in Prompt
  BY <1>1
<1>7. next.first = told.landed[1]
  BY <1>2, <1>3, <1>5, <1>6, PromptAssumption
<1> QED
  BY <1>2, <1>3, <1>4, <1>5, <1>7 DEF Counted

\* What was told stays told when rows and tales stand, but for one session whose row
\* and tale the step accounts for.
LEMMA ToldStep ==
    ASSUME Told, NEW s,
           Known \subseteq Known',
           \A k \in SessionKey \ {s} :
              /\ k \in Known' => k \in Known /\ sessions'[k] = sessions[k]
              /\ history'[k] = history[k],
           s \in SessionKey => s \in Known' /\ Counted(sessions'[s], history'[s]) /\ Spaced(history'[s].nudges),
           \A c \in Caller :
              calls'[c] # None /\ calls'[c].kind \in {"start", "prompt"} =>
                 calls'[c] = calls[c] \/ Fresh(calls'[c].seed)
    PROVE  Told'
<1>1. \A k \in SessionKey :
          /\ IF k \in Known' THEN Counted(sessions'[k], history'[k])
             ELSE history'[k].landed = <<>> /\ history'[k].nudges = <<>>
          /\ Spaced(history'[k].nudges)
  BY DEF Told
<1>2. \A c \in Caller :
         calls'[c] # None /\ calls'[c].kind \in {"start", "prompt"} => Fresh(calls'[c].seed)
  BY DEF Told
<1> QED
  BY <1>1, <1>2 DEF Told

\* A call comes or goes and no row or tale of prompts changes.
LEMMA ToldSame ==
    ASSUME Told, sessions' = sessions,
           \A k \in SessionKey : /\ history'[k].landed = history[k].landed
                                 /\ history'[k].nudges = history[k].nudges,
           \A c \in Caller :
              calls'[c] # None /\ calls'[c].kind \in {"start", "prompt"} =>
                 calls'[c] = calls[c] \/ Fresh(calls'[c].seed)
    PROVE  Told'
<1>1. Known' = Known
  BY DEF Known
<1>2. \A k \in SessionKey :
          /\ IF k \in Known THEN Counted(sessions'[k], history'[k])
             ELSE history'[k].landed = <<>> /\ history'[k].nudges = <<>>
          /\ Spaced(history'[k].nudges)
  BY DEF Told, Counted
<1>3. \A c \in Caller :
         calls'[c] # None /\ calls'[c].kind \in {"start", "prompt"} => Fresh(calls'[c].seed)
  BY DEF Told
<1> QED
  BY <1>1, <1>2, <1>3 DEF Told

\* A call begins.
LEMMA ToldEnter ==
    ASSUME Settled, Told, NEW call, Enter(call),
           call.kind \in {"start", "prompt"} => Fresh(call.seed)
    PROVE  Told'
<1>1. PICK c \in Idle : calls' = [calls EXCEPT ![c] = call]
  BY DEF Enter
<1>2. \A d \in Caller : calls'[d] = IF d = c THEN call ELSE calls[d]
  BY <1>1 DEF Settled, CallsTyped
<1> QED
  BY <1>2, ToldSame DEF Enter

\* A row is put over another that says the same of prompts and nudges.
LEMMA ToldPut ==
    ASSUME Settled, Told, NEW s \in Known, NEW row, PutSession(s, row), UNCHANGED history,
           row.count = sessions[s].count, row.first = sessions[s].first,
           row.recent = sessions[s].recent, row.nudged = sessions[s].nudged,
           calls' = calls \/ \E c \in Caller : calls' = [calls EXCEPT ![c] = None]
    PROVE  Told'
<1>1. Known' = Known /\ sessions'[s] = row /\ s \in SessionKey
      /\ \A k \in Known : k # s => sessions'[k] = sessions[k]
  BY DEF PutSession, Known, Settled, SessionsTyped
<1>2. Counted(row, history[s]) /\ Spaced(history[s].nudges)
  BY <1>1 DEF Told, Counted
<1>3. \A c \in Caller : calls'[c] = calls[c] \/ calls'[c] = None
  BY DEF Settled, CallsTyped
<1> QED
  BY <1>1, <1>2, <1>3, ToldStep

LEMMA SeedFresh ==
    ASSUME NEW d, NEW fresh, NEW at
    PROVE  Fresh(Seed(d, fresh, at))
  BY DEF Seed, Fresh

LEMMA ToldAddPrompt ==
    ASSUME Settled, Told, NEW s \in SessionKey, NEW seed \in Good, Fresh(seed),
           NEW prompt \in Prompt, NEW at, AddPrompt(s, seed, prompt, at),
           calls' = calls \/ \E c \in Caller : calls' = [calls EXCEPT ![c] = None]
    PROVE  Told'
<1> PICK row : row = IF s \in Known THEN sessions[s] ELSE seed
  OBVIOUS
<1>1. row \in Session /\ PutSession(s, WithPrompt(row, prompt, at))
  BY KnownGood DEF AddPrompt, Good
<1>2. history[s] \in Tale /\ history' = [history EXCEPT ![s].landed = Append(@, prompt)]
      /\ history \in [SessionKey -> Tale]
  BY DEF AddPrompt, Landed, Settled, SessionsTyped
<1>3. Counted(row, history[s])
  BY FreshCounted DEF Told
<1>4. /\ history'[s].landed = Append(history[s].landed, prompt)
      /\ history'[s].nudges = history[s].nudges
      /\ \A k \in SessionKey : k # s => history'[k] = history[k]
  BY <1>2 DEF Tale
<1>5. Counted(WithPrompt(row, prompt, at), history'[s])
  <2> PICK told : told = history'[s]
    OBVIOUS
  <2>1. /\ told.landed = Append(history[s].landed, prompt) /\ told.nudges = history[s].nudges
        /\ row \in Session /\ history[s] \in Tale
    BY <1>1, <1>2, <1>4
  <2>2. Counted(WithPrompt(row, prompt, at), told)
    BY <1>3, <2>1, CountedPrompt, Zenon
  <2> QED
    BY <2>2
<1>6. /\ Known' = Known \cup {s} /\ sessions'[s] = WithPrompt(row, prompt, at)
      /\ \A k \in Known : k # s => sessions'[k] = sessions[k]
  BY <1>1 DEF PutSession, Known
<1>7. \A c \in Caller : calls'[c] = calls[c] \/ calls'[c] = None
  BY DEF Settled, CallsTyped
<1>8. Spaced(history'[s].nudges)
  BY <1>4 DEF Told
<1> QED
  BY <1>4, <1>5, <1>6, <1>7, <1>8, ToldStep

\* A nudge that is due keeps the distance to the last one.
LEMMA SpacedNudge ==
    ASSUME NEW row \in Session, NEW tale \in Tale, Counted(row, tale), Spaced(tale.nudges), Due(row)
    PROVE  Spaced(Append(tale.nudges, [count |-> row.count, saved |-> row.saved]))
<1> PICK nudges : nudges = tale.nudges
  OBVIOUS
<1> PICK nudge : nudge = [count |-> row.count, saved |-> row.saved]
  OBVIOUS
<1> PICK n : n = Len(nudges)
  OBVIOUS
<1> PICK longer : longer = Append(nudges, nudge)
  OBVIOUS
<1>1. /\ nudges \in Seq([count: Nat, saved: Nat]) /\ n \in Nat
      /\ row.count \in Nat /\ row.saved \in Nat /\ row.nudged \in Nat
  BY LimitsAssumption DEF Tale, Session
<1>2. /\ Len(longer) = n + 1 /\ longer[n + 1] = nudge
      /\ \A i \in 1..n : longer[i] = nudges[i]
  BY <1>1
<1>3. nudge.count - nudge.saved >= NudgeMinPrompts
  BY DEF Due
<1>4. ASSUME n # 0 PROVE nudge.count - nudges[n].count >= NudgeInterval
  <2>1. n \in 1..n /\ nudges # <<>> /\ nudges[n] \in [count: Nat, saved: Nat]
    <3> PICK Nudge : Nudge = [count: Nat, saved: Nat]
      OBVIOUS
    <3>1. nudges \in Seq(Nudge) /\ n \in 1..n
      BY <1>1, <1>4
    <3>2. nudges \in [1..n -> Nudge] /\ Len(<<>>) = 0
      BY <3>1, LenProperties
    <3> QED
      BY <1>4, <3>1, <3>2
  <2>2. row.nudged = nudges[n].count /\ nudges[n].count - nudges[n].saved >= NudgeMinPrompts
    BY <2>1 DEF Counted, Spaced
  <2>3. row.nudged # 0
    BY <2>1, <2>2, LimitsAssumption
  <2> QED
    BY <2>2, <2>3 DEF Due
<1>5. \A i \in 1..(n + 1) : longer[i].count - longer[i].saved >= NudgeMinPrompts
  <2> SUFFICES ASSUME NEW i \in 1..(n + 1) PROVE longer[i].count - longer[i].saved >= NudgeMinPrompts
    OBVIOUS
  <2>1. CASE i = n + 1
    BY <1>2, <1>3, <2>1
  <2>2. CASE i \in 1..n
    BY <1>2, <2>2 DEF Spaced
  <2> QED
    BY <1>1, <2>1, <2>2
<1>6. \A i \in 2..(n + 1) : longer[i].count - longer[i - 1].count >= NudgeInterval
  <2> SUFFICES ASSUME NEW i \in 2..(n + 1) PROVE longer[i].count - longer[i - 1].count >= NudgeInterval
    OBVIOUS
  <2>1. CASE i = n + 1
    <3>1. n # 0 /\ i - 1 = n /\ n \in 1..n
      BY <1>1, <2>1
    <3> QED
      BY <1>2, <1>4, <2>1, <3>1
  <2>2. CASE i # n + 1
    <3>1. i \in 2..n /\ i \in 1..n /\ i - 1 \in 1..n
      BY <1>1, <2>2
    <3> QED
      BY <1>2, <3>1 DEF Spaced
  <2> QED
    BY <2>1, <2>2
<1> QED
  BY <1>2, <1>5, <1>6 DEF Spaced

LEMMA ToldStop ==
    ASSUME Settled, Told, NEW s \in SessionKey, NEW at \in 1..clock, Stop(s, at)
    PROVE  Told'
<1> PICK old : old = sessions[s]
  OBVIOUS
<1>1. s \in Known /\ calls' = calls /\ old \in Session /\ history[s] \in Tale
      /\ history \in [SessionKey -> Tale]
  BY KnownGood DEF Stop, Alone, Settled, SessionsTyped
<1>2. Counted(old, history[s]) /\ Spaced(history[s].nudges)
  BY <1>1 DEF Told
<1>3. PICK row : row = [old EXCEPT !.active = Later(@, at),
                                   !.nudged = IF Due(old) THEN old.count ELSE @]
  OBVIOUS
<1>4. /\ row.count = old.count /\ row.first = old.first /\ row.recent = old.recent
      /\ row.nudged = IF Due(old) THEN old.count ELSE old.nudged
  BY <1>1, <1>3 DEF Session
<1>5. PutSession(s, row)
  BY <1>3 DEF Stop
<1>6. CASE ~Due(old)
  BY <1>1, <1>4, <1>5, <1>6, ToldPut DEF Stop
<1>7. CASE Due(old)
  <2> PICK longer : longer = Append(history[s].nudges, [count |-> old.count, saved |-> old.saved])
    OBVIOUS
  <2>1. history' = [history EXCEPT ![s].nudges = longer]
    BY <1>7 DEF Stop
  <2>2. /\ history'[s].landed = history[s].landed /\ history'[s].nudges = longer
        /\ \A k \in SessionKey : k # s => history'[k] = history[k]
    BY <1>1, <2>1 DEF Tale
  <2>3. Spaced(longer)
    BY <1>1, <1>2, <1>7, SpacedNudge
  <2>4. longer[Len(longer)].count = old.count
    <3>1. [count |-> old.count, saved |-> old.saved] \in [count: Nat, saved: Nat]
          /\ history[s].nudges \in Seq([count: Nat, saved: Nat])
      BY <1>1, LimitsAssumption DEF Session, Tale
    <3> PICK nudge : nudge = [count |-> old.count, saved |-> old.saved]
      OBVIOUS
    <3>2. longer[Len(longer)] = nudge
      BY <3>1
    <3> QED
      BY <3>2
  <2>5. Counted(row, history'[s])
    BY <1>2, <1>4, <1>7, <2>2, <2>4 DEF Counted
  <2>6. /\ Known' = Known /\ sessions'[s] = row
        /\ \A k \in Known : k # s => sessions'[k] = sessions[k]
    BY <1>1, <1>5 DEF PutSession, Known
  <2> QED
    BY <1>1, <2>2, <2>3, <2>5, <2>6, ToldStep
<1> QED
  BY <1>6, <1>7

LEMMA ToldOnSession ==
    ASSUME Settled, Told, NEW s \in SessionKey, OnSession(s)
    PROVE  Told'
<1>1. ASSUME NEW at \in 1..clock, StartAgain(s, at) \/ EndSession(s, at) PROVE Told'
  <2>1. s \in Known /\ sessions[s] \in Session
    BY <1>1, KnownGood DEF StartAgain, EndSession
  <2> PICK row : row = [sessions[s] EXCEPT !.active = Later(@, at)]
    OBVIOUS
  <2>2. PutSession(s, row) /\ UNCHANGED history /\ calls' = calls
    BY <1>1 DEF StartAgain, EndSession, Touch, Alone
  <2>3. /\ row.count = sessions[s].count /\ row.first = sessions[s].first
        /\ row.recent = sessions[s].recent /\ row.nudged = sessions[s].nudged
    BY <2>1 DEF Session
  <2> QED
    BY <2>1, <2>2, <2>3, ToldPut
<1>2. ASSUME NEW at \in 1..clock, PromptAgain(s, at) PROVE Told'
  <2>1. s \in Known /\ calls' = calls
    BY <1>2 DEF PromptAgain, Alone
  <2>2. PICK prompt \in Prompt : AddPrompt(s, sessions[s], prompt, at)
    BY <1>2 DEF PromptAgain
  <2> PICK row : row = WithPrompt(sessions[s], prompt, at)
    OBVIOUS
  <2>3. sessions[s] \in Session /\ PutSession(s, row)
    BY <2>1, <2>2, KnownGood DEF AddPrompt
  <2>4. history[s] \in Tale /\ history' = [history EXCEPT ![s].landed = Append(@, prompt)]
        /\ history \in [SessionKey -> Tale]
    BY <2>2 DEF AddPrompt, Landed, Settled, SessionsTyped
  <2>5. /\ history'[s].landed = Append(history[s].landed, prompt)
        /\ history'[s].nudges = history[s].nudges
        /\ \A k \in SessionKey : k # s => history'[k] = history[k]
    BY <2>4 DEF Tale
  <2>6. Counted(row, history'[s]) /\ Spaced(history'[s].nudges)
    <3> PICK told : told = history'[s]
      OBVIOUS
    <3>1. Counted(sessions[s], history[s]) /\ Spaced(history[s].nudges)
      BY <2>1 DEF Told
    <3>2. /\ told.landed = Append(history[s].landed, prompt) /\ told.nudges = history[s].nudges
          /\ sessions[s] \in Session /\ history[s] \in Tale
      BY <2>3, <2>4, <2>5
    <3>3. Counted(row, told)
      BY <3>1, <3>2, CountedPrompt, Zenon
    <3> QED
      BY <2>5, <3>1, <3>3
  <2>7. /\ Known' = Known /\ sessions'[s] = row
        /\ \A k \in Known : k # s => sessions'[k] = sessions[k]
    BY <2>1, <2>3 DEF PutSession, Known
  <2> QED
    BY <2>1, <2>5, <2>6, <2>7, ToldStep
<1>3. ASSUME NEW d, NEW fresh, StartNew(s, d, fresh, clock) PROVE Told'
  <2> PICK call : call = [kind |-> "start", key |-> s, seed |-> Seed(d, fresh, clock)]
    OBVIOUS
  <2>1. Enter(call) /\ Fresh(call.seed)
    BY <1>3, SeedFresh DEF StartNew
  <2> QED
    BY <2>1, ToldEnter
<1>4. ASSUME NEW d, PromptNew(s, d, clock) PROVE Told'
  <2>1. PICK prompt \in Prompt :
           Enter([kind |-> "prompt", key |-> s, seed |-> Seed(d, FALSE, clock),
                  prompt |-> prompt, at |-> clock])
    BY <1>4 DEF PromptNew
  <2> PICK call : call = [kind |-> "prompt", key |-> s, seed |-> Seed(d, FALSE, clock),
                          prompt |-> prompt, at |-> clock]
    OBVIOUS
  <2>2. Enter(call) /\ Fresh(call.seed)
    BY <2>1, SeedFresh
  <2> QED
    BY <2>2, ToldEnter
<1>5. CASE ConfirmRead(s) \/ RegisterRead(s) \/ SaveRead(s) \/ SummaryRead(s)
  <2>1. CASE ConfirmRead(s)
    <3> PICK call : call = [kind |-> "confirm", key |-> s]
      OBVIOUS
    <3>1. Enter(call) /\ call.kind = "confirm"
      BY <2>1 DEF ConfirmRead
    <3> QED
      BY <3>1, ToldEnter
  <2>2. CASE RegisterRead(s)
    <3> PICK call : call = [kind |-> "register", key |-> s,
                            project |-> ResolveEntry(sessions[s].entry).project]
      OBVIOUS
    <3>1. Enter(call) /\ call.kind = "register"
      BY <2>2 DEF RegisterRead
    <3> QED
      BY <3>1, ToldEnter
  <2>3. CASE SaveRead(s)
    <3>1. PICK p : Enter([kind |-> "save", key |-> s, project |-> p])
      BY <2>3 DEF SaveRead
    <3> PICK call : call = [kind |-> "save", key |-> s, project |-> p]
      OBVIOUS
    <3>2. Enter(call) /\ call.kind = "save"
      BY <3>1
    <3> QED
      BY <3>2, ToldEnter
  <2>4. CASE SummaryRead(s)
    <3> PICK call : call = [kind |-> "publish", key |-> s, active |-> sessions[s].active,
                            covers |-> sessions[s].count]
      OBVIOUS
    <3>1. Enter(call) /\ call.kind = "publish"
      BY <2>4 DEF SummaryRead
    <3> QED
      BY <3>1, ToldEnter
  <2> QED
    BY <1>5, <2>1, <2>2, <2>3, <2>4
<1>6. ASSUME NEW at \in 1..clock, Stop(s, at) PROVE Told'
  BY <1>6, ToldStop
<1> QED
  BY <1>1, <1>2, <1>3, <1>4, <1>5, <1>6 DEF OnSession

LEMMA ToldLands ==
    ASSUME Settled, Told, NEW c \in Caller, Lands(c)
    PROVE  Told'
<1> PICK call : call = calls[c]
  OBVIOUS
<1> PICK s : s = call.key
  OBVIOUS
<1>1. call # None => RightCall(call)
  BY DEF Settled, CallsTyped
<1>2. CASE Register(c)
  <2>1. s \in SessionKey /\ call # None /\ call.kind = "start" /\ Fresh(call.seed)
        /\ calls' = [calls EXCEPT ![c] = None] /\ UNCHANGED history
    BY <1>1, <1>2 DEF Register, Leave, RightCall, CallOf, Told
  <2>2. \A d \in Caller : calls'[d] = calls[d] \/ calls'[d] = None
    BY <2>1 DEF Settled, CallsTyped
  <2>3. CASE s \in Known
    BY <1>2, <2>1, <2>2, <2>3, ToldSame DEF Register
  <2>4. CASE s \notin Known
    <3>1. PutSession(s, call.seed)
      BY <1>2, <2>4 DEF Register
    <3>2. /\ Known' = Known \cup {s} /\ sessions'[s] = call.seed
          /\ \A k \in Known : k # s => sessions'[k] = sessions[k]
      BY <3>1 DEF PutSession, Known
    <3>3. Counted(call.seed, history[s]) /\ Spaced(history[s].nudges)
      BY <2>1, <2>4, FreshCounted DEF Told
    <3> QED
      BY <2>1, <2>2, <3>2, <3>3, ToldStep
  <2> QED
    BY <2>3, <2>4
<1>3. CASE PromptLands(c)
  <2>1. /\ s \in SessionKey /\ call.seed \in Good /\ Fresh(call.seed) /\ call.prompt \in Prompt
        /\ calls' = [calls EXCEPT ![c] = None] /\ AddPrompt(s, call.seed, call.prompt, call.at)
    BY <1>1, <1>3 DEF PromptLands, Leave, RightCall, CallOf, Told
  <2> QED
    BY <2>1, ToldAddPrompt
<1>4. CASE Confirm(c) \/ AssignProject(c) \/ MarkSaved(c) \/ PublishSummary(c)
  <2>1. UNCHANGED history /\ calls' = [calls EXCEPT ![c] = None]
    BY <1>4 DEF Confirm, AssignProject, MarkSaved, PublishSummary, Leave
  <2>2. \A d \in Caller : calls'[d] = calls[d] \/ calls'[d] = None
    BY <2>1 DEF Settled, CallsTyped
  <2>3. CASE UNCHANGED sessions
    BY <2>1, <2>2, <2>3, ToldSame
  <2>4. CASE ~UNCHANGED sessions
    <3>4. s \in Known /\ sessions[s] \in Session
      BY <1>1, <1>4, <2>4, KnownGood
      DEF Confirm, AssignProject, MarkSaved, PublishSummary, Leave, RightCall, CallOf
    <3> PICK old : old = sessions[s]
      OBVIOUS
    <3>1. \/ PutSession(s, [old EXCEPT !.status = "registered", !.project = old.candidate])
          \/ PutSession(s, [old EXCEPT !.status = "registered", !.project = call.project])
          \/ PutSession(s, [old EXCEPT !.saved = old.count])
          \/ PutSession(s, [old EXCEPT !.summary = call.covers])
      BY <1>4, <2>4 DEF Confirm, AssignProject, MarkSaved, PublishSummary
    <3>2. PICK row :
             /\ PutSession(s, row)
             /\ \/ row = [old EXCEPT !.status = "registered", !.project = old.candidate]
                \/ row = [old EXCEPT !.status = "registered", !.project = call.project]
                \/ row = [old EXCEPT !.saved = old.count]
                \/ row = [old EXCEPT !.summary = call.covers]
      BY <3>1
    <3>3. /\ row.count = old.count /\ row.first = old.first
          /\ row.recent = old.recent /\ row.nudged = old.nudged
      BY <3>2, <3>4 DEF Session
    <3> QED
      BY <2>1, <3>2, <3>3, <3>4, ToldPut
  <2> QED
    BY <2>3, <2>4
<1>5. CASE SaveWrites(c)
  <2>1. /\ UNCHANGED sessions /\ history' = [history EXCEPT ![s].homes = @ \cup {call.project}]
        /\ calls' = [calls EXCEPT ![c] = [kind |-> "saved", key |-> s]]
    BY <1>5 DEF SaveWrites
  <2>2. \A d \in Caller : calls'[d] = calls[d] \/ calls'[d].kind = "saved"
    BY <2>1 DEF Settled, CallsTyped
  <2>3. \A k \in SessionKey : /\ history'[k].landed = history[k].landed
                              /\ history'[k].nudges = history[k].nudges
    BY <2>1 DEF Settled, SessionsTyped, Tale
  <2> QED
    BY <2>1, <2>2, <2>3, ToldSame
<1>6. CASE Drop(c)
  <2>1. UNCHANGED <<sessions, history>> /\ calls' = [calls EXCEPT ![c] = None]
    BY <1>6 DEF Drop, Leave
  <2>2. \A d \in Caller : calls'[d] = calls[d] \/ calls'[d] = None
    BY <2>1 DEF Settled, CallsTyped
  <2> QED
    BY <2>1, <2>2, ToldSame
<1> QED
  BY <1>2, <1>3, <1>4, <1>5, <1>6 DEF Lands

LEMMA ToldNext == Settled /\ Told /\ [SessionNext]_allVars => Told'
<1> SUFFICES ASSUME Settled, Told, [SessionNext]_allVars PROVE Told'
  OBVIOUS
<1>1. CASE Tick \/ UNCHANGED sessionVars \/ UNCHANGED allVars
  <2>1. sessions' = sessions /\ history' = history /\ calls' = calls
    BY <1>1 DEF Tick, sessionVars, allVars
  <2> QED
    BY <2>1, ToldSame
<1> QED
  BY <1>1, ToldOnSession, ToldLands DEF SessionNext

\* The inductive invariant of what the tale of a session says of its row.
THEOREM ToldInvariant == SessionSpec => []Told
<1>1. SessionInit => Told
  <2> SUFFICES ASSUME SessionInit PROVE Told
    OBVIOUS
  <2>1. Known = {}
    BY DEF SessionInit, Known
  <2>2. \A s \in SessionKey : history[s].landed = <<>> /\ history[s].nudges = <<>>
    BY DEF SessionInit, Untouched
  <2>3. \A c \in Caller : calls[c] = None
    BY DEF SessionInit
  <2> QED
    BY <2>1, <2>2, <2>3 DEF Told, Spaced
<1> QED
  BY <1>1, ToldNext, SettledInvariant, PTL DEF SessionSpec

\* A row counts every prompt that landed and holds the first and the recent ones.
THEOREM PromptsKeptHolds == SessionSpec => []PromptsKept
<1>1. Settled /\ Told => PromptsKept
  <2> SUFFICES ASSUME Settled, Told PROVE PromptsKept
    OBVIOUS
  <2>1. \A s \in Known : Counted(sessions[s], history[s])
    BY KnownGood DEF Told
  <2> QED
    BY <2>1 DEF PromptsKept, Counted
<1> QED
  BY <1>1, SettledInvariant, ToldInvariant, PTL

\* Nudges keep their distance from each other and from the save they know of.
THEOREM NudgesSpacedHolds == SessionSpec => []NudgesSpaced
<1>1. Told => NudgesSpaced
  BY DEF Told, NudgesSpaced, Spaced
<1> QED
  BY <1>1, ToldInvariant, PTL
=============================================================================
