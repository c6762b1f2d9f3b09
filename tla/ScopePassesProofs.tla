-------------------------- MODULE ScopePassesProofs --------------------------
(***************************************************************************)
(* What TLAPS proves of the layers that judge memories, for any store, any *)
(* model and any number of runs and writes meanwhile: a run changes and    *)
(* cites only versions it sent, never what it left out or flagged, a pass  *)
(* never counts as judged what was written meanwhile, an entry left alone  *)
(* after a keep stands as it did when it was kept, and what extraction     *)
(* wrote comes from two ordinary projects.                                 *)
(***************************************************************************)
EXTENDS ScopePasses, TLAPS, FiniteSetTheorems, FunctionTheorems

-----------------------------------------------------------------------------
(* The inductive invariant *)

MemsOK ==
    /\ mems \in [Memory -> Row \cup {None, Gone}]
    /\ \A m \in Memory : Exists(m) => Len(mems[m].cites) \in 1..MaxVersion

\* A version that was there: it still is, or its memory was purged.
Known(r) ==
    mems[r[1]] = Gone \/ (Exists(r[1]) /\ r[2] \in 1..Len(mems[r[1]].cites))

\* A run is a record of these fields.
RunShape ==
    run \in [at: {run.at}, todo: {run.todo}, excluded: {run.excluded}, hits: {run.hits},
             groups: {run.groups}, sent: {run.sent}, sources: {run.sources}, marks: {run.marks},
             flags: {run.flags}, finished: {run.finished}, left: {run.left}, owner: {run.owner},
             change: {run.change}, seen: {run.seen}, entries: {run.entries}, entry: {run.entry},
             standing: {run.standing}, shunned: {run.shunned}, touched: {run.touched},
             born: {run.born}, skipped: {run.skipped}]

Layer == {"scope", "read", "asked", "judging", "applying"}
Passing == run.at \in Layer \ {"scope"}

\* Every scope comes once, and extraction last.
TodoOK ==
    /\ run.todo \in Seq(Scope)
    /\ \A i, j \in 1..Len(run.todo) : run.todo[i] = run.todo[j] => i = j
    /\ \A i \in 1..Len(run.todo) : run.todo[i] = Extraction => i = Len(run.todo)
    /\ run.at \in Layer \cup {"scan"} => run.todo # <<>>
    /\ run.at \notin Layer \cup {"scan"} => run.todo = <<>>

SourcesRight ==
    \A r \in run.sent : /\ run.sources[r[1]].cites \subseteq Ref
                        /\ Exists(r[1]) => run.sources[r[1]].cites = mems[r[1]].cites[r[2]]

\* What a group of operations is built from: versions sent, and what its target cites.
Fits(g, sent, old) ==
    /\ g \in [into: Project \cup {None}, target: Ref \cup {None}, cites: SUBSET Ref, retire: SUBSET Ref]
    /\ g.target = None \/ (g.retire = {} /\ g.into = None)
    /\ Changed(g) \subseteq sent
    /\ g.cites \subseteq sent \cup old
    /\ g.target = None => old = {}
    /\ g.target # None /\ Exists(g.target[1]) => old = mems[g.target[1]].cites[g.target[2]]

Old(g) == IF g.target = None THEN {} ELSE run.sources[g.target[1]].cites

\* What a pass sent was there when it was listed, and nothing written since is among it.
Sending ==
    /\ Passing =>
          /\ run.sent \subseteq Ref
          /\ \A r \in run.sent :
                /\ Known(r)
                /\ TheScope # Extraction => mems[r[1]] = Gone \/ mems[r[1]].project = TheScope
          /\ \A r, q \in run.sent : r[1] = q[1] => r = q
          /\ run.sent \cap run.born = {}
          /\ run.at # "read" => SourcesRight
          /\ run.at = "applying" =>
                TheScope = Extraction /\ Fits(run.change, run.sent, Old(run.change))
    /\ ~Passing => run.born = {}

\* What the recheck listed was there, and what it may cite is what it sends.
SeenRight ==
    run.at \in {"recheck", "kept", "rechecking"} =>
        /\ run.seen \in [Memory -> Row \cup {None, Gone}]
        /\ \A m \in Memory : Seen(m) => SeenAt(m) \in Ref /\ Known(SeenAt(m))
        /\ \A m \in run.entries : m \in Memory \ run.excluded /\ Seen(m)

EntryRight ==
    run.at \in {"kept", "rechecking"} =>
        /\ run.entry \in Memory \ run.excluded /\ Seen(run.entry)
        /\ run.sent \subseteq Ref /\ SeenAt(run.entry) \in run.sent
        /\ run.sources \subseteq Ref
        /\ Exists(run.entry) => run.sources = mems[run.entry].cites[SeenAt(run.entry)[2]]
        /\ \A p \in run.standing.allowed : p[2] \in run.sent /\ p[2][1] \notin run.excluded

\* What was left out or flagged is not touched, now or by a scope still to come.
Sparing ==
    /\ Ids(run.shunned \ run.hits) \subseteq run.excluded
    /\ run.excluded \subseteq Memory /\ run.touched \subseteq Memory
    /\ run.excluded \cap run.touched = {}
    /\ \A m \in run.excluded \cup run.touched : mems[m] # None
    /\ \A m \in run.touched, i \in 1..Len(run.todo) :
          i > 1 \/ ~Passing => mems[m] = Gone \/ mems[m].project # run.todo[i]
    /\ run.at \in {"scan", "scope", "read", "asked"} => run.marks = {} /\ run.flags = {}
    /\ run.at \in {"idle", "scan"} => run.touched = {}
    /\ Passing =>
          /\ run.flags \subseteq run.marks /\ run.marks \subseteq Ids(run.sent)
          /\ run.marks \cap run.touched = {}
          /\ TheScope = Extraction => run.marks = {}
          /\ Ids(run.sent) \cap run.excluded \subseteq run.marks
          /\ run.at \in {"read", "asked"} /\ TheScope # Extraction => Ids(run.sent) \cap run.touched = {}

ScopeInv ==
    /\ MemsOK /\ RunShape /\ TodoOK /\ Sending /\ SeenRight /\ EntryRight /\ Sparing
    /\ passes = [s \in Scope |-> passes[s]]
-----------------------------------------------------------------------------
(* What a step may do to the memories *)

\* A memory stays, goes for good, appears with one version, or gets one more.
Grown(m, row) ==
    \/ row = mems[m]
    \/ Exists(m) /\ row = Gone
    \/ mems[m] = None /\ row \in Row /\ Len(row.cites) = 1
    \/ /\ Exists(m) /\ row \in Row /\ row.project = mems[m].project
       /\ Len(row.cites) = Len(mems[m].cites) + 1 /\ Len(mems[m].cites) < MaxVersion
       /\ \A i \in 1..Len(mems[m].cites) :
             row.cites[i] = mems[m].cites[i] /\ (i \in row.retired <=> i \in mems[m].retired)

Grow == \A m \in Memory : Grown(m, mems'[m])

\* The rows of memories that exist.
LEMMA RowsExist ==
    ASSUME MemsOK, NEW m \in Memory
    PROVE  /\ mems[m] \in Row \cup {None, Gone}
           /\ Exists(m) <=> mems[m] \in Row
           /\ Exists(m) => /\ mems[m].project \in Project /\ mems[m].retired \in SUBSET (1..MaxVersion)
                           /\ mems[m].cites \in Seq(SUBSET Ref)
                           /\ Len(mems[m].cites) \in 1..MaxVersion /\ Current(m) \in Ref
BY MarkersAssumption DEF MemsOK, Exists, Row, Current, Ref

\* One more version keeps the ones before.
LEMMA AppendGrown ==
    ASSUME MemsOK, NEW m \in Memory, Exists(m), Len(mems[m].cites) < MaxVersion,
           NEW cites \in SUBSET Ref, NEW row,
           row \in {NextVersion(mems[m], cites, FALSE), NextVersion(mems[m], cites, TRUE)}
    PROVE  /\ Grown(m, row) /\ row \in Row /\ row.project = mems[m].project
           /\ row.cites = Append(mems[m].cites, cites)
<1>1. /\ mems[m] \in Row /\ mems[m].cites \in Seq(SUBSET Ref)
      /\ mems[m].retired \in SUBSET (1..MaxVersion) /\ Len(mems[m].cites) \in 1..MaxVersion
  BY RowsExist
<1> DEFINE longer == Append(mems[m].cites, cites)
           more == mems[m].retired \cup {Len(mems[m].cites) + 1}
<1>2. longer \in Seq(SUBSET Ref)
  BY <1>1
<1>3. PICK further \in {mems[m].retired, more} :
          row = [mems[m] EXCEPT !.cites = longer, !.retired = further]
  BY DEF NextVersion
<1>4. more \in SUBSET (1..MaxVersion)
  BY <1>1, StoresAssumption
<1>5. further \in SUBSET (1..MaxVersion)
  BY <1>1, <1>3, <1>4
<1>9. \A i \in 1..Len(mems[m].cites) : i \in further <=> i \in mems[m].retired
  <2>1. \A i \in 1..Len(mems[m].cites) : i # Len(mems[m].cites) + 1
    BY <1>1, StoresAssumption
  <2> QED
    BY <1>3, <2>1
<1> HIDE DEF longer, more
<1>6. row.cites = longer /\ row.retired = further /\ row.project = mems[m].project /\ row \in Row
  BY <1>1, <1>2, <1>3, <1>5 DEF Row
<1>7. /\ Len(row.cites) = Len(mems[m].cites) + 1
      /\ \A i \in 1..Len(mems[m].cites) : row.cites[i] = mems[m].cites[i]
  BY <1>1, <1>6 DEF longer
<1>8. \A i \in 1..Len(mems[m].cites) : i \in row.retired <=> i \in mems[m].retired
  BY <1>6, <1>9
<1> QED
  BY <1>6, <1>7, <1>8 DEF Grown, longer

\* What such a step leaves of a memory.
Stays(m) ==
    /\ mems'[m] \in Row \cup {None, Gone}
    /\ Exists(m)' => Len(mems'[m].cites) \in 1..MaxVersion
    /\ mems[m] # None => mems'[m] # None
    /\ mems[m] = Gone => mems'[m] = Gone
    /\ mems[m] # None /\ Exists(m)' =>
          /\ Exists(m) /\ mems'[m].project = mems[m].project
          /\ Len(mems[m].cites) <= Len(mems'[m].cites)
          /\ \A i \in 1..Len(mems[m].cites) :
                /\ mems'[m].cites[i] = mems[m].cites[i]
                /\ i \in mems'[m].retired <=> i \in mems[m].retired

LEMMA GrownStays ==
    ASSUME MemsOK, NEW m \in Memory, Grown(m, mems'[m])
    PROVE  Stays(m)
<1>1. MaxVersion \in Nat /\ 1 \in 1..MaxVersion
  BY StoresAssumption
<1>2. mems[m] \in Row \cup {None, Gone} /\ (Exists(m) <=> mems[m] \in Row)
  BY RowsExist
<1>3. Exists(m) => Len(mems[m].cites) \in 1..MaxVersion
  BY RowsExist
<1>4. Exists(m)' <=> mems'[m] \notin {None, Gone}
  BY DEF Exists
<1>5. None # Gone /\ None \notin Row /\ Gone \notin Row
  BY MarkersAssumption
<1>6. CASE mems'[m] = mems[m] \/ (mems'[m] = Gone /\ Exists(m))
  <2>1. CASE mems'[m] = mems[m]
    <3>1. Exists(m)' <=> Exists(m)
      BY <2>1 DEF Exists
    <3>2. Exists(m) => Len(mems[m].cites) \in Nat
      BY <1>1, <1>3
    <3> QED
      BY <1>2, <1>3, <2>1, <3>1, <3>2 DEF Stays
  <2>2. CASE mems'[m] = Gone /\ Exists(m)
    <3>1. mems'[m] \in Row \cup {None, Gone} /\ mems'[m] # None /\ ~(Exists(m)')
      BY <1>4, <1>5, <2>2
    <3> QED
      BY <2>2, <3>1 DEF Exists, Stays
  <2> QED
    BY <1>6, <2>1, <2>2
<1>7. CASE mems[m] = None /\ mems'[m] \in Row /\ Len(mems'[m].cites) = 1
  <2>1. 1 \in 1..MaxVersion /\ mems[m] # Gone /\ ~Exists(m)
    BY <1>1, <1>2, <1>5, <1>7, StoresAssumption
  <2> QED
    BY <1>4, <1>5, <1>7, <2>1 DEF Stays
<1>8. CASE /\ Exists(m) /\ mems'[m] \in Row /\ mems'[m].project = mems[m].project
           /\ Len(mems'[m].cites) = Len(mems[m].cites) + 1 /\ Len(mems[m].cites) < MaxVersion
           /\ \A i \in 1..Len(mems[m].cites) :
                 mems'[m].cites[i] = mems[m].cites[i] /\ (i \in mems'[m].retired <=> i \in mems[m].retired)
  <2>1. Len(mems'[m].cites) \in 1..MaxVersion /\ Len(mems[m].cites) <= Len(mems'[m].cites)
    BY <1>1, <1>3, <1>8, StoresAssumption
  <2>2. mems[m] # Gone
    BY <1>8 DEF Exists
  <2>3. mems'[m] # None /\ mems'[m] \in Row \cup {None, Gone}
    BY <1>5, <1>8
  <2>4. \A i \in 1..Len(mems[m].cites) :
            mems'[m].cites[i] = mems[m].cites[i] /\ (i \in mems'[m].retired <=> i \in mems[m].retired)
    BY <1>8
  <2> QED
    BY <1>8, <2>1, <2>2, <2>3, <2>4, Zenon DEF Stays
<1> QED
  BY <1>6, <1>7, <1>8 DEF Grown

\* What grows stays a store, and what was there before is found again.
LEMMA GrowKeeps ==
    ASSUME MemsOK, Grow, mems' = [m \in Memory |-> mems'[m]]
    PROVE  /\ MemsOK'
           /\ \A m \in Memory : mems[m] # None => mems'[m] # None
           /\ \A m \in Memory : mems[m] = Gone => mems'[m] = Gone
           /\ \A r \in Ref : Known(r) => Known(r)'
           /\ \A m \in Memory : mems[m] # None /\ Exists(m)' =>
                 Exists(m) /\ mems'[m].project = mems[m].project
           /\ \A r \in Ref : Known(r) /\ Exists(r[1])' =>
                 Exists(r[1]) /\ mems'[r[1]].cites[r[2]] = mems[r[1]].cites[r[2]]
<1>1. \A m \in Memory : Stays(m)
  BY GrownStays DEF Grow
<1>2. MemsOK'
  BY <1>1 DEF MemsOK, Stays
<1>3. ASSUME NEW r \in Ref, Known(r)
      PROVE  /\ Known(r)'
             /\ Exists(r[1])' =>
                   Exists(r[1]) /\ mems'[r[1]].cites[r[2]] = mems[r[1]].cites[r[2]]
  <2>1. r[1] \in Memory /\ r[2] \in Nat
    BY DEF Ref
  <2>2. mems[r[1]] # None
    BY <1>3, MarkersAssumption DEF Known, Exists
  <2>3. CASE mems'[r[1]] = Gone
    BY <2>3 DEF Known, Exists
  <2>4. CASE mems'[r[1]] # Gone
    <3>1. Exists(r[1])'
      BY <1>1, <2>1, <2>2, <2>4 DEF Exists, Stays
    <3>2. Exists(r[1]) /\ r[2] \in 1..Len(mems[r[1]].cites)
      BY <1>1, <1>3, <2>1, <2>2, <3>1 DEF Known, Exists, Stays
    <3>3. /\ Len(mems[r[1]].cites) \in 1..MaxVersion
          /\ Len(mems'[r[1]].cites) \in 1..MaxVersion
      BY <1>1, <2>1, <3>1, <3>2, RowsExist DEF Stays
    <3> QED
      BY <1>1, <2>1, <2>2, <3>1, <3>2, <3>3, StoresAssumption DEF Known, Stays
  <2> QED
    BY <2>3, <2>4
<1> QED
  BY <1>1, <1>2, <1>3 DEF Stays

\* What a step that writes may have done to each memory.
ActedOn(sent) ==
    \A m \in Memory : mems[m] # mems'[m] =>
        /\ Exists(m) => Current(m) \in sent
        /\ LET was == IF Exists(m) THEN Last(m) ELSE {}
               is == mems'[m].cites[Len(mems'[m].cites)]
           IN is \ was \subseteq sent

\* What a group leaves, when it is built from the versions sent.
Writes(g, new, sent) ==
    /\ Grow /\ mems' = [m \in Memory |-> mems'[m]]
    /\ Changed(g) \cup NewlyCited(g) \subseteq sent
    /\ ActedOn(sent)
    /\ g.into = None => new = None
    /\ g.into # None => /\ new \in Memory /\ mems[new] = None
                        /\ mems'[new] \in Row /\ mems'[new].project = g.into

\* A group built from what was sent changes and newly cites only that.
LEMMA WrittenGrows ==
    ASSUME MemsOK, NEW sent \in SUBSET Ref, NEW old \in SUBSET Ref, NEW g, Fits(g, sent, old),
           NEW new, new \in Fresh(g), Applies(g), mems' = Written(g, new)
    PROVE  Writes(g, new, sent)
<1>1. /\ g.into \in Project \cup {None} /\ g.target \in Ref \cup {None}
      /\ g.cites \in SUBSET Ref /\ g.retire \in SUBSET Ref
  BY DEF Fits
<1>2. \A r \in Changed(g) : r \in sent /\ Live(r[1]) /\ Current(r[1]) = r /\ r[2] < MaxVersion
  BY DEF Applies, Fits
<1>3. \A r \in Ref : r = <<r[1], r[2]>> /\ r[1] \in Memory
  BY DEF Ref
<1>4. /\ g.into = None => new = None
      /\ g.into # None => new \in Memory /\ mems[new] = None
  BY DEF Fresh
<1>5. ASSUME g.target # None
      PROVE  /\ Live(g.target[1]) /\ Current(g.target[1]) = g.target /\ g.target \in sent
             /\ old = Last(g.target[1])
             /\ g.into = None /\ g.retire = {}
  <2>1. g.target \in Changed(g)
    BY <1>5 DEF Changed
  <2>2. Live(g.target[1]) /\ Current(g.target[1]) = g.target /\ g.target \in sent
    BY <1>2, <2>1
  <2>3. old = mems[g.target[1]].cites[g.target[2]]
    BY <1>5, <2>2 DEF Fits, Live
  <2>4. g.target[2] = Len(mems[g.target[1]].cites)
    BY <2>2 DEF Current
  <2> QED
    BY <1>5, <2>2, <2>3, <2>4 DEF Fits, Last
<1>6. NewlyCited(g) \subseteq sent
  BY <1>5 DEF NewlyCited, Fits
<1>7. ASSUME NEW m \in Memory
      PROVE  /\ Grown(m, mems'[m])
             /\ mems'[m] # mems[m] =>
                 /\ Exists(m) => Current(m) \in sent
                 /\ LET was == IF Exists(m) THEN Last(m) ELSE {}
                        is == mems'[m].cites[Len(mems'[m].cites)]
                    IN is \ was \subseteq sent
             /\ g.into # None /\ m = new => mems'[m] \in Row /\ mems'[m].project = g.into
  <2>1. Live(m) => mems[m] # None
    BY DEF Live, Exists
  <2>2. CASE g.into # None /\ m = new
    <3>9. g.target = None /\ m \notin Ids({g.target} \ {None}) /\ m \notin Ids(g.retire)
      BY <1>2, <1>4, <1>5, <2>1, <2>2 DEF Ids, Changed
    <3>1. mems'[m] = [project |-> g.into, retired |-> {}, cites |-> <<g.cites>>]
      BY <2>2, <3>9 DEF Written
    <3>2. /\ mems'[m].cites = <<g.cites>> /\ mems'[m].project = g.into
          /\ mems'[m] \in Row
      BY <1>1, <2>2, <3>1 DEF Row
    <3>3. mems[m] = None /\ ~Exists(m)
      BY <1>4, <2>2 DEF Exists
    <3>4. Len(mems'[m].cites) = 1 /\ mems'[m].cites[1] = g.cites
      BY <3>2
    <3>5. g.cites \subseteq sent
      BY <1>5, <2>2 DEF Fits
    <3> QED
      BY <2>2, <3>2, <3>3, <3>4, <3>5 DEF Grown
  <2>3. CASE g.target # None /\ m = g.target[1]
    <3>1. Live(m) /\ Current(m) \in sent /\ Current(m)[2] < MaxVersion
      BY <1>2, <1>5, <2>3 DEF Changed
    <3>2. /\ ~(g.into # None /\ m = new) /\ m \in Ids({g.target} \ {None})
          /\ m \notin Ids(g.retire)
      BY <1>5, <2>3 DEF Ids
    <3>3. mems'[m] = NextVersion(mems[m], g.cites, FALSE)
      BY <3>2 DEF Written
    <3>4. Exists(m) /\ Len(mems[m].cites) < MaxVersion
      BY <3>1 DEF Live, Current
    <3>5. Grown(m, mems'[m]) /\ mems'[m].cites = Append(mems[m].cites, g.cites)
      BY <1>1, <3>3, <3>4, AppendGrown
    <3>6. mems'[m].cites[Len(mems'[m].cites)] = g.cites
      BY <1>1, <3>4, <3>5, RowsExist
    <3>7. g.cites \ Last(m) \subseteq sent
      BY <1>5, <2>3 DEF Fits
    <3> QED
      BY <1>5, <2>3, <3>1, <3>4, <3>5, <3>6, <3>7
  <2>4. CASE m \in Ids(g.retire) /\ ~(g.target # None /\ m = g.target[1])
    <3>1. PICK r \in g.retire : m = r[1]
      BY <2>4 DEF Ids
    <3>2. Live(m) /\ Current(m) \in sent /\ Current(m)[2] < MaxVersion
      BY <1>2, <3>1 DEF Changed
    <3>3. ~(g.into # None /\ m = new) /\ m \notin Ids({g.target} \ {None})
      BY <1>4, <2>1, <2>4, <3>2 DEF Ids
    <3>4. mems'[m] = NextVersion(mems[m], Last(m), TRUE)
      BY <2>4, <3>3 DEF Written
    <3>5. Exists(m) /\ Len(mems[m].cites) < MaxVersion
      BY <3>2 DEF Live, Current
    <3>6. Last(m) \in SUBSET Ref
      BY <3>5, RowsExist DEF Last
    <3>8. Grown(m, mems'[m]) /\ mems'[m].cites = Append(mems[m].cites, Last(m))
      BY <3>4, <3>5, <3>6, AppendGrown
    <3>9. mems'[m].cites[Len(mems'[m].cites)] = Last(m)
      BY <3>5, <3>6, <3>8, RowsExist
    <3> QED
      BY <3>2, <3>3, <3>5, <3>8, <3>9
  <2>5. CASE /\ ~(g.into # None /\ m = new) /\ ~(g.target # None /\ m = g.target[1])
             /\ m \notin Ids(g.retire)
    <3>1. m \notin Ids({g.target} \ {None})
      BY <2>5 DEF Ids
    <3>2. mems'[m] = mems[m]
      BY <2>5, <3>1 DEF Written
    <3> QED
      BY <2>5, <3>2 DEF Grown
  <2> QED
    BY <2>2, <2>3, <2>4, <2>5
<1>8. mems' = [m \in Memory |-> mems'[m]]
  <2> DEFINE row(m) ==
        CASE g.into # None /\ m = new -> [project |-> g.into, retired |-> {}, cites |-> <<g.cites>>]
          [] m \in Ids({g.target} \ {None}) -> NextVersion(mems[m], g.cites, FALSE)
          [] m \in Ids(g.retire) -> NextVersion(mems[m], Last(m), TRUE)
          [] OTHER -> mems[m]
  <2>1. mems' = [m \in Memory |-> row(m)]
    BY DEF Written
  <2> HIDE DEF row
  <2> QED
    BY <2>1
<1>9. Changed(g) \subseteq sent
  BY DEF Fits
<1>10. Grow /\ ActedOn(sent)
  BY <1>7 DEF Grow, ActedOn
<1> QED
  BY <1>4, <1>6, <1>7, <1>8, <1>9, <1>10 DEF Writes

\* A step that changes no memory.
LEMMA SameGrows ==
    ASSUME MemsOK, UNCHANGED mems
    PROVE  Grow /\ mems' = [m \in Memory |-> mems'[m]]
BY DEF MemsOK, Grow, Grown

-----------------------------------------------------------------------------
(* What a step of the memories leaves of a run *)

SentStands ==
    \A r \in run.sent :
        /\ Known(r)' /\ r \notin Born(mems')
        /\ TheScope # Extraction => mems'[r[1]] = Gone \/ mems'[r[1]].project = TheScope
        /\ run.at # "read" /\ Exists(r[1])' =>
              run.sources[r[1]].cites = mems'[r[1]].cites[r[2]]

\* What was sent is known still, and is nothing the step has written.
LEMMA SentKept ==
    ASSUME ScopeInv, Passing, Grow, mems' = [m \in Memory |-> mems'[m]]
    PROVE  SentStands
<1> SUFFICES ASSUME NEW r \in run.sent
             PROVE  /\ Known(r)' /\ r \notin Born(mems')
                    /\ TheScope # Extraction =>
                          mems'[r[1]] = Gone \/ mems'[r[1]].project = TheScope
                    /\ run.at # "read" /\ Exists(r[1])' =>
                          run.sources[r[1]].cites = mems'[r[1]].cites[r[2]]
  BY DEF SentStands
<1>1. r \in Ref /\ r[1] \in Memory /\ r[2] \in Nat /\ r = <<r[1], r[2]>>
  BY DEF ScopeInv, Sending, Ref
<1>2. /\ Known(r)
      /\ TheScope # Extraction => mems[r[1]] = Gone \/ mems[r[1]].project = TheScope
      /\ run.at # "read" /\ Exists(r[1]) => run.sources[r[1]].cites = mems[r[1]].cites[r[2]]
  BY DEF ScopeInv, Sending, SourcesRight
<1>3. MemsOK
  BY DEF ScopeInv
<1>4. /\ Known(r)'
      /\ mems[r[1]] # None /\ Exists(r[1])' =>
            Exists(r[1]) /\ mems'[r[1]].project = mems[r[1]].project
      /\ Exists(r[1])' => Exists(r[1]) /\ mems'[r[1]].cites[r[2]] = mems[r[1]].cites[r[2]]
  BY <1>1, <1>2, <1>3, GrowKeeps
<1>5. TheScope # Extraction => mems'[r[1]] = Gone \/ mems'[r[1]].project = TheScope
  BY <1>2, <1>4, MarkersAssumption DEF Known, Exists
<1>6. r \notin Born(mems')
  <2> SUFFICES ASSUME mems'[r[1]] # mems[r[1]], mems'[r[1]] # Gone, r[2] = Len(mems'[r[1]].cites)
               PROVE  FALSE
    BY <1>1 DEF Born
  <2>1. Grown(r[1], mems'[r[1]])
    BY <1>1 DEF Grow
  <2>2. mems[r[1]] # None
    BY <1>2, MarkersAssumption DEF Known, Exists
  <2>3. Exists(r[1]) /\ Len(mems'[r[1]].cites) = Len(mems[r[1]].cites) + 1
    BY <2>1, <2>2 DEF Grown
  <2>4. Len(mems[r[1]].cites) \in Nat /\ r[2] <= Len(mems[r[1]].cites)
    BY <1>1, <1>2, <1>3, <2>3, RowsExist, StoresAssumption DEF Known, Exists
  <2> QED
    BY <2>3, <2>4
<1> QED
  BY <1>2, <1>4, <1>5, <1>6

TouchedStand ==
    /\ \A m \in run.excluded \cup run.touched : mems'[m] # None
    /\ \A m \in run.touched, i \in 1..Len(run.todo) :
          i > 1 \/ ~Passing => mems'[m] = Gone \/ mems'[m].project # run.todo[i]

LEMMA TouchedKept ==
    ASSUME ScopeInv, Grow, mems' = [m \in Memory |-> mems'[m]]
    PROVE  TouchedStand
<1>1. MemsOK /\ Sparing
  BY DEF ScopeInv
<1>2. \A m \in Memory :
          /\ mems[m] # None => mems'[m] # None
          /\ mems[m] = Gone => mems'[m] = Gone
          /\ mems[m] # None /\ Exists(m)' => mems'[m].project = mems[m].project
  BY <1>1, GrowKeeps
<1>3. \A m \in run.excluded \cup run.touched : m \in Memory /\ mems[m] # None
  BY <1>1 DEF Sparing
<1>4. ASSUME NEW m \in run.touched, NEW i \in 1..Len(run.todo), i > 1 \/ ~Passing
      PROVE  mems'[m] = Gone \/ mems'[m].project # run.todo[i]
  <2>1. mems[m] = Gone \/ mems[m].project # run.todo[i]
    BY <1>1, <1>4 DEF Sparing
  <2>2. mems'[m] = Gone \/ Exists(m)'
    BY <1>2, <1>3, <1>4 DEF Exists
  <2> QED
    BY <1>2, <1>3, <1>4, <2>1, <2>2
<1> QED
  BY <1>2, <1>3, <1>4 DEF TouchedStand

\* What the recheck saw is known still.
LEMMA SeenKept ==
    ASSUME ScopeInv, Grow, mems' = [m \in Memory |-> mems'[m]],
           run'.seen = run.seen, run'.excluded = run.excluded, run'.entries \subseteq run.entries,
           run.at \in {"recheck", "kept", "rechecking"}
    PROVE  SeenRight'
<1>1. MemsOK /\ SeenRight
  BY DEF ScopeInv
<1>2. \A r \in Ref : Known(r) => Known(r)'
  BY <1>1, GrowKeeps
<1>3. \A m \in Memory : (Seen(m)' <=> Seen(m)) /\ SeenAt(m)' = SeenAt(m)
  BY DEF Seen, SeenAt
<1>4. ASSUME NEW m \in Memory, Seen(m)' PROVE SeenAt(m)' \in Ref /\ Known(SeenAt(m))'
  <2>1. PICK r \in Ref : r = SeenAt(m) /\ Known(r)
    BY <1>1, <1>3, <1>4 DEF SeenRight
  <2>2. Known(r)'
    BY <1>2, <2>1
  <2> QED
    BY <1>3, <2>1, <2>2 DEF Known
<1>5. run'.seen \in [Memory -> Row \cup {None, Gone}]
  BY <1>1 DEF SeenRight
<1>6. \A m \in run'.entries : m \in Memory \ run'.excluded /\ Seen(m)'
  BY <1>1, <1>3 DEF SeenRight
<1> QED
  BY <1>4, <1>5, <1>6 DEF SeenRight

\* The entry it looks at still cites what it cited at the version listed.
LEMMA EntryKept ==
    ASSUME ScopeInv, Grow, mems' = [m \in Memory |-> mems'[m]], UNCHANGED run
    PROVE  EntryRight'
<1> SUFFICES ASSUME run.at \in {"kept", "rechecking"} PROVE EntryRight'
  BY DEF EntryRight
<1>1. MemsOK /\ SeenRight /\ EntryRight
  BY DEF ScopeInv
<1>2. Seen(run.entry)' /\ SeenAt(run.entry)' = SeenAt(run.entry)
  BY <1>1 DEF EntryRight, Seen, SeenAt
<1>3. PICK r \in Ref : r = SeenAt(run.entry) /\ Known(r) /\ r[1] = run.entry
  BY <1>1 DEF SeenRight, EntryRight, SeenAt
<1>4. Exists(run.entry)' => Exists(run.entry) /\ mems'[run.entry].cites[r[2]] = mems[run.entry].cites[r[2]]
  <2>1. Exists(r[1])' => Exists(r[1]) /\ mems'[r[1]].cites[r[2]] = mems[r[1]].cites[r[2]]
    BY <1>1, <1>3, GrowKeeps
  <2> QED
    BY <1>3, <2>1 DEF Exists
<1>5. Exists(run.entry)' => run.sources = mems'[run.entry].cites[r[2]]
  BY <1>1, <1>3, <1>4 DEF EntryRight
<1> QED
  BY <1>1, <1>2, <1>3, <1>5 DEF EntryRight

-----------------------------------------------------------------------------
(* Where a run leaves a scope, or ends *)

\* No run under way.
LEMMA IdleRight ==
    ASSUME ScopeInv, Grow, mems' = [m \in Memory |-> mems'[m]], run' = NoRun,
           passes' = [s \in Scope |-> passes'[s]]
    PROVE  ScopeInv'
<1>1. MemsOK'
  BY GrowKeeps DEF ScopeInv
<1>2. /\ run'.at = "idle" /\ run'.todo = <<>> /\ run'.born = {} /\ run'.touched = {}
      /\ run'.excluded = {} /\ run'.shunned = {}
  BY DEF NoRun
<1>3. RunShape'
  BY DEF RunShape, NoRun
<1>4. TodoOK' /\ Sending' /\ SeenRight' /\ EntryRight'
  BY <1>2 DEF TodoOK, Sending, SeenRight, EntryRight, Passing, Layer
<1>5. Sparing'
  BY <1>2 DEF Sparing, Passing, Layer, Ids
<1> QED
  BY <1>1, <1>3, <1>4, <1>5 DEF ScopeInv

\* The next scope, or the recheck, or nothing.
LEMMA LeftRight ==
    ASSUME ScopeInv, run.at \in Layer, UNCHANGED mems,
           NEW skipped, run' = Left \/ run' = [Left EXCEPT !.skipped = skipped],
           passes' = [s \in Scope |-> passes'[s]]
    PROVE  ScopeInv'
<1>1. MemsOK /\ TodoOK /\ Sparing
  BY DEF ScopeInv
<1>2. Grow /\ mems' = [m \in Memory |-> mems'[m]]
  BY <1>1, SameGrows
<1>3. MemsOK' /\ TouchedStand
  BY <1>1, <1>2, GrowKeeps, TouchedKept
<1> DEFINE next == IF TheScope = Extraction THEN "list" ELSE
                   IF Len(run.todo) = 1 THEN "idle" ELSE "scope"
<1>4. CASE next = "idle"
  <2>1. Left = NoRun
    BY <1>4 DEF Left
  <2>2. [Left EXCEPT !.skipped = skipped] = [NoRun EXCEPT !.skipped = skipped]
    BY <2>1
  <2>3. /\ run'.at = "idle" /\ run'.todo = <<>> /\ run'.born = {} /\ run'.touched = {}
        /\ run'.excluded = {} /\ run'.shunned = {} /\ run'.marks = {} /\ RunShape'
    BY <2>1, <2>2 DEF NoRun, RunShape
  <2>4. TodoOK' /\ Sending' /\ SeenRight' /\ EntryRight'
    BY <2>3 DEF TodoOK, Sending, SeenRight, EntryRight, Passing, Layer
  <2>5. Sparing'
    BY <2>3 DEF Sparing, Passing, Layer, Ids
  <2> QED
    BY <1>3, <2>3, <2>4, <2>5 DEF ScopeInv
<1>5. CASE next # "idle"
  <2>1. /\ run'.at = next /\ run'.todo = Tail(run.todo) /\ run'.excluded = run.excluded
        /\ run'.hits = run.hits /\ run'.shunned = run.shunned /\ run'.touched = run.touched
        /\ run'.born = {} /\ run'.marks = {} /\ run'.flags = {} /\ RunShape'
    <3>1. Left = [NoRun EXCEPT !.at = next, !.todo = Tail(run.todo), !.excluded = run.excluded,
                     !.hits = run.hits, !.groups = run.groups, !.shunned = run.shunned,
                     !.touched = run.touched]
      BY <1>5 DEF Left
    <3> HIDE DEF next
    <3>2. CASE run' = Left
      BY <3>1, <3>2, ZenonT(60) DEF NoRun, RunShape
    <3>3. CASE run' = [Left EXCEPT !.skipped = skipped]
      BY <3>1, <3>3 DEF NoRun, RunShape
    <3> QED
      BY <3>2, <3>3
  <2>2. /\ run.todo \in Seq(Scope) /\ run.todo # <<>> /\ TheScope = run.todo[1]
        /\ \A i, j \in 1..Len(run.todo) : run.todo[i] = run.todo[j] => i = j
        /\ \A i \in 1..Len(run.todo) : run.todo[i] = Extraction => i = Len(run.todo)
    BY <1>1 DEF TodoOK, TheScope
  <2>3. /\ run'.todo \in Seq(Scope) /\ Len(run'.todo) = Len(run.todo) - 1
        /\ \A i \in 1..Len(run'.todo) : /\ run'.todo[i] = run.todo[i + 1]
                                       /\ i + 1 \in 1..Len(run.todo) /\ i + 1 > 1
    BY <2>1, <2>2
  <2>4. /\ next = "list" => run'.todo = <<>>
        /\ next = "scope" => run'.todo # <<>>
        /\ next \in {"list", "scope"}
    <3>1. Len(run.todo) \in Nat \ {0} /\ Len(run'.todo) \in Nat
      BY <2>2, <2>3
    <3>2. CASE TheScope = Extraction
      <4>1. Len(run.todo) = 1
        <5>1. 1 \in 1..Len(run.todo)
          BY <3>1
        <5> QED
          BY <2>2, <3>2, <5>1
      <4> QED
        BY <2>1, <2>2, <2>3, <3>2, <4>1
    <3>3. CASE TheScope # Extraction
      <4>1. Len(run'.todo) # 0
        BY <1>5, <2>3, <3>1, <3>3
      <4> QED
        BY <1>5, <3>3, <4>1
    <3> QED
      BY <3>2, <3>3
  <2> HIDE DEF next
  <2>5. TodoOK'
    BY <2>1, <2>2, <2>3, <2>4 DEF TodoOK, Layer
  <2>6. Sending' /\ SeenRight' /\ EntryRight'
    BY <2>1, <2>4 DEF Sending, SeenRight, EntryRight, Passing, Layer
  <2>7. Sparing'
    <3>1. ASSUME NEW m \in run'.touched, NEW i \in 1..Len(run'.todo)
          PROVE  mems'[m] = Gone \/ mems'[m].project # run'.todo[i]
      BY <1>3, <2>1, <2>3, <3>1 DEF TouchedStand
    <3>2. \A m \in run'.excluded \cup run'.touched : mems'[m] # None
      BY <1>3, <2>1 DEF TouchedStand
    <3>3. ~Passing' /\ run'.at \notin {"idle", "scan"}
      BY <2>1, <2>4 DEF Passing, Layer
    <3> QED
      BY <1>1, <2>1, <3>1, <3>2, <3>3 DEF Sparing
  <2> QED
    BY <1>3, <2>1, <2>5, <2>6, <2>7 DEF ScopeInv
<1> QED
  BY <1>4, <1>5

-----------------------------------------------------------------------------
(* Within a pass *)

\* What was sent stays right as long as the pass goes on.
LEMMA SendingKept ==
    ASSUME ScopeInv, Passing, Passing', Grow, mems' = [m \in Memory |-> mems'[m]],
           run.at # "read" \/ run'.at = "read",
           run'.sent = run.sent, run'.todo = run.todo, run'.sources = run.sources,
           run'.born \subseteq run.born \cup Born(mems'),
           \A g : run'.at = "applying" /\ run'.change = g =>
                     TheScope = Extraction /\ Fits(g, run.sent, Old(g))
    PROVE  Sending'
<1>1. SentStands /\ Sending
  BY SentKept DEF ScopeInv
<1>2. TheScope' = TheScope
  BY DEF TheScope
<1>3. run'.sent \subseteq Ref /\ run'.sent \cap run'.born = {}
  BY <1>1 DEF Sending, SentStands
<1>4. \A r \in run'.sent :
          Known(r)' /\ (TheScope' # Extraction => mems'[r[1]] = Gone \/ mems'[r[1]].project = TheScope')
  BY <1>1, <1>2 DEF SentStands
<1>5. run'.at # "read" => SourcesRight'
  <2> SUFFICES ASSUME run'.at # "read", NEW r \in run.sent
               PROVE  /\ run.sources[r[1]].cites \subseteq Ref
                      /\ Exists(r[1])' => run.sources[r[1]].cites = mems'[r[1]].cites[r[2]]
    BY DEF SourcesRight, Exists
  <2>1. run.at # "read" /\ SourcesRight
    BY <1>1 DEF Sending
  <2> QED
    BY <1>1, <2>1 DEF SourcesRight, SentStands
<1>6. run'.at = "applying" =>
        TheScope' = Extraction /\ Fits(run.change, run.sent, Old(run.change))'
  <2> SUFFICES ASSUME run'.at = "applying"
               PROVE  TheScope' = Extraction /\ Fits(run.change, run.sent, Old(run.change))'
    OBVIOUS
  <2>1. PICK g : g = run'.change
    OBVIOUS
  <2>2. TheScope = Extraction /\ Fits(g, run.sent, Old(g))
    BY <2>1
  <2>3. Old(run.change)' = Old(g)
    BY <2>1 DEF Old
  <2>4. g.target # None /\ Exists(g.target[1])' => Old(g) = mems'[g.target[1]].cites[g.target[2]]
    <3> SUFFICES ASSUME g.target # None, Exists(g.target[1])'
                 PROVE  Old(g) = mems'[g.target[1]].cites[g.target[2]]
      OBVIOUS
    <3>1. g.target \in run.sent /\ run.at # "read"
      BY <2>2 DEF Fits, Changed
    <3> QED
      BY <1>1, <3>1 DEF SentStands, Old
  <2>5. Changed(run.change)' = Changed(g)
    BY <2>1 DEF Changed
  <2>6. Fits(run.change, run.sent, Old(run.change))'
    BY <2>1, <2>2, <2>3, <2>4, <2>5 DEF Fits, Exists
  <2> QED
    BY <1>2, <2>2, <2>6
<1> QED
  BY <1>1, <1>3, <1>4, <1>5, <1>6 DEF Sending

\* Nothing left out is touched as long as what is touched was sent and not flagged, or is new.
LEMMA SparingKept ==
    ASSUME ScopeInv, Passing, Passing', Grow, mems' = [m \in Memory |-> mems'[m]],
           run'.sent = run.sent, run'.todo = run.todo, run'.marks = run.marks,
           run'.hits = run.hits, run'.shunned = run.shunned, run'.excluded = run.excluded,
           run'.flags \subseteq run.flags,
           NEW T \in SUBSET Memory, run'.touched = run.touched \cup T,
           T \cap (run.excluded \cup run.marks) = {},
           \A m \in T : /\ mems'[m] # None
                        /\ TheScope # Extraction => mems'[m] = Gone \/ mems'[m].project = TheScope,
           run'.at \in {"read", "asked"} => run.at \in {"read", "asked"} /\ T = {}
    PROVE  Sparing'
<1>1. Sparing /\ TouchedStand /\ TodoOK
  BY TouchedKept DEF ScopeInv
<1>2. TheScope' = TheScope /\ TheScope = run.todo[1] /\ run.todo # <<>> /\ run.todo \in Seq(Scope)
  BY <1>1 DEF TheScope, TodoOK, Passing, Layer
<1>3. /\ Ids(run'.shunned \ run'.hits) \subseteq run'.excluded
      /\ run'.excluded \subseteq Memory /\ run'.touched \subseteq Memory
      /\ run'.excluded \cap run'.touched = {}
  BY <1>1 DEF Sparing
<1>4. \A m \in run'.excluded \cup run'.touched : mems'[m] # None
  BY <1>1 DEF TouchedStand
<1>5. ASSUME NEW m \in run'.touched, NEW i \in 1..Len(run'.todo), i > 1
      PROVE  mems'[m] = Gone \/ mems'[m].project # run'.todo[i]
  <2>1. CASE m \in run.touched
    BY <1>1, <1>5, <2>1 DEF TouchedStand
  <2>2. CASE m \in T
    <3>1. 1 \in 1..Len(run.todo) /\ run.todo[i] # run.todo[1] /\ 1 # Len(run.todo)
      BY <1>1, <1>2, <1>5 DEF TodoOK
    <3>2. TheScope # Extraction
      BY <1>1, <1>2, <3>1 DEF TodoOK
    <3> QED
      BY <1>2, <1>5, <2>2, <3>1, <3>2
  <2> QED
    BY <1>5, <2>1, <2>2
<1>6. /\ run'.at \in {"scan", "scope", "read", "asked"} => run'.marks = {} /\ run'.flags = {}
      /\ run'.at \notin {"idle", "scan"}
  BY <1>1 DEF Sparing, Passing, Layer
<1>7. /\ run'.flags \subseteq run'.marks /\ run'.marks \subseteq Ids(run'.sent)
      /\ run'.marks \cap run'.touched = {}
      /\ TheScope' = Extraction => run'.marks = {}
      /\ Ids(run'.sent) \cap run'.excluded \subseteq run'.marks
  BY <1>1, <1>2 DEF Sparing
<1>8. run'.at \in {"read", "asked"} /\ TheScope' # Extraction => Ids(run'.sent) \cap run'.touched = {}
  BY <1>1, <1>2 DEF Sparing
<1> QED
  BY <1>3, <1>4, <1>5, <1>6, <1>7, <1>8 DEF Sparing

LEMMA SparingSame ==
    ASSUME ScopeInv, Passing, Passing', Grow, mems' = [m \in Memory |-> mems'[m]],
           run'.sent = run.sent, run'.todo = run.todo, run'.marks = run.marks,
           run'.hits = run.hits, run'.shunned = run.shunned, run'.excluded = run.excluded,
           run'.flags \subseteq run.flags, run'.touched = run.touched,
           run'.at \in {"read", "asked"} => run.at \in {"read", "asked"}
    PROVE  Sparing'
<1>1. PICK T \in SUBSET Memory : T = {}
  OBVIOUS
<1>2. /\ run'.touched = run.touched \cup T
      /\ T \cap (run.excluded \cup run.marks) = {}
      /\ \A m \in T : /\ mems'[m] # None
                      /\ TheScope # Extraction => mems'[m] = Gone \/ mems'[m].project = TheScope
      /\ run'.at \in {"read", "asked"} => run.at \in {"read", "asked"} /\ T = {}
  BY <1>1
<1> QED
  BY <1>2, SparingKept

-----------------------------------------------------------------------------
(* Others write *)

EditStep ==
    \E m \in Memory : \/ Update(m) \/ SoftDelete(m) \/ Purge(m)
                      \/ \E p \in Ordinary : Remember(m, p)
                      \/ \E v \in 1..MaxVersion : Restore(m, v)

\* What others write to a memory is one more version, and cites what one of its versions cites.
OneOn(m, v) == {NextVersion(mems[m], mems[m].cites[v], FALSE), NextVersion(mems[m], mems[m].cites[v], TRUE)}

LEMMA EditRevises ==
    ASSUME MemsOK, NEW m \in Memory, Update(m) \/ SoftDelete(m) \/ \E v \in 1..MaxVersion : Restore(m, v)
    PROVE  /\ Exists(m) /\ Len(mems[m].cites) < MaxVersion
           /\ \E v \in 1..Len(mems[m].cites) : \E row \in OneOn(m, v) : Edit([mems EXCEPT ![m] = row])
<1>1. Exists(m) /\ Len(mems[m].cites) < MaxVersion
  BY DEF Update, SoftDelete, Restore, Writable, Current
<1>2. Len(mems[m].cites) \in 1..MaxVersion /\ mems = [k \in Memory |-> mems[k]]
  BY <1>1, RowsExist DEF MemsOK
<1>3. Len(mems[m].cites) \in 1..Len(mems[m].cites)
  BY <1>2, StoresAssumption
<1>4. CASE Update(m)
  <2>1. Edit([mems EXCEPT ![m] = NextVersion(mems[m], mems[m].cites[Len(mems[m].cites)], FALSE)])
    BY <1>2, <1>4 DEF Update, Last
  <2> QED
    BY <1>1, <1>3, <2>1 DEF OneOn
<1>5. CASE SoftDelete(m)
  <2>1. Edit([mems EXCEPT ![m] = NextVersion(mems[m], mems[m].cites[Len(mems[m].cites)], TRUE)])
    BY <1>2, <1>5 DEF SoftDelete, Last
  <2> QED
    BY <1>1, <1>3, <2>1 DEF OneOn
<1>6. ASSUME NEW v \in 1..MaxVersion, Restore(m, v)
      PROVE  \E w \in 1..Len(mems[m].cites) : \E row \in OneOn(m, w) : Edit([mems EXCEPT ![m] = row])
  <2>1. v \in 1..Len(mems[m].cites)
    BY <1>2, <1>6, StoresAssumption DEF Restore, Current
  <2>2. Edit([mems EXCEPT ![m] = NextVersion(mems[m], mems[m].cites[v], v \in mems[m].retired)])
    BY <1>2, <1>6 DEF Restore
  <2>3. NextVersion(mems[m], mems[m].cites[v], v \in mems[m].retired) \in OneOn(m, v)
    BY DEF OneOn, NextVersion
  <2> QED
    BY <2>1, <2>2, <2>3
<1> QED
  BY <1>1, <1>4, <1>5, <1>6

\* What others write grows the store.
LEMMA EditGrows ==
    ASSUME MemsOK, EditStep
    PROVE  Grow /\ mems' = [m \in Memory |-> mems'[m]] /\ Edit(mems')
<1>1. mems = [m \in Memory |-> mems[m]]
  BY DEF MemsOK
<1>2. PICK m \in Memory : \/ Update(m) \/ SoftDelete(m) \/ Purge(m)
                          \/ \E p \in Ordinary : Remember(m, p)
                          \/ \E v \in 1..MaxVersion : Restore(m, v)
  BY DEF EditStep
<1>3. ASSUME NEW row, Grown(m, row), Edit([mems EXCEPT ![m] = row])
      PROVE  Grow /\ mems' = [k \in Memory |-> mems'[k]] /\ Edit(mems')
  <2>1. mems' = [mems EXCEPT ![m] = row]
    BY <1>3 DEF Edit
  <2>2. Edit(mems')
    BY <1>3, <2>1
  <2>3. \A k \in Memory : mems'[k] = IF k = m THEN row ELSE mems[k]
    BY <1>1, <2>1
  <2> QED
    BY <1>1, <1>3, <2>1, <2>2, <2>3 DEF Grow, Grown
<1>4. CASE Update(m) \/ SoftDelete(m) \/ \E v \in 1..MaxVersion : Restore(m, v)
  <2>1. Exists(m) /\ Len(mems[m].cites) < MaxVersion
    BY <1>4, EditRevises
  <2>2. PICK v \in 1..Len(mems[m].cites) : \E row \in OneOn(m, v) : Edit([mems EXCEPT ![m] = row])
    BY <1>4, EditRevises
  <2>3. mems[m].cites[v] \in SUBSET Ref
    BY <2>1, RowsExist
  <2>4. PICK row \in OneOn(m, v) : Edit([mems EXCEPT ![m] = row])
    BY <2>2
  <2>5. Grown(m, row)
    BY <2>1, <2>3, AppendGrown DEF OneOn
  <2> QED
    BY <1>3, <2>4, <2>5
<1>5. CASE Purge(m)
  <2>1. /\ mems' = [k \in Memory |-> IF Exists(k) /\ m \in Reach({k}) THEN Gone ELSE mems[k]]
        /\ Edit(mems')
    BY <1>5 DEF Purge, Edit
  <2>2. \A k \in Memory : mems'[k] = mems[k] \/ (Exists(k) /\ mems'[k] = Gone)
    BY <2>1
  <2> QED
    BY <2>1, <2>2 DEF Grow, Grown
<1>6. ASSUME NEW p \in Ordinary, Remember(m, p)
      PROVE  Grow /\ mems' = [k \in Memory |-> mems'[k]] /\ Edit(mems')
  <2> DEFINE row == [project |-> p, retired |-> {}, cites |-> <<{}>>]
  <2>1. row \in Row /\ Len(row.cites) = 1
    BY DEF Row, Project
  <2>2. mems[m] = None /\ Edit([mems EXCEPT ![m] = row])
    BY <1>6 DEF Remember
  <2>3. Grown(m, row)
    BY <2>1, <2>2 DEF Grown
  <2> QED
    BY <1>3, <2>2, <2>3
<1> QED
  BY <1>2, <1>4, <1>5, <1>6

\* A step that changes nothing of a run but what was written meanwhile.
LEMMA RunStands ==
    ASSUME ScopeInv, Grow, mems' = [m \in Memory |-> mems'[m]], UNCHANGED passes,
           run' = IF Passing THEN [run EXCEPT !.born = @ \cup Born(mems')] ELSE run
    PROVE  ScopeInv'
<1>1. MemsOK' /\ MemsOK /\ RunShape /\ TodoOK /\ Sending /\ Sparing /\ TouchedStand
  BY GrowKeeps, TouchedKept DEF ScopeInv
<1>2. passes' = [s \in Scope |-> passes'[s]]
  BY DEF ScopeInv
<1>3. CASE Passing
  <2>1. run' = [run EXCEPT !.born = run.born \cup Born(mems')]
    BY <1>3
  <2>2. /\ run'.at = run.at /\ run'.todo = run.todo /\ run'.excluded = run.excluded
        /\ run'.hits = run.hits /\ run'.sent = run.sent /\ run'.sources = run.sources
        /\ run'.marks = run.marks /\ run'.flags = run.flags /\ run'.change = run.change
        /\ run'.shunned = run.shunned /\ run'.touched = run.touched
        /\ run'.born = run.born \cup Born(mems')
    BY <1>1, <2>1 DEF RunShape
  <2>3. RunShape'
    BY <1>1, <2>1 DEF RunShape
  <2>4. Passing' /\ TodoOK'
    BY <1>1, <1>3, <2>2 DEF TodoOK, Passing
  <2>5. Sending'
    <3>1. \A g : run'.at = "applying" /\ run'.change = g =>
                    TheScope = Extraction /\ Fits(g, run.sent, Old(g))
      BY <1>1, <1>3, <2>2 DEF Sending
    <3> QED
      BY <1>3, <2>2, <2>4, <3>1, SendingKept
  <2>6. Sparing'
    BY <1>3, <2>2, <2>4, SparingSame
  <2>7. SeenRight' /\ EntryRight'
    BY <2>4 DEF SeenRight, EntryRight, Passing, Layer
  <2> QED
    BY <1>1, <1>2, <2>3, <2>4, <2>5, <2>6, <2>7 DEF ScopeInv
<1>4. CASE ~Passing
  <2>1. UNCHANGED run /\ ~Passing'
    BY <1>4 DEF Passing
  <2>2. RunShape' /\ TodoOK' /\ Sending'
    BY <1>1, <1>4, <2>1 DEF RunShape, TodoOK, Sending
  <2>3. SeenRight'
    <3>1. run.at \in {"recheck", "kept", "rechecking"} => SeenRight'
      BY <2>1, SeenKept
    <3> QED
      BY <2>1, <3>1 DEF SeenRight
  <2>4. EntryRight'
    BY <2>1, EntryKept
  <2>5. Sparing'
    BY <1>1, <1>4, <2>1 DEF Sparing, TouchedStand
  <2> QED
    BY <1>1, <1>2, <2>2, <2>3, <2>4, <2>5 DEF ScopeInv
<1> QED
  BY <1>3, <1>4

LEMMA EditRight ==
    ASSUME ScopeInv, EditStep
    PROVE  ScopeInv'
<1>1. Grow /\ mems' = [m \in Memory |-> mems'[m]] /\ Edit(mems')
  BY EditGrows DEF ScopeInv
<1>2. /\ UNCHANGED passes
      /\ run' = IF Passing THEN [run EXCEPT !.born = @ \cup Born(mems')] ELSE run
  BY <1>1 DEF Edit, Passing, Layer
<1> QED
  BY <1>1, <1>2, RunStands

-----------------------------------------------------------------------------
(* From the start of a run to an answer *)

\* A run goes through its scopes once each, extraction last.
LEMMA ScopesRight ==
    ASSUME NEW wanted \in Wanted
    PROVE  /\ Scopes(wanted) \in Seq(Scope) /\ Scopes(wanted) # <<>>
           /\ \A i, j \in 1..Len(Scopes(wanted)) : Scopes(wanted)[i] = Scopes(wanted)[j] => i = j
           /\ \A i \in 1..Len(Scopes(wanted)) :
                 Scopes(wanted)[i] = Extraction => i = Len(Scopes(wanted))
<1>1. /\ ProjectOrder \in Seq(Project) /\ Global \in Project
      /\ \A i \in 1..Len(ProjectOrder) : ProjectOrder[i] \in Ordinary
      /\ Global \notin Ordinary /\ Extraction \notin Project
      /\ \A i, j \in 1..Len(ProjectOrder) : ProjectOrder[i] = ProjectOrder[j] => i = j
  BY ProjectsAssumption DEF Project, Ordinary
<1>2. Project \subseteq Scope /\ Extraction \in Scope /\ Ordinary \subseteq Project
  BY DEF Scope, Project
<1> DEFINE all == ProjectOrder \o <<Global>>
<1>3. /\ all \in Seq(Project) /\ Len(all) = Len(ProjectOrder) + 1 /\ Len(ProjectOrder) \in Nat
      /\ \A i \in 1..Len(ProjectOrder) : all[i] = ProjectOrder[i]
      /\ all[Len(all)] = Global
  BY <1>1
<1>4. \A i, j \in 1..Len(all) : all[i] = all[j] => i = j
  <2> SUFFICES ASSUME NEW i \in 1..Len(all), NEW j \in 1..Len(all), all[i] = all[j] PROVE i = j
    OBVIOUS
  <2> HIDE DEF all
  <2>1. /\ i = Len(all) \/ i \in 1..Len(ProjectOrder)
        /\ j = Len(all) \/ j \in 1..Len(ProjectOrder)
    BY <1>3
  <2> QED
    BY <1>1, <1>3, <2>1
<1> HIDE DEF all
<1>5. \A i \in 1..Len(all) : all[i] # Extraction
  BY <1>1, <1>3
<1>6. CASE "consolidate" \in wanted /\ "extract" \in wanted
  <2>1. Scopes(wanted) = all \o <<Extraction>>
    BY <1>6 DEF Scopes, all
  <2>2. /\ Len(Scopes(wanted)) = Len(all) + 1 /\ Len(all) \in Nat
        /\ \A i \in 1..Len(all) : Scopes(wanted)[i] = all[i]
        /\ Scopes(wanted)[Len(all) + 1] = Extraction
        /\ Scopes(wanted) \in Seq(Scope)
    BY <1>2, <1>3, <2>1
  <2>3. \A i \in 1..Len(Scopes(wanted)) : i \in 1..Len(all) \/ i = Len(all) + 1
    BY <2>2
  <2> HIDE DEF all
  <2>4. \A i, j \in 1..Len(Scopes(wanted)) : Scopes(wanted)[i] = Scopes(wanted)[j] => i = j
    BY <1>4, <1>5, <2>2, <2>3
  <2>5. \A i \in 1..Len(Scopes(wanted)) : Scopes(wanted)[i] = Extraction => i = Len(Scopes(wanted))
    BY <1>5, <2>2, <2>3
  <2>6. Scopes(wanted) # <<>>
    BY <2>2
  <2> QED
    BY <2>2, <2>4, <2>5, <2>6
<1>7. CASE "consolidate" \in wanted /\ "extract" \notin wanted
  <2>1. Scopes(wanted) = all
    BY <1>3, <1>7 DEF Scopes, all
  <2>2. all \in Seq(Scope) /\ all # <<>>
    BY <1>2, <1>3
  <2> QED
    BY <1>4, <1>5, <2>1, <2>2
<1>8. CASE "consolidate" \notin wanted /\ "extract" \in wanted
  <2>1. Scopes(wanted) = <<Extraction>>
    BY <1>8 DEF Scopes
  <2> QED
    BY <1>2, <2>1
<1> QED
  BY <1>6, <1>7, <1>8, ProjectsAssumption

LEMMA StartRunRight == ASSUME ScopeInv, StartRun PROVE ScopeInv'
<1>1. UNCHANGED <<mems, passes>>
  BY DEF StartRun
<1>2. MemsOK' /\ passes' = [s \in Scope |-> passes'[s]]
  BY <1>1, SameGrows, GrowKeeps DEF ScopeInv
<1>3. PICK wanted \in Wanted : run' = [NoRun EXCEPT !.at = "scan", !.todo = Scopes(wanted)]
  BY DEF StartRun
<1>4. /\ run'.at = "scan" /\ run'.todo = Scopes(wanted) /\ run'.born = {} /\ run'.touched = {}
      /\ run'.excluded = {} /\ run'.shunned = {} /\ run'.marks = {} /\ run'.flags = {}
      /\ RunShape'
  BY <1>3 DEF NoRun, RunShape
<1>5. TodoOK'
  BY <1>4, ScopesRight DEF TodoOK, Layer
<1>6. Sending' /\ SeenRight' /\ EntryRight'
  BY <1>4 DEF Sending, SeenRight, EntryRight, Passing, Layer
<1>7. Sparing'
  BY <1>4 DEF Sparing, Passing, Layer, Ids
<1> QED
  BY <1>2, <1>4, <1>5, <1>6, <1>7 DEF ScopeInv

LEMMA ScanRight == ASSUME ScopeInv, Scan PROVE ScopeInv'
<1> DEFINE hits == {r \in Hits : Exists(r[1])}
           current == {r \in hits : r = Current(r[1])}
<1>1. UNCHANGED <<mems, passes>> /\ run.at = "scan"
  BY DEF Scan
<1>2. MemsOK' /\ passes' = [s \in Scope |-> passes'[s]] /\ RunShape /\ TodoOK /\ Sending /\ Sparing
  BY <1>1, SameGrows, GrowKeeps DEF ScopeInv
<1>3. run' = [run EXCEPT !.at = "scope", !.excluded = Ids(current), !.hits = hits \ current,
                 !.shunned = hits]
  BY DEF Scan
<1>4. \A m \in Ids(current) : m \in Memory /\ mems[m] # None
  BY StoresAssumption DEF Ids, Ref, Exists
<1>5. Ids(hits \ (hits \ current)) \subseteq Ids(current)
  BY DEF Ids
<1> HIDE DEF hits, current
<1>6. /\ run'.at = "scope" /\ run'.todo = run.todo /\ run'.born = run.born
      /\ run'.touched = run.touched /\ run'.marks = run.marks /\ run'.flags = run.flags
      /\ run'.excluded = Ids(current) /\ run'.hits = hits \ current /\ run'.shunned = hits
  BY <1>2, <1>3 DEF RunShape
<1>7. RunShape'
  BY <1>2, <1>3 DEF RunShape
<1>8. TodoOK' /\ Sending' /\ SeenRight' /\ EntryRight'
  BY <1>1, <1>2, <1>6 DEF TodoOK, Sending, SeenRight, EntryRight, Passing, Layer
<1>9. Sparing'
  BY <1>1, <1>2, <1>4, <1>5, <1>6 DEF Sparing, Passing, Layer
<1> QED
  BY <1>2, <1>7, <1>8, <1>9 DEF ScopeInv

\* A listing is of current versions, none of them left out.
LEMMA ListRight == ASSUME ScopeInv, List PROVE ScopeInv'
<1>1. UNCHANGED <<mems, passes>> /\ run.at = "scope"
  BY DEF List
<1>2. passes' = [s \in Scope |-> passes'[s]]
  BY <1>1 DEF ScopeInv
<1> DEFINE input == Usable(TheScope)
<1>3. CASE run' = [Left EXCEPT !.skipped = input]
  <2>1. run.at \in Layer
    BY <1>1 DEF Layer
  <2> HIDE DEF input
  <2> QED
    BY <1>1, <1>2, <1>3, <2>1, LeftRight
<1>4. CASE run' = [run EXCEPT !.at = "read", !.sent = input, !.skipped = {}]
  <2>1. /\ MemsOK' /\ MemsOK /\ RunShape /\ TodoOK /\ Sending /\ Sparing /\ TouchedStand
    BY <1>1, SameGrows, GrowKeeps, TouchedKept DEF ScopeInv
  <2>2. ASSUME NEW r \in input
        PROVE  /\ r \in Ref /\ Known(r) /\ r = Current(r[1]) /\ r[1] \in Memory
               /\ r[1] \notin run.excluded
               /\ TheScope # Extraction => mems[r[1]].project = TheScope /\ mems[r[1]] # Gone
    <3>1. PICK m \in Memory : /\ r = Current(m) /\ Live(m) /\ m \notin run.excluded
                              /\ TheScope # Extraction => mems[m].project = TheScope
      BY <2>2 DEF Usable
    <3>2. Exists(m) /\ r[1] = m /\ r[2] = Len(mems[m].cites)
      BY <3>1 DEF Live, Current
    <3>3. r \in Ref /\ Len(mems[m].cites) \in 1..MaxVersion
      BY <2>1, <3>1, <3>2, RowsExist
    <3> QED
      BY <3>1, <3>2, <3>3, StoresAssumption DEF Known, Exists
  <2> HIDE DEF input
  <2>3. /\ run'.at = "read" /\ run'.sent = input /\ run'.todo = run.todo /\ run'.born = run.born
        /\ run'.excluded = run.excluded /\ run'.hits = run.hits /\ run'.shunned = run.shunned
        /\ run'.touched = run.touched /\ run'.marks = run.marks /\ run'.flags = run.flags
    BY <1>4, <2>1 DEF RunShape
  <2>4. RunShape'
    BY <1>4, <2>1 DEF RunShape
  <2>5. TodoOK' /\ SeenRight' /\ EntryRight' /\ TheScope' = TheScope
    BY <1>1, <2>1, <2>3 DEF TodoOK, SeenRight, EntryRight, Layer, TheScope
  <2>6. Sending'
    <3>1. run'.born = {}
      BY <1>1, <2>1, <2>3 DEF Sending, Passing, Layer
    <3>2. \A r \in run'.sent :
            Known(r)' /\ (TheScope' # Extraction => mems'[r[1]] = Gone \/ mems'[r[1]].project = TheScope')
      BY <1>1, <2>2, <2>3, <2>5 DEF Known, Exists
    <3>3. \A r, q \in run'.sent : r[1] = q[1] => r = q
      BY <2>2, <2>3
    <3> QED
      BY <2>2, <2>3, <3>1, <3>2, <3>3 DEF Sending, Passing
  <2>7. Sparing'
    <3>1. run.marks = {} /\ ~Passing /\ TheScope = run.todo[1] /\ 1 \in 1..Len(run.todo)
      BY <1>1, <2>1 DEF Sparing, Passing, Layer, TheScope, TodoOK
    <3>2. Ids(run'.sent) \cap run'.excluded = {}
      BY <2>2, <2>3 DEF Ids
    <3>3. TheScope # Extraction => Ids(run'.sent) \cap run'.touched = {}
      <4> SUFFICES ASSUME TheScope # Extraction, NEW r \in input, r[1] \in run.touched PROVE FALSE
        BY <2>3 DEF Ids
      <4>1. mems[r[1]] = Gone \/ mems[r[1]].project # run.todo[1]
        BY <2>1, <3>1 DEF Sparing
      <4> QED
        BY <2>2, <3>1, <4>1
    <3>4. run'.marks = {} /\ run'.flags = {}
      BY <1>1, <2>1, <2>3 DEF Sparing
    <3> QED
      BY <2>1, <2>3, <2>5, <3>2, <3>3, <3>4 DEF Sparing, TouchedStand, Passing, Layer
  <2> QED
    BY <1>2, <2>1, <2>4, <2>5, <2>6, <2>7 DEF ScopeInv
<1> QED
  BY <1>3, <1>4 DEF List

\* A step within a pass.
LEMMA PassRight ==
    ASSUME ScopeInv, UNCHANGED passes, Grow, mems' = [m \in Memory |-> mems'[m]],
           Passing, Passing', RunShape', run'.todo = run.todo, Sending', Sparing'
    PROVE  ScopeInv'
<1>1. MemsOK' /\ TodoOK
  BY GrowKeeps DEF ScopeInv
<1>2. TodoOK' /\ SeenRight' /\ EntryRight'
  BY <1>1 DEF TodoOK, SeenRight, EntryRight, Passing, Layer
<1>3. passes' = [s \in Scope |-> passes'[s]]
  BY DEF ScopeInv
<1> QED
  BY <1>1, <1>2, <1>3 DEF ScopeInv

LEMMA ReadSourcesRight == ASSUME ScopeInv, ReadSources PROVE ScopeInv'
<1>1. /\ UNCHANGED <<mems, passes>> /\ run.at = "read" /\ Passing
      /\ MemsOK /\ RunShape /\ Sending /\ Sparing
  BY DEF ReadSources, Passing, Layer, ScopeInv
<1>2. Grow /\ mems' = [m \in Memory |-> mems'[m]] /\ SentStands
  BY <1>1, SameGrows, SentKept
<1>3. CASE run' = Left
  <2>1. run.at \in Layer /\ passes' = [s \in Scope |-> passes'[s]]
    BY <1>1 DEF Layer, ScopeInv
  <2> QED
    BY <1>1, <1>3, <2>1, LeftRight
<1> DEFINE sources == [m \in Ids(run.sent) |-> [project |-> mems[m].project,
                          cites |-> mems[m].cites[VersionIn(run.sent, m)]]]
<1>4. CASE /\ run' = [run EXCEPT !.at = "asked", !.sources = sources]
           /\ \A m \in Ids(run.sent) : Exists(m)
  <2>1. ASSUME NEW r \in run.sent
        PROVE  sources[r[1]].cites = mems[r[1]].cites[r[2]] /\ sources[r[1]].cites \subseteq Ref
    <3>1. r[1] \in Ids(run.sent)
      BY DEF Ids
    <3>2. \E q \in run.sent : q[1] = r[1]
      BY <2>1
    <3>3. VersionIn(run.sent, r[1]) = r[2]
      BY <1>1, <2>1, <3>2 DEF VersionIn, Sending
    <3>4. sources[r[1]].cites = mems[r[1]].cites[r[2]]
      BY <3>1, <3>3
    <3>5. r[1] \in Memory /\ Known(r) /\ Exists(r[1])
      BY <1>1, <1>4, <2>1, <3>1 DEF Sending, Ref
    <3>6. mems[r[1]].cites \in Seq(SUBSET Ref) /\ r[2] \in 1..Len(mems[r[1]].cites)
      BY <1>1, <3>5, RowsExist DEF Known, Exists
    <3>7. mems[r[1]].cites[r[2]] \in SUBSET Ref
      BY <3>6
    <3> HIDE DEF sources
    <3> QED
      BY <3>4, <3>7
  <2> HIDE DEF sources
  <2>2. /\ run'.at = "asked" /\ run'.sources = sources /\ run'.sent = run.sent
        /\ run'.todo = run.todo /\ run'.marks = run.marks /\ run'.flags = run.flags
        /\ run'.hits = run.hits /\ run'.shunned = run.shunned /\ run'.excluded = run.excluded
        /\ run'.touched = run.touched /\ run'.born = run.born
    BY <1>1, <1>4 DEF RunShape
  <2>3. RunShape' /\ Passing'
    BY <1>1, <1>4, <2>2 DEF RunShape, Passing, Layer
  <2>4. SourcesRight'
    BY <1>1, <2>1, <2>2 DEF SourcesRight, Exists
  <2>5. TheScope' = TheScope
    BY <2>2 DEF TheScope
  <2>6. Sending'
    BY <1>1, <1>2, <2>2, <2>3, <2>4, <2>5 DEF Sending, SentStands
  <2>7. Sparing'
    BY <1>1, <1>2, <2>2, <2>3, SparingSame
  <2> QED
    BY <1>1, <1>2, <2>2, <2>3, <2>6, <2>7, PassRight
<1> QED
  BY <1>3, <1>4 DEF ReadSources

LEMMA NoAnswerRight == ASSUME ScopeInv, NoAnswer PROVE ScopeInv'
<1>1. /\ UNCHANGED <<mems, passes>> /\ run.at \in Layer /\ run' = Left
      /\ passes' = [s \in Scope |-> passes'[s]]
  BY DEF NoAnswer, Layer, ScopeInv
<1> QED
  BY <1>1, LeftRight

\* What an answer flags was sent, and no change of this run has touched it.
LEMMA AnsweredRight == ASSUME ScopeInv, Answered PROVE ScopeInv'
<1>1. /\ UNCHANGED <<mems, passes>> /\ run.at = "asked" /\ Passing
      /\ MemsOK /\ RunShape /\ Sending /\ Sparing
  BY DEF Answered, Passing, Layer, ScopeInv
<1>2. Grow /\ mems' = [m \in Memory |-> mems'[m]] /\ TouchedStand
  BY <1>1, SameGrows, TouchedKept
<1>3. PICK marks \in SUBSET (IF TheScope = Extraction THEN {} ELSE Ids(run.sent)) :
        run' = [run EXCEPT !.at = "judging", !.left = MaxJudgments, !.marks = marks,
                   !.flags = marks, !.owner = IF TheScope = Extraction THEN Owners ELSE None]
  BY DEF Answered
<1>4. /\ run'.at = "judging" /\ run'.marks = marks /\ run'.flags = marks /\ run'.sent = run.sent
      /\ run'.sources = run.sources /\ run'.todo = run.todo /\ run'.hits = run.hits
      /\ run'.shunned = run.shunned /\ run'.excluded = run.excluded
      /\ run'.touched = run.touched /\ run'.born = run.born
  BY <1>1, <1>3 DEF RunShape
<1>5. RunShape' /\ Passing' /\ TheScope' = TheScope
  BY <1>1, <1>3, <1>4 DEF RunShape, Passing, Layer, TheScope
<1>6. Sending'
  BY <1>1, <1>2, <1>4, <1>5, SendingKept
<1>7. Sparing'
  <2>1. marks \subseteq Ids(run.sent) /\ (TheScope = Extraction => marks = {})
    BY <1>3
  <2>2. TheScope # Extraction => Ids(run.sent) \cap run.touched = {}
    BY <1>1 DEF Sparing
  <2>3. run.marks = {} /\ Ids(run.sent) \cap run.excluded = {}
    BY <1>1 DEF Sparing
  <2>4. /\ Ids(run'.shunned \ run'.hits) \subseteq run'.excluded
        /\ run'.excluded \subseteq Memory /\ run'.touched \subseteq Memory
        /\ run'.excluded \cap run'.touched = {}
    BY <1>1, <1>4 DEF Sparing
  <2>5. /\ \A m \in run'.excluded \cup run'.touched : mems'[m] # None
        /\ \A m \in run'.touched, i \in 1..Len(run'.todo) :
              i > 1 => mems'[m] = Gone \/ mems'[m].project # run'.todo[i]
    BY <1>2, <1>4 DEF TouchedStand
  <2>6. marks \cap run'.touched = {}
    BY <1>4, <2>1, <2>2
  <2>7. Ids(run'.sent) \cap run'.excluded \subseteq marks
    BY <1>4, <2>3
  <2> QED
    BY <1>4, <1>5, <2>1, <2>4, <2>5, <2>6, <2>7 DEF Sparing
<1> QED
  BY <1>1, <1>2, <1>4, <1>5, <1>6, <1>7, PassRight

-----------------------------------------------------------------------------
(* The judgments *)

\* A flagged memory joins what was left out; nothing touched it before.
LEMMA FlagRight == ASSUME ScopeInv, NEW m \in Memory, Flag(m) PROVE ScopeInv'
<1>1. /\ UNCHANGED <<mems, passes>> /\ run.at = "judging" /\ Passing /\ m \in run.flags
      /\ MemsOK /\ RunShape /\ Sending /\ Sparing
  BY DEF Flag, Passing, Layer, ScopeInv
<1>2. Grow /\ mems' = [k \in Memory |-> mems'[k]] /\ TouchedStand /\ SentStands
  BY <1>1, SameGrows, TouchedKept, SentKept
<1> DEFINE marked == {r \in run.sent : r[1] = m}
<1>3. run' = [run EXCEPT !.flags = @ \ {m}, !.finished = FALSE, !.excluded = @ \cup {m},
                 !.shunned = @ \cup marked]
  BY DEF Flag
<1>4. Ids(marked) \subseteq {m}
  BY DEF Ids
<1> HIDE DEF marked
<1>5. /\ run'.at = run.at /\ run'.marks = run.marks /\ run'.flags = run.flags \ {m}
      /\ run'.sent = run.sent /\ run'.sources = run.sources /\ run'.todo = run.todo
      /\ run'.hits = run.hits /\ run'.shunned = run.shunned \cup marked
      /\ run'.excluded = run.excluded \cup {m}
      /\ run'.touched = run.touched /\ run'.born = run.born
  BY <1>1, <1>3 DEF RunShape
<1>6. RunShape' /\ Passing' /\ TheScope' = TheScope
  BY <1>1, <1>3, <1>5 DEF RunShape, Passing, Layer, TheScope
<1>7. Sending'
  BY <1>1, <1>2, <1>5, <1>6, SendingKept
<1>8. Sparing'
  <2>1. m \in run.marks /\ m \notin run.touched /\ m \in Ids(run.sent)
    BY <1>1 DEF Sparing
  <2>2. mems[m] # None
    <3>1. PICK r \in run.sent : r[1] = m
      BY <2>1 DEF Ids
    <3>2. Known(r)
      BY <1>1, <3>1 DEF Sending
    <3> QED
      BY <3>1, <3>2, MarkersAssumption DEF Known, Exists
  <2>3. Ids(run'.shunned \ run'.hits) \subseteq run'.excluded
    BY <1>1, <1>4, <1>5 DEF Sparing, Ids
  <2>4. /\ run'.excluded \subseteq Memory /\ run'.touched \subseteq Memory
        /\ run'.excluded \cap run'.touched = {}
    BY <1>1, <1>5, <2>1 DEF Sparing
  <2>5. /\ \A k \in run'.excluded \cup run'.touched : mems'[k] # None
        /\ \A k \in run'.touched, i \in 1..Len(run'.todo) :
              i > 1 => mems'[k] = Gone \/ mems'[k].project # run'.todo[i]
    BY <1>1, <1>2, <1>5, <2>2 DEF TouchedStand
  <2>6. /\ run'.flags \subseteq run'.marks /\ run'.marks \subseteq Ids(run'.sent)
        /\ run'.marks \cap run'.touched = {}
        /\ TheScope' = Extraction => run'.marks = {}
        /\ Ids(run'.sent) \cap run'.excluded \subseteq run'.marks
    BY <1>1, <1>5, <1>6, <2>1 DEF Sparing
  <2> QED
    BY <1>1, <1>5, <1>6, <2>3, <2>4, <2>5, <2>6 DEF Sparing
<1> QED
  BY <1>1, <1>2, <1>5, <1>6, <1>7, <1>8, PassRight

LEMMA NotAppliedRight == ASSUME ScopeInv, NotApplied PROVE ScopeInv'
<1>1. /\ UNCHANGED <<mems, passes>> /\ run.at \in {"judging", "applying"} /\ Passing
      /\ MemsOK /\ RunShape /\ Sending /\ Sparing
  BY DEF NotApplied, Passing, Layer, ScopeInv
<1>2. Grow /\ mems' = [m \in Memory |-> mems'[m]]
  BY <1>1, SameGrows
<1>3. run' = [run EXCEPT !.at = "judging", !.left = @ - 1, !.finished = FALSE, !.change = None]
  BY DEF NotApplied
<1>4. /\ run'.at = "judging" /\ run'.marks = run.marks /\ run'.flags = run.flags
      /\ run'.sent = run.sent /\ run'.sources = run.sources /\ run'.todo = run.todo
      /\ run'.hits = run.hits /\ run'.shunned = run.shunned /\ run'.excluded = run.excluded
      /\ run'.touched = run.touched /\ run'.born = run.born
  BY <1>1, <1>3 DEF RunShape
<1>5. RunShape' /\ Passing'
  BY <1>1, <1>3, <1>4 DEF RunShape, Passing, Layer
<1>6. Sending'
  BY <1>1, <1>2, <1>4, <1>5, SendingKept
<1>7. Sparing'
  BY <1>1, <1>2, <1>4, <1>5, SparingSame
<1> QED
  BY <1>1, <1>2, <1>4, <1>5, <1>6, <1>7, PassRight

LEMMA EndPassRight == ASSUME ScopeInv, EndPass PROVE ScopeInv'
<1>1. UNCHANGED mems /\ run.at \in Layer /\ run' = Left
  BY DEF EndPass, Layer
<1>2. passes' = [s \in Scope |-> passes'[s]]
  BY DEF EndPass, ScopeInv
<1> QED
  BY <1>1, <1>2, LeftRight

\* What extraction asks for is built from what it sent.
LEMMA ExtractFits ==
    ASSUME ScopeInv, Passing, run.at # "read", NEW g \in News \cup Growths
    PROVE  Fits(g, run.sent, Old(g))
<1>1. run.sent \subseteq Ref /\ SourcesRight
  BY DEF ScopeInv, Sending
<1>2. Global \in Project /\ \A r \in Ref : r # None
  BY MarkersAssumption DEF Project
<1>3. CASE g \in News
  <2>1. PICK refs \in SUBSET run.sent : g = Group(Global, None, refs, {})
    BY <1>3 DEF News
  <2> QED
    BY <1>1, <1>2, <2>1 DEF Group, Fits, Changed, Old
<1>4. CASE g \in Growths
  <2>1. PICK r \in run.sent, refs \in SUBSET run.sent :
          g = Group(None, r, Recited(run.sources[r[1]].cites, refs), {})
    BY <1>4 DEF Growths
  <2>2. Recited(run.sources[r[1]].cites, refs) \subseteq run.sent \cup run.sources[r[1]].cites
    BY DEF Recited
  <2>3. /\ run.sources[r[1]].cites \subseteq Ref /\ r \in Ref /\ r # None
        /\ Exists(r[1]) => run.sources[r[1]].cites = mems[r[1]].cites[r[2]]
    BY <1>1, <1>2 DEF SourcesRight
  <2> QED
    BY <1>1, <2>1, <2>2, <2>3 DEF Group, Fits, Changed, Old
<1> QED
  BY <1>3, <1>4

LEMMA ExtractRight == ASSUME ScopeInv, Extract PROVE ScopeInv'
<1>1. /\ UNCHANGED <<mems, passes>> /\ run.at = "judging" /\ Passing /\ TheScope = Extraction
      /\ MemsOK /\ RunShape /\ Sending /\ Sparing
  BY DEF Extract, Passing, Layer, ScopeInv
<1>2. Grow /\ mems' = [m \in Memory |-> mems'[m]]
  BY <1>1, SameGrows
<1>3. PICK g \in News \cup Growths : run' = [run EXCEPT !.at = "applying", !.change = g]
  BY DEF Extract
<1>4. /\ run'.at = "applying" /\ run'.marks = run.marks /\ run'.flags = run.flags
      /\ run'.sent = run.sent /\ run'.sources = run.sources /\ run'.todo = run.todo
      /\ run'.hits = run.hits /\ run'.shunned = run.shunned /\ run'.excluded = run.excluded
      /\ run'.touched = run.touched /\ run'.born = run.born /\ run'.change = g
  BY <1>1, <1>3 DEF RunShape
<1>5. RunShape' /\ Passing'
  BY <1>1, <1>3, <1>4 DEF RunShape, Passing, Layer
<1>6. Fits(g, run.sent, Old(g))
  BY <1>1, ExtractFits
<1>7. Sending'
  BY <1>1, <1>2, <1>4, <1>5, <1>6, SendingKept
<1>8. Sparing'
  BY <1>1, <1>2, <1>4, <1>5, SparingSame
<1> QED
  BY <1>1, <1>2, <1>4, <1>5, <1>7, <1>8, PassRight

-----------------------------------------------------------------------------
(* What a run writes *)

\* A judgment is built from the versions it names.
LEMMA JudgmentFits ==
    ASSUME ScopeInv, run.at = "judging", TheScope # Extraction,
           NEW judgment \in Merges \cup Rewrites \cup Supersedes
    PROVE  \E old \in SUBSET Ref :
              /\ Fits(judgment.change, {r \in run.sent : r[1] \in judgment.names}, old)
              /\ judgment.change.into \in {None, TheScope}
<1>1. Passing /\ run.sent \subseteq Ref /\ SourcesRight
  BY DEF ScopeInv, Sending, Passing, Layer
<1>2. TheScope \in Project
  <2>1. run.todo \in Seq(Scope) /\ run.todo # <<>>
    BY <1>1 DEF ScopeInv, TodoOK, Passing, Layer
  <2> QED
    BY <2>1 DEF TheScope, Scope
<1>3. \A r \in Ref : r # None
  BY MarkersAssumption
<1>4. CASE judgment \in Merges
  <2>1. PICK refs \in SUBSET run.sent :
          judgment = [change |-> Group(TheScope, None, refs, refs), names |-> Ids(refs)]
    BY <1>4 DEF Merges
  <2>2. refs \subseteq {r \in run.sent : r[1] \in Ids(refs)}
    BY DEF Ids
  <2>3. Fits(Group(TheScope, None, refs, refs), {r \in run.sent : r[1] \in Ids(refs)}, {})
    BY <1>1, <1>2, <2>2 DEF Group, Fits, Changed
  <2>4. /\ judgment.change = Group(TheScope, None, refs, refs) /\ judgment.names = Ids(refs)
        /\ judgment.change.into = TheScope
    BY <2>1 DEF Group
  <2>5. Fits(judgment.change, {r \in run.sent : r[1] \in judgment.names}, {})
    BY <2>3, <2>4, Zenon
  <2> WITNESS {} \in SUBSET Ref
  <2> QED
    BY <2>4, <2>5
<1>5. CASE judgment \in Rewrites
  <2>1. PICK r \in run.sent, evidence \in SUBSET run.sent :
          judgment = [change |-> Group(None, r, Recited(run.sources[r[1]].cites, evidence), {}),
                      names |-> Ids(evidence \cup {r})]
    BY <1>5 DEF Rewrites
  <2> DEFINE named == {q \in run.sent : q[1] \in Ids(evidence \cup {r})}
             old == run.sources[r[1]].cites
  <2>2. evidence \subseteq named /\ r \in named
    BY DEF Ids
  <2>3. Recited(old, evidence) \subseteq named \cup old
    BY <2>2 DEF Recited
  <2>4. old \in SUBSET Ref /\ r \in Ref /\ (Exists(r[1]) => old = mems[r[1]].cites[r[2]])
    BY <1>1 DEF SourcesRight
  <2>5. named \in SUBSET Ref
    BY <1>1
  <2>6. /\ judgment.change = Group(None, r, Recited(old, evidence), {})
        /\ judgment.names = Ids(evidence \cup {r})
    BY <2>1
  <2> HIDE DEF old
  <2>7. Fits(judgment.change, named, old)
    <3> HIDE DEF named
    <3> QED
      BY <1>3, <2>2, <2>3, <2>4, <2>5, <2>6 DEF Group, Fits, Changed
  <2>8. judgment.change.into = None
    BY <2>6 DEF Group
  <2> QED
    BY <2>4, <2>6, <2>7, <2>8
<1>6. CASE judgment \in Supersedes
  <2>1. PICK pair \in run.sent \X run.sent :
          judgment = [change |-> Group(None, None, {}, {pair[1]}), names |-> Ids({pair[1], pair[2]})]
    BY <1>6 DEF Supersedes
  <2>2. pair[1] \in {r \in run.sent : r[1] \in Ids({pair[1], pair[2]})}
    BY DEF Ids
  <2>3. Fits(Group(None, None, {}, {pair[1]}), {r \in run.sent : r[1] \in Ids({pair[1], pair[2]})}, {})
    BY <1>1, <2>2 DEF Group, Fits, Changed
  <2>4. /\ judgment.change = Group(None, None, {}, {pair[1]})
        /\ judgment.names = Ids({pair[1], pair[2]}) /\ judgment.change.into = None
    BY <2>1 DEF Group
  <2>5. Fits(judgment.change, {r \in run.sent : r[1] \in judgment.names}, {})
    BY <2>3, <2>4, Zenon
  <2> WITNESS {} \in SUBSET Ref
  <2> QED
    BY <2>4, <2>5
<1> QED
  BY <1>4, <1>5, <1>6

\* A group of operations that was applied within a pass.
LEMMA AppliedRight ==
    ASSUME ScopeInv, Passing, run.at \notin {"read", "asked"},
           NEW named \in SUBSET run.sent, NEW old \in SUBSET Ref, NEW g, NEW new,
           Fits(g, named, old), Ids(named) \cap run.marks = {},
           TheScope # Extraction => g.into \in {None, TheScope},
           new \in Fresh(g), Applies(g), mems' = Written(g, new), UNCHANGED passes,
           RunShape', run'.at = "judging",
           run'.sent = run.sent, run'.sources = run.sources, run'.todo = run.todo,
           run'.marks = run.marks, run'.flags = run.flags, run'.hits = run.hits,
           run'.shunned = run.shunned, run'.excluded = run.excluded,
           run'.touched = run.touched \cup Touched(g, new), run'.born = run.born \cup Born(mems')
    PROVE  ScopeInv' /\ ActedOn(run.sent)
<1>1. MemsOK /\ Sending /\ Sparing /\ run.sent \subseteq Ref
  BY DEF ScopeInv, Sending
<1>2. /\ Grow /\ mems' = [m \in Memory |-> mems'[m]]
      /\ Changed(g) \cup NewlyCited(g) \subseteq named
      /\ ActedOn(named)
      /\ g.into = None => new = None
      /\ g.into # None => /\ new \in Memory /\ mems[new] = None
                          /\ mems'[new] \in Row /\ mems'[new].project = g.into
  <2>1. named \in SUBSET Ref
    BY <1>1
  <2>2. Writes(g, new, named)
    BY <1>1, <2>1, WrittenGrows
  <2> QED
    BY <2>2 DEF Writes
<1>3. ActedOn(run.sent)
  BY <1>2 DEF ActedOn
<1>4. Passing'
  BY DEF Passing, Layer
<1>5. Sending'
  BY <1>2, <1>4, SendingKept
<1>6. SentStands
  BY <1>2, SentKept
<1> DEFINE T == Touched(g, new)
<1>7. ASSUME NEW m \in T
      PROVE  m \in Ids(named) \/ (g.into # None /\ m = new)
  BY <1>2, <1>7 DEF Touched, Ids
<1>8. \A m \in Ids(named) : /\ m \in Memory /\ mems[m] # None /\ mems'[m] # None
                            /\ m \in Ids(run.sent)
                            /\ TheScope # Extraction => mems'[m] = Gone \/ mems'[m].project = TheScope
  <2> SUFFICES ASSUME NEW r \in named
               PROVE  /\ r[1] \in Memory /\ mems[r[1]] # None /\ mems'[r[1]] # None
                      /\ r[1] \in Ids(run.sent)
                      /\ TheScope # Extraction =>
                            mems'[r[1]] = Gone \/ mems'[r[1]].project = TheScope
    BY DEF Ids
  <2>1. r \in run.sent /\ r \in Ref /\ r[1] \in Memory /\ r[1] \in Ids(run.sent)
    BY <1>1 DEF Ref, Ids
  <2>2. Known(r) /\ Known(r)'
    BY <1>1, <1>6, <2>1 DEF Sending, SentStands
  <2>3. mems[r[1]] # None /\ mems'[r[1]] # None
    BY <2>2, MarkersAssumption DEF Known, Exists
  <2> QED
    BY <1>6, <2>1, <2>3 DEF SentStands
<1>9. \A m \in Ids(run.sent) : mems[m] # None
  <2> SUFFICES ASSUME NEW r \in run.sent PROVE mems[r[1]] # None
    BY DEF Ids
  <2> QED
    BY <1>1, MarkersAssumption DEF Sending, Known, Exists
<1>10. T \in SUBSET Memory
  BY <1>2, <1>7, <1>8
<1>11. T \cap (run.excluded \cup run.marks) = {}
  <2> SUFFICES ASSUME NEW m \in T, m \in run.excluded \cup run.marks PROVE FALSE
    OBVIOUS
  <2>1. CASE m \in Ids(named)
    BY <1>1, <1>8, <2>1 DEF Sparing
  <2>2. CASE g.into # None /\ m = new
    BY <1>1, <1>2, <1>9, <2>2 DEF Sparing
  <2> QED
    BY <1>7, <2>1, <2>2
<1>12. \A m \in T : /\ mems'[m] # None
                    /\ TheScope # Extraction => mems'[m] = Gone \/ mems'[m].project = TheScope
  BY <1>2, <1>7, <1>8, MarkersAssumption
<1>13. Sparing'
  <2>1. run'.touched = run.touched \cup T
    OBVIOUS
  <2> HIDE DEF T
  <2> QED
    BY <1>2, <1>4, <1>10, <1>11, <1>12, <2>1, SparingKept
<1> QED
  BY <1>2, <1>3, <1>4, <1>5, <1>13, PassRight

LEMMA ConsolidateRight == ASSUME ScopeInv, Consolidate PROVE ScopeInv' /\ ActedOn(run.sent)
<1>1. /\ UNCHANGED passes /\ run.at = "judging" /\ Passing /\ TheScope # Extraction
      /\ RunShape /\ Sparing /\ Sending
  BY DEF Consolidate, Passing, Layer, ScopeInv
<1>2. PICK judgment \in Merges \cup Rewrites \cup Supersedes, new \in Memory \cup {None} :
        /\ Spared(judgment.names)
        /\ Apply(judgment.change, new)
        /\ run' = [run EXCEPT !.left = @ - 1, !.groups = @ + 1,
                      !.touched = @ \cup Touched(judgment.change, new), !.born = @ \cup Born(mems')]
  BY DEF Consolidate
<1> DEFINE named == {r \in run.sent : r[1] \in judgment.names}
<1>3. PICK old \in SUBSET Ref : /\ Fits(judgment.change, named, old)
                                /\ judgment.change.into \in {None, TheScope}
  BY <1>1, JudgmentFits
<1>4. named \in SUBSET run.sent /\ Ids(named) \cap run.marks = {}
  BY <1>2 DEF Spared, Ids
<1> HIDE DEF named
<1>5. /\ run'.at = "judging" /\ run'.sent = run.sent /\ run'.sources = run.sources
      /\ run'.todo = run.todo /\ run'.marks = run.marks /\ run'.flags = run.flags
      /\ run'.hits = run.hits /\ run'.shunned = run.shunned /\ run'.excluded = run.excluded
      /\ run'.touched = run.touched \cup Touched(judgment.change, new)
      /\ run'.born = run.born \cup Born(mems')
  BY <1>1, <1>2 DEF RunShape
<1>6. RunShape'
  BY <1>1, <1>2 DEF RunShape
<1>7. /\ new \in Fresh(judgment.change) /\ Applies(judgment.change)
      /\ mems' = Written(judgment.change, new)
  BY <1>2 DEF Apply
<1> QED
  BY <1>1, <1>3, <1>4, <1>5, <1>6, <1>7, AppliedRight

LEMMA ApplyExtractedRight == ASSUME ScopeInv, ApplyExtracted PROVE ScopeInv' /\ ActedOn(run.sent)
<1>1. /\ UNCHANGED passes /\ run.at = "applying" /\ Passing
      /\ RunShape /\ Sparing /\ Sending
  BY DEF ApplyExtracted, Passing, Layer, ScopeInv
<1> DEFINE g == run.change
<1>2. PICK new \in Memory \cup {None} :
        /\ Apply(g, new)
        /\ run' = [run EXCEPT !.at = "judging", !.left = @ - 1, !.groups = @ + 1, !.change = None,
                      !.touched = @ \cup Touched(g, new), !.born = @ \cup Born(mems')]
  BY DEF ApplyExtracted
<1>3. TheScope = Extraction /\ run.marks = {} /\ Fits(g, run.sent, Old(g))
  BY <1>1 DEF Sparing, Sending
<1>4. Old(g) \in SUBSET Ref
  <2>1. CASE g.target = None
    BY <2>1 DEF Old
  <2>2. CASE g.target # None
    <3>1. g.target \in run.sent
      BY <1>3, <2>2 DEF Fits, Changed
    <3> QED
      BY <1>1, <2>2, <3>1 DEF Old, Sending, SourcesRight
  <2> QED
    BY <2>1, <2>2
<1> HIDE DEF g
<1>5. /\ run'.at = "judging" /\ run'.sent = run.sent /\ run'.sources = run.sources
      /\ run'.todo = run.todo /\ run'.marks = run.marks /\ run'.flags = run.flags
      /\ run'.hits = run.hits /\ run'.shunned = run.shunned /\ run'.excluded = run.excluded
      /\ run'.touched = run.touched \cup Touched(g, new)
      /\ run'.born = run.born \cup Born(mems')
  BY <1>1, <1>2 DEF RunShape
<1>6. RunShape'
  BY <1>1, <1>2 DEF RunShape
<1>7. new \in Fresh(g) /\ Applies(g) /\ mems' = Written(g, new)
  BY <1>2 DEF Apply
<1>8. Ids(run.sent) \cap run.marks = {} /\ run.sent \in SUBSET run.sent
  BY <1>3
<1> QED
  BY <1>1, <1>3, <1>4, <1>5, <1>6, <1>7, <1>8, AppliedRight
-----------------------------------------------------------------------------
(* The recheck *)

Rechecking == run.at \in {"list", "recheck", "kept", "rechecking"}

\* Nothing is left to do but the entries: what they touch is none of what was left out.
LEMMA RecheckStep ==
    ASSUME ScopeInv, Rechecking, Grow, mems' = [m \in Memory |-> mems'[m]], UNCHANGED passes,
           RunShape', run'.at \in {"recheck", "kept", "rechecking"}, run'.todo = run.todo,
           run'.excluded = run.excluded, run'.hits = run.hits, run'.shunned = run.shunned,
           run'.born = run.born,
           NEW T \in SUBSET Memory, T \cap run.excluded = {}, \A m \in T : mems'[m] # None,
           run'.touched = run.touched \cup T, SeenRight', EntryRight'
    PROVE  ScopeInv'
<1>1. MemsOK /\ TodoOK /\ Sending /\ Sparing /\ ~Passing /\ TouchedStand
  BY TouchedKept DEF ScopeInv, Passing, Layer, Rechecking
<1>2. MemsOK' /\ passes' = [s \in Scope |-> passes'[s]]
  BY <1>1, GrowKeeps DEF ScopeInv
<1>3. run.todo = <<>> /\ ~Passing'
  BY <1>1 DEF TodoOK, Rechecking, Layer, Passing
<1>4. TodoOK' /\ Sending'
  BY <1>1, <1>3 DEF TodoOK, Sending, Layer, Passing
<1>5. Sparing'
  <2>1. /\ Ids(run'.shunned \ run'.hits) \subseteq run'.excluded
        /\ run'.excluded \subseteq Memory /\ run'.touched \subseteq Memory
        /\ run'.excluded \cap run'.touched = {}
    BY <1>1 DEF Sparing
  <2>2. \A m \in run'.excluded \cup run'.touched : mems'[m] # None
    BY <1>1 DEF TouchedStand
  <2>3. \A i \in 1..Len(run'.todo) : FALSE
    BY <1>3
  <2> QED
    BY <1>3, <2>1, <2>2, <2>3 DEF Sparing
<1> QED
  BY <1>2, <1>4, <1>5 DEF ScopeInv

\* The same, when no memory changes.
LEMMA RecheckSame ==
    ASSUME ScopeInv, Rechecking, UNCHANGED <<mems, passes>>,
           RunShape', run'.at \in {"recheck", "kept", "rechecking"}, run'.todo = run.todo,
           run'.excluded = run.excluded, run'.hits = run.hits, run'.shunned = run.shunned,
           run'.born = run.born, run'.touched = run.touched, SeenRight', EntryRight'
    PROVE  ScopeInv'
<1>1. Grow /\ mems' = [m \in Memory |-> mems'[m]]
  BY SameGrows DEF ScopeInv
<1>2. PICK T \in SUBSET Memory : T = {}
  OBVIOUS
<1>3. /\ T \cap run.excluded = {} /\ run'.touched = run.touched \cup T
      /\ \A m \in T : mems'[m] # None
  BY <1>2
<1> QED
  BY <1>1, <1>3, RecheckStep

\* Everything is listed as it is now.
LEMMA ListEntriesRight == ASSUME ScopeInv, ListEntries PROVE ScopeInv'
<1>1. UNCHANGED <<mems, passes>> /\ run.at = "list" /\ MemsOK /\ RunShape /\ Rechecking
  BY DEF ListEntries, ScopeInv, Rechecking
<1> DEFINE entries == {m \in Memory : Live(m) /\ mems[m].project = Global /\ m \notin run.excluded}
<1>2. run' = [run EXCEPT !.at = "recheck", !.seen = mems, !.skipped = {}, !.entries = entries]
  BY DEF ListEntries
<1>3. \A m \in entries : m \in Memory /\ Exists(m) /\ m \notin run.excluded
  BY DEF Live
<1> HIDE DEF entries
<1>4. /\ run'.at = "recheck" /\ run'.todo = run.todo /\ run'.excluded = run.excluded
      /\ run'.hits = run.hits /\ run'.shunned = run.shunned /\ run'.born = run.born
      /\ run'.touched = run.touched /\ run'.seen = mems /\ run'.entries = entries
  BY <1>1, <1>2 DEF RunShape
<1>5. RunShape'
  BY <1>1, <1>2 DEF RunShape
<1>6. SeenRight'
  <2>1. ASSUME NEW m \in Memory, Seen(m)'
        PROVE  SeenAt(m)' \in Ref /\ Known(SeenAt(m))'
    <3>1. Exists(m) /\ SeenAt(m)' = Current(m)
      BY <1>4, <2>1 DEF Seen, SeenAt, Exists, Current
    <3>2. Current(m) \in Ref /\ Len(mems[m].cites) \in 1..Len(mems[m].cites)
      BY <1>1, <3>1, RowsExist, StoresAssumption
    <3>3. Known(Current(m))
      BY <3>1, <3>2 DEF Known, Current
    <3>4. Known(SeenAt(m)) ' <=> Known(Current(m))
      BY <1>1, <3>1 DEF Known, Exists
    <3> QED
      BY <3>1, <3>2, <3>3, <3>4
  <2>2. \A m \in run'.entries : m \in Memory \ run'.excluded /\ Seen(m)'
    BY <1>3, <1>4 DEF Seen, Exists
  <2>3. run'.seen \in [Memory -> Row \cup {None, Gone}]
    BY <1>1, <1>4 DEF MemsOK
  <2> QED
    BY <2>1, <2>2, <2>3 DEF SeenRight
<1>7. EntryRight'
  BY <1>4 DEF EntryRight
<1> QED
  BY <1>1, <1>4, <1>5, <1>6, <1>7, RecheckSame

\* What an entry is sent with are versions listed, and what may stand in for a source was not left out.
LEMMA EntryFits ==
    ASSUME ScopeInv, run.at = "recheck", NEW e \in run.entries, Exists(e),
           \A r \in SourcesOf(e) : Seen(r[1]) /\ Exists(r[1]),
           \A r \in Moved(e) : ~HeldBack(r)
    PROVE  /\ e \in Memory \ run.excluded /\ Seen(e)
           /\ SourcesOf(e) \subseteq Ref /\ Pairs(e) \subseteq Ref /\ SeenAt(e) \in Pairs(e)
           /\ \A p \in Allowed(e) : p[2] \in Pairs(e) /\ p[2][1] \notin run.excluded
<1>1. MemsOK /\ SeenRight
  BY DEF ScopeInv
<1>2. e \in Memory \ run.excluded /\ Seen(e)
  BY <1>1 DEF SeenRight
<1>3. \A m \in Memory : Seen(m) => SeenAt(m) \in Ref /\ SeenAt(m)[1] = m
  BY <1>1 DEF SeenRight, SeenAt
<1>4. SourcesOf(e) \subseteq Ref
  <2>1. Known(SeenAt(e)) /\ SeenAt(e)[1] = e
    BY <1>1, <1>2 DEF SeenRight, SeenAt
  <2>2. SeenAt(e)[2] \in 1..Len(mems[e].cites)
    BY <2>1 DEF Known, Exists
  <2>3. mems[e].cites \in Seq(SUBSET Ref)
    BY <1>1, <1>2, RowsExist
  <2> QED
    BY <2>2, <2>3 DEF SourcesOf
<1>5. Moved(e) \subseteq SourcesOf(e)
  BY DEF Moved
<1>6. \A r \in Moved(e) : r \in Ref /\ r[1] \in Memory /\ Seen(r[1]) /\ SeenAt(r[1]) \in Ref
  BY <1>3, <1>4, <1>5 DEF Ref
<1>7. ASSUME NEW p \in Allowed(e)
      PROVE  p[2] \in Ref /\ p[2][1] \notin run.excluded
  <2>1. CASE \E r \in Moved(e) : ~Deleted(run.seen[r[1]]) /\ p = <<r[1], SeenAt(r[1])>>
    <3>1. PICK r \in Moved(e) : ~Deleted(run.seen[r[1]]) /\ p = <<r[1], SeenAt(r[1])>>
      BY <2>1
    <3>2. ~HeldBack(r)
      OBVIOUS
    <3>3. r[1] \notin run.excluded
      BY <3>1, <3>2 DEF HeldBack
    <3> QED
      BY <1>3, <1>6, <3>1, <3>3
  <2>2. CASE \E r \in Moved(e), m \in Memory \ run.excluded : Seen(m) /\ p = <<r[1], SeenAt(m)>>
    BY <1>3, <2>2
  <2>3. \/ \E r \in Moved(e) : ~Deleted(run.seen[r[1]]) /\ p = <<r[1], SeenAt(r[1])>>
        \/ \E r \in Moved(e), m \in Memory \ run.excluded : Seen(m) /\ p = <<r[1], SeenAt(m)>>
    BY <1>7 DEF Allowed, Successors
  <2> QED
    BY <2>1, <2>2, <2>3
<1>8. /\ Pairs(e) \subseteq Ref /\ SeenAt(e) \in Pairs(e)
      /\ \A p \in Allowed(e) : p[2] \in Pairs(e)
  <2>1. {SeenAt(r[1]) : r \in Moved(e)} \subseteq Ref /\ {p[2] : p \in Allowed(e)} \subseteq Ref
    BY <1>6, <1>7
  <2>2. Moved(e) \subseteq Ref /\ SeenAt(e) \in Ref
    BY <1>2, <1>3, <1>6
  <2>3. \A p \in Allowed(e) : p[2] \in {q[2] : q \in Allowed(e)}
    OBVIOUS
  <2> QED
    BY <2>1, <2>2, <2>3 DEF Pairs
<1> QED
  BY <1>2, <1>4, <1>7, <1>8

LEMMA RecheckRight == ASSUME ScopeInv, NEW e \in Memory, Recheck(e) PROVE ScopeInv'
<1>1. /\ UNCHANGED <<mems, passes>> /\ run.at = "recheck" /\ e \in run.entries
      /\ MemsOK /\ RunShape /\ Rechecking
  BY DEF Recheck, ScopeInv, Rechecking
<1>2. Grow /\ mems' = [m \in Memory |-> mems'[m]]
  BY <1>1, SameGrows
<1>3. CASE run' = [run EXCEPT !.entries = @ \ {e}]
  <2>1. /\ run'.at = "recheck" /\ run'.todo = run.todo /\ run'.excluded = run.excluded
        /\ run'.hits = run.hits /\ run'.shunned = run.shunned /\ run'.born = run.born
        /\ run'.touched = run.touched /\ run'.seen = run.seen /\ run'.entries \subseteq run.entries
        /\ RunShape'
    BY <1>1, <1>3 DEF RunShape
  <2>2. SeenRight' /\ EntryRight'
    BY <1>1, <1>2, <2>1, SeenKept DEF EntryRight
  <2> QED
    BY <1>1, <2>1, <2>2, RecheckSame
<1>4. CASE /\ Exists(e)
           /\ \A r \in SourcesOf(e) : Seen(r[1]) /\ Exists(r[1])
           /\ \A r \in Moved(e) : ~HeldBack(r)
           /\ \E at \in {"kept", "rechecking"} :
                 run' = [[run EXCEPT !.entries = @ \ {e}] EXCEPT !.at = at, !.entry = e,
                            !.sent = Pairs(e), !.sources = SourcesOf(e), !.standing = Standing(e)]
  <2>1. PICK at \in {"kept", "rechecking"} :
          run' = [[run EXCEPT !.entries = @ \ {e}] EXCEPT !.at = at, !.entry = e,
                     !.sent = Pairs(e), !.sources = SourcesOf(e), !.standing = Standing(e)]
    BY <1>4
  <2>2. /\ run'.at = at /\ run'.todo = run.todo /\ run'.excluded = run.excluded
        /\ run'.hits = run.hits /\ run'.shunned = run.shunned /\ run'.born = run.born
        /\ run'.touched = run.touched /\ run'.seen = run.seen /\ run'.entries \subseteq run.entries
        /\ run'.entry = e /\ run'.sent = Pairs(e) /\ run'.sources = SourcesOf(e)
        /\ run'.standing = Standing(e) /\ RunShape'
    BY <1>1, <2>1 DEF RunShape
  <2>3. SeenRight'
    BY <1>1, <1>2, <2>2, SeenKept
  <2>4. /\ e \in Memory \ run.excluded /\ Seen(e)
        /\ SourcesOf(e) \subseteq Ref /\ Pairs(e) \subseteq Ref /\ SeenAt(e) \in Pairs(e)
        /\ \A p \in Allowed(e) : p[2] \in Pairs(e) /\ p[2][1] \notin run.excluded
    BY <1>1, <1>4, EntryFits
  <2>5. Seen(run.entry)' /\ SeenAt(run.entry)' = SeenAt(e)
    BY <2>2, <2>4 DEF Seen, SeenAt
  <2>6. run'.sources = mems'[run'.entry].cites[SeenAt(run.entry)'[2]]
    BY <1>1, <2>2, <2>5 DEF SourcesOf
  <2>7. run'.standing.allowed = Allowed(e)
    BY <2>2 DEF Standing
  <2>8. EntryRight'
    BY <2>2, <2>4, <2>5, <2>6, <2>7 DEF EntryRight
  <2> QED
    BY <1>1, <2>2, <2>3, <2>8, RecheckSame
<1> QED
  BY <1>3, <1>4 DEF Recheck

\* The entry under way is done with.
LEMMA RecheckedRight ==
    ASSUME ScopeInv, UNCHANGED <<mems, passes>>, run.at \in {"kept", "rechecking"},
           run' = Rechecked(run)
    PROVE  ScopeInv'
<1>1. MemsOK /\ RunShape /\ Rechecking
  BY DEF ScopeInv, Rechecking
<1>2. /\ run'.at = "recheck" /\ run'.todo = run.todo /\ run'.excluded = run.excluded
      /\ run'.hits = run.hits /\ run'.shunned = run.shunned /\ run'.born = run.born
      /\ run'.touched = run.touched /\ run'.seen = run.seen /\ run'.entries = run.entries
      /\ RunShape'
  BY <1>1 DEF RunShape, Rechecked
<1>3. SeenRight' /\ EntryRight'
  BY <1>1, <1>2, SameGrows, SeenKept DEF EntryRight
<1> QED
  BY <1>1, <1>2, <1>3, RecheckSame

\* A reword cites what was sent for its sources, and nothing left out.
LEMMA RewordRight == ASSUME ScopeInv, Reword PROVE ScopeInv' /\ ActedOn(run.sent)
<1>1. /\ UNCHANGED passes /\ run.at = "rechecking"
      /\ MemsOK /\ RunShape /\ Rechecking /\ SeenRight /\ EntryRight
  BY DEF Reword, ScopeInv, Rechecking
<1> DEFINE fit == {q \in run.sent : q[1] \notin run.excluded}
           group(by) == Group(None, SeenAt(run.entry),
                              Recited({r \in run.sources : r[1] \notin {p[1] : p \in by}},
                                      {p[2] : p \in by}), {})
<1>2. PICK by \in SUBSET run.standing.allowed, new \in {None} :
        /\ Apply(group(by), new)
        /\ run' = [Rechecked(run) EXCEPT !.groups = @ + 1, !.touched = @ \cup Touched(group(by), new)]
  BY DEF Reword
<1> DEFINE g == group(by)
           T == Touched(g, new)
<1>3. /\ run.entry \in Memory \ run.excluded /\ SeenAt(run.entry) \in run.sent
      /\ run.sent \subseteq Ref /\ run.sources \subseteq Ref
      /\ Exists(run.entry) => run.sources = mems[run.entry].cites[SeenAt(run.entry)[2]]
      /\ \A p \in run.standing.allowed : p[2] \in run.sent /\ p[2][1] \notin run.excluded
  BY <1>1 DEF EntryRight
<1>4. SeenAt(run.entry) \in fit /\ SeenAt(run.entry)[1] = run.entry /\ fit \in SUBSET Ref
  BY <1>3 DEF SeenAt
<1>5. {p[2] : p \in by} \subseteq fit
  BY <1>3
<1>6. Fits(g, fit, run.sources)
  <2> DEFINE cites == Recited({r \in run.sources : r[1] \notin {p[1] : p \in by}}, {p[2] : p \in by})
  <2>1. cites \subseteq fit \cup run.sources
    BY <1>5 DEF Recited
  <2>2. g = Group(None, SeenAt(run.entry), cites, {})
    OBVIOUS
  <2> HIDE DEF cites, g, fit
  <2>3. \A r \in Ref : r # None
    BY MarkersAssumption
  <2> QED
    BY <1>3, <1>4, <2>1, <2>2, <2>3 DEF Group, Fits, Changed
<1>7. g.into = None
  BY DEF Group
<1>8. new \in Fresh(g) /\ Applies(g) /\ mems' = Written(g, new)
  BY <1>2 DEF Apply
<1> HIDE DEF fit, g
<1>9. Writes(g, new, fit)
  BY <1>1, <1>3, <1>4, <1>6, <1>8, WrittenGrows
<1>10. /\ Grow /\ mems' = [m \in Memory |-> mems'[m]] /\ ActedOn(fit)
       /\ Changed(g) \cup NewlyCited(g) \subseteq fit /\ new = None
  BY <1>7, <1>9 DEF Writes
<1>11. ActedOn(run.sent)
  BY <1>10 DEF ActedOn, fit
<1>12. T \in SUBSET Memory /\ T \cap run.excluded = {} /\ \A m \in T : mems'[m] # None
  <2> SUFFICES ASSUME NEW m \in T PROVE m \in Memory /\ m \notin run.excluded /\ mems'[m] # None
    OBVIOUS
  <2>1. PICK r \in Changed(g) \cup NewlyCited(g) : m = r[1]
    BY <1>10 DEF Touched, Ids
  <2>2. r \in fit /\ r \in Ref /\ m \in Memory /\ m \notin run.excluded
    BY <1>3, <1>10, <2>1 DEF fit, Ref
  <2>3. mems[m] # None
    BY <1>8, <2>1 DEF Applies, Live, Exists
  <2> QED
    BY <1>1, <1>10, <2>2, <2>3, GrowKeeps
<1> HIDE DEF T
<1>13. run' = [Rechecked(run) EXCEPT !.groups = @ + 1, !.touched = @ \cup T]
  BY <1>2 DEF g, T
<1>14. /\ run'.at = "recheck" /\ run'.todo = run.todo /\ run'.excluded = run.excluded
       /\ run'.hits = run.hits /\ run'.shunned = run.shunned /\ run'.born = run.born
       /\ run'.touched = run.touched \cup T /\ run'.seen = run.seen /\ run'.entries = run.entries
       /\ RunShape'
  BY <1>1, <1>13 DEF RunShape, Rechecked
<1>15. SeenRight' /\ EntryRight'
  BY <1>1, <1>10, <1>14, SeenKept DEF EntryRight
<1> QED
  BY <1>1, <1>10, <1>11, <1>12, <1>14, <1>15, RecheckStep
-----------------------------------------------------------------------------
(* The invariant *)

LEMMA InitRight == ASSUME Init PROVE ScopeInv
<1>1. /\ run = NoRun /\ mems \in Stores /\ passes = [s \in Scope |-> None]
  BY DEF Init
<1>2. MemsOK
  <2>1. /\ mems \in [Memory -> Row \cup {None, Gone}]
        /\ \A m \in Memory : mems[m] \in Row => Len(mems[m].cites) \in 1..MaxVersion
    BY <1>1, StoresAssumption
  <2> QED
    BY <2>1 DEF MemsOK, Exists
<1>3. /\ run.at = "idle" /\ run.todo = <<>> /\ run.born = {} /\ run.touched = {}
      /\ run.excluded = {} /\ run.shunned = {}
  BY <1>1 DEF NoRun
<1>4. RunShape
  BY <1>1 DEF RunShape, NoRun
<1>5. TodoOK /\ Sending /\ SeenRight /\ EntryRight
  BY <1>3 DEF TodoOK, Sending, SeenRight, EntryRight, Passing, Layer
<1>6. Sparing
  BY <1>3 DEF Sparing, Passing, Layer, Ids
<1>7. passes = [s \in Scope |-> passes[s]]
  BY <1>1
<1> QED
  BY <1>2, <1>4, <1>5, <1>6, <1>7 DEF ScopeInv

LEMMA StepRight == ASSUME ScopeInv, [Next]_scopeVars PROVE ScopeInv'
<1>1. CASE UNCHANGED scopeVars
  <2>1. UNCHANGED <<mems, passes, run>> /\ RunShape
    BY <1>1 DEF scopeVars, ScopeInv
  <2>2. Grow /\ mems' = [m \in Memory |-> mems'[m]]
    BY <2>1, SameGrows DEF ScopeInv
  <2>3. Born(mems') = {}
    BY <2>1 DEF Born
  <2>4. run' = [run EXCEPT !.born = @ \cup Born(mems')]
    BY <2>1, <2>3 DEF RunShape
  <2> QED
    BY <2>1, <2>2, <2>4, RunStands
<1>2. CASE StartRun \/ Scan \/ List \/ ReadSources \/ NoAnswer \/ Answered
  BY <1>2, StartRunRight, ScanRight, ListRight, ReadSourcesRight, NoAnswerRight, AnsweredRight
<1>3. CASE \E m \in Memory : Flag(m)
  BY <1>3, FlagRight
<1>4. CASE Consolidate \/ NotApplied \/ Extract \/ ApplyExtracted \/ EndPass
  BY <1>4, ConsolidateRight, NotAppliedRight, ExtractRight, ApplyExtractedRight, EndPassRight
<1>5. CASE ListEntries \/ (\E e \in Memory : Recheck(e))
  BY <1>5, ListEntriesRight, RecheckRight
<1>6. CASE LeaveEntry \/ KeepEntry
  <2>1. /\ UNCHANGED <<mems, passes>> /\ run.at \in {"kept", "rechecking"} /\ run' = Rechecked(run)
    BY <1>6 DEF LeaveEntry, KeepEntry
  <2> QED
    BY <2>1, RecheckedRight
<1>7. CASE Reword
  BY <1>7, RewordRight
<1>8. CASE EndRun \/ Kill
  <2>1. UNCHANGED <<mems, passes>> /\ run' = NoRun
    BY <1>8 DEF EndRun, Kill
  <2>2. passes' = [s \in Scope |-> passes'[s]]
    BY <2>1 DEF ScopeInv
  <2> QED
    BY <2>1, <2>2, SameGrows, IdleRight DEF ScopeInv
<1>9. CASE EditStep
  BY <1>9, EditRight
<1>10. Next => \/ StartRun \/ Scan \/ List \/ ReadSources \/ NoAnswer \/ Answered
               \/ \E m \in Memory : Flag(m)
               \/ Consolidate \/ NotApplied \/ Extract \/ ApplyExtracted \/ EndPass
               \/ ListEntries \/ (\E e \in Memory : Recheck(e)) \/ LeaveEntry \/ KeepEntry
               \/ Reword \/ EndRun \/ Kill \/ EditStep
  BY DEF Next, EditStep
<1> QED
  BY <1>1, <1>2, <1>3, <1>4, <1>5, <1>6, <1>7, <1>8, <1>9, <1>10

\* Whatever the store, the model and the others do, a run stands as ScopeInv says: what it sent was
\* there when it was listed, what it may still change is of it, and of nothing it left out.
THEOREM ScopeInvariant == ScopeSpec => []ScopeInv
<1>1. Init => ScopeInv
  BY InitRight
<1>2. ScopeInv /\ [Next]_scopeVars => ScopeInv'
  BY StepRight
<1> QED
  BY <1>1, <1>2, PTL DEF ScopeSpec

\* A run never changes or newly cites what it left out or flagged (consolidate.py, _recheck in
\* extract.py), whichever scopes come later and in whatever order an answer gives its judgments.
THEOREM NeverBuiltOnFlaggedHolds == ScopeSpec => []NeverBuiltOnFlagged
<1>1. ScopeInv => NeverBuiltOnFlagged
  BY DEF ScopeInv, Sparing, NeverBuiltOnFlagged
<1> QED
  BY <1>1, ScopeInvariant, PTL

\* The digest a finished pass stores never covers a version written while the pass was under way,
\* by others or by its own changes.
THEOREM WrittenMeanwhileIsNextHolds == ScopeSpec => WrittenMeanwhileIsNext
<1> DEFINE Covered == \A s \in Scope : passes'[s] # passes[s] => passes'[s] \cap run.born = {}
<1>1. ASSUME ScopeInv, [Next]_scopeVars PROVE Covered
  <2>1. CASE UNCHANGED passes
    BY <2>1
  <2>2. CASE EndPass
    <3>1. run.sent \cap run.born = {} /\ passes = [s \in Scope |-> passes[s]]
      BY <1>1, <2>2 DEF EndPass, ScopeInv, Sending, Passing, Layer
    <3>2. passes' = passes \/ passes' = [passes EXCEPT ![TheScope] = run.sent]
      BY <2>2 DEF EndPass
    <3> QED
      BY <3>1, <3>2
  <2>3. Next => EndPass \/ UNCHANGED passes
    BY DEF Next, StartRun, Scan, List, ReadSources, NoAnswer, Answered, Flag, Consolidate, NotApplied,
        Extract, ApplyExtracted, ListEntries, Recheck, LeaveEntry, KeepEntry, Reword, EndRun, Kill,
        Update, SoftDelete, Restore, Purge, Remember, Edit
  <2> QED
    BY <1>1, <2>1, <2>2, <2>3 DEF scopeVars
<1>2. ScopeInv /\ [Next]_scopeVars => [Covered]_scopeVars
  BY <1>1
<1> QED
  BY <1>2, ScopeInvariant, PTL DEF ScopeSpec, WrittenMeanwhileIsNext

\* A run changes a memory only from the version it sent, and newly cites only versions it sent,
\* whatever others wrote since (apply_group's expected versions).
THEOREM ActsOnWhatItSentHolds == ScopeSpec => ActsOnWhatItSent
<1> DEFINE Acts == run'.touched # run.touched =>
          \A m \in Memory : mems[m] # mems'[m] =>
             /\ Exists(m) => Current(m) \in run.sent
             /\ LET was == IF Exists(m) THEN Last(m) ELSE {}
                    is == mems'[m].cites[Len(mems'[m].cites)]
                IN is \ was \subseteq run.sent
<1>1. ASSUME ScopeInv, [Next]_scopeVars PROVE Acts
  <2>1. CASE UNCHANGED mems
    BY <2>1
  <2>2. CASE ActedOn(run.sent)
    BY <2>2 DEF ActedOn
  <2>3. CASE EditStep
    <3>1. Edit(mems') /\ RunShape
      BY <1>1, <2>3, EditGrows DEF ScopeInv
    <3>2. run'.touched = run.touched
      BY <3>1 DEF Edit, RunShape
    <3> QED
      BY <3>2
  <2>4. Consolidate \/ ApplyExtracted \/ Reword => ActedOn(run.sent)
    BY <1>1, ConsolidateRight, ApplyExtractedRight, RewordRight
  <2>5. Next => Consolidate \/ ApplyExtracted \/ Reword \/ EditStep \/ UNCHANGED mems
    BY DEF Next, StartRun, Scan, List, ReadSources, NoAnswer, Answered, Flag, NotApplied, Extract,
        EndPass, ListEntries, Recheck, LeaveEntry, KeepEntry, EndRun, Kill, EditStep
  <2> HIDE DEF Acts
  <2> QED
    BY <1>1, <2>1, <2>2, <2>3, <2>4, <2>5 DEF scopeVars
<1>2. ScopeInv /\ [Next]_scopeVars => [Acts]_scopeVars
  BY <1>1
<1> QED
  BY <1>2, ScopeInvariant, PTL DEF ScopeSpec, ActsOnWhatItSent
-----------------------------------------------------------------------------
(* What a keep was given on *)

\* A set of citations names a memory once, and not the one that cites.
Single(cites) == \A r, q \in cites : r[1] = q[1] => r = q
Sourced(m, cites) == Single(cites) /\ m \notin Ids(cites)

CitesRight ==
    \A m \in Memory : Exists(m) =>
        \A v \in 1..Len(mems[m].cites) : Sourced(m, mems[m].cites[v])

\* So are the sources a pass read, and the citations it asks for.
PassCites ==
    /\ run.at \in {"asked", "judging", "applying"} =>
          \A r \in run.sent : Sourced(r[1], run.sources[r[1]].cites)
    /\ run.at = "applying" =>
          /\ Single(run.change.cites)
          /\ run.change.target # None => run.change.target[1] \notin Ids(run.change.cites)

\* A version at which its memory is deleted, or is not, as it was seen to be.
Retired(r) == r[2] \in mems[r[1]].retired
AsSeen(r, deleted) == Known(r) /\ (Exists(r[1]) => (Retired(r) <=> deleted))

\* What the recheck listed: the versions it saw are there still, deleted or not as they were.
ListingRight ==
    run.at \in {"recheck", "kept", "rechecking"} =>
        \A m \in Memory : Seen(m) => AsSeen(SeenAt(m), Deleted(run.seen[m]))

\* How a source had moved.
MovedRight(e, S, x) ==
    /\ x \in [cited: Ref, now: Ref, deleted: BOOLEAN]
    /\ x.now[1] = x.cited[1] /\ x.cited[1] # e
    /\ x.deleted \/ x.now # x.cited
    /\ AsSeen(x.now, x.deleted)
    /\ Exists(e) => x.cited \in mems[e].cites[S.entry[2]]
    /\ ~x.deleted => <<x.cited[1], x.now>> \in S.allowed

\* What may stand in for a source.
Carries(r, m) == m \in Ids(mems[r[1]].cites[r[2]])
AllowedRight(e, S, p) ==
    /\ p[2] \in Ref /\ p[2][1] # e /\ AsSeen(p[2], FALSE)
    /\ \A x \in S.moved : x.cited[1] = p[2][1] => p[2] = x.now
    /\ \E x \in S.moved :
          /\ p = <<x.cited[1], p[2]>>
          /\ IF x.deleted THEN Exists(p[2][1]) => Carries(p[2], x.cited[1]) ELSE p[2] = x.now
    /\ Exists(p[2][1]) =>
          \A x \in S.moved : x.deleted /\ Carries(p[2], x.cited[1]) => <<x.cited[1], p[2]>> \in S.allowed

\* How the sources of an entry stood when it was looked at, as far as it still shows.
StandingOf(e, S) ==
    /\ S = [entry |-> S.entry, allowed |-> S.allowed, moved |-> S.moved]
    /\ S.entry \in Ref /\ S.entry[1] = e /\ Known(S.entry)
    /\ \A x \in S.moved : MovedRight(e, S, x)
    /\ \A x, y \in S.moved : x.cited[1] = y.cited[1] => x = y
    /\ Exists(e) => \A r \in mems[e].cites[S.entry[2]] :
          \/ \E x \in S.moved : x.cited = r
          \/ \A p \in S.allowed : p[2][1] = r[1] => p[2] = r
    /\ \A p \in S.allowed : AllowedRight(e, S, p)
    /\ \A p, q \in S.allowed : p[2][1] = q[2][1] => p[2] = q[2]

Digest(S) ==
    {S.entry} \cup {x.cited : x \in S.moved} \cup {x.now : x \in S.moved} \cup {p[2] : p \in S.allowed}

EntryStands ==
    run.at \in {"kept", "rechecking"} =>
        /\ \A e \in {run.entry}, S \in {run.standing} : StandingOf(e, S) /\ run.sent = Digest(S)
        /\ run.at = "kept" => run.sent = checks[run.entry]

ChecksRight ==
    \A e \in Memory : \A S \in {keptOn[e]} :
        checks[e] # None => StandingOf(e, S) /\ checks[e] = Digest(S)

KeptInv ==
    /\ CitesRight /\ PassCites /\ ListingRight /\ EntryStands /\ ChecksRight /\ KeptAsItStands
    /\ checks = [m \in Memory |-> checks[m]] /\ keptOn = [m \in Memory |-> keptOn[m]]

\* What a step does to the memories, whoever takes it.
Steady == Grow /\ mems' = [m \in Memory |-> mems'[m]]

\* A version that was there is what it was.
LEMMA VersionStands ==
    ASSUME MemsOK, Steady, NEW r \in Ref, Known(r)
    PROVE  /\ Known(r)'
           /\ Exists(r[1])' =>
                 /\ Exists(r[1]) /\ r[2] \in 1..Len(mems[r[1]].cites)
                 /\ mems'[r[1]].cites[r[2]] = mems[r[1]].cites[r[2]]
                 /\ Retired(r)' <=> Retired(r)
<1> PICK m \in Memory, n \in 1..MaxVersion : r = <<m, n>>
  BY DEF Ref
<1>1. Known(r)' /\ (Exists(m)' => Exists(m) /\ mems'[m].cites[n] = mems[m].cites[n])
  BY GrowKeeps DEF Steady
<1> SUFFICES ASSUME Exists(m)' PROVE n \in 1..Len(mems[m].cites) /\ (Retired(r)' <=> Retired(r))
  BY <1>1
<1>2. Exists(m) /\ mems[m] # None /\ n \in 1..Len(mems[m].cites)
  BY <1>1 DEF Known, Exists
<1>3. Stays(m)
  BY GrownStays DEF Steady, Grow
<1>4. n \in mems'[m].retired <=> n \in mems[m].retired
  BY <1>2, <1>3 DEF Stays
<1> QED
  BY <1>2, <1>4 DEF Retired

LEMMA SeenStands ==
    ASSUME MemsOK, Steady, NEW r \in Ref, NEW deleted \in BOOLEAN, AsSeen(r, deleted)
    PROVE  AsSeen(r, deleted)'
<1>1. Known(r) /\ (Exists(r[1]) => (Retired(r) <=> deleted))
  BY DEF AsSeen
<1>2. Known(r)' /\ (Exists(r[1])' => (Exists(r[1]) /\ (Retired(r)' <=> Retired(r))))
  BY <1>1, VersionStands
<1> QED
  BY <1>1, <1>2 DEF AsSeen

\* How the sources stood shows no less than it did.
LEMMA StandingStands ==
    ASSUME MemsOK, Steady, NEW e, NEW S, StandingOf(e, S)
    PROVE  StandingOf(e, S)'
<1>1. /\ S.entry \in Ref /\ S.entry[1] = e /\ Known(S.entry)
      /\ \A x \in S.moved : MovedRight(e, S, x)
      /\ \A x, y \in S.moved : x.cited[1] = y.cited[1] => x = y
      /\ Exists(e) => \A r \in mems[e].cites[S.entry[2]] :
            \/ \E x \in S.moved : x.cited = r
            \/ \A p \in S.allowed : p[2][1] = r[1] => p[2] = r
      /\ \A p \in S.allowed : AllowedRight(e, S, p)
      /\ \A p, q \in S.allowed : p[2][1] = q[2][1] => p[2] = q[2]
      /\ S = [entry |-> S.entry, allowed |-> S.allowed, moved |-> S.moved]
  BY DEF StandingOf
<1>2. /\ Known(S.entry)'
      /\ Exists(e)' => Exists(e) /\ mems'[e].cites[S.entry[2]] = mems[e].cites[S.entry[2]]
  BY <1>1, VersionStands
<1>3. ASSUME NEW x \in S.moved PROVE MovedRight(e, S, x)'
  <2>1. MovedRight(e, S, x)
    BY <1>1
  <2>2. x.now \in Ref /\ x.deleted \in BOOLEAN /\ AsSeen(x.now, x.deleted)
    BY <2>1 DEF MovedRight
  <2>3. AsSeen(x.now, x.deleted)'
    BY <2>2, SeenStands
  <2> QED
    BY <1>2, <2>1, <2>3 DEF MovedRight
<1>4. ASSUME NEW p \in S.allowed PROVE AllowedRight(e, S, p)'
  <2>1. AllowedRight(e, S, p)
    BY <1>1
  <2>2. p[2] \in Ref /\ AsSeen(p[2], FALSE) /\ Known(p[2])
    BY <2>1 DEF AllowedRight, AsSeen
  <2>3. AsSeen(p[2], FALSE)'
    BY <2>2, SeenStands
  <2>4. Exists(p[2][1])' =>
           Exists(p[2][1]) /\ \A m : Carries(p[2], m)' <=> Carries(p[2], m)
    BY <2>2, VersionStands DEF Carries
  <2>5. PICK x \in S.moved :
          /\ p = <<x.cited[1], p[2]>>
          /\ IF x.deleted THEN Exists(p[2][1]) => Carries(p[2], x.cited[1]) ELSE p[2] = x.now
    BY <2>1 DEF AllowedRight
  <2>6. IF x.deleted THEN Exists(p[2][1])' => Carries(p[2], x.cited[1])' ELSE p[2] = x.now
    BY <2>4, <2>5
  <2>7. ASSUME Exists(p[2][1])',
               NEW y \in S.moved, y.deleted, Carries(p[2], y.cited[1])'
        PROVE  <<y.cited[1], p[2]>> \in S.allowed
    <3>1. Exists(p[2][1]) /\ Carries(p[2], y.cited[1])
      BY <2>4, <2>7
    <3> QED
      BY <2>1, <2>7, <3>1 DEF AllowedRight
  <2>8. p[2][1] # e /\ \A y \in S.moved : y.cited[1] = p[2][1] => p[2] = y.now
    BY <2>1 DEF AllowedRight
  <2> QED
    BY <2>2, <2>3, <2>5, <2>6, <2>7, <2>8 DEF AllowedRight
<1> QED
  BY <1>1, <1>2, <1>3, <1>4 DEF StandingOf
-----------------------------------------------------------------------------
(* Every step is steady, and cites no memory twice and none its own *)

\* What a step adds to a memory is one set of citations.
Added(m) == mems'[m].cites[Len(mems'[m].cites)]
Adds(m) == mems'[m] # mems[m] /\ mems'[m] # Gone

LEMMA CitesKept ==
    ASSUME MemsOK, CitesRight, Grow, mems' = [m \in Memory |-> mems'[m]],
           \A m \in Memory : Adds(m) => Sourced(m, Added(m))
    PROVE  CitesRight'
<1> SUFFICES ASSUME NEW m \in Memory, Exists(m)', NEW v \in 1..Len(mems'[m].cites)
             PROVE  Sourced(m, mems'[m].cites[v])
  BY DEF CitesRight, Sourced, Single
<1>2. ASSUME Exists(m), v \in 1..Len(mems[m].cites), mems'[m].cites[v] = mems[m].cites[v]
      PROVE  Sourced(m, mems'[m].cites[v])
  BY <1>2 DEF CitesRight
<1>3. CASE mems'[m] = mems[m]
  BY <1>2, <1>3 DEF Exists
<1>4. CASE mems'[m] # mems[m]
  <2>1. Adds(m) /\ Grown(m, mems'[m])
    BY <1>4 DEF Adds, Exists, Grow
  <2>2. CASE v = Len(mems'[m].cites)
    BY <2>1, <2>2 DEF Added
  <2>3. CASE v # Len(mems'[m].cites)
    <3>1. Len(mems'[m].cites) # 1
      <4>1. ASSUME Len(mems'[m].cites) = 1 PROVE FALSE
        <5>1. v \in 1..1
          BY <4>1, Zenon
        <5>2. v = 1
          BY <5>1
        <5> QED
          BY <2>3, <4>1, <5>2
      <4> QED
        BY <4>1
    <3>2. /\ Exists(m) /\ Len(mems'[m].cites) = Len(mems[m].cites) + 1
          /\ \A i \in 1..Len(mems[m].cites) : mems'[m].cites[i] = mems[m].cites[i]
      BY <2>1, <3>1 DEF Grown, Adds
    <3>3. Len(mems[m].cites) \in 1..MaxVersion
      BY <3>2, RowsExist
    <3>4. v \in 1..Len(mems[m].cites)
      BY <2>3, <3>2, <3>3, StoresAssumption
    <3> QED
      BY <1>2, <3>2, <3>4
  <2> QED
    BY <2>2, <2>3
<1> QED
  BY <1>3, <1>4

LEMMA SameSteady ==
    ASSUME MemsOK, UNCHANGED mems
    PROVE  Steady /\ (CitesRight => CitesRight')
<1>1. Steady
  BY SameGrows DEF Steady
<1>2. CitesRight => CitesRight'
  BY CitesKept, SameGrows DEF Adds
<1> QED
  BY <1>1, <1>2

LEMMA LastSourced ==
    ASSUME MemsOK, CitesRight, NEW m \in Memory, Exists(m)
    PROVE  Sourced(m, Last(m))
<1>1. Len(mems[m].cites) \in 1..Len(mems[m].cites)
  BY RowsExist, StoresAssumption
<1> QED
  BY <1>1 DEF CitesRight, Last

\* What others write to a memory cites what one of its versions did, or nothing, and they take away
\* only by purging.
Repeats(m) == \E v \in 1..Len(mems[m].cites) : Added(m) = mems[m].cites[v]

LEMMA EditAdds ==
    ASSUME MemsOK, EditStep
    PROVE  /\ \A m \in Memory : Adds(m) => Added(m) = {} \/ (Exists(m) /\ Repeats(m))
           /\ (\E m \in Memory : Purge(m)) \/ (\A m \in Memory : Exists(m) => mems'[m] # Gone)
<1>2. mems = [m \in Memory |-> mems[m]]
  BY DEF MemsOK
<1>3. PICK m \in Memory : \/ Update(m) \/ SoftDelete(m) \/ Purge(m)
                          \/ \E p \in Ordinary : Remember(m, p)
                          \/ \E v \in 1..MaxVersion : Restore(m, v)
  BY DEF EditStep
<1> DEFINE Fine == /\ \A k \in Memory : Adds(k) => Added(k) = {} \/ (Exists(k) /\ Repeats(k))
                   /\ (\E k \in Memory : Purge(k)) \/ (\A k \in Memory : Exists(k) => mems'[k] # Gone)
<1>4. ASSUME Update(m) \/ SoftDelete(m) \/ \E v \in 1..MaxVersion : Restore(m, v) PROVE Fine
  <2>1. Exists(m) /\ Len(mems[m].cites) < MaxVersion
    BY <1>4, EditRevises
  <2>2. PICK v \in 1..Len(mems[m].cites) : \E row \in OneOn(m, v) : Edit([mems EXCEPT ![m] = row])
    BY <1>4, EditRevises
  <2>3. mems[m].cites[v] \in SUBSET Ref
    BY <2>1, RowsExist
  <2>12. PICK row \in OneOn(m, v) : Edit([mems EXCEPT ![m] = row])
    BY <2>2
  <2>4. row.cites = Append(mems[m].cites, mems[m].cites[v]) /\ row \in Row
    BY <2>1, <2>3, AppendGrown DEF OneOn
  <2>5. mems' = [mems EXCEPT ![m] = row]
    BY <2>12 DEF Edit
  <2>6. row.cites[Len(row.cites)] = mems[m].cites[v]
    BY <2>1, <2>3, <2>4, RowsExist
  <2>7. \A k \in Memory : mems'[k] = IF k = m THEN row ELSE mems[k]
    BY <1>2, <2>5
  <2>8. \A k \in Memory : Adds(k) => k = m
    BY <2>7 DEF Adds
  <2>9. Added(m) = mems[m].cites[v]
    BY <2>6, <2>7 DEF Added
  <2>10. Repeats(m)
    BY <2>9 DEF Repeats
  <2>11. \A k \in Memory : Exists(k) => mems'[k] # Gone
    BY <2>4, <2>7, MarkersAssumption DEF Exists
  <2> QED
    BY <2>1, <2>8, <2>10, <2>11
<1>5. ASSUME Purge(m) PROVE Fine
  <2>1. \A k \in Memory : mems'[k] \in {mems[k], Gone}
    BY <1>5 DEF Purge, Edit
  <2> QED
    BY <1>5, <2>1 DEF Adds
<1>6. ASSUME NEW p \in Ordinary, Remember(m, p) PROVE Fine
  <2>1. /\ mems[m] = None
        /\ mems' = [mems EXCEPT ![m] = [project |-> p, retired |-> {}, cites |-> <<{}>>]]
    BY <1>6 DEF Remember, Edit
  <2>2. \A k \in Memory : mems'[k] = IF k = m THEN [project |-> p, retired |-> {}, cites |-> <<{}>>]
                                     ELSE mems[k]
    BY <1>2, <2>1
  <2>3. mems'[m].cites = <<{}>> /\ Len(mems'[m].cites) = 1 /\ mems'[m].cites[1] = {}
    BY <2>2
  <2>4. \A k \in Memory : Adds(k) => k = m
    BY <2>2 DEF Adds
  <2>5. \A k \in Memory : Adds(k) => Added(k) = {}
    BY <2>3, <2>4 DEF Added
  <2> QED
    BY <2>1, <2>2, <2>5 DEF Exists
<1> HIDE DEF Fine
<1>7. Fine
  <2>1. CASE Update(m) \/ SoftDelete(m) \/ \E v \in 1..MaxVersion : Restore(m, v)
    BY <1>4, <2>1
  <2>2. CASE Purge(m)
    BY <1>5, <2>2
  <2>3. CASE \E p \in Ordinary : Remember(m, p)
    BY <1>6, <2>3
  <2> QED
    BY <1>3, <2>1, <2>2, <2>3, Zenon
<1> QED
  BY <1>7 DEF Fine

LEMMA EditSteady ==
    ASSUME MemsOK, CitesRight, EditStep
    PROVE  Steady /\ CitesRight'
<1>1. Grow /\ mems' = [m \in Memory |-> mems'[m]]
  BY EditGrows
<1>2. \A m \in Memory : Sourced(m, {})
  BY DEF Sourced, Single, Ids
<1>3. ASSUME NEW m \in Memory, Adds(m) PROVE Sourced(m, Added(m))
  <2>1. Added(m) = {} \/ (Exists(m) /\ Repeats(m))
    BY <1>3, EditAdds
  <2>2. ASSUME Exists(m), Repeats(m) PROVE Sourced(m, Added(m))
    BY <2>2 DEF Repeats, CitesRight
  <2> QED
    BY <1>2, <2>1, <2>2
<1> QED
  BY <1>1, <1>3, CitesKept DEF Steady

\* A group of operations whose citations are.
SourcedGroup(g) == Single(g.cites) /\ (g.target # None => g.target[1] \notin Ids(g.cites))

LEMMA RecitedSingle ==
    ASSUME NEW old, NEW new, Single(old), Single(new)
    PROVE  Single(Recited(old, new))
BY DEF Single, Recited, Ids

\* What a group cites anew is there.
There(r) == Exists(r[1]) /\ r[2] \in 1..Len(mems[r[1]].cites)

LEMMA NewlyCitedThere ==
    ASSUME MemsOK, NEW g, g.cites \in SUBSET Ref, Applies(g), NEW r \in NewlyCited(g)
    PROVE  There(r)
<1>1. r \in Ref /\ Exists(r[1]) /\ Current(r[1]) = r
  BY DEF NewlyCited, Applies, Live
<1>2. r[1] \in Memory /\ r[2] = Len(mems[r[1]].cites)
  BY <1>1 DEF Ref, Current
<1>3. Len(mems[r[1]].cites) \in 1..MaxVersion
  BY <1>1, <1>2, RowsExist
<1> QED
  BY <1>1, <1>2, <1>3, StoresAssumption DEF There

\* A group adds its citations to what it creates or rewrites; what it retires cites what it did.
LEMMA WrittenAdds ==
    ASSUME MemsOK, NEW sent \in SUBSET Ref, NEW old \in SUBSET Ref, NEW g,
           Fits(g, sent, old), NEW new, new \in Fresh(g), Applies(g), mems' = Written(g, new)
    PROVE  /\ \A m \in Memory : Exists(m) => mems'[m] # Gone
           /\ \A m \in Memory : Adds(m) =>
                 \/ Exists(m) /\ Added(m) = Last(m)
                 \/ /\ Added(m) = g.cites
                    /\ g.target = None => g.cites = NewlyCited(g) /\ m \notin Ids(g.cites)
                    /\ g.target # None => m = g.target[1]
<1>2. /\ g.into \in Project \cup {None} /\ g.target \in Ref \cup {None}
      /\ g.cites \in SUBSET Ref /\ g.retire \in SUBSET Ref
      /\ g.target = None \/ (g.retire = {} /\ g.into = None)
  BY DEF Fits
<1>3. \A r \in Changed(g) : Live(r[1]) /\ Current(r[1]) = r /\ r[2] < MaxVersion
  BY DEF Applies
<1>4. g.into # None => new \in Memory /\ mems[new] = None
  BY DEF Fresh
<1>6. \A r \in NewlyCited(g) : Exists(r[1])
  BY <1>2, NewlyCitedThere DEF There
<1>7. ASSUME NEW m \in Memory, Exists(m) PROVE Last(m) \in SUBSET Ref
  <2>1. mems[m].cites \in Seq(SUBSET Ref) /\ Len(mems[m].cites) \in 1..Len(mems[m].cites)
    BY <1>7, RowsExist, StoresAssumption
  <2> QED
    BY <2>1 DEF Last
<1>8. ASSUME NEW m \in Memory
      PROVE  /\ Exists(m) => mems'[m] # Gone
             /\ Adds(m) =>
                   \/ Exists(m) /\ Added(m) = Last(m)
                   \/ /\ Added(m) = g.cites
                      /\ g.target = None => g.cites = NewlyCited(g) /\ m \notin Ids(g.cites)
                      /\ g.target # None => m = g.target[1]
  <2>1. CASE g.into # None /\ m = new
    <3>1. mems[m] = None /\ ~Exists(m) /\ g.target = None
      BY <1>2, <1>4, <2>1 DEF Exists
    <3>2. m \notin Ids({g.target} \ {None}) /\ m \notin Ids(g.retire)
      BY <1>3, <3>1 DEF Ids, Changed, Live
    <3>3. mems'[m] = [project |-> g.into, retired |-> {}, cites |-> <<g.cites>>]
      BY <2>1, <3>2 DEF Written
    <3>4. mems'[m].cites = <<g.cites>> /\ Len(mems'[m].cites) = 1 /\ mems'[m].cites[1] = g.cites
      BY <3>3
    <3>5. Added(m) = g.cites /\ NewlyCited(g) = g.cites
      BY <3>1, <3>4 DEF Added, NewlyCited
    <3>6. m \notin Ids(g.cites)
      BY <1>6, <3>1, <3>5 DEF Ids
    <3> QED
      BY <3>1, <3>5, <3>6
  <2>2. CASE g.target # None /\ m = g.target[1]
    <3>1. Live(m) /\ Exists(m) /\ Current(m)[2] < MaxVersion
      BY <1>3, <2>2 DEF Changed, Live
    <3>2. Len(mems[m].cites) < MaxVersion
      BY <3>1 DEF Current
    <3>3. ~(g.into # None /\ m = new) /\ m \in Ids({g.target} \ {None}) /\ m \notin Ids(g.retire)
      BY <1>2, <2>2 DEF Ids
    <3>4. mems'[m] = NextVersion(mems[m], g.cites, FALSE)
      BY <3>3 DEF Written
    <3>5. mems'[m].cites = Append(mems[m].cites, g.cites) /\ mems'[m] \in Row
      BY <1>2, <3>1, <3>2, <3>4, AppendGrown
    <3>6. Added(m) = g.cites
      BY <1>2, <3>1, <3>5, RowsExist DEF Added
    <3> QED
      BY <2>2, <3>1, <3>5, <3>6, MarkersAssumption
  <2>3. CASE m \in Ids(g.retire) /\ ~(g.into # None /\ m = new) /\ ~(g.target # None /\ m = g.target[1])
    <3>1. PICK q \in g.retire : m = q[1]
      BY <2>3 DEF Ids
    <3>2. Live(m) /\ Exists(m) /\ Current(m)[2] < MaxVersion
      BY <1>3, <3>1 DEF Changed, Live
    <3>3. Len(mems[m].cites) < MaxVersion
      BY <3>2 DEF Current
    <3>4. m \notin Ids({g.target} \ {None})
      BY <2>3 DEF Ids
    <3>5. mems'[m] = NextVersion(mems[m], Last(m), TRUE)
      BY <2>3, <3>4 DEF Written
    <3>7. Last(m) \in SUBSET Ref
      BY <1>7, <3>2
    <3>8. mems'[m].cites = Append(mems[m].cites, Last(m)) /\ mems'[m] \in Row
      BY <3>2, <3>3, <3>5, <3>7, AppendGrown
    <3>9. Added(m) = Last(m)
      BY <3>2, <3>7, <3>8, RowsExist DEF Added
    <3> QED
      BY <2>3, <3>2, <3>8, <3>9, MarkersAssumption
  <2>4. CASE /\ ~(g.into # None /\ m = new) /\ ~(g.target # None /\ m = g.target[1])
             /\ m \notin Ids(g.retire)
    <3>1. m \notin Ids({g.target} \ {None})
      BY <2>4 DEF Ids
    <3>2. mems'[m] = mems[m]
      BY <2>4, <3>1 DEF Written
    <3> QED
      BY <2>4, <3>2 DEF Adds, Exists
  <2> QED
    BY <2>1, <2>2, <2>3, <2>4
<1> QED
  BY <1>8

\* A step that writes a group, built from versions sent and well sourced.
ByGroup ==
    \E g, new : \E sent, old \in SUBSET Ref :
        /\ Fits(g, sent, old) /\ SourcedGroup(g)
        /\ new \in Fresh(g) /\ Applies(g) /\ mems' = Written(g, new)

LEMMA GroupSteady == ASSUME MemsOK, CitesRight, ByGroup PROVE Steady /\ CitesRight'
<1> PICK g, new : \E sent, old \in SUBSET Ref :
        /\ Fits(g, sent, old) /\ SourcedGroup(g)
        /\ new \in Fresh(g) /\ Applies(g) /\ mems' = Written(g, new)
  BY Zenon DEF ByGroup
<1> PICK sent \in SUBSET Ref, old \in SUBSET Ref :
        /\ Fits(g, sent, old) /\ SourcedGroup(g)
        /\ new \in Fresh(g) /\ Applies(g) /\ mems' = Written(g, new)
  OBVIOUS
<1>1. Grow /\ mems' = [m \in Memory |-> mems'[m]]
  BY WrittenGrows DEF Writes
<1>2. ASSUME NEW m \in Memory, Adds(m) PROVE Sourced(m, Added(m))
  <2>1. \/ Exists(m) /\ Added(m) = Last(m)
        \/ /\ Added(m) = g.cites
           /\ g.target = None => m \notin Ids(g.cites)
           /\ g.target # None => m = g.target[1]
    BY <1>2, WrittenAdds
  <2> QED
    BY <2>1, LastSourced DEF SourcedGroup, Sourced
<1> QED
  BY <1>1, <1>2, WrittenAdds, CitesKept DEF Steady

\* What a judgment or an extraction is to cite.
LEMMA JudgedSourced ==
    ASSUME ScopeInv, PassCites, run.at = "judging",
           NEW g \in {j.change : j \in Merges \cup Rewrites \cup Supersedes} \cup News \cup Growths
    PROVE  SourcedGroup(g)
<1>1. run.sent \subseteq Ref /\ \A r, q \in run.sent : r[1] = q[1] => r = q
  BY DEF ScopeInv, Sending, Passing, Layer
<1>2. \A r \in run.sent : Sourced(r[1], run.sources[r[1]].cites)
  BY DEF PassCites
<1>3. ASSUME NEW into, NEW refs \in SUBSET run.sent, NEW retire
      PROVE  SourcedGroup(Group(into, None, refs, retire))
  BY <1>1 DEF SourcedGroup, Single, Group
<1>4. ASSUME NEW r \in run.sent, NEW refs \in SUBSET (run.sent \ {r})
      PROVE  SourcedGroup(Group(None, r, Recited(run.sources[r[1]].cites, refs), {}))
  <2> DEFINE old == run.sources[r[1]].cites
  <2>1. Single(old) /\ r[1] \notin Ids(old)
    BY <1>2 DEF Sourced
  <2>2. Single(refs) /\ r[1] \notin Ids(refs)
    BY <1>1 DEF Single, Ids
  <2> HIDE DEF old
  <2>3. Single(Recited(old, refs)) /\ r[1] \notin Ids(Recited(old, refs))
    BY <2>1, <2>2, RecitedSingle DEF Recited, Ids
  <2> QED
    BY <2>3 DEF SourcedGroup, Group, old
<1>5. CASE \E j \in Merges : g = j.change
  BY <1>3, <1>5 DEF Merges
<1>6. CASE \E j \in Rewrites : g = j.change
  <2>1. PICK j \in Rewrites : g = j.change
    BY <1>6
  <2>2. PICK r \in run.sent : j \in
          {[change |-> Group(None, r, Recited(run.sources[r[1]].cites, refs), {}),
            names |-> Ids(refs \cup {r})] : refs \in (SUBSET (run.sent \ {r})) \ {{}}}
    BY Zenon DEF Rewrites
  <2>3. PICK refs \in SUBSET (run.sent \ {r}) :
          j = [change |-> Group(None, r, Recited(run.sources[r[1]].cites, refs), {}),
               names |-> Ids(refs \cup {r})]
    BY <2>2
  <2>4. g = Group(None, r, Recited(run.sources[r[1]].cites, refs), {})
    BY <2>1, <2>3
  <2> QED
    BY <1>4, <2>4
<1>7. CASE \E j \in Supersedes : g = j.change
  <2>3. PICK j \in Supersedes : g = j.change
    BY <1>7
  <2>4. PICK pair \in run.sent \X run.sent :
          j = [change |-> Group(None, None, {}, {pair[1]}), names |-> Ids({pair[1], pair[2]})]
    BY DEF Supersedes
  <2>1. g = Group(None, None, {}, {pair[1]})
    BY <2>3, <2>4
  <2>2. {} \in SUBSET run.sent
    OBVIOUS
  <2> QED
    BY <1>3, <2>1, <2>2
<1>8. CASE g \in News
  BY <1>3, <1>8 DEF News
<1>9. CASE g \in Growths
  <2>1. PICK r \in {s \in run.sent : run.sources[s[1]].project = Global} :
          g \in {Group(None, r, Recited(run.sources[r[1]].cites, refs), {}) :
                  refs \in {new \in SUBSET (run.sent \ {r}) : ~new \subseteq run.sources[r[1]].cites}}
    BY <1>9, Zenon DEF Growths
  <2> QED
    BY <1>4, <2>1
<1> QED
  BY <1>5, <1>6, <1>7, <1>8, <1>9

LEMMA ConsolidateByGroup == ASSUME ScopeInv, PassCites, Consolidate PROVE ByGroup
<1>1. /\ run.at = "judging" /\ TheScope # Extraction /\ MemsOK /\ run.sent \subseteq Ref
  BY DEF Consolidate, ScopeInv, Sending, Passing, Layer
<1>2. PICK judgment \in Merges \cup Rewrites \cup Supersedes, new \in Memory \cup {None} :
        Apply(judgment.change, new)
  BY DEF Consolidate
<1> DEFINE named == {r \in run.sent : r[1] \in judgment.names}
<1>3. PICK old \in SUBSET Ref : Fits(judgment.change, named, old)
  BY <1>1, JudgmentFits
<1>4. SourcedGroup(judgment.change)
  BY <1>1, JudgedSourced
<1>5. named \in SUBSET Ref
  BY <1>1
<1>6. /\ new \in Fresh(judgment.change) /\ Applies(judgment.change)
      /\ mems' = Written(judgment.change, new)
  BY <1>2 DEF Apply
<1> HIDE DEF named
<1> QED
  BY <1>3, <1>4, <1>5, <1>6, Zenon DEF ByGroup

LEMMA ApplyExtractedByGroup == ASSUME ScopeInv, PassCites, ApplyExtracted PROVE ByGroup
<1>1. /\ run.at = "applying" /\ Passing /\ MemsOK /\ Sending /\ run.sent \subseteq Ref
  BY DEF ApplyExtracted, ScopeInv, Sending, Passing, Layer
<1> DEFINE g == run.change
<1>2. PICK new \in Memory \cup {None} : Apply(g, new)
  BY DEF ApplyExtracted
<1>3. Fits(g, run.sent, Old(g)) /\ SourcedGroup(g)
  BY <1>1 DEF Sending, PassCites, SourcedGroup
<1>4. Old(g) \in SUBSET Ref
  <2>1. CASE g.target = None
    BY <2>1 DEF Old
  <2>2. CASE g.target # None
    <3>1. g.target \in run.sent
      BY <1>3, <2>2 DEF Fits, Changed
    <3> QED
      BY <1>1, <2>2, <3>1 DEF Old, Sending, SourcesRight
  <2> QED
    BY <2>1, <2>2
<1> HIDE DEF g
<1>5. new \in Fresh(g) /\ Applies(g) /\ mems' = Written(g, new)
  BY <1>2 DEF Apply
<1> QED
  BY <1>1, <1>3, <1>4, <1>5, Zenon DEF ByGroup

\* A reworded entry cites once each what it cited and what stands in, and not itself.
LEMMA RewordByGroup ==
    ASSUME ScopeInv, EntryStands, CitesRight, Reword PROVE ByGroup
<1>1. run.at = "rechecking" /\ MemsOK /\ SeenRight /\ EntryRight
  BY DEF Reword, ScopeInv
<1> DEFINE group(by) == Group(None, SeenAt(run.entry),
                              Recited({r \in run.sources : r[1] \notin {p[1] : p \in by}},
                                      {p[2] : p \in by}), {})
<1>2. PICK by \in SUBSET run.standing.allowed, new \in {None} : Apply(group(by), new)
  BY DEF Reword
<1> DEFINE kept == {r \in run.sources : r[1] \notin {p[1] : p \in by}}
           recent == {p[2] : p \in by}
           cites == Recited(kept, recent)
           g == group(by)
<1>3. /\ run.entry \in Memory /\ SeenAt(run.entry) \in run.sent
      /\ run.sent \subseteq Ref /\ run.sources \subseteq Ref
      /\ Exists(run.entry) => run.sources = mems[run.entry].cites[SeenAt(run.entry)[2]]
      /\ \A p \in run.standing.allowed : p[2] \in run.sent
  BY <1>1 DEF EntryRight
<1>4. /\ \A p \in run.standing.allowed : p[2][1] # run.entry
      /\ \A p, q \in run.standing.allowed : p[2][1] = q[2][1] => p[2] = q[2]
  BY <1>1 DEF EntryStands, StandingOf, AllowedRight
<1>5. SeenAt(run.entry)[1] = run.entry /\ SeenAt(run.entry) \in Ref /\ SeenAt(run.entry) # None
  BY <1>3, MarkersAssumption DEF SeenAt
<1>6. g = Group(None, SeenAt(run.entry), cites, {})
  OBVIOUS
<1>7. /\ g.into = None /\ g.target = SeenAt(run.entry) /\ g.cites = cites /\ g.retire = {}
  BY <1>6 DEF Group
<1>8. new \in Fresh(g) /\ Applies(g) /\ mems' = Written(g, new)
  BY <1>2 DEF Apply
<1>9. recent \subseteq run.sent /\ cites \subseteq run.sent \cup run.sources
  BY <1>3 DEF Recited
<1>10. Fits(g, run.sent, run.sources)
  <2> HIDE DEF cites, g
  <2> QED
    BY <1>3, <1>5, <1>6, <1>9 DEF Group, Fits, Changed
<1>11. Sourced(run.entry, run.sources)
  <2>1. SeenAt(run.entry) \in Changed(g)
    BY <1>5, <1>7 DEF Changed
  <2>2. Live(run.entry) /\ Current(run.entry) = SeenAt(run.entry)
    BY <1>5, <1>8, <2>1 DEF Applies
  <2>3. Exists(run.entry) /\ SeenAt(run.entry)[2] = Len(mems[run.entry].cites)
    BY <2>2 DEF Live, Current
  <2>4. Len(mems[run.entry].cites) \in 1..Len(mems[run.entry].cites)
    BY <1>1, <1>3, <2>3, RowsExist, StoresAssumption
  <2> QED
    BY <1>3, <2>3, <2>4 DEF CitesRight
<1>12. SourcedGroup(g)
  <2>1. Single(kept) /\ Single(recent)
    BY <1>4, <1>11 DEF Sourced, Single
  <2>2. run.entry \notin Ids(kept) /\ run.entry \notin Ids(recent)
    BY <1>4, <1>11 DEF Sourced, Ids
  <2> HIDE DEF kept, recent, g
  <2>3. Single(cites) /\ run.entry \notin Ids(cites)
    BY <2>1, <2>2, RecitedSingle DEF Recited, Ids
  <2> QED
    BY <1>5, <1>7, <2>3 DEF SourcedGroup
<1> HIDE DEF g
<1> QED
  BY <1>3, <1>8, <1>10, <1>12, Zenon DEF ByGroup

\* So is every step.
LEMMA StepSteady ==
    ASSUME ScopeInv, PassCites, EntryStands, CitesRight, [Next]_scopeVars
    PROVE  Steady /\ CitesRight'
<1>1. MemsOK
  BY DEF ScopeInv
<1>2. CASE UNCHANGED mems
  BY <1>1, <1>2, SameSteady
<1>3. CASE EditStep
  BY <1>1, <1>3, EditSteady
<1>4. CASE Consolidate \/ ApplyExtracted \/ Reword
  BY <1>1, <1>4, ConsolidateByGroup, ApplyExtractedByGroup, RewordByGroup, GroupSteady
<1>5. Next => Consolidate \/ ApplyExtracted \/ Reword \/ EditStep \/ UNCHANGED mems
  BY DEF Next, StartRun, Scan, List, ReadSources, NoAnswer, Answered, Flag, NotApplied, Extract,
      EndPass, ListEntries, Recheck, LeaveEntry, KeepEntry, EndRun, Kill, EditStep
<1> QED
  BY <1>2, <1>3, <1>4, <1>5 DEF scopeVars
-----------------------------------------------------------------------------
(* Steps outside the recheck *)

KeptStill == UNCHANGED <<checks, keptOn>>

LEMMA ChecksKept ==
    ASSUME ScopeInv, KeptInv, Steady, KeptStill
    PROVE  /\ ChecksRight' /\ checks' = [m \in Memory |-> checks'[m]]
           /\ keptOn' = [m \in Memory |-> keptOn'[m]]
<1>1. /\ MemsOK /\ ChecksRight /\ checks' = checks /\ keptOn' = keptOn
      /\ checks = [m \in Memory |-> checks[m]] /\ keptOn = [m \in Memory |-> keptOn[m]]
  BY DEF ScopeInv, KeptInv, KeptStill
<1>2. ASSUME NEW e \in Memory, NEW S, S = keptOn'[e], checks'[e] # None
      PROVE  StandingOf(e, S)' /\ checks'[e] = Digest(S)
  <2>1. StandingOf(e, S) /\ checks[e] = Digest(S)
    BY <1>1, <1>2 DEF ChecksRight
  <2>2. StandingOf(e, S)'
    BY <1>1, <2>1, StandingStands
  <2> QED
    BY <1>1, <2>1, <2>2
<1> QED
  BY <1>1, <1>2 DEF ChecksRight, Digest

\* A step that ends outside the recheck.
LEMMA OutsideKept ==
    ASSUME ScopeInv, KeptInv, Steady, CitesRight', KeptStill, PassCites',
           run'.at \notin {"recheck", "kept", "rechecking"}
    PROVE  KeptInv'
<1>1. ListingRight' /\ EntryStands' /\ KeptAsItStands'
  BY DEF ListingRight, EntryStands, KeptAsItStands
<1> QED
  BY <1>1, ChecksKept DEF KeptInv

LEMMA JudgingCites ==
    ASSUME PassCites, run.at \in {"asked", "judging", "applying"}, run'.at = "judging",
           run'.sent = run.sent, run'.sources = run.sources
    PROVE  PassCites'
BY DEF PassCites, Sourced

LEMMA LeftAt == Left.at \in {"idle", "scope", "list"}
<1> DEFINE next == IF TheScope = Extraction THEN "list" ELSE
                   IF Len(run.todo) = 1 THEN "idle" ELSE "scope"
<1>1. next \in {"idle", "scope", "list"}
  OBVIOUS
<1>2. Left = IF next = "idle" THEN NoRun
             ELSE [NoRun EXCEPT !.at = next, !.todo = Tail(run.todo), !.excluded = run.excluded,
                      !.hits = run.hits, !.groups = run.groups, !.shunned = run.shunned,
                      !.touched = run.touched]
  BY DEF Left
<1> HIDE DEF next
<1> QED
  BY <1>1, <1>2 DEF NoRun

\* What was read to be judged is sourced, for every version is.
LEMMA ReadSourcesCites ==
    ASSUME ScopeInv, CitesRight, ReadSources PROVE PassCites' /\ run'.at \in {"idle", "scope", "list", "asked"}
<1>1. run.at = "read" /\ Passing /\ MemsOK /\ RunShape /\ Sending
  BY DEF ReadSources, Passing, Layer, ScopeInv
<1>2. CASE run' = Left
  BY <1>2, LeftAt DEF PassCites
<1> DEFINE sources == [m \in Ids(run.sent) |-> [project |-> mems[m].project,
                          cites |-> mems[m].cites[VersionIn(run.sent, m)]]]
<1>3. CASE /\ run' = [run EXCEPT !.at = "asked", !.sources = sources]
           /\ \A m \in Ids(run.sent) : Exists(m)
  <2>1. ASSUME NEW r \in run.sent PROVE Sourced(r[1], sources[r[1]].cites)
    <3>1. r[1] \in Ids(run.sent)
      BY DEF Ids
    <3>2. \E q \in run.sent : q[1] = r[1]
      BY <2>1
    <3>3. VersionIn(run.sent, r[1]) = r[2]
      BY <1>1, <2>1, <3>2 DEF VersionIn, Sending
    <3>4. sources[r[1]].cites = mems[r[1]].cites[r[2]]
      BY <3>1, <3>3
    <3>5. r[1] \in Memory /\ Known(r) /\ Exists(r[1])
      BY <1>1, <1>3, <2>1, <3>1 DEF Sending, Ref
    <3> HIDE DEF sources
    <3> QED
      BY <3>4, <3>5 DEF CitesRight, Known, Exists
  <2> HIDE DEF sources
  <2>2. run'.at = "asked" /\ run'.sources = sources /\ run'.sent = run.sent
    BY <1>1, <1>3 DEF RunShape
  <2> QED
    BY <2>1, <2>2 DEF PassCites
<1> QED
  BY <1>2, <1>3 DEF ReadSources

LEMMA ExtractCites ==
    ASSUME ScopeInv, PassCites, Extract PROVE PassCites' /\ run'.at = "applying"
<1>1. run.at = "judging" /\ RunShape
  BY DEF Extract, ScopeInv
<1>2. PICK g \in News \cup Growths : run' = [run EXCEPT !.at = "applying", !.change = g]
  BY DEF Extract
<1>3. SourcedGroup(g)
  BY <1>1, JudgedSourced
<1>4. run'.at = "applying" /\ run'.change = g /\ run'.sent = run.sent /\ run'.sources = run.sources
  BY <1>1, <1>2 DEF RunShape
<1> QED
  BY <1>1, <1>3, <1>4 DEF PassCites, SourcedGroup, Sourced, Single

\* The steps of a run up to the recheck.
PassStep == \/ StartRun \/ Scan \/ List \/ ReadSources \/ NoAnswer \/ Answered
            \/ (\E m \in Memory : Flag(m))
            \/ Consolidate \/ NotApplied \/ Extract \/ ApplyExtracted \/ EndPass
            \/ EndRun \/ Kill

LEMMA PassStepCites ==
    ASSUME ScopeInv, KeptInv, PassStep
    PROVE  PassCites' /\ run'.at \notin {"recheck", "kept", "rechecking"} /\ KeptStill
<1>1. RunShape /\ CitesRight /\ PassCites
  BY DEF ScopeInv, KeptInv
<1>2. KeptStill
  BY DEF PassStep, StartRun, Scan, List, ReadSources, NoAnswer, Answered, Flag, Consolidate, NotApplied,
      Extract, ApplyExtracted, EndPass, EndRun, Kill, KeptStill
<1>3. ASSUME run'.at \notin {"recheck", "kept", "rechecking", "asked", "judging", "applying"}
      PROVE  PassCites' /\ run'.at \notin {"recheck", "kept", "rechecking"}
  BY <1>3 DEF PassCites
<1>4. CASE StartRun
  <2>1. PICK wanted \in Wanted : run' = [NoRun EXCEPT !.at = "scan", !.todo = Scopes(wanted)]
    BY <1>4 DEF StartRun
  <2>2. run'.at = "scan"
    BY <2>1 DEF NoRun
  <2> QED
    BY <1>2, <1>3, <2>2
<1>5. CASE Scan
  <2>1. run'.at = "scope"
    BY <1>1, <1>5 DEF Scan, RunShape
  <2> QED
    BY <1>2, <1>3, <2>1
<1>6. CASE List
  <2>1. run'.at \in {"idle", "scope", "list", "read"}
    <3> DEFINE input == Usable(TheScope)
    <3>1. \/ run' = [Left EXCEPT !.skipped = input]
          \/ run' = [run EXCEPT !.at = "read", !.sent = input, !.skipped = {}]
      BY <1>6 DEF List
    <3>2. CASE run' = [Left EXCEPT !.skipped = input]
      <4>1. \A at : [Left EXCEPT !.skipped = input].at = Left.at
        <5>1. DOMAIN Left = DOMAIN NoRun /\ "at" \in DOMAIN NoRun
          BY DEF Left, NoRun
        <5> QED
          BY <5>1
      <4> QED
        BY <3>2, <4>1, LeftAt
    <3>3. CASE run' = [run EXCEPT !.at = "read", !.sent = input, !.skipped = {}]
      BY <1>1, <3>3 DEF RunShape
    <3> QED
      BY <3>1, <3>2, <3>3
  <2> QED
    BY <1>2, <1>3, <2>1
<1>7. CASE ReadSources
  BY <1>1, <1>2, <1>7, ReadSourcesCites
<1>8. CASE NoAnswer \/ EndPass
  <2>1. run' = Left
    BY <1>8 DEF NoAnswer, EndPass
  <2> QED
    BY <1>2, <1>3, <2>1, LeftAt
<1>9. CASE Answered \/ (\E m \in Memory : Flag(m)) \/ Consolidate \/ NotApplied \/ ApplyExtracted
  <2>1. /\ run.at \in {"asked", "judging", "applying"} /\ run'.at = "judging"
        /\ run'.sent = run.sent /\ run'.sources = run.sources
    <3>1. CASE Answered
      <4>1. PICK marks, owner : run' = [run EXCEPT !.at = "judging", !.left = MaxJudgments,
                                           !.marks = marks, !.flags = marks, !.owner = owner]
        BY <3>1 DEF Answered
      <4> QED
        BY <1>1, <3>1, <4>1 DEF Answered, RunShape
    <3>2. CASE \E m \in Memory : Flag(m)
      BY <1>1, <3>2 DEF Flag, RunShape
    <3>3. CASE Consolidate
      <4>1. PICK T : run' = [run EXCEPT !.left = @ - 1, !.groups = @ + 1, !.touched = T,
                                        !.born = @ \cup Born(mems')]
        BY <3>3 DEF Consolidate
      <4> QED
        BY <1>1, <3>3, <4>1 DEF Consolidate, RunShape
    <3>4. CASE NotApplied
      BY <1>1, <3>4 DEF NotApplied, RunShape
    <3>5. CASE ApplyExtracted
      <4>1. PICK T : run' = [run EXCEPT !.at = "judging", !.left = @ - 1, !.groups = @ + 1,
                                        !.change = None, !.touched = T, !.born = @ \cup Born(mems')]
        BY <3>5 DEF ApplyExtracted
      <4> QED
        BY <1>1, <3>5, <4>1 DEF ApplyExtracted, RunShape
    <3> QED
      BY <1>9, <3>1, <3>2, <3>3, <3>4, <3>5
  <2> QED
    BY <1>1, <1>2, <2>1, JudgingCites
<1>10. CASE Extract
  BY <1>1, <1>2, <1>10, ExtractCites
<1>11. CASE EndRun \/ Kill
  <2>1. run'.at = "idle"
    BY <1>11 DEF EndRun, Kill, NoRun
  <2> QED
    BY <1>2, <1>3, <2>1
<1> QED
  BY <1>4, <1>5, <1>6, <1>7, <1>8, <1>9, <1>10, <1>11 DEF PassStep

LEMMA PassStepKept ==
    ASSUME ScopeInv, KeptInv, PassStep, Steady, CitesRight' PROVE KeptInv'
BY PassStepCites, OutsideKept
-----------------------------------------------------------------------------
(* Steps inside the recheck *)

\* What was listed stands, whatever is written meanwhile.
LEMMA ListingKept ==
    ASSUME ScopeInv, ListingRight, Steady, run.at \in {"recheck", "kept", "rechecking"},
           run'.seen = run.seen
    PROVE  ListingRight'
<1>1. MemsOK /\ SeenRight
  BY DEF ScopeInv
<1> SUFFICES ASSUME NEW m \in Memory, Seen(m)'
             PROVE  AsSeen(SeenAt(m), Deleted(run.seen[m]))'
  BY DEF ListingRight
<1>2. PICK r, deleted : r = SeenAt(m) /\ deleted = Deleted(run.seen[m])
  OBVIOUS
<1>3. Seen(m) /\ SeenAt(m)' = r
  BY <1>2 DEF Seen, SeenAt
<1>4. r \in Ref /\ Known(r) /\ AsSeen(r, deleted)
  BY <1>1, <1>2, <1>3 DEF SeenRight, ListingRight
<1>5. deleted \in BOOLEAN
  BY <1>2 DEF Deleted
<1>6. AsSeen(r, deleted)'
  BY <1>1, <1>4, <1>5, SeenStands
<1> QED
  BY <1>2, <1>3, <1>6, Zenon DEF AsSeen, Known, Retired

\* A step that ends between two entries.
LEMMA BetweenKept ==
    ASSUME ScopeInv, KeptInv, Steady, CitesRight', KeptStill, run'.at = "recheck", ListingRight'
    PROVE  KeptInv'
<1>1. PassCites' /\ EntryStands' /\ KeptAsItStands'
  BY DEF PassCites, EntryStands, KeptAsItStands
<1> QED
  BY <1>1, ChecksKept DEF KeptInv

LEMMA ListEntriesKept ==
    ASSUME ScopeInv, KeptInv, ListEntries, Steady, CitesRight' PROVE KeptInv'
<1>1. MemsOK /\ RunShape /\ CitesRight /\ KeptStill /\ UNCHANGED mems
  BY DEF ScopeInv, KeptInv, ListEntries, KeptStill
<1>2. run'.at = "recheck" /\ run'.seen = mems
  BY <1>1 DEF ListEntries, RunShape
<1>3. \A m : Seen(m)' <=> Exists(m)
  BY <1>2 DEF Seen, Exists
<1>4. ASSUME NEW m \in Memory, Exists(m)
      PROVE  AsSeen(SeenAt(m), Deleted(run.seen[m]))'
  <2>1. SeenAt(m)' = Current(m) /\ Deleted(run'.seen[m]) = Deleted(mems[m])
    BY <1>2 DEF SeenAt, Current
  <2>2. Current(m)[1] = m /\ Current(m)[2] \in 1..Len(mems[m].cites)
    <3>1. Len(mems[m].cites) \in 1..MaxVersion
      BY <1>1, <1>4, RowsExist
    <3>2. Len(mems[m].cites) \in 1..Len(mems[m].cites)
      BY <3>1, StoresAssumption
    <3> QED
      BY <3>2 DEF Current
  <2>3. AsSeen(Current(m), Deleted(mems[m]))
    BY <1>4, <2>2 DEF AsSeen, Known, Retired, Current, Deleted
  <2> QED
    BY <1>1, <2>1, <2>3 DEF AsSeen, Known, Retired, Exists, Current, Deleted
<1>5. ListingRight'
  BY <1>1, <1>2, <1>3, <1>4 DEF ListingRight
<1> QED
  BY <1>1, <1>2, <1>5, BetweenKept

\* An entry is left, or reworded.
LEMMA LeftKept ==
    ASSUME ScopeInv, KeptInv, LeaveEntry \/ Reword, Steady, CitesRight' PROVE KeptInv'
<1>1. RunShape /\ ListingRight /\ KeptStill /\ run.at \in {"recheck", "kept", "rechecking"}
  BY DEF ScopeInv, KeptInv, LeaveEntry, Reword, KeptStill
<1>2. run'.at = "recheck" /\ run'.seen = run.seen
  <2>1. CASE LeaveEntry
    BY <1>1, <2>1 DEF LeaveEntry, Rechecked, RunShape
  <2>2. CASE Reword
    <3>1. PICK T : run' = [Rechecked(run) EXCEPT !.groups = @ + 1, !.touched = T]
      BY <2>2 DEF Reword
    <3> QED
      BY <1>1, <3>1 DEF Rechecked, RunShape
  <2> QED
    BY <2>1, <2>2
<1> QED
  BY <1>1, <1>2, ListingKept, BetweenKept

\* What an entry is kept on is what it was sent with.
LEMMA KeepEntryKept ==
    ASSUME ScopeInv, KeptInv, KeepEntry, Steady, CitesRight' PROVE KeptInv'
<1>1. /\ RunShape /\ ListingRight /\ EntryStands /\ ChecksRight /\ run.at = "rechecking" /\ MemsOK
      /\ checks = [m \in Memory |-> checks[m]] /\ keptOn = [m \in Memory |-> keptOn[m]]
  BY DEF ScopeInv, KeptInv, KeepEntry
<1>2. run'.at = "recheck" /\ run'.seen = run.seen
  BY <1>1 DEF KeepEntry, Rechecked, RunShape
<1>3. ListingRight' /\ PassCites' /\ EntryStands' /\ KeptAsItStands'
  BY <1>1, <1>2, ListingKept DEF PassCites, EntryStands, KeptAsItStands
<1>4. /\ checks' = [checks EXCEPT ![run.entry] = run.sent]
      /\ keptOn' = [keptOn EXCEPT ![run.entry] = run.standing]
  BY DEF KeepEntry
<1>5. /\ checks' = [m \in Memory |-> checks'[m]] /\ keptOn' = [m \in Memory |-> keptOn'[m]]
      /\ \A m \in Memory : /\ checks'[m] = IF m = run.entry THEN run.sent ELSE checks[m]
                           /\ keptOn'[m] = IF m = run.entry THEN run.standing ELSE keptOn[m]
  BY <1>1, <1>4
<1>6. ASSUME NEW e \in Memory, NEW S, S = keptOn'[e], checks'[e] # None
      PROVE  StandingOf(e, S)' /\ checks'[e] = Digest(S)
  <2>1. StandingOf(e, S) /\ checks'[e] = Digest(S)
    BY <1>1, <1>5, <1>6 DEF ChecksRight, EntryStands
  <2> QED
    BY <1>1, <2>1, StandingStands
<1>7. ChecksRight'
  BY <1>6 DEF ChecksRight, Digest
<1> QED
  BY <1>3, <1>5, <1>7 DEF KeptInv

\* Whatever others write, an entry was kept on what it was kept on.
LEMMA StandsStill ==
    ASSUME ScopeInv, KeptInv, Steady, CitesRight', KeptStill,
           run.at \in {"recheck", "kept", "rechecking"}, UNCHANGED run
    PROVE  KeptInv'
<1>1. MemsOK /\ EntryRight /\ ListingRight /\ EntryStands /\ ChecksRight /\ KeptAsItStands
  BY DEF ScopeInv, KeptInv
<1>2. ListingRight' /\ PassCites'
  BY <1>1, ListingKept DEF PassCites
<1>3. EntryStands'
  <2>1. ASSUME NEW e \in {run.entry}, NEW S \in {run.standing}, run.at \in {"kept", "rechecking"}
        PROVE  StandingOf(e, S)' /\ run.sent = Digest(S)
    <3>1. StandingOf(e, S) /\ run.sent = Digest(S)
      BY <1>1, <2>1 DEF EntryStands
    <3> QED
      BY <1>1, <3>1, StandingStands
  <2>2. run.at = "kept" => run'.sent = checks'[run'.entry]
    BY <1>1 DEF EntryStands, KeptStill
  <2> QED
    BY <2>1, <2>2 DEF EntryStands, Digest
<1>4. KeptAsItStands'
  BY <1>1 DEF KeptAsItStands, KeptStill
<1> QED
  BY <1>2, <1>3, <1>4, ChecksKept DEF KeptInv

\* Others write, or nothing happens.
LEMMA OthersKept ==
    ASSUME ScopeInv, KeptInv, EditStep \/ UNCHANGED scopeVars, Steady, CitesRight' PROVE KeptInv'
<1>1. RunShape /\ PassCites /\ KeptStill
  BY EditGrows DEF ScopeInv, KeptInv, KeptStill, scopeVars, Edit
<1>2. UNCHANGED run \/ (Passing /\ run' = [run EXCEPT !.born = @ \cup Born(mems')])
  BY EditGrows DEF ScopeInv, scopeVars, Edit, Passing, Layer
<1>3. CASE run.at \in {"recheck", "kept", "rechecking"}
  <2>1. UNCHANGED run
    BY <1>2, <1>3 DEF Passing, Layer
  <2> QED
    BY <1>1, <1>3, <2>1, StandsStill
<1>4. CASE run.at \notin {"recheck", "kept", "rechecking"}
  <2>1. /\ run'.at = run.at /\ run'.sent = run.sent /\ run'.sources = run.sources
        /\ run'.change = run.change
    BY <1>1, <1>2 DEF RunShape
  <2>2. PassCites'
    BY <1>1, <2>1 DEF PassCites, Sourced
  <2> QED
    BY <1>1, <1>4, <2>1, <2>2, OutsideKept
<1> QED
  BY <1>3, <1>4
-----------------------------------------------------------------------------
(* What an entry is sent on, and when it is the same *)

\* What the recheck holds of an entry it sends, or passes over as kept.
Readable(e) ==
    /\ run.at = "recheck" /\ e \in run.entries /\ Exists(e)
    /\ \A r \in SourcesOf(e) : Seen(r[1]) /\ Exists(r[1])
    /\ \A r \in Moved(e) : ~HeldBack(r)

\* What may stand in for a moved source was listed, not deleted, and neither left out nor the entry.
LEMMA AllowedAre ==
    ASSUME ScopeInv, CitesRight, NEW e, Readable(e)
    PROVE  /\ Sourced(e, SourcesOf(e)) /\ SourcesOf(e) \subseteq Ref
           /\ \A p \in Allowed(e) :
                 /\ p[2][1] \in Memory \ ({e} \cup run.excluded)
                 /\ p[2] \in Ref /\ p[2] = SeenAt(p[2][1])
                 /\ Seen(p[2][1]) /\ ~Deleted(run.seen[p[2][1]])
                 /\ \E r \in Moved(e) :
                       /\ p = <<r[1], p[2]>>
                       /\ IF Deleted(run.seen[r[1]]) THEN p[2][1] \in Successors(e, r[1])
                                                    ELSE p[2][1] = r[1]
<1>1. /\ run.at = "recheck" /\ e \in run.entries /\ Exists(e) /\ MemsOK /\ SeenRight
      /\ \A r \in SourcesOf(e) : Seen(r[1]) /\ Exists(r[1])
      /\ \A r \in Moved(e) : ~HeldBack(r)
  BY DEF ScopeInv, Readable
<1>2. e \in Memory \ run.excluded /\ Seen(e) /\ SourcesOf(e) \subseteq Ref
  BY <1>1, EntryFits
<1>3. Sourced(e, SourcesOf(e))
  <2>1. Known(SeenAt(e)) /\ SeenAt(e)[1] = e
    BY <1>1, <1>2 DEF SeenRight, SeenAt
  <2> QED
    BY <1>1, <1>2, <2>1 DEF Known, Exists, CitesRight, SourcesOf
<1>4. \A r \in Moved(e) : r \in SourcesOf(e) /\ r \in Ref /\ r[1] \in Memory /\ r[1] # e
  BY <1>2, <1>3 DEF Moved, Sourced, Ids, Ref
<1>5. \A m \in Memory : Seen(m) => SeenAt(m) \in Ref /\ SeenAt(m)[1] = m
  BY <1>1 DEF SeenRight, SeenAt
<1>6. ASSUME NEW r \in Moved(e), ~Deleted(run.seen[r[1]])
      PROVE  Seen(r[1]) /\ r[1] \notin run.excluded
  BY <1>1, <1>4, <1>6 DEF HeldBack
<1>7. ASSUME NEW p \in Allowed(e)
      PROVE  /\ p[2][1] \in Memory \ ({e} \cup run.excluded)
             /\ p[2] \in Ref /\ p[2] = SeenAt(p[2][1])
             /\ Seen(p[2][1]) /\ ~Deleted(run.seen[p[2][1]])
             /\ \E r \in Moved(e) :
                   /\ p = <<r[1], p[2]>>
                   /\ IF Deleted(run.seen[r[1]]) THEN p[2][1] \in Successors(e, r[1])
                                                ELSE p[2][1] = r[1]
  <2>1. CASE \E r \in Moved(e) : ~Deleted(run.seen[r[1]]) /\ p = <<r[1], SeenAt(r[1])>>
    <3>1. PICK r \in Moved(e) : ~Deleted(run.seen[r[1]]) /\ p = <<r[1], SeenAt(r[1])>>
      BY <2>1
    <3>2. Seen(r[1]) /\ r[1] \notin run.excluded /\ r[1] \in Memory /\ r[1] # e
      BY <1>4, <1>6, <3>1
    <3>3. p[2] = SeenAt(r[1]) /\ p[2] \in Ref /\ p[2][1] = r[1] /\ p = <<r[1], p[2]>>
      BY <1>5, <3>1, <3>2
    <3> QED
      BY <3>1, <3>2, <3>3
  <2>2. CASE \E r \in Moved(e) : Deleted(run.seen[r[1]]) /\ \E m \in Successors(e, r[1]) : p = <<r[1], SeenAt(m)>>
    <3>1. PICK r \in Moved(e) : Deleted(run.seen[r[1]]) /\ \E m \in Successors(e, r[1]) : p = <<r[1], SeenAt(m)>>
      BY <2>2
    <3>2. PICK m \in Successors(e, r[1]) : p = <<r[1], SeenAt(m)>>
      BY <3>1
    <3>3. m \in Memory \ ({e} \cup run.excluded) /\ Seen(m) /\ ~Deleted(run.seen[m])
      BY DEF Successors
    <3>4. p[2] = SeenAt(m) /\ p[2] \in Ref /\ p[2][1] = m /\ p = <<r[1], p[2]>>
      BY <1>5, <3>2, <3>3
    <3> QED
      BY <3>1, <3>2, <3>3, <3>4
  <2>3. \/ \E r \in Moved(e) : ~Deleted(run.seen[r[1]]) /\ p = <<r[1], SeenAt(r[1])>>
        \/ \E r \in Moved(e) : Deleted(run.seen[r[1]]) /\ \E m \in Successors(e, r[1]) : p = <<r[1], SeenAt(m)>>
    BY <1>7 DEF Allowed
  <2> QED
    BY <2>1, <2>2, <2>3
<1> QED
  BY <1>2, <1>3, <1>7

\* What is sent shows how the sources of an entry stand.
LEMMA StandingIs ==
    ASSUME ScopeInv, CitesRight, ListingRight, NEW e, Readable(e), NEW S, S = Standing(e)
    PROVE  StandingOf(e, S) /\ Pairs(e) = Digest(S)
<1>1. /\ run.at = "recheck" /\ e \in run.entries /\ Exists(e) /\ MemsOK /\ SeenRight
      /\ \A r \in SourcesOf(e) : Seen(r[1]) /\ Exists(r[1])
  BY DEF ScopeInv, Readable
<1>2. e \in Memory /\ Seen(e)
  BY <1>1 DEF SeenRight
<1>3. Sourced(e, SourcesOf(e)) /\ SourcesOf(e) \subseteq Ref
  BY AllowedAre
<1>4. ASSUME NEW m \in Memory, Seen(m)
      PROVE  /\ SeenAt(m) \in Ref /\ SeenAt(m)[1] = m /\ Known(SeenAt(m)) /\ Deleted(run.seen[m]) \in BOOLEAN
             /\ AsSeen(SeenAt(m), Deleted(run.seen[m]))
  <2>1. Deleted(run.seen[m]) \in BOOLEAN
    BY DEF Deleted
  <2> QED
    BY <1>1, <1>4, <2>1 DEF SeenRight, SeenAt, ListingRight
<1>5. /\ S = [entry |-> S.entry, allowed |-> S.allowed, moved |-> S.moved]
      /\ S.entry = SeenAt(e) /\ S.allowed = Allowed(e)
      /\ S.moved = {[cited |-> r, now |-> SeenAt(r[1]), deleted |-> Deleted(run.seen[r[1]])] : r \in Moved(e)}
  BY DEF Standing
<1>6. SourcesOf(e) = mems[e].cites[S.entry[2]]
  BY <1>5 DEF SourcesOf
<1>7. \A r \in Moved(e) : /\ r \in SourcesOf(e) /\ r \in Ref /\ r[1] \in Memory /\ Seen(r[1]) /\ r[1] # e
                          /\ Deleted(run.seen[r[1]]) \/ SeenAt(r[1]) # r
  BY <1>1, <1>3 DEF Moved, Sourced, Ids, Ref
<1>8. ASSUME NEW x \in S.moved
      PROVE  \E r \in Moved(e) : x.cited = r /\ x.now = SeenAt(r[1]) /\ x.deleted = Deleted(run.seen[r[1]])
                                 /\ x \in [cited: Ref, now: Ref, deleted: BOOLEAN]
  <2>1. PICK r \in Moved(e) : x = [cited |-> r, now |-> SeenAt(r[1]), deleted |-> Deleted(run.seen[r[1]])]
    BY <1>5
  <2>2. r \in Ref /\ SeenAt(r[1]) \in Ref /\ Deleted(run.seen[r[1]]) \in BOOLEAN
    BY <1>4, <1>7
  <2> QED
    BY <2>1, <2>2
<1>9. \A r \in Moved(e) : \E x \in S.moved : x.cited = r /\ x.now = SeenAt(r[1]) /\ x.deleted = Deleted(run.seen[r[1]])
  <2> TAKE r \in Moved(e)
  <2>1. PICK x : x = [cited |-> r, now |-> SeenAt(r[1]), deleted |-> Deleted(run.seen[r[1]])]
    OBVIOUS
  <2>2. x \in S.moved
    BY <1>5, <2>1
  <2> QED
    BY <2>1, <2>2
<1>10. \A r \in Moved(e) : ~Deleted(run.seen[r[1]]) => <<r[1], SeenAt(r[1])>> \in S.allowed
  BY <1>5 DEF Allowed
<1>11. \A r \in Moved(e) : \A m \in Successors(e, r[1]) :
          Deleted(run.seen[r[1]]) => <<r[1], SeenAt(m)>> \in S.allowed
  BY <1>5 DEF Allowed
<1>12. ASSUME NEW x \in S.moved PROVE MovedRight(e, S, x)
  <2>1. PICK r \in Moved(e) : /\ x.cited = r /\ x.now = SeenAt(r[1]) /\ x.deleted = Deleted(run.seen[r[1]])
                              /\ x \in [cited: Ref, now: Ref, deleted: BOOLEAN]
    BY <1>8
  <2>2. /\ r \in SourcesOf(e) /\ r[1] \in Memory /\ Seen(r[1]) /\ r[1] # e
        /\ Deleted(run.seen[r[1]]) \/ SeenAt(r[1]) # r
    BY <1>7
  <2>3. x.now[1] = r[1] /\ AsSeen(x.now, x.deleted)
    BY <1>4, <2>1, <2>2
  <2>4. ~x.deleted => <<x.cited[1], x.now>> \in S.allowed
    BY <1>10, <2>1
  <2> QED
    BY <1>6, <2>1, <2>2, <2>3, <2>4 DEF MovedRight
<1>13. \A x, y \in S.moved : x.cited[1] = y.cited[1] => x = y
  <2> SUFFICES ASSUME NEW x \in S.moved, NEW y \in S.moved, x.cited[1] = y.cited[1] PROVE x = y
    OBVIOUS
  <2>1. PICK r \in Moved(e) : x = [cited |-> r, now |-> SeenAt(r[1]), deleted |-> Deleted(run.seen[r[1]])]
    BY <1>5
  <2>2. PICK q \in Moved(e) : y = [cited |-> q, now |-> SeenAt(q[1]), deleted |-> Deleted(run.seen[q[1]])]
    BY <1>5
  <2>3. r = q
    BY <1>3, <1>7, <2>1, <2>2 DEF Sourced, Single
  <2> QED
    BY <2>1, <2>2, <2>3
<1>14. ASSUME NEW p \in S.allowed
       PROVE  /\ p[2][1] \in Memory \ ({e} \cup run.excluded)
              /\ p[2] \in Ref /\ p[2] = SeenAt(p[2][1])
              /\ Seen(p[2][1]) /\ ~Deleted(run.seen[p[2][1]])
              /\ \E r \in Moved(e) :
                    /\ p = <<r[1], p[2]>>
                    /\ IF Deleted(run.seen[r[1]]) THEN p[2][1] \in Successors(e, r[1])
                                                 ELSE p[2][1] = r[1]
  BY <1>5, <1>14, AllowedAre
<1>15. ASSUME NEW p \in S.allowed PROVE AllowedRight(e, S, p)
  <2> DEFINE k == p[2][1]
  <2>1. /\ k \in Memory \ ({e} \cup run.excluded) /\ p[2] \in Ref /\ p[2] = SeenAt(k)
        /\ Seen(k) /\ ~Deleted(run.seen[k])
    BY <1>14
  <2>2. AsSeen(p[2], FALSE)
    <3>1. Deleted(run.seen[k]) = FALSE /\ AsSeen(SeenAt(k), Deleted(run.seen[k]))
      BY <1>4, <2>1
    <3> QED
      BY <2>1, <3>1
  <2>3. \A x \in S.moved : x.cited[1] = k => p[2] = x.now
    BY <1>8, <2>1
  <2>4. \E x \in S.moved :
          /\ p = <<x.cited[1], p[2]>>
          /\ IF x.deleted THEN Exists(k) => Carries(p[2], x.cited[1]) ELSE p[2] = x.now
    <3>1. PICK r \in Moved(e) : /\ p = <<r[1], p[2]>>
                                /\ IF Deleted(run.seen[r[1]]) THEN k \in Successors(e, r[1]) ELSE k = r[1]
      BY <1>14
    <3>2. PICK x \in S.moved : x.cited = r /\ x.now = SeenAt(r[1]) /\ x.deleted = Deleted(run.seen[r[1]])
      BY <1>9
    <3>3. ASSUME k \in Successors(e, r[1]) PROVE Carries(p[2], r[1])
      <4>1. r[1] \in Ids(mems[k].cites[SeenAt(k)[2]])
        BY <3>3 DEF Successors
      <4> QED
        BY <2>1, <4>1 DEF Carries
    <3>4. IF x.deleted THEN Exists(k) => Carries(p[2], x.cited[1]) ELSE p[2] = x.now
      BY <2>1, <3>1, <3>2, <3>3
    <3> QED
      BY <3>1, <3>2, <3>4
  <2>5. ASSUME Exists(k), NEW x \in S.moved, x.deleted, Carries(p[2], x.cited[1])
        PROVE  <<x.cited[1], p[2]>> \in S.allowed
    <3>1. PICK r \in Moved(e) : x.cited = r /\ x.deleted = Deleted(run.seen[r[1]])
      BY <1>8
    <3>3. r[1] \in Ids(mems[k].cites[SeenAt(k)[2]])
      BY <2>1, <2>5, <3>1 DEF Carries
    <3>4. k \in Successors(e, r[1])
      BY <2>1, <2>5, <3>3 DEF Successors
    <3> QED
      BY <1>11, <2>1, <2>5, <3>1, <3>4
  <2> QED
    BY <2>1, <2>2, <2>3, <2>4, <2>5 DEF AllowedRight
<1>16. \A r \in mems[e].cites[S.entry[2]] :
          \/ \E x \in S.moved : x.cited = r
          \/ \A p \in S.allowed : p[2][1] = r[1] => p[2] = r
  <2> SUFFICES ASSUME NEW r \in SourcesOf(e), r \notin Moved(e), NEW p \in S.allowed, p[2][1] = r[1]
               PROVE  p[2] = r
    BY <1>6, <1>9
  <2>1. SeenAt(r[1]) = r
    BY DEF Moved
  <2> QED
    BY <1>14, <2>1
<1>17. \A p, q \in S.allowed : p[2][1] = q[2][1] => p[2] = q[2]
  <2> SUFFICES ASSUME NEW p \in S.allowed, NEW q \in S.allowed, p[2][1] = q[2][1] PROVE p[2] = q[2]
    OBVIOUS
  <2>1. p[2] = SeenAt(p[2][1]) /\ q[2] = SeenAt(q[2][1])
    BY <1>14
  <2> QED
    BY <2>1, Zenon
<1>18. S.entry \in Ref /\ S.entry[1] = e /\ Known(S.entry)
  BY <1>2, <1>4, <1>5
<1>19. StandingOf(e, S)
  BY <1>5, <1>12, <1>13, <1>15, <1>16, <1>17, <1>18 DEF StandingOf
<1>20. Pairs(e) = Digest(S)
  <2>1. {x.cited : x \in S.moved} = Moved(e)
    BY <1>8, <1>9
  <2>2. {x.now : x \in S.moved} = {SeenAt(r[1]) : r \in Moved(e)}
    BY <1>8, <1>9
  <2> QED
    BY <1>5, <2>1, <2>2 DEF Pairs, Digest
<1> QED
  BY <1>19, <1>20

\* The same input is the same entry,
LEMMA SameEntry ==
    ASSUME NEW e, NEW S, NEW T, StandingOf(e, S), StandingOf(e, T), Digest(S) = Digest(T)
    PROVE  T.entry = S.entry
<1>1. T.entry[1] = e /\ T.entry \in Digest(S)
  BY DEF StandingOf, Digest
<1>2. \A x \in S.moved : x.cited[1] # e /\ x.now[1] # e
  BY DEF StandingOf, MovedRight
<1>3. \A p \in S.allowed : p[2][1] # e
  BY DEF StandingOf, AllowedRight
<1> QED
  BY <1>1, <1>2, <1>3 DEF Digest

\* the same moved sources,
LEMMA SameMoved ==
    ASSUME NEW e, NEW S, NEW T, StandingOf(e, S), StandingOf(e, T), Digest(S) = Digest(T), Exists(e),
           Single(mems[e].cites[S.entry[2]]), \A r \in mems[e].cites[S.entry[2]] : Exists(r[1])
    PROVE  S.moved \subseteq T.moved
<1>1. T.entry = S.entry
  BY SameEntry
<1> SUFFICES ASSUME NEW x \in S.moved PROVE x \in T.moved
  OBVIOUS
<1> DEFINE r == x.cited
<1>2. /\ MovedRight(e, S, x) /\ x \in [cited: Ref, now: Ref, deleted: BOOLEAN]
      /\ r \in mems[e].cites[S.entry[2]] /\ x.now[1] = r[1] /\ r[1] # e /\ Exists(r[1])
      /\ AsSeen(x.now, x.deleted) /\ (x.deleted \/ x.now # r)
  BY DEF StandingOf, MovedRight
<1>3. \A y \in T.moved : /\ y \in [cited: Ref, now: Ref, deleted: BOOLEAN]
                         /\ y.cited \in mems[e].cites[S.entry[2]] /\ y.now[1] = y.cited[1]
                         /\ AsSeen(y.now, y.deleted)
                         /\ y.cited[1] = r[1] => y.cited = r
  BY <1>1, <1>2 DEF StandingOf, MovedRight, Single
<1>4. T.entry[1] = e /\ x.now \in Digest(T)
  BY <1>2 DEF StandingOf, Digest
<1>5. \/ \E y \in T.moved : y.cited = r
      \/ \A p \in T.allowed : p[2][1] = r[1] => p[2] = r
  BY <1>1, <1>2 DEF StandingOf
<1>6. CASE \E y \in T.moved : y.cited = r
  <2>1. PICK y \in T.moved : y.cited = r
    BY <1>6
  <2>2. \A z \in T.moved : z.cited[1] = r[1] => z = y
    BY <2>1 DEF StandingOf
  <2>3. ASSUME NEW p \in T.allowed, p[2][1] = r[1] PROVE p[2] = y.now
    <3>1. AllowedRight(e, T, p) /\ y.cited[1] = p[2][1]
      BY <2>1, <2>3 DEF StandingOf
    <3> QED
      BY <2>1, <3>1 DEF AllowedRight
  <2>4. x.now \in {r, y.now}
    BY <1>2, <1>3, <1>4, <2>1, <2>2, <2>3 DEF Digest
  <2>5. y.now \in Digest(S) /\ y.now[1] = r[1]
    BY <1>3, <2>1 DEF Digest
  <2>6. \A z \in S.moved : z.cited[1] = r[1] => z = x
    BY DEF StandingOf
  <2>7. \A p \in S.allowed : p[2][1] = r[1] => p[2] = x.now
    BY DEF StandingOf, AllowedRight
  <2>8. S.entry[1] = e /\ \A z \in S.moved : z.now[1] = z.cited[1]
    BY DEF StandingOf, MovedRight
  <2>9. y.now \in {r, x.now}
    BY <1>2, <2>5, <2>6, <2>7, <2>8 DEF Digest
  <2>10. x.now = y.now
    BY <2>4, <2>9
  <2>11. x.deleted = y.deleted
    BY <1>2, <1>3, <2>10 DEF AsSeen
  <2>12. x = y
    BY <1>2, <1>3, <2>1, <2>10, <2>11
  <2> QED
    BY <2>12
<1>7. CASE /\ ~\E y \in T.moved : y.cited = r
           /\ \A p \in T.allowed : p[2][1] = r[1] => p[2] = r
  <2>1. \A y \in T.moved : y.cited[1] # r[1] /\ y.now[1] # r[1]
    BY <1>3, <1>7
  <2>2. \E p \in T.allowed : x.now = p[2]
    BY <1>2, <1>4, <2>1 DEF Digest
  <2>3. PICK p \in T.allowed : x.now = p[2]
    BY <2>2
  <2>4. AsSeen(p[2], FALSE) /\ p[2] = r
    BY <1>2, <1>7, <2>3 DEF StandingOf, AllowedRight
  <2> QED
    BY <1>2, <2>3, <2>4 DEF AsSeen
<1> QED
  BY <1>5, <1>6, <1>7

\* and the same that may stand in for them.
LEMMA SameAllowed ==
    ASSUME NEW e, NEW S, NEW T, StandingOf(e, S), StandingOf(e, T), Digest(S) = Digest(T),
           S.moved = T.moved, NEW p \in S.allowed, Exists(p[2][1])
    PROVE  p \in T.allowed
<1>1. PICK x \in S.moved :
        /\ p = <<x.cited[1], p[2]>>
        /\ IF x.deleted THEN Exists(p[2][1]) => Carries(p[2], x.cited[1]) ELSE p[2] = x.now
  BY DEF StandingOf, AllowedRight
<1>2. \A z \in S.moved : /\ MovedRight(e, T, z) /\ z.now[1] = z.cited[1]
                         /\ z.deleted \in BOOLEAN /\ AsSeen(z.now, z.deleted)
                         /\ ~z.deleted => <<z.cited[1], z.now>> \in T.allowed
  BY DEF StandingOf, MovedRight
<1>3. CASE ~x.deleted
  BY <1>1, <1>2, <1>3
<1>4. CASE x.deleted
  <2>1. /\ p[2][1] # e /\ AsSeen(p[2], FALSE)
        /\ \A z \in S.moved : z.cited[1] = p[2][1] => p[2] = z.now
    BY DEF StandingOf, AllowedRight
  <2>2. \E q \in T.allowed : q[2] = p[2]
    <3>1. p[2] \in Digest(T) /\ T.entry[1] = e
      BY DEF Digest, StandingOf
    <3>2. ASSUME NEW z \in S.moved, z.cited[1] = p[2][1] PROVE <<z.cited[1], p[2]>> \in T.allowed
      <4>1. p[2] = z.now
        BY <2>1, <3>2
      <4>2. ~z.deleted
        BY <1>2, <1>4, <2>1, <4>1 DEF AsSeen
      <4> QED
        BY <1>2, <4>1, <4>2
    <3>3. CASE \E z \in S.moved : z.cited[1] = p[2][1]
      <4>1. PICK z \in S.moved : z.cited[1] = p[2][1]
        BY <3>3
      <4>2. <<z.cited[1], p[2]>> \in T.allowed
        BY <3>2, <4>1
      <4>3. PICK q \in T.allowed : q = <<z.cited[1], p[2]>>
        BY <4>2
      <4> QED
        BY <4>3
    <3> QED
      BY <1>2, <2>1, <3>1, <3>3 DEF Digest
  <2>3. PICK q \in T.allowed : q[2] = p[2]
    BY <2>2
  <2>4. Carries(q[2], x.cited[1]) /\ x \in T.moved /\ AllowedRight(e, T, q)
    BY <1>1, <1>4, <2>3 DEF StandingOf
  <2>5. <<x.cited[1], q[2]>> \in T.allowed
    BY <1>4, <2>3, <2>4 DEF AllowedRight
  <2> QED
    BY <1>1, <2>3, <2>5
<1> QED
  BY <1>3, <1>4

\* What was sent is there.
LEMMA SentIsThere ==
    ASSUME ScopeInv, CitesRight, ListingRight, NEW e, Readable(e)
    PROVE  \A r \in Pairs(e) : Exists(r[1])
<1>1. /\ Exists(e) /\ \A r \in SourcesOf(e) : Seen(r[1]) /\ Exists(r[1])
      /\ \A r \in Moved(e) : r \in SourcesOf(e)
  BY DEF Readable, Moved
<1>2. \A m : SeenAt(m)[1] = m
  BY DEF SeenAt
<1>3. ASSUME NEW p \in Allowed(e) PROVE Exists(p[2][1])
  <2>1. \/ \E r \in Moved(e) : p = <<r[1], SeenAt(r[1])>>
        \/ \E r \in Moved(e) : \E m \in Successors(e, r[1]) : p = <<r[1], SeenAt(m)>>
    BY <1>3 DEF Allowed
  <2>2. CASE \E r \in Moved(e) : p = <<r[1], SeenAt(r[1])>>
    BY <1>1, <1>2, <2>2
  <2>3. CASE \E r \in Moved(e) : \E m \in Successors(e, r[1]) : p = <<r[1], SeenAt(m)>>
    <3>1. PICK r \in Moved(e) : \E m \in Successors(e, r[1]) : p = <<r[1], SeenAt(m)>>
      BY <2>3
    <3>2. PICK m \in Successors(e, r[1]) : p = <<r[1], SeenAt(m)>>
      BY <3>1
    <3>3. Exists(m) /\ p[2][1] = m
      BY <1>2, <3>2 DEF Successors
    <3> QED
      BY <3>3
  <2> QED
    BY <2>1, <2>2, <2>3
<1> SUFFICES ASSUME NEW r \in Pairs(e) PROVE Exists(r[1])
  OBVIOUS
<1>4. CASE r \in {SeenAt(e)} \cup Moved(e) \cup {SeenAt(q[1]) : q \in Moved(e)}
  BY <1>1, <1>2, <1>4
<1>5. CASE r \in {p[2] : p \in Allowed(e)}
  BY <1>3, <1>5
<1> QED
  BY <1>4, <1>5 DEF Pairs

\* An entry the recheck passes over as kept stands as it did.
LEMMA PassedOver ==
    ASSUME ScopeInv, CitesRight, ListingRight, NEW e, Readable(e), NEW S, S = Standing(e),
           NEW T, StandingOf(e, T), Digest(T) = Pairs(e)
    PROVE  T = S
<1>1. StandingOf(e, S) /\ Digest(S) = Digest(T)
  BY StandingIs
<1>2. Exists(e) /\ S.entry = SeenAt(e)
  BY DEF Readable, Standing
<1>3. T.entry = S.entry
  BY <1>1, SameEntry
<1>4. Single(mems[e].cites[S.entry[2]]) /\ \A r \in mems[e].cites[S.entry[2]] : Exists(r[1])
  BY <1>2, AllowedAre DEF SourcesOf, Sourced, Readable
<1>5. T.moved = S.moved
  <2>1. S.moved \subseteq T.moved
    BY <1>1, <1>2, <1>4, SameMoved
  <2>2. T.moved \subseteq S.moved
    BY <1>1, <1>2, <1>3, <1>4, SameMoved
  <2> QED
    BY <2>1, <2>2
<1>6. \A p \in S.allowed \cup T.allowed : Exists(p[2][1])
  <2>1. \A p \in S.allowed \cup T.allowed : p[2] \in Pairs(e)
    BY <1>1 DEF Digest
  <2> QED
    BY <2>1, SentIsThere
<1>7. S.allowed = T.allowed
  <2>1. S.allowed \subseteq T.allowed
    BY <1>1, <1>5, <1>6, SameAllowed
  <2>2. T.allowed \subseteq S.allowed
    BY <1>1, <1>5, <1>6, SameAllowed
  <2> QED
    BY <2>1, <2>2
<1> QED
  BY <1>1, <1>3, <1>5, <1>7 DEF StandingOf

\* An entry is passed over, sent, or left alone as kept.
LEMMA RecheckKept ==
    ASSUME ScopeInv, KeptInv, NEW e \in Memory, Recheck(e), Steady, CitesRight' PROVE KeptInv'
<1>1. /\ KeptStill /\ UNCHANGED mems /\ run.at = "recheck" /\ e \in run.entries
      /\ RunShape /\ MemsOK /\ CitesRight /\ ListingRight /\ ChecksRight
  BY DEF Recheck, KeptStill, ScopeInv, KeptInv
<1>2. CASE run' = [run EXCEPT !.entries = @ \ {e}]
  <2>1. run'.at = "recheck" /\ run'.seen = run.seen
    BY <1>1, <1>2 DEF RunShape
  <2> QED
    BY <1>1, <2>1, ListingKept, BetweenKept
<1>3. CASE /\ Readable(e)
           /\ run' = [[run EXCEPT !.entries = @ \ {e}] EXCEPT
                        !.at = IF Pairs(e) = checks[e] THEN "kept" ELSE "rechecking",
                        !.entry = e, !.sent = Pairs(e), !.sources = SourcesOf(e),
                        !.standing = Standing(e)]
  <2>1. PICK S : S = Standing(e)
    OBVIOUS
  <2>2. /\ run'.at = IF Pairs(e) = checks[e] THEN "kept" ELSE "rechecking"
        /\ run'.seen = run.seen /\ run'.entry = e /\ run'.sent = Pairs(e) /\ run'.standing = S
    BY <1>1, <1>3, <2>1 DEF RunShape
  <2>3. StandingOf(e, S) /\ Pairs(e) = Digest(S)
    BY <1>1, <1>3, <2>1, StandingIs
  <2>4. StandingOf(e, S)'
    BY <1>1, <2>3, StandingStands
  <2>5. ListingRight' /\ PassCites'
    BY <1>1, <2>2, ListingKept DEF PassCites
  <2>6. EntryStands'
    BY <1>1, <2>2, <2>3, <2>4 DEF EntryStands, KeptStill, Digest
  <2>7. KeptAsItStands'
    <3> SUFFICES ASSUME run'.at = "kept" PROVE KeptAsItStands'
      BY DEF KeptAsItStands
    <3>1. PICK T : T = keptOn[e]
      OBVIOUS
    <3>2. checks[e] = Pairs(e) /\ checks[e] # None
      BY <1>1, <1>3, <2>2, EntryFits, MarkersAssumption DEF Readable
    <3>3. StandingOf(e, T) /\ Digest(T) = Pairs(e)
      BY <1>1, <3>1, <3>2 DEF ChecksRight
    <3>4. T = S
      BY <1>1, <1>3, <2>1, <3>3, PassedOver
    <3>5. keptOn'[run'.entry] = T /\ run'.standing = S
      BY <1>1, <2>2, <3>1 DEF KeptStill
    <3> QED
      BY <3>4, <3>5 DEF KeptAsItStands
  <2> QED
    BY <1>1, <2>5, <2>6, <2>7, ChecksKept DEF KeptInv
<1> QED
  BY <1>1, <1>2, <1>3 DEF Recheck, Readable
-----------------------------------------------------------------------------
(* Every keep stands as it did *)

LEMMA InitKept == ASSUME Init, ScopeInv PROVE KeptInv
<1>1. /\ run = NoRun /\ mems \in Stores /\ MemsOK
      /\ checks = [m \in Memory |-> None] /\ keptOn = [m \in Memory |-> None]
  BY DEF Init, ScopeInv
<1>2. run.at = "idle"
  BY <1>1 DEF NoRun
<1>3. CitesRight
  <2> SUFFICES ASSUME NEW m \in Memory, Exists(m), NEW v \in 1..Len(mems[m].cites)
               PROVE  Sourced(m, mems[m].cites[v])
    BY DEF CitesRight
  <2>1. mems[m] \in Row
    BY <1>1, RowsExist
  <2> QED
    BY <1>1, <2>1, CitationsAssumption DEF Sourced, Single, Ids
<1>4. PassCites /\ ListingRight /\ EntryStands /\ KeptAsItStands
  BY <1>2 DEF PassCites, ListingRight, EntryStands, KeptAsItStands
<1>5. ChecksRight
  BY <1>1 DEF ChecksRight
<1>6. checks = [m \in Memory |-> checks[m]] /\ keptOn = [m \in Memory |-> keptOn[m]]
  BY <1>1
<1> QED
  BY <1>3, <1>4, <1>5, <1>6 DEF KeptInv

LEMMA StepKept == ASSUME ScopeInv, KeptInv, [Next]_scopeVars PROVE KeptInv'
<1>1. Steady /\ CitesRight'
  BY StepSteady DEF KeptInv
<1>2. CASE PassStep
  BY <1>1, <1>2, PassStepKept
<1>3. CASE ListEntries \/ LeaveEntry \/ KeepEntry \/ Reword
  BY <1>1, <1>3, ListEntriesKept, LeftKept, KeepEntryKept
<1>4. CASE \E e \in Memory : Recheck(e)
  BY <1>1, <1>4, RecheckKept
<1>5. CASE EditStep \/ UNCHANGED scopeVars
  BY <1>1, <1>5, OthersKept
<1>6. Next => \/ PassStep \/ ListEntries \/ LeaveEntry \/ KeepEntry \/ Reword
              \/ (\E e \in Memory : Recheck(e)) \/ EditStep
  BY DEF Next, PassStep, EditStep
<1> QED
  BY <1>2, <1>3, <1>4, <1>5, <1>6

\* Whatever the model, the others and the scan do, what a keep was given on can be told from the digest
\* it stored, as far as its memories are still there, and the citations it rests on are well formed.
THEOREM KeptInvariant == ScopeSpec => [](ScopeInv /\ KeptInv)
<1>1. Init => ScopeInv /\ KeptInv
  BY InitRight, InitKept
<1>2. (ScopeInv /\ KeptInv) /\ [Next]_scopeVars => (ScopeInv /\ KeptInv)'
  BY StepRight, StepKept
<1> QED
  BY <1>1, <1>2, PTL DEF ScopeSpec

\* A global entry the recheck leaves alone because its digest is the one stored (_recheck in extract.py,
\* source_checks) stands as it stood when it was kept: the digest, a set of versions that no longer
\* says which memory stood for which, cannot be that of another state of its sources.
THEOREM KeptAsItStandsHolds == ScopeSpec => []KeptAsItStands
<1>1. KeptInv => KeptAsItStands
  BY DEF KeptInv
<1> QED
  BY <1>1, KeptInvariant, PTL
-----------------------------------------------------------------------------
(* Walks *)

\* A set of numbers that has 0, and with each the next, has them all.
LEMMA AllNumbers ==
    ASSUME NEW S \in SUBSET Nat, 0 \in S, \A n \in S : n + 1 \in S
    PROVE  S = Nat
<1> SUFFICES ASSUME Nat \ S # {} PROVE FALSE
  OBVIOUS
<1>1. PICK R : R = OpToRel(<, Nat)
  OBVIOUS
<1>2. IsWellFoundedOn(R, Nat)
  BY <1>1, NatLessThanWellFounded
<1>3. \A x, y \in Nat : <<x, y>> \in R <=> x < y
  BY <1>1 DEF OpToRel
<1>4. PICK n \in Nat \ S : \A y \in Nat \ S : ~(<<y, n>> \in R)
  BY <1>2, WFMin
<1>5. n # 0 /\ n - 1 \in Nat /\ n - 1 < n /\ (n - 1) + 1 = n
  BY <1>4
<1>6. n - 1 \in S
  BY <1>3, <1>4, <1>5
<1> QED
  BY <1>4, <1>5, <1>6

\* One step of a walk, and all of them.
Further(next, some) == some \cup UNION {next[x] : x \in some \cap DOMAIN next}
Walk(next, from, n, reached) ==
    reached = [i \in 0..n |-> IF i = 0 THEN from ELSE Further(next, reached[i - 1])]

LEMMA WalkExists ==
    ASSUME NEW next, NEW from
    PROVE  \A n \in Nat : \E reached : Walk(next, from, n, reached)
<1> DEFINE S == {n \in Nat : \E reached : Walk(next, from, n, reached)}
<1>1. 0 \in S
  <2>1. PICK g : g = [i \in 0..0 |-> from]
    OBVIOUS
  <2>2. g = [i \in 0..0 |-> IF i = 0 THEN from ELSE Further(next, g[i - 1])]
    BY <2>1
  <2> QED
    BY <2>2 DEF Walk
<1>2. ASSUME NEW n \in S PROVE n + 1 \in S
  <2>1. PICK g : Walk(next, from, n, g)
    OBVIOUS
  <2>2. PICK h : h = [i \in 0..(n + 1) |-> IF i = n + 1 THEN Further(next, g[n]) ELSE g[i]]
    OBVIOUS
  <2>3. ASSUME NEW i \in 0..(n + 1) PROVE h[i] = IF i = 0 THEN from ELSE Further(next, h[i - 1])
    <3>1. CASE i = n + 1
      BY <2>2, <3>1
    <3>2. CASE i # n + 1
      <4>1. i \in 0..n
        BY <3>2
      <4>2. g[i] = IF i = 0 THEN from ELSE Further(next, g[i - 1])
        BY <2>1, <4>1 DEF Walk
      <4>3. h[i] = g[i] /\ (i # 0 => h[i - 1] = g[i - 1])
        BY <2>2, <3>2, <4>1
      <4> QED
        BY <4>2, <4>3
    <3> QED
      BY <3>1, <3>2
  <2>4. h = [i \in 0..(n + 1) |-> IF i = 0 THEN from ELSE Further(next, h[i - 1])]
    BY <2>2, <2>3
  <2> QED
    BY <2>4 DEF Walk
<1>3. S = Nat
  BY <1>1, <1>2, AllNumbers
<1> QED
  BY <1>3

LEMMA AllTheWayIs ==
    ASSUME NEW next, NEW from, Cardinality(DOMAIN next) \in Nat
    PROVE  \E reached : /\ Walk(next, from, Cardinality(DOMAIN next), reached)
                        /\ AllTheWay(next, from) = reached[Cardinality(DOMAIN next)]
<1>1. PICK n \in Nat : n = Cardinality(DOMAIN next)
  OBVIOUS
<1>2. PICK g : Walk(next, from, n, g)
  BY WalkExists
<1>3. PICK f : f = CHOOSE h : h = [i \in 0..n |-> IF i = 0 THEN from
                                   ELSE h[i - 1] \cup UNION {next[x] : x \in h[i - 1] \cap DOMAIN next}]
  OBVIOUS
<1>4. f = [i \in 0..n |-> IF i = 0 THEN from
                          ELSE f[i - 1] \cup UNION {next[x] : x \in f[i - 1] \cap DOMAIN next}]
  BY <1>2, <1>3, Zenon DEF Walk, Further
<1>5. AllTheWay(next, from) = f[n]
  BY <1>1, <1>3, Zenon DEF AllTheWay
<1> QED
  BY <1>1, <1>4, <1>5 DEF Walk, Further

\* A walk stays within what has where it starts, and with each what next gives for it.
LEMMA AllTheWayWithin ==
    ASSUME NEW next, NEW from, Cardinality(DOMAIN next) \in Nat,
           NEW Z, from \subseteq Z, \A x \in Z \cap DOMAIN next : next[x] \subseteq Z
    PROVE  AllTheWay(next, from) \subseteq Z
<1> PICK n \in Nat : n = Cardinality(DOMAIN next)
  OBVIOUS
<1>1. PICK reached : Walk(next, from, n, reached) /\ AllTheWay(next, from) = reached[n]
  BY AllTheWayIs
<1> DEFINE S == {i \in Nat : i <= n => reached[i] \subseteq Z}
<1>2. 0 \in S
  BY <1>1 DEF Walk
<1>3. ASSUME NEW i \in S PROVE i + 1 \in S
  <2> SUFFICES ASSUME i + 1 <= n PROVE reached[i + 1] \subseteq Z
    OBVIOUS
  <2>1. reached[i] \subseteq Z
    OBVIOUS
  <2>2. reached[i + 1] = Further(next, reached[i])
    <3>1. i + 1 \in 0..n /\ i + 1 # 0 /\ (i + 1) - 1 = i
      OBVIOUS
    <3> QED
      BY <1>1, <3>1 DEF Walk
  <2> QED
    BY <2>1, <2>2 DEF Further
<1>4. S = Nat
  BY <1>2, <1>3, AllNumbers
<1>5. n \in S
  BY <1>4
<1> QED
  BY <1>1, <1>5

\* It has all of that: where there is no way on for good, there is none after as many steps as there
\* are places to go on from.
LEMMA AllTheWayClosed ==
    ASSUME NEW next, NEW from, IsFiniteSet(DOMAIN next)
    PROVE  /\ from \subseteq AllTheWay(next, from)
           /\ \A x \in AllTheWay(next, from) \cap DOMAIN next : next[x] \subseteq AllTheWay(next, from)
<1>1. Cardinality(DOMAIN next) \in Nat
  BY FS_CardinalityType
<1> PICK n \in Nat : n = Cardinality(DOMAIN next)
  BY <1>1
<1>2. PICK reached : Walk(next, from, n, reached) /\ AllTheWay(next, from) = reached[n]
  BY <1>1, AllTheWayIs
<1> DEFINE D == DOMAIN next
           Size(i) == Cardinality(reached[i] \cap D)
           S == {i \in Nat : i <= n => /\ from \subseteq reached[i]
                                       /\ \/ Further(next, reached[i]) = reached[i]
                                          \/ i + 1 <= Size(i)}
<1>3. \A X : IsFiniteSet(X \cap D) /\ Cardinality(X \cap D) \in Nat /\ Cardinality(X \cap D) <= n
  <2> SUFFICES ASSUME NEW X
               PROVE  IsFiniteSet(X \cap D) /\ Cardinality(X \cap D) \in Nat /\ Cardinality(X \cap D) <= n
    OBVIOUS
  <2>1. X \cap D \in SUBSET D
    OBVIOUS
  <2>2. IsFiniteSet(X \cap D) /\ Cardinality(X \cap D) <= n
    BY <2>1, FS_Subset
  <2> QED
    BY <2>2, FS_CardinalityType
<1>4. 0 \in S
  <2>1. reached[0] = from
    BY <1>2 DEF Walk
  <2>2. CASE from \cap D = {}
    BY <2>1, <2>2 DEF Further
  <2>3. CASE from \cap D # {}
    <3>1. Size(0) # 0
      BY <1>3, <2>1, <2>3, FS_EmptySet
    <3>2. Size(0) \in Nat
      BY <1>3
    <3>3. 0 + 1 <= Size(0)
      BY <3>1, <3>2
    <3> QED
      BY <2>1, <3>3
  <2> QED
    BY <2>2, <2>3
<1>5. ASSUME NEW i \in S PROVE i + 1 \in S
  <2> SUFFICES ASSUME i + 1 <= n
               PROVE  /\ from \subseteq reached[i + 1]
                      /\ \/ Further(next, reached[i + 1]) = reached[i + 1]
                         \/ (i + 1) + 1 <= Size(i + 1)
    OBVIOUS
  <2>1. reached[i + 1] = Further(next, reached[i])
    <3>1. i + 1 \in 0..n /\ i + 1 # 0 /\ (i + 1) - 1 = i
      OBVIOUS
    <3> QED
      BY <1>2, <3>1 DEF Walk
  <2>2. /\ i <= n /\ from \subseteq reached[i]
        /\ Further(next, reached[i]) = reached[i] \/ i + 1 <= Size(i)
    OBVIOUS
  <2>3. from \subseteq reached[i + 1]
    BY <2>1, <2>2 DEF Further
  <2>4. CASE Further(next, reached[i]) = reached[i]
    BY <2>1, <2>3, <2>4
  <2>5. CASE i + 1 <= Size(i) /\ Further(next, reached[i + 1]) # reached[i + 1]
    <3>1. reached[i] \cap D \subseteq reached[i + 1] \cap D
      BY <2>1 DEF Further
    <3>2. reached[i] \cap D # reached[i + 1] \cap D
      BY <2>1, <2>5 DEF Further
    <3>3. /\ Size(i) \in Nat /\ Size(i + 1) \in Nat
          /\ Size(i) <= Size(i + 1) /\ Size(i) # Size(i + 1)
      BY <1>3, <3>1, <3>2, FS_Subset
    <3>4. (i + 1) + 1 <= Size(i + 1)
      BY <2>5, <3>3
    <3> QED
      BY <2>3, <3>4
  <2> QED
    BY <2>2, <2>3, <2>4, <2>5
<1>6. S = Nat
  BY <1>4, <1>5, AllNumbers
<1>7. /\ from \subseteq reached[n]
      /\ Further(next, reached[n]) = reached[n] \/ n + 1 <= Size(n)
  <2>1. n \in S
    BY <1>6
  <2> QED
    BY <2>1
<1>8. Further(next, reached[n]) = reached[n]
  <2>1. Size(n) \in Nat /\ Size(n) <= n
    BY <1>3
  <2> QED
    BY <1>7, <2>1
<1> QED
  BY <1>2, <1>7, <1>8 DEF Further
-----------------------------------------------------------------------------
(* The two projects an extracted entry comes from *)

\* Two of the memories a walk from these passes are of different ordinary projects.
FromTwo(refs) ==
    \E r, q \in AllTheWay(Cites, refs) :
        /\ mems[r[1]].project # mems[q[1]].project
        /\ Global \notin {mems[r[1]].project, mems[q[1]].project}

\* What is cited is there.
CitesThere ==
    \A m \in Memory : Exists(m) =>
        \A v \in 1..Len(mems[m].cites), r \in Ref : r \in mems[m].cites[v] => There(r)

\* Who a memory belongs to does not change, so what extraction read of it holds.
OwnerRight ==
    run.at \in {"judging", "applying"} /\ TheScope = Extraction =>
        \A m \in DOMAIN run.owner :
            /\ m \in Memory /\ mems[m] # None
            /\ Exists(m) => run.owner[m] = mems[m].project

\* What was traced and is still all there is of two projects.
ChangeTraced ==
    run.at = "applying" =>
        \A g \in {run.change} :
            /\ g.into = None => g.target # None
            /\ (g.target # None => Exists(g.target[1])) /\ (\A r \in g.cites : There(r)) => FromTwo(g.cites)

ExtractedTwo ==
    \A r \in extracted : /\ r \in Ref /\ Known(r)
                         /\ Exists(r[1]) => FromTwo(mems[r[1]].cites[r[2]])

TwoInv == CitesThere /\ OwnerRight /\ ChangeTraced /\ ExtractedTwo

LEMMA CitesAre ==
    ASSUME MemsOK
    PROVE  /\ DOMAIN Cites = {r \in Ref : There(r)} /\ IsFiniteSet(DOMAIN Cites)
           /\ \A r \in DOMAIN Cites : Cites[r] = mems[r[1]].cites[r[2]]
<1>1. DOMAIN Cites = {r \in Ref : Exists(r[1]) /\ r[2] <= Len(mems[r[1]].cites)}
  BY DEF Cites
<1>2. \A r \in Ref : Exists(r[1]) /\ r[2] <= Len(mems[r[1]].cites) <=> There(r)
  <2> SUFFICES ASSUME NEW m \in Memory, NEW n \in 1..MaxVersion, Exists(m)
               PROVE  n <= Len(mems[m].cites) <=> n \in 1..Len(mems[m].cites)
    BY DEF Ref, There
  <2>1. Len(mems[m].cites) \in 1..MaxVersion
    BY RowsExist
  <2> QED
    BY <2>1, StoresAssumption
<1>3. IsFiniteSet(Ref)
  <2>1. IsFiniteSet(1..MaxVersion)
    BY StoresAssumption, FS_Interval
  <2> QED
    BY <2>1, MemoryAssumption, FS_Product DEF Ref
<1>4. DOMAIN Cites \in SUBSET Ref
  BY <1>1
<1>5. IsFiniteSet(DOMAIN Cites)
  BY <1>3, <1>4, FS_Subset
<1> QED
  BY <1>1, <1>2, <1>5 DEF Cites

\* A walk along citations stays among versions that are there.
LEMMA WalkThere ==
    ASSUME MemsOK, CitesThere, NEW refs, refs \subseteq DOMAIN Cites
    PROVE  AllTheWay(Cites, refs) \subseteq DOMAIN Cites
<1>1. \A x \in DOMAIN Cites : Cites[x] \subseteq DOMAIN Cites
  <2> SUFFICES ASSUME NEW x \in DOMAIN Cites, NEW r \in Cites[x] PROVE r \in DOMAIN Cites
    OBVIOUS
  <2>1. x \in Ref /\ There(x) /\ r \in mems[x[1]].cites[x[2]]
    BY CitesAre
  <2>2. x[1] \in Memory /\ mems[x[1]].cites \in Seq(SUBSET Ref)
    BY <2>1, RowsExist DEF There, Ref
  <2>3. r \in Ref
    BY <2>1, <2>2 DEF There
  <2> QED
    BY <2>1, <2>2, <2>3, CitesAre DEF CitesThere, There
<1> QED
  BY <1>1, CitesAre, FS_CardinalityType, AllTheWayWithin

\* So it was before a step and is after.
LEMMA AfterwardsToo ==
    ASSUME NEW refs
    PROVE  /\ (MemsOK => /\ DOMAIN Cites = {r \in Ref : There(r)} /\ IsFiniteSet(DOMAIN Cites)
                         /\ \A r \in DOMAIN Cites : Cites[r] = mems[r[1]].cites[r[2]])'
           /\ (MemsOK /\ CitesThere /\ refs \subseteq DOMAIN Cites
                    => AllTheWay(Cites, refs) \subseteq DOMAIN Cites)'
<1>1. MemsOK => /\ DOMAIN Cites = {r \in Ref : There(r)} /\ IsFiniteSet(DOMAIN Cites)
                /\ \A r \in DOMAIN Cites : Cites[r] = mems[r[1]].cites[r[2]]
  BY CitesAre
<1>2. MemsOK /\ CitesThere /\ refs \subseteq DOMAIN Cites
          => AllTheWay(Cites, refs) \subseteq DOMAIN Cites
  BY WalkThere
<1> QED
  BY <1>1, <1>2, PTL

\* Two projects stay two, while what was walked from is there.
LEMMA FromTwoStands ==
    ASSUME MemsOK, CitesThere, Steady, CitesThere',
           NEW refs \in SUBSET Ref, \A r \in refs : Known(r) /\ There(r)', FromTwo(refs)
    PROVE  FromTwo(refs)'
<1>1. MemsOK'
  BY GrowKeeps DEF Steady
<1> PICK C, D : C = Cites /\ D = Cites'
  OBVIOUS
<1>2. /\ DOMAIN C = {r \in Ref : There(r)} /\ IsFiniteSet(DOMAIN C)
      /\ \A r \in DOMAIN C : C[r] = mems[r[1]].cites[r[2]]
  BY CitesAre
<1>3. /\ DOMAIN D = {r \in Ref : There(r)'} /\ IsFiniteSet(DOMAIN D)
      /\ \A r \in DOMAIN D : D[r] = mems'[r[1]].cites[r[2]]
  BY <1>1, AfterwardsToo
<1>4. \A r \in Ref : There(r) => Known(r)
  BY DEF There, Known
<1>5. \A r \in Ref : Known(r) /\ There(r)' =>
         There(r) /\ mems'[r[1]].cites[r[2]] = mems[r[1]].cites[r[2]]
  BY VersionStands DEF There
<1>6. refs \subseteq DOMAIN C /\ refs \subseteq DOMAIN D
  BY <1>2, <1>3, <1>5
<1> DEFINE Z == AllTheWay(D, refs)
<1>7. Z \subseteq DOMAIN D
  BY <1>1, <1>6, AfterwardsToo
<1>8. refs \subseteq Z /\ \A x \in Z \cap DOMAIN D : D[x] \subseteq Z
  BY <1>3, AllTheWayClosed
<1>9. \A x \in Z \cap DOMAIN C : C[x] \subseteq Z
  <2> SUFFICES ASSUME NEW x \in Z \cap DOMAIN C PROVE C[x] \subseteq Z
    OBVIOUS
  <2>1. x \in DOMAIN D /\ x \in Ref /\ There(x) /\ There(x)'
    BY <1>2, <1>3, <1>7
  <2>2. C[x] = D[x]
    BY <1>2, <1>3, <1>4, <1>5, <2>1
  <2> QED
    BY <1>8, <2>1, <2>2
<1>10. AllTheWay(C, refs) \subseteq Z
  BY <1>2, <1>8, <1>9, FS_CardinalityType, AllTheWayWithin
<1>11. AllTheWay(C, refs) \subseteq DOMAIN C
  BY <1>6, WalkThere
<1>12. PICK r \in AllTheWay(C, refs), q \in AllTheWay(C, refs) :
          /\ mems[r[1]].project # mems[q[1]].project
          /\ Global \notin {mems[r[1]].project, mems[q[1]].project}
  BY DEF FromTwo
<1>13. ASSUME NEW x \in AllTheWay(C, refs) PROVE mems'[x[1]].project = mems[x[1]].project
  <2>1. x \in Ref /\ There(x) /\ There(x)'
    BY <1>2, <1>3, <1>7, <1>10, <1>11
  <2>2. x[1] \in Memory /\ mems[x[1]] # None /\ Exists(x[1])'
    BY <2>1 DEF Ref, There, Exists
  <2> QED
    BY <2>2, GrowKeeps DEF Steady
<1>14. /\ r \in AllTheWay(D, refs) /\ q \in AllTheWay(D, refs)
       /\ mems'[r[1]].project # mems'[q[1]].project
       /\ Global \notin {mems'[r[1]].project, mems'[q[1]].project}
  BY <1>10, <1>12, <1>13
<1> HIDE DEF Z
<1> QED
  BY <1>14 DEF FromTwo

\* Two projects are more than one.
LEMMA TwoIsMore ==
    ASSUME MemsOK, CitesThere, NEW r \in Ref, There(r), FromTwo(mems[r[1]].cites[r[2]])
    PROVE  Cardinality({mems[m].project : m \in Ids(Behind(r))} \ {Global}) > 1
<1> DEFINE refs == mems[r[1]].cites[r[2]]
           S == {mems[m].project : m \in Ids(Behind(r))} \ {Global}
<1>1. r \in DOMAIN Cites /\ Cites[r] = refs
  BY CitesAre
<1>2. refs \subseteq DOMAIN Cites
  <2>1. r[1] \in Memory /\ mems[r[1]].cites \in Seq(SUBSET Ref)
    BY RowsExist DEF There, Ref
  <2> QED
    BY <2>1, CitesAre DEF CitesThere, There
<1> HIDE DEF refs
<1>3. Behind(r) = AllTheWay(Cites, refs) /\ Behind(r) \subseteq DOMAIN Cites
  BY <1>1, <1>2, WalkThere DEF Behind
<1>4. S \subseteq Ordinary
  <2> SUFFICES ASSUME NEW x \in Behind(r), mems[x[1]].project # Global
               PROVE  mems[x[1]].project \in Ordinary
    BY DEF Ids
  <2>1. x \in Ref /\ There(x)
    BY <1>3, CitesAre
  <2>2. x[1] \in Memory /\ Exists(x[1])
    BY <2>1 DEF Ref, There
  <2> QED
    BY <2>2, RowsExist DEF Project
<1>5. IsFiniteSet(Ordinary)
  <2>1. Len(ProjectOrder) \in Nat
    BY ProjectsAssumption
  <2>2. IsFiniteSet(1..Len(ProjectOrder))
    BY <2>1, FS_Interval
  <2> DEFINE f == [i \in 1..Len(ProjectOrder) |-> ProjectOrder[i]]
  <2>3. f \in Surjection(1..Len(ProjectOrder), Ordinary)
    BY Fun_IsSurj DEF Ordinary
  <2> QED
    BY <2>2, <2>3, FS_Surjection
<1>6. PICK a, b : a \in S /\ b \in S /\ a # b
  <2>1. PICK x \in Behind(r), y \in Behind(r) :
          /\ mems[x[1]].project # mems[y[1]].project
          /\ Global \notin {mems[x[1]].project, mems[y[1]].project}
    BY <1>3 DEF FromTwo, refs
  <2> QED
    BY <2>1 DEF Ids
<1> HIDE DEF S
<1>7. IsFiniteSet(S) /\ Cardinality(S) \in Nat
  BY <1>4, <1>5, FS_Subset, FS_CardinalityType
<1>8. IsFiniteSet({a}) /\ Cardinality({a}) = 1
  BY FS_Singleton
<1>9. Cardinality({a} \cup {b}) = 2
  <2>1. b \notin {a} /\ 1 + 1 = 2
    BY <1>6
  <2>2. Cardinality({a} \cup {b}) = IF b \in {a} THEN Cardinality({a}) ELSE Cardinality({a}) + 1
    BY <1>8, FS_AddElement
  <2> QED
    BY <1>8, <2>1, <2>2
<1>10. Cardinality({a} \cup {b}) <= Cardinality(S)
  BY <1>6, <1>7, FS_Subset
<1>11. Cardinality(S) > 1
  BY <1>7, <1>9, <1>10
<1> QED
  BY <1>11 DEF S
-----------------------------------------------------------------------------
(* What is cited stays there *)

\* Where nothing goes, what was cited stays, and what is newly cited was there.
LEMMA NoneGoes ==
    ASSUME MemsOK, CitesThere, Steady, \A m \in Memory : Exists(m) => mems'[m] # Gone,
           \A m \in Memory : Adds(m) => \A r \in Ref : r \in Added(m) => There(r)
    PROVE  CitesThere'
<1>1. \A r \in Ref : There(r) => There(r)'
  <2> SUFFICES ASSUME NEW r \in Ref, There(r) PROVE There(r)'
    OBVIOUS
  <2>1. r[1] \in Memory /\ mems'[r[1]] # Gone
    BY DEF Ref, There
  <2>2. Known(r)'
    BY VersionStands DEF There, Known
  <2> QED
    BY <2>1, <2>2 DEF Known, There
<1> SUFFICES ASSUME NEW m \in Memory, Exists(m)', NEW v \in 1..Len(mems'[m].cites),
                    NEW r \in Ref, r \in mems'[m].cites[v]
             PROVE  There(r)
  BY <1>1 DEF CitesThere
<1>2. ASSUME Exists(m), v \in 1..Len(mems[m].cites), mems'[m].cites[v] = mems[m].cites[v]
      PROVE  There(r)
  BY <1>2 DEF CitesThere
<1>3. CASE mems'[m] = mems[m]
  BY <1>2, <1>3 DEF Exists
<1>4. CASE mems'[m] # mems[m]
  <2>1. Adds(m) /\ Grown(m, mems'[m])
    BY <1>4 DEF Adds, Exists, Grow, Steady
  <2>2. CASE v = Len(mems'[m].cites)
    BY <2>1, <2>2 DEF Added
  <2>3. CASE v # Len(mems'[m].cites)
    <3>1. Len(mems'[m].cites) # 1
      <4>1. ASSUME Len(mems'[m].cites) = 1 PROVE FALSE
        <5>1. v \in 1..1
          BY <4>1, Zenon
        <5>2. v = 1
          BY <5>1
        <5> QED
          BY <2>3, <4>1, <5>2
      <4> QED
        BY <4>1
    <3>2. /\ Exists(m) /\ Len(mems'[m].cites) = Len(mems[m].cites) + 1
          /\ \A i \in 1..Len(mems[m].cites) : mems'[m].cites[i] = mems[m].cites[i]
      BY <2>1, <3>1 DEF Grown, Adds
    <3>3. Len(mems[m].cites) \in 1..MaxVersion
      BY <3>2, RowsExist
    <3>4. v \in 1..Len(mems[m].cites)
      BY <2>3, <3>2, <3>3, StoresAssumption
    <3> QED
      BY <1>2, <3>2, <3>4
  <2> QED
    BY <2>2, <2>3
<1> QED
  BY <1>3, <1>4

\* What cites a memory goes with it, so no more than it does may be reached from what it cites.
LEMMA ReachOn ==
    ASSUME MemsOK, NEW k \in Memory, Exists(k), NEW v \in 1..Len(mems[k].cites),
           NEW r \in mems[k].cites[v]
    PROVE  Reach({r[1]}) \subseteq Reach({k})
<1> DEFINE next == [m \in {j \in Memory : Exists(j)} |->
                       UNION {Ids(mems[m].cites[i]) : i \in 1..Len(mems[m].cites)}]
<1>1. \A ids : Reach(ids) = AllTheWay(next, ids)
  BY DEF Reach
<1>2. IsFiniteSet(DOMAIN next)
  <2>1. DOMAIN next \in SUBSET Memory
    OBVIOUS
  <2> QED
    BY <2>1, MemoryAssumption, FS_Subset
<1>3. k \in DOMAIN next /\ r[1] \in next[k]
  BY DEF Ids
<1> HIDE DEF next
<1>4. {k} \subseteq Reach({k}) /\ \A x \in Reach({k}) \cap DOMAIN next : next[x] \subseteq Reach({k})
  BY <1>1, <1>2, AllTheWayClosed
<1>5. {r[1]} \subseteq Reach({k})
  BY <1>3, <1>4
<1> QED
  BY <1>1, <1>2, <1>4, <1>5, FS_CardinalityType, AllTheWayWithin

\* A purge takes along whatever cites what it takes.
LEMMA PurgeThere ==
    ASSUME MemsOK, CitesThere, NEW m \in Memory, Purge(m) PROVE CitesThere'
<1>1. mems' = [k \in Memory |-> IF Exists(k) /\ m \in Reach({k}) THEN Gone ELSE mems[k]]
  BY DEF Purge, Edit
<1> SUFFICES ASSUME NEW k \in Memory, Exists(k)', NEW v \in 1..Len(mems'[k].cites),
                    NEW r \in Ref, r \in mems'[k].cites[v]
             PROVE  There(r)'
  BY DEF CitesThere
<1>2. mems'[k] = mems[k] /\ Exists(k) /\ m \notin Reach({k})
  BY <1>1 DEF Exists
<1>3. There(r) /\ r[1] \in Memory
  BY <1>2 DEF CitesThere, Ref
<1>4. m \notin Reach({r[1]})
  BY <1>2, ReachOn
<1>5. mems'[r[1]] = mems[r[1]]
  BY <1>1, <1>3, <1>4
<1> QED
  BY <1>3, <1>5 DEF There, Exists

LEMMA LastThere ==
    ASSUME MemsOK, CitesThere, NEW m \in Memory, Exists(m), NEW r \in Ref, r \in Last(m)
    PROVE  There(r)
<1>1. Len(mems[m].cites) \in 1..Len(mems[m].cites)
  BY RowsExist, StoresAssumption
<1> QED
  BY <1>1 DEF CitesThere, Last

\* All a group cites is there when it applies.
LEMMA GroupThere ==
    ASSUME MemsOK, CitesThere, NEW g, g.cites \in SUBSET Ref, g.target \in Ref \cup {None}, Applies(g)
    PROVE  \A r \in g.cites : There(r)
<1> SUFFICES ASSUME NEW r \in g.cites PROVE There(r)
  OBVIOUS
<1>1. CASE r \in NewlyCited(g)
  BY <1>1, NewlyCitedThere
<1>2. CASE r \notin NewlyCited(g)
  <2>1. g.target # None /\ r \in Last(g.target[1])
    BY <1>2 DEF NewlyCited, Last
  <2>2. g.target[1] \in Memory /\ Exists(g.target[1])
    BY <2>1 DEF Applies, Changed, Live, Ref
  <2> QED
    BY <2>1, <2>2, LastThere
<1> QED
  BY <1>1, <1>2

LEMMA GroupKeepsThere ==
    ASSUME MemsOK, CitesThere, Steady, ByGroup PROVE CitesThere'
<1> PICK g, new : \E sent, old \in SUBSET Ref :
        /\ Fits(g, sent, old) /\ SourcedGroup(g)
        /\ new \in Fresh(g) /\ Applies(g) /\ mems' = Written(g, new)
  BY Zenon DEF ByGroup
<1> PICK sent \in SUBSET Ref, old \in SUBSET Ref :
        /\ Fits(g, sent, old) /\ SourcedGroup(g)
        /\ new \in Fresh(g) /\ Applies(g) /\ mems' = Written(g, new)
  OBVIOUS
<1>1. \A r \in g.cites : There(r)
  BY GroupThere DEF Fits
<1>2. \A m \in Memory : Adds(m) => (Exists(m) /\ Added(m) = Last(m)) \/ Added(m) = g.cites
  BY WrittenAdds
<1>3. \A m \in Memory : Exists(m) => mems'[m] # Gone
  BY WrittenAdds
<1>4. \A m \in Memory : Adds(m) => \A r \in Ref : r \in Added(m) => There(r)
  BY <1>1, <1>2, LastThere
<1> QED
  BY <1>3, <1>4, NoneGoes

LEMMA StepThere ==
    ASSUME ScopeInv, PassCites, EntryStands, CitesRight, CitesThere, Steady, [Next]_scopeVars
    PROVE  CitesThere'
<1>1. MemsOK
  BY DEF ScopeInv
<1>2. CASE UNCHANGED mems
  <2>1. \A m : Exists(m)' <=> Exists(m)
    BY <1>2 DEF Exists
  <2>2. \A r : There(r)' <=> There(r)
    BY <1>2, <2>1 DEF There
  <2> QED
    BY <1>2, <2>1, <2>2 DEF CitesThere
<1>3. CASE EditStep
  <2>1. CASE \E m \in Memory : Purge(m)
    BY <1>1, <2>1, PurgeThere
  <2>2. CASE ~\E m \in Memory : Purge(m)
    <3>1. /\ \A m \in Memory : Exists(m) => mems'[m] # Gone
          /\ \A m \in Memory : Adds(m) => Added(m) = {} \/ (Exists(m) /\ Repeats(m))
      BY <1>1, <1>3, <2>2, EditAdds
    <3>2. \A m \in Memory : Adds(m) => \A r \in Ref : r \in Added(m) => There(r)
      BY <3>1 DEF Repeats, CitesThere
    <3> QED
      BY <1>1, <3>1, <3>2, NoneGoes
  <2> QED
    BY <2>1, <2>2
<1>4. CASE Consolidate \/ ApplyExtracted \/ Reword
  <2>1. ByGroup
    <3>1. CASE Consolidate
      BY <3>1, ConsolidateByGroup
    <3>2. CASE ApplyExtracted
      BY <3>2, ApplyExtractedByGroup
    <3>3. CASE Reword
      BY <3>3, RewordByGroup
    <3> QED
      BY <1>4, <3>1, <3>2, <3>3
  <2> QED
    BY <1>1, <2>1, GroupKeepsThere
<1>5. Next => Consolidate \/ ApplyExtracted \/ Reword \/ EditStep \/ UNCHANGED mems
  BY DEF Next, StartRun, Scan, List, ReadSources, NoAnswer, Answered, Flag, NotApplied, Extract,
      EndPass, ListEntries, Recheck, LeaveEntry, KeepEntry, EndRun, Kill, EditStep
<1> QED
  BY <1>2, <1>3, <1>4, <1>5 DEF scopeVars
-----------------------------------------------------------------------------
(* What was traced *)

\* A trace goes no further than the citations do.
LEMMA TrailWithin ==
    ASSUME MemsOK, NEW refs, refs \subseteq DOMAIN Cites
    PROVE  Trail(refs) \subseteq AllTheWay(Cites, refs)
<1> DEFINE some == {r \in DOMAIN Cites : r[1] \in DOMAIN run.owner /\ run.owner[r[1]] = Global}
           next == [r \in some |-> Cites[r]]
<1>1. Trail(refs) = AllTheWay(next, refs)
  BY DEF Trail
<1>2. some \in SUBSET DOMAIN Cites /\ DOMAIN next = some
  OBVIOUS
<1>3. Cardinality(DOMAIN next) \in Nat
  <2> HIDE DEF some, next
  <2>1. IsFiniteSet(DOMAIN Cites)
    BY CitesAre
  <2>2. IsFiniteSet(some)
    BY <1>2, <2>1, FS_Subset
  <2> QED
    BY <1>2, <2>2, FS_CardinalityType
<1> DEFINE Z == AllTheWay(Cites, refs)
<1>4. refs \subseteq Z /\ \A x \in Z \cap DOMAIN Cites : Cites[x] \subseteq Z
  BY CitesAre, AllTheWayClosed
<1>5. \A x \in Z \cap DOMAIN next : next[x] \subseteq Z
  <2> HIDE DEF Z
  <2> QED
    BY <1>4
<1> HIDE DEF next, Z
<1>6. AllTheWay(next, refs) \subseteq Z
  BY <1>3, <1>4, <1>5, AllTheWayWithin
<1> QED
  BY <1>1, <1>6 DEF Z

\* More than one is two that differ.
LEMMA MoreIsTwo ==
    ASSUME NEW S, Cardinality(S) > 1
    PROVE  \E a, b \in S : a # b
<1> SUFFICES ASSUME \A a, b \in S : a = b PROVE FALSE
  OBVIOUS
<1>1. CASE S = {}
  BY <1>1, FS_EmptySet
<1>2. CASE S # {}
  <2>1. PICK a : S = {a}
    BY <1>2
  <2>2. Cardinality(S) = 1
    BY <2>1, FS_Singleton
  <2> QED
    BY <2>2
<1> QED
  BY <1>1, <1>2

LEMMA TracedFromTwo ==
    ASSUME MemsOK, CitesThere, OwnerRight, run.at = "judging", TheScope = Extraction,
           NEW refs, refs \subseteq DOMAIN Cites, Traceable(refs), Cardinality(Traced(refs)) > 1
    PROVE  FromTwo(refs)
<1>1. Trail(refs) \subseteq AllTheWay(Cites, refs) /\ AllTheWay(Cites, refs) \subseteq DOMAIN Cites
  BY TrailWithin, WalkThere
<1>2. PICK a \in Traced(refs), b \in Traced(refs) : a # b
  BY MoreIsTwo
<1>3. PICK r \in Trail(refs), q \in Trail(refs) :
         a = run.owner[r[1]] /\ b = run.owner[q[1]] /\ a # Global /\ b # Global
  BY DEF Traced, Ids
<1>4. \A x \in Trail(refs) : run.owner[x[1]] = mems[x[1]].project
  <2> SUFFICES ASSUME NEW x \in Trail(refs) PROVE run.owner[x[1]] = mems[x[1]].project
    OBVIOUS
  <2>1. x[1] \in DOMAIN run.owner /\ There(x)
    BY <1>1, CitesAre DEF Traceable
  <2> QED
    BY <2>1 DEF OwnerRight, There
<1> QED
  BY <1>1, <1>2, <1>3, <1>4 DEF FromTwo

\* A group extraction asks for is of two projects, if all it cites is there.
LEMMA ExtractTraced ==
    ASSUME ScopeInv, CitesThere, OwnerRight, Extract
    PROVE  ChangeTraced'
<1>1. /\ run.at = "judging" /\ TheScope = Extraction /\ Passing /\ UNCHANGED mems
      /\ MemsOK /\ RunShape
  BY DEF Extract, ScopeInv, Passing, Layer
<1>2. PICK g \in News \cup Growths :
         /\ Traceable(g.cites) /\ Cardinality(Traced(g.cites)) > 1
         /\ run' = [run EXCEPT !.at = "applying", !.change = g]
  BY DEF Extract
<1>3. run'.change = g
  BY <1>1, <1>2 DEF RunShape
<1>4. Fits(g, run.sent, Old(g))
  BY <1>1, ExtractFits
<1>5. g.into = None => g.target # None
  <2>1. CASE g \in News
    <3>1. g.into = Global /\ Global \in Project
      BY <2>1 DEF News, Group, Project
    <3> QED
      BY <3>1, MarkersAssumption
  <2>2. CASE g \in Growths
    <3>1. PICK r \in run.sent : \E cites : g = Group(None, r, cites, {})
      BY <2>2 DEF Growths
    <3>2. g.target = r /\ r \in Ref
      BY <1>1, <3>1 DEF Group, ScopeInv, Sending
    <3> QED
      BY <3>2, MarkersAssumption
  <2> QED
    BY <2>1, <2>2
<1>6. ASSUME \A r \in g.cites : There(r) PROVE FromTwo(g.cites)
  <2>1. g.cites \subseteq DOMAIN Cites
    BY <1>1, <1>4, <1>6, CitesAre DEF Fits
  <2> QED
    BY <1>1, <1>2, <2>1, TracedFromTwo
<1>7. /\ (\A r \in g.cites : There(r)') <=> (\A r \in g.cites : There(r))
      /\ FromTwo(g.cites)' <=> FromTwo(g.cites)
  <2>1. \A m : Exists(m)' <=> Exists(m)
    BY <1>1 DEF Exists
  <2>2. \A r : There(r)' <=> There(r)
    BY <1>1, <2>1 DEF There
  <2>3. Cites' = Cites
    BY <1>1, <2>1, Zenon DEF Cites
  <2> QED
    BY <1>1, <2>2, <2>3, Zenon DEF FromTwo
<1> QED
  BY <1>3, <1>5, <1>6, <1>7 DEF ChangeTraced

\* What extraction is to cite was there, as far as what it is to rewrite still is.
LEMMA ChangeKnown ==
    ASSUME ScopeInv, CitesThere, run.at = "applying",
           run.change.target # None => Exists(run.change.target[1])
    PROVE  \A r \in run.change.cites : r \in Ref /\ Known(r)
<1> DEFINE g == run.change
<1>1. /\ Passing /\ MemsOK /\ run.sent \subseteq Ref /\ \A r \in run.sent : Known(r)
      /\ Fits(g, run.sent, Old(g))
  BY DEF ScopeInv, Sending, Passing, Layer
<1> HIDE DEF g
<1>2. g.target # None => Exists(g.target[1])
  BY DEF g
<1> SUFFICES ASSUME NEW r \in g.cites PROVE r \in Ref /\ Known(r)
  BY DEF g
<1>3. r \in Ref /\ (r \in run.sent \/ r \in Old(g))
  BY <1>1 DEF Fits
<1>4. CASE r \in run.sent
  BY <1>1, <1>3, <1>4
<1>5. CASE r \in Old(g)
  <2>1. g.target # None /\ g.target \in run.sent
    BY <1>1, <1>5 DEF Old, Fits, Changed
  <2>2. /\ Exists(g.target[1]) /\ g.target[1] \in Memory
        /\ Old(g) = mems[g.target[1]].cites[g.target[2]]
        /\ g.target[2] \in 1..Len(mems[g.target[1]].cites)
    BY <1>1, <1>2, <2>1 DEF Fits, Known, Ref, Exists
  <2>3. There(r)
    BY <1>3, <1>5, <2>2 DEF CitesThere
  <2> QED
    BY <1>3, <2>3 DEF There, Known
<1> QED
  BY <1>3, <1>4, <1>5

\* It stays so while others write.
LEMMA TracedStands ==
    ASSUME ScopeInv, CitesThere, Steady, CitesThere', ChangeTraced, run.at = "applying",
           run'.change = run.change
    PROVE  ChangeTraced'
<1> PICK g : g = run.change
  OBVIOUS
<1>1. /\ MemsOK /\ g.cites \in SUBSET Ref /\ Fits(g, run.sent, Old(g))
      /\ \A r \in run.sent : r \in Ref /\ Known(r)
  BY DEF ScopeInv, Sending, Passing, Layer, Fits
<1>2. /\ g.into = None => g.target # None
      /\ (g.target # None => Exists(g.target[1])) /\ (\A r \in g.cites : There(r)) => FromTwo(g.cites)
  BY DEF ChangeTraced
<1>3. ASSUME g.target # None => Exists(g.target[1])', \A r \in g.cites : There(r)'
      PROVE  FromTwo(g.cites)'
  <2>1. g.target # None => Exists(g.target[1])
    <3>1. g.target # None => g.target \in Ref /\ Known(g.target)
      BY <1>1 DEF Fits, Changed
    <3> QED
      BY <1>1, <1>3, <3>1, VersionStands
  <2>2. \A r \in g.cites : r \in Ref /\ Known(r)
    BY <2>1, ChangeKnown
  <2>3. \A r \in g.cites : There(r)
    BY <1>1, <1>3, <2>2, VersionStands DEF There
  <2>4. FromTwo(g.cites)
    BY <1>2, <2>1, <2>3
  <2> QED
    BY <1>1, <1>3, <2>2, <2>4, FromTwoStands
<1> QED
  BY <1>2, <1>3 DEF ChangeTraced

\* Who a memory belonged to when extraction read it.
LEMMA OwnersRight ==
    ASSUME ScopeInv, Answered PROVE OwnerRight'
<1>1. run.at = "asked" /\ MemsOK /\ RunShape /\ UNCHANGED mems
  BY DEF Answered, ScopeInv
<1>2. PICK owner, marks :
         /\ owner = IF TheScope = Extraction THEN Owners ELSE None
         /\ run' = [run EXCEPT !.at = "judging", !.left = MaxJudgments,
                       !.marks = marks, !.flags = marks, !.owner = owner]
  BY DEF Answered
<1>3. run'.owner = owner /\ run'.todo = run.todo
  BY <1>1, <1>2 DEF RunShape
<1> SUFFICES ASSUME TheScope = Extraction, NEW m \in DOMAIN owner
             PROVE  m \in Memory /\ mems[m] # None /\ (Exists(m) => owner[m] = mems[m].project)
  BY <1>1, <1>3 DEF OwnerRight, TheScope, Exists
<1>4. owner = [k \in {j \in Memory : Exists(j)} |-> mems[k].project]
  BY <1>2 DEF Owners
<1> QED
  BY <1>4 DEF Exists

LEMMA OwnerStands ==
    ASSUME MemsOK, OwnerRight, Steady, run.at \in {"judging", "applying"},
           run'.owner = run.owner, run'.todo = run.todo
    PROVE  OwnerRight'
<1>1. \A m \in Memory : mems[m] # None =>
         mems'[m] # None /\ (Exists(m)' => Exists(m) /\ mems'[m].project = mems[m].project)
  BY GrowKeeps DEF Steady
<1> QED
  BY <1>1 DEF OwnerRight, TheScope

\* Where what extraction goes by comes from: it reads it and traces by it, or it stays.
Holding == run.at \in {"judging", "applying"}
LEMMA HeldFrom ==
    ASSUME ScopeInv, Next, Holding'
    PROVE  \/ Answered /\ run'.at = "judging"
           \/ /\ Holding /\ run'.owner = run.owner /\ run'.todo = run.todo
              /\ run'.at = "applying" => Extract \/ (run.at = "applying" /\ run'.change = run.change)
<1>1. RunShape /\ run'.at \in {"judging", "applying"}
  BY DEF ScopeInv, Holding
<1>2. CASE StartRun
  <2>1. PICK wanted \in Wanted : run' = [NoRun EXCEPT !.at = "scan", !.todo = Scopes(wanted)]
    BY <1>2 DEF StartRun
  <2>2. run'.at = "scan"
    BY <2>1 DEF NoRun
  <2> QED
    BY <1>1, <2>2
<1>3. CASE Scan \/ List \/ ReadSources \/ NoAnswer \/ EndPass
  <2>1. run'.at \in {"idle", "scope", "list", "read", "asked"}
    <3>1. CASE Scan
      BY <1>1, <3>1 DEF Scan, RunShape
    <3>2. CASE List
      <4> DEFINE input == Usable(TheScope)
      <4>1. \/ run' = [Left EXCEPT !.skipped = input]
            \/ run' = [run EXCEPT !.at = "read", !.sent = input, !.skipped = {}]
        BY <3>2 DEF List
      <4>2. CASE run' = [Left EXCEPT !.skipped = input]
        <5>1. DOMAIN Left = DOMAIN NoRun /\ "at" \in DOMAIN NoRun
          BY DEF Left, NoRun
        <5>2. [Left EXCEPT !.skipped = input].at = Left.at
          BY <5>1
        <5> QED
          BY <4>2, <5>2, LeftAt
      <4>3. CASE run' = [run EXCEPT !.at = "read", !.sent = input, !.skipped = {}]
        BY <1>1, <4>3 DEF RunShape
      <4> QED
        BY <4>1, <4>2, <4>3
    <3>3. CASE ReadSources
      <4>1. \/ run' = Left
            \/ \E sources : run' = [run EXCEPT !.at = "asked", !.sources = sources]
        BY <3>3 DEF ReadSources
      <4> QED
        BY <1>1, <4>1, LeftAt DEF RunShape
    <3>4. CASE NoAnswer \/ EndPass
      BY <3>4, LeftAt DEF NoAnswer, EndPass
    <3> QED
      BY <1>3, <3>1, <3>2, <3>3, <3>4
  <2> QED
    BY <1>1, <2>1
<1>4. CASE Answered
  <2>1. PICK marks, owner : run' = [run EXCEPT !.at = "judging", !.left = MaxJudgments,
                                       !.marks = marks, !.flags = marks, !.owner = owner]
    BY <1>4 DEF Answered
  <2> QED
    BY <1>1, <1>4, <2>1 DEF RunShape
<1>5. CASE (\E m \in Memory : Flag(m)) \/ NotApplied
  BY <1>1, <1>5 DEF Flag, NotApplied, RunShape, Holding
<1>6. CASE Consolidate \/ ApplyExtracted
  <2>1. CASE Consolidate
    <3>1. PICK T : run' = [run EXCEPT !.left = @ - 1, !.groups = @ + 1, !.touched = T,
                                      !.born = @ \cup Born(mems')]
      BY <2>1 DEF Consolidate
    <3> QED
      BY <1>1, <2>1, <3>1 DEF Consolidate, RunShape, Holding
  <2>2. CASE ApplyExtracted
    <3>1. PICK T : run' = [run EXCEPT !.at = "judging", !.left = @ - 1, !.groups = @ + 1,
                                      !.change = None, !.touched = T, !.born = @ \cup Born(mems')]
      BY <2>2 DEF ApplyExtracted
    <3> QED
      BY <1>1, <2>2, <3>1 DEF ApplyExtracted, RunShape, Holding
  <2> QED
    BY <1>6, <2>1, <2>2
<1>7. CASE Extract
  <2>1. PICK g : run' = [run EXCEPT !.at = "applying", !.change = g]
    BY <1>7 DEF Extract
  <2> QED
    BY <1>1, <1>7, <2>1 DEF Extract, RunShape, Holding
<1>8. CASE ListEntries
  <2>1. PICK seen, entries : run' = [run EXCEPT !.at = "recheck", !.seen = seen, !.skipped = {},
                                                !.entries = entries]
    BY <1>8 DEF ListEntries
  <2> QED
    BY <1>1, <2>1 DEF RunShape
<1>9. CASE \E e \in Memory : Recheck(e)
  <2>1. run'.at \in {"recheck", "kept", "rechecking"}
    <3>1. PICK e \in Memory : Recheck(e)
      BY <1>9
    <3>2. \/ run' = [run EXCEPT !.entries = @ \ {e}]
          \/ run' = [[run EXCEPT !.entries = @ \ {e}] EXCEPT
                        !.at = IF Pairs(e) = checks[e] THEN "kept" ELSE "rechecking",
                        !.entry = e, !.sent = Pairs(e), !.sources = SourcesOf(e),
                        !.standing = Standing(e)]
      BY <3>1 DEF Recheck
    <3>3. run.at = "recheck"
      BY <3>1 DEF Recheck
    <3> QED
      BY <1>1, <3>2, <3>3 DEF RunShape
  <2> QED
    BY <1>1, <2>1
<1>10. CASE LeaveEntry \/ KeepEntry \/ Reword
  <2>1. run'.at = "recheck"
    <3>1. CASE LeaveEntry \/ KeepEntry
      BY <1>1, <3>1 DEF LeaveEntry, KeepEntry, Rechecked, RunShape
    <3>2. CASE Reword
      <4>1. PICK T : run' = [Rechecked(run) EXCEPT !.groups = @ + 1, !.touched = T]
        BY <3>2 DEF Reword
      <4> QED
        BY <1>1, <4>1 DEF Rechecked, RunShape
    <3> QED
      BY <1>10, <3>1, <3>2
  <2> QED
    BY <1>1, <2>1
<1>11. CASE EndRun \/ Kill
  BY <1>1, <1>11 DEF EndRun, Kill, NoRun
<1>12. CASE EditStep
  <2>1. Edit(mems')
    BY <1>12, EditGrows DEF ScopeInv
  <2>2. /\ run'.at = run.at /\ run'.owner = run.owner /\ run'.todo = run.todo
        /\ run'.change = run.change
    BY <1>1, <2>1 DEF Edit, RunShape
  <2> QED
    BY <1>1, <2>2 DEF Holding
<1>13. \/ StartRun \/ (Scan \/ List \/ ReadSources \/ NoAnswer \/ EndPass) \/ Answered
       \/ ((\E m \in Memory : Flag(m)) \/ NotApplied) \/ (Consolidate \/ ApplyExtracted) \/ Extract
       \/ ListEntries \/ (\E e \in Memory : Recheck(e)) \/ (LeaveEntry \/ KeepEntry \/ Reword)
       \/ (EndRun \/ Kill) \/ EditStep
  BY DEF Next, EditStep
<1> QED
  BY <1>2, <1>3, <1>4, <1>5, <1>6, <1>7, <1>8, <1>9, <1>10, <1>11, <1>12, <1>13, Zenon

LEMMA StepTraced ==
    ASSUME ScopeInv, CitesThere, OwnerRight, ChangeTraced, Steady, CitesThere', [Next]_scopeVars
    PROVE  OwnerRight' /\ ChangeTraced'
<1>1. MemsOK
  BY DEF ScopeInv
<1>2. CASE ~Holding'
  BY <1>2 DEF OwnerRight, ChangeTraced, Holding
<1>3. CASE Holding' /\ Answered /\ run'.at = "judging"
  BY <1>3, OwnersRight DEF ChangeTraced
<1>4. CASE /\ Holding /\ run'.owner = run.owner /\ run'.todo = run.todo
           /\ run'.at = "applying" => Extract \/ (run.at = "applying" /\ run'.change = run.change)
  <2>1. OwnerRight'
    BY <1>1, <1>4, OwnerStands DEF Holding
  <2>2. ChangeTraced'
    <3>1. CASE run'.at # "applying"
      BY <3>1 DEF ChangeTraced
    <3>2. CASE Extract
      BY <3>2, ExtractTraced
    <3>3. CASE run.at = "applying" /\ run'.change = run.change
      BY <3>3, TracedStands
    <3> QED
      BY <1>4, <3>1, <3>2, <3>3
  <2> QED
    BY <2>1, <2>2
<1>5. CASE UNCHANGED scopeVars /\ Holding'
  <2>1. run' = run
    BY <1>5 DEF scopeVars
  <2>2. Holding /\ run'.owner = run.owner /\ run'.todo = run.todo /\ run'.at = run.at
        /\ run'.change = run.change
    BY <1>5, <2>1 DEF Holding
  <2> QED
    BY <1>4, <2>2 DEF Holding
<1> QED
  BY <1>2, <1>3, <1>4, <1>5, HeldFrom

-----------------------------------------------------------------------------
(* What extraction wrote *)

\* The version a group leaves at what it creates or rewrites.
LEMMA WrittenAt ==
    ASSUME MemsOK, NEW sent \in SUBSET Ref, NEW old \in SUBSET Ref, NEW g,
           Fits(g, sent, old), NEW new, new \in Fresh(g), Applies(g), mems' = Written(g, new),
           g.into = None => g.target # None,
           NEW r, r = IF new = None THEN <<g.target[1], g.target[2] + 1>> ELSE <<new, 1>>
    PROVE  r \in Ref /\ There(r)' /\ mems'[r[1]].cites[r[2]] = g.cites
<1>1. /\ g.into \in Project \cup {None} /\ g.target \in Ref \cup {None}
      /\ g.cites \in SUBSET Ref /\ g.retire \in SUBSET Ref
      /\ g.target = None \/ (g.retire = {} /\ g.into = None)
  BY DEF Fits
<1>2. 1 \in 1..MaxVersion
  BY StoresAssumption
<1>3. CASE g.into # None
  <2>1. new \in Memory /\ mems[new] = None /\ new # None /\ g.target = None
    BY <1>1, <1>3, MarkersAssumption DEF Fresh
  <2>2. r = <<new, 1>> /\ r \in Ref
    BY <1>2, <2>1 DEF Ref
  <2>3. mems'[new] = [project |-> g.into, retired |-> {}, cites |-> <<g.cites>>]
    <3>1. new \notin Ids({g.target} \ {None}) /\ new \notin Ids(g.retire)
      BY <2>1 DEF Ids, Applies, Changed, Live, Exists
    <3> QED
      BY <1>3, <2>1, <3>1 DEF Written
  <2>4. mems'[new].cites = <<g.cites>> /\ Len(mems'[new].cites) = 1 /\ mems'[new].cites[1] = g.cites
    BY <2>3
  <2>5. mems'[new] \notin {None, Gone}
    <3>1. mems'[new] \in Row
      BY <1>1, <1>3, <2>3 DEF Row
    <3> QED
      BY <3>1, MarkersAssumption
  <2>6. r[1] = new /\ r[2] = 1 /\ 1 \in 1..1
    BY <2>2
  <2> QED
    BY <2>2, <2>4, <2>5, <2>6 DEF There, Exists
<1>4. CASE g.into = None
  <2>1. new = None /\ g.target # None /\ g.target \in Ref
    BY <1>1, <1>4 DEF Fresh
  <2> PICK t \in Memory, n \in 1..MaxVersion : g.target = <<t, n>>
    BY <2>1 DEF Ref
  <2>2. r = <<t, n + 1>>
    BY <2>1
  <2>3. Exists(t) /\ Len(mems[t].cites) = n /\ n < MaxVersion
    BY <2>1 DEF Applies, Changed, Live, Current
  <2>4. n + 1 \in 1..MaxVersion /\ n \in Nat /\ r \in Ref
    BY <2>2, <2>3, StoresAssumption DEF Ref
  <2>5. t \in Ids({g.target} \ {None})
    BY <2>1 DEF Ids
  <2>6. mems'[t] = NextVersion(mems[t], g.cites, FALSE)
    <3>1. ~(g.into # None /\ t = new) /\ t \notin Ids(g.retire)
      BY <1>1, <1>4, <2>1 DEF Ids
    <3> QED
      BY <2>5, <3>1 DEF Written
  <2>7. mems[t] \in Row /\ mems[t].cites \in Seq(SUBSET Ref)
    BY <2>3, RowsExist
  <2>8. mems'[t] \in Row /\ mems'[t].cites = Append(mems[t].cites, g.cites)
    <3>1. Len(mems[t].cites) < MaxVersion
      BY <2>3
    <3> QED
      BY <1>1, <2>3, <2>6, <3>1, AppendGrown
  <2>9. Len(mems'[t].cites) = n + 1 /\ mems'[t].cites[n + 1] = g.cites
    BY <1>1, <2>3, <2>7, <2>8
  <2>10. mems'[t] \notin {None, Gone} /\ n + 1 \in 1..(n + 1)
    BY <2>4, <2>8, MarkersAssumption
  <2> QED
    BY <2>2, <2>4, <2>9, <2>10 DEF There, Exists
<1> QED
  BY <1>3, <1>4

LEMMA ExtractedStands ==
    ASSUME MemsOK, CitesThere, Steady, CitesThere',
           NEW r \in Ref, Known(r), Exists(r[1]) => FromTwo(mems[r[1]].cites[r[2]])
    PROVE  Known(r)' /\ (Exists(r[1])' => FromTwo(mems[r[1]].cites[r[2]])')
<1>1. /\ Known(r)'
      /\ Exists(r[1])' => /\ Exists(r[1]) /\ r[2] \in 1..Len(mems[r[1]].cites)
                          /\ mems'[r[1]].cites[r[2]] = mems[r[1]].cites[r[2]]
  BY VersionStands
<1> SUFFICES ASSUME Exists(r[1])' PROVE FromTwo(mems[r[1]].cites[r[2]])'
  BY <1>1
<1> PICK refs : refs = mems[r[1]].cites[r[2]]
  OBVIOUS
<1>2. r[1] \in Memory /\ r[2] \in 1..Len(mems'[r[1]].cites)
  BY <1>1 DEF Known, Exists, Ref
<1>3. refs \in SUBSET Ref /\ FromTwo(refs)
  <2>1. mems[r[1]].cites \in Seq(SUBSET Ref)
    BY <1>1, <1>2, RowsExist
  <2> QED
    BY <1>1, <2>1
<1>4. \A q \in refs : There(q) /\ There(q)'
  BY <1>1, <1>2, <1>3 DEF CitesThere
<1>5. FromTwo(refs)'
  BY <1>3, <1>4, FromTwoStands DEF There, Known
<1>6. mems'[r[1]].cites[r[2]] = refs
  BY <1>1
<1> QED
  BY <1>5, <1>6, Zenon DEF FromTwo

LEMMA StepExtracted ==
    ASSUME ScopeInv, KeptInv, TwoInv, Steady, CitesThere', [Next]_scopeVars
    PROVE  ExtractedTwo'
<1>1. MemsOK /\ CitesThere /\ ChangeTraced /\ ExtractedTwo
  BY DEF ScopeInv, TwoInv
<1>2. \A r \in extracted : r \in Ref /\ Known(r)' /\ (Exists(r[1])' => FromTwo(mems[r[1]].cites[r[2]])')
  BY <1>1, ExtractedStands DEF ExtractedTwo
<1>3. CASE UNCHANGED extracted
  BY <1>2, <1>3, Zenon DEF ExtractedTwo
<1>4. CASE ApplyExtracted
  <2>1. run.at = "applying" /\ Passing /\ Sending
    BY <1>4 DEF ApplyExtracted, ScopeInv, Passing, Layer
  <2> PICK g : g = run.change
    OBVIOUS
  <2>2. PICK new \in Memory \cup {None} :
           /\ Apply(g, new)
           /\ extracted' = extracted \cup
                 {IF new = None THEN <<g.target[1], g.target[2] + 1>> ELSE <<new, 1>>}
    BY <1>4 DEF ApplyExtracted
  <2> PICK r : r = IF new = None THEN <<g.target[1], g.target[2] + 1>> ELSE <<new, 1>>
    OBVIOUS
  <2>3. new \in Fresh(g) /\ Applies(g) /\ mems' = Written(g, new)
    BY <2>2 DEF Apply
  <2>4. Fits(g, run.sent, Old(g)) /\ (g.into = None => g.target # None) /\ run.sent \in SUBSET Ref
    BY <1>1, <2>1 DEF Sending, ChangeTraced
  <2>5. Old(g) \in SUBSET Ref
    <3>1. CASE g.target = None
      BY <3>1 DEF Old
    <3>2. CASE g.target # None
      <4>1. g.target \in run.sent /\ SourcesRight
        BY <2>1, <2>4, <3>2 DEF Fits, Changed, Sending
      <4> QED
        BY <3>2, <4>1 DEF Old, SourcesRight
    <3> QED
      BY <3>1, <3>2
  <2>6. r \in Ref /\ There(r)' /\ mems'[r[1]].cites[r[2]] = g.cites
    BY <1>1, <2>3, <2>4, <2>5, WrittenAt
  <2>7. g.cites \in SUBSET Ref /\ g.target \in Ref \cup {None}
    BY <2>4 DEF Fits
  <2>8. \A q \in g.cites : There(q) /\ Known(q)
    BY <1>1, <2>3, <2>7, GroupThere DEF There, Known
  <2>9. FromTwo(g.cites)
    <3>1. g.target # None => Exists(g.target[1])
      BY <2>3 DEF Applies, Changed, Live
    <3> QED
      BY <1>1, <2>1, <2>8, <3>1 DEF ChangeTraced
  <2>10. \A q \in g.cites : There(q)'
    <3>1. r[1] \in Memory /\ Exists(r[1])' /\ r[2] \in 1..Len(mems'[r[1]].cites)
      BY <2>6 DEF There, Ref
    <3> QED
      BY <2>6, <2>7, <3>1 DEF CitesThere
  <2>11. FromTwo(g.cites)'
    BY <1>1, <2>7, <2>8, <2>9, <2>10, FromTwoStands
  <2>12. FromTwo(mems[r[1]].cites[r[2]])'
    BY <2>6, <2>11, Zenon DEF FromTwo
  <2>13. Known(r)'
    BY <2>6 DEF There, Known
  <2>14. extracted' = extracted \cup {r}
    BY <2>2
  <2> QED
    BY <1>2, <2>6, <2>12, <2>13, <2>14, Zenon DEF ExtractedTwo
<1>5. Next => ApplyExtracted \/ UNCHANGED extracted
  BY DEF Next, StartRun, Scan, List, ReadSources, NoAnswer, Answered, Flag, Consolidate, NotApplied,
      Extract, EndPass, ListEntries, Recheck, LeaveEntry, KeepEntry, Reword, EndRun, Kill,
      Update, SoftDelete, Restore, Purge, Remember, Edit
<1> QED
  BY <1>3, <1>4, <1>5 DEF scopeVars

LEMMA InitTwo == ASSUME Init, ScopeInv PROVE TwoInv
<1>1. run = NoRun /\ mems \in Stores /\ MemsOK /\ extracted = {}
  BY DEF Init, ScopeInv
<1>2. run.at = "idle"
  BY <1>1 DEF NoRun
<1>3. CitesThere
  <2> SUFFICES ASSUME NEW m \in Memory, Exists(m), NEW v \in 1..Len(mems[m].cites),
                      NEW r \in Ref, r \in mems[m].cites[v]
               PROVE  There(r)
    BY DEF CitesThere
  <2>1. mems[m] \in Row
    BY <1>1, RowsExist
  <2>2. mems[r[1]] \in Row /\ r[2] <= Len(mems[r[1]].cites)
    BY <1>1, <2>1, CitationsAssumption
  <2>3. r[1] \in Memory /\ r[2] \in 1..MaxVersion
    BY DEF Ref
  <2>4. Exists(r[1]) /\ Len(mems[r[1]].cites) \in 1..MaxVersion
    BY <1>1, <2>2, <2>3, RowsExist
  <2> QED
    BY <2>2, <2>3, <2>4, StoresAssumption DEF There
<1> QED
  BY <1>1, <1>2, <1>3 DEF TwoInv, OwnerRight, ChangeTraced, ExtractedTwo

LEMMA StepTwo == ASSUME ScopeInv, KeptInv, TwoInv, [Next]_scopeVars PROVE TwoInv'
<1>1. PassCites /\ EntryStands /\ CitesRight /\ CitesThere /\ OwnerRight /\ ChangeTraced
  BY DEF KeptInv, TwoInv
<1>2. Steady
  BY <1>1, StepSteady
<1>3. CitesThere'
  BY <1>1, <1>2, StepThere
<1> QED
  BY <1>1, <1>2, <1>3, StepTraced, StepExtracted DEF TwoInv

\* Whatever is purged and whoever writes meanwhile, what any version cites is there, extraction knows who
\* its memories belong to, and what it wrote leads to memories of two ordinary projects.
THEOREM TwoInvariant == ScopeSpec => [](ScopeInv /\ KeptInv /\ TwoInv)
<1>1. Init => ScopeInv /\ KeptInv /\ TwoInv
  BY InitRight, InitKept, InitTwo
<1>2. (ScopeInv /\ KeptInv /\ TwoInv) /\ [Next]_scopeVars => (ScopeInv /\ KeptInv /\ TwoInv)'
  BY StepRight, StepKept, StepTwo
<1> QED
  BY <1>1, <1>2, PTL DEF ScopeSpec

\* A global entry extraction wrote (extract.py, _ordinary_projects and the groups it applies) comes from
\* two ordinary projects, through whatever global entries it cites, as long as it exists: citations that
\* are written or purged between the trace and the change, or later, cannot leave it with one.
THEOREM TwoProjectsHolds == ScopeSpec => []TwoProjects
<1>1. ScopeInv /\ TwoInv => TwoProjects
  <2> SUFFICES ASSUME ScopeInv, TwoInv, NEW r \in extracted, Exists(r[1])
               PROVE  Cardinality({mems[m].project : m \in Ids(Behind(r))} \ {Global}) > 1
    BY DEF TwoProjects
  <2>1. MemsOK /\ CitesThere /\ r \in Ref /\ Known(r) /\ FromTwo(mems[r[1]].cites[r[2]])
    BY DEF ScopeInv, TwoInv, ExtractedTwo
  <2>2. There(r)
    BY <2>1 DEF Known, There, Exists
  <2> QED
    BY <2>1, <2>2, TwoIsMore
<1> QED
  BY <1>1, TwoInvariant, PTL
=============================================================================
