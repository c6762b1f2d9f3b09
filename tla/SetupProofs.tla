----------------------------- MODULE SetupProofs -----------------------------
(***************************************************************************)
(* What TLAPS proves of installing and removing, for any number of commands,*)
(* writers, files and edits by others: the transaction over the harnesses'  *)
(* files is undone or told of and loses nobody's edit, a schedule that is   *)
(* not replaced is put back, a new store gets one global project, a purge   *)
(* takes what was confirmed, and the texts of the files, whatever they are, *)
(* are given back.                                                          *)
(***************************************************************************)
EXTENDS Setup, FiniteSetTheorems, SequenceTheorems, WellFoundedInduction, TLAPS

-----------------------------------------------------------------------------
(* The transaction: the inductive invariant *)

LEMMA LeastOf ==
    ASSUME NEW S \in SUBSET Nat, S # {}
    PROVE  Min(S) \in S /\ \A n \in S : Min(S) <= n
<1> DEFINE Below == OpToRel(<, Nat)
<1>1. \E m \in S : \A n \in S : ~ (<<n, m>> \in Below)
  BY NatLessThanWellFounded, WFMin, Zenon
<1>2. PICK m \in S : \A n \in S : ~ (<<n, m>> \in Below)
  BY <1>1
<1>3. \A n \in S : n < m => <<n, m>> \in Below
  BY DEF OpToRel
<1> HIDE DEF Below
<1>4. \A n \in S : ~ (n < m)
  BY <1>2, <1>3, Zenon
<1>5. \A n \in S : m <= n
  BY <1>4
<1> QED
  BY <1>5 DEF Min

\* Where a command is between its plan and its end, and where it is writing.
Working == {"asking", "store", "checking", "preparing", "replacing", "landed", "rolling",
            "restoring", "failed"}
Writing == {"store", "checking", "preparing", "replacing", "landed"}

\* Standing, and all of the user's marks in it are of edits there were.
Sound(p, f) == Standing(p, f) /\ f.user \subseteq 1..others.count

IsSequence(s) == s \in Seq({s[i] : i \in DOMAIN s})

RunFields == {"pc", "number", "command", "harnesses", "snap", "changes", "accepted",
              "pending", "backup", "writes", "left", "missed"}
OthersTyped ==
    others \in [count: Nat, edits: SUBSET (Paths \X Nat), late: SUBSET (Paths \X Nat),
                exposed: SUBSET (Paths \X Nat), touched: SUBSET Paths, ever: SUBSET Paths,
                first: Found]

Shaped ==
    /\ DOMAIN files = Paths /\ DOMAIN dirs = Paths /\ DOMAIN run = RunFields /\ OthersTyped
    /\ \A p \in Paths : Sound(p, files[p])
    /\ DOMAIN run.snap \subseteq Paths
    /\ \A p \in DOMAIN run.snap : Sound(p, run.snap[p])
    /\ run.pc \in {"idle", "refused", "done", "killed"} \cup Working
    /\ run.pc = "asking" => run.writes = <<>>
    /\ run.pc \in Working => /\ DOMAIN run.snap = ToSet(TargetPaths(run.harnesses))
                             /\ run.harnesses \in Selections
    /\ run.pc \in Working \ {"failed"} => \A p \in DOMAIN run.snap : run.snap[p].is \in {"file", "absent"}
    /\ run.pc \in Writing => run.pending \subseteq DOMAIN run.snap
    /\ run.pc \in Writing \ {"store", "checking"} => run.pending # {}
    /\ run.pc \in {"replacing", "landed"} => Sound(Target, run.backup)
    /\ run.pc = "landed" => ~Deleting(Target)

\* The ledger: one write of each file that is no longer pending.
LedgerShaped ==
    /\ IsSequence(run.writes)
    /\ \A i \in DOMAIN run.writes :
          LET write == run.writes[i] IN
          /\ write.path \in DOMAIN run.snap
          /\ Sound(write.path, write.backup) /\ Sound(write.path, write.written)
          /\ run.pc \in Writing => write.path \notin run.pending
    /\ \A i, j \in DOMAIN run.writes : run.writes[i].path = run.writes[j].path => i = j
    /\ run.pc = "failed" => run.writes = <<>>
    /\ run.pc = "restoring" => run.writes # <<>>
    /\ run.pc \in Writing \cup {"asking"} => run.missed = {}

InLedger(p) == \E i \in DOMAIN run.writes : run.writes[i].path = p
AtWork(p) == run.pc \in {"replacing", "landed"} /\ p = Target
Undisturbed == DOMAIN run.snap \ (others.touched \cup run.left \cup run.missed)

\* A file nobody else touched is as it was planned, or as the ledger says it was
\* written, and then the ledger has what it was.
Undoable ==
    run.pc \in Working =>
        \A p \in Undisturbed :
            /\ ~InLedger(p) /\ ~(run.pc = "landed" /\ p = Target) => files[p] = run.snap[p]
            /\ AtWork(p) => run.backup = run.snap[p]
            /\ run.pc = "landed" /\ p = Target => files[p] = Written
            /\ files[p].is = "absent" /\ dirs[p] = "ours" => InLedger(p) \/ AtWork(p)
            /\ \A i \in DOMAIN run.writes : run.writes[i].path = p =>
                  /\ run.writes[i].backup = run.snap[p]
                  /\ files[p] \in {run.writes[i].written, run.snap[p]}

Edits(p) == {mark \in Nat : <<p, mark>> \in others.edits \ others.exposed}
BackedUp(p, mark) ==
    <<p, mark>> \in others.late /\ \E b \in backups : b.path = p /\ mark \in b.file.user

\* All of the write's file that is left to save is in its backup, or in another.
PutBack(write) ==
    \A mark \in Edits(write.path) : mark \in write.backup.user \/ BackedUp(write.path, mark)

\* What a write is about to take away is in the backup it leaves, and what a rollback
\* is about to take away is in what it puts back.
Recoverable ==
    /\ \A p \in Paths : \A mark \in Edits(p) : mark \in files[p].user \/ BackedUp(p, mark)
    /\ run.pc = "preparing" =>
          \A mark \in Edits(Target) :
              /\ mark \in files[Target].user =>
                    \/ mark \in run.snap[Target].user
                    \/ Existed(Target) /\ <<Target, mark>> \in others.late
              /\ mark \in run.snap[Target].user => mark \in files[Target].user
    /\ run.pc = "replacing" =>
          \A mark \in Edits(Target) : mark \in run.snap[Target].user \/ BackedUp(Target, mark)
    /\ run.pc \in {"replacing", "landed"} =>
          \A mark \in Edits(Target) : mark \in run.snap[Target].user => mark \in run.backup.user
    /\ \A i \in DOMAIN run.writes : \A mark \in Edits(run.writes[i].path) :
          mark \in run.writes[i].written.user => mark \in run.writes[i].backup.user
    /\ run.pc = "restoring" => PutBack(Last(run.writes))

Transacted == Shaped /\ LedgerShaped /\ Undoable /\ Recoverable
-----------------------------------------------------------------------------
(* Sequences and the order of the targets *)

LEMMA Appended ==
    ASSUME NEW s, IsSequence(s), NEW e
    PROVE  /\ IsSequence(Append(s, e)) /\ DOMAIN s = 1..Len(s) /\ Len(s) \in Nat
           /\ DOMAIN Append(s, e) = 1..(Len(s) + 1)
           /\ \A i \in DOMAIN s : Append(s, e)[i] = s[i]
           /\ Append(s, e)[Len(s) + 1] = e
<1>1. PICK S : S = {s[i] : i \in DOMAIN s} /\ s \in Seq(S)
  BY DEF IsSequence
<1>2. s \in Seq(S \cup {e}) /\ e \in S \cup {e}
  BY <1>1
<1>3. /\ DOMAIN s = 1..Len(s) /\ Len(s) \in Nat
      /\ DOMAIN Append(s, e) = 1..(Len(s) + 1) /\ Len(Append(s, e)) = Len(s) + 1
      /\ \A i \in DOMAIN s : Append(s, e)[i] = s[i]
      /\ Append(s, e)[Len(s) + 1] = e
  BY <1>2
<1>4. PICK T : T = {Append(s, e)[i] : i \in DOMAIN Append(s, e)}
  OBVIOUS
<1>5. Append(s, e) \in Seq(S \cup {e})
  BY <1>2
<1>6. \A i \in 1..Len(Append(s, e)) : Append(s, e)[i] \in T
  BY <1>3, <1>4
<1>7. Append(s, e) \in Seq(T)
  BY <1>5, <1>6
<1> QED
  BY <1>3, <1>4, <1>7 DEF IsSequence

LEMMA FrontOf ==
    ASSUME NEW Item, NEW list \in Seq(Item), list # <<>>
    PROVE  /\ Front(list) \in Seq(Item) /\ Len(Front(list)) = Len(list) - 1 /\ Len(list) \in Nat \ {0}
           /\ \A i \in 1..(Len(list) - 1) : Front(list)[i] = list[i]
<1>1. DOMAIN list = 1..Len(list) /\ Len(list) \in Nat \ {0} /\ Len(list) - 1 \in Nat
  OBVIOUS
<1>2. PICK k \in Nat : k = Len(list) - 1
  BY <1>1
<1>3. 1 \in Int /\ k \in Int /\ \A i \in 1..k : list[i] \in Item
  BY <1>1, <1>2
<1>4. /\ SubSeq(list, 1, k) \in Seq(Item)
      /\ Len(SubSeq(list, 1, k)) = IF 1 <= k THEN k - 1 + 1 ELSE 0
      /\ \A i \in 1..(k - 1 + 1) : SubSeq(list, 1, k)[i] = list[1 + i - 1]
  <2>1. k \in Int /\ 1 \in Int
    BY <1>3
  <2>2. \A i \in 1..k : list[i] \in Item
    BY <1>3
  <2> QED
    BY <2>1, <2>2, SubSeqProperties, SMTT(30)
<1> QED
  BY <1>1, <1>2, <1>4 DEF Front

LEMMA Shortened ==
    ASSUME NEW s, IsSequence(s), s # <<>>
    PROVE  /\ IsSequence(Front(s)) /\ DOMAIN s = 1..Len(s) /\ Len(s) \in Nat \ {0}
           /\ DOMAIN Front(s) = 1..(Len(s) - 1)
           /\ \A i \in DOMAIN Front(s) : i \in DOMAIN s /\ i # Len(s) /\ Front(s)[i] = s[i]
           /\ Last(s) = s[Len(s)]
<1>1. PICK S : S = {s[i] : i \in DOMAIN s} /\ s \in Seq(S)
  BY DEF IsSequence
<1>2. /\ Front(s) \in Seq(S) /\ Len(Front(s)) = Len(s) - 1 /\ Len(s) \in Nat \ {0}
      /\ \A i \in 1..(Len(s) - 1) : Front(s)[i] = s[i]
  BY <1>1, FrontOf
<1>3. DOMAIN s = 1..Len(s) /\ DOMAIN Front(s) = 1..(Len(s) - 1)
  BY <1>1, <1>2
<1>4. PICK T : T = {Front(s)[i] : i \in DOMAIN Front(s)}
  OBVIOUS
<1>5. Front(s) \in Seq(T)
  BY <1>2, <1>3, <1>4
<1>6. IsSequence(Front(s))
  BY <1>4, <1>5 DEF IsSequence
<1> QED
  BY <1>2, <1>3, <1>6 DEF Last

\* The next file to write is a pending one.
LEMMA TargetPends ==
    ASSUME run.harnesses \in Selections, run.pending \subseteq ToSet(TargetPaths(run.harnesses)),
           run.pending # {}
    PROVE  Target \in run.pending
<1>1. PICK order : order = TargetPaths(run.harnesses)
  OBVIOUS
<1>2. DOMAIN order \subseteq Nat
  <2>1. Len(run.harnesses) \in Nat
    BY SelectionsAssumption
  <2> QED
    BY <1>1, <2>1 DEF TargetPaths
<1>3. PICK S : S = {i \in DOMAIN order : order[i] \in run.pending}
  OBVIOUS
<1>4. S \in SUBSET Nat /\ S # {}
  BY <1>1, <1>2, <1>3 DEF ToSet
<1>5. Min(S) \in S
  BY <1>4, LeastOf
<1> QED
  BY <1>1, <1>3, <1>5 DEF Target

LEMMA TargetSame ==
    ASSUME run'.harnesses = run.harnesses, run'.pending = run.pending
    PROVE  Target' = Target
BY DEF Target, TargetPaths, TargetsOf, HARNESSES

\* What is written is settled by the plan, what was accepted and what is pending.
LEMMA PlanSame ==
    ASSUME run'.harnesses = run.harnesses, run'.pending = run.pending, run'.command = run.command,
           run'.accepted = run.accepted, run'.snap = run.snap
    PROVE  /\ Target' = Target /\ Written' = Written
           /\ \A p : (Existed(p)' <=> Existed(p)) /\ (Deleting(p)' <=> Deleting(p))
<1>1. Target' = Target
  BY TargetSame
<1>2. NewText' = NewText
  BY <1>1 DEF NewText
<1> QED
  BY <1>1, <1>2 DEF Written, Existed, Deleting

\* The shape of a run that writes.
LEMMA Aimed ==
    ASSUME Shaped, run.pc \in Writing, run.pending # {}
    PROVE  /\ Target \in run.pending /\ Target \in DOMAIN run.snap /\ Target \in Paths
           /\ Sound(Target, files[Target]) /\ Sound(Target, run.snap[Target])
<1>1. run.pc \in Working /\ run.pending \subseteq DOMAIN run.snap
  BY DEF Shaped, Writing, Working
<1>2. run.harnesses \in Selections /\ DOMAIN run.snap = ToSet(TargetPaths(run.harnesses))
  BY <1>1 DEF Shaped
<1>3. Target \in run.pending
  BY <1>1, <1>2, TargetPends
<1> QED
  BY <1>1, <1>3 DEF Shaped

LEMMA AbsentStands ==
    ASSUME NEW p PROVE Standing(p, Absent(p)) /\ Absent(p).user = {} /\ Absent(p).is = "absent"
                       /\ Absent(p).mode = "none"
BY DEF Standing, Absent

\* What stands is absent, or has a mode.
LEMMA StandsOrNot ==
    ASSUME NEW p, NEW f, Standing(p, f)
    PROVE  /\ f.is = "absent" <=> f.mode = "none"
           /\ f.is = "absent" <=> f = Absent(p)
           /\ f.is \in {"absent", "file", "link", "garbled"}
           /\ f.is = "file" => [f EXCEPT !.is = "file"] = f
           /\ f.is # "absent" => /\ Standing(p, [f EXCEPT !.is = "file"])
                                 /\ Standing(p, [f EXCEPT !.is = "link"])
                                 /\ [f EXCEPT !.is = "file"].user = f.user
                                 /\ [f EXCEPT !.is = "link"].user = f.user
<1>1. CASE f = Absent(p)
  BY <1>1 DEF Absent
<1>2. CASE /\ f = [is |-> f.is, text |-> f.text, user |-> f.user, mode |-> f.mode]
           /\ f.is \in {"file", "link", "garbled"} /\ f.mode # "none"
  BY <1>2 DEF Absent, Standing
<1> QED
  BY <1>1, <1>2 DEF Standing

LEMMA WrittenStands ==
    ASSUME Shaped, run.pc \in Writing, run.pending # {}
    PROVE  /\ Sound(Target, Written) /\ Written.user = run.snap[Target].user
           /\ Written.is = "file"
<1>1. Sound(Target, run.snap[Target])
  BY Aimed
<1> QED
  BY <1>1 DEF Sound, Standing, Written, Existed
-----------------------------------------------------------------------------
(* Planning, consent and the steps that only move on *)

LEMMA InitTransacted == InstallInit => Transacted
<1> SUFFICES ASSUME InstallInit PROVE Transacted
  OBVIOUS
<1>1. /\ files \in Found /\ DOMAIN files = Paths /\ DOMAIN dirs = Paths
      /\ \A p \in Paths : Standing(p, files[p]) /\ files[p].user = {}
      /\ DOMAIN run = RunFields /\ run.pc = "idle" /\ DOMAIN run.snap = {} /\ run.writes = <<>>
  BY FoundAssumption DEF InstallInit, NoRun, RunFields
<1>2. /\ OthersTyped /\ others.edits = {}
  BY <1>1 DEF InstallInit, OthersTyped
<1>3. Shaped
  BY <1>1, <1>2 DEF Shaped, Sound, Working, Writing
<1>4. LedgerShaped
  <2>1. IsSequence(<<>>)
    BY DEF IsSequence
  <2> QED
    BY <1>1, <2>1 DEF LedgerShaped, Writing
<1>5. Undoable
  BY <1>1 DEF Undoable, Working
<1>6. Recoverable
  BY <1>1, <1>2 DEF Recoverable, Edits
<1> QED
  BY <1>3, <1>4, <1>5, <1>6 DEF Transacted

\* Whether a step reads, decides, or stops: only the place changes.
LEMMA Moves ==
    ASSUME Transacted, NEW pc, run' = [run EXCEPT !.pc = pc],
           UNCHANGED <<files, dirs, backups, others>>,
           \/ pc \in {"done", "killed"}
           \/ run.pc = "store" /\ pc \in {"checking", "refused"}
           \/ run.pc = "checking" /\ pc = "rolling"
           \/ /\ run.pc = "checking" /\ run.pending # {} /\ pc = "preparing"
              /\ files[Target] = run.snap[Target]
           \/ run.pc = "preparing" /\ pc = "rolling"
           \/ run.pc = "rolling" /\ run.writes = <<>> /\ pc = "failed"
           \/ /\ run.pc = "rolling" /\ run.writes # <<>> /\ pc = "restoring"
              /\ PutBack(Last(run.writes))
    PROVE  Transacted'
<1>1. /\ Shaped /\ LedgerShaped /\ Undoable /\ Recoverable
  BY DEF Transacted
<1>2. /\ run'.pc = pc /\ DOMAIN run' = RunFields
      /\ run'.snap = run.snap /\ run'.pending = run.pending /\ run'.writes = run.writes
      /\ run'.harnesses = run.harnesses /\ run'.command = run.command
      /\ run'.accepted = run.accepted /\ run'.left = run.left /\ run'.missed = run.missed
      /\ run'.backup = run.backup
  BY <1>1 DEF Shaped, RunFields
<1>3. /\ Target' = Target /\ Written' = Written
      /\ \A p : (Existed(p)' <=> Existed(p)) /\ (Deleting(p)' <=> Deleting(p))
  BY <1>2, PlanSame
<1>4. pc \in {"done", "killed", "rolling", "restoring", "preparing", "failed", "checking", "refused"}
  OBVIOUS
<1>5. Shaped'
  BY <1>1, <1>2, <1>4 DEF Shaped, OthersTyped, Sound, Working, Writing
<1>6. LedgerShaped'
  BY <1>1, <1>2, <1>4 DEF LedgerShaped, Sound, Writing
<1>7. Undoable'
  BY <1>1, <1>2, <1>4 DEF Undoable, Undisturbed, InLedger, AtWork, Working
<1>8. Recoverable'
  <2>1. /\ \A p : Edits(p)' = Edits(p)
        /\ \A p, mark : BackedUp(p, mark)' <=> BackedUp(p, mark)
    BY DEF Edits, BackedUp
  <2>2. run'.pc = "restoring" => PutBack(Last(run.writes))'
    BY <1>2, <2>1 DEF PutBack
  <2> QED
    BY <1>1, <1>2, <1>3, <1>4, <2>1, <2>2 DEF Recoverable
<1> QED
  BY <1>5, <1>6, <1>7, <1>8 DEF Transacted

LEMMA PlanTransacts ==
    ASSUME Transacted, NEW command, NEW harnesses \in Selections, PlanRun(command, harnesses)
    PROVE  Transacted'
<1> DEFINE targets == ToSet(TargetPaths(harnesses))
<1>1. /\ Shaped /\ LedgerShaped /\ Undoable /\ Recoverable
  BY DEF Transacted
<1>2. targets \subseteq Paths
  BY DEF Paths
<1>3. PICK pc \in {"refused", "asking"} : \E number, changes :
        /\ run' = [NoRun EXCEPT !.number = number, !.command = command, !.harnesses = harnesses,
                      !.snap = [p \in targets |-> files[p]], !.changes = changes, !.pc = pc]
        /\ pc = "asking" => \A p \in targets : files[p].is \notin {"link", "garbled"}
  BY DEF PlanRun
<1> HIDE DEF targets
<1>4. /\ run'.pc = pc /\ DOMAIN run' = RunFields /\ run'.harnesses = harnesses
      /\ run'.snap = [p \in targets |-> files[p]] /\ run'.writes = <<>>
      /\ run'.left = {} /\ run'.missed = {}
  BY <1>3 DEF NoRun, RunFields
<1>5. /\ files' = files /\ backups' = backups
      /\ dirs' = [p \in Paths |-> IF dirs[p] = "ours" THEN "theirs" ELSE dirs[p]]
      /\ others' = [others EXCEPT !.touched = {}]
  BY DEF PlanRun
<1>6. /\ OthersTyped' /\ others'.count = others.count /\ others'.edits = others.edits
      /\ others'.exposed = others.exposed /\ others'.late = others.late /\ others'.touched = {}
  BY <1>1, <1>5 DEF Shaped, OthersTyped
<1>7. Shaped'
  <2>1. \A p \in Paths : files[p].is \in {"absent", "file", "link", "garbled"}
    BY <1>1, StandsOrNot DEF Shaped, Sound
  <2>2. \A p \in Paths : Sound(p, files[p])'
    BY <1>1, <1>5, <1>6 DEF Shaped, Sound
  <2>3. DOMAIN run'.snap = targets /\ \A p \in targets : run'.snap[p] = files'[p]
    BY <1>4, <1>5
  <2>4. pc = "asking" => \A p \in targets : run'.snap[p].is \in {"file", "absent"}
    BY <1>2, <1>3, <1>5, <2>1, <2>3
  <2>5. \A p \in DOMAIN run'.snap : Sound(p, run.snap[p])'
    BY <1>2, <1>6, <2>2, <2>3 DEF Sound
  <2>6. DOMAIN files' = Paths /\ DOMAIN dirs' = Paths
    BY <1>1, <1>5 DEF Shaped
  <2> QED
    BY <1>2, <1>3, <1>4, <1>6, <2>2, <2>3, <2>4, <2>5, <2>6 DEF Shaped, Working, Writing, targets
<1>8. LedgerShaped'
  <2>1. IsSequence(<<>>) /\ DOMAIN <<>> = {}
    BY DEF IsSequence
  <2> QED
    BY <1>4, <2>1 DEF LedgerShaped
<1>9. Undoable'
  <2>1. \A p \in targets : run'.snap[p] = files'[p] /\ dirs'[p] # "ours"
    BY <1>2, <1>4, <1>5
  <2>2. DOMAIN run'.snap = targets /\ DOMAIN run'.writes = {}
    BY <1>4
  <2> QED
    BY <1>3, <1>4, <2>1, <2>2 DEF Undoable, Undisturbed, InLedger, AtWork
<1>10. Recoverable'
  <2>1. /\ \A p : Edits(p)' = Edits(p)
        /\ \A p, mark : BackedUp(p, mark)' <=> BackedUp(p, mark)
    BY <1>5, <1>6 DEF Edits, BackedUp
  <2> QED
    BY <1>1, <1>3, <1>4, <1>5, <2>1 DEF Recoverable
<1> QED
  BY <1>7, <1>8, <1>9, <1>10 DEF Transacted

LEMMA ConfirmTransacts ==
    ASSUME Transacted, NEW accepted, NEW next \in {"store", "checking", "refused"},
           Confirm(accepted, next)
    PROVE  Transacted'
<1>1. /\ Shaped /\ LedgerShaped /\ Undoable /\ Recoverable
      /\ run.pc = "asking" /\ UNCHANGED <<files, dirs, backups, others>>
  BY DEF Transacted, Confirm
<1>2. PICK pending : pending = Pending(accepted)
  OBVIOUS
<1>3. /\ run'.pc = next /\ DOMAIN run' = RunFields
      /\ run'.snap = run.snap /\ run'.pending = pending /\ run'.writes = run.writes
      /\ run'.harnesses = run.harnesses
      /\ run'.left = run.left /\ run'.missed = run.missed
  BY <1>1, <1>2 DEF Confirm, Shaped, RunFields
<1>4. pending \subseteq DOMAIN run.snap /\ run.writes = <<>>
  BY <1>1, <1>2 DEF Pending, Shaped, Working
<1>5. Shaped'
  BY <1>1, <1>3, <1>4 DEF Shaped, OthersTyped, Sound, Working, Writing
<1>6. LedgerShaped'
  BY <1>1, <1>3, <1>4 DEF LedgerShaped, Sound
<1>7. Undoable'
  BY <1>1, <1>3 DEF Undoable, Undisturbed, InLedger, AtWork, Working
<1>8. Recoverable'
  <2>1. /\ \A p : Edits(p)' = Edits(p)
        /\ \A p, mark : BackedUp(p, mark)' <=> BackedUp(p, mark)
    BY <1>1 DEF Edits, BackedUp
  <2> QED
    BY <1>1, <1>3, <1>4, <2>1 DEF Recoverable
<1> QED
  BY <1>5, <1>6, <1>7, <1>8 DEF Transacted

-----------------------------------------------------------------------------
(* Writing a file *)

LEMMA PrepareTransacts ==
    ASSUME Transacted, Prepare
    PROVE  Transacted'
<1>1. /\ Shaped /\ LedgerShaped /\ Undoable /\ Recoverable
      /\ run.pc = "preparing" /\ UNCHANGED <<files, others>>
  BY DEF Transacted, Prepare
<1>2. CASE Existed(Target) /\ files[Target].is = "absent"
  <2>1. run' = [run EXCEPT !.pc = "rolling"] /\ UNCHANGED <<files, dirs, backups, others>>
    BY <1>1, <1>2 DEF Prepare
  <2> QED
    BY <1>1, <2>1, Moves
<1>3. CASE ~(Existed(Target) /\ files[Target].is = "absent")
  <2>1. PICK backup :
          /\ backup = IF Existed(Target) THEN files[Target] ELSE Absent(Target)
          /\ run' = [run EXCEPT !.pc = "replacing", !.backup = backup]
    BY <1>3 DEF Prepare
  <2>2. /\ dirs' = IF dirs[Target] = "none" THEN [dirs EXCEPT ![Target] = "ours"] ELSE dirs
        /\ backups \subseteq backups'
        /\ Existed(Target) => [path |-> Target, file |-> files[Target]] \in backups'
    BY <1>3 DEF Prepare
  <2>3. /\ run'.pc = "replacing" /\ DOMAIN run' = RunFields /\ run'.backup = backup
        /\ run'.snap = run.snap /\ run'.pending = run.pending /\ run'.writes = run.writes
        /\ run'.harnesses = run.harnesses /\ run'.command = run.command
        /\ run'.accepted = run.accepted /\ run'.left = run.left /\ run'.missed = run.missed
    BY <1>1, <2>1 DEF Shaped, RunFields
  <2>4. /\ Target' = Target /\ Written' = Written
        /\ \A p : (Existed(p)' <=> Existed(p)) /\ (Deleting(p)' <=> Deleting(p))
    BY <2>3, PlanSame
  <2>5. /\ run.pending # {} /\ Target \in run.pending /\ Target \in DOMAIN run.snap /\ Target \in Paths
        /\ Sound(Target, files[Target]) /\ Sound(Target, run.snap[Target])
    BY <1>1, Aimed DEF Shaped, Writing
  <2>6. Sound(Target, backup)
    BY <2>1, <2>5, AbsentStands DEF Sound
  <2>7. Shaped'
    BY <1>1, <2>2, <2>3, <2>4, <2>5, <2>6 DEF Shaped, OthersTyped, Sound, Working, Writing
  <2>8. LedgerShaped'
    BY <1>1, <2>3 DEF LedgerShaped, Sound, Writing
  <2>9. Undoable'
    <3>1. ASSUME Target \in Undisturbed PROVE backup = run.snap[Target]
      <4>1. files[Target] = run.snap[Target]
        <5>1. ~InLedger(Target)
          BY <1>1, <2>5 DEF LedgerShaped, InLedger, Writing
        <5> QED
          BY <1>1, <3>1, <5>1 DEF Undoable, Working
      <4>2. ~Existed(Target) => run.snap[Target] = Absent(Target)
        BY <2>5, StandsOrNot DEF Existed, Sound
      <4> QED
        BY <2>1, <4>1, <4>2
    <3>2. \A p \in DOMAIN run.snap : dirs'[p] = dirs[p] \/ p = Target
      BY <2>2
    <3>3. Undisturbed' = Undisturbed /\ Undisturbed \subseteq DOMAIN run.snap
      BY <1>1, <2>3 DEF Undisturbed
    <3> QED
      BY <1>1, <2>3, <2>4, <3>1, <3>2, <3>3 DEF Undoable, InLedger, AtWork, Working
  <2>10. Recoverable'
    <3>1. /\ \A p : Edits(p)' = Edits(p)
          /\ \A p, mark : BackedUp(p, mark) => BackedUp(p, mark)'
      BY <1>1, <2>2 DEF Edits, BackedUp
    <3>2. ASSUME NEW mark \in Edits(Target)
          PROVE  mark \in run.snap[Target].user \/ BackedUp(Target, mark)'
      <4>1. CASE BackedUp(Target, mark)
        BY <2>4, <3>1, <4>1
      <4>2. CASE mark \in files[Target].user
        <5>1. CASE Existed(Target) /\ <<Target, mark>> \in others.late
          <6>1. PICK b \in backups' : b.path = Target /\ mark \in b.file.user
            BY <2>2, <4>2, <5>1
          <6> QED
            BY <1>1, <2>4, <5>1, <6>1 DEF BackedUp
        <5> QED
          BY <1>1, <3>2, <4>2, <5>1 DEF Recoverable
      <4> QED
        BY <1>1, <2>5, <3>2, <4>1, <4>2 DEF Recoverable
    <3>3. ASSUME NEW mark \in Edits(Target), mark \in run.snap[Target].user
          PROVE  mark \in backup.user
      <4>1. Existed(Target)
        BY <2>5, <3>3, StandsOrNot, AbsentStands DEF Existed, Sound
      <4> QED
        BY <1>1, <2>1, <3>3, <4>1 DEF Recoverable
    <3> QED
      BY <1>1, <2>3, <2>4, <3>1, <3>2, <3>3 DEF Recoverable
  <2> QED
    BY <2>7, <2>8, <2>9, <2>10 DEF Transacted
<1> QED
  BY <1>2, <1>3

LEMMA ReplaceTransacts ==
    ASSUME Transacted, Replace
    PROVE  Transacted'
<1>1. /\ Shaped /\ LedgerShaped /\ Undoable /\ Recoverable
      /\ run.pc = "replacing" /\ ~Deleting(Target) /\ UNCHANGED <<dirs, backups, others>>
      /\ files' = [files EXCEPT ![Target] = Written]
      /\ run' = [run EXCEPT !.pc = "landed"]
  BY DEF Transacted, Replace
<1>2. /\ run'.pc = "landed" /\ DOMAIN run' = RunFields /\ run'.backup = run.backup
      /\ run'.snap = run.snap /\ run'.pending = run.pending /\ run'.writes = run.writes
      /\ run'.harnesses = run.harnesses /\ run'.command = run.command
      /\ run'.accepted = run.accepted /\ run'.left = run.left /\ run'.missed = run.missed
  BY <1>1 DEF Shaped, RunFields
<1>3. /\ Target' = Target /\ Written' = Written
      /\ \A p : (Existed(p)' <=> Existed(p)) /\ (Deleting(p)' <=> Deleting(p))
  BY <1>2, PlanSame
<1>4. /\ run.pending # {} /\ Target \in run.pending /\ Target \in DOMAIN run.snap /\ Target \in Paths
      /\ Sound(Target, Written) /\ Written.user = run.snap[Target].user /\ Written.is = "file"
  BY <1>1, Aimed, WrittenStands DEF Shaped, Writing
<1>5. /\ DOMAIN files' = Paths /\ files'[Target] = Written
      /\ \A p \in Paths \ {Target} : files'[p] = files[p]
  BY <1>1, <1>4 DEF Shaped
<1>6. Shaped'
  <2>1. \A p \in Paths : Sound(p, files'[p])
    BY <1>1, <1>4, <1>5 DEF Shaped
  <2> QED
    BY <1>1, <1>2, <1>3, <1>4, <1>5, <2>1 DEF Shaped, OthersTyped, Sound, Working, Writing
<1>7. LedgerShaped'
  BY <1>1, <1>2 DEF LedgerShaped, Sound, Writing
<1>8. Undoable'
  <2>1. ~InLedger(Target)
    BY <1>1, <1>4 DEF LedgerShaped, InLedger, Writing
  <2>2. Undisturbed' = Undisturbed /\ Undisturbed \subseteq Paths
    BY <1>1, <1>2 DEF Undisturbed, Shaped
  <2> QED
    BY <1>1, <1>2, <1>3, <1>4, <1>5, <2>1, <2>2 DEF Undoable, InLedger, AtWork, Working
<1>9. Recoverable'
  <2>1. /\ \A p : Edits(p)' = Edits(p)
        /\ \A p, mark : BackedUp(p, mark) <=> BackedUp(p, mark)'
    BY <1>1 DEF Edits, BackedUp
  <2>2. ASSUME NEW p \in Paths, NEW mark \in Edits(p)
        PROVE  mark \in files'[p].user \/ BackedUp(p, mark)
    BY <1>1, <1>4, <1>5, <2>2 DEF Recoverable
  <2> QED
    BY <1>1, <1>2, <1>3, <2>1, <2>2 DEF Recoverable
<1> QED
  BY <1>6, <1>7, <1>8, <1>9 DEF Transacted

\* A write joins the ledger.
LEMMA Recorded ==
    ASSUME Transacted, run.pc \in {"replacing", "landed"}, NEW written, Sound(Target, written),
           NEW pc \in {"checking", "rolling"}, NEW pending,
           pending = IF pc = "checking" THEN run.pending \ {Target} ELSE run.pending,
           run' = [run EXCEPT !.pc = pc, !.pending = pending,
                              !.writes = Append(@, WriteEntry(written))],
           DOMAIN files' = Paths, \A p \in Paths \ {Target} : files'[p] = files[p],
           Sound(Target, files'[Target]),
           Target \in Undisturbed => files'[Target] \in {written, run.snap[Target]},
           UNCHANGED <<dirs, backups, others>>,
           \A mark \in Edits(Target) :
               /\ mark \in files'[Target].user \/ BackedUp(Target, mark)
               /\ mark \in written.user => mark \in run.backup.user
    PROVE  Transacted'
<1>1. /\ Shaped /\ LedgerShaped /\ Undoable /\ Recoverable
  BY DEF Transacted
<1>2. /\ run.pending # {} /\ Target \in run.pending /\ Target \in DOMAIN run.snap /\ Target \in Paths
      /\ Sound(Target, run.backup) /\ run.pc \in Writing /\ run.pc \in Working
  BY <1>1, Aimed DEF Shaped, Writing, Working
<1>3. PICK writes, target : target = Target /\ writes = Append(run.writes, WriteEntry(written))
  OBVIOUS
<1>4. /\ run'.pc = pc /\ DOMAIN run' = RunFields
      /\ run'.snap = run.snap /\ run'.pending = pending /\ run'.writes = writes
      /\ run'.harnesses = run.harnesses /\ run'.left = run.left /\ run'.missed = run.missed
  BY <1>1, <1>3 DEF Shaped, RunFields
<1>5. PICK n \in Nat :
        /\ DOMAIN run.writes = 1..n /\ DOMAIN writes = 1..(n + 1) /\ IsSequence(writes)
        /\ \A i \in 1..n : writes[i] = run.writes[i]
        /\ writes[n + 1] = WriteEntry(written)
  <2>1. IsSequence(run.writes)
    BY <1>1 DEF LedgerShaped
  <2>2. PICK n : n = Len(run.writes)
    OBVIOUS
  <2> QED
    BY <1>3, <2>1, <2>2, Appended
<1>6. /\ writes[n + 1].path = target /\ writes[n + 1].backup = run.backup
      /\ writes[n + 1].written = written
  BY <1>3, <1>5 DEF WriteEntry
<1>7. \A i \in 1..(n + 1) : i \in 1..n \/ i = n + 1
  OBVIOUS
<1>8. \A i \in 1..n : run.writes[i].path \in DOMAIN run.snap /\ run.writes[i].path # target
  BY <1>1, <1>2, <1>3, <1>5 DEF LedgerShaped
<1>9. Shaped'
  <2>1. \A p \in Paths : Sound(p, files'[p])
    BY <1>1 DEF Shaped
  <2> QED
    BY <1>1, <1>2, <1>4, <2>1 DEF Shaped, OthersTyped, Sound, Working, Writing
<1>10. LedgerShaped'
  <2>1. ASSUME NEW i \in 1..(n + 1)
        PROVE  /\ writes[i].path \in DOMAIN run.snap
               /\ Sound(writes[i].path, writes[i].backup) /\ Sound(writes[i].path, writes[i].written)
               /\ pc = "checking" => writes[i].path \notin pending
    <3>1. CASE i \in 1..n
      BY <1>1, <1>2, <1>5, <3>1 DEF LedgerShaped
    <3>2. CASE i = n + 1
      BY <1>2, <1>3, <1>6, <3>2
    <3> QED
      BY <1>7, <3>1, <3>2
  <2>2. ASSUME NEW i \in 1..(n + 1), NEW j \in 1..(n + 1), writes[i].path = writes[j].path
        PROVE  i = j
    BY <1>1, <1>5, <1>6, <1>7, <1>8, <2>2 DEF LedgerShaped
  <2>3. ASSUME NEW i \in DOMAIN run'.writes
        PROVE  /\ run'.writes[i].path \in DOMAIN run'.snap
               /\ Sound(run.writes[i].path, run.writes[i].backup)'
               /\ Sound(run.writes[i].path, run.writes[i].written)'
               /\ run'.pc \in Writing => run'.writes[i].path \notin run'.pending
    BY <1>4, <1>5, <2>1 DEF Writing, Sound
  <2>4. IsSequence(run'.writes) /\ run'.pc \notin {"failed", "asking"} /\ run'.missed = {}
    BY <1>1, <1>2, <1>4, <1>5 DEF LedgerShaped
  <2>5. \A i, j \in DOMAIN run'.writes : run'.writes[i].path = run'.writes[j].path => i = j
    BY <1>4, <1>5, <2>2
  <2> QED
    BY <2>3, <2>4, <2>5 DEF LedgerShaped
<1>11. Undoable'
  <2>1. Undisturbed' = Undisturbed /\ Undisturbed \subseteq Paths
    BY <1>1, <1>4 DEF Undisturbed, Shaped
  <2>2. \A p : InLedger(p)' <=> InLedger(p) \/ p = target
    BY <1>4, <1>5, <1>6, <1>7 DEF InLedger
  <2>3. ASSUME NEW p \in Undisturbed, p # target
        PROVE  /\ ~InLedger(p)' => files'[p] = run.snap[p]
               /\ files'[p].is = "absent" /\ dirs'[p] = "ours" => InLedger(p)'
               /\ \A i \in 1..(n + 1) : writes[i].path = p =>
                     /\ writes[i].backup = run.snap[p]
                     /\ files'[p] \in {writes[i].written, run.snap[p]}
    <3>1. files'[p] = files[p] /\ dirs' = dirs /\ (InLedger(p)' <=> InLedger(p)) /\ ~AtWork(p)
      BY <1>3, <2>1, <2>2, <2>3 DEF AtWork
    <3>2. \A i \in 1..n : writes[i].path = p =>
              /\ writes[i].backup = run.snap[p]
              /\ files[p] \in {writes[i].written, run.snap[p]}
      BY <1>1, <1>2, <1>5, <2>3 DEF Undoable
    <3> QED
      BY <1>1, <1>2, <1>3, <1>6, <1>7, <2>3, <3>1, <3>2 DEF Undoable
  <2>4. ASSUME target \in Undisturbed
        PROVE  /\ InLedger(target)'
               /\ \A i \in 1..(n + 1) : writes[i].path = target =>
                     /\ writes[i].backup = run.snap[target]
                     /\ files'[target] \in {writes[i].written, run.snap[target]}
    <3>1. run.backup = run.snap[target]
      BY <1>1, <1>2, <1>3, <2>4 DEF Undoable, AtWork
    <3> QED
      BY <1>3, <1>5, <1>6, <1>7, <1>8, <2>2, <2>4, <3>1
  <2>5. /\ run'.pc = "checking" \/ run'.pc = "rolling"
        /\ DOMAIN run'.writes = 1..(n + 1) /\ run'.writes = writes /\ run'.snap = run.snap
    BY <1>4, <1>5
  <2>6. ASSUME NEW p \in Undisturbed
        PROVE  /\ ~InLedger(p)' => files'[p] = run'.snap[p]
               /\ files'[p].is = "absent" /\ dirs'[p] = "ours" => InLedger(p)'
               /\ \A i \in DOMAIN run'.writes : run'.writes[i].path = p =>
                     /\ run'.writes[i].backup = run'.snap[p]
                     /\ files'[p] \in {run'.writes[i].written, run'.snap[p]}
    BY <2>3, <2>4, <2>5
  <2> QED
    BY <2>1, <2>5, <2>6 DEF Undoable, AtWork
<1>12. Recoverable'
  <2>1. /\ \A p : Edits(p)' = Edits(p)
        /\ \A p, mark : BackedUp(p, mark) <=> BackedUp(p, mark)'
    BY DEF Edits, BackedUp
  <2>2. ASSUME NEW p \in Paths, NEW mark \in Edits(p)
        PROVE  mark \in files'[p].user \/ BackedUp(p, mark)
    BY <1>1, <2>2 DEF Recoverable
  <2>3. ASSUME NEW i \in 1..(n + 1), NEW mark \in Edits(writes[i].path), mark \in writes[i].written.user
        PROVE  mark \in writes[i].backup.user
    <3>1. CASE i \in 1..n
      BY <1>1, <1>5, <2>3, <3>1 DEF Recoverable
    <3>2. CASE i = n + 1
      BY <1>3, <1>6, <2>3, <3>2
    <3> QED
      BY <1>7, <3>1, <3>2
  <2> QED
    BY <1>4, <1>5, <2>1, <2>2, <2>3 DEF Recoverable
<1> QED
  BY <1>9, <1>10, <1>11, <1>12 DEF Transacted

LEMMA RecordTransacts ==
    ASSUME Transacted, Record
    PROVE  Transacted'
<1>1. /\ Shaped /\ LedgerShaped /\ Undoable /\ Recoverable
      /\ run.pc = "landed" /\ UNCHANGED <<files, dirs, backups, others>>
  BY DEF Transacted, Record
<1>2. PICK pending : pending = run.pending \ {Target}
  OBVIOUS
<1>3. run' = [run EXCEPT !.pc = "checking", !.pending = pending,
                         !.writes = Append(@, WriteEntry(Written))]
  BY <1>2 DEF Record
<1>4. /\ Target \in Paths /\ Target \in DOMAIN run.snap /\ Sound(Target, files[Target])
      /\ Sound(Target, Written) /\ Written.user = run.snap[Target].user
  BY <1>1, Aimed, WrittenStands DEF Shaped, Writing
<1>5. Target \in Undisturbed => files'[Target] \in {Written, run.snap[Target]}
  BY <1>1 DEF Undoable, Working
<1>6. \A mark \in Edits(Target) :
          /\ mark \in files'[Target].user \/ BackedUp(Target, mark)
          /\ mark \in Written.user => mark \in run.backup.user
  BY <1>1, <1>4 DEF Recoverable
<1>7. DOMAIN files' = Paths /\ (\A p \in Paths \ {Target} : files'[p] = files[p])
  BY <1>1 DEF Shaped
<1> QED
  BY <1>1, <1>2, <1>3, <1>4, <1>5, <1>6, <1>7, Recorded

LEMMA UnlinkTransacts ==
    ASSUME Transacted, Unlink
    PROVE  Transacted'
<1>1. /\ Shaped /\ LedgerShaped /\ Undoable /\ Recoverable
      /\ run.pc = "replacing" /\ UNCHANGED <<dirs, backups, others>>
      /\ run.snap[Target].user = {}
  BY DEF Transacted, Unlink, Deleting
<1>2. /\ Target \in Paths /\ Target \in DOMAIN run.snap /\ Target \in run.pending
      /\ Sound(Target, files[Target])
  BY <1>1, Aimed DEF Shaped, Writing
<1>3. PICK absent : absent = Absent(Target)
  OBVIOUS
<1>4. Sound(Target, absent) /\ absent.user = {}
  BY <1>3, AbsentStands DEF Sound
<1>5. PICK pending : pending = run.pending \ {Target}
  OBVIOUS
<1>6. CASE /\ files' = [files EXCEPT ![Target] = Absent(Target)]
           /\ run' = [run EXCEPT !.pc = "checking", !.pending = @ \ {Target},
                                 !.writes = Append(@, WriteEntry(Absent(Target)))]
  <2>1. run' = [run EXCEPT !.pc = "checking", !.pending = pending,
                           !.writes = Append(@, WriteEntry(absent))]
    BY <1>3, <1>5, <1>6
  <2>2. /\ DOMAIN files' = Paths /\ files'[Target] = absent
        /\ \A p \in Paths \ {Target} : files'[p] = files[p]
    BY <1>1, <1>2, <1>3, <1>6 DEF Shaped
  <2>3. \A mark \in Edits(Target) :
            /\ mark \in files'[Target].user \/ BackedUp(Target, mark)
            /\ mark \in absent.user => mark \in run.backup.user
    BY <1>1, <1>4, <2>2 DEF Recoverable
  <2> QED
    BY <1>1, <1>2, <1>4, <1>5, <2>1, <2>2, <2>3, Recorded
<1>7. CASE /\ UNCHANGED files
           /\ run' = [run EXCEPT !.pc = "rolling",
                                 !.writes = Append(@, WriteEntry(Absent(Target)))]
  <2>1. run' = [run EXCEPT !.pc = "rolling", !.pending = run.pending,
                           !.writes = Append(@, WriteEntry(absent))]
    BY <1>1, <1>3, <1>7 DEF Shaped, RunFields
  <2>2. DOMAIN files' = Paths /\ \A p \in Paths \ {Target} : files'[p] = files[p]
    BY <1>1, <1>7 DEF Shaped
  <2>3. \A mark \in Edits(Target) :
            /\ mark \in files'[Target].user \/ BackedUp(Target, mark)
            /\ mark \in absent.user => mark \in run.backup.user
    BY <1>1, <1>2, <1>4, <1>7 DEF Recoverable
  <2>4. Target \in Undisturbed => files'[Target] \in {absent, run.snap[Target]}
    <3>1. ~InLedger(Target)
      BY <1>1, <1>2 DEF LedgerShaped, InLedger, Writing
    <3> QED
      BY <1>1, <1>7, <3>1 DEF Undoable, Working
  <2> QED
    BY <1>1, <1>2, <1>4, <1>7, <2>1, <2>2, <2>3, <2>4, Recorded
<1> QED
  BY <1>6, <1>7 DEF Unlink

LEMMA FailTransacts ==
    ASSUME Transacted, Fail
    PROVE  Transacted'
<1>1. /\ Shaped /\ LedgerShaped /\ Undoable /\ Recoverable
      /\ run.pc \in Writing /\ run.pending # {} /\ UNCHANGED <<files, backups, others>>
      /\ run.missed = {}
  BY DEF Transacted, Fail, Writing, LedgerShaped
<1>2. /\ Target \in Paths /\ Target \in DOMAIN run.snap /\ Target \in run.pending
      /\ run.pc \in Working
  BY <1>1, Aimed DEF Writing, Working
<1>3. PICK missed : /\ missed = IF run.pc = "landed" THEN {Target} ELSE {}
                    /\ run' = [run EXCEPT !.pc = "rolling", !.missed = missed]
  BY DEF Fail
<1>4. /\ run'.pc = "rolling" /\ DOMAIN run' = RunFields /\ run'.missed = missed
      /\ run'.snap = run.snap /\ run'.writes = run.writes
      /\ run'.harnesses = run.harnesses /\ run'.left = run.left
  BY <1>1, <1>3 DEF Shaped, RunFields
<1>5. /\ DOMAIN dirs' = Paths /\ \A p \in Paths \ {Target} : dirs'[p] = dirs[p]
      /\ files[Target].is = "absent" => dirs'[Target] # "ours"
  BY <1>1, <1>2 DEF Fail, RemoveCreatedDirs, Shaped
<1>6. Shaped'
  BY <1>1, <1>2, <1>4, <1>5 DEF Shaped, OthersTyped, Sound, Working, Writing
<1>7. LedgerShaped'
  BY <1>1, <1>4 DEF LedgerShaped, Sound, Writing
<1>8. Undoable'
  <2>1. ~InLedger(Target)
    BY <1>1, <1>2 DEF LedgerShaped, InLedger, Writing
  <2>2. /\ Undisturbed' = Undisturbed \ missed /\ Undisturbed \subseteq Paths
        /\ \A p : InLedger(p)' <=> InLedger(p)
    BY <1>1, <1>4 DEF Undisturbed, Shaped, InLedger
  <2>3. ASSUME NEW p \in Undisturbed', p = Target
        PROVE  files[p] = run.snap[p] /\ ~(files[p].is = "absent" /\ dirs'[p] = "ours")
    BY <1>1, <1>2, <1>3, <1>5, <2>1, <2>2, <2>3 DEF Undoable
  <2>4. ASSUME NEW p \in Undisturbed', p # Target
        PROVE  /\ ~InLedger(p) => files[p] = run.snap[p]
               /\ files[p].is = "absent" /\ dirs'[p] = "ours" => InLedger(p)
    BY <1>1, <1>2, <1>5, <2>2, <2>4 DEF Undoable, AtWork
  <2>5. ASSUME NEW p \in Undisturbed', NEW i \in DOMAIN run.writes, run.writes[i].path = p
        PROVE  run.writes[i].backup = run.snap[p] /\ files[p] \in {run.writes[i].written, run.snap[p]}
    BY <1>1, <1>2, <2>2, <2>5 DEF Undoable
  <2> QED
    BY <1>1, <1>4, <2>2, <2>3, <2>4, <2>5 DEF Undoable, AtWork
<1>9. Recoverable'
  <2>1. /\ \A p : Edits(p)' = Edits(p)
        /\ \A p, mark : BackedUp(p, mark) <=> BackedUp(p, mark)'
    BY <1>1 DEF Edits, BackedUp
  <2> QED
    BY <1>1, <1>4, <2>1 DEF Recoverable
<1> QED
  BY <1>6, <1>7, <1>8, <1>9 DEF Transacted

-----------------------------------------------------------------------------
(* Rolling back *)

\* The newest write leaves the ledger: undone, or left and named in the report.
LEMMA Unrecorded ==
    ASSUME Transacted, run.pc \in {"rolling", "restoring"}, run.writes # <<>>,
           NEW p, p = Last(run.writes).path, NEW left \in {run.left, run.left \cup {p}},
           run' = [run EXCEPT !.pc = "rolling", !.writes = Front(@), !.left = left],
           DOMAIN files' = Paths, \A q \in Paths \ {p} : files'[q] = files[q],
           DOMAIN dirs' = Paths, \A q \in Paths \ {p} : dirs'[q] = dirs[q],
           UNCHANGED <<backups, others>>,
           Sound(p, files'[p]),
           p \in Undisturbed /\ p \notin left =>
               files'[p] = run.snap[p] /\ ~(files'[p].is = "absent" /\ dirs'[p] = "ours"),
           \A mark \in Edits(p) : mark \in files'[p].user \/ BackedUp(p, mark)
    PROVE  Transacted'
<1>1. /\ Shaped /\ LedgerShaped /\ Undoable /\ Recoverable
      /\ run.pc \in Working /\ run.pc \notin Writing
  BY DEF Transacted, Working, Writing
<1>2. IsSequence(run.writes)
  BY <1>1 DEF LedgerShaped
<1>3. PICK front : front = Front(run.writes)
  OBVIOUS
<1>4. PICK n \in Nat \ {0} :
        /\ DOMAIN run.writes = 1..n /\ DOMAIN front = 1..(n - 1) /\ IsSequence(front)
        /\ \A i \in 1..(n - 1) : i \in 1..n /\ i # n /\ front[i] = run.writes[i]
        /\ p = run.writes[n].path
  <2>1. PICK n : n = Len(run.writes)
    OBVIOUS
  <2>2. n \in Nat \ {0} /\ DOMAIN run.writes = 1..n
    BY <1>2, <2>1, Shortened
  <2>3. IsSequence(front) /\ DOMAIN front = 1..(n - 1)
    BY <1>2, <1>3, <2>1, Shortened
  <2>4. \A i \in DOMAIN front : i \in DOMAIN run.writes /\ i # n /\ front[i] = run.writes[i]
    BY <1>2, <1>3, <2>1, Shortened
  <2>5. Last(run.writes) = run.writes[n]
    BY <1>2, <2>1, Shortened
  <2> QED
    BY <2>2, <2>3, <2>4, <2>5
<1>5. /\ run'.pc = "rolling" /\ DOMAIN run' = RunFields /\ run'.left = left
      /\ run'.snap = run.snap /\ run'.writes = front
      /\ run'.harnesses = run.harnesses /\ run'.missed = run.missed
  BY <1>1, <1>3 DEF Shaped, RunFields
<1>6. \A i \in 1..(n - 1) : run.writes[i].path # p
  BY <1>1, <1>4 DEF LedgerShaped
<1>7. p \in DOMAIN run.snap /\ p \in Paths
  BY <1>1, <1>4 DEF LedgerShaped, Shaped
<1>8. Shaped'
  <2>1. \A q \in Paths : Sound(q, files'[q])
    BY <1>1 DEF Shaped
  <2> QED
    BY <1>1, <1>5, <2>1 DEF Shaped, OthersTyped, Sound, Working, Writing
<1>9. LedgerShaped'
  <2>1. ASSUME NEW i \in DOMAIN run'.writes
        PROVE  /\ run'.writes[i].path \in DOMAIN run'.snap
               /\ Sound(run.writes[i].path, run.writes[i].backup)'
               /\ Sound(run.writes[i].path, run.writes[i].written)'
    BY <1>1, <1>4, <1>5 DEF LedgerShaped, Sound
  <2>2. \A i, j \in DOMAIN run'.writes : run'.writes[i].path = run'.writes[j].path => i = j
    BY <1>1, <1>4, <1>5 DEF LedgerShaped
  <2>3. IsSequence(run'.writes) /\ run'.pc \notin {"failed", "asking", "restoring"} \cup Writing
    BY <1>4, <1>5 DEF Writing
  <2> QED
    BY <2>1, <2>2, <2>3 DEF LedgerShaped
<1>10. Undoable'
  <2>1. /\ Undisturbed' = Undisturbed \ left /\ Undisturbed' \subseteq Undisturbed
        /\ Undisturbed \subseteq Paths
    BY <1>1, <1>5 DEF Undisturbed, Shaped
  <2>2. ASSUME NEW q \in Undisturbed', q # p
        PROVE  /\ ~InLedger(q)' => files'[q] = run.snap[q]
               /\ files'[q].is = "absent" /\ dirs'[q] = "ours" => InLedger(q)'
    <3>1. InLedger(q)' <=> InLedger(q)
      <4>1. \A i \in 1..n : i = n \/ i \in 1..(n - 1)
        OBVIOUS
      <4> QED
        BY <1>4, <1>5, <2>2, <4>1 DEF InLedger
    <3> QED
      BY <1>1, <2>1, <2>2, <3>1 DEF Undoable, AtWork
  <2>3. ASSUME NEW q \in Undisturbed', q = p
        PROVE  files'[q] = run.snap[q] /\ ~(files'[q].is = "absent" /\ dirs'[q] = "ours")
    BY <2>1, <2>3
  <2>4. ASSUME NEW q \in Undisturbed', NEW i \in DOMAIN front, front[i].path = q
        PROVE  front[i].backup = run.snap[q] /\ files'[q] \in {front[i].written, run.snap[q]}
    <3>1. q # p /\ front[i] = run.writes[i] /\ i \in DOMAIN run.writes
      BY <1>4, <1>6, <2>4
    <3> QED
      BY <1>1, <2>1, <2>4, <3>1 DEF Undoable
  <2> QED
    BY <1>5, <2>2, <2>3, <2>4 DEF Undoable, AtWork
<1>11. Recoverable'
  <2>1. /\ \A q : Edits(q)' = Edits(q)
        /\ \A q, mark : BackedUp(q, mark) <=> BackedUp(q, mark)'
    BY DEF Edits, BackedUp
  <2>2. ASSUME NEW q \in Paths, NEW mark \in Edits(q)
        PROVE  mark \in files'[q].user \/ BackedUp(q, mark)
    BY <1>1, <2>2 DEF Recoverable
  <2>3. ASSUME NEW i \in DOMAIN front, NEW mark \in Edits(front[i].path), mark \in front[i].written.user
        PROVE  mark \in front[i].backup.user
    BY <1>1, <1>4, <2>3 DEF Recoverable
  <2> QED
    BY <1>5, <2>1, <2>2, <2>3 DEF Recoverable
<1> QED
  BY <1>8, <1>9, <1>10, <1>11 DEF Transacted

\* The write that is to be undone, and what it and its backup hold.
LEMMA Newest ==
    ASSUME Transacted, run.pc \in {"rolling", "restoring"}, run.writes # <<>>,
           NEW write, write = Last(run.writes), NEW p, p = write.path
    PROVE  /\ p \in DOMAIN run.snap /\ p \in Paths
           /\ Sound(p, write.backup) /\ Sound(p, write.written) /\ Sound(p, files[p])
           /\ p \in Undisturbed =>
                 write.backup = run.snap[p] /\ files[p] \in {write.written, run.snap[p]}
           /\ \A mark \in Edits(p) :
                 /\ mark \in files[p].user \/ BackedUp(p, mark)
                 /\ mark \in write.written.user => mark \in write.backup.user
           /\ run.snap[p].is \in {"file", "absent"}
<1>1. Shaped /\ LedgerShaped /\ Undoable /\ Recoverable /\ run.pc \in Working \ {"failed"}
  BY DEF Transacted, Working
<1>2. PICK n \in DOMAIN run.writes : write = run.writes[n]
  <2>1. IsSequence(run.writes)
    BY <1>1 DEF LedgerShaped
  <2> QED
    BY <2>1, Shortened
<1>3. /\ p \in DOMAIN run.snap /\ p \in Paths
      /\ Sound(p, write.backup) /\ Sound(p, write.written) /\ Sound(p, files[p])
  BY <1>1, <1>2 DEF LedgerShaped, Shaped
<1>4. p \in Undisturbed =>
          write.backup = run.snap[p] /\ files[p] \in {write.written, run.snap[p]}
  BY <1>1, <1>2 DEF Undoable
<1>5. \A mark \in Edits(p) :
          /\ mark \in files[p].user \/ BackedUp(p, mark)
          /\ mark \in write.written.user => mark \in write.backup.user
  BY <1>1, <1>2, <1>3 DEF Recoverable
<1>6. run.snap[p].is \in {"file", "absent"}
  BY <1>1, <1>3 DEF Shaped
<1> QED
  BY <1>3, <1>4, <1>5, <1>6

\* What a write is undone to holds what its backup does.
LEMMA Before ==
    ASSUME NEW write, Sound(write.path, write.backup)
    PROVE  /\ Sound(write.path, BeforeWrite(write))
           /\ BeforeWrite(write).user = write.backup.user /\ BeforeWrite(write).text = write.backup.text
           /\ write.backup.is \in {"file", "absent"} => BeforeWrite(write) = write.backup
<1>1. CASE write.backup.is # "absent"
  <2>1. BeforeWrite(write) = [write.backup EXCEPT !.is = "file"]
    BY <1>1 DEF BeforeWrite
  <2>2. Standing(write.path, write.backup) /\ write.backup.user \subseteq 1..others.count
    BY DEF Sound
  <2>a. PICK p, f : p = write.path /\ f = write.backup
    OBVIOUS
  <2>b. Standing(p, [f EXCEPT !.is = "file"]) /\ [f EXCEPT !.is = "file"].user = f.user
    BY <1>1, <2>2, <2>a, StandsOrNot
  <2>3. Standing(write.path, BeforeWrite(write)) /\ BeforeWrite(write).user = write.backup.user
    BY <2>1, <2>a, <2>b
  <2>4. write.backup.is = "file" => BeforeWrite(write) = write.backup
    BY <2>1, <2>2, StandsOrNot
  <2>5. BeforeWrite(write).text = write.backup.text
    BY <2>1, <2>2 DEF Standing, Absent
  <2> QED
    BY <1>1, <2>2, <2>3, <2>4, <2>5 DEF Sound
<1>2. CASE write.backup.is = "absent"
  <2>1. BeforeWrite(write) = Absent(write.path)
    BY <1>2 DEF BeforeWrite
  <2>2. write.backup = Absent(write.path)
    BY <1>2, StandsOrNot DEF Sound
  <2> QED
    BY <2>1, <2>2
<1> QED
  BY <1>1, <1>2

LEMMA LeaveTransacts ==
    ASSUME Transacted, run.pc \in {"rolling", "restoring"}, run.writes # <<>>, Leave
    PROVE  Transacted'
<1>1. PICK p, left : p = Last(run.writes).path /\ left = run.left \cup {p}
  OBVIOUS
<1>2. /\ run' = [run EXCEPT !.pc = "rolling", !.writes = Front(@), !.left = left]
      /\ UNCHANGED <<files, dirs, backups, others>>
  BY <1>1 DEF Leave, Transacted, Shaped, RunFields
<1>3. /\ DOMAIN files' = Paths /\ DOMAIN dirs' = Paths
      /\ \A q \in Paths \ {p} : files'[q] = files[q] /\ dirs'[q] = dirs[q]
  BY <1>2 DEF Transacted, Shaped
<1>4. p \in left /\ left \in {run.left, run.left \cup {p}} /\ files' = files
  BY <1>1, <1>2
<1>5. Sound(p, files[p]) /\ \A mark \in Edits(p) : mark \in files[p].user \/ BackedUp(p, mark)
  BY <1>1, Newest
<1> QED
  BY <1>1, <1>2, <1>3, <1>4, <1>5, Unrecorded

LEMMA CheckTransacts ==
    ASSUME Transacted, CheckWritten
    PROVE  Transacted'
<1>1. run.pc = "rolling" /\ run.writes # <<>>
  BY DEF CheckWritten
<1>2. PICK write, p : write = Last(run.writes) /\ p = write.path
  OBVIOUS
<1>3. /\ p \in DOMAIN run.snap /\ p \in Paths
      /\ Sound(p, write.backup) /\ Sound(p, files[p])
      /\ p \in Undisturbed =>
            write.backup = run.snap[p] /\ files[p] \in {write.written, run.snap[p]}
      /\ \A mark \in Edits(p) :
            /\ mark \in files[p].user \/ BackedUp(p, mark)
            /\ mark \in write.written.user => mark \in write.backup.user
  BY <1>1, <1>2, Newest
<1>4. \/ /\ files[p] = write.written
         /\ run' = [run EXCEPT !.pc = "restoring"]
         /\ UNCHANGED <<files, dirs, backups, others>>
      \/ /\ files[p] # write.written
         /\ run' = [run EXCEPT !.writes = Front(@)]
         /\ dirs' = RemoveCreatedDirs(p, files)
         /\ UNCHANGED <<files, backups, others>>
      \/ Leave
  BY <1>2 DEF CheckWritten
<1>5. CASE /\ files[p] = write.written
           /\ run' = [run EXCEPT !.pc = "restoring"]
           /\ UNCHANGED <<files, dirs, backups, others>>
  <2>1. PutBack(Last(run.writes))
    BY <1>2, <1>3, <1>5 DEF PutBack
  <2> QED
    BY <1>1, <1>5, <2>1, Moves
<1>6. CASE /\ files[p] # write.written
           /\ run' = [run EXCEPT !.writes = Front(@)]
           /\ dirs' = RemoveCreatedDirs(p, files)
           /\ UNCHANGED <<files, backups, others>>
  <2>1. /\ DOMAIN files' = Paths /\ files' = files
        /\ DOMAIN dirs' = Paths /\ \A q \in Paths \ {p} : dirs'[q] = dirs[q]
        /\ files[p].is = "absent" => dirs'[p] # "ours"
    BY <1>3, <1>6 DEF RemoveCreatedDirs, Transacted, Shaped
  <2>2. p \in Undisturbed => files'[p] = run.snap[p]
    BY <1>3, <1>6
  <2>3. run' = [run EXCEPT !.pc = "rolling", !.writes = Front(@), !.left = run.left]
    BY <1>1, <1>6 DEF Transacted, Shaped, RunFields
  <2>4. p = Last(run.writes).path
    BY <1>2
  <2> QED
    BY <1>1, <1>3, <1>6, <2>1, <2>2, <2>3, <2>4, Unrecorded
<1> QED
  BY <1>1, <1>4, <1>5, <1>6, LeaveTransacts

LEMMA RestoreTransacts ==
    ASSUME Transacted, Restore
    PROVE  Transacted'
<1>1. run.pc = "restoring" /\ run.writes # <<>> /\ PutBack(Last(run.writes))
  BY DEF Restore, Transacted, LedgerShaped, Recoverable
<1>2. PICK write, p : write = Last(run.writes) /\ p = write.path
  OBVIOUS
<1>3. /\ p \in DOMAIN run.snap /\ p \in Paths /\ Sound(p, write.backup)
      /\ p \in Undisturbed => write.backup = run.snap[p]
      /\ run.snap[p].is \in {"file", "absent"}
  BY <1>1, <1>2, Newest
<1>4. PICK back : back = BeforeWrite(write)
  OBVIOUS
<1>5. /\ Sound(p, back) /\ back.user = write.backup.user
      /\ write.backup.is \in {"file", "absent"} => back = write.backup
  BY <1>2, <1>3, <1>4, Before
<1>6. CASE /\ files' = [files EXCEPT ![p] = back]
           /\ dirs' = RemoveCreatedDirs(p, files')
           /\ run' = [run EXCEPT !.pc = "rolling", !.writes = Front(@)]
           /\ UNCHANGED <<backups, others>>
  <2>1. /\ DOMAIN files' = Paths /\ files'[p] = back
        /\ \A q \in Paths \ {p} : files'[q] = files[q]
    BY <1>3, <1>6 DEF Transacted, Shaped
  <2>2. /\ DOMAIN dirs' = Paths /\ \A q \in Paths \ {p} : dirs'[q] = dirs[q]
        /\ back.is = "absent" => dirs'[p] # "ours"
    BY <1>3, <1>6, <2>1 DEF RemoveCreatedDirs, Transacted, Shaped
  <2>3. p \in Undisturbed => files'[p] = run.snap[p] /\ ~(files'[p].is = "absent" /\ dirs'[p] = "ours")
    BY <1>3, <1>5, <2>1, <2>2
  <2>4. \A mark \in Edits(p) : mark \in files'[p].user \/ BackedUp(p, mark)
    BY <1>1, <1>2, <1>5, <2>1 DEF PutBack
  <2>5. run' = [run EXCEPT !.pc = "rolling", !.writes = Front(@), !.left = run.left]
    BY <1>6 DEF Transacted, Shaped, RunFields
  <2>6. /\ p = Last(run.writes).path /\ Sound(p, files'[p]) /\ UNCHANGED <<backups, others>>
        /\ run.pc \in {"rolling", "restoring"} /\ run.writes # <<>>
    BY <1>1, <1>2, <1>5, <1>6, <2>1
  <2>7. DOMAIN files' = Paths /\ \A q \in Paths \ {p} : files'[q] = files[q]
    BY <2>1
  <2>8. DOMAIN dirs' = Paths /\ \A q \in Paths \ {p} : dirs'[q] = dirs[q]
    BY <2>2
  <2>9. PICK left : left = run.left
    OBVIOUS
  <2>10. /\ left \in {run.left, run.left \cup {p}}
         /\ run' = [run EXCEPT !.pc = "rolling", !.writes = Front(@), !.left = left]
    BY <2>5, <2>9
  <2> QED
    BY <2>3, <2>4, <2>6, <2>7, <2>8, <2>10, Unrecorded
<1>7. \/ /\ files' = [files EXCEPT ![p] = back]
         /\ dirs' = RemoveCreatedDirs(p, files')
         /\ run' = [run EXCEPT !.pc = "rolling", !.writes = Front(@)]
         /\ UNCHANGED <<backups, others>>
      \/ Leave
  BY <1>2, <1>4 DEF Restore
<1> QED
  BY <1>1, <1>6, <1>7, LeaveTransacts
-----------------------------------------------------------------------------
(* The user and every other program *)

\* What somebody does to a file takes no edit away but those they give up, and adds
\* at most the one it makes.
LEMMA Touching ==
    ASSUME Transacted, NEW p \in Paths, NEW f, NEW edits, NEW givenUp, Touch(p, edits, givenUp),
           files' = [files EXCEPT ![p] = f], Standing(p, f), f.user \subseteq files[p].user \cup {NextEdit},
           edits \subseteq {<<p, NextEdit>>}, edits # {} => NextEdit \in f.user,
           NextEdit \in f.user => <<p, NextEdit>> \in edits,
           \A mark \in files[p].user : mark \in f.user \/ <<p, mark>> \in givenUp,
           DOMAIN dirs' = Paths, \A q \in Paths \ {p} : dirs'[q] = dirs[q]
    PROVE  Transacted'
<1>1. /\ Shaped /\ LedgerShaped /\ Undoable /\ Recoverable
      /\ UNCHANGED <<backups, run>> /\ OthersTyped
  BY DEF Transacted, Touch, Shaped
<1> PICK n : n = others.count
  OBVIOUS
<1>2. n = others.count /\ n \in Nat /\ NextEdit = n + 1 /\ n + 1 \in Nat
  BY <1>1 DEF OthersTyped, NextEdit
<1>3. /\ others'.count = n + 1
      /\ others'.edits = (others.edits \cup edits) \ givenUp
      /\ others'.late = IF Late(p) THEN others.late \cup edits ELSE others.late
      /\ others'.exposed = IF Exposed(p) THEN others.exposed \cup edits ELSE others.exposed
      /\ others'.touched = others.touched \cup {p}
      /\ others'.ever = others.ever \cup {p} /\ others'.first = others.first
      /\ DOMAIN others' = {"count", "edits", "late", "exposed", "touched", "ever", "first"}
  BY <1>1, <1>2 DEF Touch, OthersTyped
<1>4. OthersTyped'
  <2>1. edits \subseteq Paths \X Nat
    BY <1>2
  <2>2. others' = [count |-> others'.count, edits |-> others'.edits, late |-> others'.late,
                   exposed |-> others'.exposed, touched |-> others'.touched,
                   ever |-> others'.ever, first |-> others'.first]
    BY <1>1 DEF Touch, OthersTyped
  <2>3. /\ others'.count \in Nat /\ others'.edits \subseteq Paths \X Nat
        /\ others'.late \subseteq Paths \X Nat /\ others'.exposed \subseteq Paths \X Nat
        /\ others'.touched \subseteq Paths /\ others'.ever \subseteq Paths /\ others'.first \in Found
    BY <1>1, <1>2, <1>3, <2>1 DEF OthersTyped
  <2> QED
    BY <2>2, <2>3 DEF OthersTyped
<1>5. \A q, g : Sound(q, g) => Sound(q, g)' /\ n + 1 \notin g.user
  BY <1>2, <1>3 DEF Sound
<1>6. /\ DOMAIN files' = Paths /\ files'[p] = f /\ Sound(p, files[p])
      /\ \A q \in Paths \ {p} : files'[q] = files[q]
  BY <1>1 DEF Shaped
<1>7. Target' = Target /\ \A q : Existed(q)' <=> Existed(q)
  BY <1>1, TargetSame DEF Existed
<1>8. \A q : Deleting(q)' <=> Deleting(q)
  BY <1>1, PlanSame
<1>9. Shaped'
  <2>1. Sound(p, f)'
    BY <1>2, <1>3, <1>6 DEF Sound
  <2>2. \A q \in Paths : Sound(q, files[q])'
    BY <1>1, <1>5, <1>6, <2>1 DEF Shaped, Sound
  <2>3. \A q \in DOMAIN run.snap : Sound(q, run.snap[q])'
    BY <1>1, <1>5 DEF Shaped, Sound
  <2>4. run.pc \in {"replacing", "landed"} => Sound(Target, run.backup)'
    BY <1>1, <1>5, <1>7 DEF Shaped, Sound
  <2> QED
    BY <1>1, <1>4, <1>6, <1>7, <1>8, <2>2, <2>3, <2>4 DEF Shaped
<1>10. LedgerShaped'
  <2>1. \A i \in DOMAIN run.writes :
            /\ Sound(run.writes[i].path, run.writes[i].backup)'
            /\ Sound(run.writes[i].path, run.writes[i].written)'
    BY <1>1, <1>5 DEF LedgerShaped, Sound
  <2> QED
    BY <1>1, <2>1 DEF LedgerShaped
<1>11. Undoable'
  <2>1. /\ Undisturbed' = Undisturbed \ {p} /\ Undisturbed \subseteq Paths
        /\ \A q : (InLedger(q)' <=> InLedger(q)) /\ (AtWork(q)' <=> AtWork(q))
    BY <1>1, <1>3, <1>7 DEF Undisturbed, InLedger, AtWork, Shaped
  <2>2. Written' = Written
    BY <1>1, PlanSame
  <2> QED
    BY <1>1, <1>6, <1>7, <2>1, <2>2 DEF Undoable
<1>12. Recoverable'
  <2>1. ASSUME NEW q, NEW mark \in Nat, <<q, mark>> \in others'.edits \ others'.exposed
        PROVE  /\ mark \in Edits(q) \/ (q = p /\ mark = n + 1 /\ <<p, n + 1>> \in edits /\ ~Exposed(p))
               /\ <<q, mark>> \notin givenUp
    BY <1>2, <1>3, <2>1 DEF Edits
  <2>2. \A q, mark : BackedUp(q, mark) => BackedUp(q, mark)'
    BY <1>1, <1>3 DEF BackedUp
  <2>3. ASSUME NEW q \in Paths, NEW mark \in Nat,
               <<q, mark>> \in others'.edits \ others'.exposed
        PROVE  mark \in files'[q].user \/ BackedUp(q, mark)'
    <3>1. CASE mark \in Edits(q)
      BY <1>1, <1>6, <2>1, <2>2, <2>3, <3>1 DEF Recoverable
    <3>2. CASE q = p /\ mark = n + 1 /\ <<p, n + 1>> \in edits
      BY <1>2, <1>6, <3>2
    <3> QED
      BY <2>1, <2>3, <3>1, <3>2
  <2>4. ASSUME run.pc = "preparing", NEW mark \in Nat,
               <<Target, mark>> \in others'.edits \ others'.exposed
        PROVE  /\ mark \in files'[Target].user =>
                     \/ mark \in run.snap[Target].user
                     \/ Existed(Target) /\ <<Target, mark>> \in others'.late
               /\ mark \in run.snap[Target].user => mark \in files'[Target].user
    <3>1. Target \in Paths /\ Sound(Target, run.snap[Target]) /\ Sound(Target, files[Target])
      BY <1>1, <2>4, Aimed DEF Shaped, Writing
    <3>2. n + 1 \notin run.snap[Target].user /\ n + 1 \notin files[Target].user
      BY <1>5, <3>1
    <3>3. CASE mark \in Edits(Target) /\ Target # p
      BY <1>1, <1>3, <1>6, <2>4, <3>1, <3>3 DEF Recoverable
    <3>4. CASE mark \in Edits(Target) /\ Target = p /\ mark # n + 1
      BY <1>1, <1>2, <1>3, <1>6, <2>1, <2>4, <3>4 DEF Recoverable
    <3>5. CASE Target = p /\ mark = n + 1
      <4>1. mark \in files'[Target].user => <<Target, mark>> \in edits
        BY <1>2, <1>6, <3>5
      <4>2. Late(p)
        BY <2>4, <3>5 DEF Late
      <4>3. mark \in files'[Target].user /\ ~Existed(Target) => FALSE
        <5>1. SUFFICES ASSUME mark \in files'[Target].user, ~Existed(Target) PROVE FALSE
          OBVIOUS
        <5>2. Exposed(p)
          BY <3>5, <4>2, <5>1 DEF Exposed
        <5>3. <<Target, mark>> \in others'.exposed
          BY <1>3, <4>1, <5>1, <5>2
        <5> QED
          BY <2>4, <5>3
      <4> QED
        BY <1>3, <3>2, <3>5, <4>1, <4>2, <4>3
    <3> QED
      BY <2>1, <2>4, <3>3, <3>4, <3>5
  <2>5. ASSUME run.pc = "replacing", NEW mark \in Nat,
               <<Target, mark>> \in others'.edits \ others'.exposed
        PROVE  mark \in run.snap[Target].user \/ BackedUp(Target, mark)'
    <3>1. Target = p => Exposed(p)
      BY <2>5 DEF Exposed, Late
    <3>2. mark \in Edits(Target)
      BY <2>1, <2>5, <3>1
    <3> QED
      BY <1>1, <1>7, <2>2, <2>5, <3>2 DEF Recoverable
  <2>6. ASSUME run.pc \in {"replacing", "landed"}, NEW mark \in Nat,
               <<Target, mark>> \in others'.edits \ others'.exposed,
               mark \in run.snap[Target].user
        PROVE  mark \in run.backup.user
    <3>1. Sound(Target, run.snap[Target])
      BY <1>1, <2>6, Aimed DEF Shaped, Writing
    <3>2. mark # n + 1
      BY <1>5, <2>6, <3>1
    <3>3. mark \in Edits(Target)
      BY <2>1, <2>6, <3>2
    <3> QED
      BY <1>1, <2>6, <3>3 DEF Recoverable
  <2>7. ASSUME NEW i \in DOMAIN run.writes, NEW mark \in Nat,
               <<run.writes[i].path, mark>> \in others'.edits \ others'.exposed,
               mark \in run.writes[i].written.user
        PROVE  mark \in run.writes[i].backup.user
    <3>1. mark # n + 1
      BY <1>1, <1>5, <2>7 DEF LedgerShaped
    <3>2. mark \in Edits(run.writes[i].path)
      BY <2>1, <2>7, <3>1
    <3> QED
      BY <1>1, <2>7, <3>2 DEF Recoverable
  <2>9. run.pc = "restoring" => PutBack(Last(run.writes))'
    <3>1. SUFFICES ASSUME run.pc = "restoring", NEW write, write = Last(run.writes),
                          NEW mark \in Nat, <<write.path, mark>> \in others'.edits \ others'.exposed
                   PROVE  mark \in write.backup.user \/ BackedUp(write.path, mark)'
      BY <1>1 DEF PutBack, Edits
    <3>2. write.path = p => Exposed(p)
      BY <3>1 DEF Exposed, Restoring
    <3>3. mark \in Edits(write.path)
      BY <2>1, <3>1, <3>2
    <3> QED
      BY <1>1, <2>2, <3>1, <3>3 DEF Recoverable, PutBack
  <2>8. /\ run' = run /\ (Existed(Target)' <=> Existed(Target)) /\ Target' = Target
        /\ files[Target]' = files'[Target] /\ run.snap[Target]' = run.snap[Target]
    BY <1>1, <1>7 DEF Existed
  <2> QED
    BY <1>1, <1>7, <2>3, <2>4, <2>5, <2>6, <2>7, <2>8, <2>9 DEF Recoverable, Edits
<1> QED
  BY <1>9, <1>10, <1>11, <1>12 DEF Transacted

LEMMA UserTransacts ==
    ASSUME Transacted, UserStep
    PROVE  Transacted'
<1>1. /\ DOMAIN files = Paths /\ DOMAIN dirs = Paths /\ others.count \in Nat
      /\ \A p \in Paths : Standing(p, files[p]) /\ files[p].user \subseteq 1..others.count
  BY DEF Transacted, Shaped, Sound, OthersTyped
<1>2. PICK p \in Paths : UserEdits(p) \/ UserCreates(p) \/ UserDeletes(p) \/ UserLinks(p)
  BY DEF UserStep
<1>3. /\ NextEdit \notin files[p].user /\ Standing(p, files[p])
      /\ files[p].is # "absent" =>
            files[p] = [is |-> files[p].is, text |-> files[p].text, user |-> files[p].user,
                        mode |-> files[p].mode] /\ files[p].mode # "none"
  BY <1>1 DEF NextEdit, Standing, Absent
<1>4. Absent(p).user = {} /\ Absent(p).is = "absent" /\ Absent(p).mode = "none" /\ Standing(p, Absent(p))
  BY AbsentStands
<1>5. CASE UserEdits(p)
  <2>1. PICK f : f = [files[p] EXCEPT !.user = @ \cup {NextEdit}]
    OBVIOUS
  <2>2. f.user = files[p].user \cup {NextEdit} /\ Standing(p, f)
    BY <1>3, <1>5, <2>1 DEF UserEdits, Standing
  <2>3. files' = [files EXCEPT ![p] = f] /\ Touch(p, {<<p, NextEdit>>}, {}) /\ dirs' = dirs
    BY <1>1, <1>5, <2>1 DEF UserEdits
  <2> QED
    BY <1>1, <2>2, <2>3, Touching
<1>6. CASE UserCreates(p)
  <2>1. PICK f : f = [Absent(p) EXCEPT !.is = "file", !.mode = "found", !.user = {NextEdit}]
    OBVIOUS
  <2>2. f.user = {NextEdit} /\ Standing(p, f)
    BY <2>1 DEF Standing, Absent
  <2>3. /\ files' = [files EXCEPT ![p] = f] /\ Touch(p, {<<p, NextEdit>>}, {})
        /\ dirs' = [dirs EXCEPT ![p] = "theirs"]
    BY <1>6, <2>1 DEF UserCreates
  <2>4. files[p].user = {}
    BY <1>1, <1>4, <1>6, StandsOrNot DEF UserCreates
  <2> QED
    BY <1>1, <2>2, <2>3, <2>4, Touching
<1>7. CASE UserDeletes(p)
  <2>1. PICK f : f = Absent(p)
    OBVIOUS
  <2>2. PICK givenUp : givenUp = {<<p, e>> : e \in files[p].user}
    OBVIOUS
  <2>3. files' = [files EXCEPT ![p] = f] /\ Touch(p, {}, givenUp) /\ dirs' = dirs
    BY <1>7, <2>1, <2>2 DEF UserDeletes
  <2>4. \A mark \in files[p].user : <<p, mark>> \in givenUp
    BY <2>2
  <2> QED
    BY <1>1, <1>4, <2>1, <2>3, <2>4, Touching
<1>8. CASE UserLinks(p)
  <2>1. PICK f : f = [files[p] EXCEPT !.is = "link"]
    OBVIOUS
  <2>2. f.user = files[p].user /\ Standing(p, f)
    BY <1>3, <1>8, <2>1, StandsOrNot DEF UserLinks
  <2>3. files' = [files EXCEPT ![p] = f] /\ Touch(p, {}, {}) /\ dirs' = dirs
    BY <1>1, <1>8, <2>1 DEF UserLinks
  <2> QED
    BY <1>1, <1>3, <2>2, <2>3, Touching
<1> QED
  BY <1>2, <1>5, <1>6, <1>7, <1>8
-----------------------------------------------------------------------------
(* The invariant and the two promises *)

LEMMA WritesTransact ==
    ASSUME Transacted, WriteStep
    PROVE  Transacted'
<1>1. CASE Finish
  BY <1>1, Moves DEF Finish
<1>2. CASE CheckUnchanged
  <2>1. CASE files[Target] = run.snap[Target]
    BY <1>2, <2>1, Moves DEF CheckUnchanged
  <2>2. CASE files[Target] # run.snap[Target]
    BY <1>2, <2>2, Moves DEF CheckUnchanged
  <2> QED
    BY <2>1, <2>2
<1>3. CASE RolledBack
  BY <1>3, Moves DEF RolledBack
<1>4. CASE Kill
  BY <1>4, Moves DEF Kill
<1> QED
  BY <1>1, <1>2, <1>3, <1>4, PrepareTransacts, ReplaceTransacts, RecordTransacts, UnlinkTransacts,
     FailTransacts, CheckTransacts, RestoreTransacts DEF WriteStep

LEMMA TransactedNext == Transacted /\ [InstallNext]_installVars => Transacted'
<1> SUFFICES ASSUME Transacted, [InstallNext]_installVars PROVE Transacted'
  OBVIOUS
<1>1. CASE Begin
  BY <1>1, PlanTransacts DEF Begin
<1>2. CASE Answered
  BY <1>2, ConfirmTransacts DEF Answered
<1>3. CASE UNCHANGED installVars
  <2>1. UNCHANGED <<files, dirs, backups, run, others>>
    BY <1>3 DEF installVars
  <2>2. /\ Target' = Target /\ Written' = Written
        /\ \A p : (Existed(p)' <=> Existed(p)) /\ (Deleting(p)' <=> Deleting(p))
    BY <2>1, PlanSame
  <2>3. Shaped'
    BY <2>1, <2>2 DEF Transacted, Shaped, OthersTyped, Sound
  <2>4. LedgerShaped'
    BY <2>1 DEF Transacted, LedgerShaped, Sound
  <2>5. Undoable'
    BY <2>1, <2>2 DEF Transacted, Undoable, Undisturbed, InLedger, AtWork
  <2>6. Recoverable'
    BY <2>1, <2>2 DEF Transacted, Recoverable, Edits, BackedUp, PutBack
  <2> QED
    BY <2>3, <2>4, <2>5, <2>6 DEF Transacted
<1> QED
  BY <1>1, <1>2, <1>3, WritesTransact, UserTransacts DEF InstallNext

\* What a command knows of its files, its ledger of writes and the backups always
\* suffices to undo it, and the edits of others are in one of the three places.
THEOREM TransactedInvariant == InstallSpec => []Transacted
<1> QED
  BY InitTransacted, TransactedNext, PTL DEF InstallSpec

LEMMA UndoneWhenFailed == Transacted => AllOrNothing
<1> SUFFICES ASSUME Transacted, run.pc = "failed", NEW p \in Undisturbed
             PROVE  files[p] = run.snap[p] /\ (files[p].is = "absent" => dirs[p] # "ours")
  BY DEF AllOrNothing, Undisturbed
<1>1. ~InLedger(p) /\ ~AtWork(p)
  BY DEF Transacted, LedgerShaped, InLedger, AtWork
<1> QED
  BY <1>1 DEF Transacted, Undoable, Working

\* A failed install or uninstall leaves every file that nobody else touched, and
\* that its report does not name, exactly as planning found it, its directory
\* included, wherever in the transaction it failed.
THEOREM AllOrNothingHolds == InstallSpec => []AllOrNothing
BY UndoneWhenFailed, TransactedInvariant, PTL

\* Nobody's edit is lost to a run, however it ends: it is in the file still or, made
\* after the run's last look at the file, in the backup taken next; but for the edits
\* that fall between that backup and the write, or between rollback's check and restore.
THEOREM EditsSurviveHolds == InstallSpec => []EditsSurvive
<1>1. Transacted => EditsSurvive
  <2> SUFFICES ASSUME Transacted, NEW edit \in others.edits \ others.exposed
               PROVE  \/ edit[2] \in files[edit[1]].user
                      \/ edit \in others.late /\ \E b \in backups : b.path = edit[1] /\ edit[2] \in b.file.user
    BY DEF EditsSurvive
  <2>1. edit \in Paths \X Nat
    BY DEF Transacted, Shaped, OthersTyped
  <2>2. PICK p \in Paths, mark \in Nat : edit = <<p, mark>>
    BY <2>1
  <2>3. mark \in Edits(p)
    BY <2>2 DEF Edits
  <2>4. mark \in files[p].user \/ BackedUp(p, mark)
    BY <2>3 DEF Transacted, Recoverable
  <2> QED
    BY <2>2, <2>4 DEF BackedUp
<1> QED
  BY <1>1, TransactedInvariant, PTL

-----------------------------------------------------------------------------
(* The schedule *)

\* What plist and job are at each step of a replacement or a removal.
AgentAt ==
    /\ agent.pc = "unloading" => plist = agent.previous /\ loaded = agent.was /\ loaded # "no"
    /\ agent.pc = "asking" =>
          plist = agent.previous /\ loaded \in {"no", agent.was} /\ agent.was # "no"
    /\ agent.pc = "deleting" => plist = agent.previous /\ loaded = "no" /\ agent.removing
    /\ agent.pc = "writing" => plist = agent.previous /\ loaded = "no" /\ ~agent.removing
    /\ agent.pc \in {"bootstrap", "restoring"} => loaded = "no" /\ ~agent.removing
    /\ agent.pc = "reloading" =>
          plist = agent.previous /\ loaded = "no" /\ ~agent.removing /\ agent.was # "no"

AgentTypeOK ==
    agent \in [pc: AgentEnded \cup {"unloading", "asking", "deleting", "writing", "bootstrap",
                                    "restoring", "reloading"},
               removing: BOOLEAN, previous: Plists \cup {"absent"}, was: Plists \cup {"absent", "no"},
               lost: BOOLEAN]

\* The schedule's part of the inductive invariant.
ScheduleRight ==
    /\ plist \in Plists \cup {"absent"}
    /\ loaded \in Plists \cup {"absent", "no"}
    /\ AgentTypeOK /\ AgentAt /\ ScheduleStands

LEMMA ScheduleInitRight == ScheduleInit => ScheduleRight
BY DEF ScheduleInit, ScheduleRight, AgentTypeOK, AgentAt, ScheduleStands, NoAgent, AgentEnded, Plists

\* Looking starts from what there is.
LEMMA LookRight ==
    ASSUME ScheduleRight, NEW removing \in BOOLEAN, Look(removing) \/ CannotLook(removing)
    PROVE  ScheduleRight'
<1>1. UNCHANGED <<plist, loaded>>
  BY DEF Look, CannotLook, Keep
<1>2. PICK pc \in {"unloading", "nothing", "deleting", "writing", "refused"} :
         /\ agent' = [pc |-> pc, removing |-> removing, previous |-> plist, was |-> loaded,
                      lost |-> FALSE]
         /\ pc = "unloading" => loaded # "no"
         /\ pc \in {"nothing", "deleting", "writing"} => loaded = "no"
         /\ pc = "nothing" => plist = "absent"
         /\ pc = "deleting" => removing
         /\ pc = "writing" => ~removing
  <2>1. CASE Look(removing)
    <3> DEFINE pc == CASE loaded # "no" -> "unloading"
                       [] loaded = "no" /\ removing ->
                            IF plist = "absent" THEN "nothing" ELSE "deleting"
                       [] OTHER -> "writing"
    <3>1. agent' = [pc |-> pc, removing |-> removing, previous |-> plist, was |-> loaded,
                    lost |-> FALSE]
      BY <2>1 DEF Look, NoAgent
    <3>2. /\ pc \in {"unloading", "nothing", "deleting", "writing", "refused"}
          /\ pc = "unloading" => loaded # "no"
          /\ pc \in {"nothing", "deleting", "writing"} => loaded = "no"
          /\ pc = "nothing" => plist = "absent"
          /\ pc = "deleting" => removing
          /\ pc = "writing" => ~removing
      <4>1. CASE loaded # "no"
        <5>1. pc = "unloading"
          BY <4>1
        <5> QED
          BY <4>1, <5>1
      <4>2. CASE loaded = "no" /\ removing
        <5>1. pc = IF plist = "absent" THEN "nothing" ELSE "deleting"
          BY <4>2
        <5> HIDE DEF pc
        <5> QED
          BY <4>2, <5>1
      <4>3. CASE loaded = "no" /\ ~removing
        <5>1. pc = "writing"
          BY <4>3
        <5> QED
          BY <4>3, <5>1
      <4> QED
        BY <4>1, <4>2, <4>3
    <3> HIDE DEF pc
    <3> QED
      BY <3>1, <3>2
  <2>2. CASE CannotLook(removing)
    BY <2>2 DEF CannotLook, NoAgent
  <2> QED
    BY <2>1, <2>2
<1>3. AgentTypeOK'
  BY <1>2 DEF AgentTypeOK, AgentEnded, ScheduleRight
<1>4. AgentAt'
  BY <1>1, <1>2 DEF AgentAt
<1>5. ScheduleStands'
  BY <1>1, <1>2 DEF ScheduleStands
<1> QED
  BY <1>1, <1>3, <1>4, <1>5 DEF ScheduleRight

\* One call of launchctl, or one write or removal of the plist.
LEMMA AgentRight ==
    ASSUME ScheduleRight, AgentStep
    PROVE  ScheduleRight'
<1>1. /\ AgentTypeOK /\ AgentAt
      /\ agent.removing \in BOOLEAN /\ agent.lost \in BOOLEAN
      /\ agent.previous \in Plists \cup {"absent"} /\ agent.was \in Plists \cup {"absent", "no"}
  BY DEF ScheduleRight, AgentTypeOK
<1>2. CASE Bootout
  <2>1. AgentTypeOK' /\ agent' = [agent EXCEPT !.pc = "asking"] /\ agent'.pc = "asking"
        /\ agent'.previous = agent.previous /\ agent'.was = agent.was
    BY <1>1, <1>2 DEF Bootout, To, AgentTypeOK, AgentEnded
  <2>2. AgentAt' /\ ScheduleStands'
    BY <1>1, <1>2, <2>1 DEF Bootout, AgentAt, ScheduleStands
  <2> QED
    BY <1>2, <2>1, <2>2 DEF Bootout, ScheduleRight
<1>3. CASE StillLoaded
  <2>1. UNCHANGED <<plist, loaded>> /\ agent.pc = "asking"
    BY <1>3 DEF StillLoaded, Keep
  <2>2. CASE loaded = "no" /\ To(IF agent.removing THEN "deleting" ELSE "writing")
    <3>1. PICK pc \in {"deleting", "writing"} :
              pc = (IF agent.removing THEN "deleting" ELSE "writing") /\ To(pc)
      BY <2>2
    <3>2. AgentTypeOK' /\ agent'.pc = pc /\ agent'.previous = agent.previous
          /\ agent'.removing = agent.removing
      BY <1>1, <3>1 DEF To, AgentTypeOK
    <3>3. AgentAt' /\ ScheduleStands'
      BY <1>1, <2>1, <2>2, <3>1, <3>2 DEF AgentAt, ScheduleStands
    <3> QED
      BY <2>1, <3>2, <3>3 DEF ScheduleRight
  <2>3. CASE agent' = [agent EXCEPT !.pc = "refused", !.lost = (loaded = "no")]
    <3>1. PICK lost \in BOOLEAN : lost = (loaded = "no")
      OBVIOUS
    <3>2. agent' = [agent EXCEPT !.pc = "refused", !.lost = lost]
      BY <2>3, <3>1
    <3>3. AgentTypeOK' /\ agent'.pc = "refused" /\ agent'.previous = agent.previous
          /\ agent'.removing = agent.removing /\ agent'.was = agent.was /\ agent'.lost = lost
      BY <1>1, <3>2 DEF AgentTypeOK, AgentEnded
    <3>4. AgentAt'
      BY <3>3 DEF AgentAt
    <3>5. ScheduleStands'
      BY <1>1, <2>1, <3>1, <3>3 DEF AgentAt, ScheduleStands
    <3> QED
      BY <2>1, <3>3, <3>4, <3>5 DEF ScheduleRight
  <2> QED
    BY <1>3, <2>2, <2>3 DEF StillLoaded
<1>4. CASE DeletePlist
  <2>1. PICK pc \in {"removed", "refused"} :
            /\ agent' = [agent EXCEPT !.pc = pc]
            /\ pc = "removed" => plist' = "absent"
            /\ pc = "refused" => plist' = plist
    BY <1>4 DEF DeletePlist, To
  <2>2. AgentTypeOK' /\ agent'.pc = pc /\ agent'.previous = agent.previous
        /\ agent'.removing = agent.removing
    BY <1>1, <2>1 DEF AgentTypeOK, AgentEnded
  <2>3. agent.pc = "deleting" /\ loaded' = loaded
    BY <1>4 DEF DeletePlist
  <2>4. AgentAt' /\ ScheduleStands'
    BY <1>1, <2>1, <2>2, <2>3 DEF AgentAt, ScheduleStands
  <2>5. plist' \in Plists \cup {"absent"}
    BY <2>1 DEF ScheduleRight
  <2> QED
    BY <2>2, <2>3, <2>4, <2>5 DEF ScheduleRight
<1>5. CASE WritePlist
  <2>1. PICK pc \in {"bootstrap", "restoring"} : agent' = [agent EXCEPT !.pc = pc]
    BY <1>5 DEF WritePlist, To
  <2>2. AgentTypeOK' /\ agent'.pc = pc /\ agent'.removing = agent.removing
    BY <1>1, <2>1 DEF AgentTypeOK
  <2>3. AgentAt' /\ ScheduleStands'
    BY <1>1, <1>5, <2>1, <2>2 DEF WritePlist, AgentAt, ScheduleStands
  <2> QED
    BY <1>5, <2>2, <2>3 DEF WritePlist, ScheduleRight, Plists
<1>6. CASE Bootstrap
  <2>1. PICK pc \in {"installed", "restoring"} :
            agent' = [agent EXCEPT !.pc = pc] /\ (pc = "restoring" => loaded' = loaded)
    BY <1>6 DEF Bootstrap, To
  <2>2. AgentTypeOK' /\ agent'.pc = pc /\ agent'.removing = agent.removing
    BY <1>1, <2>1 DEF AgentTypeOK, AgentEnded
  <2>3. AgentAt' /\ ScheduleStands'
    BY <1>1, <1>6, <2>1, <2>2 DEF Bootstrap, AgentAt, ScheduleStands
  <2> QED
    BY <1>6, <2>2, <2>3 DEF Bootstrap, ScheduleRight, Plists
<1>7. CASE RestorePlist
  <2>1. PICK pc \in {"refused", "reloading", "unrestored"} :
            /\ agent' = [agent EXCEPT !.pc = pc]
            /\ pc # "unrestored" => plist' = agent.previous
            /\ pc = "unrestored" => plist' = plist
            /\ pc = "refused" => agent.was = "no"
            /\ pc = "reloading" => agent.was # "no"
    BY <1>7 DEF RestorePlist, To
  <2>2. AgentTypeOK' /\ agent'.pc = pc /\ agent'.removing = agent.removing
        /\ agent'.previous = agent.previous /\ agent'.was = agent.was
    BY <1>1, <2>1 DEF AgentTypeOK, AgentEnded
  <2>3. AgentAt' /\ ScheduleStands'
    BY <1>1, <1>7, <2>1, <2>2 DEF RestorePlist, AgentAt, ScheduleStands
  <2>4. plist' \in Plists \cup {"absent"}
    BY <1>1, <2>1 DEF ScheduleRight
  <2> QED
    BY <1>7, <2>2, <2>3, <2>4 DEF RestorePlist, ScheduleRight
<1>8. CASE Reload
  <2>1. PICK pc \in {"refused", "unrestored"} :
            /\ agent' = [agent EXCEPT !.pc = pc]
            /\ pc = "refused" => loaded' = plist
            /\ pc = "unrestored" => loaded' = loaded
    BY <1>8 DEF Reload, To
  <2>2. AgentTypeOK' /\ agent'.pc = pc /\ agent'.removing = agent.removing
        /\ agent'.previous = agent.previous /\ agent'.was = agent.was
    BY <1>1, <2>1 DEF AgentTypeOK, AgentEnded
  <2>3. AgentAt' /\ ScheduleStands'
    BY <1>1, <1>8, <2>1, <2>2 DEF Reload, AgentAt, ScheduleStands
  <2>4. loaded' \in Plists \cup {"absent", "no"}
    BY <2>1 DEF ScheduleRight
  <2> QED
    BY <1>8, <2>2, <2>3, <2>4 DEF Reload, ScheduleRight
<1>9. CASE KillAgent
  <2>1. agent' = [agent EXCEPT !.pc = "killed"] /\ UNCHANGED <<plist, loaded>>
    BY <1>9 DEF KillAgent, To, Keep
  <2>2. AgentTypeOK' /\ agent'.pc = "killed"
    BY <1>1, <2>1 DEF AgentTypeOK, AgentEnded
  <2>3. AgentAt' /\ ScheduleStands'
    BY <2>2 DEF AgentAt, ScheduleStands
  <2> QED
    BY <2>1, <2>2, <2>3 DEF ScheduleRight
<1> QED
  BY <1>2, <1>3, <1>4, <1>5, <1>6, <1>7, <1>8, <1>9 DEF AgentStep

\* The commands touch the schedule in no other way.
LEMMA ScheduleKept ==
    ASSUME ScheduleRight, [SetupNext]_setupVars
    PROVE  ScheduleRight'
<1>1. CASE UNCHANGED scheduleVars
  BY <1>1 DEF scheduleVars, ScheduleRight, AgentTypeOK, AgentAt, ScheduleStands
<1>2. CASE UNCHANGED <<plist, loaded>> /\ agent' = NoAgent
  <2>1. AgentTypeOK' /\ AgentAt' /\ ScheduleStands'
    BY <1>2 DEF AgentTypeOK, AgentAt, ScheduleStands, NoAgent, AgentEnded
  <2> QED
    BY <1>2, <2>1 DEF ScheduleRight
<1>3. CASE ScheduleStep
  <2>1. (cmd.kind = "uninstall") \in BOOLEAN
    OBVIOUS
  <2> QED
    BY <1>1, <1>3, <2>1, LookRight, AgentRight DEF ScheduleStep
<1>4. CASE StartInstall \/ StartUninstall \/ Answer \/ ApplyStore \/ ConfigStep \/ PurgeStep \/ SwapStore
  BY <1>1, <1>4 DEF StartInstall, StartUninstall, Answer, ApplyStore, ConfigStep, PurgeStep, SwapStore,
        PlanPurge, AnswerPurge, OpenPurge, EmptyDirectory, DetachRoot, PurgeFails
<1>5. CASE StartDreamInit \/ ConfigEnds
  BY <1>2, <1>5 DEF StartDreamInit, ConfigEnds
<1>6. CASE \E w \in AllWriters : WriterStep(w)
  BY <1>1, <1>6 DEF WriterStep
<1>7. CASE UNCHANGED setupVars
  BY <1>1, <1>7 DEF setupVars
<1> QED
  BY <1>3, <1>4, <1>5, <1>6, <1>7 DEF SetupNext
-----------------------------------------------------------------------------
(* The store *)

StoreTypeOK ==
    /\ store \in [at: Objects \cup {None}, db: [Objects -> {"none", "empty", "ready"}],
                  globals: [Objects -> Nat], other: [Objects -> BOOLEAN], swaps: Nat,
                  lock: [Objects -> AllWriters \cup {None}]]
    /\ writer \in [AllWriters -> [pc: {"idle", "creating", "opened", "writing", "wrote", "failed"},
                                  dir: Objects \cup {None}, missing: BOOLEAN]]

\* A writer past its opening has a directory; one in its transaction holds the
\* lock of it, and what it found missing is missing still.
WriterRight(w) ==
    /\ writer[w].pc \in {"opened", "writing"} => writer[w].dir \in Objects
    /\ writer[w].pc = "writing" =>
          /\ store.lock[writer[w].dir] = w
          /\ writer[w].missing => store.globals[writer[w].dir] = 0

StoreRight ==
    /\ StoreTypeOK
    /\ \A w \in AllWriters : WriterRight(w)
    /\ OneGlobal

LEMMA StoreInitRight == SetupInit => StoreRight
<1> SUFFICES ASSUME SetupInit PROVE StoreRight
  OBVIOUS
<1>1. StoreTypeOK
  BY DEF SetupInit, StoreTypeOK, Free, None
<1>2. \A w \in AllWriters : WriterRight(w)
  BY DEF SetupInit, WriterRight, Free
<1>3. OneGlobal
  BY DEF SetupInit, OneGlobal
<1> QED
  BY <1>1, <1>2, <1>3 DEF StoreRight

\* Fields of the store and of a writer.
LEMMA StoreFields ==
    ASSUME StoreRight
    PROVE  /\ store.at \in Objects \cup {None}
           /\ store.db \in [Objects -> {"none", "empty", "ready"}]
           /\ store.globals \in [Objects -> Nat]
           /\ store.other \in [Objects -> BOOLEAN]
           /\ store.lock \in [Objects -> AllWriters \cup {None}]
           /\ None \notin AllWriters /\ None \notin Objects
           /\ \A w \in AllWriters :
                 /\ writer[w].dir \in Objects \cup {None} /\ writer[w].missing \in BOOLEAN
                 /\ WriterRight(w)
BY WritersAssumption DEF StoreRight, StoreTypeOK, AllWriters, None, Installer

\* A step of one writer that is not in its transaction afterwards, or begins it.
LEMMA WriterStepRight ==
    ASSUME StoreRight, NEW w \in AllWriters,
           OpenStore(w) \/ CreateFile(w) \/ BeginWrite(w) \/ CommitWrite(w) \/ FailWrite(w)
    PROVE  StoreRight'
<1>1. /\ store.db \in [Objects -> {"none", "empty", "ready"}]
      /\ store.globals \in [Objects -> Nat]
      /\ store.lock \in [Objects -> AllWriters \cup {None}]
      /\ store.at \in Objects \cup {None}
      /\ None \notin AllWriters /\ None \notin Objects
      /\ \A v \in AllWriters : WriterRight(v)
      /\ OneGlobal
  BY StoreFields DEF StoreRight
<1>2. StoreTypeOK
  BY DEF StoreRight
<1>3. CASE OpenStore(w)
  <2>1. StoreTypeOK'
    BY <1>2, <1>3 DEF OpenStore, StoreTypeOK, Free
  <2>2. ASSUME NEW v \in AllWriters PROVE WriterRight(v)'
    BY <1>1, <1>2, <1>3 DEF OpenStore, StoreTypeOK, Free, WriterRight
  <2>3. OneGlobal'
    BY <1>1, <1>3 DEF OpenStore, OneGlobal
  <2> QED
    BY <2>1, <2>2, <2>3 DEF StoreRight
<1>4. CASE CreateFile(w)
  <2>1. PICK dir \in Objects :
          /\ store' = [store EXCEPT !.at = dir, !.db[dir] = IF @ = "none" THEN "empty" ELSE @]
          /\ writer' = [writer EXCEPT ![w] = [@ EXCEPT !.pc = "opened", !.dir = dir]]
    BY <1>1, <1>4 DEF CreateFile
  <2>2. StoreTypeOK'
    <3>1. store' \in [at: Objects \cup {None}, db: [Objects -> {"none", "empty", "ready"}],
                       globals: [Objects -> Nat], other: [Objects -> BOOLEAN], swaps: Nat,
                       lock: [Objects -> AllWriters \cup {None}]]
      <4>1. PICK db \in {"none", "empty", "ready"} :
                db = IF store.db[dir] = "none" THEN "empty" ELSE store.db[dir]
        BY <1>2 DEF StoreTypeOK
      <4>2. store' = [store EXCEPT !.at = dir, !.db[dir] = db]
        BY <2>1, <4>1
      <4> QED
        BY <1>2, <4>2 DEF StoreTypeOK
    <3>2. writer' \in [AllWriters -> [pc: {"idle", "creating", "opened", "writing", "wrote", "failed"},
                                      dir: Objects \cup {None}, missing: BOOLEAN]]
      <4>1. writer[w] \in [pc: {"idle", "creating", "opened", "writing", "wrote", "failed"},
                               dir: Objects \cup {None}, missing: BOOLEAN]
        BY <1>2 DEF StoreTypeOK
      <4>2. [writer[w] EXCEPT !.pc = "opened", !.dir = dir]
                \in [pc: {"idle", "creating", "opened", "writing", "wrote", "failed"},
                               dir: Objects \cup {None}, missing: BOOLEAN]
        BY <4>1
      <4> QED
        BY <1>2, <2>1, <4>2 DEF StoreTypeOK
    <3> QED
      BY <3>1, <3>2 DEF StoreTypeOK
  <2>3. store'.globals = store.globals /\ store'.lock = store.lock
        /\ \A o \in Objects : store.db[o] = "ready" => store'.db[o] = "ready"
    BY <1>2, <2>1 DEF StoreTypeOK
  <2>4. ASSUME NEW v \in AllWriters PROVE WriterRight(v)'
    BY <1>1, <1>2, <2>1, <2>3 DEF StoreTypeOK, WriterRight
  <2>5. OneGlobal'
    BY <1>1, <2>3 DEF OneGlobal
  <2> QED
    BY <2>2, <2>4, <2>5 DEF StoreRight
<1>5. CASE BeginWrite(w)
  <2> DEFINE dir == writer[w].dir
  <2>1. dir \in Objects /\ store.lock[dir] = None
    BY <1>1, <1>5 DEF BeginWrite, WriterRight
  <2>2. PICK missing \in BOOLEAN : missing = (store.globals[dir] = 0)
    OBVIOUS
  <2>3. /\ store' = [store EXCEPT !.lock[dir] = w]
        /\ writer' = [writer EXCEPT ![w].pc = "writing", ![w].missing = missing]
    BY <1>5, <2>2 DEF BeginWrite
  <2> HIDE DEF dir
  <2>4. StoreTypeOK'
    <3>1. store'.lock = [store.lock EXCEPT ![dir] = w]
      BY <1>2, <2>3 DEF StoreTypeOK
    <3>2. writer' = [writer EXCEPT ![w] = [writer[w] EXCEPT !.pc = "writing", !.missing = missing]]
      BY <1>2, <2>3 DEF StoreTypeOK
    <3>3. store' \in [at: Objects \cup {None}, db: [Objects -> {"none", "empty", "ready"}],
                       globals: [Objects -> Nat], other: [Objects -> BOOLEAN], swaps: Nat,
                       lock: [Objects -> AllWriters \cup {None}]]
      BY <1>2, <2>3, <3>1 DEF StoreTypeOK
    <3>4. writer' \in [AllWriters -> [pc: {"idle", "creating", "opened", "writing", "wrote", "failed"},
                                      dir: Objects \cup {None}, missing: BOOLEAN]]
      <4>1. writer[w] \in [pc: {"idle", "creating", "opened", "writing", "wrote", "failed"},
                           dir: Objects \cup {None}, missing: BOOLEAN]
        BY <1>2 DEF StoreTypeOK
      <4>2. [writer[w] EXCEPT !.pc = "writing", !.missing = missing]
                \in [pc: {"idle", "creating", "opened", "writing", "wrote", "failed"},
                     dir: Objects \cup {None}, missing: BOOLEAN]
        BY <4>1
      <4> QED
        BY <1>2, <3>2, <4>2 DEF StoreTypeOK
    <3> QED
      BY <3>3, <3>4 DEF StoreTypeOK
  <2>5. /\ store'.globals = store.globals /\ store'.db = store.db
        /\ store'.lock[dir] = w /\ \A o \in Objects \ {dir} : store'.lock[o] = store.lock[o]
    BY <1>2, <2>1, <2>3 DEF StoreTypeOK
  <2>6. WriterRight(w)'
    <3>1. writer'[w].dir = dir /\ writer'[w].missing = missing
      BY <1>2, <2>3 DEF StoreTypeOK, dir
    <3> QED
      BY <2>1, <2>2, <2>5, <3>1 DEF WriterRight
  <2>7. ASSUME NEW v \in AllWriters, v # w PROVE WriterRight(v)'
    <3>1. writer'[v] = writer[v]
      BY <1>2, <2>3, <2>7 DEF StoreTypeOK
    <3>2. writer[v].pc = "writing" => writer[v].dir \in Objects /\ writer[v].dir # dir
      BY <1>1, <2>1, <2>7 DEF WriterRight
    <3> QED
      BY <1>1, <2>5, <3>1, <3>2 DEF WriterRight
  <2>8. OneGlobal'
    BY <1>1, <2>5 DEF OneGlobal
  <2> QED
    BY <2>4, <2>6, <2>7, <2>8 DEF StoreRight
<1>6. CASE CommitWrite(w)
  <2> DEFINE dir == writer[w].dir
             unlinked == store.db[dir] = "none"
  <2>1. /\ dir \in Objects /\ store.lock[dir] = w /\ writer[w].pc = "writing"
        /\ writer[w].missing => store.globals[dir] = 0
    BY <1>1, <1>6 DEF CommitWrite, WriterRight
  <2>2. PICK db \in {"none", "ready"}, n \in Nat :
            /\ db = IF unlinked THEN "none" ELSE "ready"
            /\ n = IF writer[w].missing /\ ~unlinked THEN store.globals[dir] + 1
                   ELSE store.globals[dir]
    BY <1>1, <2>1
  <2>3. /\ store' = [store EXCEPT !.lock[dir] = None, !.db[dir] = db, !.globals[dir] = n]
        /\ writer' = [writer EXCEPT ![w].pc = "wrote"]
    BY <1>6, <2>2 DEF CommitWrite
  <2>4. n <= 1 /\ (n > 0 => db = "ready")
    <3>1. store.globals[dir] \in Nat /\ store.globals[dir] <= 1
          /\ (store.globals[dir] > 0 => ~unlinked)
      BY <1>1, <2>1 DEF OneGlobal
    <3> HIDE DEF unlinked, dir
    <3>2. CASE writer[w].missing /\ ~unlinked
      BY <2>1, <2>2, <3>1, <3>2
    <3>3. CASE ~(writer[w].missing /\ ~unlinked)
      BY <2>1, <2>2, <3>1, <3>3
    <3> QED
      BY <3>2, <3>3
  <2> HIDE DEF dir, unlinked
  <2>5. StoreTypeOK'
    <3>1. store' \in [at: Objects \cup {None}, db: [Objects -> {"none", "empty", "ready"}],
                       globals: [Objects -> Nat], other: [Objects -> BOOLEAN], swaps: Nat,
                       lock: [Objects -> AllWriters \cup {None}]]
      <4>1. /\ [store.lock EXCEPT ![dir] = None] \in [Objects -> AllWriters \cup {None}]
            /\ [store.db EXCEPT ![dir] = db] \in [Objects -> {"none", "empty", "ready"}]
            /\ [store.globals EXCEPT ![dir] = n] \in [Objects -> Nat]
        BY <1>2 DEF StoreTypeOK
      <4>2. store' = [store EXCEPT !.lock = [store.lock EXCEPT ![dir] = None],
                                   !.db = [store.db EXCEPT ![dir] = db],
                                   !.globals = [store.globals EXCEPT ![dir] = n]]
        BY <1>2, <2>3 DEF StoreTypeOK
      <4> QED
        BY <1>2, <4>1, <4>2 DEF StoreTypeOK
    <3>2. writer' \in [AllWriters -> [pc: {"idle", "creating", "opened", "writing", "wrote", "failed"},
                                      dir: Objects \cup {None}, missing: BOOLEAN]]
      BY <1>2, <2>3 DEF StoreTypeOK
    <3> QED
      BY <3>1, <3>2 DEF StoreTypeOK
  <2>6. /\ store'.globals[dir] = n /\ store'.db[dir] = db
        /\ \A o \in Objects \ {dir} : /\ store'.globals[o] = store.globals[o]
                                      /\ store'.db[o] = store.db[o]
                                      /\ store'.lock[o] = store.lock[o]
    BY <1>2, <2>1, <2>3 DEF StoreTypeOK
  <2>7. ASSUME NEW v \in AllWriters PROVE WriterRight(v)'
    <3>1. CASE v = w
      BY <1>2, <2>3, <3>1 DEF StoreTypeOK, WriterRight
    <3>2. CASE v # w
      <4>1. writer'[v] = writer[v]
        BY <1>2, <2>3, <3>2 DEF StoreTypeOK
      <4>2. writer[v].pc = "writing" => writer[v].dir \in Objects /\ writer[v].dir # dir
        BY <1>1, <2>1, <3>2 DEF WriterRight
      <4> QED
        BY <1>1, <2>6, <4>1, <4>2 DEF WriterRight
    <3> QED
      BY <3>1, <3>2
  <2>8. OneGlobal'
    BY <1>1, <2>4, <2>6 DEF OneGlobal
  <2> QED
    BY <2>5, <2>7, <2>8 DEF StoreRight
<1>7. CASE FailWrite(w)
  <2> DEFINE dir == writer[w].dir
  <2>1. writer' = [writer EXCEPT ![w] = [Free EXCEPT !.pc = "failed"]]
    BY <1>7 DEF FailWrite
  <2>2. /\ store'.globals = store.globals /\ store'.db = store.db
        /\ \A o \in Objects : (writer[w].pc = "writing" => o # dir) => store'.lock[o] = store.lock[o]
        /\ StoreTypeOK'
    BY <1>2, <1>7 DEF FailWrite, StoreTypeOK, Free
  <2>3. ASSUME NEW v \in AllWriters PROVE WriterRight(v)'
    <3>1. CASE v = w
      BY <1>2, <2>1, <3>1 DEF StoreTypeOK, WriterRight, Free
    <3>2. CASE v # w
      <4>1. writer'[v] = writer[v]
        BY <1>2, <2>1, <3>2 DEF StoreTypeOK
      <4>2. writer[v].pc = "writing" /\ writer[w].pc = "writing" => writer[v].dir # dir
        BY <1>1, <3>2 DEF WriterRight
      <4> QED
        BY <1>1, <2>2, <4>1, <4>2 DEF WriterRight
    <3> QED
      BY <3>1, <3>2
  <2>4. OneGlobal'
    BY <1>1, <2>2 DEF OneGlobal
  <2> QED
    BY <2>2, <2>3, <2>4 DEF StoreRight
<1> QED
  BY <1>3, <1>4, <1>5, <1>6, <1>7

\* What commands and the user do to the store themselves.
LEMMA StoreKept ==
    ASSUME StoreRight, [SetupNext]_setupVars
    PROVE  StoreRight'
<1>1. /\ StoreTypeOK /\ OneGlobal /\ \A w \in AllWriters : WriterRight(w)
  BY DEF StoreRight
<1>2. CASE UNCHANGED <<store, writer>>
  BY <1>1, <1>2 DEF StoreRight, StoreTypeOK, OneGlobal, WriterRight
<1>3. ASSUME StoreTypeOK', writer' = writer, store'.lock = store.lock,
             \A o \in Objects :
                \/ store'.globals[o] = store.globals[o] /\ store'.db[o] = store.db[o]
                \/ store'.globals[o] = 0
      PROVE  StoreRight'
  <2>1. ASSUME NEW w \in AllWriters PROVE WriterRight(w)'
    BY <1>1, <1>3 DEF WriterRight
  <2>2. OneGlobal'
    BY <1>1, <1>3 DEF OneGlobal
  <2> QED
    BY <1>3, <2>1, <2>2 DEF StoreRight
<1>4. CASE StartDreamInit
  <2>1. store' = [store EXCEPT !.other[store.at] = TRUE] /\ writer' = writer
    BY <1>4 DEF StartDreamInit
  <2> QED
    BY <1>1, <1>3, <2>1 DEF StoreTypeOK
<1>5. CASE SwapStore
  <2>1. PICK o \in Objects : store' = [store EXCEPT !.at = o, !.swaps = @ + 1, !.other[o] = TRUE]
    BY <1>5 DEF SwapStore
  <2>2. writer' = writer
    BY <1>5 DEF SwapStore
  <2>3. StoreTypeOK'
    <3>1. store.other \in [Objects -> BOOLEAN] /\ store.swaps \in Nat
      BY <1>1 DEF StoreTypeOK
    <3>2. [store.other EXCEPT ![o] = TRUE] \in [Objects -> BOOLEAN] /\ store.swaps + 1 \in Nat
      BY <3>1
    <3>3. store' = [store EXCEPT !.at = o, !.swaps = store.swaps + 1,
                                 !.other = [store.other EXCEPT ![o] = TRUE]]
      BY <1>1, <2>1 DEF StoreTypeOK
    <3> QED
      BY <1>1, <2>2, <3>2, <3>3 DEF StoreTypeOK
  <2>4. store'.lock = store.lock /\ store'.globals = store.globals /\ store'.db = store.db
    BY <1>1, <2>1 DEF StoreTypeOK
  <2> QED
    BY <1>3, <2>2, <2>3, <2>4
<1>6. CASE EmptyDirectory
  <2>1. writer' = writer
    BY <1>6 DEF EmptyDirectory
  <2>2. CASE store' = [store EXCEPT !.db[cmd.opened] = "none", !.globals[cmd.opened] = 0]
    <3> DEFINE db == [store.db EXCEPT ![cmd.opened] = "none"]
               globals == [store.globals EXCEPT ![cmd.opened] = 0]
    <3>1. store' = [store EXCEPT !.db = db, !.globals = globals]
      BY <1>1, <2>2 DEF StoreTypeOK
    <3>2. store.db \in [Objects -> {"none", "empty", "ready"}] /\ store.globals \in [Objects -> Nat]
      BY <1>1 DEF StoreTypeOK
    <3>3. db \in [Objects -> {"none", "empty", "ready"}] /\ globals \in [Objects -> Nat]
      BY <3>2
    <3>4. \A o \in Objects : \/ globals[o] = store.globals[o] /\ db[o] = store.db[o]
                            \/ globals[o] = 0
      BY <3>2
    <3> HIDE DEF db, globals
    <3>5. StoreTypeOK' /\ store'.lock = store.lock /\ store'.db = db /\ store'.globals = globals
      BY <1>1, <2>1, <3>1, <3>3 DEF StoreTypeOK
    <3> QED
      BY <1>3, <2>1, <3>4, <3>5
  <2>3. CASE store' = [store EXCEPT !.other[cmd.opened] = FALSE]
    <3> DEFINE other == [store.other EXCEPT ![cmd.opened] = FALSE]
    <3>1. store' = [store EXCEPT !.other = other]
      BY <1>1, <2>3 DEF StoreTypeOK
    <3>2. store.other \in [Objects -> BOOLEAN]
      BY <1>1 DEF StoreTypeOK
    <3>3. other \in [Objects -> BOOLEAN]
      BY <3>2
    <3> HIDE DEF other
    <3>4. /\ StoreTypeOK' /\ store'.lock = store.lock
          /\ store'.db = store.db /\ store'.globals = store.globals
      BY <1>1, <2>1, <3>1, <3>3 DEF StoreTypeOK
    <3> QED
      BY <1>3, <2>1, <3>4
  <2> QED
    BY <1>6, <2>2, <2>3 DEF EmptyDirectory
<1>7. CASE DetachRoot
  <2>1. writer' = writer /\ (store' = store \/ store' = [store EXCEPT !.at = None])
    BY <1>7 DEF DetachRoot
  <2> QED
    BY <1>1, <1>3, <2>1 DEF StoreTypeOK
<1>8. CASE \E w \in AllWriters : WriterStep(w)
  BY <1>8, WriterStepRight DEF WriterStep
<1>9. CASE ApplyStore
  <2>1. Installer \in AllWriters
    BY DEF AllWriters
  <2>2. CASE OpenStore(Installer)
    BY <2>1, <2>2, WriterStepRight
  <2>3. CASE writer' = [writer EXCEPT ![Installer] = Free] /\ UNCHANGED store
    <3>1. StoreTypeOK'
      BY <1>1, <2>1, <2>3 DEF StoreTypeOK, Free
    <3>2. ASSUME NEW w \in AllWriters PROVE WriterRight(w)'
      BY <1>1, <2>1, <2>3 DEF StoreTypeOK, Free, WriterRight
    <3>3. OneGlobal'
      BY <1>1, <2>3 DEF OneGlobal
    <3> QED
      BY <3>1, <3>2, <3>3 DEF StoreRight
  <2> QED
    BY <1>9, <2>2, <2>3 DEF ApplyStore
<1>10. CASE StartInstall \/ StartUninstall \/ Answer \/ ConfigStep \/ ConfigEnds \/ ScheduleStep
            \/ PlanPurge \/ AnswerPurge \/ OpenPurge \/ PurgeFails \/ UNCHANGED setupVars
  BY <1>2, <1>10 DEF StartInstall, StartUninstall, Answer, ConfigStep, ConfigEnds, ScheduleStep,
        PlanPurge, AnswerPurge, OpenPurge, PurgeFails, setupVars
<1> QED
  BY <1>4, <1>5, <1>6, <1>7, <1>8, <1>9, <1>10 DEF SetupNext, PurgeStep
-----------------------------------------------------------------------------
(* The purge *)

\* Past the answer the user has said yes, and what is opened is what was shown.
Confirmed ==
    /\ cmd.stage \in {"purge", "emptying"} => cmd.yes
    /\ cmd.stage = "emptying" => cmd.opened = cmd.shown

CmdTypeOK ==
    cmd \in [kind: {"none", "install", "dream-init", "uninstall"},
             stage: {"over", "config", "schedule", "plan-purge", "prompt", "purge", "emptying"},
             ok: BOOLEAN, purge: BOOLEAN, yes: BOOLEAN,
             shown: Objects \cup {None}, opened: Objects \cup {None}, listed: SUBSET {"db", "other"},
             storeStep: BOOLEAN, harnesses: Selections \cup {<<>>}, count: Nat]

PurgeRight == CmdTypeOK /\ Confirmed

LEMMA PurgeInitRight == SetupInit => PurgeRight
<1> SUFFICES ASSUME SetupInit PROVE PurgeRight
  OBVIOUS
<1>1. cmd = NoCommand
  BY DEF SetupInit
<1>2. CmdTypeOK
  BY <1>1 DEF NoCommand, CmdTypeOK
<1>3. Confirmed
  BY <1>1 DEF NoCommand, Confirmed
<1> QED
  BY <1>2, <1>3 DEF PurgeRight

\* The commands' steps, as far as the purge depends on them.
LEMMA PurgeKept ==
    ASSUME PurgeRight, StoreRight, [SetupNext]_setupVars
    PROVE  PurgeRight'
<1>1. CmdTypeOK /\ Confirmed /\ store.at \in Objects \cup {None}
  BY StoreFields DEF PurgeRight
<1>2. CASE UNCHANGED cmd
  BY <1>1, <1>2 DEF PurgeRight, CmdTypeOK, Confirmed
<1>3. ASSUME CmdTypeOK', cmd'.stage \notin {"purge", "emptying"} PROVE PurgeRight'
  BY <1>3 DEF PurgeRight, Confirmed
<1>4. ASSUME NEW ok \in BOOLEAN, Exit(ok) PROVE PurgeRight'
  <2>1. CmdTypeOK' /\ cmd'.stage = "over"
    BY <1>1, <1>4 DEF Exit, CmdTypeOK
  <2> QED
    BY <1>3, <2>1
<1>5. ASSUME NEW stage \in {"schedule", "plan-purge"}, Stage(stage) PROVE PurgeRight'
  <2>1. CmdTypeOK' /\ cmd'.stage = stage
    BY <1>1, <1>5 DEF Stage, CmdTypeOK
  <2> QED
    BY <1>3, <1>5, <2>1
<1>6. CASE StartInstall \/ StartDreamInit \/ StartUninstall
  <2>1. cmd.count + 1 \in Nat
    BY <1>1 DEF CmdTypeOK
  <2>2. CASE StartInstall
    <3>1. PICK harnesses \in Selections, ready \in BOOLEAN :
            cmd' = [NoCommand EXCEPT !.kind = "install", !.stage = "config",
                       !.storeStep = ready, !.harnesses = harnesses, !.count = cmd.count + 1]
      BY <2>2 DEF StartInstall, StoreReady
    <3>2. CmdTypeOK' /\ cmd'.stage = "config"
      BY <2>1, <3>1 DEF NoCommand, CmdTypeOK
    <3> QED
      BY <1>3, <3>2
  <2>3. CASE StartDreamInit
    <3>1. cmd' = [NoCommand EXCEPT !.kind = "dream-init", !.stage = "schedule",
                     !.count = cmd.count + 1]
      BY <2>3 DEF StartDreamInit
    <3>2. CmdTypeOK' /\ cmd'.stage = "schedule"
      BY <2>1, <3>1 DEF NoCommand, CmdTypeOK
    <3> QED
      BY <1>3, <3>2
  <2>4. CASE StartUninstall
    <3>1. PICK purge \in BOOLEAN, harnesses \in Selections :
            cmd' = [NoCommand EXCEPT !.kind = "uninstall", !.stage = "config", !.purge = purge,
                       !.harnesses = harnesses, !.count = cmd.count + 1]
      BY <2>4 DEF StartUninstall
    <3>2. CmdTypeOK' /\ cmd'.stage = "config"
      BY <2>1, <3>1 DEF NoCommand, CmdTypeOK
    <3> QED
      BY <1>3, <3>2
  <2> QED
    BY <1>6, <2>2, <2>3, <2>4
<1>7. CASE ConfigEnds
  <2>1. CASE Exit(run.pc = "done")
    <3>1. PICK ok \in BOOLEAN : ok = (run.pc = "done")
      OBVIOUS
    <3>2. Exit(ok)
      BY <2>1, <3>1
    <3> QED
      BY <1>4, <3>2
  <2>2. CASE Stage("schedule") \/ Exit(TRUE)
    BY <1>4, <1>5, <2>2
  <2> QED
    BY <1>7, <2>1, <2>2 DEF ConfigEnds
<1>14. CASE ScheduleStep
  <2>1. CASE Exit(agent.pc \in {"installed", "removed", "nothing"})
    <3>1. PICK ok \in BOOLEAN :
            ok = (agent.pc = "installed" \/ agent.pc = "removed" \/ agent.pc = "nothing")
      OBVIOUS
    <3>2. ok = (agent.pc \in {"installed", "removed", "nothing"})
      BY <3>1
    <3>3. Exit(ok)
      BY <2>1, <3>2, Zenon
    <3> QED
      BY <1>4, <3>3
  <2>2. CASE Stage("plan-purge") \/ Exit(TRUE) \/ UNCHANGED cmd
    BY <1>2, <1>4, <1>5, <2>2
  <2> QED
    BY <1>14, <2>1, <2>2 DEF ScheduleStep
<1>8. CASE PlanPurge
  <2>1. CASE \E ok \in BOOLEAN : Exit(ok)
    BY <1>4, <2>1
  <2>2. CASE cmd' = [cmd EXCEPT !.stage = "prompt", !.shown = store.at]
    <3>1. CmdTypeOK' /\ cmd'.stage = "prompt"
      BY <1>1, <2>2 DEF CmdTypeOK
    <3> QED
      BY <1>3, <3>1
  <2> QED
    BY <1>8, <2>1, <2>2 DEF PlanPurge
<1>9. CASE AnswerPurge
  <2>1. CASE \E ok \in BOOLEAN : Exit(ok)
    BY <1>4, <2>1
  <2>2. CASE cmd' = [cmd EXCEPT !.stage = "purge", !.yes = TRUE]
    <3>1. CmdTypeOK' /\ cmd'.stage = "purge" /\ cmd'.yes = TRUE
      BY <1>1, <2>2 DEF CmdTypeOK
    <3> QED
      BY <3>1 DEF PurgeRight, Confirmed
  <2> QED
    BY <1>9, <2>1, <2>2 DEF AnswerPurge
<1>10. CASE OpenPurge
  <2>1. CASE \E ok \in BOOLEAN : Exit(ok)
    BY <1>4, <2>1
  <2>2. CASE store.at = cmd.shown /\ cmd' = [cmd EXCEPT !.stage = "emptying", !.opened = store.at,
                                                        !.listed = Content(store.at)]
    <3>1. Content(store.at) \in SUBSET {"db", "other"}
      BY DEF Content
    <3>2. CmdTypeOK' /\ cmd'.opened = cmd'.shown /\ cmd'.yes = cmd.yes
      BY <1>1, <2>2, <3>1 DEF CmdTypeOK
    <3>3. cmd.yes
      BY <1>1, <1>10 DEF OpenPurge, Confirmed
    <3> QED
      BY <3>2, <3>3 DEF PurgeRight, Confirmed
  <2> QED
    BY <1>10, <2>1, <2>2 DEF OpenPurge
<1>11. CASE EmptyDirectory
  <2>1. PICK child \in cmd.listed : cmd' = [cmd EXCEPT !.listed = @ \ {child}]
    BY <1>11 DEF EmptyDirectory
  <2>2. /\ CmdTypeOK' /\ cmd'.stage = cmd.stage /\ cmd'.yes = cmd.yes
        /\ cmd'.opened = cmd.opened /\ cmd'.shown = cmd.shown
    BY <1>1, <2>1 DEF CmdTypeOK
  <2> QED
    BY <1>1, <2>2 DEF PurgeRight, Confirmed
<1>12. CASE DetachRoot \/ PurgeFails
  <2>1. \E ok \in BOOLEAN : Exit(ok)
    BY <1>12 DEF DetachRoot, PurgeFails
  <2> QED
    BY <1>4, <2>1
<1>13. CASE Answer \/ ApplyStore \/ ConfigStep \/ SwapStore \/ UNCHANGED setupVars
            \/ \E w \in AllWriters : WriterStep(w)
  BY <1>2, <1>13 DEF Answer, ApplyStore, ConfigStep, SwapStore, setupVars, WriterStep
<1> QED
  BY <1>6, <1>7, <1>8, <1>9, <1>10, <1>11, <1>12, <1>13, <1>14 DEF SetupNext, PurgeStep

\* Only a purge takes anything, and from the directory it opened.
LEMMA PurgeTakes ==
    ASSUME PurgeRight, StoreRight, [SetupNext]_setupVars, NEW o \in Objects,
           Content(o) \ Content(o)' # {}
    PROVE  cmd.yes /\ o = cmd.shown
<1>1. StoreTypeOK /\ Confirmed
  BY DEF StoreRight, PurgeRight
<1>2. /\ store.db \in [Objects -> {"none", "empty", "ready"}]
      /\ store.other \in [Objects -> BOOLEAN]
  BY StoreFields
<1>3. \/ store.db[o] # "none" /\ store'.db[o] = "none"
      \/ store.other[o] /\ ~store'.other[o]
  BY DEF Content
<1>4. ASSUME store'.db = store.db, store.other[o] => store'.other[o]
      PROVE  FALSE
  BY <1>3, <1>4
<1>5. CASE UNCHANGED store
  BY <1>4, <1>5
<1>6. CASE StartDreamInit \/ SwapStore
  <2>1. \E p : store'.db = store.db /\ store'.other = [store.other EXCEPT ![p] = TRUE]
    <3>1. CASE StartDreamInit
      <4>1. store' = [store EXCEPT !.other[store.at] = TRUE]
        BY <3>1 DEF StartDreamInit
      <4> QED
        BY <1>1, <4>1 DEF StoreTypeOK
    <3>2. CASE SwapStore
      <4>1. PICK p \in Objects : store' = [store EXCEPT !.at = p, !.swaps = @ + 1, !.other[p] = TRUE]
        BY <3>2 DEF SwapStore
      <4> QED
        BY <1>1, <4>1 DEF StoreTypeOK
    <3> QED
      BY <1>6, <3>1, <3>2
  <2> QED
    BY <1>2, <1>4, <2>1
<1>7. CASE DetachRoot
  BY <1>1, <1>4, <1>5, <1>7 DEF DetachRoot, StoreTypeOK
<1>8. CASE EmptyDirectory
  <2>1. cmd.yes /\ cmd.opened = cmd.shown
    BY <1>1, <1>8 DEF EmptyDirectory, Confirmed
  <2>2. \/ store' = [store EXCEPT !.db[cmd.opened] = "none", !.globals[cmd.opened] = 0]
        \/ store' = [store EXCEPT !.other[cmd.opened] = FALSE]
    BY <1>8 DEF EmptyDirectory
  <2>3. \/ store'.db = [store.db EXCEPT ![cmd.opened] = "none"] /\ store'.other = store.other
        \/ store'.other = [store.other EXCEPT ![cmd.opened] = FALSE] /\ store'.db = store.db
    BY <1>1, <2>2 DEF StoreTypeOK
  <2>4. o = cmd.opened
    BY <1>2, <1>3, <2>3
  <2> QED
    BY <2>1, <2>4
<1>9. ASSUME NEW w \in AllWriters,
             OpenStore(w) \/ CreateFile(w) \/ BeginWrite(w) \/ CommitWrite(w) \/ FailWrite(w)
      PROVE  cmd.yes /\ o = cmd.shown
  <2>1. CASE OpenStore(w)
    BY <1>5, <2>1 DEF OpenStore
  <2>2. CASE CreateFile(w)
    <3>1. PICK dir : store' = [store EXCEPT !.at = dir, !.db[dir] = IF @ = "none" THEN "empty" ELSE @]
      BY <2>2 DEF CreateFile
    <3>2. store'.other = store.other /\ (store.db[o] # "none" => store'.db[o] # "none")
      BY <1>1, <1>2, <3>1 DEF StoreTypeOK
    <3> QED
      BY <1>3, <3>2
  <2>3. CASE BeginWrite(w) \/ FailWrite(w)
    BY <1>1, <1>4, <1>5, <2>3 DEF BeginWrite, FailWrite, StoreTypeOK
  <2>4. CASE CommitWrite(w)
    <3> DEFINE dir == writer[w].dir
    <3>1. PICK lock, globals : store' = [store EXCEPT !.lock = lock,
                  !.db[dir] = IF store.db[dir] = "none" THEN "none" ELSE "ready",
                  !.globals = globals]
      <4>1. PICK lock, db, globals :
              /\ store' = [store EXCEPT !.lock = lock, !.db = db, !.globals = globals]
              /\ db = [store.db EXCEPT ![dir] = IF store.db[dir] = "none" THEN "none" ELSE "ready"]
        BY <1>1, <2>4 DEF CommitWrite, StoreTypeOK
      <4> QED
        BY <1>1, <4>1 DEF StoreTypeOK
    <3>2. store'.other = store.other /\ (store.db[o] # "none" => store'.db[o] # "none")
      BY <1>1, <1>2, <3>1 DEF StoreTypeOK
    <3> QED
      BY <1>3, <3>2
  <2> QED
    BY <1>9, <2>1, <2>2, <2>3, <2>4
<1>10. CASE ApplyStore \/ \E w \in AllWriters : WriterStep(w)
  BY <1>5, <1>9, <1>10 DEF ApplyStore, WriterStep, AllWriters
<1>11. CASE StartInstall \/ StartUninstall \/ Answer \/ ConfigStep \/ ConfigEnds \/ ScheduleStep
            \/ PlanPurge \/ AnswerPurge \/ OpenPurge \/ PurgeFails \/ UNCHANGED setupVars
  BY <1>5, <1>11 DEF StartInstall, StartUninstall, Answer, ConfigStep, ConfigEnds, ScheduleStep,
        PlanPurge, AnswerPurge, OpenPurge, PurgeFails, setupVars
<1> QED
  BY <1>6, <1>7, <1>8, <1>10, <1>11 DEF SetupNext, PurgeStep
-----------------------------------------------------------------------------
\* The inductive invariant of installing and removing: the schedule's, the
\* store's and the purge's part.
THEOREM SetupInvariant == SetupSpec => [](ScheduleRight /\ StoreRight /\ PurgeRight)
<1>1. SetupInit => ScheduleRight /\ StoreRight /\ PurgeRight
  BY ScheduleInitRight, StoreInitRight, PurgeInitRight DEF SetupInit
<1>2. ScheduleRight /\ StoreRight /\ PurgeRight /\ [SetupNext]_setupVars
          => (ScheduleRight /\ StoreRight /\ PurgeRight)'
  BY ScheduleKept, StoreKept, PurgeKept
<1> QED
  BY <1>1, <1>2, PTL DEF SetupSpec

\* A refused replacement or removal of the schedule has put back what was there,
\* and a removal that went through has left nothing.
THEOREM ScheduleStandsHolds == SetupSpec => []ScheduleStands
<1>1. ScheduleRight => ScheduleStands
  BY DEF ScheduleRight
<1> QED
  BY <1>1, SetupInvariant, PTL

\* A new store gets one global project, however many processes write it first.
THEOREM OneGlobalHolds == SetupSpec => []OneGlobal
<1>1. StoreRight => OneGlobal
  BY DEF StoreRight
<1> QED
  BY <1>1, SetupInvariant, PTL

\* A purge takes what the confirmed directory held and nothing else, whatever
\* directory stands at the store's path by then.
THEOREM PurgedAsConfirmedHolds == SetupSpec => PurgedAsConfirmed
<1>1. PurgeRight /\ StoreRight /\ [SetupNext]_setupVars
          => [\A o \in Objects :
                Content(o) \ Content(o)' # {} => cmd.yes /\ o = cmd.shown]_setupVars
  BY PurgeTakes
<1>2. [](PurgeRight /\ StoreRight) /\ [][SetupNext]_setupVars => PurgedAsConfirmed
  BY <1>1, PTL DEF PurgedAsConfirmed
<1> QED
  BY <1>2, SetupInvariant, PTL DEF SetupSpec
-----------------------------------------------------------------------------
(* The same transaction within the commands *)

\* A command that is at its configuration names harnesses there are.
Named ==
    /\ DOMAIN cmd = DOMAIN NoCommand
    /\ cmd.stage = "config" => cmd.harnesses \in Selections

LEMMA UntouchedTransacts ==
    ASSUME Transacted, UNCHANGED installVars
    PROVE  Transacted'
BY TransactedNext

\* A command starts with nothing planned.
LEMMA StartTransacts ==
    ASSUME Transacted, NEW number, run' = [NoRun EXCEPT !.number = number],
           UNCHANGED <<files, dirs, backups, others>>
    PROVE  Transacted'
<1>1. /\ DOMAIN run' = RunFields /\ run'.pc = "idle" /\ DOMAIN run'.snap = {} /\ run'.writes = <<>>
      /\ IsSequence(<<>>) /\ DOMAIN <<>> = {}
  BY DEF NoRun, RunFields, IsSequence
<1>2. Shaped'
  BY <1>1 DEF Transacted, Shaped, OthersTyped, Sound, Working, Writing
<1>3. LedgerShaped'
  BY <1>1 DEF LedgerShaped, Writing
<1>4. Undoable'
  BY <1>1 DEF Undoable, Working
<1>5. Recoverable'
  BY <1>1 DEF Transacted, Recoverable, Edits, BackedUp
<1> QED
  BY <1>2, <1>3, <1>4, <1>5 DEF Transacted

LEMMA NamedKept == Named /\ [SetupNext]_setupVars => Named'
<1> SUFFICES ASSUME Named, [SetupNext]_setupVars PROVE Named'
  OBVIOUS
<1>1. DOMAIN cmd = DOMAIN NoCommand /\ "stage" \in DOMAIN NoCommand /\ "harnesses" \in DOMAIN NoCommand
  BY DEF Named, NoCommand
<1>2. CASE StartInstall \/ StartUninstall
  BY <1>2 DEF StartInstall, StartUninstall, Named, NoCommand
<1>3. CASE StartDreamInit
  BY <1>3 DEF StartDreamInit, Named, NoCommand
<1>4. CASE UNCHANGED cmd
  BY <1>4 DEF Named
<1>5. CASE \E stage \in {"over", "schedule", "plan-purge"} :
               Stage(stage) \/ \E ok : cmd' = [cmd EXCEPT !.stage = stage, !.ok = ok]
  BY <1>1, <1>5 DEF Named, Stage
<1>6. CASE PurgeStep
  BY <1>1, <1>6 DEF PurgeStep, PlanPurge, AnswerPurge, OpenPurge, EmptyDirectory, DetachRoot, PurgeFails,
        Exit, Named, NoCommand
<1>7. CASE ConfigEnds
  BY <1>5, <1>7 DEF ConfigEnds, Exit, Stage
<1>8. CASE ScheduleStep
  BY <1>4, <1>5, <1>8 DEF ScheduleStep, Exit, Stage
<1> QED
  BY <1>2, <1>3, <1>4, <1>6, <1>7, <1>8 DEF SetupNext, Answer, ApplyStore, ConfigStep, SwapStore,
     WriterStep, setupVars

LEMMA TransactedInSetup == Transacted /\ Named /\ [SetupNext]_setupVars => Transacted'
<1> SUFFICES ASSUME Transacted, Named, [SetupNext]_setupVars PROVE Transacted'
  OBVIOUS
<1>1. CASE StartInstall \/ StartUninstall
  BY <1>1, StartTransacts DEF StartInstall, StartUninstall
<1>2. CASE Answer
  BY <1>2, ConfirmTransacts DEF Answer
<1>3. CASE ApplyStore
  <2>1. CASE UNCHANGED run
    BY <1>3, <2>1, UntouchedTransacts DEF ApplyStore, installVars
  <2>2. CASE run' = [run EXCEPT !.pc = "checking"]
    BY <1>3, <2>2, Moves DEF ApplyStore
  <2>3. CASE run' = [run EXCEPT !.pc = "refused"]
    BY <1>3, <2>3, Moves DEF ApplyStore
  <2> QED
    BY <1>3, <2>1, <2>2, <2>3 DEF ApplyStore
<1>4. CASE ConfigStep
  BY <1>4, PlanTransacts, WritesTransact DEF ConfigStep, Named
<1>5. CASE UNCHANGED installVars
  BY <1>5, UntouchedTransacts
<1> QED
  BY <1>1, <1>2, <1>3, <1>4, <1>5 DEF SetupNext, StartDreamInit, ConfigEnds, ScheduleStep, PurgeStep,
     PlanPurge, AnswerPurge, OpenPurge, EmptyDirectory, DetachRoot, PurgeFails, SwapStore, WriterStep, setupVars

\* Composed with the store, the schedule and the purge, the transaction is the same: a
\* configuration that failed within a command has been undone, or the report says where not.
THEOREM SetupAllOrNothing == SetupSpec => []AllOrNothing
<1>1. SetupInit => Transacted /\ Named
  BY InitTransacted DEF SetupInit, Named, NoCommand
<1>2. Transacted /\ Named /\ [SetupNext]_setupVars => (Transacted /\ Named)'
  BY TransactedInSetup, NamedKept
<1>3. Transacted => AllOrNothing
  BY UndoneWhenFailed
<1> QED
  BY <1>1, <1>2, <1>3, PTL DEF SetupSpec
-----------------------------------------------------------------------------
(* Sequences less some of their tokens *)

\* A set of numbers that has 0, and with each the next, has them all.
LEMMA AllNumbers ==
    ASSUME NEW S \in SUBSET Nat, 0 \in S, \A n \in S : n + 1 \in S
    PROVE  S = Nat
<1> SUFFICES ASSUME Nat \ S # {} PROVE FALSE
  OBVIOUS
<1>1. PICK n \in Nat \ S : \A m \in Nat \ S : n <= m
  <2>1. Min(Nat \ S) \in Nat \ S /\ \A m \in Nat \ S : Min(Nat \ S) <= m
    BY LeastOf
  <2> QED
    BY <2>1
<1>2. n # 0 /\ n - 1 \in Nat /\ (n - 1) + 1 = n
  BY <1>1
<1>3. n - 1 \in S
  BY <1>1, <1>2
<1> QED
  BY <1>1, <1>2, <1>3

\* One step of Without, and all of them.
OneMore(kept, token, marks) == IF token \in marks THEN kept ELSE Append(kept, token)
Sieve(t, marks, n, kept) ==
    kept = [i \in 0..n |-> IF i = 0 THEN <<>> ELSE OneMore(kept[i - 1], t[i], marks)]

LEMMA SieveExists ==
    ASSUME NEW t, NEW marks
    PROVE  \A n \in Nat : \E kept : Sieve(t, marks, n, kept)
<1> DEFINE S == {n \in Nat : \E kept : Sieve(t, marks, n, kept)}
<1>1. 0 \in S
  <2>1. PICK g : g = [i \in 0..0 |-> <<>>]
    OBVIOUS
  <2>2. g = [i \in 0..0 |-> IF i = 0 THEN <<>> ELSE OneMore(g[i - 1], t[i], marks)]
    BY <2>1
  <2> QED
    BY <2>2 DEF Sieve
<1>2. ASSUME NEW n \in S PROVE n + 1 \in S
  <2>1. PICK g : Sieve(t, marks, n, g)
    OBVIOUS
  <2>2. PICK h : h = [i \in 0..(n + 1) |-> IF i = n + 1 THEN OneMore(g[n], t[n + 1], marks) ELSE g[i]]
    OBVIOUS
  <2>3. ASSUME NEW i \in 0..(n + 1) PROVE h[i] = IF i = 0 THEN <<>> ELSE OneMore(h[i - 1], t[i], marks)
    <3>1. CASE i = n + 1
      BY <2>2, <3>1
    <3>2. CASE i # n + 1
      <4>1. i \in 0..n
        BY <3>2
      <4>2. g[i] = IF i = 0 THEN <<>> ELSE OneMore(g[i - 1], t[i], marks)
        BY <2>1, <4>1 DEF Sieve
      <4>3. h[i] = g[i] /\ (i # 0 => h[i - 1] = g[i - 1])
        BY <2>2, <3>2, <4>1
      <4> QED
        BY <4>2, <4>3
    <3> QED
      BY <3>1, <3>2
  <2>4. h = [i \in 0..(n + 1) |-> IF i = 0 THEN <<>> ELSE OneMore(h[i - 1], t[i], marks)]
    BY <2>2, <2>3
  <2> QED
    BY <2>4 DEF Sieve
<1>3. S = Nat
  BY <1>1, <1>2, AllNumbers
<1> QED
  BY <1>3

LEMMA WithoutIs ==
    ASSUME NEW t, NEW marks, Len(t) \in Nat
    PROVE  \E kept : Sieve(t, marks, Len(t), kept) /\ Without(t, marks) = kept[Len(t)]
<1>1. PICK n \in Nat : n = Len(t)
  OBVIOUS
<1>2. PICK g : Sieve(t, marks, n, g)
  BY SieveExists
<1>3. PICK f : f = CHOOSE h : h = [i \in 0..n |-> IF i = 0 THEN <<>>
                                   ELSE IF t[i] \in marks THEN h[i - 1] ELSE Append(h[i - 1], t[i])]
  OBVIOUS
<1>4. f = [i \in 0..n |-> IF i = 0 THEN <<>>
                          ELSE IF t[i] \in marks THEN f[i - 1] ELSE Append(f[i - 1], t[i])]
  BY <1>2, <1>3, Zenon DEF Sieve, OneMore
<1>5. Without(t, marks) = f[n]
  BY <1>1, <1>3, Zenon DEF Without
<1> QED
  BY <1>1, <1>4, <1>5 DEF Sieve, OneMore

Alike(s, t, marks, n) == \A i \in 1..n : s[i] = t[i] \/ (s[i] \in marks /\ t[i] \in marks)

\* What two sieves have kept is the same for as long as what they are given is.
LEMMA SievesAgree ==
    ASSUME NEW s, NEW t, NEW marks, NEW k \in Nat, NEW n \in Nat, NEW f, NEW g, NEW m \in Nat,
           m <= k, m <= n, Sieve(s, marks, k, f), Sieve(t, marks, n, g), Alike(s, t, marks, m)
    PROVE  f[m] = g[m]
<1> DEFINE S == {i \in Nat : i <= m => f[i] = g[i]}
<1>1. 0 \in S
  BY DEF Sieve
<1>2. ASSUME NEW i \in S PROVE i + 1 \in S
  <2> SUFFICES ASSUME i + 1 <= m PROVE f[i + 1] = g[i + 1]
    OBVIOUS
  <2>1. i + 1 \in 0..k /\ i + 1 \in 0..n /\ i + 1 # 0 /\ (i + 1) - 1 = i /\ i + 1 \in 1..m
    OBVIOUS
  <2>2. f[i + 1] = OneMore(f[i], s[i + 1], marks) /\ g[i + 1] = OneMore(g[i], t[i + 1], marks)
    BY <2>1 DEF Sieve
  <2>3. f[i] = g[i]
    BY <2>1
  <2> QED
    BY <2>1, <2>2, <2>3 DEF OneMore, Alike
<1>3. S = Nat
  BY <1>1, <1>2, AllNumbers
<1>4. m \in S
  BY <1>3
<1> QED
  BY <1>4

LEMMA WithoutNone == ASSUME NEW marks PROVE Without(<<>>, marks) = <<>>
<1>1. PICK kept : Sieve(<<>>, marks, 0, kept) /\ Without(<<>>, marks) = kept[0]
  BY WithoutIs
<1> QED
  BY <1>1 DEF Sieve

LEMMA WithoutAppend ==
    ASSUME NEW X, NEW t \in Seq(X), NEW e \in X, NEW marks
    PROVE  Without(Append(t, e), marks) =
               IF e \in marks THEN Without(t, marks) ELSE Append(Without(t, marks), e)
<1>1. PICK n \in Nat : n = Len(t)
  OBVIOUS
<1>2. PICK u : u = Append(t, e)
  OBVIOUS
<1>3. Len(u) = n + 1 /\ u[n + 1] = e /\ \A i \in 1..n : u[i] = t[i]
  BY <1>1, <1>2
<1>4. PICK f : Sieve(t, marks, n, f) /\ Without(t, marks) = f[n]
  BY <1>1, WithoutIs
<1>5. PICK g : Sieve(u, marks, n + 1, g) /\ Without(u, marks) = g[n + 1]
  BY <1>1, <1>3, WithoutIs
<1>6. f[n] = g[n]
  <2>1. n <= n /\ n <= n + 1 /\ n + 1 \in Nat
    OBVIOUS
  <2>2. Alike(t, u, marks, n)
    BY <1>3 DEF Alike
  <2>3. Sieve(t, marks, n, f) /\ Sieve(u, marks, n + 1, g)
    BY <1>4, <1>5
  <2> QED
    BY <1>1, <2>1, <2>2, <2>3, SievesAgree
<1>7. g[n + 1] = OneMore(g[n], u[n + 1], marks)
  <2>1. n + 1 \in 0..(n + 1) /\ n + 1 # 0 /\ (n + 1) - 1 = n
    OBVIOUS
  <2> QED
    BY <1>5, <2>1 DEF Sieve
<1> QED
  BY <1>2, <1>3, <1>4, <1>5, <1>6, <1>7 DEF OneMore

\* Tokens exchanged for others that go just as well make no difference.
LEMMA WithoutLike ==
    ASSUME NEW s, NEW t, NEW marks, Len(s) \in Nat, Len(s) = Len(t),
           Alike(s, t, marks, Len(s))
    PROVE  Without(s, marks) = Without(t, marks)
<1>1. PICK n \in Nat : n = Len(s)
  OBVIOUS
<1>2. PICK f : Sieve(s, marks, n, f) /\ Without(s, marks) = f[n]
  BY <1>1, WithoutIs
<1>3. PICK g : Sieve(t, marks, n, g) /\ Without(t, marks) = g[n]
  BY <1>1, WithoutIs
<1>4. Alike(s, t, marks, n)
  BY <1>1
<1>5. n <= n
  OBVIOUS
<1>6. f[n] = g[n]
  BY <1>1, <1>2, <1>3, <1>4, <1>5, SievesAgree
<1> QED
  BY <1>2, <1>3, <1>6

LEMMA Longer ==
    ASSUME NEW X, NEW n \in Nat, NEW u \in Seq(X), Len(u) = n + 1
    PROVE  \E v \in Seq(X), e \in X : u = Append(v, e) /\ Len(v) = n
<1>1. u # <<>>
  OBVIOUS
<1>2. PICK v \in Seq(X), e \in X : u = Append(v, e)
  BY <1>1, SequenceEmptyOrAppend
<1>3. Len(v) = n
  BY <1>2
<1> QED
  BY <1>2, <1>3

LEMMA ConcatAppend ==
    ASSUME NEW X, NEW s \in Seq(X), NEW v \in Seq(X), NEW e \in X
    PROVE  s \o Append(v, e) = Append(s \o v, e)
OBVIOUS

\* What is left is of what there was, and of no mark.
LEMMA WithoutTyped ==
    ASSUME NEW X, NEW t \in Seq(X), NEW marks
    PROVE  Without(t, marks) \in Seq(X \ marks)
<1> DEFINE S == {n \in Nat : \A u \in Seq(X) : Len(u) = n => Without(u, marks) \in Seq(X \ marks)}
<1>1. 0 \in S
  <2>1. ASSUME NEW u \in Seq(X), Len(u) = 0 PROVE u = <<>>
    BY <2>1
  <2>2. \A u \in Seq(X) : Len(u) = 0 => u = <<>>
    BY <2>1
  <2> QED
    BY <2>2, WithoutNone
<1>2. ASSUME NEW n \in S PROVE n + 1 \in S
  <2> SUFFICES ASSUME NEW u \in Seq(X), Len(u) = n + 1
               PROVE  Without(u, marks) \in Seq(X \ marks)
    OBVIOUS
  <2>0. n \in Nat /\ \A v \in Seq(X) : Len(v) = n => Without(v, marks) \in Seq(X \ marks)
    OBVIOUS
  <2> HIDE DEF S
  <2>1. PICK v \in Seq(X), e \in X : u = Append(v, e) /\ Len(v) = n
    BY <2>0, Longer, Zenon
  <2>2. Len(v) = n
    BY <2>1
  <2>3. Without(v, marks) \in Seq(X \ marks)
    BY <2>0, <2>2
  <2>4. Without(u, marks) = IF e \in marks THEN Without(v, marks) ELSE Append(Without(v, marks), e)
    BY <2>1, WithoutAppend
  <2> QED
    BY <2>3, <2>4
<1>3. S = Nat
  BY <1>1, <1>2, AllNumbers
<1>4. Len(t) \in S
  BY <1>3
<1> QED
  BY <1>4

\* Nothing goes where there is no mark.
LEMMA WithoutFree ==
    ASSUME NEW X, NEW t \in Seq(X), NEW marks, \A e \in X : e \notin marks
    PROVE  Without(t, marks) = t
<1> DEFINE S == {n \in Nat : \A u \in Seq(X) : Len(u) = n => Without(u, marks) = u}
<1>1. 0 \in S
  <2>1. ASSUME NEW u \in Seq(X), Len(u) = 0 PROVE u = <<>>
    BY <2>1
  <2>2. \A u \in Seq(X) : Len(u) = 0 => u = <<>>
    BY <2>1
  <2> QED
    BY <2>2, WithoutNone
<1>2. ASSUME NEW n \in S PROVE n + 1 \in S
  <2> SUFFICES ASSUME NEW u \in Seq(X), Len(u) = n + 1
               PROVE  Without(u, marks) = u
    OBVIOUS
  <2>0. n \in Nat /\ \A v \in Seq(X) : Len(v) = n => Without(v, marks) = v
    OBVIOUS
  <2> HIDE DEF S
  <2>1. PICK v \in Seq(X), e \in X : u = Append(v, e) /\ Len(v) = n
    BY <2>0, Longer, Zenon
  <2>2. Len(v) = n
    BY <2>1
  <2>3. Without(v, marks) = v
    BY <2>0, <2>2
  <2>4. Without(u, marks) = IF e \in marks THEN Without(v, marks) ELSE Append(Without(v, marks), e)
    BY <2>1, WithoutAppend
  <2> QED
    BY <2>1, <2>3, <2>4
<1>3. S = Nat
  BY <1>1, <1>2, AllNumbers
<1>4. Len(t) \in S
  BY <1>3
<1> QED
  BY <1>4

\* Nothing stays where all are marks.
LEMMA WithoutAll ==
    ASSUME NEW X, NEW t \in Seq(X), NEW marks, X \subseteq marks
    PROVE  Without(t, marks) = <<>>
<1> DEFINE S == {n \in Nat : \A u \in Seq(X) : Len(u) = n => Without(u, marks) = <<>>}
<1>1. 0 \in S
  <2>1. ASSUME NEW u \in Seq(X), Len(u) = 0 PROVE u = <<>>
    BY <2>1
  <2>2. \A u \in Seq(X) : Len(u) = 0 => u = <<>>
    BY <2>1
  <2> QED
    BY <2>2, WithoutNone
<1>2. ASSUME NEW n \in S PROVE n + 1 \in S
  <2> SUFFICES ASSUME NEW u \in Seq(X), Len(u) = n + 1
               PROVE  Without(u, marks) = <<>>
    OBVIOUS
  <2>0. n \in Nat /\ \A v \in Seq(X) : Len(v) = n => Without(v, marks) = <<>>
    OBVIOUS
  <2> HIDE DEF S
  <2>1. PICK v \in Seq(X), e \in X : u = Append(v, e) /\ Len(v) = n
    BY <2>0, Longer, Zenon
  <2>2. Len(v) = n
    BY <2>1
  <2>3. Without(v, marks) = <<>>
    BY <2>0, <2>2
  <2>4. Without(u, marks) = IF e \in marks THEN Without(v, marks) ELSE Append(Without(v, marks), e)
    BY <2>1, WithoutAppend
  <2> QED
    BY <2>1, <2>3, <2>4
<1>3. S = Nat
  BY <1>1, <1>2, AllNumbers
<1>4. Len(t) \in S
  BY <1>3
<1> QED
  BY <1>4

\* What goes from two texts goes from the two put together.
LEMMA WithoutConcat ==
    ASSUME NEW X, NEW s \in Seq(X), NEW t \in Seq(X), NEW marks
    PROVE  Without(s \o t, marks) = Without(s, marks) \o Without(t, marks)
<1> DEFINE S == {n \in Nat : \A u \in Seq(X) : Len(u) = n => Without(s \o u, marks) = Without(s, marks) \o Without(u, marks)}
<1>1. 0 \in S
  <2>1. ASSUME NEW u \in Seq(X), Len(u) = 0 PROVE u = <<>>
    BY <2>1
  <2>2. \A u \in Seq(X) : Len(u) = 0 => u = <<>>
    BY <2>1
  <2> QED
    <3>1. s \o <<>> = s /\ Without(<<>>, marks) = <<>>
      BY WithoutNone
    <3>2. Without(s, marks) \in Seq(X \ marks)
      BY WithoutTyped
    <3>3. Without(s, marks) \o <<>> = Without(s, marks)
      BY <3>2
    <3> QED
      BY <2>2, <3>1, <3>3
<1>2. ASSUME NEW n \in S PROVE n + 1 \in S
  <2> SUFFICES ASSUME NEW u \in Seq(X), Len(u) = n + 1
               PROVE  Without(s \o u, marks) = Without(s, marks) \o Without(u, marks)
    OBVIOUS
  <2>0. n \in Nat /\ \A v \in Seq(X) : Len(v) = n => Without(s \o v, marks) = Without(s, marks) \o Without(v, marks)
    OBVIOUS
  <2> HIDE DEF S
  <2>1. PICK v \in Seq(X), e \in X : u = Append(v, e) /\ Len(v) = n
    BY <2>0, Longer, Zenon
  <2>2. Len(v) = n
    BY <2>1
  <2>3. Without(s \o v, marks) = Without(s, marks) \o Without(v, marks)
    BY <2>0, <2>2
  <2>4. Without(u, marks) = IF e \in marks THEN Without(v, marks) ELSE Append(Without(v, marks), e)
    BY <2>1, WithoutAppend
  <2>5. PICK w \in Seq(X) : w = s \o v /\ s \o u = Append(w, e)
    <3>1. s \o v \in Seq(X)
      OBVIOUS
    <3>2. s \o u = Append(s \o v, e)
      BY <2>1
    <3> QED
      BY <3>1, <3>2
  <2>6. Without(Append(w, e), marks) = IF e \in marks THEN Without(w, marks) ELSE Append(Without(w, marks), e)
    BY WithoutAppend
  <2>7. Without(s, marks) \in Seq(X \ marks) /\ Without(v, marks) \in Seq(X \ marks)
    BY WithoutTyped
  <2>8. ASSUME e \notin marks
        PROVE  Append(Without(s, marks) \o Without(v, marks), e) = Without(s, marks) \o Append(Without(v, marks), e)
    <3>1. e \in X \ marks
      BY <2>8
    <3>2. \A a, b \in Seq(X \ marks) : a \o Append(b, e) = Append(a \o b, e)
      BY <3>1, ConcatAppend, SMTT(20)
    <3> QED
      BY <2>7, <3>2, Zenon
  <2> QED
    BY <2>3, <2>4, <2>5, <2>6, <2>8
<1>3. S = Nat
  BY <1>1, <1>2, AllNumbers
<1>4. Len(t) \in S
  BY <1>3
<1> QED
  BY <1>4

\* Who takes more takes what is left.
LEMMA WithoutTwice ==
    ASSUME NEW X, NEW t \in Seq(X), NEW few, NEW marks, few \subseteq marks
    PROVE  Without(Without(t, few), marks) = Without(t, marks)
<1> DEFINE S == {n \in Nat : \A u \in Seq(X) : Len(u) = n => Without(Without(u, few), marks) = Without(u, marks)}
<1>1. 0 \in S
  <2>1. ASSUME NEW u \in Seq(X), Len(u) = 0 PROVE u = <<>>
    BY <2>1
  <2>2. \A u \in Seq(X) : Len(u) = 0 => u = <<>>
    BY <2>1
  <2> QED
    BY <2>2, WithoutNone
<1>2. ASSUME NEW n \in S PROVE n + 1 \in S
  <2> SUFFICES ASSUME NEW u \in Seq(X), Len(u) = n + 1
               PROVE  Without(Without(u, few), marks) = Without(u, marks)
    OBVIOUS
  <2>0. n \in Nat /\ \A v \in Seq(X) : Len(v) = n => Without(Without(v, few), marks) = Without(v, marks)
    OBVIOUS
  <2> HIDE DEF S
  <2>1. PICK v \in Seq(X), e \in X : u = Append(v, e) /\ Len(v) = n
    BY <2>0, Longer, Zenon
  <2>2. Len(v) = n
    BY <2>1
  <2>3. Without(Without(v, few), marks) = Without(v, marks)
    BY <2>0, <2>2
  <2>4. /\ Without(u, few) = IF e \in few THEN Without(v, few) ELSE Append(Without(v, few), e)
        /\ Without(u, marks) = IF e \in marks THEN Without(v, marks) ELSE Append(Without(v, marks), e)
    BY <2>1, WithoutAppend
  <2>5. Without(v, few) \in Seq(X)
    <3>1. Without(v, few) \in Seq(X \ few)
      BY WithoutTyped
    <3> QED
      BY <3>1
  <2>6. Without(Append(Without(v, few), e), marks)
          = IF e \in marks THEN Without(Without(v, few), marks) ELSE Append(Without(Without(v, few), marks), e)
    BY <2>5, WithoutAppend
  <2> QED
    BY <2>3, <2>4, <2>6
<1>3. S = Nat
  BY <1>1, <1>2, AllNumbers
<1>4. Len(t) \in S
  BY <1>3
<1> QED
  BY <1>4

AtMostOne(t, some) == \A i, j \in DOMAIN t : t[i] \in some /\ t[j] \in some => i = j

\* What is there once at most is there once at most in what is left.
LEMMA WithoutOnce ==
    ASSUME NEW X, NEW t \in Seq(X), NEW marks, NEW some, AtMostOne(t, some)
    PROVE  AtMostOne(Without(t, marks), some)
<1> DEFINE S == {n \in Nat : \A u \in Seq(X) : Len(u) = n => (AtMostOne(u, some) => AtMostOne(Without(u, marks), some))}
<1>1. 0 \in S
  <2>1. ASSUME NEW u \in Seq(X), Len(u) = 0 PROVE u = <<>>
    BY <2>1
  <2>2. \A u \in Seq(X) : Len(u) = 0 => u = <<>>
    BY <2>1
  <2> QED
    <3>1. AtMostOne(<<>>, some)
      BY DEF AtMostOne
    <3> QED
      BY <2>2, <3>1, WithoutNone
<1>2. ASSUME NEW n \in S PROVE n + 1 \in S
  <2> SUFFICES ASSUME NEW u \in Seq(X), Len(u) = n + 1
               PROVE  (AtMostOne(u, some) => AtMostOne(Without(u, marks), some))
    OBVIOUS
  <2>0. n \in Nat /\ \A v \in Seq(X) : Len(v) = n => (AtMostOne(v, some) => AtMostOne(Without(v, marks), some))
    OBVIOUS
  <2> HIDE DEF S
  <2>1. PICK v \in Seq(X), e \in X : u = Append(v, e) /\ Len(v) = n
    BY <2>0, Longer, Zenon
  <2>2. Len(v) = n
    BY <2>1
  <2> SUFFICES ASSUME AtMostOne(u, some) PROVE AtMostOne(Without(u, marks), some)
    OBVIOUS
  <2>3. DOMAIN v = 1..n /\ DOMAIN u = 1..(n + 1) /\ u[n + 1] = e /\ \A i \in 1..n : u[i] = v[i]
    BY <2>1, <2>2
  <2>4. AtMostOne(Without(v, marks), some)
    <3>1. AtMostOne(v, some)
      BY <2>0, <2>3 DEF AtMostOne
    <3> QED
      BY <2>0, <2>2, <3>1
  <2>5. Without(u, marks) = IF e \in marks THEN Without(v, marks) ELSE Append(Without(v, marks), e)
    BY <2>1, WithoutAppend
  <2>6. CASE e \in marks \/ e \notin some
    <3>1. Without(v, marks) \in Seq(X)
      <4>1. Without(v, marks) \in Seq(X \ marks)
        BY WithoutTyped
      <4> QED
        BY <4>1
    <3> QED
      BY <2>4, <2>5, <2>6, <3>1 DEF AtMostOne
  <2>7. CASE e \in some
    <3>1. ASSUME NEW i \in 1..n PROVE v[i] \notin some
      BY <2>0, <2>3, <2>7 DEF AtMostOne
    <3>2. v \in Seq(X \ some)
      BY <2>0, <2>2, <3>1
    <3>3. Without(v, marks) \in Seq((X \ some) \ marks)
      BY <3>2, WithoutTyped
    <3> QED
      BY <2>5, <3>3 DEF AtMostOne
  <2> QED
    BY <2>6, <2>7
<1>3. S = Nat
  BY <1>1, <1>2, AllNumbers
<1>4. Len(t) \in S
  BY <1>3
<1> QED
  BY <1>4

LEMMA SplitAt ==
    ASSUME NEW X, NEW t \in Seq(X), NEW n \in 0..Len(t)
    PROVE  /\ t = SubSeq(t, 1, n) \o DropFront(t, n)
           /\ SubSeq(t, 1, n) \in Seq(X) /\ Len(SubSeq(t, 1, n)) = n
           /\ \A i \in 1..n : SubSeq(t, 1, n)[i] = t[i]
           /\ DropFront(t, n) \in Seq(X) /\ Len(DropFront(t, n)) = Len(t) - n
           /\ \A i \in 1..(Len(t) - n) : DropFront(t, n)[i] = t[n + i]
<1>1. Len(t) \in Nat /\ \A i \in 1..Len(t) : t[i] \in X
  OBVIOUS
<1>2. /\ SubSeq(t, 1, n) \in Seq(X) /\ Len(SubSeq(t, 1, n)) = n
      /\ \A i \in 1..n : SubSeq(t, 1, n)[i] = t[i]
  <2>1. \A i \in 1..n : t[i] \in X
    BY <1>1
  <2>2. /\ SubSeq(t, 1, n) \in Seq(X)
        /\ Len(SubSeq(t, 1, n)) = IF 1 <= n THEN n - 1 + 1 ELSE 0
        /\ \A i \in 1..(n - 1 + 1) : SubSeq(t, 1, n)[i] = t[1 + i - 1]
    BY <2>1, SubSeqProperties
  <2> QED
    BY <2>2
<1>3. /\ DropFront(t, n) \in Seq(X) /\ Len(DropFront(t, n)) = Len(t) - n
      /\ \A i \in 1..(Len(t) - n) : DropFront(t, n)[i] = t[n + i]
  <2>1. \A i \in (n + 1)..Len(t) : t[i] \in X
    BY <1>1
  <2>2. /\ SubSeq(t, n + 1, Len(t)) \in Seq(X)
        /\ Len(SubSeq(t, n + 1, Len(t))) = IF n + 1 <= Len(t) THEN Len(t) - (n + 1) + 1 ELSE 0
        /\ \A i \in 1..(Len(t) - (n + 1) + 1) : SubSeq(t, n + 1, Len(t))[i] = t[n + 1 + i - 1]
    BY <1>1, <2>1, SubSeqProperties
  <2> QED
    BY <1>1, <2>2 DEF DropFront
<1>4. t = SubSeq(t, 1, n) \o DropFront(t, n)
  <2>1. PICK a \in Seq(X), b \in Seq(X) : a = SubSeq(t, 1, n) /\ b = DropFront(t, n)
    BY <1>2, <1>3
  <2>2. Len(a) = n /\ Len(b) = Len(t) - n /\ (\A i \in 1..n : a[i] = t[i]) /\ \A i \in 1..(Len(t) - n) : b[i] = t[n + i]
    BY <1>2, <1>3, <2>1
  <2>3. a \o b \in Seq(X) /\ Len(a \o b) = Len(t) /\ \A i \in 1..Len(t) : (a \o b)[i] = IF i <= n THEN a[i] ELSE b[i - n]
    BY <2>2
  <2>4. \A i \in 1..Len(t) : (a \o b)[i] = t[i]
    <3> SUFFICES ASSUME NEW i \in 1..Len(t) PROVE (a \o b)[i] = t[i]
      OBVIOUS
    <3>1. i > n => i - n \in 1..(Len(t) - n) /\ n + (i - n) = i
      OBVIOUS
    <3> QED
      BY <2>2, <2>3, <3>1
  <2>5. a \o b = t
    BY <2>3, <2>4, SeqEqual
  <2> QED
    BY <2>1, <2>5
<1> QED
  BY <1>2, <1>3, <1>4

\* A stretch of marks cut out is nothing gone that is none.
LEMMA WithoutSpan ==
    ASSUME NEW X, NEW t \in Seq(X), NEW marks, NEW i \in 1..(Len(t) + 1), NEW j \in (i - 1)..Len(t),
           \A k \in i..j : t[k] \in marks
    PROVE  /\ SubSeq(t, 1, i - 1) \o DropFront(t, j) \in Seq(X)
           /\ Without(SubSeq(t, 1, i - 1) \o DropFront(t, j), marks) = Without(t, marks)
<1>0. /\ \A u, v \in Seq(X) : Without(u \o v, marks) = Without(u, marks) \o Without(v, marks)
      /\ \A n \in 0..Len(t) :
            /\ SubSeq(t, 1, n) \in Seq(X) /\ DropFront(t, n) \in Seq(X)
            /\ t = SubSeq(t, 1, n) \o DropFront(t, n) /\ Len(DropFront(t, n)) = Len(t) - n
            /\ \A k \in 1..(Len(t) - n) : DropFront(t, n)[k] = t[n + k]
  <2>1. \A u, v \in Seq(X) : Without(u \o v, marks) = Without(u, marks) \o Without(v, marks)
    BY WithoutConcat
  <2>2. ASSUME NEW n \in 0..Len(t)
        PROVE  /\ SubSeq(t, 1, n) \in Seq(X) /\ DropFront(t, n) \in Seq(X)
               /\ t = SubSeq(t, 1, n) \o DropFront(t, n) /\ Len(DropFront(t, n)) = Len(t) - n
               /\ \A k \in 1..(Len(t) - n) : DropFront(t, n)[k] = t[n + k]
    BY SplitAt, Zenon
  <2> QED
    BY <2>1, <2>2
<1>1. Len(t) \in Nat /\ i - 1 \in 0..Len(t) /\ j \in 0..Len(t) /\ j - (i - 1) \in 0..(Len(t) - (i - 1))
  OBVIOUS
<1>2. PICK a \in Seq(X), rest \in Seq(X) :
        /\ a = SubSeq(t, 1, i - 1) /\ t = a \o rest /\ Len(rest) = Len(t) - (i - 1)
        /\ \A k \in 1..(Len(t) - (i - 1)) : rest[k] = t[(i - 1) + k]
  <2>1. PICK n \in 0..Len(t) : n = i - 1
    BY <1>1
  <2>2. /\ SubSeq(t, 1, n) \in Seq(X) /\ DropFront(t, n) \in Seq(X)
        /\ t = SubSeq(t, 1, n) \o DropFront(t, n) /\ Len(DropFront(t, n)) = Len(t) - n
        /\ \A k \in 1..(Len(t) - n) : DropFront(t, n)[k] = t[n + k]
    BY <1>0, <2>1, Zenon
  <2> QED
    BY <2>1, <2>2, Zenon
<1>3. PICK m \in Seq(X), b \in Seq(X) :
        /\ rest = m \o b /\ Len(m) = j - (i - 1) /\ Len(b) = Len(t) - j
        /\ \A k \in 1..(j - (i - 1)) : m[k] = rest[k]
        /\ \A k \in 1..(Len(t) - j) : b[k] = rest[(j - (i - 1)) + k]
  <2>1. PICK n \in 0..Len(rest) : n = j - (i - 1)
    BY <1>1, <1>2
  <2>2. Len(rest) - n = Len(t) - j
    BY <1>1, <1>2, <2>1
  <2>3. /\ SubSeq(rest, 1, n) \in Seq(X) /\ DropFront(rest, n) \in Seq(X)
        /\ rest = SubSeq(rest, 1, n) \o DropFront(rest, n)
        /\ Len(SubSeq(rest, 1, n)) = n /\ Len(DropFront(rest, n)) = Len(rest) - n
        /\ \A k \in 1..n : SubSeq(rest, 1, n)[k] = rest[k]
        /\ \A k \in 1..(Len(rest) - n) : DropFront(rest, n)[k] = rest[n + k]
    BY SplitAt, Zenon
  <2>4. /\ \A k \in 1..(j - (i - 1)) : SubSeq(rest, 1, n)[k] = rest[k]
        /\ \A k \in 1..(Len(t) - j) : DropFront(rest, n)[k] = rest[(j - (i - 1)) + k]
        /\ Len(SubSeq(rest, 1, n)) = j - (i - 1) /\ Len(DropFront(rest, n)) = Len(t) - j
    BY <2>1, <2>2, <2>3
  <2> QED
    BY <2>3, <2>4, Zenon
<1>4. b = DropFront(t, j)
  <2>1. PICK c \in Seq(X) : /\ c = DropFront(t, j) /\ Len(c) = Len(t) - j
                            /\ \A k \in 1..(Len(t) - j) : c[k] = t[j + k]
    BY <1>1, SplitAt
  <2>2. ASSUME NEW k \in 1..(Len(t) - j) PROVE b[k] = t[j + k]
    <3>1. (j - (i - 1)) + k \in 1..(Len(t) - (i - 1)) /\ (i - 1) + ((j - (i - 1)) + k) = j + k
      BY <1>1
    <3> QED
      BY <1>2, <1>3, <3>1
  <2>3. Len(b) = Len(c) /\ \A k \in 1..Len(b) : b[k] = c[k]
    BY <1>3, <2>1, <2>2
  <2> QED
    BY <2>1, <2>3, SeqEqual
<1>5. Without(m, marks) = <<>>
  <2>1. ASSUME NEW k \in 1..(j - (i - 1)) PROVE m[k] = t[(i - 1) + k]
    <3>1. k \in 1..(Len(t) - (i - 1))
      BY <1>1
    <3> QED
      BY <1>2, <1>3, <3>1, Zenon
  <2>2. \A k \in 1..(j - (i - 1)) : (i - 1) + k \in i..j
    BY <1>1
  <2>3. \A k \in 1..Len(m) : m[k] \in marks
    BY <1>3, <2>1, <2>2
  <2>4. m \in Seq(marks)
    BY <2>3
  <2> QED
    BY <2>4, WithoutAll
<1>6. Without(t, marks) = Without(a, marks) \o Without(b, marks)
  <2>1. Without(a \o rest, marks) = Without(a, marks) \o Without(rest, marks)
    BY <1>0, <1>2, Zenon
  <2>2. Without(m \o b, marks) = Without(m, marks) \o Without(b, marks)
    BY <1>0, <1>3, Zenon
  <2>3. Without(b, marks) \in Seq(X \ marks)
    BY WithoutTyped
  <2>4. <<>> \o Without(b, marks) = Without(b, marks)
    BY <2>3
  <2> QED
    BY <1>2, <1>3, <1>5, <2>1, <2>2, <2>4, Zenon
<1>7. Without(a \o b, marks) = Without(a, marks) \o Without(b, marks)
  BY <1>0, <1>2, <1>3, Zenon
<1>8. a \o b \in Seq(X)
  OBVIOUS
<1> QED
  BY <1>2, <1>4, <1>6, <1>7, <1>8, Zenon
-----------------------------------------------------------------------------
(* A hook array *)

OwnGroups == {<<"cur">>, <<"old">>}

LEMMA OwnGroupIs ==
    ASSUME NEW X, \A g \in X : IsText(g), NEW t \in Seq(X), OwnGroup(t) \notin {-1, 0}
    PROVE  OwnGroup(t) \in 1..Len(t) /\ t[OwnGroup(t)] \in OwnGroups
<1>1. PICK matched : matched = {i \in DOMAIN t : Matching(t[i]) # {}}
  OBVIOUS
<1>2. /\ OwnGroup(t) = CHOOSE i \in matched : TRUE
      /\ matched # {} /\ \A i \in matched : Len(t[i]) = 1
  BY <1>1, Zenon DEF OwnGroup
<1>3. PICK i : i = OwnGroup(t)
  OBVIOUS
<1>4. i \in matched
  BY <1>2, <1>3
<1>5. i \in 1..Len(t) /\ IsText(t[i]) /\ Len(t[i]) = 1 /\ Matching(t[i]) # {}
  BY <1>1, <1>2, <1>4
<1>6. t[i][1] \in {"cur", "old"} /\ t[i] = <<t[i][1]>>
  <2>1. DOMAIN t[i] = {1} /\ t[i] = <<t[i][1]>>
    BY <1>5 DEF IsText
  <2> QED
    BY <1>5, <2>1 DEF Matching
<1> QED
  BY <1>3, <1>5, <1>6 DEF OwnGroups

LEMMA HooksKept ==
    ASSUME NEW X, \A g \in X : IsText(g), NEW t \in Seq(X), OwnGroup(t) # -1,
           Expected \in X
    PROVE  /\ HookArrayIdentityMerge(t) \in Seq(X) /\ HookArrayIdentityRemove(t) \in Seq(X)
           /\ Without(HookArrayIdentityMerge(t), OwnGroups) = Without(t, OwnGroups)
           /\ Without(HookArrayIdentityRemove(t), OwnGroups) = Without(t, OwnGroups)
<1>1. Expected \in X /\ Expected \in OwnGroups
  BY DEF Expected, OwnGroups
<1>2. CASE OwnGroup(t) = 0
  <2>1. HookArrayIdentityMerge(t) = Append(t, Expected) /\ HookArrayIdentityRemove(t) = t
    BY <1>2 DEF HookArrayIdentityMerge, HookArrayIdentityRemove
  <2>2. Without(Append(t, Expected), OwnGroups) = Without(t, OwnGroups)
    BY <1>1, WithoutAppend
  <2>3. Append(t, Expected) \in Seq(X)
    BY <1>1
  <2> QED
    BY <2>1, <2>2, <2>3
<1>3. CASE OwnGroup(t) # 0
  <2>1. PICK own \in 1..Len(t) : own = OwnGroup(t) /\ t[own] \in OwnGroups /\ own # 0 /\ own # -1
    BY <1>3, OwnGroupIs
  <2>2. /\ HookArrayIdentityMerge(t) = [t EXCEPT ![own] = Expected]
        /\ HookArrayIdentityRemove(t) = RemoveAt(t, own)
    BY <2>1 DEF HookArrayIdentityMerge, HookArrayIdentityRemove
  <2>3. PICK u : u = [t EXCEPT ![own] = Expected]
    OBVIOUS
  <2>4. u \in Seq(X) /\ Len(u) = Len(t) /\ \A i \in 1..Len(t) : u[i] = IF i = own THEN Expected ELSE t[i]
    BY <1>1, <2>3
  <2>5. Without(u, OwnGroups) = Without(t, OwnGroups)
    <3>1. Alike(u, t, OwnGroups, Len(u))
      BY <1>1, <2>1, <2>4 DEF Alike
    <3>2. Len(u) \in Nat
      BY <2>4
    <3> QED
      BY <2>4, <3>1, <3>2, WithoutLike
  <2>6. RemoveAt(t, own) = SubSeq(t, 1, own - 1) \o DropFront(t, own)
    BY DEF RemoveAt, DropFront
  <2>7. /\ SubSeq(t, 1, own - 1) \o DropFront(t, own) \in Seq(X)
        /\ Without(SubSeq(t, 1, own - 1) \o DropFront(t, own), OwnGroups) = Without(t, OwnGroups)
    <3>1. own \in 1..(Len(t) + 1) /\ own \in (own - 1)..Len(t) /\ \A k \in own..own : t[k] \in OwnGroups
      BY <2>1
    <3> QED
      BY <3>1, WithoutSpan
  <2> QED
    BY <2>2, <2>3, <2>4, <2>5, <2>6, <2>7
<1> QED
  BY <1>2, <1>3
-----------------------------------------------------------------------------
(* Line ends *)

Begins(t, s) == Len(s) <= Len(t) /\ \A i \in 1..Len(s) : s[i] = t[i]

LEMMA PrefixIs ==
    ASSUME NEW X, NEW s \in Seq(X), NEW t \in Seq(X)
    PROVE  IsPrefix(s, t) <=> Begins(t, s)
<1>1. Len(s) \in Nat /\ Len(t) \in Nat
  OBVIOUS
<1>2. SubSeq(s, 1, Len(s)) = s
  BY SubSeqFull
<1>3. CASE Len(s) <= Len(t)
  <2>1. PICK n \in 0..Len(t) : n = Len(s)
    BY <1>1, <1>3
  <2>a. /\ SubSeq(t, 1, n) \in Seq(X) /\ Len(SubSeq(t, 1, n)) = n
        /\ \A i \in 1..n : SubSeq(t, 1, n)[i] = t[i]
    BY SplitAt, Zenon
  <2>2. PICK a \in Seq(X) : a = SubSeq(t, 1, n) /\ Len(a) = n /\ \A i \in 1..n : a[i] = t[i]
    BY <2>a
  <2>3. s = a <=> \A i \in 1..n : s[i] = a[i]
    BY <2>1, <2>2, SeqEqual
  <2> QED
    BY <1>2, <1>3, <2>1, <2>2, <2>3 DEF IsPrefix, Begins
<1>4. CASE ~(Len(s) <= Len(t))
  BY <1>4 DEF IsPrefix, Begins
<1> QED
  BY <1>3, <1>4

LEMMA CarriageReturnBefore ==
    ASSUME NEW X, NEW t \in Seq(X)
    PROVE  IsSuffix(<<"r", "n">>, t) <=> Len(t) >= 2 /\ t[Len(t)] = "n" /\ t[Len(t) - 1] = "r"
<1>1. PICK Y : Y = X \cup {"r", "n"}
  OBVIOUS
<1>2. Len(t) \in Nat /\ \A i \in 1..Len(t) : t[i] \in Y
  BY <1>1
<1>3. PICK u : u = Reverse(t)
  OBVIOUS
<1>4. u \in Seq(Y) /\ Len(u) = Len(t) /\ \A i \in 1..Len(t) : u[i] = t[(Len(t) - i) + 1]
  <2>1. u = [i \in 1..Len(t) |-> t[(Len(t) - i) + 1]]
    BY <1>3 DEF Reverse
  <2>2. \A i \in 1..Len(t) : (Len(t) - i) + 1 \in 1..Len(t)
    BY <1>2
  <2> QED
    BY <1>2, <2>1, <2>2
<1>5. PICK v : v = Reverse(<<"r", "n">>)
  OBVIOUS
<1>6. v \in Seq(Y) /\ Len(v) = 2 /\ v[1] = "n" /\ v[2] = "r"
  BY <1>1, <1>5 DEF Reverse
<1>7. IsPrefix(v, u) <=> Begins(u, v)
  <2>1. u \in Seq(Y) /\ v \in Seq(Y)
    BY <1>4, <1>6
  <2> QED
    BY <2>1, PrefixIs, Zenon
<1>8. IsPrefix(v, u) <=> Len(u) >= 2 /\ u[1] = "n" /\ u[2] = "r"
  BY <1>4, <1>6, <1>7 DEF Begins
<1>9. Len(t) >= 2 => u[1] = t[Len(t)] /\ u[2] = t[Len(t) - 1]
  BY <1>2, <1>4
<1> QED
  BY <1>3, <1>4, <1>5, <1>8, <1>9 DEF IsSuffix

LEMMA DropIs ==
    ASSUME NEW X, NEW t \in Seq(X), NEW k \in 0..Len(t)
    PROVE  /\ Drop(t, k) = SubSeq(t, 1, Len(t) - k) /\ Drop(t, k) \in Seq(X) /\ Len(Drop(t, k)) = Len(t) - k
           /\ \A i \in 1..(Len(t) - k) : Drop(t, k)[i] = t[i]
<1>1. Len(t) - k \in 0..Len(t)
  OBVIOUS
<1> QED
  BY <1>1, SplitAt DEF Drop

\* A newline off the end: one token, or two that are one newline.
LEMMA TrimIs ==
    ASSUME NEW X, NEW t \in Seq(X), EndsLine(t)
    PROVE  \E k \in 1..Len(t) :
               /\ WithoutOneTrailingNewline(t) = Drop(t, k)
               /\ k = 1 \/ (k = 2 /\ t[Len(t) - 1] = "r")
               /\ (k = 1 /\ Len(t) >= 2) => t[Len(t) - 1] # "r"
<1>1. Len(t) \in Nat \ {0} /\ t[Len(t)] = "n"
  BY DEF EndsLine, Last
<1>2. CASE IsSuffix(<<"r", "n">>, t)
  <2>1. Len(t) >= 2 /\ t[Len(t) - 1] = "r"
    BY <1>2, CarriageReturnBefore
  <2>2. WithoutOneTrailingNewline(t) = Drop(t, 2)
    BY <1>2 DEF WithoutOneTrailingNewline
  <2> QED
    BY <1>1, <2>1, <2>2
<1>3. CASE ~IsSuffix(<<"r", "n">>, t)
  <2>1. ~(Len(t) >= 2 /\ t[Len(t) - 1] = "r")
    BY <1>1, <1>3, CarriageReturnBefore
  <2>2. WithoutOneTrailingNewline(t) = Drop(t, 1)
    BY <1>3 DEF WithoutOneTrailingNewline
  <2> QED
    BY <1>1, <2>1, <2>2
<1> QED
  BY <1>2, <1>3

LEMMA TrimKept ==
    ASSUME NEW X, NEW t \in Seq(X), NEW marks, {"n", "r"} \subseteq marks, EndsLine(t)
    PROVE  /\ WithoutOneTrailingNewline(t) \in Seq(X)
           /\ Without(WithoutOneTrailingNewline(t), marks) = Without(t, marks)
<1>1. PICK k \in 1..Len(t) :
        /\ WithoutOneTrailingNewline(t) = Drop(t, k)
        /\ k = 1 \/ (k = 2 /\ t[Len(t) - 1] = "r")
  BY TrimIs
<1>2. Len(t) \in Nat \ {0} /\ t[Len(t)] = "n"
  BY DEF EndsLine, Last
<1>3. PICK i \in 1..(Len(t) + 1) : i = Len(t) - k + 1
  BY <1>1, <1>2
<1>4. Len(t) \in (i - 1)..Len(t) /\ i - 1 = Len(t) - k /\ \A j \in i..Len(t) : t[j] \in marks
  BY <1>1, <1>2, <1>3
<1>5. /\ SubSeq(t, 1, i - 1) \o DropFront(t, Len(t)) \in Seq(X)
      /\ Without(SubSeq(t, 1, i - 1) \o DropFront(t, Len(t)), marks) = Without(t, marks)
  BY <1>4, WithoutSpan, Zenon
<1>6. DropFront(t, Len(t)) = <<>>
  BY <1>2, SubSeqEmpty DEF DropFront
<1>7. Drop(t, k) \in Seq(X) /\ Drop(t, k) = SubSeq(t, 1, i - 1)
  <2>1. \A m \in 0..Len(t) : Drop(t, m) = SubSeq(t, 1, Len(t) - m) /\ Drop(t, m) \in Seq(X)
    BY DropIs, Zenon
  <2>2. k \in 0..Len(t)
    BY <1>1, <1>2
  <2> QED
    BY <1>4, <2>1, <2>2
<1>8. SubSeq(t, 1, i - 1) \o <<>> = SubSeq(t, 1, i - 1)
  BY <1>7
<1> QED
  BY <1>1, <1>5, <1>6, <1>7, <1>8

LEMMA StartsIs ==
    ASSUME NEW X, NEW t \in Seq(X)
    PROVE  /\ IsPrefix(<<"n">>, t) <=> Len(t) >= 1 /\ t[1] = "n"
           /\ IsPrefix(<<"r", "n">>, t) <=> Len(t) >= 2 /\ t[1] = "r" /\ t[2] = "n"
<1>1. PICK Y : Y = X \cup {"r", "n"}
  OBVIOUS
<1>2. t \in Seq(Y) /\ <<"n">> \in Seq(Y) /\ <<"r", "n">> \in Seq(Y)
  BY <1>1
<1>3. IsPrefix(<<"n">>, t) <=> Begins(t, <<"n">>)
  BY <1>2, PrefixIs, Zenon
<1>4. IsPrefix(<<"r", "n">>, t) <=> Begins(t, <<"r", "n">>)
  BY <1>2, PrefixIs, Zenon
<1> QED
  BY <1>3, <1>4 DEF Begins

LEMMA LeadKept ==
    ASSUME NEW X, NEW t \in Seq(X), NEW marks, {"n", "r"} \subseteq marks
    PROVE  /\ WithoutOneLeadingNewline(t) \in Seq(X)
           /\ Without(WithoutOneLeadingNewline(t), marks) = Without(t, marks)
<1>1. PICK k \in 0..Len(t) :
        WithoutOneLeadingNewline(t) = DropFront(t, k) /\ \A i \in 1..k : t[i] \in {"n", "r"}
  <2>1. CASE IsPrefix(<<"r", "n">>, t)
    <3>1. Len(t) >= 2 /\ t[1] = "r" /\ t[2] = "n"
      BY <2>1, StartsIs
    <3>2. ~IsPrefix(<<"n">>, t)
      BY <3>1, StartsIs
    <3>3. WithoutOneLeadingNewline(t) = DropFront(t, 2)
      BY <2>1, <3>2 DEF WithoutOneLeadingNewline
    <3> QED
      BY <3>1, <3>3
  <2>2. CASE IsPrefix(<<"n">>, t)
    <3>1. Len(t) >= 1 /\ t[1] = "n"
      BY <2>2, StartsIs
    <3>2. ~IsPrefix(<<"r", "n">>, t)
      BY <3>1, StartsIs
    <3>3. WithoutOneLeadingNewline(t) = DropFront(t, 1)
      BY <2>2, <3>2 DEF WithoutOneLeadingNewline
    <3> QED
      BY <3>1, <3>3
  <2>3. CASE ~IsPrefix(<<"r", "n">>, t) /\ ~IsPrefix(<<"n">>, t)
    <3>1. WithoutOneLeadingNewline(t) = DropFront(t, 0)
      BY <2>3 DEF WithoutOneLeadingNewline
    <3> QED
      BY <3>1
  <2> QED
    BY <2>1, <2>2, <2>3
<1>2. 1 \in 1..(Len(t) + 1) /\ k \in (1 - 1)..Len(t) /\ \A i \in 1..k : t[i] \in marks
  BY <1>1
<1>3. /\ SubSeq(t, 1, 1 - 1) \o DropFront(t, k) \in Seq(X)
      /\ Without(SubSeq(t, 1, 1 - 1) \o DropFront(t, k), marks) = Without(t, marks)
  BY <1>2, WithoutSpan, Zenon
<1>4. SubSeq(t, 1, 1 - 1) = <<>>
  BY SubSeqEmpty
<1>5. DropFront(t, k) \in Seq(X)
  BY <1>1, SplitAt
<1>6. <<>> \o DropFront(t, k) = DropFront(t, k)
  BY <1>5
<1> QED
  BY <1>1, <1>3, <1>4, <1>5, <1>6
-----------------------------------------------------------------------------
(* A TOML table *)

\* A set of numbers with a bound has a greatest.
LEMMA MostOf ==
    ASSUME NEW n \in Nat, NEW S \in SUBSET (0..n), S # {}
    PROVE  Max(S) \in S /\ \A m \in S : m <= Max(S)
<1>1. PICK R : R = {n - m : m \in S}
  OBVIOUS
<1>2. R \in SUBSET Nat /\ R # {}
  <2>1. ASSUME NEW m \in S PROVE n - m \in Nat
    <3>1. m \in 0..n
      OBVIOUS
    <3> QED
      BY <3>1
  <2> QED
    BY <1>1, <2>1
<1>3. Min(R) \in R /\ \A r \in R : Min(R) <= r
  BY <1>2, LeastOf
<1>4. PICK most \in S : Min(R) = n - most
  BY <1>1, <1>3
<1>5. ASSUME NEW m \in S PROVE m <= most
  <2>1. n - m \in R
    BY <1>1
  <2>2. n - most <= n - m
    BY <1>3, <1>4, <2>1
  <2>3. m \in 0..n /\ most \in 0..n
    BY <1>4
  <2> QED
    BY <2>2, <2>3
<1> QED
  BY <1>4, <1>5 DEF Max

\* A text put together falls apart where it was put together.
LEMMA Halves ==
    ASSUME NEW X, NEW s \in Seq(X), NEW t \in Seq(X)
    PROVE  SubSeq(s \o t, 1, Len(s)) = s /\ DropFront(s \o t, Len(s)) = t
<1>0. PICK u \in Seq(X) : u = s \o t /\ Len(u) = Len(s) + Len(t)
  <2>1. s \o t \in Seq(X)
    OBVIOUS
  <2>2. Len(s \o t) = Len(s) + Len(t)
    OBVIOUS
  <2> QED
    BY <2>1, <2>2, Zenon
<1>1. PICK n \in 0..Len(u) : u = s \o t /\ n = Len(s) /\ Len(u) = n + Len(t)
  BY <1>0
<1>2. (\A i \in 1..n : u[i] = s[i]) /\ \A i \in 1..Len(t) : u[n + i] = t[i]
  BY <1>1
<1>3. /\ SubSeq(u, 1, n) \in Seq(X) /\ Len(SubSeq(u, 1, n)) = n
      /\ \A i \in 1..n : SubSeq(u, 1, n)[i] = u[i]
      /\ DropFront(u, n) \in Seq(X) /\ Len(DropFront(u, n)) = Len(u) - n
      /\ \A i \in 1..(Len(u) - n) : DropFront(u, n)[i] = u[n + i]
  BY SplitAt, Zenon
<1>4. SubSeq(u, 1, n) = s
  BY <1>1, <1>2, <1>3, SeqEqual
<1>5. DropFront(u, n) = t
  <2>1. Len(DropFront(u, n)) = Len(t) /\ \A i \in 1..Len(t) : DropFront(u, n)[i] = t[i]
    BY <1>1, <1>2, <1>3
  <2> QED
    BY <1>3, <2>1, SeqEqual
<1> QED
  BY <1>1, <1>4, <1>5

\* A sequence is of any set its items are in.
LEMMA Narrowed ==
    ASSUME NEW X, NEW Y, NEW s \in Seq(X), \A i \in 1..Len(s) : s[i] \in Y
    PROVE  s \in Seq(Y)
OBVIOUS

LEMMA OfOne ==
    ASSUME NEW X, NEW e \in X
    PROVE  <<e>> \in Seq(X)
OBVIOUS

IsJoin(u, s, t) ==
    /\ u = s \o t /\ Len(u) = Len(s) + Len(t)
    /\ \A i \in 1..Len(s) : u[i] = s[i]
    /\ \A i \in 1..Len(t) : u[Len(s) + i] = t[i]

LEMMA Joined ==
    ASSUME NEW X, NEW s \in Seq(X), NEW t \in Seq(X)
    PROVE  \E u \in Seq(X) : IsJoin(u, s, t)
<1>1. s \o t \in Seq(X)
  OBVIOUS
<1>2. /\ Len(s \o t) = Len(s) + Len(t)
      /\ \A i \in 1..Len(s) : (s \o t)[i] = s[i]
      /\ \A i \in 1..Len(t) : (s \o t)[Len(s) + i] = t[i]
  OBVIOUS
<1> QED
  BY <1>1, <1>2, Zenon DEF IsJoin
-----------------------------------------------------------------------------
(* TOML *)

LEMMA HeadOf ==
    ASSUME NEW X, NEW t \in Seq(X), NEW n \in 0..Len(t)
    PROVE  \E u \in Seq(X) : u = SubSeq(t, 1, n) /\ Len(u) = n /\ \A i \in 1..n : u[i] = t[i]
<1>1. /\ SubSeq(t, 1, n) \in Seq(X) /\ Len(SubSeq(t, 1, n)) = n
      /\ \A i \in 1..n : SubSeq(t, 1, n)[i] = t[i]
  BY SplitAt, Zenon
<1> QED
  BY <1>1, Zenon

LEMMA TailOf ==
    ASSUME NEW X, NEW t \in Seq(X), NEW n \in 0..Len(t)
    PROVE  \E u \in Seq(X) : /\ u = DropFront(t, n) /\ Len(u) = Len(t) - n
                             /\ \A i \in 1..(Len(t) - n) : u[i] = t[n + i]
<1>1. /\ DropFront(t, n) \in Seq(X) /\ Len(DropFront(t, n)) = Len(t) - n
      /\ \A i \in 1..(Len(t) - n) : DropFront(t, n)[i] = t[n + i]
  BY SplitAt, Zenon
<1> QED
  BY <1>1, Zenon

OneOwn(t) == \A i, j \in 1..Len(t) : t[i] \in OwnTables /\ t[j] \in OwnTables => i = j
NoOwn(t) == \A i \in 1..Len(t) : t[i] \notin OwnTables
StartsTable(t) == Len(t) >= 1 => t[1] \in Headers
Ends == {"n", "r"}

LEMMA NoneIsOne ==
    ASSUME NEW X, NEW t \in Seq(X), NoOwn(t)
    PROVE  OneOwn(t) /\ ~HasOwnTable(t) /\ TomlDelete(t) = t
<1>1. DOMAIN t = 1..Len(t)
  OBVIOUS
<1> QED
  BY <1>1 DEF NoOwn, OneOwn, HasOwnTable, TomlDelete

LEMMA NoneJoined ==
    ASSUME NEW X, NEW s \in Seq(X), NEW t \in Seq(X), NoOwn(s), NoOwn(t)
    PROVE  NoOwn(s \o t) /\ s \o t \in Seq(X)
<1>1. PICK u \in Seq(X) : IsJoin(u, s, t)
  BY Joined, Zenon
<1>2. ASSUME NEW i \in 1..Len(u) PROVE u[i] \notin OwnTables
  <2>1. CASE i <= Len(s)
    BY <1>1, <2>1 DEF IsJoin, NoOwn
  <2>2. CASE i > Len(s)
    <3>1. PICK j \in 1..Len(t) : i = Len(s) + j
      <4>1. i - Len(s) \in 1..Len(t) /\ i = Len(s) + (i - Len(s))
        BY <1>1, <2>2 DEF IsJoin
      <4> QED
        BY <4>1
    <3> QED
      BY <1>1, <3>1 DEF IsJoin, NoOwn
  <2> QED
    BY <2>1, <2>2
<1> QED
  BY <1>1, <1>2 DEF IsJoin, NoOwn

LEMMA TableEndIs ==
    ASSUME NEW X, NEW t \in Seq(X), NEW i \in 1..Len(t)
    PROVE  /\ TableEnd(t, i) \in i..Len(t)
           /\ TableEnd(t, i) < Len(t) => t[TableEnd(t, i) + 1] \in Headers
           /\ i < Len(t) /\ t[i + 1] \in Headers => TableEnd(t, i) = i
           /\ i = Len(t) => TableEnd(t, i) = i
<1>1. PICK S : S = {j \in i..Len(t) : j < Len(t) => t[j + 1] \in Headers}
  OBVIOUS
<1>2. Len(t) \in S /\ S \in SUBSET Nat
  BY <1>1
<1>3. Min(S) \in S /\ \A n \in S : Min(S) <= n
  BY <1>2, LeastOf
<1>4. TableEnd(t, i) = Min(S)
  BY <1>1 DEF TableEnd
<1>5. i < Len(t) /\ t[i + 1] \in Headers => i \in S
  BY <1>1
<1> QED
  BY <1>1, <1>2, <1>3, <1>4, <1>5

\* What is before the table and what is after it.
LEMMA TableParts ==
    ASSUME NEW X, NEW t \in Seq(X), OneOwn(t), HasOwnTable(t)
    PROVE  /\ BeforeOwnTable(t) \in Seq(X) /\ AfterOwnTable(t) \in Seq(X)
           /\ NoOwn(BeforeOwnTable(t)) /\ NoOwn(AfterOwnTable(t)) /\ StartsTable(AfterOwnTable(t))
<1>1. PICK i \in 1..Len(t) : i = OwnTable(t) /\ t[i] \in OwnTables
  BY DEF HasOwnTable, OwnTable
<1>2. PICK e \in i..Len(t) : e = TableEnd(t, i) /\ (e < Len(t) => t[e + 1] \in Headers)
  BY TableEndIs
<1>3. i - 1 \in 0..Len(t) /\ e \in 0..Len(t)
  BY <1>1, <1>2
<1>4. PICK u \in Seq(X) : /\ u = SubSeq(t, 1, i - 1) /\ Len(u) = i - 1
                          /\ \A j \in 1..(i - 1) : u[j] = t[j]
  BY <1>3, HeadOf, Zenon
<1>5. PICK v \in Seq(X) : /\ v = DropFront(t, e) /\ Len(v) = Len(t) - e
                          /\ \A j \in 1..(Len(t) - e) : v[j] = t[e + j]
  BY <1>3, TailOf
<1>6. u = BeforeOwnTable(t) /\ v = AfterOwnTable(t)
  BY <1>1, <1>2, <1>4, <1>5 DEF BeforeOwnTable, AfterOwnTable
<1>7. NoOwn(u)
  BY <1>1, <1>4 DEF NoOwn, OneOwn
<1>8. NoOwn(v)
  <2>1. ASSUME NEW j \in 1..Len(v) PROVE v[j] \notin OwnTables
    <3>1. v[j] = t[e + j] /\ e + j \in 1..Len(t) /\ e + j # i
      BY <1>2, <1>5
    <3> QED
      BY <1>1, <3>1 DEF OneOwn
  <2> QED
    BY <2>1 DEF NoOwn
<1>9. StartsTable(v)
  <2>1. SUFFICES ASSUME Len(v) >= 1 PROVE v[1] \in Headers
    BY DEF StartsTable
  <2>2. v[1] = t[e + 1] /\ e < Len(t)
    BY <1>2, <1>5, <2>1
  <2> QED
    BY <1>2, <2>2
<1> QED
  BY <1>4, <1>5, <1>6, <1>7, <1>8, <1>9

\* A table put between two texts without one is the one there is.
AreAround(X, u, mark, v) ==
    /\ u \in Seq(X) /\ v \in Seq(X) /\ mark \in X /\ mark \in OwnTables
    /\ NoOwn(u) /\ NoOwn(v) /\ StartsTable(v)
IsWith(t, X, u, v) == t \in Seq(X) /\ OneOwn(t) /\ TomlDelete(t) = u \o v

LEMMA TableBetween ==
    ASSUME NEW X, NEW u, NEW mark, NEW v, AreAround(X, u, mark, v)
    PROVE  IsWith(u \o <<mark>> \o v, X, u, v)
<1> SUFFICES ASSUME u \in Seq(X), v \in Seq(X), mark \in X, mark \in OwnTables,
                    NoOwn(u), NoOwn(v), StartsTable(v)
             PROVE  IsWith(u \o <<mark>> \o v, X, u, v)
  BY DEF AreAround
<1>1. <<mark>> \in Seq(X) /\ Len(<<mark>>) = 1 /\ <<mark>>[1] = mark
  OBVIOUS
<1>2. PICK a \in Seq(X) : IsJoin(a, u, <<mark>>)
  BY <1>1, Joined, Zenon
<1>3. PICK w \in Seq(X) : IsJoin(w, a, v)
  BY Joined, Zenon
<1>4. w = u \o <<mark>> \o v
  BY <1>2, <1>3 DEF IsJoin
<1>5. PICK k : k = Len(u) + 1
  OBVIOUS
<1>6. /\ k \in 1..Len(w) /\ Len(a) = k /\ Len(w) = k + Len(v) /\ Len(u) \in Nat /\ Len(v) \in Nat
      /\ w[k] = mark
      /\ \A i \in 1..Len(u) : w[i] = u[i] /\ a[i] = u[i]
      /\ \A i \in 1..Len(v) : w[k + i] = v[i]
  BY <1>1, <1>2, <1>3, <1>5 DEF IsJoin
<1>7. ASSUME NEW i \in 1..Len(w), w[i] \in OwnTables PROVE i = k
  <2>1. CASE i < k
    <3>1. i \in 1..Len(u) /\ w[i] = u[i]
      BY <1>5, <1>6, <2>1
    <3> QED
      BY <1>7, <3>1 DEF NoOwn
  <2>2. CASE i > k
    <3>1. i - k \in 1..Len(v) /\ i = k + (i - k)
      BY <1>6, <2>2
    <3>2. w[i] = v[i - k]
      BY <1>6, <3>1
    <3> QED
      BY <1>7, <3>1, <3>2 DEF NoOwn
  <2> QED
    BY <1>6, <2>1, <2>2
<1>8. OneOwn(w) /\ HasOwnTable(w) /\ OwnTable(w) = k
  <2>1. DOMAIN w = 1..Len(w)
    OBVIOUS
  <2>2. OneOwn(w)
    BY <1>7 DEF OneOwn
  <2>3. HasOwnTable(w) /\ OwnTable(w) = k
    BY <1>6, <1>7, <2>1 DEF HasOwnTable, OwnTable
  <2> QED
    BY <2>2, <2>3
<1>9. TableEnd(w, k) = k
  <2>1. k < Len(w) => w[k + 1] \in Headers
    <3>1. SUFFICES ASSUME k < Len(w) PROVE w[k + 1] \in Headers
      OBVIOUS
    <3>2. 1 \in 1..Len(v) /\ w[k + 1] = v[1]
      BY <1>6, <3>1
    <3> QED
      BY <3>2 DEF StartsTable
  <2>2. k = Len(w) \/ k < Len(w)
    BY <1>6
  <2>3. k \in 1..Len(w)
    BY <1>6
  <2> QED
    BY <2>1, <2>2, <2>3, TableEndIs, Zenon
<1>10. SubSeq(w, 1, k - 1) = u
  <2>1. k - 1 \in 0..Len(w) /\ k - 1 = Len(u)
    BY <1>5, <1>6
  <2>a. PICK h \in 0..Len(w) : h = k - 1
    BY <2>1
  <2>b. PICK s \in Seq(X) : s = SubSeq(w, 1, h) /\ Len(s) = h /\ \A i \in 1..h : s[i] = w[i]
    <3>1. w \in Seq(X) /\ h \in 0..Len(w)
      BY <1>3, <2>a
    <3>2. /\ SubSeq(w, 1, h) \in Seq(X) /\ Len(SubSeq(w, 1, h)) = h
          /\ \A i \in 1..h : SubSeq(w, 1, h)[i] = w[i]
      BY <3>1, SplitAt, Zenon
    <3> QED
      BY <3>2, Zenon
  <2>2. s = SubSeq(w, 1, k - 1) /\ Len(s) = k - 1 /\ \A i \in 1..(k - 1) : s[i] = w[i]
    BY <2>a, <2>b
  <2> QED
    BY <1>6, <2>1, <2>2, SeqEqual
<1>11. DropFront(w, k) = v
  <2>1. DropFront(a \o v, Len(a)) = v
    BY Halves
  <2> QED
    BY <1>3, <1>6, <2>1 DEF IsJoin
<1>12. BeforeOwnTable(w) = u /\ AfterOwnTable(w) = v
  BY <1>8, <1>9, <1>10, <1>11 DEF BeforeOwnTable, AfterOwnTable
<1>13. TomlDelete(w) = u \o v
  BY <1>8, <1>12 DEF TomlDelete
<1>14. IsWith(w, X, u, v)
  BY <1>3, <1>8, <1>13 DEF IsWith
<1> QED
  BY <1>4, <1>14, Zenon

LEMMA TomlDeleted ==
    ASSUME NEW X, NEW t \in Seq(X), OneOwn(t)
    PROVE  TomlDelete(t) \in Seq(X) /\ NoOwn(TomlDelete(t))
<1>1. CASE HasOwnTable(t)
  <2>1. PICK u, v : u = BeforeOwnTable(t) /\ v = AfterOwnTable(t)
    OBVIOUS
  <2>2. u \in Seq(X) /\ v \in Seq(X) /\ NoOwn(u) /\ NoOwn(v)
    BY <1>1, <2>1, TableParts
  <2>3. u \o v \in Seq(X) /\ NoOwn(u \o v)
    BY <2>2, NoneJoined
  <2> QED
    BY <1>1, <2>1, <2>3 DEF TomlDelete
<1>2. CASE ~HasOwnTable(t)
  <2>1. NoOwn(t)
    BY <1>2 DEF HasOwnTable, NoOwn
  <2> QED
    BY <1>2, <2>1 DEF TomlDelete
<1> QED
  BY <1>1, <1>2

LEMMA GroupEndIs ==
    ASSUME NEW X, NEW t \in Seq(X)
    PROVE  GroupEnd(t) \in 0..Len(t) /\ (GroupEnd(t) < Len(t) => t[GroupEnd(t) + 1] = "h")
<1>1. CASE ~Contains(t, "s")
  BY <1>1 DEF GroupEnd
<1>2. CASE Contains(t, "s")
  <2>1. PICK S : S = {j \in DOMAIN t : (\E i \in 1..j : t[i] = "s") /\ (j < Len(t) => t[j + 1] = "h")}
    OBVIOUS
  <2>2. PICK i \in 1..Len(t) : t[i] = "s"
    BY <1>2 DEF Contains
  <2>3. Len(t) \in S /\ S \in SUBSET Nat
    BY <2>1, <2>2
  <2>4. Min(S) \in S
    BY <2>3, LeastOf
  <2>5. GroupEnd(t) = Min(S)
    BY <1>2, <2>1 DEF GroupEnd
  <2> QED
    BY <2>1, <2>4, <2>5
<1> QED
  BY <1>1, <1>2

LEMMA PaddingIs == \A head : Padding(head) \in {<<>>, <<"n">>, <<"n", "n">>}
BY DEF Padding

LEMMA PaddingHolds ==
    ASSUME NEW Y, "n" \in Y, NEW pad \in {<<>>, <<"n">>, <<"n", "n">>}
    PROVE  /\ pad \in Seq(Y) /\ pad \in Seq({"n"}) /\ NoOwn(pad)
           /\ Len(pad) \in {0, 1, 2} /\ \A i \in 1..Len(pad) : pad[i] = "n"
<1>1. pad \in Seq(Y) /\ pad \in Seq({"n"}) /\ Len(pad) \in {0, 1, 2}
  <2>1. CASE pad = <<>>
    BY <2>1
  <2>2. CASE pad = <<"n">>
    BY <2>2
  <2>3. CASE pad = <<"n", "n">>
    BY <2>3
  <2> QED
    BY <2>1, <2>2, <2>3
<1>2. \A i \in 1..Len(pad) : pad[i] = "n"
  BY <1>1
<1>3. "n" \notin OwnTables
  BY DEF OwnTables
<1> QED
  BY <1>1, <1>2, <1>3 DEF NoOwn

\* Padding between two texts is nothing once the marks are gone.
IsPadded(Y, head, pad, rest, marks) ==
    head \in Seq(Y) /\ pad \in Seq(Y) /\ rest \in Seq(Y) /\ Without(pad, marks) = <<>>

LEMMA WithoutJoin ==
    ASSUME NEW X, NEW marks
    PROVE  \A a, b \in Seq(X) : Without(a \o b, marks) = Without(a, marks) \o Without(b, marks)
BY WithoutConcat

LEMMA PaddingGoes ==
    ASSUME NEW Y, NEW head, NEW pad, NEW rest, NEW marks, IsPadded(Y, head, pad, rest, marks)
    PROVE  Without((head \o pad) \o rest, marks) = Without(head \o rest, marks)
<1>1. head \in Seq(Y) /\ pad \in Seq(Y) /\ rest \in Seq(Y) /\ Without(pad, marks) = <<>>
  BY Zenon DEF IsPadded
<1>2. \A a, b \in Seq(Y) : Without(a \o b, marks) = Without(a, marks) \o Without(b, marks)
  BY WithoutJoin, Zenon
<1>3. PICK both \in Seq(Y) : both = head \o pad
  <2>1. \A a, b \in Seq(Y) : a \o b \in Seq(Y)
    OBVIOUS
  <2> QED
    BY <1>1, <2>1, Zenon
<1>4. Without(both, marks) = Without(head, marks) \o <<>>
  BY <1>1, <1>2, <1>3, Zenon
<1>5. Without(head, marks) \in Seq(Y \ marks)
  BY <1>1, WithoutTyped
<1>6. Without(both, marks) = Without(head, marks)
  BY <1>4, <1>5
<1>7. /\ Without(both \o rest, marks) = Without(both, marks) \o Without(rest, marks)
      /\ Without(head \o rest, marks) = Without(head, marks) \o Without(rest, marks)
  BY <1>1, <1>2, <1>3, Zenon
<1> QED
  BY <1>3, <1>6, <1>7, Zenon

\* A table added, wherever it is.
LEMMA TomlAppended ==
    ASSUME NEW Y, "n" \in Y, "T" \in Y, NEW t \in Seq(Y), NoOwn(t), NEW r, r = TomlAppend(t)
    PROVE  /\ r \in Seq(Y) /\ OneOwn(r)
           /\ Without(TomlDelete(r), Ends) = Without(t, Ends)
           /\ GroupEnd(t) = Len(t) => \E pad \in {<<>>, <<"n">>, <<"n", "n">>} : r = t \o pad \o <<"T">>
           /\ GroupEnd(t) < Len(t) => ~IsPrefix(t, r)
<1>1. PICK k \in 0..Len(t) : k = GroupEnd(t) /\ (k < Len(t) => t[k + 1] = "h")
  BY GroupEndIs
<1>a. k \in 0..Len(t)
  BY <1>1
<1>2. PICK head \in Seq(Y) : /\ head = SubSeq(t, 1, k) /\ Len(head) = k
                             /\ \A i \in 1..k : head[i] = t[i]
  BY <1>a, HeadOf
<1>3. PICK rest \in Seq(Y) : /\ rest = DropFront(t, k) /\ Len(rest) = Len(t) - k
                             /\ \A i \in 1..(Len(t) - k) : rest[i] = t[k + i]
  BY <1>a, TailOf
<1>4. t = head \o rest
  <2>1. t = SubSeq(t, 1, k) \o DropFront(t, k)
    BY <1>a, SplitAt
  <2> QED
    BY <1>2, <1>3, <2>1, Zenon
<1>5. PICK pad \in {<<>>, <<"n">>, <<"n", "n">>} : pad = Padding(head)
  BY PaddingIs
<1>6. /\ pad \in Seq(Y) /\ pad \in Seq({"n"}) /\ NoOwn(pad)
      /\ Len(pad) \in {0, 1, 2} /\ \A i \in 1..Len(pad) : pad[i] = "n"
  BY PaddingHolds
<1>7. r = head \o pad \o <<"T">> \o rest
  BY <1>1, <1>2, <1>3, <1>5 DEF TomlAppend
<1>8. PICK u \in Seq(Y) : IsJoin(u, head, pad)
  BY <1>6, Joined, Zenon
<1>9. NoOwn(head) /\ NoOwn(rest) /\ NoOwn(u)
  <2>1. NoOwn(head)
    BY <1>2 DEF NoOwn
  <2>2. NoOwn(rest)
    <3>1. \A i \in 1..Len(rest) : rest[i] = t[k + i] /\ k + i \in 1..Len(t)
      BY <1>3
    <3> QED
      BY <3>1 DEF NoOwn
  <2>3. u = head \o pad
    BY <1>8 DEF IsJoin
  <2> QED
    BY <1>6, <2>1, <2>2, <2>3, NoneJoined
<1>10. StartsTable(rest)
  <2>1. Len(rest) >= 1 => k < Len(t) /\ rest[1] = t[k + 1]
    BY <1>3
  <2> QED
    BY <1>1, <2>1 DEF StartsTable, Headers
<1>11. r = u \o <<"T">> \o rest /\ "T" \in OwnTables
  BY <1>7, <1>8 DEF IsJoin, OwnTables
<1>12. r \in Seq(Y) /\ OneOwn(r) /\ TomlDelete(r) = u \o rest
  <2>1. AreAround(Y, u, "T", rest)
    BY <1>9, <1>10, <1>11 DEF AreAround
  <2>2. IsWith(r, Y, u, rest)
    BY <1>11, <2>1, TableBetween, Zenon
  <2> QED
    BY <2>2 DEF IsWith
<1>13. Without(u \o rest, Ends) = Without(t, Ends)
  <2>1. Without(pad, Ends) = <<>>
    <3>1. {"n"} \subseteq Ends
      BY DEF Ends
    <3> QED
      BY <1>6, <3>1, WithoutAll
  <2>2. IsPadded(Y, head, pad, rest, Ends)
    BY <1>2, <1>3, <1>6, <2>1 DEF IsPadded
  <2>3. u = head \o pad
    BY <1>8 DEF IsJoin
  <2>4. Without((head \o pad) \o rest, Ends) = Without(head \o rest, Ends)
    BY <2>2, PaddingGoes
  <2> QED
    BY <1>4, <2>3, <2>4, Zenon
<1>14. ASSUME k = Len(t) PROVE r = t \o pad \o <<"T">>
  <2>1. Len(rest) = 0
    BY <1>3, <1>14
  <2>2. rest = <<>>
    BY <2>1
  <2>3. head = t
    BY <1>4, <2>2
  <2>4. t \o pad \o <<"T">> \in Seq(Y)
    BY <1>6
  <2>5. (t \o pad \o <<"T">>) \o <<>> = t \o pad \o <<"T">>
    BY <2>4
  <2> QED
    BY <1>7, <2>2, <2>3, <2>5
<1>15. ASSUME k < Len(t) PROVE ~IsPrefix(t, r)
  <2>1. PICK a \in Seq(Y) : IsJoin(a, u, <<"T">>)
    <3>1. <<"T">> \in Seq(Y)
      BY OfOne
    <3> QED
      BY <3>1, Joined, Zenon
  <2>2. PICK w \in Seq(Y) : IsJoin(w, a, rest)
    BY Joined, Zenon
  <2>3. w = r
    BY <1>11, <2>1, <2>2 DEF IsJoin
  <2>4. Len(<<"T">>) = 1 /\ <<"T">>[1] = "T" /\ Len(u) = k + Len(pad) /\ Len(a) = Len(u) + 1
    BY <1>2, <1>8, <2>1 DEF IsJoin
  <2>5. w[k + 1] \in {"n", "T"}
    <3>1. k + 1 \in 1..Len(a) /\ w[k + 1] = a[k + 1]
      <4>1. k + 1 \in 1..Len(a)
        BY <1>1, <1>6, <2>4
      <4> QED
        BY <2>2, <4>1, Zenon DEF IsJoin
    <3>2. CASE Len(pad) = 0
      <4>1. a[k + 1] = "T"
        <5>1. Len(u) = k /\ 1 \in 1..Len(<<"T">>)
          BY <1>1, <2>4, <3>2
        <5> QED
          BY <2>1, <2>4, <5>1 DEF IsJoin
      <4> QED
        BY <3>1, <4>1
    <3>3. CASE Len(pad) # 0
      <4>1. 1 \in 1..Len(pad) /\ k + 1 \in 1..Len(u)
        BY <1>1, <1>6, <2>4, <3>3
      <4>2. a[k + 1] = u[k + 1] /\ u[k + 1] = pad[1]
        BY <1>2, <1>8, <2>1, <4>1 DEF IsJoin
      <4> QED
        BY <1>6, <3>1, <4>1, <4>2
    <3> QED
      BY <3>2, <3>3
  <2>6. k + 1 \in 1..Len(t) /\ t[k + 1] = "h"
    BY <1>1, <1>15
  <2>7. ~Begins(w, t)
    BY <2>5, <2>6 DEF Begins
  <2> QED
    BY <2>3, <2>7, PrefixIs
<1> QED
  BY <1>1, <1>12, <1>13, <1>14, <1>15

\* The text with the table put after it, on a line of its own.
WithTable(t) == IF t = <<>> THEN <<"T">> ELSE Append(Append(t, "n"), "T")

\* The newlines before the table go, whatever their number.
LEMMA NoNewline ==
    ASSUME NEW pad \in {<<>>, <<"n">>, <<"n", "n">>}, NEW added, added = pad \o <<"T">>
    PROVE  DropFront(added, Min({i \in DOMAIN added : added[i] # "n"}) - 1) = <<"T">>
<1>1. PICK Y : Y = {"n", "T"}
  OBVIOUS
<1>2. pad \in Seq(Y) /\ <<"T">> \in Seq(Y) /\ Len(<<"T">>) = 1 /\ <<"T">>[1] = "T"
  <2>1. "n" \in Y /\ "T" \in Y
    BY <1>1
  <2>2. pad \in Seq(Y)
    BY <2>1, PaddingHolds, Zenon
  <2>3. <<"T">> \in Seq(Y)
    BY <2>1, OfOne, Zenon
  <2>4. Len(<<"T">>) = 1 /\ <<"T">>[1] = "T"
    OBVIOUS
  <2> QED
    BY <2>2, <2>3, <2>4, Zenon
<1>3. Len(pad) \in Nat /\ \A i \in 1..Len(pad) : pad[i] = "n"
  BY <1>1, PaddingHolds
<1>4. PICK w \in Seq(Y) : IsJoin(w, pad, <<"T">>)
  BY <1>2, Joined, Zenon
<1>5. /\ w = added /\ Len(w) = Len(pad) + 1 /\ w[Len(pad) + 1] = "T"
      /\ \A i \in 1..Len(pad) : w[i] = "n"
  BY <1>2, <1>3, <1>4 DEF IsJoin
<1>6. DOMAIN added = 1..(Len(pad) + 1)
  BY <1>5
<1>7. PICK S : S = {i \in DOMAIN added : added[i] # "n"}
  OBVIOUS
<1>8. S = {Len(pad) + 1}
  BY <1>3, <1>5, <1>6, <1>7
<1>9. Min(S) = Len(pad) + 1
  <2>1. S \in SUBSET Nat /\ S # {}
    BY <1>3, <1>8
  <2> QED
    BY <1>8, <2>1, LeastOf
<1>10. DropFront(pad \o <<"T">>, Len(pad)) = <<"T">>
  BY <1>2, Halves, Zenon
<1>11. Min(S) - 1 = Len(pad)
  BY <1>3, <1>9
<1> QED
  BY <1>7, <1>10, <1>11

LEMMA TomlAdded ==
    ASSUME NEW X, NEW t \in Seq(X), NoOwn(t), GroupEnd(t) = Len(t)
    PROVE  OneNewlineBeforeAnAppendedTable(t, TomlAppend(t)) = WithTable(t)
<1>1. CASE t = <<>>
  <2>1. TomlAppend(t) = <<"T">>
    <3>1. SubSeq(t, 1, 0) = <<>> /\ DropFront(t, 0) = <<>> /\ GroupEnd(t) = 0
      BY <1>1, SubSeqEmpty DEF DropFront
    <3>2. Padding(<<>>) = <<>>
      BY DEF Padding
    <3>3. <<>> \o <<>> \o <<"T">> \o <<>> = <<"T">>
      OBVIOUS
    <3> QED
      BY <1>1, <3>1, <3>2, <3>3, Zenon DEF TomlAppend
  <2> QED
    BY <1>1, <2>1 DEF OneNewlineBeforeAnAppendedTable, WithTable
<1>2. CASE t # <<>>
  <2>1. PICK Y : Y = X \cup {"n", "T"}
    OBVIOUS
  <2>2. t \in Seq(Y) /\ "n" \in Y /\ "T" \in Y /\ Len(t) \in Nat
    BY <2>1
  <2>3. PICK pad \in {<<>>, <<"n">>, <<"n", "n">>} : TomlAppend(t) = t \o pad \o <<"T">>
    BY <2>2, TomlAppended
  <2>a. pad \in Seq(Y) /\ <<"T">> \in Seq(Y)
    BY <2>2, PaddingHolds, OfOne, Zenon
  <2>4. PICK added \in Seq(Y) : added = pad \o <<"T">>
    <3>1. \A v \in Seq(Y), w \in Seq(Y) : v \o w \in Seq(Y)
      OBVIOUS
    <3> QED
      BY <2>a, <3>1, Zenon
  <2>5. TomlAppend(t) = t \o added
    <3>1. \A u \in Seq(Y), v \in Seq(Y), w \in Seq(Y) : u \o v \o w = u \o (v \o w)
      OBVIOUS
    <3> QED
      BY <2>2, <2>3, <2>4, <2>a, <3>1, Zenon
  <2>6. DropFront(t \o added, Len(t)) = added
    BY <2>2, <2>4, Halves, Zenon
  <2>7. IsPrefix(t, t \o added)
    <3>1. t \o added \in Seq(Y) /\ Begins(t \o added, t)
      BY <2>2, <2>4 DEF Begins
    <3> QED
      BY <2>2, <3>1, PrefixIs, Zenon
  <2>8. DropFront(added, Min({i \in DOMAIN added : added[i] # "n"}) - 1) = <<"T">>
    BY <2>4, NoNewline
  <2>9. OneNewlineBeforeAnAppendedTable(t, t \o added) = t \o <<"n">> \o <<"T">>
    BY <1>2, <2>6, <2>7, <2>8, Zenon DEF OneNewlineBeforeAnAppendedTable
  <2>10. t \o <<"n">> \o <<"T">> = Append(Append(t, "n"), "T")
    BY <2>2
  <2> QED
    BY <1>2, <2>5, <2>9, <2>10 DEF WithTable
<1> QED
  BY <1>1, <1>2

\* The deletion and the newline it takes back, at some place of what is left.
LEMMA Undone ==
    ASSUME NEW X, NEW t \in Seq(X), NEW rendered \in Seq(X)
    PROVE  LET prefix == CommonPrefix(t, rendered)
               limit == Min({Len(t), Len(rendered)}) - prefix
               suffix == CommonSuffix(t, rendered, limit)
           IN  /\ prefix \in 0..Len(rendered) /\ prefix <= Len(t) /\ limit \in Nat
               /\ SubSeq(t, 1, prefix) = SubSeq(rendered, 1, prefix)
               /\ \A n \in 0..Len(rendered) :
                     n <= Len(t) /\ SubSeq(t, 1, n) = SubSeq(rendered, 1, n) => n <= prefix
               /\ suffix \in 0..limit
<1>1. Len(t) \in Nat /\ Len(rendered) \in Nat
  OBVIOUS
<1>2. PICK least \in Nat : /\ least = Min({Len(t), Len(rendered)}) /\ least <= Len(t) /\ least <= Len(rendered)
                           /\ \A n \in Nat : n <= Len(t) /\ n <= Len(rendered) => n <= least
  <2>1. {Len(t), Len(rendered)} \in SUBSET Nat /\ {Len(t), Len(rendered)} # {}
    BY <1>1
  <2>2. PICK m : m = Min({Len(t), Len(rendered)})
    OBVIOUS
  <2>3. m \in {Len(t), Len(rendered)} /\ \A n \in {Len(t), Len(rendered)} : m <= n
    BY <2>1, <2>2, LeastOf, Zenon
  <2> QED
    BY <1>1, <2>2, <2>3
<1>3. PICK S \in SUBSET (0..least) : S = {n \in 0..least : SubSeq(t, 1, n) = SubSeq(rendered, 1, n)}
  OBVIOUS
<1>4. S # {}
  <2>1. SubSeq(t, 1, 0) = <<>> /\ SubSeq(rendered, 1, 0) = <<>>
    BY SubSeqEmpty
  <2>2. 0 \in S
    BY <1>3, <2>1
  <2> QED
    BY <2>2
<1>5. PICK prefix \in S : prefix = CommonPrefix(t, rendered) /\ \A n \in S : n <= prefix
  <2>1. CommonPrefix(t, rendered) = Max(S)
    BY <1>2, <1>3 DEF CommonPrefix
  <2>2. Max(S) \in S /\ \A n \in S : n <= Max(S)
    BY <1>4, MostOf
  <2> QED
    BY <2>1, <2>2
<1>6. PICK limit \in Nat : limit = least - prefix
  BY <1>3, <1>5
<1>7. CommonSuffix(t, rendered, limit) \in 0..limit
  <2>1. PICK R \in SUBSET (0..limit) :
          R = {n \in 0..limit : DropFront(t, Len(t) - n) = DropFront(rendered, Len(rendered) - n)}
    OBVIOUS
  <2>2. R # {}
    <3>1. DropFront(t, Len(t) - 0) = <<>> /\ DropFront(rendered, Len(rendered) - 0) = <<>>
      BY <1>1, SubSeqEmpty DEF DropFront
    <3>2. 0 \in R
      BY <2>1, <3>1
    <3> QED
      BY <3>2
  <2>3. Max(R) \in R
    BY <2>2, MostOf
  <2>4. CommonSuffix(t, rendered, limit) = Max(R)
    BY <2>1 DEF CommonSuffix
  <2> QED
    BY <2>3, <2>4
<1>8. ASSUME NEW n \in 0..Len(rendered), n <= Len(t), SubSeq(t, 1, n) = SubSeq(rendered, 1, n)
      PROVE  n <= prefix
  <2>1. n \in 0..least
    <3>1. n \in Nat /\ n <= Len(rendered)
      BY <1>1
    <3>2. n <= least
      BY <1>2, <1>8, <3>1, Zenon
    <3> QED
      BY <3>1, <3>2
  <2>2. n \in S
    BY <1>3, <1>8, <2>1
  <2> QED
    BY <1>5, <2>2
<1>9. prefix \in 0..Len(rendered) /\ prefix <= Len(t) /\ SubSeq(t, 1, prefix) = SubSeq(rendered, 1, prefix)
  BY <1>1, <1>2, <1>3, <1>5
<1> QED
  BY <1>2, <1>5, <1>6, <1>7, <1>8, <1>9, Zenon

\* What an install and a removal make of a text with at most one table of memriver's.
SameBut(r, t) == OneOwn(r) /\ Without(TomlDelete(r), Ends) = Without(TomlDelete(t), Ends)

LEMMA RoundtripKept ==
    ASSUME NEW Y, "n" \in Y, "T" \in Y, NEW t \in Seq(Y), OneOwn(t)
    PROVE  TomlRoundtrip(t) \in Seq(Y) /\ SameBut(TomlRoundtrip(t), t)
<1>1. CASE Contains(t, "T")
  BY <1>1 DEF TomlRoundtrip, SameBut
<1>2. CASE ~Contains(t, "T") /\ Contains(t, "O")
  <2>1. HasOwnTable(t)
    BY <1>2 DEF Contains, HasOwnTable, OwnTables
  <2>2. PICK u, v : u = BeforeOwnTable(t) /\ v = AfterOwnTable(t)
    OBVIOUS
  <2>3. u \in Seq(Y) /\ v \in Seq(Y) /\ NoOwn(u) /\ NoOwn(v) /\ StartsTable(v)
    BY <2>1, <2>2, TableParts
  <2>4. PICK r : r = u \o <<"T">> \o v
    OBVIOUS
  <2>5. r \in Seq(Y) /\ OneOwn(r) /\ TomlDelete(r) = u \o v
    <3>1. AreAround(Y, u, "T", v)
      BY <2>3 DEF AreAround, OwnTables
    <3>2. IsWith(r, Y, u, v)
      BY <2>4, <3>1, TableBetween, Zenon
    <3> QED
      BY <3>2 DEF IsWith
  <2>6. TomlRoundtrip(t) = r
    BY <1>2, <2>2, <2>4 DEF TomlRoundtrip, TomlReplace
  <2>7. TomlDelete(t) = u \o v
    BY <2>1, <2>2 DEF TomlDelete
  <2> QED
    BY <2>5, <2>6, <2>7 DEF SameBut
<1>3. CASE ~Contains(t, "T") /\ ~Contains(t, "O")
  <2>1. NoOwn(t)
    BY <1>3 DEF Contains, NoOwn, OwnTables
  <2>2. PICK r : r = TomlAppend(t)
    OBVIOUS
  <2>3. /\ r \in Seq(Y) /\ OneOwn(r) /\ Without(TomlDelete(r), Ends) = Without(t, Ends)
        /\ GroupEnd(t) < Len(t) => ~IsPrefix(t, r)
    BY <2>1, <2>2, TomlAppended
  <2>4. TomlDelete(t) = t
    BY <2>1, NoneIsOne
  <2>5. TomlRoundtrip(t) = OneNewlineBeforeAnAppendedTable(t, r)
    BY <1>3, <2>2 DEF TomlRoundtrip
  <2>6. CASE GroupEnd(t) < Len(t)
    <3>1. TomlRoundtrip(t) = r
      BY <2>3, <2>5, <2>6 DEF OneNewlineBeforeAnAppendedTable
    <3> QED
      BY <2>3, <2>4, <3>1 DEF SameBut
  <2>7. CASE GroupEnd(t) = Len(t)
    <3>1. TomlRoundtrip(t) = WithTable(t)
      BY <2>1, <2>2, <2>5, <2>7, TomlAdded
    <3>2. PICK gap \in {<<>>, <<"n">>} : WithTable(t) = t \o gap \o <<"T">> \o <<>>
      <4>1. CASE t = <<>>
        <5>1. WithTable(t) = <<"T">> /\ t \o <<>> \o <<"T">> \o <<>> = <<"T">>
          BY <4>1 DEF WithTable
        <5> QED
          BY <5>1
      <4>2. CASE t # <<>>
        <5>1. WithTable(t) = Append(Append(t, "n"), "T")
          BY <4>2 DEF WithTable
        <5>2. Append(Append(t, "n"), "T") = t \o <<"n">> \o <<"T">> \o <<>>
          OBVIOUS
        <5> QED
          BY <5>1, <5>2
      <4> QED
        BY <4>1, <4>2
    <3>3. /\ gap \in Seq(Y) /\ gap \in Seq({"n"}) /\ NoOwn(gap) /\ <<>> \in Seq(Y)
          /\ NoOwn(<<>>) /\ StartsTable(<<>>)
      <4>1. gap \in {<<>>, <<"n">>, <<"n", "n">>}
        OBVIOUS
      <4>2. gap \in Seq(Y) /\ gap \in Seq({"n"}) /\ NoOwn(gap)
        BY <4>1, PaddingHolds, Zenon
      <4>3. <<>> \in Seq(Y) /\ NoOwn(<<>>) /\ StartsTable(<<>>)
        BY DEF NoOwn, StartsTable
      <4> QED
        BY <4>2, <4>3, Zenon
    <3>4. NoOwn(t \o gap) /\ t \o gap \in Seq(Y)
      BY <2>1, <3>3, NoneJoined
    <3>5. PICK u \in Seq(Y) : u = t \o gap /\ NoOwn(u)
      BY <3>4
    <3>6. PICK w : w = WithTable(t)
      OBVIOUS
    <3>7. w \in Seq(Y) /\ OneOwn(w) /\ TomlDelete(w) = u \o <<>>
      <4>1. AreAround(Y, u, "T", <<>>)
        BY <3>3, <3>5 DEF AreAround, OwnTables
      <4>2. w = u \o <<"T">> \o <<>>
        BY <3>2, <3>5, <3>6, Zenon
      <4>3. IsWith(w, Y, u, <<>>)
        BY <4>1, <4>2, TableBetween, Zenon
      <4> QED
        BY <4>3 DEF IsWith
    <3>8. Without(u, Ends) = Without(t, Ends)
      <4>1. Without(u, Ends) = Without(t, Ends) \o Without(gap, Ends)
        BY <3>3, <3>5, WithoutConcat
      <4>2. Without(gap, Ends) = <<>>
        <5>1. {"n"} \subseteq Ends
          BY DEF Ends
        <5> QED
          BY <3>3, <5>1, WithoutAll
      <4>3. Without(t, Ends) \in Seq(Y \ Ends)
        BY WithoutTyped
      <4> QED
        BY <4>1, <4>2, <4>3
    <3>9. u \o <<>> = u
      OBVIOUS
    <3> QED
      BY <2>4, <3>1, <3>6, <3>7, <3>8, <3>9 DEF SameBut
  <2> QED
    BY <2>6, <2>7, GroupEndIs
<1> QED
  BY <1>1, <1>2, <1>3

LEMMA RemovalKept ==
    ASSUME NEW X, NEW t \in Seq(X), OneOwn(t)
    PROVE  TomlTableRemove(t) \in Seq(X) /\ SameBut(TomlTableRemove(t), t)
<1>0. \A u, v \in Seq(X) : Without(u \o v, Ends) = Without(u, Ends) \o Without(v, Ends)
  BY WithoutConcat
<1>4. PICK d : d = TomlDelete(t)
  OBVIOUS
<1>5. d \in Seq(X) /\ NoOwn(d)
  BY <1>4, TomlDeleted
<1>6. /\ UndoAddedNewline(t, d) \in Seq(X) /\ Without(UndoAddedNewline(t, d), Ends) = Without(d, Ends)
      /\ NoOwn(UndoAddedNewline(t, d))
  <2>1. PICK prefix : prefix = CommonPrefix(t, d)
    OBVIOUS
  <2>2. prefix \in 0..Len(d)
    BY <1>5, <2>1, Undone
  <2>3. PICK head \in Seq(X), rest \in Seq(X) :
          /\ head = SubSeq(d, 1, prefix) /\ rest = DropFront(d, prefix) /\ d = head \o rest
          /\ NoOwn(head) /\ NoOwn(rest)
    <3>1. /\ SubSeq(d, 1, prefix) \in Seq(X) /\ DropFront(d, prefix) \in Seq(X)
          /\ d = SubSeq(d, 1, prefix) \o DropFront(d, prefix)
          /\ Len(SubSeq(d, 1, prefix)) = prefix /\ \A i \in 1..prefix : SubSeq(d, 1, prefix)[i] = d[i]
          /\ Len(DropFront(d, prefix)) = Len(d) - prefix
          /\ \A i \in 1..(Len(d) - prefix) : DropFront(d, prefix)[i] = d[prefix + i]
      BY <1>5, <2>2, SplitAt, Zenon
    <3>2. NoOwn(SubSeq(d, 1, prefix))
      BY <1>5, <2>2, <3>1 DEF NoOwn
    <3>3. NoOwn(DropFront(d, prefix))
      <4>1. \A i \in 1..(Len(d) - prefix) : prefix + i \in 1..Len(d)
        BY <1>5, <2>2
      <4> QED
        BY <1>5, <3>1, <4>1 DEF NoOwn
    <3> QED
      BY <3>1, <3>2, <3>3, Zenon
  <2>4. \/ UndoAddedNewline(t, d) = d
        \/ EndsLine(head) /\ UndoAddedNewline(t, d) = WithoutOneTrailingNewline(head) \o rest
    BY <2>1, <2>3, Zenon DEF UndoAddedNewline
  <2>5. CASE EndsLine(head) /\ UndoAddedNewline(t, d) = WithoutOneTrailingNewline(head) \o rest
    <3>1. PICK trimmed \in Seq(X) :
            trimmed = WithoutOneTrailingNewline(head) /\ Without(trimmed, Ends) = Without(head, Ends)
      <4>1. {"n", "r"} \subseteq Ends
        BY DEF Ends
      <4> QED
        BY <2>5, <4>1, TrimKept
    <3>2. NoOwn(trimmed)
      <4>1. PICK m \in 1..Len(head) : trimmed = Drop(head, m)
        BY <2>5, <3>1, TrimIs
      <4>2. Len(head) - m \in 0..Len(head) /\ trimmed = SubSeq(head, 1, Len(head) - m)
        BY <4>1 DEF Drop
      <4>3. Len(trimmed) = Len(head) - m /\ \A i \in 1..(Len(head) - m) : trimmed[i] = head[i] /\ i \in 1..Len(head)
        <5>1. /\ Len(SubSeq(head, 1, Len(head) - m)) = Len(head) - m
              /\ \A i \in 1..(Len(head) - m) : SubSeq(head, 1, Len(head) - m)[i] = head[i]
          <6>1. head \in Seq(X) /\ Len(head) - m \in 0..Len(head)
            BY <2>3, <4>2
          <6> QED
            BY <6>1, SplitAt
        <5>2. \A i \in 1..(Len(head) - m) : i \in 1..Len(head)
          BY <4>1
        <5> QED
          BY <4>2, <5>1, <5>2, Zenon
      <4> QED
        BY <2>3, <4>3 DEF NoOwn
    <3>3. /\ Without(trimmed \o rest, Ends) = Without(trimmed, Ends) \o Without(rest, Ends)
          /\ Without(head \o rest, Ends) = Without(head, Ends) \o Without(rest, Ends)
      BY <1>0, <2>3, <3>1, Zenon
    <3>4. trimmed \o rest \in Seq(X) /\ NoOwn(trimmed \o rest)
      BY <2>3, <3>2, NoneJoined
    <3> QED
      BY <2>3, <2>5, <3>1, <3>3, <3>4
  <2> QED
    BY <1>5, <2>4, <2>5
<1>7. TomlTableRemove(t) = t \/ TomlTableRemove(t) = UndoAddedNewline(t, d)
  BY <1>4 DEF TomlTableRemove
<1>8. OneOwn(UndoAddedNewline(t, d)) /\ TomlDelete(UndoAddedNewline(t, d)) = UndoAddedNewline(t, d)
  BY <1>6, NoneIsOne
<1> QED
  BY <1>4, <1>6, <1>7, <1>8 DEF SameBut

\* A text that had no table, gets it at its end and does not end in a bare carriage
\* return is that text again without it.
LEMMA TomlBack ==
    ASSUME NEW X, NEW t \in Seq(X), ~Own(t), ~BareReturn(t), GroupEnd(t) = Len(t)
    PROVE  /\ TomlRoundtrip(t) = WithTable(t) /\ TomlRoundtrip(WithTable(t)) = WithTable(t)
           /\ TomlTableRemove(t) = t /\ TomlTableRemove(WithTable(t)) = t
<1>1. PICK n \in Nat : n = Len(t)
  OBVIOUS
<1>2. PICK Y : Y = X \cup {"T", "n"}
  OBVIOUS
<1>3. t \in Seq(Y) /\ NoOwn(t)
  BY <1>1, <1>2 DEF Own, NoOwn, OwnTables
<1>a. \A u \in Seq(Y) : Append(u, "n") \in Seq(Y) /\ Append(u, "T") \in Seq(Y)
  BY <1>2
<1>5. TomlRoundtrip(t) = WithTable(t)
  <2>1. ~Contains(t, "T") /\ ~Contains(t, "O")
    BY <1>1, <1>3 DEF Contains, NoOwn, OwnTables
  <2> QED
    BY <1>3, <2>1, TomlAdded DEF TomlRoundtrip
<1>6. TomlRoundtrip(WithTable(t)) = WithTable(t)
  <2>1. Contains(WithTable(t), "T")
    <3>1. CASE t = <<>>
      BY <3>1 DEF WithTable, Contains
    <3>2. CASE t # <<>>
      <4>1. PICK d \in Seq(Y) : d = Append(t, "n")
        BY <1>3, <1>a, Zenon
      <4>2. Len(d) + 1 \in DOMAIN Append(d, "T") /\ Append(d, "T")[Len(d) + 1] = "T"
        OBVIOUS
      <4> QED
        BY <3>2, <4>1, <4>2 DEF WithTable, Contains
    <3> QED
      BY <3>1, <3>2
  <2> QED
    BY <2>1 DEF TomlRoundtrip
<1>7. TomlDelete(t) = t
  BY <1>3, NoneIsOne
<1>8. TomlTableRemove(t) = t
  BY <1>7 DEF TomlTableRemove
<1>b. ASSUME NEW u \in Seq(Y), NoOwn(u) PROVE TomlDelete(u \o <<"T">>) = u
  <2>1. NoOwn(<<>>) /\ StartsTable(<<>>) /\ <<>> \in Seq(Y) /\ "T" \in OwnTables /\ "T" \in Y
    BY <1>2 DEF NoOwn, StartsTable, OwnTables
  <2>2. PICK w : w = u \o <<"T">> \o <<>>
    OBVIOUS
  <2>3. TomlDelete(w) = u \o <<>>
    <3>1. AreAround(Y, u, "T", <<>>)
      BY <1>b, <2>1 DEF AreAround
    <3>2. IsWith(w, Y, u, <<>>)
      BY <2>2, <3>1, TableBetween, Zenon
    <3> QED
      BY <3>2 DEF IsWith
  <2>4. u \o <<"T">> \in Seq(Y)
    BY <2>1
  <2>5. w = u \o <<"T">> /\ u \o <<>> = u
    BY <2>2, <2>4
  <2> QED
    BY <2>3, <2>5
<1>9. TomlTableRemove(WithTable(t)) = t
  <2>1. CASE t = <<>>
    <3>1. TomlDelete(<<"T">>) = <<>>
      <4>1. <<>> \o <<"T">> = <<"T">>
        OBVIOUS
      <4> QED
        BY <1>3, <1>b, <2>1, <4>1
    <3>2. UndoAddedNewline(<<"T">>, <<>>) = <<>>
      <4>1. <<"T">> \in Seq({"T"}) /\ <<>> \in Seq({"T"}) /\ Len(<<>>) = 0
        OBVIOUS
      <4>2. CommonPrefix(<<"T">>, <<>>) \in 0..Len(<<>>)
        BY <4>1, Undone, Zenon
      <4>3. SubSeq(<<>>, 1, CommonPrefix(<<"T">>, <<>>)) = <<>>
        BY <4>1, <4>2, SubSeqEmpty
      <4> QED
        BY <4>3 DEF UndoAddedNewline, EndsLine
    <3>3. <<>> # <<"T">>
      OBVIOUS
    <3> QED
      BY <2>1, <3>1, <3>2, <3>3 DEF TomlTableRemove, WithTable
  <2>2. CASE t # <<>>
    <3>1. PICK d \in Seq(Y) : d = Append(t, "n")
      BY <1>3, <1>a, Zenon
    <3>2. PICK w \in Seq(Y) : w = Append(d, "T")
      BY <1>a, <3>1, Zenon
    <3>3. /\ Len(d) = n + 1 /\ Len(w) = n + 2 /\ d[n + 1] = "n" /\ n # 0
          /\ \A i \in 1..n : d[i] = t[i]
      BY <1>1, <1>3, <2>2, <3>1, <3>2
    <3>4. TomlDelete(w) = d
      <4>1. NoOwn(d)
        <5>1. \A i \in 1..Len(d) : i \in 1..n \/ d[i] = "n"
          BY <3>3
        <5> QED
          BY <1>1, <1>3, <3>3, <5>1 DEF NoOwn, OwnTables
      <4>2. w = d \o <<"T">>
        BY <1>2, <3>2, AppendIsConcat
      <4> QED
        BY <1>b, <4>1, <4>2
    <3>5. w # d
      BY <3>3
    <3>6. PICK prefix, limit, suffix :
            /\ prefix = CommonPrefix(w, d) /\ limit = Min({Len(w), Len(d)}) - prefix
            /\ suffix = CommonSuffix(w, d, limit)
      OBVIOUS
    <3>7. SubSeq(w, 1, n + 1) = d /\ SubSeq(d, 1, n + 1) = d
      <4>1. w = d \o <<"T">> /\ <<"T">> \in Seq(Y)
        BY <1>2, <3>2, AppendIsConcat
      <4>2. SubSeq(d \o <<"T">>, 1, Len(d)) = d
        BY <4>1, Halves, Zenon
      <4>3. SubSeq(d, 1, Len(d)) = d
        BY SubSeqFull
      <4> QED
        BY <3>3, <4>1, <4>2, <4>3
    <3>8. prefix = n + 1 /\ limit \in Nat /\ suffix \in 0..limit
      <4>1. /\ prefix \in 0..Len(d) /\ limit \in Nat /\ suffix \in 0..limit
            /\ \A m \in 0..Len(d) : m <= Len(w) /\ SubSeq(w, 1, m) = SubSeq(d, 1, m) => m <= prefix
        BY <3>6, Undone, Zenon
      <4>2. n + 1 \in 0..Len(d) /\ n + 1 <= Len(w)
        BY <3>3
      <4> QED
        BY <3>3, <3>7, <4>1, <4>2
    <3>9. suffix = 0
      <4>1. Min({Len(w), Len(d)}) = n + 1
        <5>1. {n + 2, n + 1} \in SUBSET Nat /\ {n + 2, n + 1} # {}
          OBVIOUS
        <5>2. Min({n + 2, n + 1}) \in {n + 2, n + 1} /\ \A m \in {n + 2, n + 1} : Min({n + 2, n + 1}) <= m
          BY <5>1, LeastOf, Zenon
        <5> QED
          BY <3>3, <5>2
      <4> QED
        BY <3>6, <3>8, <4>1
    <3>10. EndsLine(d)
      BY <3>3 DEF EndsLine, Last
    <3>11. UndoAddedNewline(w, d) = WithoutOneTrailingNewline(d) \o DropFront(d, n + 1)
      <4>1. UndoAddedNewline(w, d) =
              IF prefix + suffix = Len(d) /\ EndsLine(SubSeq(d, 1, prefix)) /\ ~ShareHeader(w, d, prefix)
              THEN WithoutOneTrailingNewline(SubSeq(d, 1, prefix)) \o DropFront(d, prefix) ELSE d
        BY <3>6, Zenon DEF UndoAddedNewline
      <4>2. prefix + suffix = Len(d) /\ SubSeq(d, 1, prefix) = d /\ prefix = n + 1
        BY <3>3, <3>7, <3>8, <3>9
      <4>3. ~ShareHeader(w, d, prefix)
        BY <3>3, <4>2 DEF ShareHeader
      <4> QED
        BY <3>10, <4>1, <4>2, <4>3
    <3>12. WithoutOneTrailingNewline(d) = t
      <4>1. PICK k \in 1..Len(d) : WithoutOneTrailingNewline(d) = Drop(d, k) /\ (k = 1 \/ (k = 2 /\ d[Len(d) - 1] = "r"))
        BY <3>10, TrimIs
      <4>2. d[Len(d) - 1] # "r"
        <5>1. t[n] # "r"
          BY <1>1, <2>2 DEF BareReturn, Last
        <5> QED
          BY <3>3, <5>1
      <4>3. d = t \o <<"n">> /\ <<"n">> \in Seq(Y)
        BY <1>2, <1>3, <3>1, AppendIsConcat
      <4>4. SubSeq(t \o <<"n">>, 1, Len(t)) = t
        BY <1>3, <4>3, Halves, Zenon
      <4>5. Drop(d, 1) = SubSeq(d, 1, n)
        BY <3>3 DEF Drop
      <4> QED
        BY <1>1, <4>1, <4>2, <4>3, <4>4, <4>5
    <3>13. DropFront(d, n + 1) = <<>>
      BY <3>3, SubSeqEmpty DEF DropFront
    <3>14. t \o <<>> = t
      OBVIOUS
    <3> QED
      BY <2>2, <3>1, <3>2, <3>4, <3>5, <3>11, <3>12, <3>13, <3>14 DEF TomlTableRemove, WithTable
  <2> QED
    BY <2>1, <2>2
<1> QED
  BY <1>5, <1>6, <1>8, <1>9
-----------------------------------------------------------------------------
(* A managed block *)

Markers == {"B", "E"}
\* Where the markers of a text are, the block is.
Spanning(begins, ends) ==
    IF \/ Cardinality(begins) > 1
       \/ Cardinality(begins) # Cardinality(ends)
       \/ \E i \in begins, j \in ends : i > j
    THEN Refused
    ELSE IF begins = {} THEN <<>>
    ELSE <<CHOOSE i \in begins : TRUE, CHOOSE j \in ends : TRUE>>

LEMMA SpanBy ==
    ASSUME NEW t
    PROVE  MarkerSpan(t) = Spanning(Positions(t, "B"), Positions(t, "E"))
BY Zenon DEF MarkerSpan, Spanning

\* At most one of something, and no more of it than of another.
LEMMA Single ==
    ASSUME NEW n \in Nat, NEW S \in SUBSET (1..n)
    PROVE  /\ Cardinality(S) \in Nat
           /\ Cardinality(S) = 0 <=> S = {}
           /\ Cardinality(S) = 1 <=> \E i \in 1..n : S = {i}
<1>1. IsFiniteSet(1..n)
  BY FS_Interval
<1>2. IsFiniteSet(S)
  BY <1>1, FS_Subset
<1>3. Cardinality(S) \in Nat
  BY <1>2, FS_CardinalityType
<1>4. Cardinality(S) = 0 <=> S = {}
  BY <1>2, FS_EmptySet
<1>5. Cardinality(S) = 1 <=> \E x : S = {x}
  BY <1>2, FS_Singleton
<1>6. \A x : S = {x} => x \in 1..n
  OBVIOUS
<1> QED
  BY <1>3, <1>4, <1>5, <1>6

\* The block is refused, missing, or between its two markers.
SpanAt(t, b, e) ==
    /\ t[b] = "B" /\ t[e] = "E" /\ b < e
    /\ \A i \in 1..Len(t) : (t[i] = "B" => i = b) /\ (t[i] = "E" => i = e)

LEMMA SpanCases ==
    ASSUME NEW X, NEW t \in Seq(X)
    PROVE  \/ MarkerSpan(t) = Refused
           \/ MarkerSpan(t) = <<>> /\ \A i \in 1..Len(t) : t[i] \notin Markers
           \/ \E b, e \in 1..Len(t) : MarkerSpan(t) = <<b, e>> /\ SpanAt(t, b, e)
<1>1. PICK n \in Nat : n = Len(t) /\ DOMAIN t = 1..n
  OBVIOUS
<1>2. PICK begins \in SUBSET (1..n), ends \in SUBSET (1..n) :
        /\ begins = Positions(t, "B") /\ ends = Positions(t, "E")
  BY <1>1 DEF Positions
<1>3. /\ \A i \in 1..n : i \in begins <=> t[i] = "B"
      /\ \A i \in 1..n : i \in ends <=> t[i] = "E"
  BY <1>1, <1>2 DEF Positions
<1>4. /\ Cardinality(begins) \in Nat
      /\ Cardinality(begins) = 0 <=> begins = {}
      /\ Cardinality(begins) = 1 <=> \E i \in 1..n : begins = {i}
      /\ Cardinality(ends) = 0 <=> ends = {}
      /\ Cardinality(ends) = 1 <=> \E i \in 1..n : ends = {i}
  BY Single
<1> SUFFICES ASSUME MarkerSpan(t) # Refused
             PROVE  \/ MarkerSpan(t) = <<>> /\ \A i \in 1..Len(t) : t[i] \notin Markers
                    \/ \E b, e \in 1..Len(t) : MarkerSpan(t) = <<b, e>> /\ SpanAt(t, b, e)
  OBVIOUS
<1>5. /\ ~(Cardinality(begins) > 1) /\ Cardinality(begins) = Cardinality(ends)
      /\ ~\E i \in begins, j \in ends : i > j
      /\ MarkerSpan(t) = IF begins = {} THEN <<>>
                         ELSE <<CHOOSE i \in begins : TRUE, CHOOSE j \in ends : TRUE>>
  <2>1. MarkerSpan(t) = Spanning(begins, ends)
    BY <1>2, SpanBy
  <2> QED
    BY <2>1 DEF Spanning
<1>6. CASE begins = {}
  <2>1. ends = {}
    BY <1>4, <1>5, <1>6
  <2> QED
    BY <1>1, <1>3, <1>5, <1>6, <2>1 DEF Markers
<1>7. CASE begins # {}
  <2>1. PICK b \in 1..n, e \in 1..n : begins = {b} /\ ends = {e}
    <3>1. Cardinality(begins) = 1
      <4>1. Cardinality(begins) \in Nat /\ Cardinality(begins) # 0 /\ ~(Cardinality(begins) > 1)
        BY <1>4, <1>5, <1>7, Zenon
      <4> QED
        BY <4>1
    <3> QED
      BY <1>4, <1>5, <3>1, Zenon
  <2>2. MarkerSpan(t) = <<b, e>>
    BY <1>5, <2>1
  <2>3. t[b] = "B" /\ t[e] = "E"
    BY <1>3, <2>1
  <2>4. b < e
    <3>1. ~(b > e)
      BY <1>5, <2>1
    <3>2. b # e
      BY <2>3
    <3> QED
      BY <3>1, <3>2
  <2> QED
    BY <1>1, <1>3, <2>1, <2>2, <2>3, <2>4 DEF SpanAt
<1> QED
  BY <1>6, <1>7

LEMMA SpanIs ==
    ASSUME NEW X, NEW t \in Seq(X), NEW b \in 1..Len(t), NEW e \in 1..Len(t), SpanAt(t, b, e)
    PROVE  MarkerSpan(t) = <<b, e>>
<1>1. Positions(t, "B") = {b} /\ Positions(t, "E") = {e}
  BY DEF Positions, SpanAt
<1>2. Cardinality({b}) = 1 /\ Cardinality({e}) = 1
  BY FS_Singleton
<1>3. ~(b > e)
  BY DEF SpanAt
<1>4. PICK begins, ends : begins = Positions(t, "B") /\ ends = Positions(t, "E")
  OBVIOUS
<1>5. begins = {b} /\ ends = {e}
  BY <1>1, <1>4
<1>6. MarkerSpan(t) = Spanning(begins, ends)
  BY <1>4, SpanBy
<1>7. ~(Cardinality(begins) > 1) /\ Cardinality(begins) = Cardinality(ends) /\ begins # {}
  BY <1>2, <1>5
<1>8. ~\E i \in begins, j \in ends : i > j
  BY <1>3, <1>5
<1>9. (CHOOSE i \in begins : TRUE) = b /\ (CHOOSE j \in ends : TRUE) = e
  BY <1>5
<1> QED
  BY <1>6, <1>7, <1>8, <1>9 DEF Spanning

LEMMA SpanNone ==
    ASSUME NEW X, NEW t \in Seq(X), \A i \in 1..Len(t) : t[i] \notin Markers
    PROVE  MarkerSpan(t) = <<>>
<1>1. Positions(t, "B") = {} /\ Positions(t, "E") = {}
  BY DEF Positions, Markers
<1>2. Cardinality({}) = 0
  BY FS_EmptySet
<1>3. PICK begins, ends : begins = Positions(t, "B") /\ ends = Positions(t, "E")
  OBVIOUS
<1>4. begins = {} /\ ends = {}
  BY <1>1, <1>3
<1>5. MarkerSpan(t) = Spanning(begins, ends)
  BY <1>3, SpanBy
<1>6. ~(Cardinality(begins) > 1)
  BY <1>2, <1>4
<1> QED
  BY <1>4, <1>5, <1>6 DEF Spanning

Around(whole, a, body, c) == whole = a \o Block(body) \o c

BlockAt(whole, X, a, body, c) ==
    /\ whole \in Seq(X \cup {"B", body, "E"})
    /\ MarkerSpan(whole) = <<Len(a) + 1, Len(a) + 3>>
    /\ SubSeq(whole, 1, (Len(a) + 1) - 1) = a
    /\ DropFront(whole, Len(a) + 3) = c

\* A block put between two texts without markers is found there.
LEMMA SpanOf ==
    ASSUME NEW X, NEW a \in Seq(X), NEW c \in Seq(X), "B" \notin X, "E" \notin X, NEW body, body \notin Markers,
           NEW whole, Around(whole, a, body, c)
    PROVE  BlockAt(whole, X, a, body, c)
<1>1. PICK Y : Y = X \cup {"B", body, "E"}
  OBVIOUS
<1>2. PICK block \in Seq(Y) : /\ block = Block(body) /\ Len(block) = 3
                              /\ block[1] = "B" /\ block[2] = body /\ block[3] = "E"
  <2>1. <<"B", body, "E">> \in Seq(Y)
    BY <1>1
  <2>2. Block(body) = <<"B", body, "E">>
    BY DEF Block
  <2>3. PICK block \in Seq(Y) : block = <<"B", body, "E">>
    BY <2>1
  <2> QED
    BY <2>2, <2>3
<1>4. a \in Seq(Y) /\ c \in Seq(Y)
  BY <1>1
<1>5. PICK m \in Nat, k \in Nat : m = Len(a) /\ k = Len(c)
  OBVIOUS
<1>6. PICK u \in Seq(Y) : IsJoin(u, a, block)
  BY <1>4, Joined, Zenon
<1>7. /\ Len(u) = m + 3 /\ \A i \in 1..m : u[i] = a[i]
      /\ u[m + 1] = "B" /\ u[m + 2] = body /\ u[m + 3] = "E"
  BY <1>2, <1>5, <1>6 DEF IsJoin
<1>8. PICK t \in Seq(Y) : IsJoin(t, u, c)
  BY <1>4, Joined, Zenon
<1>9. /\ Len(t) = m + 3 + k /\ \A i \in 1..(m + 3) : t[i] = u[i]
      /\ \A i \in 1..k : t[m + 3 + i] = c[i]
  BY <1>5, <1>7, <1>8 DEF IsJoin
<1>10. SpanAt(t, m + 1, m + 3)
  <2>1. t[m + 1] = "B" /\ t[m + 3] = "E" /\ m + 1 < m + 3
    BY <1>7, <1>9
  <2>2. ASSUME NEW i \in 1..Len(t) PROVE (t[i] = "B" => i = m + 1) /\ (t[i] = "E" => i = m + 3)
    <3>1. CASE i \in 1..m
      <4>1. t[i] = a[i] /\ a[i] \in X
        BY <1>5, <1>7, <1>9, <3>1
      <4> QED
        BY <4>1
    <3>2. CASE i = m + 1 \/ i = m + 2 \/ i = m + 3
      BY <1>7, <1>9, <3>2 DEF Markers
    <3>3. CASE i > m + 3
      <4>1. PICK j \in 1..k : i = m + 3 + j
        BY <1>9, <3>3
      <4>2. t[i] = c[j] /\ c[j] \in X
        BY <1>5, <1>9, <4>1
      <4> QED
        BY <4>2
    <3> QED
      BY <1>9, <3>1, <3>2, <3>3
  <2> QED
    BY <2>1, <2>2 DEF SpanAt
<1>11. MarkerSpan(t) = <<m + 1, m + 3>>
  <2>1. m + 1 \in 1..Len(t) /\ m + 3 \in 1..Len(t)
    BY <1>9
  <2> QED
    BY <1>10, <2>1, SpanIs
<1>12. SubSeq(t, 1, m) = a
  <2>1. PICK h \in Seq(Y) : h = SubSeq(t, 1, m) /\ Len(h) = m /\ \A i \in 1..m : h[i] = t[i]
    <3>1. \A n \in 0..Len(t) : /\ SubSeq(t, 1, n) \in Seq(Y) /\ Len(SubSeq(t, 1, n)) = n
                              /\ \A i \in 1..n : SubSeq(t, 1, n)[i] = t[i]
      BY SplitAt, Zenon
    <3>2. m \in 0..Len(t)
      BY <1>9
    <3> QED
      BY <3>1, <3>2, Zenon
  <2>2. Len(h) = Len(a) /\ \A i \in 1..Len(h) : h[i] = a[i]
    BY <1>5, <1>7, <1>9, <2>1
  <2> QED
    BY <1>4, <2>1, <2>2, SeqEqual
<1>13. DropFront(t, m + 3) = c
  <2>1. DropFront(u \o c, Len(u)) = c
    BY <1>4, Halves, Zenon
  <2> QED
    BY <1>7, <1>8, <2>1 DEF IsJoin
<1>14. t = whole
  BY <1>2, <1>6, <1>8 DEF IsJoin, Around
<1> QED
  BY <1>1, <1>5, <1>11, <1>12, <1>13, <1>14 DEF BlockAt

\* What of a text is outside the block.
Outside(t) ==
    LET span == MarkerSpan(t) IN
    IF span \in {Refused, <<>>} THEN t ELSE SubSeq(t, 1, span[1] - 1) \o DropFront(t, span[2])

\* A span is neither a refusal nor the lack of one.
LEMMA NotRefused ==
    \A b, e \in Nat : <<b, e>> # Refused /\ <<b, e>> # <<>> /\ <<>> # Refused
<1>1. ASSUME NEW b \in Nat, NEW e \in Nat PROVE <<b, e>> \in Seq(Nat) /\ <<b, e>> # <<>>
  OBVIOUS
<1>2. <<>> \in Seq(Nat)
  OBVIOUS
<1> QED
  BY <1>1, <1>2, RefusedAssumption

LEMMA OutsideIs ==
    ASSUME NEW t, NEW b \in Nat, NEW e \in Nat, MarkerSpan(t) = <<b, e>>
    PROVE  Outside(t) = SubSeq(t, 1, b - 1) \o DropFront(t, e)
<1>1. PICK span : span = MarkerSpan(t)
  OBVIOUS
<1>2. span \notin {Refused, <<>>} /\ span[1] = b /\ span[2] = e
  BY <1>1, NotRefused
<1> QED
  BY <1>1, <1>2 DEF Outside

\* The two sides of a block have no marker.
LEMMA Sides ==
    ASSUME NEW X, NEW t \in Seq(X), NEW b \in 1..Len(t), NEW e \in 1..Len(t), SpanAt(t, b, e)
    PROVE  \E a, c \in Seq(X \ Markers) : a = SubSeq(t, 1, b - 1) /\ c = DropFront(t, e)
<1>1. PICK n \in 0..Len(t) : n = b - 1
  OBVIOUS
<1>2. \A m \in 0..Len(t) :
        /\ SubSeq(t, 1, m) \in Seq(X) /\ Len(SubSeq(t, 1, m)) = m
        /\ \A i \in 1..m : SubSeq(t, 1, m)[i] = t[i]
        /\ DropFront(t, m) \in Seq(X) /\ Len(DropFront(t, m)) = Len(t) - m
        /\ \A i \in 1..(Len(t) - m) : DropFront(t, m)[i] = t[m + i]
  BY SplitAt, Zenon
<1>3. PICK a \in Seq(X) : a = SubSeq(t, 1, n) /\ Len(a) = n /\ \A i \in 1..n : a[i] = t[i]
  BY <1>2, Zenon
<1>4. PICK c \in Seq(X) : /\ c = DropFront(t, e) /\ Len(c) = Len(t) - e
                          /\ \A i \in 1..(Len(t) - e) : c[i] = t[e + i]
  <2>1. e \in 0..Len(t)
    OBVIOUS
  <2> QED
    BY <1>2, <2>1, Zenon
<1>5. ASSUME NEW i \in 1..Len(t), i < b \/ i > e PROVE t[i] \notin Markers
  BY <1>5 DEF SpanAt, Markers
<1>6. a \in Seq(X \ Markers)
  <2>1. ASSUME NEW i \in 1..n PROVE a[i] \in X \ Markers
    <3>1. i \in 1..Len(t) /\ i < b
      BY <1>1
    <3> QED
      BY <1>3, <1>5, <3>1
  <2>2. \A i \in 1..Len(a) : a[i] \in X \ Markers
    BY <1>3, <2>1
  <2> QED
    BY <2>2, Narrowed
<1>7. c \in Seq(X \ Markers)
  <2>1. ASSUME NEW i \in 1..(Len(t) - e) PROVE c[i] \in X \ Markers
    <3>1. e + i \in 1..Len(t) /\ e + i > e
      OBVIOUS
    <3> QED
      BY <1>4, <1>5, <3>1
  <2>2. \A i \in 1..Len(c) : c[i] \in X \ Markers
    BY <1>4, <2>1
  <2> QED
    BY <2>2, Narrowed
<1> QED
  BY <1>1, <1>3, <1>4, <1>6, <1>7

WithBlock(t) == t \o (IF t = <<>> THEN <<>> ELSE <<"n">>) \o Block(Current) \o <<"n">>

BlockAfter(X, t, a) ==
    /\ a = IF t = <<>> THEN <<>> ELSE Append(t, "n")
    /\ WithBlock(t) = a \o Block(Current) \o <<"n">>
    /\ WithBlock(t) \in Seq(X \cup {"B", Current, "E", "n"})
    /\ MarkerSpan(WithBlock(t)) = <<Len(a) + 1, Len(a) + 3>>
    /\ SubSeq(WithBlock(t), 1, (Len(a) + 1) - 1) = a
    /\ DropFront(WithBlock(t), Len(a) + 3) = <<"n">>

\* The block put after a text without markers.
LEMMA BlockAdded ==
    ASSUME NEW X, NEW t \in Seq(X), \A i \in 1..Len(t) : t[i] \notin Markers
    PROVE  \E a \in Seq((X \ Markers) \cup {"n"}) : BlockAfter(X, t, a)
<1>1. PICK Z : Z = (X \ Markers) \cup {"n"}
  OBVIOUS
<1>2. "n" \in Z /\ "B" \notin Z /\ "E" \notin Z /\ Current \notin Markers
  BY <1>1 DEF Markers, Current
<1>3. t \in Seq(Z)
  BY <1>1
<1>4. PICK a \in Seq(Z) : /\ a = IF t = <<>> THEN <<>> ELSE Append(t, "n")
                          /\ a = t \o (IF t = <<>> THEN <<>> ELSE <<"n">>)
  <2>1. CASE t = <<>>
    <3>1. t \o <<>> = t
      OBVIOUS
    <3> QED
      BY <1>3, <2>1, <3>1
  <2>2. CASE t # <<>>
    <3>1. Append(t, "n") \in Seq(Z) /\ Append(t, "n") = t \o <<"n">>
      BY <1>2, <1>3, AppendIsConcat
    <3> QED
      BY <2>2, <3>1
  <2> QED
    BY <2>1, <2>2
<1>5. PICK c \in Seq(Z) : c = <<"n">>
  BY <1>2, OfOne, Zenon
<1>6. PICK w : w = a \o Block(Current) \o c
  OBVIOUS
<1>7. WithBlock(t) = w
  BY <1>4, <1>5, <1>6 DEF WithBlock
<1>8. /\ w \in Seq(Z \cup {"B", Current, "E"})
      /\ MarkerSpan(w) = <<Len(a) + 1, Len(a) + 3>>
      /\ SubSeq(w, 1, (Len(a) + 1) - 1) = a
      /\ DropFront(w, Len(a) + 3) = c
  <2>1. Around(w, a, Current, c)
    BY <1>6 DEF Around
  <2> QED
    <3>1. BlockAt(w, Z, a, Current, c)
      BY <1>2, <1>4, <1>5, <2>1, SpanOf, Zenon
    <3> QED
      BY <3>1 DEF BlockAt
<1>9. w \in Seq(X \cup {"B", Current, "E", "n"})
  <2>1. Z \cup {"B", Current, "E"} \subseteq X \cup {"B", Current, "E", "n"}
    BY <1>1
  <2> QED
    BY <1>8, <2>1
<1> QED
  BY <1>1, <1>4, <1>5, <1>6, <1>7, <1>8, <1>9 DEF BlockAfter

\* What is outside the block goes through putting one in, line ends left aside.
LEMMA BlockKept ==
    ASSUME NEW X, NEW t \in Seq(X), MarkerSpan(t) # Refused
    PROVE  /\ MarkerBlock(t) \in Seq(X \cup {"B", Current, "E", "n"})
           /\ Without(Outside(MarkerBlock(t)), Ends) = Without(Outside(t), Ends)
<1>1. CASE MarkerSpan(t) = <<>> /\ \A i \in 1..Len(t) : t[i] \notin Markers
  <2>1. MarkerBlock(t) = WithBlock(t) /\ Outside(t) = t
    BY <1>1, NotRefused DEF MarkerBlock, WithBlock, Outside
  <2>2. PICK Z : Z = (X \ Markers) \cup {"n"}
    OBVIOUS
  <2>3. PICK a \in Seq(Z) :
          /\ a = IF t = <<>> THEN <<>> ELSE Append(t, "n")
          /\ WithBlock(t) \in Seq(X \cup {"B", Current, "E", "n"})
          /\ MarkerSpan(WithBlock(t)) = <<Len(a) + 1, Len(a) + 3>>
          /\ SubSeq(WithBlock(t), 1, (Len(a) + 1) - 1) = a
          /\ DropFront(WithBlock(t), Len(a) + 3) = <<"n">>
    <3>1. \E a \in Seq((X \ Markers) \cup {"n"}) : BlockAfter(X, t, a)
      BY <1>1, BlockAdded, Zenon
    <3>2. \E a \in Seq(Z) : BlockAfter(X, t, a)
      BY <2>2, <3>1
    <3> QED
      BY <3>2, Zenon DEF BlockAfter
  <2>4. Outside(WithBlock(t)) = a \o <<"n">>
    <3>1. Len(a) + 1 \in Nat /\ Len(a) + 3 \in Nat
      OBVIOUS
    <3> QED
      BY <2>3, <3>1, OutsideIs
  <2>5. a \o <<"n">> = Append(a, "n") /\ "n" \in Z /\ "n" \in Ends
    BY <2>2, AppendIsConcat DEF Ends
  <2>6. Without(Append(a, "n"), Ends) = Without(a, Ends)
    BY <2>5, WithoutAppend
  <2>7. Without(a, Ends) = Without(t, Ends)
    <3>1. CASE t = <<>>
      BY <2>3, <3>1
    <3>2. CASE t # <<>>
      <4>1. t \in Seq(X \cup {"n"})
        OBVIOUS
      <4>2. Without(Append(t, "n"), Ends) = Without(t, Ends)
        BY <2>5, <4>1, WithoutAppend
      <4> QED
        BY <2>3, <3>2, <4>2
    <3> QED
      BY <3>1, <3>2
  <2> QED
    BY <2>1, <2>3, <2>4, <2>5, <2>6, <2>7
<1>2. ASSUME NEW b \in 1..Len(t), NEW e \in 1..Len(t), MarkerSpan(t) = <<b, e>>, SpanAt(t, b, e)
      PROVE  /\ MarkerBlock(t) \in Seq(X \cup {"B", Current, "E", "n"})
             /\ Without(Outside(MarkerBlock(t)), Ends) = Without(Outside(t), Ends)
  <2>1. PICK Z : Z = X \ Markers
    OBVIOUS
  <2>2. PICK a \in Seq(Z), c \in Seq(Z) : a = SubSeq(t, 1, b - 1) /\ c = DropFront(t, e)
    BY <1>2, <2>1, Sides
  <2>3. PICK w : w = a \o Block(Current) \o c
    OBVIOUS
  <2>4. MarkerBlock(t) = w
    <3>1. PICK span : span = MarkerSpan(t)
      OBVIOUS
    <3>2. span # Refused /\ span # <<>> /\ span[1] = b /\ span[2] = e
      BY <1>2, <3>1, NotRefused
    <3>3. MarkerBlock(t) = SubSeq(t, 1, span[1] - 1) \o Block(Current) \o DropFront(t, span[2])
      BY <3>1, <3>2, Zenon DEF MarkerBlock
    <3> QED
      BY <2>2, <2>3, <3>2, <3>3
  <2>5. /\ w \in Seq(Z \cup {"B", Current, "E"})
        /\ MarkerSpan(w) = <<Len(a) + 1, Len(a) + 3>>
        /\ SubSeq(w, 1, (Len(a) + 1) - 1) = a
        /\ DropFront(w, Len(a) + 3) = c
    <3>1. "B" \notin Z /\ "E" \notin Z /\ Current \notin Markers
      BY <2>1 DEF Markers, Current
    <3> QED
      <4>1. Around(w, a, Current, c)
        BY <2>3 DEF Around
      <4>2. BlockAt(w, Z, a, Current, c)
        BY <2>2, <3>1, <4>1, SpanOf, Zenon
      <4> QED
        BY <4>2 DEF BlockAt
  <2>6. Outside(w) = a \o c
    <3>1. Len(a) + 1 \in Nat /\ Len(a) + 3 \in Nat
      OBVIOUS
    <3> QED
      BY <2>5, <3>1, OutsideIs
  <2>7. Outside(t) = a \o c
    <3>1. b \in Nat /\ e \in Nat
      OBVIOUS
    <3> QED
      BY <1>2, <2>2, <3>1, OutsideIs
  <2>8. w \in Seq(X \cup {"B", Current, "E", "n"})
    <3>1. Z \cup {"B", Current, "E"} \subseteq X \cup {"B", Current, "E", "n"}
      BY <2>1
    <3> QED
      BY <2>5, <3>1
  <2> QED
    BY <2>4, <2>6, <2>7, <2>8
<1> QED
  BY <1>1, <1>2, SpanCases

\* And through taking it out.
LEMMA BlockRemoveKept ==
    ASSUME NEW X, NEW t \in Seq(X), MarkerSpan(t) # Refused
    PROVE  /\ MarkerBlockRemove(t) \in Seq(X)
           /\ Without(Outside(MarkerBlockRemove(t)), Ends) = Without(Outside(t), Ends)
<1>1. CASE MarkerSpan(t) = <<>>
  BY <1>1 DEF MarkerBlockRemove
<1>2. ASSUME NEW b \in 1..Len(t), NEW e \in 1..Len(t), MarkerSpan(t) = <<b, e>>, SpanAt(t, b, e)
      PROVE  /\ MarkerBlockRemove(t) \in Seq(X)
             /\ Without(Outside(MarkerBlockRemove(t)), Ends) = Without(Outside(t), Ends)
  <2>1. PICK Z : Z = X \ Markers
    OBVIOUS
  <2>c. \A v, w \in Seq(Z) :
          /\ v \o w \in Seq(Z)
          /\ Without(v \o w, Ends) = Without(v, Ends) \o Without(w, Ends)
    <3>1. \A v, w \in Seq(Z) : Without(v \o w, Ends) = Without(v, Ends) \o Without(w, Ends)
      BY WithoutConcat
    <3>2. \A v, w \in Seq(Z) : v \o w \in Seq(Z)
      OBVIOUS
    <3> QED
      BY <3>1, <3>2, Zenon
  <2>2. PICK a \in Seq(Z), c \in Seq(Z) : a = SubSeq(t, 1, b - 1) /\ c = DropFront(t, e)
    BY <1>2, <2>1, Sides
  <2>3. \E kept, rest :
          /\ kept = a \/ (EndsLine(a) /\ kept = WithoutOneTrailingNewline(a))
          /\ rest = c \/ rest = WithoutOneLeadingNewline(c)
          /\ MarkerBlockRemove(t) = kept \o rest
    <3>1. PICK span : span = MarkerSpan(t)
      OBVIOUS
    <3>2. span \notin {Refused, <<>>} /\ span[1] = b /\ span[2] = e
      BY <1>2, <3>1, NotRefused
    <3>3. PICK trimmed, remainder : trimmed = WithoutOneTrailingNewline(a) /\ remainder = WithoutOneLeadingNewline(c)
      OBVIOUS
    <3>4. PICK kept : kept = IF /\ EndsLine(a)
                                /\ \/ c = <<>> \/ StartsLine(c)
                                   \/ trimmed = <<>> \/ EndsLine(trimmed)
                             THEN trimmed ELSE a
      OBVIOUS
    <3>5. PICK rest : rest = IF /\ StartsLine(c)
                                /\ \/ kept = <<>> \/ EndsLine(kept)
                                   \/ remainder = <<>> \/ StartsLine(remainder)
                             THEN remainder ELSE c
      OBVIOUS
    <3>6. MarkerBlockRemove(t) = kept \o rest
      BY <2>2, <3>1, <3>2, <3>3, <3>4, <3>5 DEF MarkerBlockRemove
    <3>7. kept = a \/ (EndsLine(a) /\ kept = WithoutOneTrailingNewline(a))
      BY <3>3, <3>4
    <3>8. rest = c \/ rest = WithoutOneLeadingNewline(c)
      BY <3>3, <3>5
    <3> QED
      BY <3>6, <3>7, <3>8
  <2>4. PICK kept, rest :
          /\ kept = a \/ (EndsLine(a) /\ kept = WithoutOneTrailingNewline(a))
          /\ rest = c \/ rest = WithoutOneLeadingNewline(c)
          /\ MarkerBlockRemove(t) = kept \o rest
    BY <2>3
  <2>5. {"n", "r"} \subseteq Ends
    BY DEF Ends
  <2>6. kept \in Seq(Z) /\ Without(kept, Ends) = Without(a, Ends)
    <3>1. EndsLine(a) => /\ WithoutOneTrailingNewline(a) \in Seq(Z)
                         /\ Without(WithoutOneTrailingNewline(a), Ends) = Without(a, Ends)
      BY <2>5, TrimKept
    <3> QED
      BY <2>4, <3>1
  <2>7. rest \in Seq(Z) /\ Without(rest, Ends) = Without(c, Ends)
    <3>1. /\ WithoutOneLeadingNewline(c) \in Seq(Z)
          /\ Without(WithoutOneLeadingNewline(c), Ends) = Without(c, Ends)
      BY <2>5, LeadKept
    <3> QED
      BY <2>4, <3>1
  <2>8. PICK u \in Seq(Z) : u = kept \o rest
    BY <2>6, <2>7, <2>c, Zenon
  <2>9. Without(u, Ends) = Without(a \o c, Ends)
    <3>2. Without(kept \o rest, Ends) = Without(kept, Ends) \o Without(rest, Ends)
      BY <2>6, <2>7, <2>c, Zenon
    <3>3. Without(a \o c, Ends) = Without(a, Ends) \o Without(c, Ends)
      BY <2>c, Zenon
    <3> QED
      BY <2>6, <2>7, <2>8, <3>2, <3>3
  <2>10. Outside(u) = u
    <3>1. \A i \in 1..Len(u) : u[i] \notin Markers
      BY <2>1
    <3>2. MarkerSpan(u) = <<>>
      BY <3>1, SpanNone
    <3> QED
      BY <3>2 DEF Outside
  <2>11. Outside(t) = a \o c
    <3>1. b \in Nat /\ e \in Nat
      OBVIOUS
    <3> QED
      BY <1>2, <2>2, <3>1, OutsideIs
  <2>12. u \in Seq(X)
    BY <2>1
  <2> QED
    BY <2>4, <2>8, <2>9, <2>10, <2>11, <2>12
<1> QED
  BY <1>1, <1>2, SpanCases

\* A text that had no block and does not end in a bare carriage return gets one and
\* is that text again without it.
LEMMA BlockBack ==
    ASSUME NEW X, NEW t \in Seq(X), ~Own(t), ~BareReturn(t), MarkerSpan(t) # Refused
    PROVE  /\ MarkerBlock(t) = WithBlock(t) /\ MarkerBlock(WithBlock(t)) = WithBlock(t)
           /\ MarkerBlockRemove(t) = t /\ MarkerBlockRemove(WithBlock(t)) = t
<1>1. MarkerSpan(t) = <<>> /\ \A i \in 1..Len(t) : t[i] \notin Markers
  <2>1. ASSUME NEW b \in 1..Len(t), NEW e \in 1..Len(t), SpanAt(t, b, e) PROVE FALSE
    BY <2>1 DEF SpanAt, Own
  <2> QED
    BY <2>1, SpanCases
<1>2. MarkerBlock(t) = WithBlock(t) /\ MarkerBlockRemove(t) = t
  BY <1>1, NotRefused DEF MarkerBlock, WithBlock, MarkerBlockRemove
<1>3. PICK Z : Z = (X \ Markers) \cup {"n"}
  OBVIOUS
<1>4. PICK a \in Seq(Z) :
        /\ a = IF t = <<>> THEN <<>> ELSE Append(t, "n")
        /\ WithBlock(t) = a \o Block(Current) \o <<"n">>
        /\ MarkerSpan(WithBlock(t)) = <<Len(a) + 1, Len(a) + 3>>
        /\ SubSeq(WithBlock(t), 1, (Len(a) + 1) - 1) = a
        /\ DropFront(WithBlock(t), Len(a) + 3) = <<"n">>
  <2>1. \E a \in Seq((X \ Markers) \cup {"n"}) : BlockAfter(X, t, a)
    BY <1>1, BlockAdded, Zenon
  <2>2. \E a \in Seq(Z) : BlockAfter(X, t, a)
    BY <1>3, <2>1
  <2> QED
    BY <2>2, Zenon DEF BlockAfter
<1>5. PICK span, w : span = MarkerSpan(w) /\ w = WithBlock(t)
  OBVIOUS
<1>6. span \notin {Refused, <<>>} /\ span[1] = Len(a) + 1 /\ span[2] = Len(a) + 3
  <2>1. Len(a) + 1 \in Nat /\ Len(a) + 3 \in Nat
    OBVIOUS
  <2> QED
    BY <1>4, <1>5, <2>1, NotRefused
<1>7. SubSeq(w, 1, span[1] - 1) = a /\ DropFront(w, span[2]) = <<"n">>
  BY <1>4, <1>5, <1>6
<1>8. MarkerBlock(w) = w
  BY <1>4, <1>5, <1>6, <1>7 DEF MarkerBlock
<1>9. StartsLine(<<"n">>) /\ WithoutOneLeadingNewline(<<"n">>) = <<>>
  <2>0. "n" \in {"n"}
    OBVIOUS
  <2>1. PICK c \in Seq({"n"}) : c = <<"n">>
    BY <2>0, OfOne, Zenon
  <2>2. IsPrefix(<<"n">>, c) /\ ~IsPrefix(<<"r", "n">>, c)
    <3>1. Len(c) = 1 /\ c[1] = "n"
      BY <2>1
    <3>2. /\ IsPrefix(<<"n">>, c) <=> Len(c) >= 1 /\ c[1] = "n"
          /\ IsPrefix(<<"r", "n">>, c) <=> Len(c) >= 2 /\ c[1] = "r" /\ c[2] = "n"
      BY StartsIs, Zenon
    <3> QED
      BY <3>1, <3>2
  <2>3. DropFront(c, 1) = <<>>
    BY <2>1, SubSeqEmpty DEF DropFront
  <2> QED
    BY <2>1, <2>2, <2>3 DEF StartsLine, WithoutOneLeadingNewline
<1>10. PICK kept : kept = IF EndsLine(a) THEN WithoutOneTrailingNewline(a) ELSE a
  OBVIOUS
<1>11. MarkerBlockRemove(w) = kept \o <<>>
  <2>1. MarkerBlockRemove(w) =
          LET before == a  after == <<"n">>
              trimmed == WithoutOneTrailingNewline(before)
              kept1 == IF /\ EndsLine(before)
                          /\ \/ after = <<>> \/ StartsLine(after)
                             \/ trimmed = <<>> \/ EndsLine(trimmed)
                       THEN trimmed ELSE before
              remainder == WithoutOneLeadingNewline(after)
              rest == IF /\ StartsLine(after)
                         /\ \/ kept1 = <<>> \/ EndsLine(kept1)
                            \/ remainder = <<>> \/ StartsLine(remainder)
                      THEN remainder ELSE after
          IN  kept1 \o rest
    BY <1>5, <1>6, <1>7 DEF MarkerBlockRemove
  <2> QED
    BY <1>9, <1>10, <2>1
<1>12. kept = t
  <2>1. CASE t = <<>>
    BY <1>4, <1>10, <2>1 DEF EndsLine
  <2>2. CASE t # <<>>
    <3>1. PICK n \in Nat \ {0} : n = Len(t)
      BY <2>2
    <3>2. a = Append(t, "n") /\ Len(a) = n + 1 /\ a[n + 1] = "n" /\ \A i \in 1..n : a[i] = t[i]
      BY <1>4, <2>2, <3>1
    <3>3. EndsLine(a)
      BY <3>2 DEF EndsLine, Last
    <3>4. PICK k \in 1..Len(a) : WithoutOneTrailingNewline(a) = Drop(a, k) /\ (k = 1 \/ (k = 2 /\ a[Len(a) - 1] = "r"))
      BY <3>3, TrimIs
    <3>5. a[Len(a) - 1] # "r"
      <4>1. t[n] # "r"
        BY <2>2, <3>1 DEF BareReturn, Last
      <4> QED
        BY <3>1, <3>2, <4>1
    <3>6. t \in Seq(Z) /\ <<"n">> \in Seq(Z) /\ a = t \o <<"n">>
      <4>1. t \in Seq(Z) /\ "n" \in Z
        BY <1>1, <1>3
      <4> QED
        BY <3>2, <4>1, AppendIsConcat
    <3>7. SubSeq(t \o <<"n">>, 1, Len(t)) = t
      BY <3>6, Halves, Zenon
    <3>8. Drop(a, 1) = SubSeq(a, 1, n)
      BY <3>2 DEF Drop
    <3> QED
      BY <1>10, <3>1, <3>3, <3>4, <3>5, <3>6, <3>7, <3>8
  <2> QED
    BY <2>1, <2>2
<1>13. t \o <<>> = t
  OBVIOUS
<1> QED
  BY <1>2, <1>5, <1>8, <1>11, <1>12, <1>13
-----------------------------------------------------------------------------
(* A member of a JSON object *)

Gaps == {"w", "c"}
OwnMembers == {"m", "o"}
JsonMarks == {"m", "o", "w", "c"}

\* What is empty is <<>>.
LEMMA Empties ==
    /\ \A X, v : v \in Seq(X) /\ Len(v) = 0 => v = <<>>
    /\ \A r : DOMAIN r = {} /\ r = [i \in DOMAIN r |-> r[i]] => r = <<>>
<1>1. ASSUME NEW X, NEW v \in Seq(X), Len(v) = 0 PROVE v = <<>>
  BY <1>1
<1>2. ASSUME NEW r, DOMAIN r = {}, r = [i \in DOMAIN r |-> r[i]] PROVE r = <<>>
  BY <1>2
<1> QED
  BY <1>1, <1>2

\* One item more.
LEMMA Appends ==
    ASSUME NEW X, NEW v \in Seq(X), NEW e \in X
    PROVE  /\ Append(v, e) \in Seq(X) /\ Len(Append(v, e)) = Len(v) + 1
           /\ Append(v, e)[Len(v) + 1] = e /\ \A i \in 1..Len(v) : Append(v, e)[i] = v[i]
OBVIOUS

\* A container re-rendered is its items, a comma between each and the next.
LEMMA RenderParts ==
    ASSUME NEW X, NEW u \in Seq(X)
    PROVE  /\ RenderJson(u) \in Seq(X \cup {"c"}) /\ DOMAIN RenderJson(u) = 1..(2 * Len(u) - 1)
           /\ \A i \in 1..(2 * Len(u) - 1) :
                 \/ i % 2 = 0 /\ RenderJson(u)[i] = "c"
                 \/ \E h \in 1..Len(u) : i = 2 * h - 1 /\ RenderJson(u)[i] = u[h]
<1>1. PICK n \in Nat : n = Len(u)
  OBVIOUS
<1>2. PICK r : r = RenderJson(u)
  OBVIOUS
<1>3. r = [i \in 1..(2 * n - 1) |-> IF i % 2 = 1 THEN u[(i + 1) \div 2] ELSE "c"]
  BY <1>1, <1>2 DEF RenderJson
<1>4. ASSUME NEW i \in 1..(2 * n - 1)
      PROVE  \/ i % 2 = 0 /\ r[i] = "c"
             \/ \E h \in 1..n : i = 2 * h - 1 /\ r[i] = u[h]
  <2>1. r[i] = IF i % 2 = 1 THEN u[(i + 1) \div 2] ELSE "c"
    BY <1>3
  <2>2. CASE i % 2 = 1
    <3>1. PICK h \in 1..n : h = (i + 1) \div 2 /\ i = 2 * h - 1
      BY <2>2
    <3> QED
      BY <2>1, <2>2, <3>1
  <2>3. CASE i % 2 # 1
    <3>1. i % 2 = 0
      BY <2>3
    <3> QED
      BY <2>1, <2>3, <3>1
  <2> QED
    BY <2>2, <2>3
<1>5. r \in Seq(X \cup {"c"})
  <2>1. ASSUME NEW i \in 1..(2 * n - 1) PROVE r[i] \in X \cup {"c"}
    BY <1>1, <1>4
  <2>2. CASE n = 0
    <3>1. DOMAIN r = {} /\ r = [i \in DOMAIN r |-> r[i]]
      BY <1>3, <2>2
    <3>2. r = <<>>
      BY <3>1, Empties, Zenon
    <3> QED
      BY <3>2
  <2>3. CASE n # 0
    <3>1. PICK k \in Nat : k = 2 * n - 1
      BY <2>3
    <3>2. r \in [1..k -> X \cup {"c"}]
      BY <1>3, <2>1, <3>1
    <3> QED
      BY <3>2
  <2> QED
    BY <2>2, <2>3
<1> QED
  BY <1>1, <1>2, <1>3, <1>4, <1>5

\* One item more.
LEMMA RenderAppend ==
    ASSUME NEW X, NEW v \in Seq(X), NEW e \in X
    PROVE  RenderJson(Append(v, e)) =
               IF v = <<>> THEN <<e>> ELSE Append(Append(RenderJson(v), "c"), e)
<1>1. PICK u \in Seq(X) : u = Append(v, e)
  BY Appends, Zenon
<1>2. PICK n \in Nat : n = Len(v)
  OBVIOUS
<1>3. Len(u) = n + 1 /\ u[n + 1] = e /\ \A i \in 1..n : u[i] = v[i]
  BY <1>1, <1>2
<1>4. PICK r, q : r = RenderJson(u) /\ q = RenderJson(v)
  OBVIOUS
<1>5. r = [i \in 1..(2 * (n + 1) - 1) |-> IF i % 2 = 1 THEN u[(i + 1) \div 2] ELSE "c"]
  BY <1>3, <1>4 DEF RenderJson
<1>6. q = [i \in 1..(2 * n - 1) |-> IF i % 2 = 1 THEN v[(i + 1) \div 2] ELSE "c"]
  BY <1>2, <1>4 DEF RenderJson
<1>7. CASE n = 0
  <2>1. r = [i \in {1} |-> IF i % 2 = 1 THEN u[(i + 1) \div 2] ELSE "c"]
    <3>1. 1..(2 * (n + 1) - 1) = {1}
      BY <1>7
    <3> QED
      BY <1>5, <3>1
  <2>2. r[1] = e /\ DOMAIN r = {1}
    BY <1>3, <1>7, <2>1
  <2>3. r = <<e>>
    BY <2>1, <2>2
  <2>4. v = <<>>
    <3>1. Len(v) = 0
      BY <1>2, <1>7
    <3> QED
      BY <3>1, Empties, Zenon
  <2> QED
    BY <1>1, <1>4, <2>3, <2>4
<1>8. CASE n # 0
  <2>1. PICK k \in Nat : k = 2 * n - 1 /\ k + 2 = 2 * (n + 1) - 1
    BY <1>8
  <2>2. PICK Y : Y = X \cup {"c"}
    OBVIOUS
  <2>3. q \in Seq(Y) /\ Len(q) = k /\ r \in Seq(Y) /\ Len(r) = k + 2
    <3>1. q \in Seq(Y) /\ DOMAIN q = 1..k
      BY <1>2, <1>4, <2>1, <2>2, RenderParts
    <3>2. r \in Seq(Y) /\ DOMAIN r = 1..(k + 2)
      BY <1>3, <1>4, <2>1, <2>2, RenderParts
    <3> QED
      BY <3>1, <3>2
  <2>. "c" \in Y /\ e \in Y
    BY <2>2
  <2>9. Append(q, "c") \in Seq(Y)
    BY <2>3, Appends, Zenon
  <2>4. PICK w \in Seq(Y) : w = Append(Append(q, "c"), e)
    BY <2>9, Appends, Zenon
  <2>5. /\ Len(w) = k + 2 /\ w[k + 1] = "c" /\ w[k + 2] = e
        /\ \A i \in 1..k : w[i] = q[i]
    BY <2>2, <2>3, <2>4
  <2>6. ASSUME NEW i \in 1..(k + 2) PROVE r[i] = w[i]
    <3>1. r[i] = IF i % 2 = 1 THEN u[(i + 1) \div 2] ELSE "c"
      BY <1>5, <2>1
    <3>2. CASE i \in 1..k
      <4>1. q[i] = IF i % 2 = 1 THEN v[(i + 1) \div 2] ELSE "c"
        BY <1>6, <2>1, <3>2
      <4>2. i % 2 = 1 => (i + 1) \div 2 \in 1..n
        BY <2>1, <3>2
      <4> QED
        BY <1>3, <2>5, <3>1, <3>2, <4>1, <4>2
    <3>3. CASE i = k + 1
      <4>1. i % 2 # 1
        BY <2>1, <3>3
      <4> QED
        BY <2>5, <3>1, <3>3, <4>1
    <3>4. CASE i = k + 2
      <4>1. i % 2 = 1 /\ (i + 1) \div 2 = n + 1
        BY <2>1, <3>4
      <4> QED
        BY <1>3, <2>5, <3>1, <3>4, <4>1
    <3> QED
      BY <3>2, <3>3, <3>4
  <2>7. r = w
    BY <2>3, <2>5, <2>6, SeqEqual
  <2>8. v # <<>>
    BY <1>2, <1>8
  <2> QED
    BY <1>1, <1>4, <2>4, <2>7, <2>8
<1> QED
  BY <1>7, <1>8

\* The commas aside, a container re-rendered holds the same.
LEMMA RenderKept ==
    ASSUME NEW X, NEW t \in Seq(X), NEW marks, "c" \in marks
    PROVE  Without(RenderJson(t), marks) = Without(t, marks)
<1> DEFINE S == {n \in Nat : \A u \in Seq(X) : Len(u) = n => Without(RenderJson(u), marks) = Without(u, marks)}
<1>1. 0 \in S
  <2>1. ASSUME NEW u \in Seq(X), Len(u) = 0 PROVE u = <<>>
    BY <2>1
  <2>2. \A u \in Seq(X) : Len(u) = 0 => u = <<>>
    BY <2>1
  <2>3. RenderJson(<<>>) = <<>>
    BY DEF RenderJson
  <2> QED
    BY <2>2, <2>3
<1>2. ASSUME NEW n \in S PROVE n + 1 \in S
  <2> SUFFICES ASSUME NEW u \in Seq(X), Len(u) = n + 1
               PROVE  Without(RenderJson(u), marks) = Without(u, marks)
    OBVIOUS
  <2>0. n \in Nat /\ \A v \in Seq(X) : Len(v) = n => Without(RenderJson(v), marks) = Without(v, marks)
    OBVIOUS
  <2> HIDE DEF S
  <2>1. PICK v \in Seq(X), e \in X : u = Append(v, e) /\ Len(v) = n
    BY <2>0, Longer, Zenon
  <2>2. Len(v) = n
    BY <2>1
  <2>3. Without(RenderJson(v), marks) = Without(v, marks)
    BY <2>0, <2>2
  <2>4. Without(u, marks) = IF e \in marks THEN Without(v, marks) ELSE Append(Without(v, marks), e)
    BY <2>1, WithoutAppend
  <2>5. RenderJson(u) = IF v = <<>> THEN <<e>> ELSE Append(Append(RenderJson(v), "c"), e)
    BY <2>1, RenderAppend
  <2>6. CASE v = <<>>
    <3>1. RenderJson(u) = u
      BY <2>1, <2>5, <2>6
    <3> QED
      BY <3>1
  <2>7. CASE v # <<>>
    <3>1. PICK Y : Y = X \cup {"c"}
      OBVIOUS
    <3>2. PICK q \in Seq(Y) : q = RenderJson(v)
      BY <3>1, RenderParts
    <3>6. "c" \in Y /\ e \in Y
      BY <3>1
    <3>3. PICK k \in Seq(Y) : k = Append(q, "c")
      BY <3>6, Appends, Zenon
    <3>4. Without(k, marks) = Without(q, marks)
      BY <3>3, <3>6, WithoutAppend
    <3>5. Without(Append(k, e), marks) = IF e \in marks THEN Without(k, marks) ELSE Append(Without(k, marks), e)
      BY <3>6, WithoutAppend
    <3> QED
      BY <2>3, <2>4, <2>5, <2>7, <3>2, <3>3, <3>4, <3>5
  <2> QED
    BY <2>6, <2>7
<1>3. S = Nat
  BY <1>1, <1>2, AllNumbers
<1>4. Len(t) \in S
  BY <1>3
<1> QED
  BY <1>4

\* And is one that the parser accepts.
LEMMA RenderWellFormed ==
    ASSUME NEW X, NEW u \in Seq(X), \A e \in X : e \notin Gaps, AtMostOne(u, OwnMembers)
    PROVE  WellFormedJson(RenderJson(u))
<1>1. PICK n \in Nat : n = Len(u)
  OBVIOUS
<1>2. PICK r : r = RenderJson(u)
  OBVIOUS
<1>0. /\ DOMAIN RenderJson(u) = 1..(2 * Len(u) - 1)
      /\ \A i \in 1..(2 * Len(u) - 1) :
            \/ i % 2 = 0 /\ RenderJson(u)[i] = "c"
            \/ \E h \in 1..Len(u) : i = 2 * h - 1 /\ RenderJson(u)[i] = u[h]
  BY RenderParts, Zenon
<1>3. /\ DOMAIN r = 1..(2 * n - 1)
      /\ \A i \in 1..(2 * n - 1) :
            \/ i % 2 = 0 /\ r[i] = "c"
            \/ \E h \in 1..n : i = 2 * h - 1 /\ r[i] = u[h]
  BY <1>0, <1>1, <1>2
<1>4. ASSUME NEW i \in 1..(2 * n - 1), r[i] # "c" PROVE \E h \in 1..n : i = 2 * h - 1 /\ r[i] = u[h]
  BY <1>3, <1>4
<1>5. ASSUME NEW i \in ItemsAt(r), NEW j \in ItemsAt(r), i < j
      PROVE  \E c \in i..j : r[c] = "c"
  <2>1. i \in 1..(2 * n - 1) /\ j \in 1..(2 * n - 1) /\ r[i] # "c" /\ r[j] # "c"
    BY <1>3 DEF ItemsAt
  <2>2. PICK h \in 1..n, l \in 1..n : i = 2 * h - 1 /\ j = 2 * l - 1
    BY <1>4, <2>1
  <2>3. i + 1 \in 1..(2 * n - 1) /\ i + 1 \in i..j /\ i + 1 = 2 * h
    BY <1>5, <2>1, <2>2
  <2>4. ~\E m \in 1..n : i + 1 = 2 * m - 1
    BY <2>3
  <2>5. r[i + 1] = "c"
    BY <1>3, <2>3, <2>4
  <2> QED
    BY <2>3, <2>5
<1>6. ASSUME NEW i \in DOMAIN r, NEW j \in DOMAIN r, r[i] \in OwnMembers, r[j] \in OwnMembers
      PROVE  i = j
  <2>1. r[i] # "c" /\ r[j] # "c" /\ i \in 1..(2 * n - 1) /\ j \in 1..(2 * n - 1)
    BY <1>3, <1>6 DEF OwnMembers
  <2>2. PICK h \in 1..n, l \in 1..n : i = 2 * h - 1 /\ j = 2 * l - 1 /\ r[i] = u[h] /\ r[j] = u[l]
    BY <1>4, <2>1
  <2>3. h = l
    BY <1>1, <1>6, <2>2 DEF AtMostOne
  <2> QED
    BY <2>2, <2>3
<1> QED
  BY <1>2, <1>5, <1>6 DEF WellFormedJson, OwnMembers

NoneOwn(t) == \A i \in DOMAIN t : t[i] \notin OwnMembers

LEMMA OwnWhere ==
    ASSUME NEW X, NEW s \in Seq(X)
    PROVE  NoneOwn(s) <=> ~Contains(s, "m") /\ ~Contains(s, "o")
<1>1. DOMAIN s = 1..Len(s)
  OBVIOUS
<1> QED
  BY <1>1 DEF NoneOwn, Contains, OwnMembers

LEMMA Widened ==
    ASSUME NEW X, NEW Y, X \subseteq Y, NEW s \in Seq(X)
    PROVE  s \in Seq(Y)
OBVIOUS

\* A container re-rendered with memriver's member in it.
LEMMA Rerendered ==
    ASSUME NEW X, NEW v \in Seq((X \ Gaps) \cup {"m"}), AtMostOne(v, OwnMembers)
    PROVE  /\ RenderJson(v) \in Seq(X \cup {"m", "c"})
           /\ Without(RenderJson(v), JsonMarks) = Without(v, JsonMarks)
           /\ WellFormedJson(RenderJson(v))
<1>1. PICK Z : Z = (X \ Gaps) \cup {"m"}
  OBVIOUS
<1>2. v \in Seq(Z) /\ \A e \in Z : e \notin Gaps
  BY <1>1 DEF Gaps
<1>3. RenderJson(v) \in Seq(Z \cup {"c"})
  BY <1>2, RenderParts, Zenon
<1>4. Z \cup {"c"} \subseteq X \cup {"m", "c"}
  BY <1>1
<1>5. RenderJson(v) \in Seq(X \cup {"m", "c"})
  BY <1>3, <1>4, Widened, Zenon
<1>6. "c" \in JsonMarks
  BY DEF JsonMarks
<1>7. Without(RenderJson(v), JsonMarks) = Without(v, JsonMarks)
  BY <1>2, <1>6, RenderKept, Zenon
<1>8. WellFormedJson(RenderJson(v))
  BY <1>2, RenderWellFormed, Zenon
<1> QED
  BY <1>5, <1>7, <1>8

\* What JsonObjectMerge keeps of the user's.
LEMMA JsonKept ==
    ASSUME NEW X, NEW s \in Seq(X), WellFormedJson(s) \/ NoneOwn(s)
    PROVE  /\ JsonObjectMerge(s) \in Seq(X \cup {"m", "c"})
           /\ Without(JsonObjectMerge(s), JsonMarks) = Without(s, JsonMarks)
           /\ WellFormedJson(JsonObjectMerge(s)) \/ NoneOwn(JsonObjectMerge(s))
<1>1. PICK items : items = JsonItems(s) /\ items = Without(s, Gaps)
  BY DEF JsonItems, Gaps
<1>2. items \in Seq(X \ Gaps)
  BY <1>1, WithoutTyped
<1>3. Without(items, JsonMarks) = Without(s, JsonMarks)
  <2>1. Gaps \subseteq JsonMarks
    BY DEF Gaps, JsonMarks
  <2>2. Without(Without(s, Gaps), JsonMarks) = Without(s, JsonMarks)
    BY <2>1, WithoutTwice, Zenon
  <2> QED
    BY <1>1, <2>2
<1>4. CASE Contains(s, "m")
  <2>1. JsonObjectMerge(s) = s
    BY <1>4 DEF JsonObjectMerge
  <2>2. X \subseteq X \cup {"m", "c"}
    OBVIOUS
  <2>3. s \in Seq(X \cup {"m", "c"})
    BY <2>2, Widened, Zenon
  <2> QED
    BY <2>1, <2>3
<1>5. CASE ~Contains(s, "m") /\ Contains(s, "o")
  <2>1. PICK v : v = [i \in DOMAIN items |-> IF items[i] = "o" THEN "m" ELSE items[i]]
    OBVIOUS
  <2>2. JsonObjectMerge(s) = RenderJson(v)
    BY <1>1, <1>5, <2>1 DEF JsonObjectMerge
  <2>3. PICK Y : Y = X \ Gaps
    OBVIOUS
  <2>4. items \in Seq(Y) /\ Len(items) \in Nat /\ DOMAIN items = 1..Len(items)
    BY <1>2, <2>3
  <2>5. v \in Seq(Y \cup {"m"}) /\ Len(v) = Len(items) /\ DOMAIN v = DOMAIN items
    <3>1. v \in [1..Len(items) -> Y \cup {"m"}]
      BY <2>1, <2>4
    <3> QED
      BY <2>4, <3>1
  <2>6. AtMostOne(v, OwnMembers)
    <3>1. AtMostOne(s, OwnMembers)
      <4>1. WellFormedJson(s)
        BY <1>5, OwnWhere
      <4> QED
        BY <4>1 DEF WellFormedJson, AtMostOne, OwnMembers
    <3>2. AtMostOne(items, OwnMembers)
      BY <1>1, <3>1, WithoutOnce, Zenon
    <3>3. \A i \in DOMAIN v : v[i] \in OwnMembers => items[i] \in OwnMembers
      BY <2>1 DEF OwnMembers
    <3> QED
      BY <2>5, <3>2, <3>3 DEF AtMostOne
  <2>7. Without(v, JsonMarks) = Without(items, JsonMarks)
    <3>1. Alike(v, items, JsonMarks, Len(v))
      BY <2>1, <2>4, <2>5 DEF Alike, JsonMarks
    <3> QED
      BY <2>4, <2>5, <3>1, WithoutLike, Zenon
  <2>8. /\ RenderJson(v) \in Seq(X \cup {"m", "c"})
        /\ Without(RenderJson(v), JsonMarks) = Without(v, JsonMarks)
        /\ WellFormedJson(RenderJson(v))
    BY <2>3, <2>5, <2>6, Rerendered, Zenon
  <2> QED
    BY <1>3, <2>2, <2>7, <2>8
<1>6. CASE ~Contains(s, "m") /\ ~Contains(s, "o")
  <2>1. JsonObjectMerge(s) = RenderJson(Append(items, "m"))
    BY <1>1, <1>6 DEF JsonObjectMerge
  <2>2. PICK Y, Z : Y = X \ OwnMembers /\ Z = (X \ Gaps) \cup {"m"}
    OBVIOUS
  <2>3. s \in Seq(Y)
    <3>1. NoneOwn(s) /\ DOMAIN s = 1..Len(s)
      BY <1>6, OwnWhere
    <3>2. \A i \in 1..Len(s) : s[i] \in Y
      BY <2>2, <3>1 DEF NoneOwn
    <3> QED
      BY <3>2, Narrowed
  <2>4. items \in Seq(Y \ Gaps)
    BY <1>1, <2>3, WithoutTyped
  <2>5. items \in Seq(Z)
    <3>1. Y \ Gaps \subseteq Z
      BY <2>2
    <3> QED
      BY <2>4, <3>1, Widened, Zenon
  <2>6. "m" \in Z
    BY <2>2
  <2>7. PICK v \in Seq(Z) : v = Append(items, "m")
    BY <2>5, <2>6, Appends, Zenon
  <2>8. AtMostOne(v, OwnMembers)
    <3>1. /\ DOMAIN v = 1..(Len(items) + 1) /\ Len(items) \in Nat
          /\ \A i \in 1..Len(items) : v[i] = items[i]
      BY <2>5, <2>6, <2>7
    <3>2. \A i \in 1..Len(items) : items[i] \notin OwnMembers
      <4>1. \A i \in 1..Len(items) : items[i] \in Y \ Gaps
        BY <2>4
      <4> QED
        BY <2>2, <4>1
    <3>3. \A i \in DOMAIN v : v[i] \in OwnMembers => i = Len(items) + 1
      BY <3>1, <3>2
    <3> QED
      BY <3>3 DEF AtMostOne
  <2>9. Without(v, JsonMarks) = Without(items, JsonMarks)
    <3>1. "m" \in JsonMarks
      BY DEF JsonMarks
    <3> QED
      BY <2>5, <2>6, <2>7, <3>1, WithoutAppend
  <2>10. /\ RenderJson(v) \in Seq(X \cup {"m", "c"})
         /\ Without(RenderJson(v), JsonMarks) = Without(v, JsonMarks)
         /\ WellFormedJson(RenderJson(v))
    BY <2>2, <2>7, <2>8, Rerendered, Zenon
  <2> QED
    BY <1>3, <2>1, <2>7, <2>9, <2>10
<1> QED
  BY <1>4, <1>5, <1>6

\* The cut is of the member, whitespace and commas.
LEMMA CutIs ==
    ASSUME NEW X, NEW s \in Seq(X), NEW at \in 1..Len(s), WellFormedJson(s), s[at] \in OwnMembers
    PROVE  \E i \in 1..at, j \in at..Len(s) :
               SpanWithout(s, at) = <<i, j>> /\ \A k \in i..j : s[k] \in JsonMarks
<1>1. PICK n \in Nat : n = Len(s) /\ DOMAIN s = 1..n
  OBVIOUS
<1>2. ItemsAt(s) = {i \in 1..n : s[i] \notin Gaps}
  BY <1>1 DEF ItemsAt, Gaps
<1>3. at \in ItemsAt(s) /\ at \in 1..n /\ s[at] \in JsonMarks
  BY <1>1, <1>2 DEF OwnMembers, Gaps, JsonMarks
<1>4. PICK before, after : /\ before = {i \in ItemsAt(s) : i < at}
                           /\ after = {i \in ItemsAt(s) : i > at}
  OBVIOUS
<1>5. SpanWithout(s, at) = CASE before = {} /\ after = {} -> <<1, n>>
                             [] after # {} -> <<WhitespaceBefore(s, at), CommaAfter(s, at)>>
                             [] OTHER -> <<CommaAfter(s, Max(before)), at>>
  BY <1>1, <1>4, Zenon DEF SpanWithout
<1>6. \A k \in 1..n : k \notin ItemsAt(s) => s[k] \in JsonMarks
  BY <1>2 DEF Gaps, JsonMarks
<1>7. ASSUME NEW from \in 1..n, NEW to \in 1..n, from < to, s[to] # "w"
      PROVE  /\ CommaAfter(s, from) \in 1..n /\ CommaAfter(s, from) > from /\ CommaAfter(s, from) <= to
             /\ s[CommaAfter(s, from)] # "w"
             /\ \A k \in 1..n : k > from /\ k < CommaAfter(s, from) => s[k] = "w"
  <2>1. PICK C : C = {i \in 1..n : i > from /\ s[i] # "w"}
    OBVIOUS
  <2>2. CommaAfter(s, from) = Min(C)
    BY <1>1, <2>1 DEF CommaAfter
  <2>3. C \in SUBSET Nat /\ C # {} /\ to \in C
    BY <1>7, <2>1
  <2>4. Min(C) \in C /\ \A k \in C : Min(C) <= k
    BY <2>3, LeastOf, Zenon
  <2>5. PICK c \in C : c = CommaAfter(s, from) /\ \A k \in C : c <= k
    BY <2>2, <2>4
  <2>6. c \in 1..n /\ c > from /\ s[c] # "w" /\ c <= to
    BY <2>1, <2>3, <2>5
  <2>7. ASSUME NEW k \in 1..n, k > from, k < c PROVE s[k] = "w"
    BY <2>1, <2>5, <2>6, <2>7
  <2> QED
    BY <2>5, <2>6, <2>7
<1>8. CASE before = {} /\ after = {}
  <2>1. SpanWithout(s, at) = <<1, n>>
    BY <1>5, <1>8
  <2>2. \A k \in 1..n : s[k] \in JsonMarks
    BY <1>3, <1>4, <1>6, <1>8
  <2>3. 1 \in 1..at /\ n \in at..Len(s)
    BY <1>1, <1>3
  <2> QED
    BY <2>1, <2>2, <2>3
<1>9. CASE after # {}
  <2>1. SpanWithout(s, at) = <<WhitespaceBefore(s, at), CommaAfter(s, at)>>
    BY <1>5, <1>9
  <2>2. PICK W : W = {i \in 1..at : \A j \in i..(at - 1) : s[j] = "w"}
    OBVIOUS
  <2>3. WhitespaceBefore(s, at) = Min(W)
    BY <2>2 DEF WhitespaceBefore
  <2>4. W \in SUBSET Nat /\ at \in W
    BY <1>3, <2>2
  <2>5. PICK i \in W : i = Min(W)
    BY <2>4, LeastOf
  <2>6. i \in 1..at /\ \A k \in i..(at - 1) : s[k] = "w"
    BY <2>2, <2>5
  <2>7. PICK to \in 1..n : at < to /\ s[to] # "w"
    BY <1>2, <1>4, <1>9 DEF Gaps
  <2>8. PICK j : j = CommaAfter(s, at)
    OBVIOUS
  <2>9. j \in 1..n /\ j > at /\ s[j] # "w" /\ \A k \in 1..n : k > at /\ k < j => s[k] = "w"
    BY <1>3, <1>7, <2>7, <2>8
  <2>10. s[j] = "c"
    <3>1. SUFFICES ASSUME s[j] # "c" PROVE FALSE
      OBVIOUS
    <3>2. j \in ItemsAt(s)
      BY <1>2, <2>9, <3>1 DEF Gaps
    <3>3. PICK k \in at..j : s[k] = "c"
      BY <1>3, <2>9, <3>2 DEF WellFormedJson
    <3>4. k # at
      BY <1>2, <1>3, <3>3 DEF Gaps
    <3>5. k # j
      BY <3>1, <3>3
    <3>6. k \in 1..n /\ k > at /\ k < j
      BY <1>3, <2>9, <3>3, <3>4, <3>5
    <3> QED
      BY <2>9, <3>3, <3>6
  <2>11. ASSUME NEW k \in i..j PROVE s[k] \in JsonMarks
    <3>1. CASE k \in i..(at - 1) \/ (k > at /\ k < j)
      <4>1. s[k] = "w"
        BY <1>3, <2>6, <2>9, <3>1
      <4> QED
        BY <4>1 DEF JsonMarks
    <3>2. CASE k = at
      BY <1>3, <3>2
    <3>3. CASE k = j
      BY <2>10, <3>3 DEF JsonMarks
    <3>4. k \in i..(at - 1) \/ (k > at /\ k < j) \/ k = at \/ k = j
      BY <1>3, <2>6, <2>9
    <3> QED
      BY <3>1, <3>2, <3>3, <3>4
  <2>12. j \in at..Len(s)
    BY <1>1, <1>3, <2>9
  <2> QED
    BY <2>1, <2>3, <2>5, <2>6, <2>8, <2>11, <2>12
<1>10. CASE before # {} /\ after = {}
  <2>1. SpanWithout(s, at) = <<CommaAfter(s, Max(before)), at>>
    BY <1>5, <1>10
  <2>2. before \in SUBSET (0..n)
    BY <1>2, <1>4
  <2>3. PICK b \in before : b = Max(before) /\ \A m \in before : m <= b
    BY <1>10, <2>2, MostOf
  <2>4. b \in 1..n /\ b < at /\ s[at] # "w"
    BY <1>2, <1>3, <1>4, <2>3 DEF Gaps
  <2>5. PICK i : i = CommaAfter(s, b)
    OBVIOUS
  <2>6. i \in 1..n /\ i > b /\ i <= at
    BY <1>3, <1>7, <2>4, <2>5
  <2>7. ASSUME NEW k \in i..at PROVE s[k] \in JsonMarks
    <3>1. CASE k = at
      BY <1>3, <3>1
    <3>2. CASE k # at
      <4>1. k \in 1..n /\ k < at /\ k > b
        BY <1>3, <2>4, <2>6, <3>2
      <4>2. k \notin before
        BY <2>3, <2>4, <4>1
      <4>3. k \notin ItemsAt(s)
        BY <1>4, <4>1, <4>2
      <4> QED
        BY <1>6, <4>1, <4>3
    <3> QED
      BY <3>1, <3>2
  <2>8. i \in 1..at /\ at \in at..Len(s)
    BY <1>1, <1>3, <2>6
  <2> QED
    BY <2>1, <2>3, <2>5, <2>7, <2>8
<1> QED
  BY <1>8, <1>9, <1>10

\* Where a container's own members are, the cut is.
CutAt(s, ours) == IF ours = {} THEN s ELSE Spliced(s, SpanWithout(s, CHOOSE i \in ours : TRUE))

LEMMA CutBy ==
    ASSUME NEW s
    PROVE  JsonObjectRemove(s) = CutAt(s, {i \in DOMAIN s : s[i] \in {"m", "o"}})
BY Zenon DEF JsonObjectRemove, CutAt

\* What JsonObjectRemove keeps.
LEMMA JsonRemoveKept ==
    ASSUME NEW X, NEW s \in Seq(X), WellFormedJson(s) \/ NoneOwn(s)
    PROVE  /\ JsonObjectRemove(s) \in Seq(X)
           /\ Without(JsonObjectRemove(s), JsonMarks) = Without(s, JsonMarks)
           /\ WellFormedJson(JsonObjectRemove(s)) \/ NoneOwn(JsonObjectRemove(s))
<1>1. PICK ours : ours = {i \in DOMAIN s : s[i] \in {"m", "o"}} /\ OwnMembers = {"m", "o"}
  BY DEF OwnMembers
<1>2. JsonObjectRemove(s) = IF ours = {} THEN s ELSE Spliced(s, SpanWithout(s, CHOOSE i \in ours : TRUE))
  <2>1. JsonObjectRemove(s) = CutAt(s, ours)
    BY <1>1, CutBy
  <2> QED
    BY <2>1 DEF CutAt
<1>3. CASE ours = {}
  BY <1>2, <1>3
<1>4. CASE ours # {}
  <2>1. PICK at : at = CHOOSE i \in ours : TRUE
    OBVIOUS
  <2>2. at \in 1..Len(s) /\ s[at] \in OwnMembers /\ DOMAIN s = 1..Len(s)
    BY <1>1, <1>4, <2>1
  <2>3. WellFormedJson(s)
    BY <2>2 DEF NoneOwn
  <2>4. PICK i \in 1..Len(s), j \in 1..Len(s) :
           /\ i <= at /\ at <= j /\ SpanWithout(s, at) = <<i, j>> /\ \A k \in i..j : s[k] \in JsonMarks
    <3>1. \E i \in 1..at, j \in at..Len(s) :
               SpanWithout(s, at) = <<i, j>> /\ \A k \in i..j : s[k] \in JsonMarks
      BY <2>2, <2>3, CutIs, Zenon
    <3> QED
      BY <2>2, <3>1
  <2>5. PICK r : r = SubSeq(s, 1, i - 1) \o DropFront(s, j)
    OBVIOUS
  <2>6. JsonObjectRemove(s) = r
    <3>1. PICK span : span = SpanWithout(s, at) /\ span[1] = i /\ span[2] = j
      BY <2>4
    <3>2. JsonObjectRemove(s) = Spliced(s, span)
      BY <1>2, <1>4, <2>1, <3>1
    <3> QED
      BY <2>5, <3>1, <3>2 DEF Spliced
  <2>7. r \in Seq(X) /\ Without(r, JsonMarks) = Without(s, JsonMarks)
    <3>1. i \in 1..(Len(s) + 1) /\ j \in (i - 1)..Len(s)
      BY <2>2, <2>4
    <3> QED
      BY <2>4, <2>5, <3>1, WithoutSpan
  <2>8. \A m \in 0..Len(s) :
          /\ SubSeq(s, 1, m) \in Seq(X) /\ Len(SubSeq(s, 1, m)) = m
          /\ \A k \in 1..m : SubSeq(s, 1, m)[k] = s[k]
          /\ DropFront(s, m) \in Seq(X) /\ Len(DropFront(s, m)) = Len(s) - m
          /\ \A k \in 1..(Len(s) - m) : DropFront(s, m)[k] = s[m + k]
    BY SplitAt, Zenon
  <2>9. ASSUME NEW k \in 1..Len(s), k < i \/ k > j PROVE s[k] \in X \ OwnMembers
    <3>1. k # at
      BY <2>2, <2>4, <2>9
    <3>2. s[k] \notin OwnMembers
      BY <2>2, <2>3, <3>1 DEF WellFormedJson, OwnMembers
    <3> QED
      BY <3>2
  <2>10. PICK a \in Seq(X \ OwnMembers) : a = SubSeq(s, 1, i - 1)
    <3>1. PICK m \in 0..Len(s) : m = i - 1
      BY <2>4
    <3>2. PICK a \in Seq(X) : a = SubSeq(s, 1, m) /\ Len(a) = m /\ \A k \in 1..m : a[k] = s[k]
      BY <2>8, Zenon
    <3>3. \A k \in 1..Len(a) : a[k] \in X \ OwnMembers
      BY <2>9, <3>1, <3>2
    <3> QED
      BY <3>1, <3>2, <3>3, Narrowed
  <2>11. PICK c \in Seq(X \ OwnMembers) : c = DropFront(s, j)
    <3>1. j \in 0..Len(s)
      OBVIOUS
    <3>2. PICK c \in Seq(X) : c = DropFront(s, j) /\ Len(c) = Len(s) - j /\ \A k \in 1..(Len(s) - j) : c[k] = s[j + k]
      BY <2>8, <3>1, Zenon
    <3>3. \A k \in 1..Len(c) : c[k] \in X \ OwnMembers
      BY <2>9, <3>2
    <3> QED
      BY <3>2, <3>3, Narrowed
  <2>12. NoneOwn(r)
    <3>1. r \in Seq(X \ OwnMembers)
      BY <2>5, <2>10, <2>11
    <3> QED
      BY <3>1 DEF NoneOwn
  <2> QED
    BY <2>6, <2>7, <2>12
<1> QED
  BY <1>3, <1>4
-----------------------------------------------------------------------------
(* What an editor makes of a text of a file *)

\* The text with memriver's entry at its end.
With(key, t) == IF key = "block" THEN WithBlock(t) ELSE WithTable(t)

\* A text that installs and removals alone have made of the first one.
Lawful(p, key, first, t) ==
    /\ IsText(t)
    /\ Foreign(p, key, t) = Foreign(p, key, first)
    /\ AddedAtEnd(p, key, first) /\ ~Own(first) /\ ~BareReturn(first) =>
          t = first \/ (t = With(key, first) /\ (key = "block" => MarkerSpan(first) # Refused))
    /\ key = "mcp" /\ IsToml(p) => OneOwn(t)
    /\ key = "mcp" /\ ~IsToml(p) => WellFormedJson(t) \/ NoneOwn(t)
    /\ key \notin {"mcp", "block"} => \A group \in ToSet(t) : IsText(group)

RightKind(op) ==
    op.kind = CASE op.key = "native" -> "setting"
                [] op.key = "block" -> "marker-block"
                [] op.key = "mcp" -> IF IsToml(op.path) THEN "toml-table" ELSE "json-object"
                [] OTHER -> "hook-array"

\* An operation's edit of one text.
Edited(command, kind, t) == IF command = "uninstall" THEN ApplyRemoval(kind, t) ELSE ApplyEdit(kind, t)

\* A sequence is a text, of what it holds.
LEMMA TextOf ==
    ASSUME NEW X, NEW t \in Seq(X)
    PROVE  IsText(t) /\ ToSet(t) \subseteq X
<1>1. PICK T : T = ToSet(t)
  OBVIOUS
<1>2. \A i \in 1..Len(t) : t[i] \in T
  BY <1>1 DEF ToSet
<1>3. t \in Seq(T)
  BY <1>2, Narrowed
<1>4. T \subseteq X
  BY <1>1 DEF ToSet
<1> QED
  BY <1>1, <1>3, <1>4 DEF IsText

\* The edits of one text, editor by editor.
LEMMA LawfulBlock ==
    ASSUME NEW p, NEW first, IsText(first), NEW t, Lawful(p, "block", first, t), NEW command,
           NEW r, r = Edited(command, "marker-block", t), r # Refused
    PROVE  Lawful(p, "block", first, r)
<1>1. PICK X : t \in Seq(X)
  BY DEF Lawful, IsText
<1>2. r = MarkerBlock(t) \/ r = MarkerBlockRemove(t)
  BY DEF Edited, ApplyRemoval, ApplyEdit
<1>3. MarkerSpan(t) # Refused
  <2>1. ASSUME MarkerSpan(t) = Refused PROVE MarkerBlock(t) = Refused /\ MarkerBlockRemove(t) = Refused
    <3>1. MarkerBlock(t) = Refused
      <4>1. PICK span : span = MarkerSpan(t) /\ span = Refused /\ span # <<>>
        BY <2>1, NotRefused
      <4> QED
        BY <4>1 DEF MarkerBlock
    <3>2. MarkerBlockRemove(t) = Refused
      BY <2>1, NotRefused DEF MarkerBlockRemove
    <3> QED
      BY <3>1, <3>2
  <2> QED
    BY <1>2, <2>1
<1>4. /\ MarkerBlock(t) \in Seq(X \cup {"B", Current, "E", "n"})
      /\ Without(Outside(MarkerBlock(t)), Ends) = Without(Outside(t), Ends)
  BY <1>1, <1>3, BlockKept, Zenon
<1>5. /\ MarkerBlockRemove(t) \in Seq(X)
      /\ Without(Outside(MarkerBlockRemove(t)), Ends) = Without(Outside(t), Ends)
  BY <1>1, <1>3, BlockRemoveKept, Zenon
<1>6. IsText(r)
  BY <1>2, <1>4, <1>5, TextOf
<1>7. \A s : Foreign(p, "block", s) = Without(Outside(s), Ends)
  BY Zenon DEF Foreign, Outside, Ends
<1>8. Foreign(p, "block", r) = Foreign(p, "block", first)
  <2>1. Foreign(p, "block", t) = Foreign(p, "block", first)
    BY DEF Lawful
  <2> QED
    BY <1>2, <1>4, <1>5, <1>7, <2>1
<1>9. ASSUME ~Own(first), ~BareReturn(first)
      PROVE  r = first \/ (r = With("block", first) /\ MarkerSpan(first) # Refused)
  <2>1. t = first \/ (t = WithBlock(first) /\ MarkerSpan(first) # Refused)
    BY <1>9 DEF Lawful, AddedAtEnd, With
  <2>2. MarkerSpan(first) # Refused
    BY <1>3, <2>1
  <2>3. PICK Y : first \in Seq(Y)
    BY DEF IsText
  <2>4. /\ MarkerBlock(first) = WithBlock(first) /\ MarkerBlock(WithBlock(first)) = WithBlock(first)
        /\ MarkerBlockRemove(first) = first /\ MarkerBlockRemove(WithBlock(first)) = first
    BY <1>9, <2>2, <2>3, BlockBack, Zenon
  <2> QED
    BY <1>2, <2>1, <2>2, <2>4 DEF With
<1> QED
  BY <1>6, <1>8, <1>9 DEF Lawful

LEMMA LawfulTable ==
    ASSUME NEW p, IsToml(p), NEW first, IsText(first), NEW t, Lawful(p, "mcp", first, t), NEW command,
           NEW r, r = Edited(command, "toml-table", t)
    PROVE  Lawful(p, "mcp", first, r)
<1>1. PICK X : t \in Seq(X)
  BY DEF Lawful, IsText
<1>2. r = TomlRoundtrip(t) \/ r = TomlTableRemove(t)
  BY DEF Edited, ApplyRemoval, ApplyEdit
<1>3. PICK Y : Y = X \cup {"T", "n"}
  OBVIOUS
<1>4. t \in Seq(Y) /\ "T" \in Y /\ "n" \in Y /\ OneOwn(t)
  BY <1>1, <1>3, Widened DEF Lawful
<1>5. r \in Seq(Y) /\ SameBut(r, t)
  BY <1>2, <1>4, RoundtripKept, RemovalKept
<1>6. IsText(r)
  BY <1>5, TextOf
<1>7. \A s : Foreign(p, "mcp", s) = Without(TomlDelete(s), Ends)
  BY DEF Foreign, Ends
<1>8. Foreign(p, "mcp", r) = Foreign(p, "mcp", first)
  <2>1. Foreign(p, "mcp", t) = Foreign(p, "mcp", first)
    BY DEF Lawful
  <2> QED
    BY <1>5, <1>7, <2>1 DEF SameBut
<1>9. ASSUME AddedAtEnd(p, "mcp", first), ~Own(first), ~BareReturn(first)
      PROVE  r = first \/ r = With("mcp", first)
  <2>1. t = first \/ t = WithTable(first)
    BY <1>9 DEF Lawful, With
  <2>2. PICK Z : first \in Seq(Z)
    BY DEF IsText
  <2>3. GroupEnd(first) = Len(first)
    BY <1>9 DEF AddedAtEnd
  <2>4. /\ TomlRoundtrip(first) = WithTable(first) /\ TomlRoundtrip(WithTable(first)) = WithTable(first)
        /\ TomlTableRemove(first) = first /\ TomlTableRemove(WithTable(first)) = first
    BY <1>9, <2>2, <2>3, TomlBack, Zenon
  <2> QED
    BY <1>2, <2>1, <2>4 DEF With
<1> QED
  BY <1>5, <1>6, <1>8, <1>9 DEF Lawful, SameBut

LEMMA LawfulMember ==
    ASSUME NEW p, ~IsToml(p), NEW first, NEW t, Lawful(p, "mcp", first, t), NEW command,
           NEW r, r = Edited(command, "json-object", t)
    PROVE  Lawful(p, "mcp", first, r)
<1>1. PICK X : t \in Seq(X)
  BY DEF Lawful, IsText
<1>2. r = JsonObjectMerge(t) \/ r = JsonObjectRemove(t)
  BY DEF Edited, ApplyRemoval, ApplyEdit
<1>3. WellFormedJson(t) \/ NoneOwn(t)
  BY DEF Lawful
<1>4. /\ JsonObjectMerge(t) \in Seq(X \cup {"m", "c"})
      /\ Without(JsonObjectMerge(t), JsonMarks) = Without(t, JsonMarks)
      /\ WellFormedJson(JsonObjectMerge(t)) \/ NoneOwn(JsonObjectMerge(t))
  BY <1>1, <1>3, JsonKept, Zenon
<1>5. /\ JsonObjectRemove(t) \in Seq(X)
      /\ Without(JsonObjectRemove(t), JsonMarks) = Without(t, JsonMarks)
      /\ WellFormedJson(JsonObjectRemove(t)) \/ NoneOwn(JsonObjectRemove(t))
  BY <1>1, <1>3, JsonRemoveKept, Zenon
<1>6. IsText(r)
  BY <1>2, <1>4, <1>5, TextOf
<1>7. \A s : Foreign(p, "mcp", s) = Without(s, JsonMarks)
  BY DEF Foreign, JsonMarks
<1>8. Foreign(p, "mcp", r) = Foreign(p, "mcp", first)
  <2>1. Foreign(p, "mcp", t) = Foreign(p, "mcp", first)
    BY DEF Lawful
  <2> QED
    BY <1>2, <1>4, <1>5, <1>7, <2>1
<1> QED
  BY <1>2, <1>4, <1>5, <1>6, <1>8 DEF Lawful, AddedAtEnd

LEMMA LawfulGroups ==
    ASSUME NEW p, NEW key, key \notin {"mcp", "block"}, NEW first, NEW t, Lawful(p, key, first, t),
           NEW command, NEW r, r = Edited(command, "hook-array", t), r # Refused
    PROVE  Lawful(p, key, first, r)
<1>1. PICK X : X = ToSet(t) \cup {Expected}
  OBVIOUS
<1>2. t \in Seq(X)
  BY <1>1, Widened DEF Lawful, IsText
<1>3. \A g \in X : IsText(g)
  <2>1. <<"cur">> \in Seq({"cur"})
    BY OfOne
  <2>3. IsText(Expected)
    BY <2>1, TextOf, Zenon DEF Expected
  <2> QED
    BY <1>1, <2>3 DEF Lawful
<1>4. r = HookArrayIdentityMerge(t) \/ r = HookArrayIdentityRemove(t)
  BY DEF Edited, ApplyRemoval, ApplyEdit
<1>5. OwnGroup(t) # -1
  BY <1>4 DEF HookArrayIdentityMerge, HookArrayIdentityRemove
<1>6. Expected \in X
  BY <1>1
<1>7. /\ HookArrayIdentityMerge(t) \in Seq(X) /\ HookArrayIdentityRemove(t) \in Seq(X)
      /\ Without(HookArrayIdentityMerge(t), OwnGroups) = Without(t, OwnGroups)
      /\ Without(HookArrayIdentityRemove(t), OwnGroups) = Without(t, OwnGroups)
  BY <1>2, <1>3, <1>5, <1>6, HooksKept, Zenon
<1>8. IsText(r) /\ ToSet(r) \subseteq X
  BY <1>4, <1>7, TextOf
<1>9. \A s : Foreign(p, key, s) = Without(s, OwnGroups)
  BY DEF Foreign, OwnGroups
<1>10. Foreign(p, key, r) = Foreign(p, key, first)
  <2>1. Foreign(p, key, t) = Foreign(p, key, first)
    BY DEF Lawful
  <2> QED
    BY <1>4, <1>7, <1>9, <2>1
<1> QED
  BY <1>3, <1>8, <1>10 DEF Lawful, AddedAtEnd

\* No edit that is not refused leaves what is lawful.
LEMMA LawfulEdit ==
    ASSUME NEW op, RightKind(op), op.key # "native", NEW first, IsText(first), NEW t,
           Lawful(op.path, op.key, first, t), NEW command, Edited(command, op.kind, t) # Refused
    PROVE  Lawful(op.path, op.key, first, Edited(command, op.kind, t))
<1>1. CASE op.key = "block"
  <2>1. op.kind = "marker-block"
    BY <1>1 DEF RightKind
  <2> QED
    BY <1>1, <2>1, LawfulBlock
<1>2. CASE op.key = "mcp" /\ IsToml(op.path)
  <2>1. op.kind = "toml-table"
    BY <1>2 DEF RightKind
  <2> QED
    BY <1>2, <2>1, LawfulTable
<1>3. CASE op.key = "mcp" /\ ~IsToml(op.path)
  <2>1. op.kind = "json-object"
    BY <1>3 DEF RightKind
  <2> QED
    BY <1>3, <2>1, LawfulMember
<1>4. CASE op.key \notin {"mcp", "block"}
  <2>1. op.kind = "hook-array"
    BY <1>4 DEF RightKind
  <2> QED
    BY <1>4, <2>1, LawfulGroups
<1> QED
  BY <1>1, <1>2, <1>3, <1>4

\* What a file may hold before the first command is lawful.
LEMMA FirstLawful ==
    ASSUME NEW p, NEW key, key # "native", NEW t, Readable(p, key, t)
    PROVE  Lawful(p, key, t, t)
<1>1. ASSUME key = "mcp", IsToml(p) PROVE OneOwn(t)
  <2>1. PICK X : t \in Seq(X)
    BY <1>1 DEF Readable, IsText
  <2>2. PICK S \in SUBSET (1..Len(t)) : S = {i \in 1..Len(t) : t[i] \in OwnTables}
    OBVIOUS
  <2>3. Len(t) \in Nat /\ DOMAIN t = 1..Len(t)
    BY <2>1
  <2>4. Cardinality(S) <= 1
    BY <1>1, <2>2, <2>3 DEF Readable, WellFormedToml
  <2>5. \A i, j \in S : i = j
    BY <2>3, <2>4, Single
  <2> QED
    BY <2>2, <2>5 DEF OneOwn
<1> QED
  BY <1>1 DEF Lawful, Readable

LEMMA Tuples ==
    ASSUME NEW X, NEW a \in X, NEW b \in X, NEW c \in X
    PROVE  /\ <<a>> \in Seq(X) /\ Len(<<a>>) = 1 /\ <<a>>[1] = a
           /\ <<a, b>> \in Seq(X) /\ Len(<<a, b>>) = 2 /\ <<a, b>>[2] = b
           /\ <<a, b, c>> \in Seq(X) /\ Len(<<a, b, c>>) = 3 /\ <<a, b, c>>[1] = a
OBVIOUS

LEMMA TwoMore ==
    ASSUME NEW X, NEW s \in Seq(X), NEW a \in X, NEW b \in X
    PROVE  Append(Append(s, a), b) = s \o <<a, b>>
OBVIOUS

\* A text with more after it starts with the text, and owns what is there.
LEMMA Followed ==
    ASSUME NEW X, NEW s \in Seq(X), NEW r \in Seq(X)
    PROVE  IsPrefix(s, s \o r) /\ \A i \in 1..Len(r) : r[i] \in {"T", "B"} => Own(s \o r)
<1>1. PICK u \in Seq(X) : IsJoin(u, s, r)
  BY Joined, Zenon
<1>2. u = s \o r
  BY <1>1 DEF IsJoin
<1>3. Begins(u, s)
  BY <1>1 DEF IsJoin, Begins
<1>4. IsPrefix(s, u)
  BY <1>3, PrefixIs, Zenon
<1>5. ASSUME NEW i \in 1..Len(r), r[i] \in {"T", "B"} PROVE Own(u)
  <2>1. Len(s) + i \in DOMAIN u /\ u[Len(s) + i] = r[i]
    BY <1>1 DEF IsJoin
  <2> QED
    BY <1>5, <2>1 DEF Own
<1> QED
  BY <1>2, <1>4, <1>5

Stacked(t, s, gap, block, end) == t = s \o gap \o block \o end

LEMMA ThreeMore ==
    ASSUME NEW X, NEW s \in Seq(X), NEW gap \in Seq(X), NEW block \in Seq(X), NEW end \in Seq(X),
           Len(block) = 3, block[1] = "B", NEW t, Stacked(t, s, gap, block, end)
    PROVE  IsPrefix(s, t) /\ Own(t)
<1>1. PICK u \in Seq(X) : IsJoin(u, s, gap)
  BY Joined, Zenon
<1>2. PICK v \in Seq(X) : IsJoin(v, u, block)
  BY Joined, <1>1, Zenon
<1>3. PICK w \in Seq(X) : IsJoin(w, v, end)
  BY Joined, <1>2, Zenon
<1>4. t = w
  BY <1>1, <1>2, <1>3 DEF Stacked, IsJoin
<1>5. Begins(w, s)
  <2>1. Len(s) <= Len(u) /\ \A i \in 1..Len(s) : s[i] = u[i] /\ i \in 1..Len(u)
    BY <1>1 DEF IsJoin
  <2>2. Len(u) <= Len(v) /\ \A i \in 1..Len(u) : u[i] = v[i] /\ i \in 1..Len(v)
    BY <1>1, <1>2 DEF IsJoin
  <2>3. Len(v) <= Len(w) /\ \A i \in 1..Len(v) : v[i] = w[i]
    BY <1>2, <1>3 DEF IsJoin
  <2> QED
    BY <1>1, <1>2, <1>3, <2>1, <2>2, <2>3 DEF Begins
<1>6. IsPrefix(s, w)
  BY <1>3, <1>5, PrefixIs, Zenon
<1>7. Own(w)
  <2>1. PICK i : i = Len(u) + 1 /\ i \in 1..Len(v) /\ v[i] = "B"
    <3>1. 1 \in 1..Len(block) /\ Len(v) = Len(u) + Len(block) /\ v[Len(u) + 1] = block[1]
      BY <1>1, <1>2 DEF IsJoin
    <3> QED
      BY <1>1, <3>1
  <2>2. i \in 1..Len(w) /\ w[i] = "B"
    BY <1>2, <1>3, <2>1 DEF IsJoin
  <2> QED
    BY <1>3, <2>2 DEF Own
<1> QED
  BY <1>4, <1>6, <1>7

\* What is lawful is what GivenBack says.
LEMMA LawfulGivesBack ==
    ASSUME NEW p, NEW key, NEW first, IsText(first), NEW t, Lawful(p, key, first, t),
           AddedAtEnd(p, key, first), ~Own(first), ~BareReturn(first)
    PROVE  IsPrefix(first, t) /\ (~Own(t) => t = first)
<1>1. PICK X : first \in Seq(X)
  BY DEF IsText
<1>2. PICK Y : Y = X \cup {"T", "B", "E", "n", Current}
  OBVIOUS
<1>3. "n" \in Y /\ "T" \in Y /\ Current \in Y /\ "B" \in Y /\ "E" \in Y
  BY <1>2
<1>4. first \in Seq(Y)
  <2>1. X \subseteq Y
    BY <1>2
  <2> QED
    BY <1>1, <2>1, Widened, Zenon
<1>5. t = first \/ t = With(key, first)
  BY DEF Lawful
<1>6. ASSUME NEW r \in Seq(Y), t = first \o r, \E i \in 1..Len(r) : r[i] \in {"T", "B"}
      PROVE  IsPrefix(first, t) /\ Own(t)
  BY <1>4, <1>6, Followed, Zenon
<1>7. CASE t = first
  <2>1. Begins(first, first)
    BY <1>4 DEF Begins
  <2>2. IsPrefix(first, first)
    BY <1>4, <2>1, PrefixIs, Zenon
  <2> QED
    BY <1>7, <2>2
<1>8. CASE t = WithTable(first) /\ first = <<>>
  <2>1. t = <<"T">>
    BY <1>8 DEF WithTable
  <2>2. IsPrefix(first, t)
    <3>1. t \in Seq(Y)
      BY <1>3, <2>1, OfOne, Zenon
    <3>2. Begins(t, first)
      BY <1>8, <2>1 DEF Begins
    <3> QED
      BY <1>4, <3>1, <3>2, PrefixIs, Zenon
  <2>3. Own(t)
    BY <2>1 DEF Own
  <2> QED
    BY <2>2, <2>3
<1>9. CASE t = WithTable(first) /\ first # <<>>
  <2>1. t = Append(Append(first, "n"), "T")
    BY <1>9 DEF WithTable
  <2>2. t = first \o <<"n", "T">>
    BY <1>3, <1>4, <2>1, TwoMore, Zenon
  <2>3. <<"n", "T">> \in Seq(Y) /\ Len(<<"n", "T">>) = 2 /\ <<"n", "T">>[2] = "T"
    BY <1>3, Tuples, Zenon
  <2>4. PICK r \in Seq(Y) : r = <<"n", "T">>
    BY <2>3
  <2>5. \E i \in 1..Len(r) : r[i] \in {"T", "B"}
    BY <2>3, <2>4
  <2> QED
    BY <1>6, <2>2, <2>4, <2>5
<1>10. CASE t = WithBlock(first)
  <2>1. PICK gap \in Seq(Y) : gap = IF first = <<>> THEN <<>> ELSE <<"n">>
    <3>1. <<"n">> \in Seq(Y)
      BY <1>3, OfOne, Zenon
    <3>2. <<>> \in Seq(Y)
      OBVIOUS
    <3> QED
      BY <3>1, <3>2, Zenon
  <2>2. PICK end \in Seq(Y) : end = <<"n">>
    BY <1>3, OfOne, Zenon
  <2>3. <<"B", Current, "E">> \in Seq(Y) /\ Len(<<"B", Current, "E">>) = 3 /\ <<"B", Current, "E">>[1] = "B"
    BY <1>3, Tuples, Zenon
  <2>4. PICK block \in Seq(Y) : block = Block(Current) /\ Len(block) = 3 /\ block[1] = "B"
    BY <2>3, Zenon DEF Block
  <2>5. t = first \o gap \o block \o end
    BY <1>10, <2>1, <2>2, <2>4 DEF WithBlock
  <2>6. Stacked(t, first, gap, block, end)
    BY <2>5 DEF Stacked
  <2>7. gap \in Seq(Y) /\ end \in Seq(Y) /\ block \in Seq(Y) /\ Len(block) = 3 /\ block[1] = "B"
    BY <2>1, <2>2, <2>4
  <2>8. IsPrefix(first, t) /\ Own(t)
    BY <1>4, <2>6, <2>7, ThreeMore, Zenon
  <2> QED
    BY <2>8
<1> QED
  BY <1>5, <1>7, <1>8, <1>9, <1>10 DEF With
-----------------------------------------------------------------------------
(* The texts of the files, from a command to the next *)

\* f holds what installs and removals alone have made of the first text of p.
Kept(p, first, f) ==
    \A key \in KeysOf(p) \ {"native"} : Lawful(p, key, first[p].text[key], f.text[key])

\* No change that is asked about or written was refused.
Planned ==
    run.pc \in Writing \cup {"asking"} =>
        /\ \A op \in run.changes : op.path \in DOMAIN run.snap =>
              RightKind(op) /\ Edit(run.command, op, run.snap) # Refused
        /\ run.pc # "asking" => run.accepted \subseteq run.changes

\* Of a file nobody else was ever at, all there is has been kept: in the file, in what
\* planning read, and in what the ledger would put back.
KeptTexts ==
    \A p \in Paths \ others.ever :
        /\ Kept(p, others.first, files[p])
        /\ p \in DOMAIN run.snap => Kept(p, others.first, run.snap[p])
        /\ run.pc \in {"replacing", "landed"} => (p = Target => Kept(p, others.first, run.backup))
        /\ \A i \in DOMAIN run.writes :
              run.writes[i].path = p => Kept(p, others.first, run.writes[i].backup)

TextsKept == Planned /\ KeptTexts

\* What there was before the first command is lawful.
LEMMA FirstTexts ==
    ASSUME OthersTyped, NEW p \in Paths, NEW key \in KeysOf(p) \ {"native"}
    PROVE  /\ IsText(others.first[p].text[key])
           /\ Lawful(p, key, others.first[p].text[key], others.first[p].text[key])
<1>1. others.first \in Found
  BY DEF OthersTyped
<1>2. Readable(p, key, others.first[p].text[key])
  BY <1>1, FoundAssumption
<1>3. Lawful(p, key, others.first[p].text[key], others.first[p].text[key])
  BY <1>2, FirstLawful
<1> QED
  BY <1>3 DEF Lawful

\* Every harness edits each of its files the one way.
LEMMA Kinds ==
    ASSUME NEW command, NEW harnesses \in Selections, NEW snap, NEW op \in Operations(command, harnesses, snap)
    PROVE  RightKind(op)
<1>1. PICK h \in ToSet(harnesses) : op \in OwnOperations(h) \cup NativeMemory(h)
  BY DEF Operations
<1>2. h \in {"claude", "codex", "cursor", "kiro"}
  <2>1. harnesses \in Seq(DOMAIN HARNESSES)
    BY SelectionsAssumption
  <2>2. h \in DOMAIN HARNESSES
    BY <1>1, <2>1 DEF ToSet
  <2> QED
    BY <2>2 DEF HARNESSES
<1>3. CASE op \in NativeMemory(h)
  <2>1. op.key = "native" /\ op.kind = "setting"
    BY <1>2, <1>3 DEF NativeMemory, NativeSwitch, Op
  <2> QED
    BY <2>1 DEF RightKind
<1>4. CASE h = "claude" /\ op \in OwnOperations(h)
  BY <1>4 DEF OwnOperations, HARNESSES, ClaudeCodeOperations, ClaudeCodeTargets, CodexTargets, HookOps, Op,
       SessionEvents, RightKind, IsToml
<1>5. CASE h = "codex" /\ op \in OwnOperations(h)
  BY <1>5 DEF OwnOperations, HARNESSES, CodexOperations, CodexTargets, HookOps, Op,
       SessionEvents, RightKind, IsToml
<1>6. CASE h = "cursor" /\ op \in OwnOperations(h)
  BY <1>6 DEF OwnOperations, HARNESSES, CursorOperations, CursorTargets, CodexTargets, ProtocolOps, Op, RightKind, IsToml
<1>7. CASE h = "kiro" /\ op \in OwnOperations(h)
  BY <1>7 DEF OwnOperations, HARNESSES, KiroOperations, KiroTargets, CodexTargets, ProtocolOps, Op, RightKind, IsToml
<1> QED
  BY <1>1, <1>2, <1>3, <1>4, <1>5, <1>6, <1>7

\* What a command is about to write of a file it read is lawful.
LEMMA NewTextKept ==
    ASSUME Shaped, TextsKept, run.pc \in Writing, run.pending # {}, Target \notin others.ever
    PROVE  /\ Kept(Target, others.first, Written)
           /\ Deleting(Target) => Kept(Target, others.first, Absent(Target))
<1>1. Target \in Paths /\ Target \in DOMAIN run.snap /\ OthersTyped
  BY Aimed DEF Shaped
<1>2. PICK p \in Paths : p = Target
  BY <1>1
<1>3. Kept(p, others.first, run.snap[p])
  BY <1>1, <1>2 DEF TextsKept, KeptTexts
<1>4. ASSUME NEW key \in KeysOf(p) \ {"native"}
      PROVE  Lawful(p, key, others.first[p].text[key], NewText[key])
  <2>1. PICK first, t : first = others.first[p].text[key] /\ t = run.snap[p].text[key]
    OBVIOUS
  <2>2. Lawful(p, key, first, t) /\ IsText(first)
    BY <1>1, <1>3, <2>1, FirstTexts DEF Kept
  <2>3. PICK mine : mine = {op \in run.accepted : op.path = p /\ op.key = key}
    OBVIOUS
  <2>4. NewText[key] = IF mine = {} THEN t ELSE Edit(run.command, CHOOSE op \in mine : TRUE, run.snap)
    BY <1>2, <2>1, <2>3 DEF NewText, RenderedText
  <2>5. CASE mine = {}
    BY <2>1, <2>2, <2>4, <2>5
  <2>6. CASE mine # {}
    <3>1. PICK op \in mine : op = CHOOSE o \in mine : TRUE
      BY <2>6
    <3>2. op \in run.changes /\ op.path = p /\ op.key = key
      <4>1. run.accepted \subseteq run.changes
        BY DEF TextsKept, Planned, Writing
      <4> QED
        BY <2>3, <3>1, <4>1
    <3>3. RightKind(op) /\ Edit(run.command, op, run.snap) # Refused
      BY <1>1, <1>2, <3>2 DEF TextsKept, Planned
    <3>4. Edit(run.command, op, run.snap) = Edited(run.command, op.kind, t)
      BY <2>1, <3>2 DEF Edit, Edited
    <3>5. Lawful(p, key, first, Edited(run.command, op.kind, t))
      BY <2>2, <3>2, <3>3, <3>4, LawfulEdit
    <3> QED
      BY <2>1, <2>4, <2>6, <3>1, <3>4, <3>5
  <2> QED
    BY <2>5, <2>6
<1>5. Written.text = NewText
  BY DEF Written
<1>6. Kept(p, others.first, Written)
  BY <1>4, <1>5 DEF Kept
<1>7. ASSUME Deleting(p) PROVE Kept(p, others.first, Absent(p))
  <2>1. \A key \in KeysOf(p) : NewText[key] = <<>> /\ Absent(p).text[key] = <<>>
    BY <1>7 DEF Deleting, Absent
  <2> QED
    BY <1>4, <2>1 DEF Kept
<1> QED
  BY <1>2, <1>6, <1>7

\* Before the first command every text is as it was found.
LEMMA InitTexts == InstallInit => TextsKept
<1> SUFFICES ASSUME InstallInit PROVE TextsKept
  OBVIOUS
<1>1. OthersTyped
  BY InitTransacted DEF Transacted, Shaped
<1>2. run.pc = "idle" /\ DOMAIN run.snap = {} /\ run.writes = <<>> /\ others.first = files
  BY DEF InstallInit, NoRun
<1>3. Planned
  BY <1>2 DEF Planned, Writing
<1>4. \A p \in Paths : Kept(p, others.first, files[p])
  BY <1>1, <1>2, FirstTexts DEF Kept
<1> QED
  BY <1>2, <1>3, <1>4 DEF TextsKept, KeptTexts

\* A step that only moves on.
LEMMA TextsMove ==
    ASSUME Transacted, TextsKept, NEW pc, run' = [run EXCEPT !.pc = pc],
           UNCHANGED <<files, others>>,
           pc \notin {"asking", "replacing", "landed"},
           pc \in Writing => run.pc \in Writing
    PROVE  TextsKept'
<1>1. DOMAIN run = RunFields
  BY DEF Transacted, Shaped
<1>2. /\ run'.pc = pc /\ run'.snap = run.snap /\ run'.writes = run.writes
      /\ run'.command = run.command /\ run'.changes = run.changes /\ run'.accepted = run.accepted
  BY <1>1 DEF RunFields
<1>3. Planned'
  BY <1>2 DEF TextsKept, Planned, Writing
<1>4. KeptTexts'
  BY <1>2 DEF TextsKept, KeptTexts
<1> QED
  BY <1>3, <1>4 DEF TextsKept

LEMMA TextsSame ==
    ASSUME TextsKept, UNCHANGED <<files, run, others>>
    PROVE  TextsKept'
<1>1. Target' = Target
  BY TargetSame
<1> QED
  BY <1>1 DEF TextsKept, Planned, KeptTexts

\* Planning reads the files, and refuses what an editor refused.
LEMMA TextsPlan ==
    ASSUME Transacted, TextsKept, NEW command, NEW harnesses \in Selections, PlanRun(command, harnesses)
    PROVE  TextsKept'
<1>1. PICK targets : targets = ToSet(TargetPaths(harnesses))
  OBVIOUS
<1>2. PICK changes : changes = {op \in Operations(command, harnesses, files) :
                                   Edit(command, op, files) # files[op.path].text[op.key]}
  OBVIOUS
<1>3. /\ run'.command = command /\ run'.snap = [p \in targets |-> files[p]] /\ run'.changes = changes
      /\ run'.writes = <<>> /\ run'.pc \in {"refused", "asking"}
      /\ run'.pc = "asking" => \A op \in changes : Edit(command, op, files) # Refused
      /\ UNCHANGED files /\ others' = [others EXCEPT !.touched = {}]
  BY <1>1, <1>2 DEF PlanRun, NoRun
<1>4. others'.ever = others.ever /\ others'.first = others.first
  BY <1>3 DEF Transacted, Shaped, OthersTyped
<1>5. Planned'
  <2>1. ASSUME run'.pc = "asking", NEW op \in run'.changes, op.path \in DOMAIN run'.snap
        PROVE  RightKind(op) /\ Edit(run'.command, op, run'.snap) # Refused
    <3>1. RightKind(op)
      BY <1>2, <1>3, Kinds
    <3>2. run'.snap[op.path] = files[op.path]
      BY <1>3, <2>1
    <3>3. Edit(command, op, run'.snap) = Edit(command, op, files)
      BY <3>2 DEF Edit
    <3> QED
      BY <1>3, <2>1, <3>1, <3>3
  <2> QED
    BY <1>3, <2>1 DEF Planned, Writing
<1>6. KeptTexts'
  BY <1>3, <1>4 DEF TextsKept, KeptTexts
<1> QED
  BY <1>5, <1>6 DEF TextsKept

\* What is accepted was planned.
LEMMA TextsConfirm ==
    ASSUME Transacted, TextsKept, NEW accepted, NEW next \in {"store", "checking", "refused"},
           Confirm(accepted, next)
    PROVE  TextsKept'
<1>1. /\ run.pc = "asking" /\ accepted \subseteq run.changes /\ UNCHANGED <<files, others>>
      /\ run'.pc = next /\ run'.snap = run.snap /\ run'.writes = run.writes
      /\ run'.command = run.command /\ run'.changes = run.changes /\ run'.accepted = accepted
  BY DEF Confirm, Transacted, Shaped, RunFields
<1>2. Planned'
  BY <1>1 DEF TextsKept, Planned, Writing
<1>3. KeptTexts'
  BY <1>1 DEF TextsKept, KeptTexts
<1> QED
  BY <1>2, <1>3 DEF TextsKept

\* The backup taken is of the file, or of none there was.
LEMMA TextsPrepare ==
    ASSUME Transacted, TextsKept, Prepare
    PROVE  TextsKept'
<1>1. /\ Shaped /\ run.pc = "preparing" /\ UNCHANGED <<files, others>> /\ run.pending # {}
      /\ DOMAIN run = RunFields
  BY DEF Transacted, Shaped, Prepare, Writing
<1>2. CASE Existed(Target) /\ files[Target].is = "absent"
  <2>1. run' = [run EXCEPT !.pc = "rolling"]
    BY <1>2 DEF Prepare
  <2> QED
    BY <1>1, <2>1, TextsMove DEF Writing
<1>3. CASE ~(Existed(Target) /\ files[Target].is = "absent")
  <2>1. PICK backup : backup = IF Existed(Target) THEN files[Target] ELSE Absent(Target)
    OBVIOUS
  <2>2. run' = [run EXCEPT !.pc = "replacing", !.backup = backup]
    BY <1>3, <2>1 DEF Prepare
  <2>3. /\ run'.pc = "replacing" /\ run'.backup = backup /\ run'.snap = run.snap /\ run'.writes = run.writes
        /\ run'.command = run.command /\ run'.changes = run.changes /\ run'.accepted = run.accepted
        /\ run'.harnesses = run.harnesses /\ run'.pending = run.pending
    BY <1>1, <2>2 DEF RunFields
  <2>4. Target' = Target
    BY <2>3, TargetSame
  <2>5. Target \in Paths /\ Target \in DOMAIN run.snap /\ Sound(Target, run.snap[Target])
    BY <1>1, Aimed DEF Writing
  <2>6. Target \notin others.ever => Kept(Target, others.first, backup)
    <3>1. CASE Existed(Target)
      BY <2>1, <2>5, <3>1 DEF TextsKept, KeptTexts
    <3>2. CASE ~Existed(Target)
      <4>1. run.snap[Target] = Absent(Target)
        BY <2>5, <3>2, StandsOrNot DEF Existed, Sound
      <4> QED
        BY <2>1, <2>5, <3>2, <4>1 DEF TextsKept, KeptTexts
    <3> QED
      BY <3>1, <3>2
  <2>7. Planned'
    BY <1>1, <2>3 DEF TextsKept, Planned, Writing
  <2>8. KeptTexts'
    BY <1>1, <2>3, <2>4, <2>6 DEF TextsKept, KeptTexts
  <2> QED
    BY <2>7, <2>8 DEF TextsKept
<1> QED
  BY <1>2, <1>3

\* What is written is the rendering of what was read.
LEMMA TextsReplace ==
    ASSUME Transacted, TextsKept, Replace
    PROVE  TextsKept'
<1>1. /\ Shaped /\ run.pc = "replacing" /\ UNCHANGED others /\ run.pending # {}
      /\ files' = [files EXCEPT ![Target] = Written] /\ DOMAIN run = RunFields
      /\ run' = [run EXCEPT !.pc = "landed"]
  BY DEF Transacted, Shaped, Replace, Writing
<1>2. /\ run'.pc = "landed" /\ run'.backup = run.backup /\ run'.snap = run.snap /\ run'.writes = run.writes
      /\ run'.command = run.command /\ run'.changes = run.changes /\ run'.accepted = run.accepted
      /\ run'.harnesses = run.harnesses /\ run'.pending = run.pending
  BY <1>1 DEF RunFields
<1>3. Target' = Target
  BY <1>2, TargetSame
<1>4. Target \notin others.ever => Kept(Target, others.first, Written)
  BY <1>1, NewTextKept DEF Writing
<1>5. ASSUME NEW p \in Paths \ others.ever PROVE Kept(p, others.first, files'[p])
  <2>1. DOMAIN files = Paths
    BY <1>1 DEF Shaped
  <2> QED
    BY <1>1, <1>4, <1>5, <2>1 DEF TextsKept, KeptTexts
<1>6. Planned'
  BY <1>1, <1>2 DEF TextsKept, Planned, Writing
<1>7. KeptTexts'
  BY <1>1, <1>2, <1>3, <1>5 DEF TextsKept, KeptTexts
<1> QED
  BY <1>6, <1>7 DEF TextsKept

\* A write joins the ledger with what was there.
LEMMA TextsLedger ==
    ASSUME Transacted, TextsKept, NEW entry, UNCHANGED others,
           run.pc \in {"replacing", "landed"}, entry.path = Target, entry.backup = run.backup,
           NEW pc \in {"checking", "rolling"},
           /\ run'.pc = pc /\ run'.snap = run.snap /\ run'.writes = Append(run.writes, entry)
           /\ run'.command = run.command /\ run'.changes = run.changes /\ run'.accepted = run.accepted,
           \A p \in Paths \ others.ever : Kept(p, others.first, files'[p])
    PROVE  TextsKept'
<1>1. IsSequence(run.writes)
  BY DEF Transacted, LedgerShaped
<1>2. /\ DOMAIN run.writes = 1..Len(run.writes) /\ Len(run.writes) \in Nat
      /\ DOMAIN run'.writes = 1..(Len(run.writes) + 1)
      /\ \A i \in DOMAIN run.writes : run'.writes[i] = run.writes[i]
      /\ run'.writes[Len(run.writes) + 1] = entry
  BY <1>1, Appended
<1>3. Planned'
  BY DEF TextsKept, Planned, Writing
<1>4. ASSUME NEW p \in Paths \ others.ever, NEW i \in DOMAIN run'.writes, run'.writes[i].path = p
      PROVE  Kept(p, others.first, run'.writes[i].backup)
  <2>1. CASE i \in DOMAIN run.writes
    BY <1>2, <1>4, <2>1 DEF TextsKept, KeptTexts
  <2>2. CASE i \notin DOMAIN run.writes
    <3>1. i = Len(run.writes) + 1
      BY <1>2, <1>4, <2>2
    <3> QED
      BY <1>2, <1>4, <3>1 DEF TextsKept, KeptTexts
  <2> QED
    BY <2>1, <2>2
<1>5. KeptTexts'
  BY <1>4 DEF TextsKept, KeptTexts
<1> QED
  BY <1>3, <1>5 DEF TextsKept

LEMMA TextsRecord ==
    ASSUME Transacted, TextsKept, Record
    PROVE  TextsKept'
<1>1. PICK entry : entry = WriteEntry(Written)
  OBVIOUS
<1>2. entry.path = Target /\ entry.backup = run.backup
  BY <1>1 DEF WriteEntry
<1>3. /\ run.pc = "landed" /\ UNCHANGED <<files, others>> /\ DOMAIN run = RunFields
      /\ run' = [run EXCEPT !.pc = "checking", !.pending = @ \ {Target}, !.writes = Append(@, entry)]
  BY <1>1 DEF Record, Transacted, Shaped
<1>4. /\ run'.pc = "checking" /\ run'.snap = run.snap /\ run'.writes = Append(run.writes, entry)
      /\ run'.command = run.command /\ run'.changes = run.changes /\ run'.accepted = run.accepted
  BY <1>3 DEF RunFields
<1>5. \A p \in Paths \ others.ever : Kept(p, others.first, files'[p])
  BY <1>3 DEF TextsKept, KeptTexts
<1> QED
  BY <1>2, <1>3, <1>4, <1>5, TextsLedger

\* A file goes when nothing is left in it.
LEMMA TextsUnlink ==
    ASSUME Transacted, TextsKept, Unlink
    PROVE  TextsKept'
<1>1. PICK entry : entry = WriteEntry(Absent(Target))
  OBVIOUS
<1>2. entry.path = Target /\ entry.backup = run.backup
  BY <1>1 DEF WriteEntry
<1>3. /\ Shaped /\ run.pc = "replacing" /\ run.pending # {} /\ Deleting(Target) /\ UNCHANGED others
      /\ DOMAIN run = RunFields
  BY DEF Unlink, Transacted, Shaped, Writing
<1>4. Target \notin others.ever => Kept(Target, others.first, Absent(Target))
  BY <1>3, NewTextKept DEF Writing
<1>5. CASE /\ files' = [files EXCEPT ![Target] = Absent(Target)]
           /\ run' = [run EXCEPT !.pc = "checking", !.pending = @ \ {Target}, !.writes = Append(@, entry)]
  <2>1. /\ run'.pc = "checking" /\ run'.snap = run.snap /\ run'.writes = Append(run.writes, entry)
        /\ run'.command = run.command /\ run'.changes = run.changes /\ run'.accepted = run.accepted
    BY <1>3, <1>5 DEF RunFields
  <2>2. ASSUME NEW p \in Paths \ others.ever PROVE Kept(p, others.first, files'[p])
    BY <1>3, <1>4, <1>5, <2>2 DEF Shaped, TextsKept, KeptTexts
  <2> QED
    BY <1>2, <1>3, <2>1, <2>2, TextsLedger
<1>6. CASE /\ run' = [run EXCEPT !.pc = "rolling", !.writes = Append(@, entry)]
           /\ UNCHANGED files
  <2>1. /\ run'.pc = "rolling" /\ run'.snap = run.snap /\ run'.writes = Append(run.writes, entry)
        /\ run'.command = run.command /\ run'.changes = run.changes /\ run'.accepted = run.accepted
    BY <1>3, <1>6 DEF RunFields
  <2>2. \A p \in Paths \ others.ever : Kept(p, others.first, files'[p])
    BY <1>6 DEF TextsKept, KeptTexts
  <2> QED
    BY <1>2, <1>3, <2>1, <2>2, TextsLedger
<1> QED
  BY <1>1, <1>5, <1>6 DEF Unlink

LEMMA TextsFail ==
    ASSUME Transacted, TextsKept, Fail
    PROVE  TextsKept'
<1>1. /\ run'.pc = "rolling" /\ run'.snap = run.snap /\ run'.writes = run.writes
      /\ UNCHANGED <<files, others>>
  BY DEF Fail, Transacted, Shaped, RunFields
<1>2. Planned'
  BY <1>1 DEF Planned, Writing
<1>3. KeptTexts'
  BY <1>1 DEF TextsKept, KeptTexts
<1> QED
  BY <1>2, <1>3 DEF TextsKept

\* A rollback puts back what has been kept, or leaves what there is.
LEMMA TextsUndo ==
    ASSUME Transacted, TextsKept, run.pc \in {"rolling", "restoring"}, run.writes # <<>>, UNCHANGED others,
           run'.pc = "rolling", run'.snap = run.snap, run'.writes = Front(run.writes),
           NEW p, p = Last(run.writes).path,
           files' = files \/ files' = [files EXCEPT ![p] = BeforeWrite(Last(run.writes))]
    PROVE  TextsKept'
<1>1. Shaped /\ IsSequence(run.writes) /\ DOMAIN files = Paths
  BY DEF Transacted, Shaped, LedgerShaped
<1>2. /\ DOMAIN run.writes = 1..Len(run.writes) /\ Len(run.writes) \in Nat \ {0}
      /\ \A i \in DOMAIN Front(run.writes) : i \in DOMAIN run.writes /\ Front(run.writes)[i] = run.writes[i]
      /\ Last(run.writes) = run.writes[Len(run.writes)]
  BY <1>1, Shortened
<1>3. PICK write : write = Last(run.writes)
  OBVIOUS
<1>4. /\ Len(run.writes) \in DOMAIN run.writes /\ write = run.writes[Len(run.writes)]
      /\ Sound(p, write.backup) /\ p \in Paths /\ p = write.path
  BY <1>2, <1>3 DEF Transacted, LedgerShaped, Shaped
<1>5. p \notin others.ever => Kept(p, others.first, write.backup)
  BY <1>4 DEF TextsKept, KeptTexts
<1>6. PICK restored : restored = BeforeWrite(write)
  OBVIOUS
<1>7. restored.text = write.backup.text
  BY <1>4, <1>6, Before
<1>8. files' = files \/ files' = [files EXCEPT ![p] = restored]
  BY <1>3, <1>6
<1>10. Planned'
  BY DEF Planned, Writing
<1>11. ASSUME NEW q \in Paths \ others.ever PROVE Kept(q, others.first, files'[q])
  <2>1. p \notin others.ever => Kept(p, others.first, restored)
    BY <1>5, <1>7 DEF Kept
  <2> QED
    BY <1>1, <1>4, <1>8, <1>11, <2>1 DEF TextsKept, KeptTexts
<1>12. KeptTexts'
  BY <1>1, <1>2, <1>11 DEF TextsKept, KeptTexts
<1> QED
  BY <1>10, <1>12 DEF TextsKept

LEMMA TextsLeave ==
    ASSUME Transacted, TextsKept, run.pc \in {"rolling", "restoring"}, run.writes # <<>>, Leave
    PROVE  TextsKept'
<1>1. /\ run'.pc = "rolling" /\ run'.snap = run.snap /\ run'.writes = Front(run.writes)
      /\ UNCHANGED others /\ files' = files
  BY DEF Leave, Transacted, Shaped, RunFields
<1> QED
  BY <1>1, TextsUndo

LEMMA TextsCheck ==
    ASSUME Transacted, TextsKept, CheckWritten
    PROVE  TextsKept'
<1>1. run.pc = "rolling" /\ run.writes # <<>> /\ DOMAIN run = RunFields
  BY DEF CheckWritten, Transacted, Shaped
<1>2. CASE run' = [run EXCEPT !.pc = "restoring"] /\ UNCHANGED <<files, others>>
  BY <1>1, <1>2, TextsMove DEF Writing
<1>3. CASE run' = [run EXCEPT !.writes = Front(@)] /\ UNCHANGED <<files, others>>
  <2>1. run'.pc = "rolling" /\ run'.snap = run.snap /\ run'.writes = Front(run.writes)
    BY <1>1, <1>3 DEF RunFields
  <2> QED
    BY <1>1, <1>3, <2>1, TextsUndo
<1> QED
  BY <1>1, <1>2, <1>3, TextsLeave DEF CheckWritten

LEMMA TextsRestore ==
    ASSUME Transacted, TextsKept, Restore
    PROVE  TextsKept'
<1>1. run.pc = "restoring" /\ run.writes # <<>> /\ DOMAIN run = RunFields
  BY DEF Restore, Transacted, Shaped, LedgerShaped
<1>2. PICK p : p = Last(run.writes).path
  OBVIOUS
<1>3. CASE /\ files' = [files EXCEPT ![p] = BeforeWrite(Last(run.writes))]
           /\ run' = [run EXCEPT !.pc = "rolling", !.writes = Front(@)]
           /\ UNCHANGED others
  <2>1. run'.pc = "rolling" /\ run'.snap = run.snap /\ run'.writes = Front(run.writes)
    BY <1>1, <1>3 DEF RunFields
  <2> QED
    BY <1>1, <1>2, <1>3, <2>1, TextsUndo
<1> QED
  BY <1>1, <1>2, <1>3, TextsLeave DEF Restore

\* A file somebody else was at is no longer spoken of.
LEMMA TextsUser ==
    ASSUME Transacted, TextsKept, UserStep
    PROVE  TextsKept'
<1>1. PICK p \in Paths : UserEdits(p) \/ UserCreates(p) \/ UserDeletes(p) \/ UserLinks(p)
  BY DEF UserStep
<1>2. /\ UNCHANGED run /\ others'.ever = others.ever \cup {p} /\ others'.first = others.first
  BY <1>1 DEF UserEdits, UserCreates, UserDeletes, UserLinks, Touch, Transacted, Shaped, OthersTyped
<1>3. \A q \in Paths \ {p} : files'[q] = files[q]
  BY <1>1 DEF UserEdits, UserCreates, UserDeletes, UserLinks, Transacted, Shaped
<1>4. Target' = Target
  BY <1>2, TargetSame
<1>5. Planned'
  BY <1>2 DEF TextsKept, Planned
<1>6. KeptTexts'
  BY <1>2, <1>3, <1>4 DEF TextsKept, KeptTexts
<1> QED
  BY <1>5, <1>6 DEF TextsKept

LEMMA TextsWritten ==
    ASSUME Transacted, TextsKept, WriteStep
    PROVE  TextsKept'
<1>1. CASE Finish
  BY <1>1, TextsMove DEF Finish, Writing
<1>2. CASE CheckUnchanged
  <2>1. PICK pc \in {"preparing", "rolling"} : run' = [run EXCEPT !.pc = pc]
    BY <1>2 DEF CheckUnchanged
  <2>2. run.pc = "checking" /\ UNCHANGED <<files, others>>
    BY <1>2 DEF CheckUnchanged
  <2> QED
    BY <2>1, <2>2, TextsMove DEF Writing
<1>3. CASE RolledBack
  BY <1>3, TextsMove DEF RolledBack, Writing
<1>4. CASE Kill
  BY <1>4, TextsMove DEF Kill, Writing
<1> QED
  BY <1>1, <1>2, <1>3, <1>4, TextsPrepare, TextsReplace, TextsRecord, TextsUnlink,
     TextsFail, TextsCheck, TextsRestore DEF WriteStep

\* Every step keeps the texts.
LEMMA TextsNext == Transacted /\ TextsKept /\ [InstallNext]_installVars => TextsKept'
<1> SUFFICES ASSUME Transacted, TextsKept, [InstallNext]_installVars PROVE TextsKept'
  OBVIOUS
<1>1. CASE Begin
  BY <1>1, TextsPlan DEF Begin
<1>2. CASE Answered
  BY <1>2, TextsConfirm DEF Answered
<1>3. CASE UNCHANGED installVars
  BY <1>3, TextsSame DEF installVars
<1> QED
  BY <1>1, <1>2, <1>3, TextsWritten, TextsUser DEF InstallNext

\* Texts so kept are what is given back.
LEMMA KeptIsGivenBack == Transacted /\ TextsKept => GivenBack
<1> SUFFICES ASSUME Transacted, TextsKept, NEW p \in Paths \ others.ever, NEW key \in KeysOf(p) \ {"native"}
             PROVE  LET t == files[p].text[key]  first == others.first[p].text[key] IN
                    /\ Foreign(p, key, t) = Foreign(p, key, first)
                    /\ AddedAtEnd(p, key, first) /\ ~Own(first) /\ ~BareReturn(first) =>
                          IsPrefix(first, t) /\ (~Own(t) => t = first)
  BY DEF GivenBack
<1>1. PICK t, first : t = files[p].text[key] /\ first = others.first[p].text[key]
  OBVIOUS
<1>2. Lawful(p, key, first, t) /\ IsText(first)
  BY <1>1, FirstTexts DEF Transacted, Shaped, TextsKept, KeptTexts, Kept
<1>3. Foreign(p, key, t) = Foreign(p, key, first)
  BY <1>2 DEF Lawful
<1>4. AddedAtEnd(p, key, first) /\ ~Own(first) /\ ~BareReturn(first) => IsPrefix(first, t) /\ (~Own(t) => t = first)
  BY <1>2, LawfulGivesBack
<1> QED
  BY <1>1, <1>3, <1>4

\* Whatever sequence of installs and uninstalls, interrupted, failed or rolled back, a file nobody
\* else was at keeps all that is not memriver's, and a text that memriver's entry is added to at
\* its end is the one found again, token for token, once the entry is out: for files and texts of any size.
THEOREM GivenBackHolds == InstallSpec => []GivenBack
<1>1. InstallInit => Transacted /\ TextsKept
  BY InitTransacted, InitTexts
<1>2. (Transacted /\ TextsKept) /\ [InstallNext]_installVars => (Transacted /\ TextsKept)'
  BY TransactedNext, TextsNext
<1> QED
  BY <1>1, <1>2, KeptIsGivenBack, PTL DEF InstallSpec

\* A command of the whole system starts with nothing planned.
LEMMA TextsStart ==
    ASSUME TextsKept, NEW number, run' = [NoRun EXCEPT !.number = number], UNCHANGED <<files, others>>
    PROVE  TextsKept'
<1>1. run'.pc = "idle" /\ DOMAIN run'.snap = {} /\ DOMAIN run'.writes = {}
  BY DEF NoRun
<1> QED
  BY <1>1 DEF TextsKept, Planned, KeptTexts, Writing

LEMMA TextsInSetup == Transacted /\ Named /\ TextsKept /\ [SetupNext]_setupVars => TextsKept'
<1> SUFFICES ASSUME Transacted, Named, TextsKept, [SetupNext]_setupVars PROVE TextsKept'
  OBVIOUS
<1>1. CASE StartInstall \/ StartUninstall
  BY <1>1, TextsStart DEF StartInstall, StartUninstall
<1>2. CASE Answer
  BY <1>2, TextsConfirm DEF Answer
<1>3. CASE ApplyStore
  <2>1. CASE UNCHANGED run
    BY <1>3, <2>1, TextsSame DEF ApplyStore
  <2>2. CASE run' = [run EXCEPT !.pc = "checking"]
    BY <1>3, <2>2, TextsMove DEF ApplyStore, Writing
  <2>3. CASE run' = [run EXCEPT !.pc = "refused"]
    BY <1>3, <2>3, TextsMove DEF ApplyStore, Writing
  <2> QED
    BY <1>3, <2>1, <2>2, <2>3 DEF ApplyStore
<1>4. CASE ConfigStep
  BY <1>4, TextsPlan, TextsWritten DEF ConfigStep, Named
<1>5. CASE UNCHANGED installVars
  BY <1>5, TextsSame DEF installVars
<1> QED
  BY <1>1, <1>2, <1>3, <1>4, <1>5 DEF SetupNext, StartDreamInit, ConfigEnds, ScheduleStep, PurgeStep,
     PlanPurge, AnswerPurge, OpenPurge, EmptyDirectory, DetachRoot, PurgeFails, SwapStore, WriterStep, setupVars

\* So do whole commands, with the store, the schedule and the purge around them: they leave
\* in a file nobody else was at all that is not memriver's.
THEOREM SetupGivenBack == SetupSpec => []GivenBack
<1>1. SetupInit => Transacted /\ Named /\ TextsKept
  BY InitTransacted, InitTexts DEF SetupInit, Named, NoCommand
<1>2. (Transacted /\ Named /\ TextsKept) /\ [SetupNext]_setupVars => (Transacted /\ Named /\ TextsKept)'
  BY TransactedInSetup, NamedKept, TextsInSetup
<1>3. Transacted /\ Named /\ TextsKept => GivenBack
  BY KeptIsGivenBack
<1> QED
  BY <1>1, <1>2, <1>3, PTL DEF SetupSpec
=============================================================================
