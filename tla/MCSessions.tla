----------------------------- MODULE MCSessions -----------------------------
(* Two directories beside the store; in MCLinked one is a linked worktree of *)
(* the other.                                                                *)
EXTENDS Sessions, TLC

CONSTANTS home, store, a, b

MCDir == {home, store, a, b}
MCUp == [d \in MCDir |-> {d, home}]
MCPlain == [d \in MCDir |-> d]
MCLinked == [d \in MCDir |-> IF d = b THEN a ELSE d]
\* Only a comes and goes, or becomes a link to b.
MCMayLead == [d \in MCDir |-> IF d = a THEN {a, b, Gone} ELSE {d}]
OneTree == {home, store, a}
OneTreeUp == [d \in OneTree |-> {d, home}]
OneTreeMayLead == [d \in OneTree |-> {d}]
OneTreePlain == [d \in OneTree |-> d]
Interchangeable == Permutations(Project) \cup Permutations(Caller)
=============================================================================
