---------------------------- MODULE MCSummaries ----------------------------
(* A session that fits only the smallest room beside one without records; and one whose *)
(* third part is denser than the estimate expects, which matters at the full room only. *)
EXTENDS Summaries, TLC
CONSTANTS s1, s2

\* A room is half the one before; the smallest holds one record.
Halved == [room \in 0..Halvings |-> 2 ^ (Halvings - room)]

OverBudget == {<<s1, 0, 1>>}
TooDense == {<<s1, 1, 1>>}
Lengths == s1 :> 3 @@ s2 :> 0

DenseThirdPart == {<<s1, 0, 3>>}
LongLength == s1 :> 6
=============================================================================
