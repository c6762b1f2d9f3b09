--------------------------- MODULE MCScopePasses ---------------------------
(* Six stores: an entry citing a memory of each project, one of them rewritten since; the same    *)
(* two memories and no entry yet; two memories of one project; an entry that cites none; one a    *)
(* source of which today's policy hits; and one a source of which was retired and is carried on   *)
(* by another source.  Each lacks the ids it does not need.                                       *)
EXTENDS ScopePasses, TLC
CONSTANTS ma, mb, mg, mh, mn, P1, P2
Projects == <<P1, P2>>
Plain(p) == [project |-> p, retired |-> {}, cites |-> <<{}>>]
Entry == [project |-> Global, retired |-> {}, cites |-> <<{<<ma, 1>>, <<mb, 1>>}>>]
Only(some) == some @@ [m \in {ma, mb, mg, mh, mn} |-> Gone]
AnEntryOfTwo == Only(ma :> [Plain(P1) EXCEPT !.cites = <<{}, {}>>] @@ mb :> Plain(P2) @@ mg :> Entry)
NoEntryYet == Only(ma :> Plain(P1) @@ mb :> Plain(P2) @@ mg :> None)
TwoOfOne == Only(ma :> Plain(P1) @@ mb :> Plain(P1) @@ mn :> None)
AnEntryOfNone == Only(ma :> Plain(P1) @@ mg :> Plain(Global) @@ mn :> None)
AnEntryWithAHit ==
    Only(ma :> Plain(P1) @@ mh :> Plain(P2) @@ mg :> [Entry EXCEPT !.cites = <<{<<ma, 1>>, <<mh, 1>>}>>])
ACarriedSource ==
    Only(ma :> [Plain(P1) EXCEPT !.retired = {2}, !.cites = <<{}, {}>>]
         @@ mb :> [Plain(P1) EXCEPT !.cites = <<{}, {<<ma, 1>>}>>] @@ mg :> Entry)
Begin == {AnEntryOfTwo, NoEntryYet, TwoOfOne, AnEntryOfNone, AnEntryWithAHit, ACarriedSource}
AHit == {<<mh, 1>>}
OneOfGlobal == {mg :> Plain(Global) @@ mn :> None}
NoHits == {}
AllLayers == {{"consolidate", "extract"}}
Layers == AllLayers \cup {{"extract"}}
=============================================================================
