------------------------------- MODULE Editors -------------------------------
(***************************************************************************)
(* The editors of memriver install and uninstall (install/editors.py): pure *)
(* functions from the text of a harness's file to the text with memriver's  *)
(* entry in it, or without it.  A text is a sequence of tokens: "n" a line  *)
(* feed, "r" a carriage return, "x" any other bytes of the user's.  A       *)
(* managed block is the tokens "B", its body, "E"; a TOML table starts with *)
(* a token for its header and runs on to the next; the inside of a JSON     *)
(* container is its items, "c"ommas and "w"hitespace; a hook array is a     *)
(* sequence of groups and a group a sequence of handlers.  Parsing and      *)
(* rendering foreign values is left out: they are carried as they are.      *)
(***************************************************************************)
EXTENDS Integers, Sequences, FiniteSets, SequencesExt

\* PlanningError: the text is ambiguous, and the whole plan is given up.
CONSTANT Refused
ASSUME RefusedAssumption == Refused \notin Seq(Nat)

\* t less the tokens of marks, the others in their order.
Without(t, marks) ==
    LET kept[i \in 0..Len(t)] ==
            IF i = 0 THEN <<>>
            ELSE IF t[i] \in marks THEN kept[i - 1] ELSE Append(kept[i - 1], t[i])
    IN kept[Len(t)]

IsText(t) == t \in Seq(ToSet(t))

Drop(s, n) == SubSeq(s, 1, Len(s) - n)
DropFront(s, n) == SubSeq(s, n + 1, Len(s))
EndsLine(s) == s # <<>> /\ Last(s) = "n"
StartsLine(s) == IsPrefix(<<"n">>, s) \/ IsPrefix(<<"r", "n">>, s)

\* One newline sequence off either end: "\r\n" is taken whole.
WithoutOneTrailingNewline(s) == Drop(s, IF IsSuffix(<<"r", "n">>, s) THEN 2 ELSE 1)
WithoutOneLeadingNewline(s) ==
    DropFront(s, CASE IsPrefix(<<"r", "n">>, s) -> 2
                   [] IsPrefix(<<"n">>, s) -> 1
                   [] OTHER -> 0)
-----------------------------------------------------------------------------
(* marker-block: the protocol text in AGENTS.md or Kiro's steering file *)

Current == "P"      \* the body this memriver writes; an older one wrote "Q"
Block(body) == <<"B", body, "E">>

Positions(t, marker) == {i \in DOMAIN t : t[i] = marker}

\* Where the managed block lies: <<>> for none, Refused unless the markers
\* are one pair in order.
MarkerSpan(t) ==
    LET begins == Positions(t, "B")  ends == Positions(t, "E") IN
    IF \/ Cardinality(begins) > 1
       \/ Cardinality(begins) # Cardinality(ends)
       \/ \E i \in begins, j \in ends : i > j
    THEN Refused
    ELSE IF begins = {} THEN <<>>
    ELSE <<CHOOSE i \in begins : TRUE, CHOOSE j \in ends : TRUE>>

MarkerBlock(t) ==
    LET span == MarkerSpan(t) IN
    CASE span = Refused -> Refused
      [] span = <<>> -> t \o (IF t = <<>> THEN <<>> ELSE <<"n">>) \o Block(Current) \o <<"n">>
      [] OTHER -> SubSeq(t, 1, span[1] - 1) \o Block(Current) \o DropFront(t, span[2])

\* A newline beside the block is taken back only when that cannot run two
\* lines together.
MarkerBlockRemove(t) ==
    LET span == MarkerSpan(t) IN
    IF span \in {Refused, <<>>} THEN IF span = <<>> THEN t ELSE Refused
    ELSE LET before == SubSeq(t, 1, span[1] - 1)
             after == DropFront(t, span[2])
             trimmed == WithoutOneTrailingNewline(before)
             kept == IF /\ EndsLine(before)
                        /\ \/ after = <<>> \/ StartsLine(after)
                           \/ trimmed = <<>> \/ EndsLine(trimmed)
                     THEN trimmed ELSE before
             remainder == WithoutOneLeadingNewline(after)
             rest == IF /\ StartsLine(after)
                        /\ \/ kept = <<>> \/ EndsLine(kept)
                           \/ remainder = <<>> \/ StartsLine(remainder)
                     THEN remainder ELSE after
         IN  kept \o rest
-----------------------------------------------------------------------------
(* toml-table: a header is "h", or "s" in the group of memriver's table (the *)
(* other mcp_servers); that table itself, its lines included, is "T" as this *)
(* memriver writes it, "O" an older one.  What follows up to the next header *)
(* (comments, blank lines) is part of a table.                               *)

OwnTables == {"T", "O"}
Headers == OwnTables \cup {"s", "h"}

\* What the parser accepts: headers on lines of their own, and one table of a name.
WellFormedToml(t) ==
    /\ Cardinality({i \in DOMAIN t : t[i] \in OwnTables}) <= 1
    /\ \A i \in DOMAIN t : t[i] \in Headers => i = 1 \/ t[i - 1] \in OwnTables \cup {"n"}

HasOwnTable(t) == \E i \in DOMAIN t : t[i] \in OwnTables
OwnTable(t) == CHOOSE i \in DOMAIN t : t[i] \in OwnTables
\* The last token of the table whose header is the i-th.
TableEnd(t, i) == Min({j \in i..Len(t) : j < Len(t) => t[j + 1] \in Headers})

BeforeOwnTable(t) == SubSeq(t, 1, OwnTable(t) - 1)
AfterOwnTable(t) == DropFront(t, TableEnd(t, OwnTable(t)))

\* Where a table of the group's is added: after the first tables of the group
\* that stand together, or, where there is no such group, at the end.
GroupEnd(t) ==
    IF ~Contains(t, "s") THEN Len(t)
    ELSE Min({j \in DOMAIN t : (\E i \in 1..j : t[i] = "s") /\ (j < Len(t) => t[j + 1] = "h")})

\* tomlkit separates a table it adds by a blank line, replaces or deletes one with
\* all that is part of it, and keeps every other byte.
Padding(head) ==
    CASE head = <<>> \/ IsSuffix(<<"n", "n">>, head) -> <<>>
      [] head # <<>> /\ ~EndsLine(head) -> <<"n", "n">>
      [] OTHER -> <<"n">>
TomlAppend(t) ==
    LET head == SubSeq(t, 1, GroupEnd(t))
    IN  head \o Padding(head) \o <<"T">> \o DropFront(t, GroupEnd(t))
TomlReplace(t) == BeforeOwnTable(t) \o <<"T">> \o AfterOwnTable(t)
TomlDelete(t) == IF HasOwnTable(t) THEN BeforeOwnTable(t) \o AfterOwnTable(t) ELSE t

\* A table added at the end follows one newline; anywhere else it is left as tomlkit has it.
OneNewlineBeforeAnAppendedTable(t, rendered) ==
    IF t = <<>> \/ ~IsPrefix(t, rendered) THEN rendered
    ELSE t \o <<"n">> \o LET added == DropFront(rendered, Len(t))
                             first == Min({i \in DOMAIN added : added[i] # "n"})
                         IN  DropFront(added, first - 1)

TomlRoundtrip(t) ==
    CASE Contains(t, "T") -> t
      [] ~Contains(t, "T") /\ Contains(t, "O") -> TomlReplace(t)
      [] OTHER -> OneNewlineBeforeAnAppendedTable(t, TomlAppend(t))

CommonPrefix(s, t) ==
    Max({n \in 0..Min({Len(s), Len(t)}) : SubSeq(s, 1, n) = SubSeq(t, 1, n)})
CommonSuffix(s, t, limit) ==
    Max({n \in 0..limit : DropFront(s, Len(s) - n) = DropFront(t, Len(t) - n)})

\* Both texts go on with a header: all start alike, so what they share ends within it.
ShareHeader(t, rendered, prefix) ==
    LET next == prefix + 1 IN
    next \in DOMAIN t \cap DOMAIN rendered /\ {t[next], rendered[next]} \subseteq Headers

\* The newline put before an appended table is taken back where the deletion
\* touched the text, and nowhere else.
UndoAddedNewline(t, rendered) ==
    LET prefix == CommonPrefix(t, rendered)
        suffix == CommonSuffix(t, rendered, Min({Len(t), Len(rendered)}) - prefix)
        head == SubSeq(rendered, 1, prefix)
    IN  IF /\ prefix + suffix = Len(rendered)
           /\ EndsLine(head) /\ ~ShareHeader(t, rendered, prefix)
        THEN WithoutOneTrailingNewline(head) \o DropFront(rendered, prefix)
        ELSE rendered

\* Mutant: the newline put before the appended table stays.
TomlTableRemoveOnly(t) == TomlDelete(t)

TomlTableRemove(t) ==
    IF TomlDelete(t) = t THEN t ELSE UndoAddedNewline(t, TomlDelete(t))
-----------------------------------------------------------------------------
(* json-object and hook-array: which bytes a removal cuts, and whose group *)

\* The inside of a container, as the scanner lists it: where its items are.
ItemsAt(s) == {i \in DOMAIN s : s[i] \notin {"w", "c"}}

WhitespaceBefore(s, at) ==
    Min({i \in 1..at : \A j \in i..(at - 1) : s[j] = "w"})
CommaAfter(s, at) ==
    Min({i \in DOMAIN s : i > at /\ s[i] # "w"})

\* The first and last token to cut for the item there to go with one comma.
SpanWithout(s, at) ==
    LET before == {i \in ItemsAt(s) : i < at}  after == {i \in ItemsAt(s) : i > at} IN
    CASE before = {} /\ after = {} -> <<1, Len(s)>>
      [] after # {} -> <<WhitespaceBefore(s, at), CommaAfter(s, at)>>
      [] OTHER -> <<CommaAfter(s, Max(before)), at>>

Spliced(s, span) == SubSeq(s, 1, span[1] - 1) \o DropFront(s, span[2])

\* A handler is memriver's when its command starts with the hook's words:
\* "cur" as this memriver writes it, "old" with other flags; "broken" names
\* memriver in a command that no shell could read.
Matching(group) == {i \in DOMAIN group : group[i] \in {"cur", "old"}}
Expected == <<"cur">>

\* memriver's one group in a hook array: 0 for none, -1 when the array, a
\* command, a second group or a handler sharing the group makes it ambiguous.
OwnGroup(groups) ==
    LET matched == {i \in DOMAIN groups : Matching(groups[i]) # {}} IN
    IF \/ \E i \in DOMAIN groups : Contains(groups[i], "broken")
       \/ Cardinality(matched) > 1
       \/ \E i \in matched : Len(groups[i]) # 1
    THEN -1
    ELSE IF matched = {} THEN 0 ELSE CHOOSE i \in matched : TRUE

HookArrayIdentityMerge(groups) ==
    LET own == OwnGroup(groups) IN
    CASE own = -1 -> Refused
      [] own = 0 -> Append(groups, Expected)
      [] OTHER -> [groups EXCEPT ![own] = Expected]

HookArrayIdentityRemove(groups) ==
    LET own == OwnGroup(groups) IN
    CASE own = -1 -> Refused
      [] own = 0 -> groups
      [] OTHER -> RemoveAt(groups, own)

\* A container re-rendered by json.dumps, with no whitespace of the user's.
RenderJson(items) ==
    [i \in 1..(2 * Len(items) - 1) |-> IF i % 2 = 1 THEN items[(i + 1) \div 2] ELSE "c"]
JsonItems(s) == Without(s, {"w", "c"})

\* What the parser accepts: items apart, and one member of a name.
WellFormedJson(s) ==
    /\ \A i, j \in ItemsAt(s) : i < j => \E k \in i..j : s[k] = "c"
    /\ \A i, j \in DOMAIN s : s[i] \in {"m", "o"} /\ s[j] \in {"m", "o"} => i = j

\* memriver's named member: "m", or "o" as an older memriver wrote it.
JsonObjectMerge(s) ==
    LET items == JsonItems(s) IN
    CASE Contains(s, "m") -> s
      [] ~Contains(s, "m") /\ Contains(s, "o") ->
             RenderJson([i \in DOMAIN items |-> IF items[i] = "o" THEN "m" ELSE items[i]])
      [] OTHER -> RenderJson(Append(items, "m"))

JsonObjectRemove(s) ==
    LET ours == {i \in DOMAIN s : s[i] \in {"m", "o"}} IN
    IF ours = {} THEN s ELSE Spliced(s, SpanWithout(s, CHOOSE i \in ours : TRUE))

ApplyEdit(kind, t) ==
    CASE kind = "marker-block" -> MarkerBlock(t)
      [] kind = "toml-table" -> TomlRoundtrip(t)
      [] kind = "json-object" -> JsonObjectMerge(t)
      [] kind = "hook-array" -> HookArrayIdentityMerge(t)
      [] OTHER -> <<"off">>            \* a setting of the harness's own

ApplyRemoval(kind, t) ==
    CASE kind = "marker-block" -> MarkerBlockRemove(t)
      [] kind = "toml-table" -> TomlTableRemove(t)
      [] kind = "json-object" -> JsonObjectRemove(t)
      [] kind = "hook-array" -> HookArrayIdentityRemove(t)
=============================================================================
