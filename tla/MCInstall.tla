------------------------------ MODULE MCInstall ------------------------------
(* Small files and commands for the runs of Install. *)
EXTENDS Install

EachHarness == {<<"claude">>, <<"codex">>, <<"cursor">>, <<"kiro">>}

File(p, text) == [Absent(p) EXCEPT !.is = "file", !.mode = "found", !.text = text @@ @]

\* Every hook as it should be but one, an older one beside the user's.
OwnHooks == [event \in SessionEvents |-> <<<<"cur">>>>]
Hooks == [OwnHooks EXCEPT !.Stop = <<<<"foreign">>, <<"old">>>>]

\* Another server's table with one of another kind after it, or an old table of
\* memriver's with a comment after it, or no table at all.
Tables == [grouped |-> <<"s", "x", "n", "h", "n", "s">>,
           old |-> <<"x", "r", "n", "O", "x", "n", "s", "n">>,
           clean |-> <<"x", "n", "x">>]

\* Nothing of memriver's but in the hooks and AGENTS.md, or an older memriver's entries
\* between the user's, and a configuration of Claude Code's that its parser rejects.
MCFound ==
    {[p \in Paths |->
        CASE p = "claude.json" ->
                IF found = "clean" THEN Absent(p)
                ELSE [Absent(p) EXCEPT !.is = "garbled", !.mode = "found"]
          [] p = "settings.json" -> File(p, OwnHooks @@ [PreToolUse |-> <<<<"foreign">>>>,
                                                         native |-> <<"disabled">>])
          [] p = "config.toml" -> File(p, [mcp |-> Tables[found], native |-> <<"on">>])
          [] p = "hooks.json" -> IF found = "grouped" THEN Absent(p) ELSE File(p, Hooks)
          [] p = "cursor/mcp.json" ->
                IF found = "old" THEN File(p, [mcp |-> <<"w", "x", "w", "c", "o", "c", "w", "y">>])
                ELSE Absent(p)
          [] p = "AGENTS.md" -> File(p, [block |-> <<"x">> \o Block("Q") \o <<"n">>])
          [] p = "kiro/mcp.json" -> File(p, [mcp |-> <<"w", "x", "c", "w", "y", "w">>])
          [] p = "memriver.md" ->
                IF found = "old" THEN File(p, [block |-> <<"x", "n">>]) ELSE Absent(p)] :
        found \in DOMAIN Tables}
=============================================================================
