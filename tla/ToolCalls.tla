------------------------------ MODULE ToolCalls ------------------------------
(***************************************************************************)
(* The MCP server's tool calls (server.py, hooks.py, application/memory.py).*)
(* A harness starts the server once and keeps it across /clear and resume,  *)
(* so each call has to say which session makes it: Codex names it in the    *)
(* call, Claude Code's PreToolUse hook maps the call's id to it beforehand. *)
(* A handler runs in a worker thread that goes on when the call is          *)
(* cancelled; the agent repeats what it never had an answer to.             *)
(***************************************************************************)
EXTENDS Integers, Sequences, FiniteSets

CONSTANTS
    Session,       \* the harness's conversations
    Startup,       \* the one in CLAUDE_CODE_SESSION_ID, there when the server started
    Project,       \* registered projects
    Call,          \* tool-call ids
    Retention,     \* tool_call_retention_s
    MaxTime        \* bound: clock readings

ASSUME StartupAssumption == Startup \in Session
ASSUME CallLimits == Retention \in Nat \ {0} /\ MaxTime \in Nat

VARIABLES
    harness,     \* "claude-code" or "codex"
    current,     \* the session of the conversation on screen
    rows,        \* rows[s]: no row, no project, or the project it grants
    toolCalls,   \* tool_calls: call id -> session and when it was recorded
    memory,      \* of each project: who edited one memory, version by version (a call, or
                 \* {} for an undo), and the calls that wrote others
    requests,    \* each call, from the harness asking for it to its answer
    clock

callVars == <<harness, current, rows, toolCalls, memory, requests, clock>>

Unknown == "unknown"         \* no row, or no session named
NoProject == "no project"    \* pending, or registered with none: reads global only
RowState == {Unknown, NoProject} \cup Project

\* memory_update carries the version the agent read; memory_write needs none.
Kinds == {"read", "write", "update"}
\* A call not made yet; `known` says that its own session could be told.
Fresh == [pc |-> "new", kind |-> "none", session |-> Startup, of |-> NoProject, expected |-> 0,
          edit |-> {}, hooked |-> 0, key |-> Unknown, known |-> FALSE, context |-> Unknown,
          outcome |-> "none", dropped |-> FALSE, cancelled |-> FALSE, answers |-> 0]

CallsInit ==
    /\ harness \in {"claude-code", "codex"}
    /\ current = Startup
    /\ rows \in [Session -> RowState]
    /\ \A s \in Session \ {Startup} : rows[s] = Unknown
    /\ toolCalls = <<>>
    /\ memory = [p \in Project |-> [edits |-> <<>>, written |-> {}]]
    /\ requests = [c \in Call |-> Fresh]
    /\ clock = 1

Goes(c, pc) == requests' = [requests EXCEPT ![c].pc = pc]
Ends(c, outcome) == requests' = [requests EXCEPT ![c].pc = "answering", ![c].outcome = outcome]
Mapped == DOMAIN toolCalls
Version(p) == Len(memory[p].edits) + 1
\* What the memory says at a version: what an edit put there, or what it was created with.
Text(p, v) == UNION {requests[c].edit : c \in IF v = 1 THEN {} ELSE memory[p].edits[v - 1]}
-----------------------------------------------------------------------------
(* The harness *)

\* /clear or an in-app resume: another conversation; its SessionStart hook may
\* register it, leave it pending, or fail.
Clear ==
    /\ \E s \in Session \ {current} :
          /\ current' = s
          /\ rows' \in {rows} \cup
                 {[rows EXCEPT ![s] = row] : row \in IF rows[s] = Unknown THEN RowState ELSE {}}
    /\ UNCHANGED <<harness, toolCalls, memory, requests, clock>>

\* The agent calls a tool.  An edit names a memory at the newest version it may have
\* read, and says something new or what is there already; a call that was dropped
\* unanswered may be made again as it was.
Ask(c) ==
    /\ requests[c].pc = "new"
    /\ \/ \E kind \in Kinds \ {"update"} :
             requests' = [requests EXCEPT ![c] = [@ EXCEPT
                !.pc = "hook", !.kind = kind, !.session = current]]
       \/ \E p \in Project : \E edit \in {{c}, Text(p, Version(p))} :
             requests' = [requests EXCEPT ![c] = [@ EXCEPT
                !.pc = "hook", !.kind = "update", !.session = current, !.of = p, !.edit = edit,
                !.expected = Version(p)]]
       \/ \E d \in Call :
             /\ requests[d].dropped /\ requests[d].session = current
             /\ requests[d].kind = "update"
             /\ requests' = [requests EXCEPT ![c] = [@ EXCEPT
                !.pc = "hook", !.kind = "update", !.session = current,
                !.of = requests[d].of, !.edit = requests[d].edit, !.expected = requests[d].expected]]
    /\ UNCHANGED <<harness, current, rows, toolCalls, memory, clock>>

\* Mutant of RecordCall: the prune takes every earlier call.
RecordCallOnly(c) ==
    /\ toolCalls' = [d \in {c} |-> [session |-> requests[c].session, at |-> requests[c].hooked]]

\* record_call: upsert the mapping, and drop what the retention has passed.
RecordCall(c) ==
    LET at == requests[c].hooked
        kept == {d \in Mapped : toolCalls[d].at >= at - Retention}
    IN  toolCalls' = [d \in kept \cup {c} |->
                         IF d = c THEN [session |-> requests[c].session, at |-> at]
                         ELSE toolCalls[d]]

\* The PreToolUse hook takes its time first and writes later; it may fail, and
\* Codex has none.  The call is sent once the hook has ended.
HookBegins(c) ==
    /\ requests[c].pc = "hook" /\ harness = "claude-code"
    /\ requests' = [requests EXCEPT ![c].pc = "hooking", ![c].hooked = clock]
    /\ UNCHANGED <<harness, current, rows, toolCalls, memory, clock>>

HookRecords(c) ==
    /\ requests[c].pc = "hooking"
    /\ RecordCall(c)
    /\ Goes(c, "queued")
    /\ UNCHANGED <<harness, current, rows, memory, clock>>

HookFails(c) ==
    /\ \/ requests[c].pc = "hooking"
       \/ requests[c].pc = "hook"
    /\ requests' = [requests EXCEPT ![c].pc = "queued", ![c].hooked = 0]
    /\ UNCHANGED <<harness, current, rows, toolCalls, memory, clock>>

\* The user interrupts: the harness forgets the id and sends a cancellation.
Interrupt(c) ==
    /\ requests[c].pc \notin {"new", "hook", "hooking", "over"} /\ ~requests[c].dropped
    /\ requests' = [requests EXCEPT ![c].dropped = TRUE]
    /\ UNCHANGED <<harness, current, rows, toolCalls, memory, clock>>
-----------------------------------------------------------------------------
(* The server: which session calls, and what it may do *)

\* _session_key: Claude Code's mapping, read best effort, else the session the
\* server was started in; Codex's own word.
SessionKey(c) ==
    IF harness = "codex" THEN {requests[c].session}
    ELSE {Startup} \cup (IF c \in Mapped THEN {toolCalls[c].session} ELSE {})

\* _context_of: the row is read once, and the call answers for what it says.
Start(c) ==
    /\ requests[c].pc = "queued"
    /\ \E key \in SessionKey(c) :
          LET context == rows[key]
              unread == key # requests[c].session /\ c \in Mapped
              refused == context = Unknown \/ (requests[c].kind # "read" /\ context \notin Project)
          IN  requests' = [requests EXCEPT ![c] = [@ EXCEPT
                  !.key = key, !.context = context, !.hooked = 0,
                  !.known = harness = "codex" \/ (requests[c].hooked > 0 /\ ~unread
                                /\ clock <= requests[c].hooked + Retention),
                  !.outcome = IF refused THEN "refused" ELSE "none",
                  !.pc = IF refused THEN "answering" ELSE "acting"]]
    /\ UNCHANGED <<harness, current, rows, toolCalls, memory, clock>>

\* Mutant of Current: whatever version the agent read is good enough.
CurrentAnyway(c) == requests[c].of = requests[c].context

\* The memory is one the session may write, and the version an update names is the one in the table.
Current(c) ==
    requests[c].of = requests[c].context /\ requests[c].expected = Version(requests[c].of)

\* The text of an update is the memory's already: a success that writes nothing.
Unchanged(c) == requests[c].edit = Text(requests[c].context, Version(requests[c].context))

\* One write transaction: a create, or an update of the version named.
Write(c) ==
    LET p == requests[c].context IN
    /\ requests[c].pc = "acting" /\ requests[c].kind # "read"
    /\ \/ /\ requests[c].kind = "write"
          /\ memory' = [memory EXCEPT ![p].written = @ \cup {c}]
          /\ Goes(c, "marking")
       \/ /\ requests[c].kind = "update" /\ Current(c) /\ ~Unchanged(c)
          /\ memory' = [memory EXCEPT ![p].edits = Append(@, {c})]
          /\ Goes(c, "marking")
       \/ /\ requests[c].kind = "update" /\ Current(c) /\ Unchanged(c)
          /\ UNCHANGED memory /\ Goes(c, "marking")
       \/ /\ requests[c].kind = "update" /\ ~Current(c)   \* VersionConflict, MemoryNotFound
          /\ UNCHANGED memory /\ Ends(c, "refused")
    /\ UNCHANGED <<harness, current, rows, toolCalls, clock>>

\* Meanwhile an undo, from the command line, restores the text the memory began with.
Undo(p) ==
    /\ Text(p, Version(p)) # {}
    /\ memory' = [memory EXCEPT ![p].edits = Append(@, {})]
    /\ UNCHANGED <<harness, current, rows, toolCalls, requests, clock>>

\* The policy or the classifier refuses a write, outside any transaction, or the store
\* is busy or broken and the transaction is rolled back.
ActFails(c) ==
    /\ requests[c].pc = "acting"
    /\ Ends(c, "refused")
    /\ UNCHANGED <<harness, current, rows, toolCalls, memory, clock>>

\* Mutant of MarkSaved: its failure is the call's.
MarkSavedOrFail(c) ==
    /\ requests[c].pc = "marking"
    /\ Ends(c, "done") \/ Ends(c, "refused")
    /\ UNCHANGED <<harness, current, rows, toolCalls, memory, clock>>

\* mark_saved, a transaction of its own and best effort.
MarkSaved(c) ==
    /\ requests[c].pc = "marking"
    /\ Ends(c, "done")
    /\ UNCHANGED <<harness, current, rows, toolCalls, memory, clock>>

\* memory_read and its kin change no row that is modelled here.
Read(c) ==
    /\ requests[c].pc = "acting" /\ requests[c].kind = "read"
    /\ Ends(c, "done")
    /\ UNCHANGED <<harness, current, rows, toolCalls, memory, clock>>

Act(c) == Write(c) \/ Read(c)
-----------------------------------------------------------------------------
(* Cancellation and answers *)

Running == {"acting", "marking", "answering"}

\* The replaced responder.cancel: it completes without sending, and the worker
\* goes on.  A cancellation ahead of its handler is refused by the SDK.
Cancel(c) ==
    /\ requests[c].dropped /\ ~requests[c].cancelled
    /\ requests[c].pc \in Running
    /\ requests' = [requests EXCEPT ![c].cancelled = TRUE]
    /\ UNCHANGED <<harness, current, rows, toolCalls, memory, clock>>

\* respond_unless_cancelled.
Answer(c) ==
    /\ requests[c].pc = "answering"
    /\ requests' = [requests EXCEPT ![c] = [@ EXCEPT
           !.pc = "over", !.answers = IF requests[c].cancelled THEN 0 ELSE 1,
           !.key = Unknown, !.context = Unknown, !.known = FALSE]]
    /\ UNCHANGED <<harness, current, rows, toolCalls, memory, clock>>

\* Only the hook reads the clock, and Codex has none.
Tick ==
    /\ clock < MaxTime /\ harness = "claude-code"
    /\ clock' = clock + 1
    /\ UNCHANGED <<harness, current, rows, toolCalls, memory, requests>>

CallsNext ==
    \/ Clear \/ Tick \/ \E p \in Project : Undo(p)
    \/ \E c \in Call :
          \/ Ask(c) \/ HookBegins(c) \/ HookRecords(c) \/ HookFails(c) \/ Interrupt(c)
          \/ Start(c) \/ Act(c) \/ ActFails(c) \/ MarkSaved(c)
          \/ Cancel(c) \/ Answer(c)

CallsSpec == CallsInit /\ [][CallsNext]_callVars
-----------------------------------------------------------------------------
\* A call is answered for the session that made it, whatever else was cleared,
\* resumed or called meanwhile, if its hook recorded it no longer ago than the
\* retention and the table could be read; else for the one the server began in.
OwnSession ==
    \A c \in Call : requests[c].pc \in Running =>
        requests[c].key \in {requests[c].session} \cup (IF requests[c].known THEN {} ELSE {Startup})

\* An edit that was interrupted and repeated is made once, wherever the
\* interruption came and whatever was undone between.
EditedOnce ==
    \A p \in Project : \A i, j \in DOMAIN memory[p].edits :
        Text(p, i + 1) = Text(p, j + 1) /\ Text(p, i + 1) # {} => i = j

\* The call has changed a memory.
Changed(c) == \E p \in Project :
    c \in memory[p].written \/ \E i \in DOMAIN memory[p].edits : memory[p].edits[i] = {c}

\* The memory an update names said at the version it names what the update says.
Already(r) ==
    r.kind = "update" /\ r.expected \in 1..Version(r.of) /\ Text(r.of, r.expected) = r.edit

\* "no change was made" is never said of a change that was, nor success of one that was
\* not, unless the memory had that very text at the version the call read: then nothing
\* was written, and nothing had to be.
AnswersAreTrue ==
    \A c \in Call :
        LET r == requests[c] IN
        (r.answers > 0 /\ r.kind # "read") =>
            /\ Changed(c) => r.outcome = "done"
            /\ r.outcome = "done" => Changed(c) \/ Already(r)
=============================================================================
