------------------------------ MODULE Sessions ------------------------------
(***************************************************************************)
(* Harness sessions.  Hooks and the MCP server are separate processes that *)
(* read a session's row, ask the file system which project covers a        *)
(* directory, and only then write the row in a transaction of its own, so  *)
(* the row and the bindings may be others by the time the write lands.     *)
(* A call between its read and its write is a record of `calls`; the       *)
(* operator's `memriver project` commands run all the while (Projects).    *)
(* A write that lands carries the time at which its call began.            *)
(***************************************************************************)
EXTENDS Projects, Sequences

CONSTANTS
    SessionKey,       \* (harness, session_id) pairs
    Caller,           \* bound: hook and server calls in flight at once
    CallKind,         \* bound: the kinds of call that happen
    MainTree,         \* main_tree_path: a directory's twin in the main working tree
    KeepRecent,       \* session_recent_prompts
    NudgeMinPrompts,  \* stop_nudge_min_prompts
    NudgeInterval,    \* stop_nudge_interval_prompts
    Prompt,           \* what is kept of a prompt: its text, or why it was omitted
    MaxPrompts,       \* bound: prompts of one session
    MaxTime           \* bound: clock readings

ASSUME MainTreeAssumption == MainTree \in [Dir -> Dir \cup {Gone}]
ASSUME PromptAssumption == None \notin Prompt
\* settings.py fixes all three at 5.  A row says "no nudge yet" by a mark of 0, so a
\* minimum of 0 would allow one nudge after the other.
ASSUME LimitsAssumption ==
    /\ KeepRecent \in Nat \ {0} /\ NudgeMinPrompts \in Nat \ {0} /\ NudgeInterval \in Nat
    /\ MaxPrompts \in Nat /\ MaxTime \in Nat \ {0}

VARIABLES
    sessions,     \* the sessions rows
    clock,        \* the time now
    calls,        \* each caller's call in flight, or None
    history       \* what happened to each session, for the properties only

sessionVars == <<sessions, clock, calls, history>>
allVars == <<projects, leads, shown, sessions, clock, calls, history>>

Time == 1..MaxTime
MaybeProject == Project \cup {None}

Session == [status: {"registered", "pending"}, origin: {"start", "first-seen"},
            project: MaybeProject, candidate: MaybeProject, candidate_root: Dir \cup {None},
            entry: Dir, active: Time, count: 0..MaxPrompts,
            saved: 0..MaxPrompts, nudged: 0..MaxPrompts,
            first: Prompt \cup {None}, recent: Seq(Prompt), summary: 0..MaxPrompts \cup {None}]

\* landed: its prompts, in the order they landed; nudges: the count and the save
\* mark at each nudge; homes: the projects its memory writes went to.
Untouched == [landed |-> <<>>, nudges |-> <<>>, homes |-> {}]

Known == DOMAIN sessions
Later(a, b) == IF a > b THEN a ELSE b
Trim(s) == SubSeq(s, Later(1, Len(s) - KeepRecent + 1), Len(s))

PutSession(s, row) ==
    sessions' = [k \in Known \cup {s} |-> IF k = s THEN row ELSE sessions[k]]

Idle == {c \in Caller : calls[c] = None}

\* A call reads what it needs and goes on outside any transaction.
Enter(call) ==
    /\ call.kind \in CallKind
    /\ \E c \in Idle : calls' = [calls EXCEPT ![c] = call]
    /\ UNCHANGED <<projectVars, sessions, clock, history>>

Leave(c, kind) ==
    /\ calls[c] # None /\ calls[c].kind = kind
    /\ calls' = [calls EXCEPT ![c] = None]
    /\ UNCHANGED <<projectVars, clock>>

\* A call that is one write transaction.
Alone == UNCHANGED <<projectVars, clock, calls>>

------------------------------------------------------------------------------
(* New sessions *)

\* _resolve_entry: the canonical entry, and the project of its main-tree twin.
ResolveEntry(d) ==
    LET entry == CanonicalDirectory(d)
    IN  IF entry = Gone \/ MainTree[entry] = Gone THEN Degraded
        ELSE NearestBound(entry, MainTree[entry])

\* Mutant of Seed: the project is set whoever starts.
SeedBound(d, fresh, at) ==
    LET match == ResolveEntry(d)
    IN  [status |-> IF fresh THEN "registered" ELSE "pending",
         origin |-> IF fresh THEN "start" ELSE "first-seen",
         project |-> match.project, candidate |-> None, candidate_root |-> None,
         entry |-> CanonicalDirectory(d), active |-> at, count |-> 0, saved |-> 0,
         nudged |-> 0, first |-> None, recent |-> <<>>, summary |-> None]

\* _new_session: the row of a session first seen in `d`.
Seed(d, fresh, at) ==
    LET match == ResolveEntry(d)
        proposed == ~fresh /\ match.project # None
    IN  [status |-> IF fresh THEN "registered" ELSE "pending",
         origin |-> IF fresh THEN "start" ELSE "first-seen",
         project |-> IF fresh THEN match.project ELSE None,
         candidate |-> IF proposed THEN match.project ELSE None,
         candidate_root |-> IF proposed THEN projects[match.project].root ELSE None,
         entry |-> CanonicalDirectory(d), active |-> at, count |-> 0, saved |-> 0,
         nudged |-> 0, first |-> None, recent |-> <<>>, summary |-> None]

\* touch and end: last_active_at never moves back.
Touch(s, at) == PutSession(s, [sessions[s] EXCEPT !.active = Later(@, at)])

\* start_session finds the row: it is touched and answers as it stands.
StartAgain(s, at) ==
    /\ s \in Known
    /\ Touch(s, at)
    /\ Alone /\ UNCHANGED history

\* start_session finds none: startup, clear and fork are fresh, resume and
\* compact are not; a directory that cannot be resolved registers nothing.
StartNew(s, d, fresh, at) ==
    /\ s \notin Known
    /\ ResolveEntry(d).state # "degraded"
    /\ Enter([kind |-> "start", key |-> s, seed |-> Seed(d, fresh, at)])

\* register: INSERT ... ON CONFLICT DO NOTHING, and the stored winner answers.
Register(c) ==
    LET call == calls[c] IN
    /\ Leave(c, "start")
    /\ IF call.key \in Known THEN UNCHANGED sessions ELSE PutSession(call.key, call.seed)
    /\ UNCHANGED history

------------------------------------------------------------------------------
(* Prompts *)

\* observe_prompt finds no row: it brings a pending one along.
PromptNew(s, d, at) ==
    /\ s \notin Known
    /\ ResolveEntry(d).state # "degraded"
    /\ \E prompt \in Prompt :
          Enter([kind |-> "prompt", key |-> s, seed |-> Seed(d, FALSE, at),
                 prompt |-> prompt, at |-> at])

\* The counting half of add_prompt, on `row`.
WithPrompt(row, prompt, at) ==
    [row EXCEPT !.count = @ + 1, !.first = IF @ = None THEN prompt ELSE @,
                !.recent = Trim(Append(@, prompt)), !.active = Later(@, at)]

Landed(s, prompt) == history' = [history EXCEPT ![s].landed = Append(@, prompt)]

\* Mutant of AddPrompt: the row read before the transaction is written back.
AddPromptToSeed(s, seed, prompt, at) ==
    /\ seed.count < MaxPrompts /\ Len(history[s].landed) < MaxPrompts
    /\ PutSession(s, WithPrompt(seed, prompt, at))
    /\ Landed(s, prompt)

\* add_prompt: insert the seed unless a row is there, then count on the row.
AddPrompt(s, seed, prompt, at) ==
    LET row == IF s \in Known THEN sessions[s] ELSE seed
    IN  /\ row.count < MaxPrompts
        /\ PutSession(s, WithPrompt(row, prompt, at))
        /\ Landed(s, prompt)

\* observe_prompt finds the row.
PromptAgain(s, at) ==
    /\ s \in Known
    /\ \E prompt \in Prompt : AddPrompt(s, sessions[s], prompt, at)
    /\ Alone

PromptLands(c) ==
    LET call == calls[c] IN
    /\ Leave(c, "prompt")
    /\ AddPrompt(call.key, call.seed, call.prompt, call.at)

------------------------------------------------------------------------------
(* Stop, SessionEnd *)

\* Mutant of Due: the first nudge is not told apart from the later ones.
DueFirst(row) ==
    /\ row.project # None
    /\ row.count - row.saved >= NudgeMinPrompts

\* nudge_if_due: enough prompts since the last save, and since the last nudge.
Due(row) ==
    /\ row.project # None
    /\ row.count - row.saved >= NudgeMinPrompts
    /\ row.nudged = 0 \/ row.count - row.nudged >= NudgeInterval

Stop(s, at) ==
    /\ s \in Known /\ sessions[s].status = "registered"
    /\ PutSession(s, [sessions[s] EXCEPT !.active = Later(@, at),
                                         !.nudged = IF Due(sessions[s]) THEN sessions[s].count
                                                    ELSE @])
    /\ history' = IF Due(sessions[s])
                  THEN [history EXCEPT ![s].nudges =
                           Append(@, [count |-> sessions[s].count, saved |-> sessions[s].saved])]
                  ELSE history
    /\ Alone

EndSession(s, at) ==
    /\ s \in Known
    /\ Touch(s, at)
    /\ Alone /\ UNCHANGED history

------------------------------------------------------------------------------
(* Confirming a pending session, registering one without a project *)

\* root_is_intact: present or offline, not re-pointed.
RootIsIntact(root) == ~Redirected(root)

\* confirm_session reads the row, if there is one, and looks at the candidate's directory.
ConfirmRead(s) ==
    /\ s \in Known /\ sessions[s].status = "pending" /\ sessions[s].candidate # None =>
          sessions[s].candidate_root # None /\ RootIsIntact(sessions[s].candidate_root)
    /\ Enter([kind |-> "confirm", key |-> s])

\* Mutant of Confirm: the candidate's row is not looked at again.
ConfirmUnchecked(c) ==
    LET s == calls[c].key
        row == sessions[s]
    IN  /\ Leave(c, "confirm")
        /\ IF s \notin Known \/ row.status = "registered" THEN UNCHANGED sessions
           ELSE PutSession(s, [row EXCEPT !.status = "registered", !.project = row.candidate])
        /\ UNCHANGED history

\* confirm, under the write lock: the candidate still has the root it was
\* proposed with.
Confirm(c) ==
    LET s == calls[c].key
        row == sessions[s]
    IN  /\ Leave(c, "confirm")
        /\ IF s \notin Known \/ row.status = "registered" THEN UNCHANGED sessions
           ELSE /\ row.candidate # None =>
                      projects[row.candidate] = [root |-> row.candidate_root, is_global |-> FALSE]
                /\ PutSession(s, [row EXCEPT !.status = "registered", !.project = row.candidate])
        /\ UNCHANGED history

\* register_session reads a row with neither project nor candidate and resolves
\* the directory it started in.
RegisterRead(s) ==
    /\ s \in Known /\ sessions[s].project = None /\ sessions[s].candidate = None
    /\ ResolveEntry(sessions[s].entry).state = "registered"
    /\ Enter([kind |-> "register", key |-> s,
              project |-> ResolveEntry(sessions[s].entry).project])

\* Mutant of AssignProject: the row is not looked at again.
AssignProjectAnyway(c) ==
    LET call == calls[c] IN
    /\ Leave(c, "register")
    /\ PutSession(call.key, [sessions[call.key] EXCEPT !.status = "registered",
                                                       !.project = call.project])
    /\ UNCHANGED history

\* assign_project, under the write lock: a project set meanwhile stays.
AssignProject(c) ==
    LET call == calls[c]
        row == sessions[call.key]
    IN  /\ Leave(c, "register")
        /\ IF row.project # None \/ row.candidate # None THEN UNCHANGED sessions
           ELSE PutSession(call.key, [row EXCEPT !.status = "registered",
                                                 !.project = call.project])
        /\ UNCHANGED history

------------------------------------------------------------------------------
(* Memory writes of a session, and its save mark *)

\* Mutant of Granted: a pending session writes to the project proposed for it.
GrantedPending(row) ==
    IF row.status = "pending" THEN {row.candidate} \ {None} ELSE {row.project} \ {None}

\* _context_of: the project a row grants writing to, none while it is pending
\* or has none, or has one that is gone or global.
Granted(row) ==
    IF row.status = "pending" THEN {} ELSE {row.project} \cap (DOMAIN projects \ GlobalId)

\* MemoryService.record and update: the context is the row's as it was read; the
\* policy and the classifier, which may take seconds, run before the write.
SaveRead(s) ==
    /\ s \in Known
    /\ \E p \in Granted(sessions[s]) :
          Enter([kind |-> "save", key |-> s, project |-> p])

\* SqliteMemoryStore.write under the context's own rights.
SaveWrites(c) ==
    LET call == calls[c] IN
    /\ call # None /\ call.kind = "save"
    /\ history' = [history EXCEPT ![call.key].homes = @ \cup {call.project}]
    /\ calls' = [calls EXCEPT ![c] = [kind |-> "saved", key |-> call.key]]
    /\ UNCHANGED <<projectVars, sessions, clock>>

\* mark_saved, a transaction of its own.
MarkSaved(c) ==
    LET s == calls[c].key IN
    /\ Leave(c, "saved")
    /\ PutSession(s, [sessions[s] EXCEPT !.saved = sessions[s].count])
    /\ UNCHANGED history

------------------------------------------------------------------------------
(* Publishing a summary *)

HasHome(row) ==
    row.status = "registered" /\ row.project \in DOMAIN projects \ GlobalId

\* bound_sessions: dream reads the row it will summarize.
SummaryRead(s) ==
    /\ s \in Known /\ HasHome(sessions[s])
    /\ Enter([kind |-> "publish", key |-> s, active |-> sessions[s].active,
              covers |-> sessions[s].count])

\* publish_summary: a compare-and-set on last_active_at.
PublishSummary(c) ==
    LET call == calls[c]
        row == sessions[call.key]
    IN  /\ Leave(c, "publish")
        /\ HasHome(row) /\ row.active = call.active
        /\ PutSession(call.key, [row EXCEPT !.summary = call.covers])
        /\ UNCHANGED history

------------------------------------------------------------------------------
\* A hook or the server dies, times out or is refused between read and write.
Drop(c) == calls[c] # None /\ Leave(c, calls[c].kind) /\ UNCHANGED <<sessions, history>>

Tick ==
    /\ clock < MaxTime /\ clock' = clock + 1
    /\ UNCHANGED <<projectVars, sessions, calls, history>>

SessionInit ==
    /\ ProjectInit
    /\ sessions = <<>> /\ clock = 1
    /\ calls = [c \in Caller |-> None]
    /\ history = [s \in SessionKey |-> Untouched]

OnSession(s) ==
    \/ \E at \in 1..clock : StartAgain(s, at) \/ PromptAgain(s, at) \/ Stop(s, at)
    \/ \E at \in 1..clock : EndSession(s, at)
    \/ \E d \in Dir, fresh \in BOOLEAN : StartNew(s, d, fresh, clock)
    \/ \E d \in Dir : PromptNew(s, d, clock)
    \/ ConfirmRead(s) \/ RegisterRead(s) \/ SaveRead(s) \/ SummaryRead(s)

Lands(c) ==
    \/ Register(c) \/ PromptLands(c) \/ Confirm(c) \/ AssignProject(c)
    \/ SaveWrites(c) \/ MarkSaved(c) \/ PublishSummary(c)
    \/ Drop(c)

SessionNext ==
    \/ \E s \in SessionKey : OnSession(s)
    \/ \E c \in Caller : Lands(c)
    \/ Tick
    \/ ProjectNext /\ UNCHANGED sessionVars

SessionSpec == SessionInit /\ [][SessionNext]_allVars

------------------------------------------------------------------------------
\* What session_from_row and the table's checks demand of a row, so that no write
\* is refused as damage, though mark_saved never goes through them: a pending row
\* holds no project, and no watermark is above the prompt count.
RowsReadable ==
    \A s \in Known :
        /\ sessions[s] \in Session
        /\ sessions[s].status = "pending" =>
              sessions[s].project = None /\ sessions[s].origin = "first-seen"
        /\ sessions[s].saved <= sessions[s].count
        /\ sessions[s].nudged <= sessions[s].count
        /\ sessions[s].candidate # None => sessions[s].candidate_root # None
        /\ {sessions[s].project, sessions[s].candidate} \subseteq
              (DOMAIN projects \ GlobalId) \cup {None}

\* A session's project, once set, stands for good, a registered session is never
\* pending again, and a session never disappears: no second start, prompt,
\* confirmation or registration, however late, changes it.
ProjectStands ==
    [][\A s \in Known :
          /\ s \in DOMAIN sessions'
          /\ sessions[s].project # None => sessions'[s].project = sessions[s].project
          /\ sessions[s].status = "registered" => sessions'[s].status = "registered"
          /\ sessions'[s].candidate = sessions[s].candidate
      ]_allVars

\* A session memriver did not see start gets the project the user agreed to or
\* none: at that moment the project proposed still is bound to the directory it
\* was proposed with, and nothing else was ever proposed.
ConfirmedAsProposed ==
    [][\A s \in Known :
          /\ sessions[s].candidate # None
          /\ sessions'[s].project # sessions[s].project
          => /\ sessions'[s].project = sessions[s].candidate
             /\ projects[sessions[s].candidate].root = sessions[s].candidate_root
      ]_allVars

\* Every memory a session wrote went to the one project that is the session's,
\* also when the row was read long before the write: never to a project that was
\* only proposed.
WritesGoHome ==
    \A s \in SessionKey :
        history[s].homes # {} =>
            s \in Known /\ sessions[s].status = "registered"
            /\ history[s].homes = {sessions[s].project}

\* No prompt is lost or counted twice however the hooks interleave: the row holds
\* the number of prompts that landed, the first and the most recent of them.
PromptsKept ==
    \A s \in Known :
        LET landed == history[s].landed
        IN  /\ sessions[s].count = Len(landed)
            /\ landed # <<>> => sessions[s].first = landed[1]
            /\ sessions[s].recent = Trim(landed)

\* Two nudges of a session are never closer than the interval, and none comes
\* sooner after the save it knows of than the minimum.
NudgesSpaced ==
    \A s \in SessionKey :
        LET nudges == history[s].nudges
        IN  /\ \A i \in 1..Len(nudges) : nudges[i].count - nudges[i].saved >= NudgeMinPrompts
            /\ \A i \in 2..Len(nudges) :
                  nudges[i].count - nudges[i - 1].count >= NudgeInterval

=============================================================================
