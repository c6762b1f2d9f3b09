--------------------------- MODULE ToolCallsProofs ---------------------------
(***************************************************************************)
(* What TLAPS proves of tool calls, for any sessions, calls, projects and   *)
(* retention: a call acts for the session that made it, a repeated edit is  *)
(* made once, and answers are true.                                         *)
(***************************************************************************)
EXTENDS ToolCalls, TLAPS

Outside == {"new", "hook", "hooking"}     \* before the request reaches the server
Request ==
    [pc: Outside \cup Running \cup {"queued", "over"}, kind: Kinds \cup {"none"},
     session: Session, of: Project \cup {NoProject}, expected: Nat, edit: SUBSET Call, hooked: Nat,
     key: Session \cup {Unknown}, known: BOOLEAN, context: RowState,
     outcome: {"none", "done", "refused"}, dropped: BOOLEAN, cancelled: BOOLEAN,
     answers: {0, 1}]
Memory == [edits: Seq(SUBSET Call), written: SUBSET Call]

CallsTypeOK ==
    /\ harness \in {"claude-code", "codex"}
    /\ current \in Session
    /\ rows \in [Session -> RowState]
    /\ Mapped \subseteq Call
    /\ \A c \in Mapped : toolCalls[c].at \in Nat
    /\ memory \in [Project -> Memory]
    /\ requests \in [Call -> Request]
    /\ clock \in Nat

\* The session a running call acts for.
RightKey(r) ==
    r.pc \in Running => r.key \in {r.session} \cup (IF r.known THEN {} ELSE {Startup})

\* A call on its way to a write has a project; an update names the memory of one; a call
\* not made yet asks for nothing.
RightPlace(r) ==
    /\ r.pc \in {"acting", "marking"} /\ r.kind # "read" => r.context \in Project
    /\ r.pc = "marking" => r.kind # "read"
    /\ r.kind = "update" => r.of \in Project
    /\ r.pc = "new" => r.kind = "none"

\* The call is past its transaction and was not refused.
Carried(r) ==
    \/ r.pc = "marking"
    \/ r.pc \in {"answering", "over"} /\ r.outcome = "done" /\ r.kind # "read"

\* A call that changed something is past its transaction; one that is changed something, or
\* had nothing to change.
RightEnd(r, changed, already) ==
    /\ changed => Carried(r)
    /\ Carried(r) => changed \/ already
    /\ r.answers > 0 => r.pc = "over"

\* What tool_calls says of a call, and that only time takes it away.
MappedRight(c) ==
    /\ c \in Mapped =>
          /\ toolCalls[c].session = requests[c].session
          /\ requests[c].pc \notin Outside
          /\ requests[c].pc = "queued" => toolCalls[c].at = requests[c].hooked
    /\ requests[c].hooked <= clock
    /\ requests[c].pc = "queued" /\ requests[c].hooked > 0 /\ c \notin Mapped =>
          clock > requests[c].hooked + Retention

\* The call whose edit this is, repeated or not, names the same version.
OwnEdit(c) ==
    \E x \in Call : /\ requests[x].pc # "new"
                    /\ requests[c].edit = {x}
                    /\ requests[c].expected = requests[x].expected

\* An update is somebody's edit, or says what the memory said at the version it names.
EditNamed(c) ==
    requests[c].pc # "new" /\ requests[c].kind = "update" => OwnEdit(c) \/ Already(requests[c])

\* The i-th edit of a memory is an undo, or was made by a call that named version i.
InPlace(i, by) ==
    \/ by = {}
    \/ \E c \in Call : /\ by = {c} /\ requests[c].pc # "new"
                       /\ requests[c].expected = i /\ OwnEdit(c)
EditsInPlace ==
    \A p \in Project : \A i \in DOMAIN memory[p].edits : InPlace(i, memory[p].edits[i])

CallRight(c) ==
    /\ RightKey(requests[c])
    /\ RightPlace(requests[c])
    /\ RightEnd(requests[c], Changed(c), Already(requests[c]))
    /\ MappedRight(c)
    /\ EditNamed(c)

\* The inductive invariant.
Accountable == CallsTypeOK /\ EditsInPlace /\ \A c \in Call : CallRight(c)

LEMMA AccountableInit == CallsInit => Accountable
<1> SUFFICES ASSUME CallsInit PROVE Accountable
  OBVIOUS
<1>1. Fresh \in Request
  BY StartupAssumption DEF Fresh, Request, RowState, Outside, Running, NoProject
<1>2. CallsTypeOK
  <2>1. memory \in [Project -> Memory]
    BY DEF CallsInit, Memory
  <2>2. Mapped = {}
    BY DEF CallsInit, Mapped
  <2> QED
    BY <1>1, <2>1, <2>2, StartupAssumption DEF CallsInit, CallsTypeOK
<1>3. \A p \in Project : memory[p].edits = <<>> /\ memory[p].written = {}
  BY DEF CallsInit
<1>4. EditsInPlace
  BY <1>3 DEF EditsInPlace
<1>5. ASSUME NEW c \in Call PROVE CallRight(c)
  <2>1. ~Changed(c)
    BY <1>3 DEF Changed
  <2>2. requests[c] = Fresh
    BY DEF CallsInit
  <2>3. RightKey(requests[c]) /\ RightPlace(requests[c])
        /\ RightEnd(requests[c], Changed(c), Already(requests[c]))
    BY <2>1, <2>2 DEF RightKey, RightPlace, RightEnd, Carried, Fresh, Running
  <2>4. MappedRight(c) /\ EditNamed(c)
    BY <2>2 DEF MappedRight, EditNamed, Fresh, CallsInit, Mapped
  <2> QED
    BY <2>3, <2>4 DEF CallRight
<1> QED
  BY <1>2, <1>4, <1>5 DEF Accountable

LEMMA RequestFields ==
    ASSUME Accountable, NEW c \in Call
    PROVE  /\ requests[c] \in Request
           /\ requests[c].hooked \in Nat /\ requests[c].hooked <= clock /\ clock \in Nat
           /\ requests[c].session \in Session
           /\ CallRight(c)
BY DEF Accountable, CallsTypeOK, Request, CallRight, MappedRight

\* What no step takes back: a call keeps what it is about, and a memory its versions.
Keeps ==
    \A d \in Call : requests[d].pc # "new" =>
        /\ requests'[d].pc # "new"
        /\ requests'[d].kind = requests[d].kind /\ requests'[d].of = requests[d].of
        /\ requests'[d].edit = requests[d].edit /\ requests'[d].expected = requests[d].expected
Grows ==
    \A p \in Project :
        /\ memory'[p].edits \in Seq(SUBSET Call)
        /\ \A i \in DOMAIN memory[p].edits :
               i \in DOMAIN memory'[p].edits /\ memory'[p].edits[i] = memory[p].edits[i]

LEMMA EditsOf ==
    ASSUME CallsTypeOK, NEW p \in Project
    PROVE  /\ memory[p].edits \in Seq(SUBSET Call)
           /\ Len(memory[p].edits) \in Nat /\ DOMAIN memory[p].edits = 1..Len(memory[p].edits)
           /\ Version(p) = Len(memory[p].edits) + 1
<1>1. memory[p].edits \in Seq(SUBSET Call)
  BY DEF CallsTypeOK, Memory
<1> QED
  BY <1>1 DEF Version

\* A version says for good what it says.
LEMMA TextKept ==
    ASSUME Accountable, Keeps, Grows, NEW p \in Project, NEW v \in 1..Version(p)
    PROVE  Text(p, v)' = Text(p, v) /\ v \in 1..(Version(p)')
<1>1. /\ memory[p].edits \in Seq(SUBSET Call) /\ Len(memory[p].edits) \in Nat
      /\ DOMAIN memory[p].edits = 1..Len(memory[p].edits)
      /\ Version(p) = Len(memory[p].edits) + 1
  BY EditsOf DEF Accountable
<1>2. memory'[p].edits \in Seq(SUBSET Call)
  BY DEF Grows
<1>3. DOMAIN memory'[p].edits = 1..Len(memory'[p].edits) /\ Len(memory'[p].edits) \in Nat
  BY <1>2
<1>4. v \in 1..(Len(memory'[p].edits) + 1)
  <2>1. CASE Len(memory[p].edits) = 0
    BY <1>1, <1>3, <2>1
  <2>2. CASE Len(memory[p].edits) # 0
    <3>1. Len(memory[p].edits) \in DOMAIN memory[p].edits
      BY <1>1, <2>2
    <3>2. Len(memory[p].edits) \in 1..Len(memory'[p].edits)
      BY <1>3, <3>1 DEF Grows
    <3> QED
      BY <1>1, <1>3, <3>2
  <2> QED
    BY <2>1, <2>2
<1>5. CASE v = 1
  BY <1>4, <1>5 DEF Text, Version
<1>6. CASE v # 1
  <2>1. v - 1 \in DOMAIN memory[p].edits
    BY <1>1, <1>6
  <2>2. memory'[p].edits[v - 1] = memory[p].edits[v - 1]
    BY <2>1 DEF Grows
  <2>3. InPlace(v - 1, memory[p].edits[v - 1])
    BY <2>1 DEF Accountable, EditsInPlace
  <2>4. \A c \in memory[p].edits[v - 1] : requests'[c].edit = requests[c].edit
    BY <2>3 DEF InPlace, Keeps
  <2>5. {requests'[c].edit : c \in memory[p].edits[v - 1]}
           = {requests[c].edit : c \in memory[p].edits[v - 1]}
    BY <2>4
  <2> QED
    BY <1>4, <1>6, <2>2, <2>5 DEF Text, Version
<1> QED
  BY <1>5, <1>6

\* So whatever an update once was, somebody's edit or nothing new, it stays.
LEMMA NameKept ==
    ASSUME Accountable, Keeps, Grows, NEW d \in Call, requests[d].pc # "new"
    PROVE  /\ OwnEdit(d) => OwnEdit(d)'
           /\ Already(requests[d]) => Already(requests[d])'
           /\ EditNamed(d) => EditNamed(d)'
<1>1. /\ requests'[d].kind = requests[d].kind /\ requests'[d].of = requests[d].of
      /\ requests'[d].edit = requests[d].edit /\ requests'[d].expected = requests[d].expected
  BY DEF Keeps
<1>2. OwnEdit(d) => OwnEdit(d)'
  BY <1>1 DEF OwnEdit, Keeps
<1>3. Already(requests[d]) => Already(requests[d])'
  <2> SUFFICES ASSUME Already(requests[d]) PROVE Already(requests[d])'
    OBVIOUS
  <2>1. requests[d].of \in Project
    BY RequestFields DEF Already, CallRight, RightPlace
  <2>2. requests[d].expected \in 1..Version(requests[d].of)
    BY DEF Already
  <2>3. /\ Text(requests[d].of, requests[d].expected)' = Text(requests[d].of, requests[d].expected)
        /\ requests[d].expected \in 1..(Version(requests[d].of)')
    <3> DEFINE p == requests[d].of
               v == requests[d].expected
    <3>1. PICK q \in Project : q = requests[d].of
      BY <2>1
    <3>2. PICK w \in 1..Version(q) : w = requests[d].expected
      BY <2>2, <3>1
    <3>3. Text(q, w)' = Text(q, w) /\ w \in 1..(Version(q)')
      BY TextKept
    <3> QED
      BY <1>1, <3>1, <3>2, <3>3 DEF Text, Version
  <2> QED
    BY <1>1, <2>3 DEF Already, Text, Version
<1> QED
  BY <1>1, <1>2, <1>3 DEF EditNamed

\* The edits stay in place, and those made now are.
LEMMA PlacesKept ==
    ASSUME Accountable, Keeps, Grows,
           \A p \in Project : \A i \in DOMAIN memory'[p].edits :
               i \in DOMAIN memory[p].edits \/ InPlace(i, memory[p].edits[i])'
    PROVE  EditsInPlace'
<1> SUFFICES ASSUME NEW p \in Project, NEW i \in DOMAIN memory'[p].edits,
                    i \in DOMAIN memory[p].edits
             PROVE  InPlace(i, memory[p].edits[i])'
  BY DEF EditsInPlace
<1>1. memory'[p].edits[i] = memory[p].edits[i]
  BY DEF Grows
<1>2. InPlace(i, memory[p].edits[i])
  BY DEF Accountable, EditsInPlace
<1>3. CASE memory[p].edits[i] = {}
  BY <1>1, <1>3 DEF InPlace
<1>4. ASSUME NEW c \in Call, memory[p].edits[i] = {c}, requests[c].pc # "new",
             requests[c].expected = i, OwnEdit(c)
      PROVE  InPlace(i, memory[p].edits[i])'
  BY <1>1, <1>4, NameKept DEF InPlace, Keeps
<1> QED
  BY <1>2, <1>3, <1>4 DEF InPlace

\* A call a step does not touch stays right, if tool_calls does right by it.
LEMMA OthersKept ==
    ASSUME Accountable, Keeps, Grows, NEW d \in Call,
           requests'[d] = requests[d], Changed(d)' = Changed(d), MappedRight(d)'
    PROVE  CallRight(d)'
<1>1. CallRight(d)
  BY DEF Accountable
<1>2. (RightKey(requests[d]) /\ RightPlace(requests[d]))'
  BY <1>1 DEF CallRight, RightKey, RightPlace
<1>3. RightEnd(requests[d], Changed(d), Already(requests[d]))'
  <2>1. CASE requests[d].pc = "new"
    BY <1>1, <2>1 DEF CallRight, RightEnd, Carried
  <2>2. CASE requests[d].pc # "new"
    BY <1>1, <2>2, NameKept DEF CallRight, RightEnd, Carried
  <2> QED
    BY <2>1, <2>2
<1>4. EditNamed(d)'
  <2>1. CASE requests[d].pc = "new"
    BY <2>1 DEF EditNamed
  <2>2. CASE requests[d].pc # "new"
    BY <1>1, <2>2, NameKept DEF CallRight
  <2> QED
    BY <2>1, <2>2
<1> QED
  BY <1>2, <1>3, <1>4 DEF CallRight

\* A step of one call that leaves the tables alone and keeps what the call is about.
LEMMA OneRequest ==
    ASSUME Accountable, NEW c \in Call, NEW r \in Request,
           requests' = [requests EXCEPT ![c] = r],
           UNCHANGED <<harness, current, rows, toolCalls, memory, clock>>,
           requests[c].pc # "new", r.pc # "new",
           c \in Mapped => r.pc \notin Outside,
           r.session = requests[c].session,
           r.kind = requests[c].kind, r.of = requests[c].of,
           r.edit = requests[c].edit,
           r.expected = requests[c].expected,
           r.hooked <= clock,
           r.pc = "queued" =>
               /\ c \in Mapped => toolCalls[c].at = r.hooked
               /\ r.hooked > 0 /\ c \notin Mapped => clock > r.hooked + Retention,
           RightKey(r), RightPlace(r), RightEnd(r, Changed(c), Already(requests[c]))
    PROVE  Accountable'
<1>1. requests'[c] = r /\ \A d \in Call \ {c} : requests'[d] = requests[d]
  BY DEF Accountable, CallsTypeOK
<1>2. CallsTypeOK'
  BY DEF Accountable, CallsTypeOK, Mapped
<1>3. Mapped' = Mapped /\ \A d \in Call : Changed(d)' = Changed(d)
  BY DEF Mapped, Changed
<1>4. Keeps
  BY <1>1 DEF Keeps
<1>5. Grows
  BY EditsOf DEF Grows, Accountable
<1>6. EditsInPlace'
  BY <1>4, <1>5, PlacesKept
<1>7. ASSUME NEW d \in Call PROVE CallRight(d)'
  <2>1. CallRight(d)
    BY DEF Accountable
  <2>2. MappedRight(d)'
    BY <2>1, <1>1, <1>3 DEF CallRight, MappedRight
  <2>3. CASE d = c
    <3>1. (RightKey(requests[c]) /\ RightPlace(requests[c]))'
      BY <1>1 DEF RightKey, RightPlace
    <3>2. RightEnd(requests[c], Changed(c), Already(requests[c]))'
      BY <1>1, <1>3, <1>4, <1>5, NameKept DEF RightEnd, Carried
    <3>3. EditNamed(c)'
      BY <1>4, <1>5, <2>1, <2>3, NameKept DEF CallRight
    <3> QED
      BY <2>2, <2>3, <3>1, <3>2, <3>3 DEF CallRight
  <2>4. CASE d # c
    BY <1>1, <1>3, <1>4, <1>5, <2>2, <2>4, OthersKept
  <2> QED
    BY <2>3, <2>4
<1> QED
  BY <1>2, <1>6, <1>7 DEF Accountable

\* The steps of one call that touch nothing but its request.
LEMMA HarnessSteps ==
    ASSUME Accountable, NEW c \in Call,
           HookBegins(c) \/ HookFails(c) \/ Interrupt(c) \/ Cancel(c)
    PROVE  Accountable'
<1>1. requests[c] \in Request /\ CallRight(c) /\ clock \in Nat /\ requests[c].hooked <= clock
  BY RequestFields
<1>2. CASE HookBegins(c)
  <2> DEFINE r == [requests[c] EXCEPT !.pc = "hooking", !.hooked = clock]
  <2>1. r \in Request
    BY <1>1 DEF Request, Outside
  <2>2. requests' = [requests EXCEPT ![c] = r]
    BY <1>2 DEF HookBegins, Accountable, CallsTypeOK
  <2>3. c \notin Mapped /\ requests[c].pc = "hook"
    BY <1>1, <1>2 DEF HookBegins, CallRight, MappedRight, Outside
  <2>4. RightKey(r) /\ RightPlace(r) /\ RightEnd(r, Changed(c), Already(requests[c]))
    BY <1>1, <2>3 DEF CallRight, RightKey, RightPlace, RightEnd, Carried, Running, Request
  <2>5. /\ r.pc = "hooking" /\ r.hooked = clock /\ r.session = requests[c].session
        /\ r.edit = requests[c].edit /\ r.expected = requests[c].expected
        /\ r.kind = requests[c].kind /\ r.of = requests[c].of
    BY <1>1 DEF Request
  <2>6. UNCHANGED <<harness, current, rows, toolCalls, memory, clock>>
    BY <1>2 DEF HookBegins
  <2>7. r.hooked <= clock /\ r.pc # "new" /\ r.pc # "queued" /\ requests[c].pc # "new"
    BY <1>1, <2>3, <2>5
  <2> HIDE DEF r
  <2> QED
    BY <2>1, <2>2, <2>3, <2>4, <2>5, <2>6, <2>7, OneRequest
<1>3. CASE HookFails(c)
  <2> DEFINE r == [requests[c] EXCEPT !.pc = "queued", !.hooked = 0]
  <2>1. r \in Request
    BY <1>1 DEF Request, Outside
  <2>2. requests' = [requests EXCEPT ![c] = r]
    BY <1>3 DEF HookFails, Accountable, CallsTypeOK
  <2>3. c \notin Mapped /\ requests[c].pc \in {"hook", "hooking"}
    BY <1>1, <1>3 DEF HookFails, CallRight, MappedRight, Outside
  <2>4. RightKey(r) /\ RightPlace(r) /\ RightEnd(r, Changed(c), Already(requests[c]))
    BY <1>1, <2>3 DEF CallRight, RightKey, RightPlace, RightEnd, Carried, Running, Request
  <2>5. /\ r.pc = "queued" /\ r.hooked = 0 /\ r.session = requests[c].session
        /\ r.edit = requests[c].edit /\ r.expected = requests[c].expected
        /\ r.kind = requests[c].kind /\ r.of = requests[c].of
    BY <1>1 DEF Request
  <2>6. UNCHANGED <<harness, current, rows, toolCalls, memory, clock>>
    BY <1>3 DEF HookFails
  <2>7. r.hooked <= clock /\ ~(r.hooked > 0) /\ r.pc # "new" /\ requests[c].pc # "new"
    BY <1>1, <2>3, <2>5
  <2> HIDE DEF r
  <2> QED
    BY <2>1, <2>2, <2>3, <2>4, <2>5, <2>6, <2>7, OneRequest
<1>4. CASE Interrupt(c)
  <2> DEFINE r == [requests[c] EXCEPT !.dropped = TRUE]
  <2>1. r \in Request
    BY <1>1 DEF Request
  <2>2. requests' = [requests EXCEPT ![c] = r]
    BY <1>4 DEF Interrupt, Accountable, CallsTypeOK
  <2>3. r.pc = requests[c].pc /\ r.hooked = requests[c].hooked /\ r.pc # "new"
    BY <1>1, <1>4 DEF Interrupt, Request
  <2>4. RightKey(r) /\ RightPlace(r) /\ RightEnd(r, Changed(c), Already(requests[c]))
    BY <1>1 DEF CallRight, RightKey, RightPlace, RightEnd, Carried, Request
  <2> QED
    BY <1>1, <1>4, <2>1, <2>2, <2>3, <2>4, OneRequest
    DEF Interrupt, Request, CallRight, MappedRight
<1>5. CASE Cancel(c)
  <2> DEFINE r == [requests[c] EXCEPT !.cancelled = TRUE]
  <2>1. r \in Request
    BY <1>1 DEF Request
  <2>2. requests' = [requests EXCEPT ![c] = r]
    BY <1>5 DEF Cancel, Accountable, CallsTypeOK
  <2>3. r.pc = requests[c].pc /\ r.hooked = requests[c].hooked /\ r.pc # "new"
    BY <1>1, <1>5 DEF Cancel, Running, Request
  <2>4. RightKey(r) /\ RightPlace(r) /\ RightEnd(r, Changed(c), Already(requests[c]))
    BY <1>1 DEF CallRight, RightKey, RightPlace, RightEnd, Carried, Request
  <2> QED
    BY <1>1, <1>5, <2>1, <2>2, <2>3, <2>4, OneRequest
    DEF Cancel, Request, CallRight, MappedRight
<1> QED
  BY <1>2, <1>3, <1>4, <1>5

LEMMA StartSteps ==
    ASSUME Accountable, NEW c \in Call, Start(c)
    PROVE  Accountable'
<1>1. requests[c] \in Request /\ CallRight(c) /\ clock \in Nat /\ requests[c].hooked <= clock
      /\ requests[c].hooked \in Nat /\ requests[c].session \in Session
  BY RequestFields
<1>2. PICK key \in SessionKey(c) :
          LET context == rows[key]
              unread == key # requests[c].session /\ c \in Mapped
              refused == context = Unknown \/ (requests[c].kind # "read" /\ context \notin Project)
          IN  requests' = [requests EXCEPT ![c] = [@ EXCEPT
                  !.key = key, !.context = context, !.hooked = 0,
                  !.known = harness = "codex" \/ (requests[c].hooked > 0 /\ ~unread
                                /\ clock <= requests[c].hooked + Retention),
                  !.outcome = IF refused THEN "refused" ELSE "none",
                  !.pc = IF refused THEN "answering" ELSE "acting"]]
  BY DEF Start
<1> DEFINE unread == key # requests[c].session /\ c \in Mapped
           refused == rows[key] = Unknown \/ (requests[c].kind # "read" /\ rows[key] \notin Project)
           told == harness = "codex" \/ (requests[c].hooked > 0 /\ ~unread
                                             /\ clock <= requests[c].hooked + Retention)
<1>3. requests[c].pc = "queued"
  BY DEF Start
<1>4. key \in Session /\ key \in {requests[c].session, Startup}
  BY <1>1, StartupAssumption DEF SessionKey, CallRight, MappedRight, Accountable, CallsTypeOK
<1>5. told => key = requests[c].session
  <2>1. CASE harness = "codex"
    BY <2>1 DEF SessionKey
  <2>2. CASE requests[c].hooked > 0 /\ ~unread /\ clock <= requests[c].hooked + Retention
    <3>1. c \in Mapped
      BY <1>1, <1>3, <2>2, CallLimits DEF CallRight, MappedRight
    <3> QED
      BY <2>2, <3>1
  <2> QED
    BY <2>1, <2>2
<1>6. rows[key] \in RowState
  BY <1>4 DEF Accountable, CallsTypeOK
<1>7. PICK known \in BOOLEAN, outcome \in {"refused", "none"}, pc \in {"answering", "acting"} :
          /\ known = told
          /\ outcome = IF refused THEN "refused" ELSE "none"
          /\ pc = IF refused THEN "answering" ELSE "acting"
  OBVIOUS
<1> DEFINE r == [requests[c] EXCEPT
                  !.key = key, !.context = rows[key], !.hooked = 0, !.known = known,
                  !.outcome = outcome, !.pc = pc]
<1>8. requests' = [requests EXCEPT ![c] = r]
  BY <1>2, <1>7 DEF Accountable, CallsTypeOK
<1>9. r \in Request
  <2>1. 0 \in Nat /\ pc \in Outside \cup Running \cup {"queued", "over"}
        /\ outcome \in {"none", "done", "refused"} /\ key \in Session \cup {Unknown}
    BY <1>4 DEF Running
  <2> QED
    BY <1>1, <1>6, <2>1 DEF Request
<1>10. /\ r.session = requests[c].session /\ r.edit = requests[c].edit /\ r.kind = requests[c].kind
       /\ r.of = requests[c].of /\ r.expected = requests[c].expected /\ r.hooked = 0 /\ r.key = key /\ r.known = known
       /\ r.context = rows[key] /\ r.answers = requests[c].answers
       /\ r.outcome = (IF refused THEN "refused" ELSE "none")
       /\ r.pc = (IF refused THEN "answering" ELSE "acting")
  BY <1>1, <1>7 DEF Request
<1>11. ~Changed(c) /\ requests[c].answers = 0
  <2>1. requests[c].answers \in {0, 1}
    BY <1>1 DEF Request
  <2> QED
    BY <1>1, <1>3, <2>1 DEF CallRight, RightEnd, Carried
<1>12. RightKey(r)
  BY <1>4, <1>5, <1>7, <1>10 DEF RightKey
<1>13. RightPlace(r)
  BY <1>1, <1>3, <1>10 DEF CallRight, RightPlace
<1>14. RightEnd(r, Changed(c), Already(requests[c]))
  BY <1>10, <1>11 DEF RightEnd, Carried
<1>15. UNCHANGED <<harness, current, rows, toolCalls, memory, clock>>
  BY DEF Start
<1>16. r.hooked <= clock /\ r.pc \notin Outside /\ r.pc # "queued" /\ r.pc # "new"
  BY <1>1, <1>10 DEF Outside
<1> HIDE DEF r
<1> QED
  BY <1>3, <1>8, <1>9, <1>10, <1>12, <1>13, <1>14, <1>15, <1>16, OneRequest

\* Goes and Ends, as a call of the server comes to them.
LEMMA EndsStep ==
    ASSUME Accountable, NEW c \in Call, NEW pc, NEW outcome,
           requests' = [requests EXCEPT ![c].pc = pc, ![c].outcome = outcome],
           UNCHANGED <<harness, current, rows, toolCalls, memory, clock>>,
           requests[c].pc \in {"acting", "marking"},
           \/ pc = "answering" /\ outcome = "refused" /\ requests[c].pc # "marking"
           \/ pc = "answering" /\ outcome = "done"
                  /\ (requests[c].pc = "marking" \/ requests[c].kind = "read")
    PROVE  Accountable'
<1> DEFINE r == [requests[c] EXCEPT !.pc = pc, !.outcome = outcome]
<1>1. requests[c] \in Request /\ CallRight(c) /\ requests[c].hooked <= clock
  BY RequestFields
<1>2. pc \in Running /\ outcome \in {"none", "done", "refused"}
  BY <1>1 DEF Running, Request
<1>3. r \in Request
  BY <1>1, <1>2 DEF Request
<1>4. requests' = [requests EXCEPT ![c] = r]
  BY DEF Accountable, CallsTypeOK
<1>5. /\ r.pc = pc /\ r.outcome = outcome /\ r.session = requests[c].session
      /\ r.edit = requests[c].edit /\ r.expected = requests[c].expected
      /\ r.kind = requests[c].kind /\ r.key = requests[c].key /\ r.known = requests[c].known
      /\ r.context = requests[c].context /\ r.hooked = requests[c].hooked
      /\ r.answers = requests[c].answers /\ r.of = requests[c].of
  BY <1>1 DEF Request
<1>6. ~(requests[c].answers > 0) /\ requests[c].pc \in Running
  BY <1>1 DEF CallRight, RightEnd, Running
<1> HIDE DEF r
<1>7. RightKey(r)
  BY <1>1, <1>5, <1>6 DEF CallRight, RightKey
<1>8. RightPlace(r)
  BY <1>1, <1>5 DEF CallRight, RightPlace
<1>9. /\ Changed(c) => requests[c].pc = "marking"
      /\ requests[c].pc = "marking" => Changed(c) \/ Already(requests[c])
  BY <1>1 DEF CallRight, RightEnd, Carried
<1>10. requests[c].pc = "marking" => requests[c].kind # "read"
  BY <1>1 DEF CallRight, RightPlace
<1>11. RightEnd(r, Changed(c), Already(requests[c]))
  BY <1>5, <1>6, <1>9, <1>10 DEF RightEnd, Carried
<1>12. r.hooked <= clock /\ r.pc \notin Outside /\ r.pc # "new" /\ r.pc # "queued"
       /\ requests[c].pc # "new"
  BY <1>1, <1>5 DEF Outside
<1> QED
  BY <1>3, <1>4, <1>5, <1>7, <1>8, <1>11, <1>12, OneRequest

LEMMA ServerSteps ==
    ASSUME Accountable, NEW c \in Call,
           ActFails(c) \/ MarkSaved(c) \/ Read(c)
    PROVE  Accountable'
<1>1. CASE ActFails(c)
  BY <1>1, EndsStep DEF ActFails, Ends
<1>2. CASE MarkSaved(c)
  BY <1>2, EndsStep DEF MarkSaved, Ends
<1>3. CASE Read(c)
  BY <1>3, EndsStep DEF Read, Ends
<1> QED
  BY <1>1, <1>2, <1>3

LEMMA AnswerSteps ==
    ASSUME Accountable, NEW c \in Call, Answer(c)
    PROVE  Accountable'
<1>1. requests[c] \in Request /\ CallRight(c) /\ requests[c].hooked <= clock
  BY RequestFields
<1>2. requests[c].pc = "answering" /\ UNCHANGED <<harness, current, rows, toolCalls, memory, clock>>
  BY DEF Answer
<1>3. PICK n \in {0, 1} : n = IF requests[c].cancelled THEN 0 ELSE 1
  OBVIOUS
<1> DEFINE r == [requests[c] EXCEPT !.pc = "over", !.answers = n, !.key = Unknown,
                                    !.context = Unknown, !.known = FALSE]
<1>4. requests' = [requests EXCEPT ![c] = r]
  BY <1>3 DEF Answer, Accountable, CallsTypeOK
<1>5. r \in Request
  BY <1>1 DEF Request, RowState
<1>6. /\ r.pc = "over" /\ r.outcome = requests[c].outcome /\ r.session = requests[c].session
      /\ r.edit = requests[c].edit /\ r.expected = requests[c].expected
      /\ r.kind = requests[c].kind /\ r.hooked = requests[c].hooked /\ r.of = requests[c].of
  BY <1>1 DEF Request
<1> HIDE DEF r
<1>7. RightKey(r) /\ RightPlace(r)
  BY <1>1, <1>6 DEF CallRight, RightKey, RightPlace, Running
<1>8. Carried(r) <=> Carried(requests[c])
  BY <1>2, <1>6 DEF Carried
<1>9. RightEnd(r, Changed(c), Already(requests[c]))
  BY <1>1, <1>6, <1>8 DEF CallRight, RightEnd
<1>10. r.hooked <= clock /\ r.pc \notin Outside /\ r.pc # "new" /\ r.pc # "queued"
       /\ requests[c].pc # "new"
  BY <1>1, <1>2, <1>6 DEF Outside
<1> QED
  BY <1>2, <1>4, <1>5, <1>6, <1>7, <1>9, <1>10, OneRequest

\* What an update that is asked for says: its own, what is there, or what another said.
LEMMA AskSteps ==
    ASSUME Accountable, NEW c \in Call, Ask(c)
    PROVE  Accountable'
<1>1. /\ requests[c] \in Request /\ CallRight(c) /\ requests[c].hooked <= clock
      /\ requests[c].hooked \in Nat /\ clock \in Nat
  BY RequestFields
<1>2. requests[c].pc = "new" /\ UNCHANGED <<harness, current, rows, toolCalls, memory, clock>>
  BY DEF Ask
<1> DEFINE Says(kind, of, edit, expected) ==
        \/ kind # "update"
        \/ of \in Project /\ edit = {c}
        \/ of \in Project /\ expected = Version(of) /\ edit = Text(of, Version(of))
        \/ \E d \in Call : /\ requests[d].pc # "new" /\ requests[d].kind = "update"
                           /\ of = requests[d].of /\ edit = requests[d].edit
                           /\ expected = requests[d].expected
<1>3. PICK kind \in Kinds, of \in Project \cup {NoProject}, edit \in SUBSET Call, expected \in Nat :
         /\ requests' = [requests EXCEPT ![c] = [requests[c] EXCEPT
                !.pc = "hook", !.kind = kind, !.session = current, !.of = of, !.edit = edit,
                !.expected = expected]]
         /\ Says(kind, of, edit, expected)
  <2>1. ASSUME NEW kind \in Kinds \ {"update"},
               requests' = [requests EXCEPT ![c] = [@ EXCEPT
                  !.pc = "hook", !.kind = kind, !.session = current]]
        PROVE  requests' = [requests EXCEPT ![c] = [requests[c] EXCEPT
                !.pc = "hook", !.kind = kind, !.session = current, !.of = requests[c].of,
                !.edit = requests[c].edit, !.expected = requests[c].expected]]
    BY <1>1, <2>1 DEF Accountable, CallsTypeOK, Request
  <2>2. ASSUME NEW p \in Project, NEW edit \in {{c}, Text(p, Version(p))},
               requests' = [requests EXCEPT ![c] = [@ EXCEPT
                  !.pc = "hook", !.kind = "update", !.session = current, !.of = p, !.edit = edit,
                  !.expected = Version(p)]]
        PROVE  /\ Version(p) \in Nat /\ edit \in SUBSET Call
               /\ requests' = [requests EXCEPT ![c] = [requests[c] EXCEPT
                     !.pc = "hook", !.kind = "update", !.session = current, !.of = p, !.edit = edit,
                     !.expected = Version(p)]]
    <3>1. Version(p) \in Nat
      BY EditsOf DEF Accountable
    <3>2. \A x \in Call : requests[x].edit \in SUBSET Call
      BY DEF Accountable, CallsTypeOK, Request
    <3>3. \A x \in (IF Version(p) = 1 THEN {} ELSE memory[p].edits[Version(p) - 1]) : x \in Call
      <4>1. CASE Version(p) # 1
        <5>1. Version(p) - 1 \in DOMAIN memory[p].edits
          BY <4>1, EditsOf DEF Accountable
        <5>2. memory[p].edits[Version(p) - 1] \in SUBSET Call
          BY <5>1, EditsOf DEF Accountable
        <5> QED
          BY <5>2
      <4> QED
        BY <4>1
    <3>4. Text(p, Version(p)) \in SUBSET Call
      BY <3>2, <3>3 DEF Text
    <3>5. requests' = [requests EXCEPT ![c] = [requests[c] EXCEPT
                     !.pc = "hook", !.kind = "update", !.session = current, !.of = p, !.edit = edit,
                     !.expected = Version(p)]]
      BY <2>2 DEF Accountable, CallsTypeOK
    <3> QED
      BY <3>1, <3>4, <3>5
  <2>3. ASSUME NEW d \in Call, requests[d].kind = "update",
               requests' = [requests EXCEPT ![c] = [@ EXCEPT
                  !.pc = "hook", !.kind = "update", !.session = current,
                  !.of = requests[d].of, !.edit = requests[d].edit,
                  !.expected = requests[d].expected]]
        PROVE  /\ requests[d].pc # "new" /\ requests[d].of \in Project
               /\ requests[d].edit \in SUBSET Call /\ requests[d].expected \in Nat
               /\ requests' = [requests EXCEPT ![c] = [requests[c] EXCEPT
                     !.pc = "hook", !.kind = "update", !.session = current,
                     !.of = requests[d].of, !.edit = requests[d].edit,
                     !.expected = requests[d].expected]]
    <3>1. requests[d] \in Request /\ CallRight(d)
      BY RequestFields
    <3>2. requests[d].pc # "new" /\ requests[d].of \in Project
      BY <2>3, <3>1 DEF CallRight, RightPlace
    <3>3. requests[d].edit \in SUBSET Call /\ requests[d].expected \in Nat
      BY <3>1 DEF Request
    <3> QED
      BY <2>3, <3>2, <3>3 DEF Accountable, CallsTypeOK
  <2>4. CASE \E kind \in Kinds \ {"update"} :
             requests' = [requests EXCEPT ![c] = [@ EXCEPT
                !.pc = "hook", !.kind = kind, !.session = current]]
    <3>1. requests[c].of \in Project \cup {NoProject} /\ requests[c].edit \in SUBSET Call
          /\ requests[c].expected \in Nat
      BY <1>1 DEF Request
    <3>2. PICK kind \in Kinds \ {"update"} :
             requests' = [requests EXCEPT ![c] = [requests[c] EXCEPT
                !.pc = "hook", !.kind = kind, !.session = current, !.of = requests[c].of,
                !.edit = requests[c].edit, !.expected = requests[c].expected]]
      BY <2>1, <2>4
    <3>3. Says(kind, requests[c].of, requests[c].edit, requests[c].expected)
      OBVIOUS
    <3> HIDE DEF Says
    <3> QED
      BY <3>1, <3>2, <3>3
  <2>5. CASE \E p \in Project : \E edit \in {{c}, Text(p, Version(p))} :
             requests' = [requests EXCEPT ![c] = [@ EXCEPT
                !.pc = "hook", !.kind = "update", !.session = current, !.of = p, !.edit = edit,
                !.expected = Version(p)]]
    <3>0. PICK p \in Project : \E edit \in {{c}, Text(p, Version(p))} :
             requests' = [requests EXCEPT ![c] = [@ EXCEPT
                !.pc = "hook", !.kind = "update", !.session = current, !.of = p, !.edit = edit,
                !.expected = Version(p)]]
      BY <2>5
    <3>1. PICK edit \in {{c}, Text(p, Version(p))} :
             requests' = [requests EXCEPT ![c] = [@ EXCEPT
                !.pc = "hook", !.kind = "update", !.session = current, !.of = p, !.edit = edit,
                !.expected = Version(p)]]
      BY <3>0
    <3>2. Says("update", p, edit, Version(p))
      BY <3>1
    <3>3. /\ Version(p) \in Nat /\ edit \in SUBSET Call
          /\ requests' = [requests EXCEPT ![c] = [requests[c] EXCEPT
                !.pc = "hook", !.kind = "update", !.session = current, !.of = p, !.edit = edit,
                !.expected = Version(p)]]
      BY <2>2, <3>1
    <3> HIDE DEF Says
    <3> QED
      BY <3>2, <3>3 DEF Kinds
  <2>6. CASE \E d \in Call :
             /\ requests[d].dropped /\ requests[d].session = current
             /\ requests[d].kind = "update"
             /\ requests' = [requests EXCEPT ![c] = [@ EXCEPT
                !.pc = "hook", !.kind = "update", !.session = current,
                !.of = requests[d].of, !.edit = requests[d].edit,
                !.expected = requests[d].expected]]
    <3>1. PICK d \in Call :
             /\ requests[d].kind = "update"
             /\ requests' = [requests EXCEPT ![c] = [@ EXCEPT
                !.pc = "hook", !.kind = "update", !.session = current,
                !.of = requests[d].of, !.edit = requests[d].edit,
                !.expected = requests[d].expected]]
      BY <2>6
    <3>2. /\ requests[d].pc # "new" /\ requests[d].of \in Project
          /\ requests[d].edit \in SUBSET Call /\ requests[d].expected \in Nat
          /\ requests' = [requests EXCEPT ![c] = [requests[c] EXCEPT
                !.pc = "hook", !.kind = "update", !.session = current,
                !.of = requests[d].of, !.edit = requests[d].edit,
                !.expected = requests[d].expected]]
      BY <2>3, <3>1
    <3>3. Says("update", requests[d].of, requests[d].edit, requests[d].expected)
      BY <3>1, <3>2
    <3> HIDE DEF Says
    <3> QED
      BY <3>2, <3>3 DEF Kinds
  <2> QED
    BY <2>4, <2>5, <2>6 DEF Ask
<1> DEFINE r == [requests[c] EXCEPT !.pc = "hook", !.kind = kind, !.session = current,
                                    !.of = of, !.edit = edit, !.expected = expected]
<1>4. requests' = [requests EXCEPT ![c] = r] /\ requests \in [Call -> Request]
  BY <1>3 DEF Accountable, CallsTypeOK
<1>5. r \in Request
  BY <1>1 DEF Request, Outside, Accountable, CallsTypeOK
<1>6. /\ r.pc = "hook" /\ r.kind = kind /\ r.of = of /\ r.edit = edit /\ r.expected = expected
      /\ r.hooked = requests[c].hooked /\ r.answers = requests[c].answers
  BY <1>1 DEF Request
<1>7. kind # "update" \/ of \in Project
  <2>1. \A d \in Call : requests[d].kind = "update" => requests[d].of \in Project
    BY DEF Accountable, CallRight, RightPlace
  <2> QED
    BY <1>3, <2>1
<1> HIDE DEF r
<1>8. requests'[c] = r /\ \A d \in Call \ {c} : requests'[d] = requests[d]
  BY <1>4
<1>9. CallsTypeOK'
  BY <1>2, <1>4, <1>5 DEF Accountable, CallsTypeOK, Mapped
<1>10. Mapped' = Mapped /\ \A d \in Call : Changed(d)' = Changed(d)
  BY <1>2 DEF Mapped, Changed
<1>11. Keeps
  BY <1>2, <1>8 DEF Keeps
<1>12. Grows
  BY <1>2, EditsOf DEF Grows, Accountable
<1>13. EditsInPlace'
  BY <1>2, <1>11, <1>12, PlacesKept
<1>14. EditNamed(c)'
  <2> SUFFICES ASSUME kind = "update" PROVE OwnEdit(c)' \/ Already(requests[c])'
    BY <1>6, <1>8 DEF EditNamed
  <2>1. CASE edit = {c}
    BY <1>6, <1>8, <2>1 DEF OwnEdit
  <2>2. CASE of \in Project /\ expected = Version(of) /\ edit = Text(of, Version(of))
    <3>1. Version(of) \in 1..Version(of)
      BY <2>2, EditsOf DEF Accountable
    <3>2. Text(of, Version(of))' = Text(of, Version(of)) /\ Version(of)' = Version(of)
      <4>1. \A v \in 1..Version(of) : Text(of, v)' = Text(of, v)
        BY <1>11, <1>12, <2>2, TextKept
      <4>2. Version(of)' = Version(of)
        BY <1>2 DEF Version
      <4> QED
        BY <3>1, <4>1, <4>2 DEF Text
    <3> QED
      BY <1>2, <1>6, <1>8, <2>2, <3>1, <3>2 DEF Already, Text, Version
  <2>3. ASSUME NEW d \in Call, requests[d].pc # "new", requests[d].kind = "update",
               of = requests[d].of, edit = requests[d].edit, expected = requests[d].expected
        PROVE  OwnEdit(c)' \/ Already(requests[c])'
    <3>1. OwnEdit(d) \/ Already(requests[d])
      BY <2>3, RequestFields DEF CallRight, EditNamed
    <3>2. OwnEdit(d)' \/ Already(requests[d])'
      BY <1>11, <1>12, <2>3, <3>1, NameKept
    <3>3. d # c
      BY <1>2, <2>3
    <3>4. /\ requests'[c].kind = requests'[d].kind /\ requests'[c].of = requests'[d].of
          /\ requests'[c].edit = requests'[d].edit /\ requests'[c].expected = requests'[d].expected
      BY <1>6, <1>8, <2>3, <3>3
    <3> QED
      BY <3>2, <3>4 DEF OwnEdit, Already
  <2> QED
    BY <1>3, <2>1, <2>2, <2>3
<1>15. ASSUME NEW d \in Call PROVE CallRight(d)'
  <2>1. CallRight(d)
    BY DEF Accountable
  <2>2. CASE d = c
    <3>1. ~Changed(c) /\ ~(requests[c].answers > 0) /\ c \notin Mapped
      BY <1>1, <1>2 DEF CallRight, RightEnd, Carried, MappedRight, Outside
    <3>2. (RightKey(requests[c]) /\ RightPlace(requests[c]))'
      BY <1>6, <1>7, <1>8 DEF RightKey, RightPlace, Running
    <3>3. RightEnd(requests[c], Changed(c), Already(requests[c]))'
      BY <1>6, <1>8, <1>10, <3>1 DEF RightEnd, Carried
    <3>4. MappedRight(c)'
      BY <1>1, <1>2, <1>6, <1>8, <1>10, <3>1 DEF MappedRight
    <3> QED
      BY <1>14, <2>2, <3>2, <3>3, <3>4 DEF CallRight
  <2>3. CASE d # c
    <3>1. requests'[d] = requests[d]
      BY <1>8, <2>3
    <3>2. MappedRight(d)'
      BY <1>2, <2>1, <3>1, <1>10 DEF CallRight, MappedRight
    <3> QED
      BY <1>10, <1>11, <1>12, <2>1, <3>1, <3>2, OthersKept
  <2> QED
    BY <2>2, <2>3
<1> QED
  BY <1>9, <1>13, <1>15 DEF Accountable

\* record_call: what it drops is out of the retention, and what it keeps is right.
LEMMA RecordSteps ==
    ASSUME Accountable, NEW c \in Call, HookRecords(c)
    PROVE  Accountable'
<1>1. /\ requests[c] \in Request /\ CallRight(c) /\ requests[c].hooked <= clock
      /\ requests[c].hooked \in Nat /\ clock \in Nat /\ Retention \in Nat
  BY RequestFields, CallLimits
<1>2. /\ requests[c].pc = "hooking" /\ UNCHANGED <<harness, current, rows, memory, clock>>
      /\ requests' = [requests EXCEPT ![c].pc = "queued"] /\ RecordCall(c)
  BY DEF HookRecords, Goes
<1> DEFINE r == [requests[c] EXCEPT !.pc = "queued"]
           at == requests[c].hooked
           kept == {d \in Mapped : toolCalls[d].at >= at - Retention}
<1>3. requests' = [requests EXCEPT ![c] = r] /\ requests \in [Call -> Request]
  BY <1>2 DEF Accountable, CallsTypeOK
<1>4. r \in Request
  BY <1>1 DEF Request
<1>5. /\ r.pc = "queued" /\ r.edit = requests[c].edit /\ r.expected = requests[c].expected
      /\ r.hooked = at /\ r.answers = requests[c].answers
      /\ r.kind = requests[c].kind /\ r.of = requests[c].of
      /\ r.session = requests[c].session
  BY <1>1 DEF Request
<1>6. requests'[c] = r /\ \A d \in Call \ {c} : requests'[d] = requests[d]
  BY <1>3
<1>7. /\ Mapped' = kept \cup {c}
      /\ toolCalls'[c] = [session |-> requests[c].session, at |-> at]
      /\ \A d \in kept \ {c} : toolCalls'[d] = toolCalls[d]
  BY <1>2 DEF RecordCall, Mapped
<1>8. \A d \in Mapped : d \in Call /\ toolCalls[d].at \in Nat
  BY DEF Accountable, CallsTypeOK
<1> HIDE DEF r
<1>9. CallsTypeOK'
  <2>1. Mapped' \subseteq Call /\ \A d \in Mapped' : toolCalls'[d].at \in Nat
    BY <1>1, <1>7, <1>8
  <2>2. requests' \in [Call -> Request]
    BY <1>3, <1>4
  <2> QED
    BY <1>2, <2>1, <2>2 DEF Accountable, CallsTypeOK
<1>10. \A d \in Call : Changed(d)' = Changed(d)
  BY <1>2 DEF Changed
<1>11. Keeps
  BY <1>2, <1>5, <1>6 DEF Keeps
<1>12. Grows
  BY <1>2, EditsOf DEF Grows, Accountable
<1>13. ASSUME NEW d \in Call PROVE CallRight(d)'
  <2>1. CallRight(d)
    BY DEF Accountable
  <2>2. CASE d = c
    <3>1. ~Changed(c) /\ ~(requests[c].answers > 0)
      BY <1>1, <1>2 DEF CallRight, RightEnd, Carried
    <3>2. (RightKey(requests[c]) /\ RightPlace(requests[c]))'
      BY <1>1, <1>5, <1>6 DEF CallRight, RightKey, RightPlace, Running
    <3>3. RightEnd(requests[c], Changed(c), Already(requests[c]))'
      BY <1>5, <1>6, <1>10, <3>1 DEF RightEnd, Carried
    <3>4. MappedRight(c)'
      BY <1>1, <1>2, <1>5, <1>6, <1>7 DEF MappedRight, Outside
    <3>5. EditNamed(c)'
      BY <1>1, <1>2, <1>11, <1>12, NameKept DEF CallRight
    <3> QED
      BY <2>2, <3>2, <3>3, <3>4, <3>5 DEF CallRight
  <2>4. CASE d # c
    <3>1. requests'[d] = requests[d]
      BY <1>6, <2>4
    <3>3. MappedRight(d)'
      <4>1. MappedRight(d)
        BY <2>1 DEF CallRight
      <4>2. d \in Mapped' <=> d \in kept
        BY <1>7, <2>4
      <4>3. d \in kept => toolCalls'[d] = toolCalls[d] /\ d \in Mapped
        BY <1>7, <2>4
      <4>4. d \in Mapped /\ d \notin kept /\ requests[d].pc = "queued" =>
                clock > requests[d].hooked + Retention
        <5> SUFFICES ASSUME d \in Mapped, d \notin kept, requests[d].pc = "queued"
                     PROVE  clock > requests[d].hooked + Retention
          OBVIOUS
        <5>1. toolCalls[d].at = requests[d].hooked /\ toolCalls[d].at \in Nat
          BY <1>8, <4>1 DEF MappedRight
        <5>2. toolCalls[d].at < at - Retention
          BY <1>1, <5>1
        <5> QED
          BY <1>1, <5>1, <5>2
      <4>5. requests[d].hooked <= clock
        BY <4>1 DEF MappedRight
      <4> QED
        BY <1>2, <3>1, <4>1, <4>2, <4>3, <4>4, <4>5 DEF MappedRight
    <3> QED
      BY <1>10, <1>11, <1>12, <3>1, <3>3, OthersKept
  <2> QED
    BY <2>2, <2>4
<1>14. EditsInPlace'
  BY <1>2, <1>11, <1>12, PlacesKept
<1> QED
  BY <1>9, <1>13, <1>14 DEF Accountable

\* One write: an update lands at the version its call names.
LEMMA WriteSteps ==
    ASSUME Accountable, NEW c \in Call, Write(c)
    PROVE  Accountable'
<1> DEFINE p == requests[c].context
<1>1. requests[c] \in Request /\ CallRight(c)
  BY RequestFields
<1>2. /\ requests[c].pc = "acting" /\ requests[c].kind # "read"
      /\ UNCHANGED <<harness, current, rows, toolCalls, clock>>
  BY DEF Write
<1>3. p \in Project
  BY <1>1, <1>2 DEF CallRight, RightPlace
<1>4. /\ memory \in [Project -> Memory] /\ requests \in [Call -> Request]
      /\ memory[p] \in Memory
  BY <1>3 DEF Accountable, CallsTypeOK
<1>5. CASE UNCHANGED memory /\ Ends(c, "refused")
  BY <1>2, <1>5, EndsStep DEF Ends
<1>6. ASSUME Goes(c, "marking"), memory' \in [Project -> Memory], Grows,
             Changed(c)' \/ Already(requests[c]),
             \A d \in Call \ {c} : Changed(d)' = Changed(d),
             \A q \in Project : \A i \in DOMAIN memory'[q].edits :
                \/ i \in DOMAIN memory[q].edits
                \/ memory'[q].edits[i] = {c} /\ i = requests[c].expected /\ OwnEdit(c)
      PROVE  Accountable'
  <2> DEFINE r == [requests[c] EXCEPT !.pc = "marking"]
  <2>1. requests' = [requests EXCEPT ![c] = r] /\ r \in Request
    BY <1>1, <1>4, <1>6 DEF Goes, Request, Running
  <2>2. /\ r.pc = "marking" /\ r.edit = requests[c].edit /\ r.expected = requests[c].expected
        /\ r.hooked = requests[c].hooked /\ r.answers = requests[c].answers
        /\ r.of = requests[c].of /\ r.session = requests[c].session /\ r.key = requests[c].key
        /\ r.known = requests[c].known /\ r.kind = requests[c].kind /\ r.context = p
    BY <1>1 DEF Request
  <2> HIDE DEF r
  <2>3. requests'[c] = r /\ \A d \in Call \ {c} : requests'[d] = requests[d]
    BY <1>4, <2>1
  <2>4. CallsTypeOK'
    BY <1>2, <1>4, <1>6, <2>1 DEF Accountable, CallsTypeOK, Mapped
  <2>5. Keeps
    BY <1>2, <2>2, <2>3 DEF Keeps
  <2>6. EditsInPlace'
    <3>1. OwnEdit(c) => OwnEdit(c)'
      BY <1>2, <1>6, <2>5, NameKept
    <3>2. requests'[c].pc # "new" /\ requests'[c].expected = requests[c].expected
      BY <2>2, <2>3
    <3>3. ASSUME NEW q \in Project, NEW i \in DOMAIN memory'[q].edits, i \notin DOMAIN memory[q].edits
          PROVE  InPlace(i, memory[q].edits[i])'
      BY <1>6, <3>1, <3>2, <3>3 DEF InPlace
    <3> QED
      BY <1>6, <2>5, <3>3, PlacesKept
  <2>7. ASSUME NEW d \in Call PROVE CallRight(d)'
    <3>1. CallRight(d)
      BY DEF Accountable
    <3>2. CASE d = c
      <4>1. ~(requests[c].answers > 0)
        BY <1>1, <1>2 DEF CallRight, RightEnd
      <4>2. RightKey(requests[c])'
        BY <1>1, <1>2, <2>2, <2>3 DEF CallRight, RightKey, Running
      <4>3. RightPlace(requests[c])'
        BY <1>1, <1>2, <1>3, <2>2, <2>3 DEF CallRight, RightPlace
      <4>4. Already(requests[c]) => Already(requests[c])'
        BY <1>2, <1>6, <2>5, NameKept
      <4>5. RightEnd(requests[c], Changed(c), Already(requests[c]))'
        BY <1>6, <2>2, <2>3, <4>1, <4>4 DEF RightEnd, Carried
      <4>6. MappedRight(c)'
        BY <1>1, <1>2, <2>2, <2>3 DEF CallRight, MappedRight, Mapped, Outside
      <4>7. EditNamed(c)'
        BY <1>1, <1>2, <1>6, <2>5, NameKept DEF CallRight
      <4> QED
        BY <3>2, <4>2, <4>3, <4>5, <4>6, <4>7 DEF CallRight
    <3>3. CASE d # c
      <4>1. requests'[d] = requests[d] /\ Changed(d)' = Changed(d)
        BY <1>6, <2>3, <3>3
      <4>2. MappedRight(d)'
        BY <1>2, <3>1, <4>1 DEF CallRight, MappedRight, Mapped
      <4> QED
        BY <1>6, <2>5, <4>1, <4>2, OthersKept
    <3> QED
      BY <3>2, <3>3
  <2> QED
    BY <2>4, <2>6, <2>7 DEF Accountable
<1>7. CASE memory' = [memory EXCEPT ![p].written = @ \cup {c}] /\ Goes(c, "marking")
  <2>1. memory' = [memory EXCEPT ![p] = [memory[p] EXCEPT !.written = memory[p].written \cup {c}]]
    BY <1>3, <1>4, <1>7
  <2>2. memory'[p].written = memory[p].written \cup {c} /\ memory'[p].edits = memory[p].edits
    BY <1>3, <1>4, <2>1 DEF Memory
  <2>3. \A q \in Project \ {p} : memory'[q] = memory[q]
    BY <1>3, <1>4, <2>1
  <2>4. memory' \in [Project -> Memory]
    BY <1>3, <1>4, <2>1 DEF Memory
  <2>5. Changed(c)'
    BY <1>3, <2>2 DEF Changed
  <2>6. \A d \in Call \ {c} : Changed(d)' = Changed(d)
    <3>1. \A d \in Call \ {c} : \A q \in Project :
              /\ d \in memory'[q].written <=> d \in memory[q].written
              /\ memory'[q].edits = memory[q].edits
      BY <2>2, <2>3
    <3> QED
      BY <3>1 DEF Changed
  <2>7. \A q \in Project : memory'[q].edits = memory[q].edits
    BY <2>2, <2>3
  <2>8. Grows
    BY <2>7, EditsOf DEF Grows, Accountable
  <2> QED
    BY <1>6, <1>7, <2>4, <2>5, <2>6, <2>7, <2>8
<1>8. CASE /\ requests[c].kind = "update" /\ Current(c) /\ ~Unchanged(c)
           /\ memory' = [memory EXCEPT ![p].edits = Append(@, {c})] /\ Goes(c, "marking")
  <2> DEFINE edits == Append(memory[p].edits, {c})
  <2>1. memory[p].edits \in Seq(SUBSET Call) /\ edits \in Seq(SUBSET Call)
    BY <1>4 DEF Memory
  <2>2. memory' = [memory EXCEPT ![p] = [memory[p] EXCEPT !.edits = edits]]
    BY <1>3, <1>4, <1>8
  <2>3. memory'[p].edits = edits /\ memory'[p].written = memory[p].written
    BY <1>3, <1>4, <2>2 DEF Memory
  <2>4. \A q \in Project \ {p} : memory'[q] = memory[q]
    BY <1>3, <1>4, <2>2
  <2>5. memory' \in [Project -> Memory]
    BY <1>3, <1>4, <2>1, <2>2 DEF Memory
  <2>6. /\ DOMAIN edits = DOMAIN memory[p].edits \cup {requests[c].expected}
        /\ requests[c].expected \in DOMAIN edits
        /\ edits[requests[c].expected] = {c}
        /\ \A i \in DOMAIN memory[p].edits : edits[i] = memory[p].edits[i]
    <3> DEFINE old == memory[p].edits
    <3>1. requests[c].expected = Len(old) + 1
      BY <1>8 DEF Current, Version
    <3>2. old \in Seq(SUBSET Call) /\ edits = Append(old, {c})
      BY <2>1
    <3> HIDE DEF old, edits
    <3>3. Len(old) \in Nat /\ DOMAIN old = 1..Len(old) /\ DOMAIN edits = 1..(Len(old) + 1)
      BY <3>2
    <3>4. edits[Len(old) + 1] = {c} /\ \A i \in 1..Len(old) : edits[i] = old[i]
      BY <3>2
    <3>5. DOMAIN edits = DOMAIN old \cup {Len(old) + 1}
      BY <3>3
    <3> QED
      BY <3>1, <3>3, <3>4, <3>5 DEF old
  <2> HIDE DEF edits
  <2>7. Changed(c)'
    BY <1>3, <2>3, <2>6 DEF Changed
  <2>8. \A d \in Call \ {c} : Changed(d)' = Changed(d)
    <3>1. \A d \in Call \ {c} : \A q \in Project :
              /\ d \in memory'[q].written <=> d \in memory[q].written
              /\ (\E i \in DOMAIN memory'[q].edits : memory'[q].edits[i] = {d})
                    <=> (\E i \in DOMAIN memory[q].edits : memory[q].edits[i] = {d})
      <4> SUFFICES ASSUME NEW d \in Call \ {c}, NEW q \in Project
                   PROVE  /\ d \in memory'[q].written <=> d \in memory[q].written
                          /\ (\E i \in DOMAIN memory'[q].edits : memory'[q].edits[i] = {d})
                                <=> (\E i \in DOMAIN memory[q].edits : memory[q].edits[i] = {d})
        OBVIOUS
      <4>1. CASE q = p
        BY <2>3, <2>6, <4>1
      <4>2. CASE q # p
        BY <2>4, <4>2
      <4> QED
        BY <4>1, <4>2
    <3> QED
      BY <3>1 DEF Changed
  <2>9. \A q \in Project : \A i \in DOMAIN memory'[q].edits :
            \/ i \in DOMAIN memory[q].edits
            \/ memory'[q].edits[i] = {c} /\ i = requests[c].expected
    BY <2>3, <2>4, <2>6
  <2>10. Grows
    <3> SUFFICES ASSUME NEW q \in Project
                 PROVE  /\ memory'[q].edits \in Seq(SUBSET Call)
                        /\ \A i \in DOMAIN memory[q].edits :
                               i \in DOMAIN memory'[q].edits /\ memory'[q].edits[i] = memory[q].edits[i]
      BY DEF Grows
    <3>1. CASE q = p
      BY <2>1, <2>3, <2>6, <3>1
    <3>2. CASE q # p
      BY <2>4, <3>2, EditsOf DEF Accountable
    <3> QED
      BY <3>1, <3>2
  <2>11. OwnEdit(c)
    <3>1. OwnEdit(c) \/ Already(requests[c])
      BY <1>1, <1>2, <1>8 DEF CallRight, EditNamed
    <3>2. ~Already(requests[c])
      BY <1>8 DEF Already, Current, Unchanged
    <3> QED
      BY <3>1, <3>2
  <2> QED
    BY <1>6, <1>8, <2>5, <2>7, <2>8, <2>9, <2>10, <2>11
<1>9. CASE /\ requests[c].kind = "update" /\ Current(c) /\ Unchanged(c)
           /\ UNCHANGED memory /\ Goes(c, "marking")
  <2>1. Version(p) \in 1..Version(p)
    BY <1>3, EditsOf DEF Accountable
  <2>2. Already(requests[c])
    BY <1>9, <2>1 DEF Already, Current, Unchanged
  <2>3. Grows
    BY <1>9, EditsOf DEF Grows, Accountable
  <2>4. \A d \in Call : Changed(d)' = Changed(d)
    BY <1>9 DEF Changed
  <2> QED
    BY <1>4, <1>6, <1>9, <2>2, <2>3, <2>4
<1> QED
  BY <1>5, <1>7, <1>8, <1>9 DEF Write

\* An undo is a version of no call.
LEMMA UndoSteps ==
    ASSUME Accountable, NEW p \in Project, Undo(p)
    PROVE  Accountable'
<1> DEFINE edits == Append(memory[p].edits, {})
<1>1. /\ memory \in [Project -> Memory] /\ memory[p].edits \in Seq(SUBSET Call)
      /\ UNCHANGED <<harness, current, rows, toolCalls, requests, clock>>
      /\ memory' = [memory EXCEPT ![p] = [memory[p] EXCEPT !.edits = edits]]
  BY EditsOf DEF Undo, Accountable, CallsTypeOK
<1>2. edits \in Seq(SUBSET Call)
  BY <1>1
<1>3. /\ memory'[p].edits = edits /\ memory'[p].written = memory[p].written
      /\ \A q \in Project \ {p} : memory'[q] = memory[q]
      /\ memory' \in [Project -> Memory]
  BY <1>1, <1>2 DEF Memory
<1>4. /\ \A i \in DOMAIN memory[p].edits : i \in DOMAIN edits /\ edits[i] = memory[p].edits[i]
      /\ \A i \in DOMAIN edits : i \in DOMAIN memory[p].edits \/ edits[i] = {}
  BY <1>1
<1> HIDE DEF edits
<1>5. Keeps
  BY <1>1 DEF Keeps
<1>6. Grows
  <2> SUFFICES ASSUME NEW q \in Project
               PROVE  /\ memory'[q].edits \in Seq(SUBSET Call)
                      /\ \A i \in DOMAIN memory[q].edits :
                             i \in DOMAIN memory'[q].edits /\ memory'[q].edits[i] = memory[q].edits[i]
    BY DEF Grows
  <2>1. CASE q = p
    BY <1>2, <1>3, <1>4, <2>1
  <2>2. CASE q # p
    BY <1>3, <2>2, EditsOf DEF Accountable
  <2> QED
    BY <2>1, <2>2
<1>7. EditsInPlace'
  <2>1. \A q \in Project : \A i \in DOMAIN memory'[q].edits :
            i \in DOMAIN memory[q].edits \/ InPlace(i, memory[q].edits[i])'
    BY <1>3, <1>4 DEF InPlace
  <2> QED
    BY <1>5, <1>6, <2>1, PlacesKept
<1>8. CallsTypeOK'
  BY <1>1, <1>3 DEF Accountable, CallsTypeOK, Mapped
<1>9. ASSUME NEW d \in Call PROVE CallRight(d)'
  <2>1. \A q \in Project : /\ memory'[q].written = memory[q].written
                           /\ (\E i \in DOMAIN memory'[q].edits : memory'[q].edits[i] = {d})
                                 <=> (\E i \in DOMAIN memory[q].edits : memory[q].edits[i] = {d})
    <3> SUFFICES ASSUME NEW q \in Project
                 PROVE  /\ memory'[q].written = memory[q].written
                        /\ (\E i \in DOMAIN memory'[q].edits : memory'[q].edits[i] = {d})
                              <=> (\E i \in DOMAIN memory[q].edits : memory[q].edits[i] = {d})
      OBVIOUS
    <3>1. CASE q = p
      BY <1>3, <1>4, <3>1
    <3>2. CASE q # p
      BY <1>3, <3>2
    <3> QED
      BY <3>1, <3>2
  <2>2. Changed(d)' = Changed(d)
    BY <2>1 DEF Changed
  <2>3. MappedRight(d)'
    BY <1>1 DEF Accountable, CallRight, MappedRight, Mapped
  <2> QED
    BY <1>1, <1>5, <1>6, <2>2, <2>3, OthersKept
<1> QED
  BY <1>7, <1>8, <1>9 DEF Accountable

\* Steps that leave every request and memory as it is.
LEMMA OtherSteps ==
    ASSUME Accountable, Clear \/ Tick \/ UNCHANGED callVars
    PROVE  Accountable'
<1>1. UNCHANGED <<harness, toolCalls, memory, requests>>
  BY DEF Clear, Tick, callVars
<1>2. clock \in Nat /\ clock' \in Nat /\ clock' >= clock
  BY DEF Accountable, CallsTypeOK, Clear, Tick, callVars
<1>3. current' \in Session /\ rows' \in [Session -> RowState]
  <2>1. CASE Clear
    <3>1. PICK s \in Session \ {current} :
              /\ current' = s
              /\ rows' \in {rows} \cup
                     {[rows EXCEPT ![s] = row] : row \in IF rows[s] = Unknown THEN RowState ELSE {}}
      BY <2>1 DEF Clear
    <3>2. rows \in [Session -> RowState]
      BY DEF Accountable, CallsTypeOK
    <3>3. CASE rows' = rows
      BY <3>1, <3>2, <3>3
    <3>4. CASE \E row \in RowState : rows' = [rows EXCEPT ![s] = row]
      BY <3>1, <3>2, <3>4
    <3> QED
      BY <3>1, <3>3, <3>4
  <2>2. CASE Tick \/ UNCHANGED callVars
    BY <2>2 DEF Tick, callVars, Accountable, CallsTypeOK
  <2> QED
    BY <2>1, <2>2
<1>4. CallsTypeOK'
  BY <1>1, <1>2, <1>3 DEF Accountable, CallsTypeOK, Mapped
<1>5. Keeps /\ Grows
  BY <1>1, EditsOf DEF Keeps, Grows, Accountable
<1>6. EditsInPlace'
  BY <1>1, <1>5, PlacesKept
<1>7. ASSUME NEW c \in Call PROVE CallRight(c)'
  <2>1. CallRight(c) /\ requests[c].hooked \in Nat /\ Retention \in Nat
    BY RequestFields, CallLimits
  <2>2. Changed(c)' = Changed(c)
    BY <1>1 DEF Changed
  <2>3. MappedRight(c)'
    BY <1>1, <1>2, <2>1 DEF CallRight, MappedRight, Mapped
  <2> QED
    BY <1>1, <1>5, <2>2, <2>3, OthersKept
<1> QED
  BY <1>4, <1>6, <1>7 DEF Accountable
-----------------------------------------------------------------------------
\* The inductive invariant: what each call in flight knows of its session, its
\* project and its outcome, for any number of calls and sessions.
THEOREM AccountableInvariant == CallsSpec => []Accountable
<1>1. Accountable /\ [CallsNext]_callVars => Accountable'
  <2> SUFFICES ASSUME Accountable, [CallsNext]_callVars PROVE Accountable'
    OBVIOUS
  <2>1. CASE Clear \/ Tick \/ UNCHANGED callVars
    BY <2>1, OtherSteps
  <2>2. ASSUME NEW c \in Call, HookBegins(c) \/ HookFails(c) \/ Interrupt(c) \/ Cancel(c)
        PROVE  Accountable'
    BY <2>2, HarnessSteps
  <2>3. ASSUME NEW c \in Call, ActFails(c) \/ MarkSaved(c) \/ Read(c)
        PROVE  Accountable'
    BY <2>3, ServerSteps
  <2>4. ASSUME NEW c \in Call, Ask(c) \/ HookRecords(c) \/ Start(c) \/ Write(c) \/ Answer(c)
        PROVE  Accountable'
    BY <2>4, AskSteps, RecordSteps, StartSteps, WriteSteps, AnswerSteps
  <2>5. ASSUME NEW p \in Project, Undo(p)
        PROVE  Accountable'
    BY <2>5, UndoSteps
  <2> QED
    BY <2>1, <2>2, <2>3, <2>4, <2>5 DEF CallsNext, Act
<1> QED
  BY <1>1, AccountableInit, PTL DEF CallsSpec

\* A call acts for the session that made it, whatever is cleared, resumed, pruned
\* or called meanwhile, unless its mapping failed or was out of the retention.
THEOREM OwnSessionHolds == CallsSpec => []OwnSession
<1>1. Accountable => OwnSession
  BY DEF Accountable, CallRight, RightKey, OwnSession
<1> QED
  BY <1>1, AccountableInvariant, PTL

\* An edit that was interrupted and repeated, however often, is made once, whatever is
\* undone between.
THEOREM EditedOnceHolds == CallsSpec => []EditedOnce
<1>1. Accountable => EditedOnce
  <2> SUFFICES ASSUME Accountable, NEW p \in Project,
                      NEW i \in DOMAIN memory[p].edits, NEW j \in DOMAIN memory[p].edits,
                      Text(p, i + 1) = Text(p, j + 1), Text(p, i + 1) # {}
               PROVE  i = j
    BY DEF EditedOnce
  <2>1. ASSUME NEW k \in DOMAIN memory[p].edits, Text(p, k + 1) # {}
        PROVE  \E x \in Call : Text(p, k + 1) = {x} /\ requests[x].expected = k
    <3>1. k \in Nat /\ k + 1 # 1 /\ (k + 1) - 1 = k
      BY EditsOf DEF Accountable
    <3>2. Text(p, k + 1) = UNION {requests[c].edit : c \in memory[p].edits[k]}
      BY <3>1 DEF Text
    <3>3. memory[p].edits[k] # {}
      BY <2>1, <3>2
    <3>4. PICK c \in Call : memory[p].edits[k] = {c} /\ requests[c].expected = k /\ OwnEdit(c)
      BY <3>3 DEF Accountable, EditsInPlace, InPlace
    <3>5. UNION {requests[d].edit : d \in {c}} = requests[c].edit
      OBVIOUS
    <3>6. Text(p, k + 1) = requests[c].edit
      BY <3>2, <3>4, <3>5
    <3> QED
      BY <3>4, <3>6 DEF OwnEdit
  <2>2. PICK x \in Call : Text(p, i + 1) = {x} /\ requests[x].expected = i
    BY <2>1
  <2>3. PICK y \in Call : Text(p, j + 1) = {y} /\ requests[y].expected = j
    BY <2>1
  <2>4. x = y
    BY <2>2, <2>3
  <2> QED
    BY <2>2, <2>3, <2>4
<1> QED
  BY <1>1, AccountableInvariant, PTL

\* What an agent is told of a write is so, whichever step of the call failed: it was made, or
\* the memory said just that at the version the call named.
THEOREM AnswersAreTrueHolds == CallsSpec => []AnswersAreTrue
<1>1. Accountable => AnswersAreTrue
  <2> SUFFICES ASSUME Accountable, NEW c \in Call,
                      requests[c].answers > 0, requests[c].kind # "read"
               PROVE  /\ Changed(c) => requests[c].outcome = "done"
                      /\ requests[c].outcome = "done" => Changed(c) \/ Already(requests[c])
    BY DEF AnswersAreTrue
  <2>1. RightEnd(requests[c], Changed(c), Already(requests[c]))
    BY DEF Accountable, CallRight
  <2> QED
    BY <2>1 DEF RightEnd, Carried
<1> QED
  BY <1>1, AccountableInvariant, PTL
=============================================================================
