---------------------------- MODULE MCToolCalls ----------------------------
(* Interchangeable calls for the run of ToolCalls, and what tells two states of it apart. *)
EXTENDS ToolCalls, TLC

\* What a step may still go by: the harness is done with rows and clock, and the server
\* with a mapping, once the call they were for is being handled.
Ahead == {c \in Call : requests[c].pc \in {"new", "hook", "hooking", "queued"}}
Relevant ==
    <<harness, memory, requests, [c \in Mapped \cap Ahead |-> toolCalls[c]],
      IF Ahead = {} THEN <<>> ELSE <<current, rows, clock>> >>

CallSymmetry == Permutations(Call)
=============================================================================
