----------------------------- MODULE VersionLog -----------------------------
(***************************************************************************)
(* What the memory store promises, seen from outside: each memory is an    *)
(* append-only log of states.  A change appends one new state to each of   *)
(* some memories, all at once; a purge empties some logs for good, and     *)
(* takes every memory whose log cites one of them along.                   *)
(***************************************************************************)
EXTENDS Integers, Sequences

CONSTANT MemoryId

VARIABLES
    log,      \* log[m][v]: the state of version v of memory m
    gone      \* the memories purged so far

Last(s) == s[Len(s)]

Init == log = [m \in MemoryId |-> <<>>] /\ gone = {}

\* Every state of `s` cites only entries of the logs `l`.
CitesOnly(s, l) ==
    \A v \in 1..Len(s) : \A r \in s[v].sources : r[2] \in 1..Len(l[r[1]])

\* One step of a memory's log: the same entries and a state unlike the last,
\* which cites only what was in the logs before.
Extends(m) ==
    /\ Len(log'[m]) = Len(log[m]) + 1
    /\ \A v \in 1..Len(log[m]) : log'[m][v] = log[m][v]
    /\ log[m] # <<>> => Last(log'[m]) # Last(log[m])
    /\ CitesOnly(log'[m], log)

Change ==
    /\ \A m \in MemoryId : log'[m] = log[m] \/ (m \notin gone /\ Extends(m))
    /\ gone' = gone

Purge ==
    \E S \in SUBSET (MemoryId \ gone) :
        /\ gone' = gone \cup S
        /\ log' = [m \in MemoryId |-> IF m \in S THEN <<>> ELSE log[m]]
        /\ \A m \in MemoryId : CitesOnly(log'[m], log')

Spec == Init /\ [][Change \/ Purge]_<<log, gone>>
=============================================================================
