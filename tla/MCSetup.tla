------------------------------- MODULE MCSetup -------------------------------
(* One harness and its two files for the run of Setup. *)
EXTENDS Setup

KiroOnly == {<<"kiro">>}
MCFound == {[p \in Paths |-> Absent(p)]}
=============================================================================
