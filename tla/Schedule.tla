------------------------------ MODULE Schedule -------------------------------
(***************************************************************************)
(* The macOS LaunchAgent that starts memriver dream run every day           *)
(* (dream_plugin/schedule.py): a plist file, the job launchd has loaded,    *)
(* and the installation that replaces both or puts both back, one           *)
(* launchctl call or file operation at a time.  launchd may refuse or fail  *)
(* to answer any call, and the process may be killed between two.           *)
(***************************************************************************)
EXTENDS Naturals

VARIABLES
    plist,     \* the plist file: "absent", or which plist it holds
    loaded,    \* the job launchd has loaded: "no", or from which plist
    agent      \* the installation or removal under way

scheduleVars == <<plist, loaded, agent>>

Plists == {"before", "ours"}
AgentEnded == {"idle", "installed", "removed", "nothing", "refused", "unrestored", "killed"}
NoAgent == [pc |-> "idle", removing |-> FALSE, previous |-> "absent", was |-> "no",
            lost |-> FALSE]

ScheduleInit ==
    /\ plist \in {"absent", "before"}
    /\ loaded \in {"no", "before"}
    /\ agent = NoAgent

To(pc) == agent' = [agent EXCEPT !.pc = pc]
Keep == UNCHANGED <<plist, loaded>>

\* install and uninstall look at both before they touch either.  launchctl
\* print may answer neither 0 nor 113: then nothing has been touched.
Look(removing) ==
    /\ agent.pc = "idle"
    /\ Keep
    /\ agent' = [NoAgent EXCEPT !.removing = removing, !.previous = plist, !.was = loaded,
                    !.pc = CASE loaded # "no" -> "unloading"
                             [] loaded = "no" /\ removing ->
                                  IF plist = "absent" THEN "nothing" ELSE "deleting"
                             [] OTHER -> "writing"]

CannotLook(removing) ==
    /\ agent.pc = "idle"
    /\ agent' = [NoAgent EXCEPT !.removing = removing, !.previous = plist, !.was = loaded,
                    !.pc = "refused"]
    /\ Keep

\* launchctl bootout, which may do nothing.
Bootout ==
    /\ agent.pc = "unloading"
    /\ loaded' \in {"no", loaded}
    /\ To("asking")
    /\ UNCHANGED plist

\* launchctl print again: only an answer that the job is gone goes on.  The
\* refusal is raised ahead of the block that restores.
StillLoaded ==
    /\ agent.pc = "asking"
    /\ \/ loaded = "no" /\ To(IF agent.removing THEN "deleting" ELSE "writing")
       \/ agent' = [agent EXCEPT !.pc = "refused", !.lost = (loaded = "no")]
    /\ Keep

DeletePlist ==
    /\ agent.pc = "deleting"
    /\ \/ plist' = "absent" /\ To("removed")
       \/ plist' = plist /\ To("refused")
    /\ UNCHANGED loaded

WritePlist ==
    /\ agent.pc = "writing"
    /\ \/ plist' = "ours" /\ To("bootstrap")
       \/ plist' = plist /\ To("restoring")
    /\ UNCHANGED loaded

Bootstrap ==
    /\ agent.pc = "bootstrap"
    /\ \/ loaded' = plist /\ To("installed")
       \/ loaded' = loaded /\ To("restoring")
    /\ UNCHANGED plist

\* Mutant: the plist is put back and its job is not.
RestorePlistOnly ==
    /\ agent.pc = "restoring"
    /\ plist' = agent.previous /\ To("refused")
    /\ UNCHANGED loaded

\* _restore: the plist first, then the job if it had been loaded.
RestorePlist ==
    /\ agent.pc = "restoring"
    /\ \/ plist' = agent.previous
          /\ To(IF agent.was = "no" THEN "refused" ELSE "reloading")
       \/ plist' = plist /\ To("unrestored")
    /\ UNCHANGED loaded

Reload ==
    /\ agent.pc = "reloading"
    /\ \/ plist # "absent" /\ loaded' = plist /\ To("refused")
       \/ loaded' = loaded /\ To("unrestored")
    /\ UNCHANGED plist

KillAgent ==
    /\ agent.pc \notin AgentEnded
    /\ To("killed")
    /\ Keep

AgentStep == \/ Bootout \/ StillLoaded \/ DeletePlist \/ WritePlist \/ Bootstrap
             \/ RestorePlist \/ Reload \/ KillAgent
-----------------------------------------------------------------------------
\* A replacement that was refused has put the schedule back, its job loaded if one was; no job runs
\* from a plist that a removal has deleted, and a refused removal kept the plist that says what is
\* left.  The job is lost only where launchd booted it out and then would not say so; that is
\* reported as unconfirmed.
ScheduleStands ==
    /\ (agent.pc = "refused" /\ ~agent.removing /\ ~agent.lost /\ agent.was \in {"no", agent.previous})
           => plist = agent.previous /\ loaded = agent.was
    /\ agent.pc \in {"removed", "nothing"} => plist = "absent" /\ loaded = "no"
    /\ (agent.pc = "refused" /\ agent.removing) => plist = agent.previous
=============================================================================
