------------------------------ MODULE Scheduler ------------------------------
(***************************************************************************)
(* What asking Windows for a nightly task can come to: scheduler/windows   *)
(* and task_com, with the elevated child of scheduler/elevation and        *)
(* elevated_apply behind a permission window.  A call is a way it went and *)
(* the effect it had: now, never, or late, when a call that was given up   *)
(* goes on by itself.                                                      *)
(***************************************************************************)
EXTENDS FiniteSets

\* The kinds that run while nobody is signed in.
Unattended(kind) == kind # "token"

\* register_task: the signed-in account alone can do without a password, and
\* a request that is refused here never reaches Windows.
PrincipalRefusal(kind, own, shaped) ==
    IF ~shaped THEN "account_shape"
    ELSE IF kind = "token" /\ ~own THEN "needs_password" ELSE "none"

RegistersElevated(kind, elevated) == Unattended(kind) /\ ~elevated

\* delete: only a refusal for want of rights is tried again behind a prompt.
RemovesElevated(way, elevated) == way = "access_denied" /\ ~elevated

-----------------------------------------------------------------------------
(* The ways a call can go.                                                 *)

\* bounded: a worker that does not answer in time cannot be stopped.
DirectWays == {"returned", "hung", "access_denied", "failed", "not_found"}

\* The child, in the order it looks: the size and the seal of the request,
\* its fields, then Windows. What stops it after that leaves no result.
Requests == {"good", "too_big", "missing", "forbidden", "foreign", "garbled", "incomplete"}

ChildResult(request, com) ==
    CASE request \in {"forbidden", "foreign"}                            -> "other_account"
      [] request \in {"too_big", "missing", "garbled", "incomplete"} -> "child_refused"
      [] OTHER -> IF com = "returned" THEN "child_done" ELSE "child_refused"

\* run_elevated, and then the result file, which is read only of a child that
\* ended by itself; one that does not is killed.
ElevatedWays == {"declined", "launch_failed", "timed_out", "no_result"}
                   \cup {ChildResult(request, com) : request \in Requests, com \in DirectWays}

Ways(elevated) == IF elevated THEN ElevatedWays ELSE DirectWays

Effects(way) ==
    CASE way \in {"returned", "child_done"}     -> {"now"}
      [] way = "hung"                           -> {"now", "late", "never"}
      [] way \in {"timed_out", "no_result"} -> {"now", "never"}
      [] OTHER                                  -> {"never"}

-----------------------------------------------------------------------------
(* What the caller is told.                                                *)

\* read_schedule: what a read-back finds; nobody can say where it fails.
Readback(there, readable) == IF ~readable THEN "unknown" ELSE IF there THEN "found" ELSE "absent"

\* The ways that are settled by a read-back, and by nothing else.
ConfirmedByReadback == {"hung", "timed_out", "no_result", "child_done"}

\* _confirm_registration: a task of that name.
RegistrationSucceeded(way, readback) ==
    \/ way = "returned"
    \/ way \in ConfirmedByReadback /\ readback = "found"

\* request_provision: the child's own word, and nothing is read back.
ProvisionSucceeded(way) == way = "child_done"

\* _confirm_removal; a task that was not there is as good as removed.
RemovalSucceeded(way, readback) ==
    \/ way \in {"returned", "not_found"}
    \/ way \in ConfirmedByReadback /\ readback = "absent"
=============================================================================
