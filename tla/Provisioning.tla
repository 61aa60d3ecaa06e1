---------------------------- MODULE Provisioning ----------------------------
(***************************************************************************)
(* One computer is moved from the administrator's own profile to a shared  *)
(* one.  The window asks for an elevated child process; the child builds   *)
(* the shared folder, copies the profile, seals the delivery password,     *)
(* verifies, turns the machine switch on and registers the nightly.  The   *)
(* window waits a bounded time and then kills it, so every step may be the *)
(* last one.  Afterwards the window reads the switch itself, supersedes    *)
(* the old profile and writes the schedule record.  Removal is the second  *)
(* elevated operation: the task first, then its account's access.          *)
(*                                                                         *)
(* Sources: scheduler/provisioning.py, scheduler/provision_session.py,     *)
(* scheduler/elevated_apply.py, scheduler/elevation.py (run_elevated),     *)
(* utils/paths.py (the pin) and the two handlers of ui_flet/screens/setup. *)
(***************************************************************************)
EXTENDS Naturals

CONSTANTS Accounts,   \* the service accounts a nightly may be asked to run as
          Managed,    \* those of them that are managed service accounts
          Admin,      \* the account of the window and of the elevated child
          None,       \* no task, no record, no file
          MaxFaults,  \* bound: failing calls, kills and unreadable answers
          MaxEdits    \* bound: settings saves by the administrator

VARIABLES shared,   \* the shared folder and what stands in it
          own,      \* the administrator's own profile
          switch,   \* the machine-scope value in the registry
          task,     \* the account the scheduled task runs as, or None
          child,    \* the elevated process
          window,   \* the window's process
          faults    \* how many more things may go wrong

vars == <<shared, own, switch, task, child, window, faults>>

Records  == Accounts \cup {Admin, None}
Settings == [edits : 0..MaxEdits, record : Records]
Blank    == [edits |-> 0, record |-> None]

ASSUME ProvisioningAssumption ==
  /\ Managed \subseteq Accounts
  /\ Admin \notin Accounts /\ None \notin Accounts /\ Admin # None
  /\ None \notin Settings
  /\ MaxFaults \in Nat /\ MaxEdits \in Nat

NoFolder == [root |-> "absent", runs |-> FALSE, rootAces |-> {}, runsAces |-> {},
             config |-> None, history |-> FALSE, secret |-> FALSE]

NoChild == [pc |-> "idle", op |-> "none", who |-> None, created |-> FALSE,
            staged |-> [config |-> None, history |-> FALSE], step |-> "ok"]

\* The refusal each step of the child reports when the call it makes fails.
FailsWith ==
  [ begin          |-> "principal", createRoot    |-> "create",    createRuns |-> "create",
    ensureRuns     |-> "create",    grantRoot     |-> "principal", grantRuns  |-> "principal",
    stage          |-> "migrate",   promoteConfig |-> "migrate",   promoteHistory |-> "migrate",
    seed           |-> "secret",    verify        |-> "verify",    commit     |-> "commit",
    trust          |-> "principal", delete        |-> "delete",    confirmGone |-> "delete",
    pruneRoot      |-> "prune",     pruneRuns     |-> "prune" ]

Refusals == {FailsWith[pc] : pc \in DOMAIN FailsWith} \cup {"pre_existing", "task"}
ChildPCs == DOMAIN FailsWith \cup {"idle", "consent", "register", "rollback", "report"}
Outcomes == Refusals \cup {"none", "ok", "declined", "unconfirmed", "revoked", "removed", "kept"}

Folders == [root : {"absent", "trusted", "foreign"}, runs : BOOLEAN,
            rootAces : SUBSET Records, runsAces : SUBSET Records,
            config : Settings \cup {None}, history : BOOLEAN, secret : BOOLEAN]

Profiles == [config : Settings \cup {None}, history : BOOLEAN, moved : BOOLEAN]

Copies == [config : Settings \cup {None}, history : BOOLEAN]

Children == [pc : ChildPCs, op : {"none", "provision", "remove"}, who : Records,
             created : BOOLEAN, step : Refusals \cup {"ok"}, staged : Copies]

Windows == [pc : {"idle", "asked", "repin", "aside", "persist", "confirm", "fallback"},
            op : {"none", "provision", "remove"}, who : Records,
            pin : {"own", "machine", "refused"}, cfg : Settings, outcome : Outcomes]

TypeOK ==
  /\ shared \in Folders /\ own \in Profiles /\ switch \in BOOLEAN /\ task \in Records
  /\ child \in Children /\ window \in Windows /\ faults \in 0..MaxFaults

-----------------------------------------------------------------------------
(* What the two processes share *)

Fault == faults > 0 /\ faults' = faults - 1

\* The profile a process that starts now is pinned to: a refusal never falls
\* back to the administrator's own profile.
PinNow ==
  IF ~switch THEN "own" ELSE IF shared.root = "trusted" THEN "machine" ELSE "refused"

FileOf(pin) == CASE pin = "own" -> own.config [] pin = "machine" -> shared.config
                 [] OTHER -> None

Loaded(file) == IF file = None THEN Blank ELSE file

\* The window saves its whole configuration into the profile it is pinned to;
\* a superseded profile refuses the write.
Writable == window.pin = "machine" \/ (window.pin = "own" /\ ~own.moved)

Save(cfg) ==
  /\ Writable
  /\ shared' = IF window.pin = "machine" THEN [shared EXCEPT !.config = cfg] ELSE shared
  /\ own' = IF window.pin = "own" THEN [own EXCEPT !.config = cfg] ELSE own

\* A save either lands or raises; the fields in memory were set before it.
SaveOrRaise(cfg) ==
  \/ Save(cfg) /\ UNCHANGED faults
  \/ Fault /\ UNCHANGED <<shared, own>>

\* Where the window goes with the answer of an elevated operation.
After(op, outcome) ==
  CASE op = "provision" -> "repin"
    [] op = "remove" /\ outcome = "declined" -> "idle"
    [] op = "remove" /\ outcome \in {"ok", "delete", "prune", "unconfirmed"} -> "confirm"
    [] OTHER -> "fallback"

\* The child is gone; a window that still waits for it learns the outcome.
Answer(outcome) ==
  /\ child' = NoChild
  /\ window' = IF window.pc = "asked"
               THEN [window EXCEPT !.outcome = outcome, !.pc = After(window.op, outcome)]
               ELSE window

Launch(op, who) ==
  /\ child.pc = "idle"
  /\ child' = [NoChild EXCEPT !.pc = "consent", !.op = op, !.who = who]
  /\ window' = [window EXCEPT !.pc = "asked", !.op = op, !.who = who, !.outcome = "none"]

-----------------------------------------------------------------------------
(* The elevated child: provision *)

Goto(pc) == child' = [child EXCEPT !.pc = pc]

\* Mutant: every refusal rolls back.
RefuseAndRollBack(step) == child' = [child EXCEPT !.step = step, !.pc = "rollback"]

\* A refusal rolls back only the folder this very attempt created.
Refuse(step) ==
  child' = [child EXCEPT !.step = step, !.pc = IF child.created THEN "rollback" ELSE "report"]

\* Mutant: a folder that stands there is never adopted.
BeginFreshOnly ==
  /\ child.pc = "begin"
  /\ IF shared.root = "absent" THEN Goto("createRoot") ELSE Refuse("pre_existing")
  /\ UNCHANGED <<shared, own, switch, task, window, faults>>

\* Fresh, resumed or refused: the folder alone decides, never the switch.
Begin ==
  /\ child.pc = "begin"
  /\ CASE shared.root = "absent"  -> Goto("createRoot")
       [] shared.root = "trusted" -> Goto("ensureRuns")
       [] OTHER                   -> Refuse("pre_existing")
  /\ UNCHANGED <<shared, own, switch, task, window, faults>>

CreateRoot ==
  /\ child.pc = "createRoot"
  /\ shared' = [shared EXCEPT !.root = "trusted", !.rootAces = {child.who}]
  /\ Goto("createRuns")
  /\ UNCHANGED <<own, switch, task, window, faults>>

CreateRuns ==
  /\ child.pc = "createRuns"
  /\ shared' = [shared EXCEPT !.runs = TRUE, !.runsAces = {child.who}]
  /\ child' = [child EXCEPT !.pc = "stage", !.created = TRUE]
  /\ UNCHANGED <<own, switch, task, window, faults>>

\* A resumed attempt repairs what a kill may have left out.
EnsureRuns ==
  /\ child.pc = "ensureRuns"
  /\ shared' = IF shared.runs THEN shared
               ELSE [shared EXCEPT !.runs = TRUE, !.runsAces = {child.who}]
  /\ Goto("grantRoot")
  /\ UNCHANGED <<own, switch, task, window, faults>>

GrantRoot ==
  /\ child.pc = "grantRoot"
  /\ shared' = [shared EXCEPT !.rootAces = @ \cup {child.who}]
  /\ Goto("grantRuns")
  /\ UNCHANGED <<own, switch, task, window, faults>>

GrantRuns ==
  /\ child.pc = "grantRuns"
  /\ shared' = [shared EXCEPT !.runsAces = @ \cup {child.who}]
  /\ Goto("stage")
  /\ UNCHANGED <<own, switch, task, window, faults>>

\* Mutant: the copies overwrite.
StagedAlways == [config |-> own.config, history |-> own.history]

\* Copies are taken only of what the destination does not hold yet.
StagedNow ==
  [config |-> IF shared.config = None THEN own.config ELSE None,
   history |-> own.history /\ ~shared.history]

Stage ==
  /\ child.pc = "stage"
  /\ child' = [child EXCEPT !.pc = "promoteConfig", !.staged = StagedNow]
  /\ UNCHANGED <<shared, own, switch, task, window, faults>>

PromoteConfig ==
  /\ child.pc = "promoteConfig"
  /\ shared' = IF child.staged.config = None THEN shared
               ELSE [shared EXCEPT !.config = child.staged.config]
  /\ Goto("promoteHistory")
  /\ UNCHANGED <<own, switch, task, window, faults>>

PromoteHistory ==
  /\ child.pc = "promoteHistory"
  /\ shared' = [shared EXCEPT !.history = @ \/ child.staged.history]
  /\ Goto("seed")
  /\ UNCHANGED <<own, switch, task, window, faults>>

SeedSecret ==
  /\ child.pc = "seed"
  /\ shared' = [shared EXCEPT !.secret = TRUE]
  /\ Goto("verify")
  /\ UNCHANGED <<own, switch, task, window, faults>>

Verify ==
  /\ child.pc = "verify"
  /\ IF /\ shared.root = "trusted" /\ shared.runs
        /\ own.history => shared.history
     THEN Goto("commit") ELSE Refuse("verify")
  /\ UNCHANGED <<shared, own, switch, task, window, faults>>

Commit ==
  /\ child.pc = "commit"
  /\ switch' = TRUE
  /\ Goto("register")
  /\ UNCHANGED <<shared, own, task, window, faults>>

\* TASK_CREATE_OR_UPDATE: a task of that name is replaced, whoever ran it.
Register ==
  /\ child.pc = "register"
  /\ task' = child.who
  /\ Goto("report")
  /\ UNCHANGED <<shared, own, switch, window, faults>>

\* After the commit a failure leaves the switch and the folder as they are.
RegisterFails ==
  /\ child.pc = "register"
  /\ Fault
  /\ child' = [child EXCEPT !.pc = "report", !.step = "task"]
  /\ UNCHANGED <<shared, own, switch, task, window>>

Rollback ==
  /\ child.pc = "rollback"
  /\ shared' = NoFolder
  /\ Goto("report")
  /\ UNCHANGED <<own, switch, task, window, faults>>

\* rmtree stopped somewhere: any part of the content may be gone already.
Remains(runs, config, history, secret) ==
  [root     |-> shared.root,
   runs     |-> shared.runs /\ runs,
   rootAces |-> shared.rootAces,
   runsAces |-> IF runs THEN shared.runsAces ELSE {},
   config   |-> IF config THEN shared.config ELSE None,
   history  |-> shared.history /\ history /\ runs,
   secret   |-> shared.secret /\ secret]

RollbackFails ==
  /\ child.pc = "rollback"
  /\ Fault
  /\ \E runs, config, history, secret \in BOOLEAN :
       shared' = Remains(runs, config, history, secret)
  /\ Goto("report")
  /\ UNCHANGED <<own, switch, task, window>>

-----------------------------------------------------------------------------
(* The elevated child: remove the nightly with its account's access *)

TrustFolder ==
  /\ child.pc = "trust"
  /\ IF shared.root = "trusted" THEN Goto("delete") ELSE Refuse("pre_existing")
  /\ UNCHANGED <<shared, own, switch, task, window, faults>>

DeleteTask ==
  /\ child.pc = "delete"
  /\ task' = None
  /\ Goto("confirmGone")
  /\ UNCHANGED <<shared, own, switch, window, faults>>

\* The access goes only after a read-back has found no task.
ConfirmGone ==
  /\ child.pc = "confirmGone"
  /\ IF task = None THEN Goto("pruneRoot") ELSE Refuse("delete")
  /\ UNCHANGED <<shared, own, switch, task, window, faults>>

\* Mutant: the runs folder is forgotten.
PruneRootOnly ==
  /\ child.pc = "pruneRoot"
  /\ shared' = [shared EXCEPT !.rootAces = @ \ {child.who}]
  /\ Goto("report")
  /\ UNCHANGED <<own, switch, task, window, faults>>

PruneRoot ==
  /\ child.pc = "pruneRoot"
  /\ shared' = [shared EXCEPT !.rootAces = @ \ {child.who}]
  /\ Goto("pruneRuns")
  /\ UNCHANGED <<own, switch, task, window, faults>>

PruneRuns ==
  /\ child.pc = "pruneRuns"
  /\ shared' = [shared EXCEPT !.runsAces = @ \ {child.who}]
  /\ Goto("report")
  /\ UNCHANGED <<own, switch, task, window, faults>>

-----------------------------------------------------------------------------
(* The elevated child: how it starts, fails and ends *)

Consent ==
  /\ child.pc = "consent"
  /\ Goto(IF child.op = "provision" THEN "begin" ELSE "trust")
  /\ UNCHANGED <<shared, own, switch, task, window, faults>>

\* The prompt is declined, or the process cannot be launched.
Decline ==
  /\ child.pc = "consent"
  /\ Answer("declined")
  /\ UNCHANGED <<shared, own, switch, task, faults>>

StepFails ==
  /\ child.pc \in DOMAIN FailsWith
  /\ Fault
  /\ Refuse(FailsWith[child.pc])
  /\ UNCHANGED <<shared, own, switch, task, window>>

\* The result file is the child's last act.
Report ==
  /\ child.pc = "report"
  /\ Answer(child.step)
  /\ UNCHANGED <<shared, own, switch, task, faults>>

ChildStep ==
  \/ Begin \/ CreateRoot \/ CreateRuns \/ EnsureRuns \/ GrantRoot \/ GrantRuns
  \/ Stage \/ PromoteConfig \/ PromoteHistory \/ SeedSecret \/ Verify \/ Commit
  \/ Register \/ RegisterFails \/ Rollback \/ RollbackFails
  \/ TrustFolder \/ DeleteTask \/ ConfirmGone \/ PruneRoot \/ PruneRuns
  \/ StepFails \/ Report

\* The wait is bounded: the child is terminated wherever it stands, and a child
\* that ends without a readable result leaves the same answer.
TimeOut ==
  /\ window.pc = "asked"
  /\ child.pc \notin {"idle", "consent"}
  /\ Fault
  /\ Answer("unconfirmed")
  /\ UNCHANGED <<shared, own, switch, task>>

-----------------------------------------------------------------------------
(* The window *)

Idle == window.pc = "idle" /\ window.pin # "refused"

\* Schedule with a service account: the gate refuses to change a recorded
\* account without a removal first.
AskProvision(account) ==
  /\ Idle
  /\ window.cfg.record \in {None, account}
  /\ Launch("provision", account)
  /\ UNCHANGED <<shared, own, switch, task, faults>>

\* The ordinary registration, as the administrator.
RegisterAsAdmin ==
  /\ Idle
  /\ window.cfg.record \in {None, Admin}
  /\ task' = Admin
  /\ LET cfg == [window.cfg EXCEPT !.record = Admin]
     IN  SaveOrRaise(cfg) /\ window' = [window EXCEPT !.cfg = cfg, !.outcome = "none"]
  /\ UNCHANGED <<switch, child>>

\* Remove: a managed account of a shared computer loses its access as well.
AskRemove ==
  /\ Idle
  /\ \/ /\ window.cfg.record \in Managed /\ window.pin = "machine"
        /\ Launch("remove", window.cfg.record)
     \/ /\ window.cfg.record \notin Managed \/ window.pin = "own"
        /\ window' = [window EXCEPT !.pc = "fallback", !.op = "remove",
                                    !.who = window.cfg.record, !.outcome = "none"]
        /\ UNCHANGED child
  /\ UNCHANGED <<shared, own, switch, task, faults>>

\* A confirmed removal clears the record.
Removed(outcome) ==
  LET cfg == [window.cfg EXCEPT !.record = None]
  IN  /\ SaveOrRaise(cfg)
      /\ window' = [window EXCEPT !.pc = "idle", !.cfg = cfg, !.outcome = outcome]

Kept == window' = [window EXCEPT !.pc = "idle", !.outcome = "kept"]

\* Success is never taken from the child alone: the window reads the task back.
ConfirmRemoval ==
  /\ window.pc = "confirm"
  /\ \/ /\ task = None
        /\ Removed(IF window.outcome = "ok" THEN "revoked" ELSE "removed")
     \/ task # None /\ Kept /\ UNCHANGED <<shared, own, faults>>
     \/ Fault /\ Kept /\ UNCHANGED <<shared, own>>
  /\ UNCHANGED <<switch, task, child>>

\* The ordinary delete; one that fails may nevertheless have deleted.
OrdinaryDelete ==
  /\ window.pc = "fallback"
  /\ \/ task' = None /\ Removed("removed")
     \/ task' \in {task, None} /\ Fault /\ Kept /\ UNCHANGED <<shared, own>>
  /\ UNCHANGED <<switch, child>>

\* complete_handover, on every outcome: the window's own read of the switch is
\* the gate.  Off or unreadable goes straight to the record.
Repin ==
  /\ window.pc = "repin"
  /\ \/ ~switch /\ window' = [window EXCEPT !.pc = "persist"] /\ UNCHANGED faults
     \/ switch /\ Fault /\ window' = [window EXCEPT !.pc = "persist"]
     \/ /\ switch
        /\ window' = [window EXCEPT !.pin = PinNow,
                                    !.pc = IF PinNow = "machine" THEN "aside" ELSE "idle"]
        /\ UNCHANGED faults
  /\ UNCHANGED <<shared, own, switch, task, child>>

\* The old profile's files are renamed and MOVED.txt fences it; each may fail.
SetAside ==
  /\ window.pc = "aside"
  /\ \/ /\ own' = [config |-> None, history |-> FALSE, moved |-> TRUE]
        /\ UNCHANGED faults
     \/ /\ Fault
        /\ own' \in {[config |-> c, history |-> h, moved |-> m] :
                       c \in {None, own.config}, h \in {FALSE, own.history},
                       m \in {TRUE, own.moved}}
  /\ window' = [window EXCEPT !.pc = "persist"]
  /\ UNCHANGED <<shared, switch, task, child>>

\* The record is written for a provisioned computer only; then the screens are
\* rebuilt from the file, unless the save raised.
Persist ==
  LET cfg == [window.cfg EXCEPT !.record = window.who]
  IN  /\ window.pc = "persist"
      /\ \/ /\ window.outcome = "ok"
            /\ SaveOrRaise(cfg)
            /\ window' = [window EXCEPT !.pc = "idle", !.cfg = cfg]
         \/ /\ window.outcome # "ok"
            /\ window' = [window EXCEPT !.pc = "idle", !.cfg = IF window.pin = "machine"
                                                   THEN Loaded(shared.config) ELSE @]
            /\ UNCHANGED <<shared, own, faults>>
      /\ UNCHANGED <<switch, task, child>>

\* The administrator saves a setting, also while the prompt is up.
EditSettings ==
  /\ window.pc \in {"idle", "asked"}
  /\ window.cfg.edits < MaxEdits
  /\ LET cfg == [window.cfg EXCEPT !.edits = @ + 1]
     IN  Save(cfg) /\ window' = [window EXCEPT !.cfg = cfg]
  /\ UNCHANGED <<switch, task, child, faults>>

\* The window is closed, or crashes, and is opened again; a child that runs goes on.
Restart ==
  /\ window' = [pc |-> "idle", op |-> "none", who |-> None, pin |-> PinNow,
                cfg |-> Loaded(FileOf(PinNow)), outcome |-> "none"]
  /\ UNCHANGED <<shared, own, switch, task, child, faults>>

\* A process pinned to the own profile records its first run there.
OwnRun ==
  /\ ~own.moved /\ ~own.history
  /\ own' = [own EXCEPT !.history = TRUE]
  /\ UNCHANGED <<shared, switch, task, child, window, faults>>

-----------------------------------------------------------------------------
(* A computer nobody has provisioned: no folder, or one that is not ours; a  *)
(* nightly as recorded, as the administrator or a password account.          *)
Init ==
  /\ shared \in {NoFolder, [NoFolder EXCEPT !.root = "foreign"]}
  /\ task \in {None, Admin} \cup (Accounts \ Managed)
  /\ own \in [config : {[edits |-> 0, record |-> task]}, history : BOOLEAN, moved : {FALSE}]
  /\ switch = FALSE
  /\ child = NoChild
  /\ window = [pc |-> "idle", op |-> "none", who |-> None, pin |-> "own",
               cfg |-> own.config, outcome |-> "none"]
  /\ faults = MaxFaults

Next ==
  \/ ChildStep \/ Consent \/ Decline \/ TimeOut
  \/ \E account \in Accounts : AskProvision(account)
  \/ RegisterAsAdmin \/ AskRemove \/ ConfirmRemoval \/ OrdinaryDelete
  \/ Repin \/ SetAside \/ Persist \/ EditSettings \/ Restart \/ OwnRun

Spec == Init /\ [][Next]_vars

\* An elevated process that was started runs to its end by itself.
FairSpec == Spec /\ WF_vars(ChildStep)

-----------------------------------------------------------------------------
(* Properties *)

\* Whatever was killed, refused, rolled back or retried before: a computer whose
\* switch is on has a trusted shared folder with its runs folder, the settings
\* and the delivery password (apply_provision: commit last, roll back only what
\* this attempt created).
SwitchMeansProfile ==
  switch => /\ shared.root = "trusted" /\ shared.runs
            /\ shared.config # None /\ shared.secret

\* The window reports the access as revoked only when the task is gone and the
\* account appears on neither folder (request_removal_with_revoke).
RevokedMeansRevoked ==
  window.pc = "idle" /\ window.outcome = "revoked" =>
    task = None /\ window.who \notin shared.rootAces \cup shared.runsAces

\* Once the computer is shared, no later attempt puts older settings over the
\* live ones, not even when the old file could not be set aside
\* (migrate_profile: an artefact already there is left alone).
LiveSettingsNeverRegress ==
  [][switch => shared'.config # None /\ shared'.config.edits >= shared.config.edits]_vars

\* No kill, failed step or failed rollback wedges the computer: once nothing
\* fails any more, a consented attempt turns the switch on (_resume_or_refuse).
\* A folder of somebody else is refused for good, and a run store that appears
\* during the very attempt is refused by the verification.
RetryRecovers ==
  (child.pc = "begin" /\ faults = 0 /\ own.history /\ shared.root # "foreign") ~> switch

=============================================================================
