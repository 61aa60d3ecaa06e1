-------------------------------- MODULE Setup --------------------------------
(***************************************************************************)
(* The screen that sets DistrictSync up and later holds its settings       *)
(* (ui_flet/screens/setup.py), with the nightly task it registers.  Every  *)
(* mount of the screen reads the settings into an instance of its own and  *)
(* writes that whole instance back; a registration runs on a thread for as *)
(* long as Windows asks for permission, and its answer is applied to the   *)
(* mount that asked, whatever has been saved, or left, since.              *)
(***************************************************************************)
EXTENDS SetupFlow, Scheduler

CONSTANTS
    Districts,   \* the mappings of this computer
    Tested,      \* those whose test conversion has passed as they now read
    Folders,     \* pairs of folders
    Times,       \* what the time of the nightly can read
    Accounts,    \* and the account it is to run as
    Typed,       \* what the schedule card can hold: a set of records
    Starts,      \* the settings found at the start: a set of documents
    MaxRaces,    \* bound on the kinds of race in one behaviour
    MaxJobs,     \* bound on the registrations and removals asked for
    WizardActs,  \* bounds on those together with the mounts of the screen,
    SettingsActs \* until setup is complete and from then on

Kinds == {"token", "password", "managed"}

Args == [district : Districts \cup {"none"}, folders : Folders \cup {"none"},
         delivery : BOOLEAN, time : Times \cup {"none"}]

\* The settings document. What a record with readable arguments says was
\* written in one go with the time they carry (_persist_registered_record).
Documents ==
    {d \in [district : Districts \cup {"none"}, folders : Folders \cup {"none"},
            delivery : BOOLEAN, time : Times \cup {"none"}, registered : BOOLEAN, args : Args,
            unattended : BOOLEAN, account : Accounts, kind : Kinds, wake : BOOLEAN,
            completed : BOOLEAN] :
        d.registered /\ d.args # NoArgs =>
            d.args.time = d.time /\ d.unattended = Unattended(d.kind)}

ASSUME OwnAssumption == Own \in Accounts
ASSUME TypedAssumption ==
    /\ Typed # {}
    /\ Typed \subseteq [account : Accounts, kind : Kinds, time : Times \cup {"none"},
                       wake : BOOLEAN]
ASSUME StartsAssumption == Starts # {} /\ Starts \subseteq Documents

VARIABLES
    doc,         \* the settings document on disk
    task,        \* the task as Windows has it
    mounts,      \* the mounts of the screen, oldest first
    live,        \* the mount on show, 0 when another screen is
    jobs,        \* the registrations and removals, in the order asked for
    told,        \* the last word the person had on the task and the settings
    races        \* the steps taken out of the usual order: see the properties

vars == <<doc, task, mounts, live, jobs, told, races>>

NoTask == [there |-> FALSE, args |-> NoArgs, account |-> Own, kind |-> "token", wake |-> FALSE]

NoDialog == [kind |-> "none", typed |-> CHOOSE t \in Typed : TRUE, asked |-> "none"]

\* What a mount holds besides its instance of the settings: the wizard's own
\* answers (ws), and the flag of the schedule card (_flight). A card built
\* again has a flag of its own, so cards are numbered, by the jobs before them.
Mount(cfg, delivery) ==
    [cfg |-> cfg, wizard |-> ~cfg.completed, step |-> "district", district |-> cfg.district,
     folders |-> cfg.folders, skipped |-> FALSE, status |-> "none", windowValid |-> TRUE,
     busy |-> FALSE, delivery |-> delivery, card |-> 1, flight |-> FALSE, dialog |-> NoDialog]

\* FlowInputs of a mount's wizard.
Inputs(m) ==
    [mode |-> "standard", folders |-> m.folders # "none", district |-> m.district # "none",
     draft |-> FALSE, tested |-> FALSE, activated |-> FALSE, status |-> m.status,
     skipped |-> m.skipped, delivery |-> m.delivery, windowValid |-> m.windowValid, busy |-> m.busy]

Complete(cfg) == cfg.district # "none" /\ cfg.folders # "none"

MayAct == Len(mounts) + Len(jobs) < IF doc.completed THEN SettingsActs ELSE WizardActs
Race(kinds) == /\ races' = races \cup kinds
               /\ Cardinality(races') <= MaxRaces
Without(kinds) == races \cap kinds = {}
MayAsk == MayAct /\ Len(jobs) < MaxJobs

\* Settings that a task does not have at the start were said not to be in it
\* by an earlier window.
Init ==
    /\ doc \in Starts
    /\ task = IF doc.registered
                THEN [there |-> TRUE, args |-> doc.args, account |-> doc.account,
                      kind |-> doc.kind, wake |-> doc.wake]
                ELSE NoTask
    /\ mounts = <<>>
    /\ live = 0
    /\ jobs = <<>>
    /\ told = IF doc.args \in {NoArgs, TaskArgs(doc, doc.time)} THEN "nothing" ELSE "left_out"
    /\ races = {}

-----------------------------------------------------------------------------
(* The window.                                                             *)

\* build_setup: the wizard until setup is complete, and then Settings. The
\* wizard opens at its first open step; a lone district is picked already.
Open ==
    /\ live = 0
    /\ MayAct
    /\ LET fresh == Mount(doc, IF doc.delivery THEN "stored" ELSE "none")
           seeded == [fresh EXCEPT !.step = ResumeStep(Inputs(fresh)),
                        !.district = IF @ = "none" THEN AutoSelectedDistrict(Districts) ELSE @]
       IN  mounts' = Append(mounts, seeded)
    /\ live' = Len(mounts) + 1
    /\ UNCHANGED <<doc, task, jobs, told, races>>

Awaited(i, js) == \E j \in DOMAIN js : js[j].mount = i /\ js[j].phase # "answered"
InFlight(i) == Awaited(i, jobs)

\* A mount that nobody sees and no answer will reach is as good as none.
Remembered(ms, on, js) ==
    [i \in DOMAIN ms |-> IF i = on \/ Awaited(i, js) THEN ms[i]
                         ELSE Mount(CHOOSE start \in Starts : TRUE, "none")]

\* Another screen: nothing stops a registration that is under way.
Leave ==
    /\ live # 0
    /\ mounts[live].dialog.kind = "none"
    /\ live' = 0
    /\ mounts' = Remembered(mounts, 0, jobs)
    /\ Race(IF InFlight(live) THEN {"left"} ELSE {})
    /\ UNCHANGED <<doc, task, jobs, told>>

\* screens/mapping.py: Apply writes the district into settings read afresh,
\* and says so when a task goes on converting the one before.
MappingApply(district) ==
    /\ live = 0
    /\ district \in Tested
    /\ district # doc.district
    /\ doc.completed
    /\ doc' = [doc EXCEPT !.district = district]
    /\ told' = IF task.there THEN "left_out" ELSE told
    /\ UNCHANGED <<task, mounts, live, jobs, races>>

-----------------------------------------------------------------------------
(* One mount.  A save writes its whole instance.                           *)

Here == live # 0 /\ mounts[live].dialog.kind = "none"
InWizard(step) == Here /\ mounts[live].wizard /\ mounts[live].step = step
InSettings == Here /\ ~mounts[live].wizard
ScheduleCard == Here /\ (mounts[live].wizard => mounts[live].step = "schedule")
DeliveryCard == Here /\ (mounts[live].wizard => mounts[live].step = "delivery")

Saved(m) == doc' = m.cfg /\ mounts' = [mounts EXCEPT ![live] = m]

\* A save changes what is in the instance between a click and its thread.
Undercuts(cfg) ==
    IF \E j \in DOMAIN jobs : jobs[j].mount = live /\ jobs[j].phase = "queued"
         /\ TaskArgs(cfg, jobs[j].typed.time) # jobs[j].args
      THEN {"undercut"} ELSE {}

\* A save of the wizard changes what a task carries, and asks nothing of it.
Backtracks(cfg) ==
    IF Undercuts(cfg) # {} THEN Undercuts(cfg)
    ELSE IF cfg # mounts[live].cfg /\ (task.there \/ InFlight(live)) THEN {"backtracked"} ELSE {}

\* A schedule card that is shown again is a new card, with its own flag, and
\* asks Windows about the task.
NewCard == Len(jobs) + 1

Shown(m, step) ==
    IF step = "schedule" THEN [m EXCEPT !.step = step, !.card = NewCard, !.flight = FALSE,
                                        !.windowValid = TRUE]
                         ELSE [m EXCEPT !.step = step]

Forward(m) == Shown(m, NextStep(m.step, "standard"))

\* _forward, at the steps that save. An untested mapping is not activated.
ForwardDistrict(district) ==
    /\ InWizard("district")
    /\ LET picked == [mounts[live] EXCEPT !.district = district]
           kept == [picked EXCEPT !.cfg.district = district]
       IN  /\ CanAdvance("district", Inputs(picked))
           /\ IF district \in Tested
                THEN Saved(Forward(kept)) /\ Race(Backtracks(kept.cfg))
                ELSE /\ mounts' = [mounts EXCEPT ![live] = picked]
                     /\ UNCHANGED <<doc, races>>
    /\ UNCHANGED <<task, live, jobs, told>>

ForwardFolders(folders) ==
    /\ InWizard("folders")
    /\ LET picked == [mounts[live] EXCEPT !.folders = folders]
           kept == [picked EXCEPT !.cfg.folders = folders]
       IN  /\ CanAdvance("folders", Inputs(picked))
           /\ Saved(Forward(kept))
           /\ Race(Backtracks(kept.cfg))
    /\ UNCHANGED <<task, live, jobs, told>>

StepAddressed(m) ==
    IF m.step = "schedule" THEN ScheduleSatisfied(Inputs(m)) ELSE m.delivery \in DeliverySatisfied

\* "Set up later" is remembered, "Continue" is not.
ForwardSkippable ==
    /\ \E step \in Skippable : InWizard(step)
    /\ LET m == mounts[live] IN
       /\ CanAdvance(m.step, Inputs(m))
       /\ mounts' = [mounts EXCEPT ![live] = Forward(
                        IF StepAddressed(m) THEN m
                        ELSE IF m.step = "schedule" THEN [m EXCEPT !.skipped = TRUE]
                        ELSE [m EXCEPT !.delivery = "skipped"])]
    /\ UNCHANGED <<doc, task, live, jobs, told, races>>

\* Back is never gated.
Back ==
    /\ Here
    /\ mounts[live].wizard
    /\ PrevStep(mounts[live].step, "standard") # "none"
    /\ mounts' = [mounts EXCEPT ![live] = Shown(@, PrevStep(@.step, "standard"))]
    /\ UNCHANGED <<doc, task, live, jobs, told, races>>

\* _finish: completion is saved before the window moves on to Home; a save
\* that fails takes it back and leaves the page where it is.
Finish(saves) ==
    /\ InWizard("finish")
    /\ CanAdvance("finish", Inputs(mounts[live]))
    /\ IF saves
         THEN LET m == [mounts[live] EXCEPT !.cfg.completed = TRUE] IN
              /\ doc' = m.cfg
              /\ mounts' = Remembered([mounts EXCEPT ![live] = m], 0, jobs)
              /\ live' = 0
         ELSE UNCHANGED <<doc, mounts, live>>
    /\ UNCHANGED <<task, jobs, told, races>>

\* A window that does not parse is not saved, and holds the wizard's step.
EditWindow(valid) ==
    /\ ScheduleCard
    /\ IF valid THEN Saved([mounts[live] EXCEPT !.windowValid = TRUE])
                ELSE /\ mounts' = [mounts EXCEPT ![live].windowValid = FALSE]
                     /\ UNCHANGED doc
    /\ UNCHANGED <<task, live, jobs, told, races>>

-----------------------------------------------------------------------------
(* Registering.                                                            *)

\* A foreign account is provisioned, and its right to read shown first.
WillProvision(typed) == PrincipalKey(typed.account) # Own

Job(op, m, typed, asked) ==
    [mount |-> live, card |-> m.card, op |-> op, typed |-> typed, asked |-> asked,
     args |-> TaskArgs(m.cfg, typed.time), sent |-> NoArgs, phase |-> "queued",
     late |-> FALSE, ok |-> FALSE]

Answered ==
    [mount |-> 0, card |-> 0, op |-> "register", typed |-> CHOOSE t \in Typed : TRUE,
     asked |-> "button", args |-> NoArgs, sent |-> NoArgs, phase |-> "answered",
     late |-> FALSE, ok |-> FALSE]

\* _set_busy tells the card's own flag and the wizard's footer.
Busy(m, on) == [m EXCEPT !.flight = on, !.busy = on]

\* _register with the button: what it refuses it says on the card. A blank
\* password was chosen, or was asked about in a dialog. m is the mount as the
\* caller leaves it, and the job's arguments are those of the click.
Register(m, typed, asked, unreadable, confirmed) ==
    LET refused == ~CanRegisterSchedule(m.cfg, typed, Complete(m.cfg), unreadable)
                   \/ typed.time = "bad"
    IN  IF refused THEN [m |-> m, outcome |-> "blocked", jobs |-> jobs]
        ELSE IF WillProvision(typed) /\ ~confirmed
          THEN [m |-> [m EXCEPT !.dialog = [kind |-> "scope", typed |-> typed, asked |-> asked]],
                outcome |-> "blocked", jobs |-> jobs]
        ELSE [m |-> Busy(m, TRUE), outcome |-> "dispatched",
              jobs |-> Append(jobs, Job("register", m, typed, asked))]

\* Neither the button's handler nor Enter in a field looks at the flag: a key
\* pressed in a field opens the button again while a registration runs.
RegisterPressed(typed, unreadable) ==
    /\ ScheduleCard
    /\ MayAsk
    /\ LET r == Register(mounts[live], typed, "button", unreadable, FALSE) IN
       /\ mounts' = [mounts EXCEPT ![live] = r.m]
       /\ jobs' = r.jobs
       /\ Race(IF jobs' # jobs /\ InFlight(live) THEN {"resubmitted"} ELSE {})
    /\ UNCHANGED <<doc, task, live, told>>

\* _trigger_register_reconciled: what a save may do to the task by itself.
Trigger(m, typed, unreadable) ==
    LET record == RegisteredSchedule(m.cfg)
        block == RegisterBlock(m.cfg, typed, Complete(m.cfg), unreadable)
        dialog == DowngradeInterrupt(record, typed.kind = "password")
        says(outcome) == [m |-> m, outcome |-> outcome, jobs |-> jobs]
    IN  IF block = "account_switch_needs_remove" THEN says("blocked_account_switch")
        ELSE IF block = "account_shape" THEN says("blocked_account")
        ELSE IF dialog # "none"
          THEN [m |-> [m EXCEPT !.dialog = [kind |-> dialog, typed |-> typed, asked |-> "choice"]],
                outcome |-> "interrupted", jobs |-> jobs]
        ELSE IF block = "delivery_secret_unreadable" THEN says("blocked_delivery_secret")
        ELSE IF block = "account_needs_password" THEN says("blocked_account")
        ELSE Register(m, typed, "save", unreadable, FALSE)

\* While a job of this card is under way the record is of the world before it.
MayDecide(m) == ~m.flight

\* _reconcile, after a save has changed the mount's instance.
Reconcile(m, typed, unreadable) ==
    LET pending == TaskArgs(m.cfg, typed.time)
        action == ScheduleReconcile(m.cfg, pending, typed.account, typed.wake)
        time == RunTimeSaveDecision(m.cfg.time, typed.time)
    IN  IF ~MayDecide(m) THEN [m |-> m, outcome |-> "in_flight", jobs |-> jobs]
        ELSE IF action = "reregister" THEN Trigger(m, typed, unreadable)
        ELSE [m |-> IF action = "no_task" /\ time.persist
                      THEN [m EXCEPT !.cfg.time = typed.time] ELSE m,
              outcome |-> "none", jobs |-> jobs]

SaveAndReconcile(m, typed, unreadable) ==
    LET r == Reconcile(m, typed, unreadable) IN
    /\ MayAsk \/ r.jobs = jobs
    /\ Saved(r.m)
    /\ jobs' = r.jobs
    /\ told' = SaveNote(r.outcome)
    /\ Race(Undercuts(r.m.cfg))
    /\ UNCHANGED <<task, live>>

\* Settings, folders and district: the activation of a district is checked
\* against the settings as they are on disk.
SaveFolders(district, folders, typed, unreadable) ==
    /\ InSettings
    /\ district # doc.district => district \in Tested
    /\ SaveAndReconcile([mounts[live] EXCEPT !.cfg.district = district, !.cfg.folders = folders],
                        typed, unreadable)

\* The delivery card, in Settings and in the wizard: the password is stored
\* and read back before the settings say that delivery is on.
SaveDelivery(typed, unreadable) ==
    /\ DeliveryCard
    /\ LET m == [mounts[live] EXCEPT !.cfg.delivery = TRUE, !.delivery = "stored"] IN
       IF m.wizard
         THEN /\ Saved(m)
              /\ Race(Backtracks(m.cfg))
              /\ UNCHANGED <<task, live, jobs, told>>
         ELSE SaveAndReconcile(m, typed, unreadable)

\* A test of the connection says what came of it, and saves nothing. To the
\* wizard a delivery whose test failed is one that was never set up.
TestDelivery(ok) ==
    /\ DeliveryCard
    /\ mounts[live].wizard
    /\ mounts' = [mounts EXCEPT ![live].delivery = IF ok THEN "tested_ok" ELSE "none"]
    /\ UNCHANGED <<doc, task, live, jobs, told, races>>

-----------------------------------------------------------------------------
(* The dialogs are modal: only answers come in behind them.                *)

InDialog(kinds) == live # 0 /\ mounts[live].dialog.kind \in kinds
DowngradeDialogs == {"managed", "service_account", "cannot_tell", "signed_out"}

\* Cancel, or go and type the password: nothing is registered.
Decline ==
    /\ InDialog(DowngradeDialogs \cup {"scope"})
    /\ mounts' = [mounts EXCEPT ![live].dialog = NoDialog]
    /\ told' = IF InDialog(DowngradeDialogs) THEN "left_out" ELSE told
    /\ UNCHANGED <<doc, task, live, jobs, races>>

\* "It will only run while signed in", or a move to shared settings agreed to.
Agree(unreadable) ==
    /\ \/ InDialog({"scope"})
       \/ InDialog(DowngradeDialogs) /\ OffersSignedInOnly(mounts[live].dialog.kind)
    /\ MayAsk
    /\ LET d == mounts[live].dialog
           typed == IF d.kind = "scope" THEN d.typed ELSE [d.typed EXCEPT !.kind = "token"]
           r == Register([mounts[live] EXCEPT !.dialog = NoDialog], typed, d.asked,
                         unreadable, d.kind = "scope")
       IN  /\ mounts' = [mounts EXCEPT ![live] = r.m]
           /\ jobs' = r.jobs
           /\ Race(IF jobs' # jobs /\ InFlight(live) THEN {"resubmitted"} ELSE {})
    /\ UNCHANGED <<doc, task, live, told>>

\* "Remove nightly sync"; its button is shut while a job of this card runs.
UnregisterPressed ==
    /\ ScheduleCard
    /\ MayAsk
    /\ ~mounts[live].flight
    /\ LET m == mounts[live]
           typed == CHOOSE t \in Typed : TRUE
       IN  /\ jobs' = Append(jobs, Job("unregister", m, typed, "button"))
           /\ mounts' = [mounts EXCEPT ![live] = Busy(m, TRUE)]
           /\ Race(IF InFlight(live) THEN {"resubmitted"} ELSE {})
    /\ UNCHANGED <<doc, task, live, told>>

-----------------------------------------------------------------------------
(* The worker threads and Windows.                                         *)

\* The thread builds the task from the instance as it finds it.
WorkerReads(j) ==
    /\ jobs[j].phase = "queued"
    /\ jobs' = [jobs EXCEPT ![j].phase = "working",
                    ![j].sent = TaskArgs(mounts[jobs[j].mount].cfg, jobs[j].typed.time)]
    /\ UNCHANGED <<doc, task, mounts, live, told, races>>

Replaced(j) ==
    [there |-> TRUE, args |-> jobs[j].sent, account |-> jobs[j].typed.account,
     kind |-> jobs[j].typed.kind, wake |-> jobs[j].typed.wake]

\* The call to Windows ends for the thread, one of the ways it can, and the
\* task may be read back. What was given up as hung may still be done, later.
\* A provisioning always asks for permission, or is refused before it does.
WorkerEnds(j, way, effect, readable) ==
    /\ jobs[j].phase = "working"
    /\ LET job == jobs[j]
           registers == job.op = "register"
           provisions == registers /\ WillProvision(job.typed)
           new == IF registers THEN Replaced(j) ELSE NoTask
           readback == Readback(task'.there, readable)
           ok == IF provisions THEN ProvisionSucceeded(way)
                 ELSE IF registers THEN RegistrationSucceeded(way, readback)
                                   ELSE RemovalSucceeded(way, readback)
       IN  /\ way \in IF provisions THEN ElevatedWays \cup {"failed"}
                      ELSE IF registers THEN Ways(RegistersElevated(job.typed.kind, FALSE))
                      ELSE {w \in DirectWays : ~RemovesElevated(w, FALSE)} \cup ElevatedWays
           /\ (registers /\ PrincipalRefusal(job.typed.kind, ~provisions, TRUE) # "none")
                 => way = "failed"
           /\ effect \in Effects(way)
           /\ way = "not_found" => ~task.there
           /\ task' = IF effect = "now" THEN new ELSE task
           /\ jobs' = [jobs EXCEPT ![j].phase = "done", ![j].ok = ok, ![j].late = effect = "late"]
           /\ Race(IF effect = "late" THEN {"late"}
                   ELSE IF ok /\ task' # new THEN {"misread"}
                   ELSE IF ~ok /\ task' # task THEN {"unconfirmed"} ELSE {})
    /\ UNCHANGED <<doc, mounts, live, told>>

\* What was given up happens after all.
LateEffect(j) ==
    /\ jobs[j].late
    /\ task' = IF jobs[j].op = "register" THEN Replaced(j) ELSE NoTask
    /\ jobs' = [jobs EXCEPT ![j].late = FALSE]
    /\ UNCHANGED <<doc, mounts, live, told, races>>

\* Mutant: the record says what the settings are when the answer comes.
RecordedFromNow(cfg, job) ==
    IF job.op = "register"
      THEN [cfg EXCEPT !.time = job.typed.time, !.registered = TRUE,
              !.args = TaskArgs(cfg, job.typed.time), !.unattended = Unattended(job.typed.kind),
              !.account = job.typed.account, !.kind = job.typed.kind, !.wake = job.typed.wake]
      ELSE [cfg EXCEPT !.registered = FALSE, !.args = NoArgs, !.unattended = FALSE,
              !.account = Own, !.kind = "token", !.wake = FALSE]

\* _persist_registered_record, and the record cleared by a removal.
Recorded(cfg, job) ==
    IF job.op = "register"
      THEN [cfg EXCEPT !.time = job.typed.time, !.registered = TRUE, !.args = job.args,
              !.unattended = Unattended(job.typed.kind), !.account = job.typed.account,
              !.kind = job.typed.kind, !.wake = job.typed.wake]
      ELSE [cfg EXCEPT !.registered = FALSE, !.args = NoArgs, !.unattended = FALSE,
              !.account = Own, !.kind = "token", !.wake = FALSE]

\* complete_handover, on whatever outcome of a provisioning: the switch reads
\* off, or cannot be read, and this session stays where it is ("off"); the
\* shared folder is taken over ("done"); or it is not one that can be used, and
\* there is nowhere to save to ("refused"). Which profile is meant, and what
\* becomes of the other one, is Provisioning's; here one document follows it.
Handovers(job) ==
    IF job.op = "register" /\ WillProvision(job.typed) THEN {"off", "done", "refused"} ELSE {"none"}

\* The answer reaches the mount that asked, on show or not. A success is
\* saved, and says whether the settings have moved on since the click, unless
\* it is a provisioning's, which never says so. Once the shared folder is taken
\* over the window is built again, at Home, which has the last word. A window
\* whose folder was refused is of no more use.
Answer(j, handover) ==
    /\ jobs[j].phase = "done"
    /\ handover \in Handovers(jobs[j])
    /\ LET job == jobs[j]
           i == job.mount
           asking == mounts[i].card = job.card
           m == [mounts[i] EXCEPT !.busy = FALSE, !.flight = @ /\ ~asking]
           kept == job.ok /\ handover # "refused"
           cfg == Recorded(m.cfg, job)
           moved == job.op = "register" /\ TaskArgsChanged(job.args, TaskArgs(cfg, job.typed.time))
           unsaid == kept /\ moved /\ handover # "none"
       IN  /\ jobs' = [jobs EXCEPT ![j] = IF @.late THEN [@ EXCEPT !.phase = "answered"] ELSE Answered]
           /\ live' = IF handover \in {"done", "refused"} THEN 0 ELSE live
           /\ mounts' = Remembered([mounts EXCEPT ![i] = IF kept THEN [m EXCEPT !.cfg = cfg] ELSE m],
                                   live', jobs')
           /\ doc' = IF kept THEN cfg ELSE doc
           /\ told' = IF ~(handover = "done" \/ (live = i /\ asking)) THEN told
                      ELSE IF kept /\ (moved => unsaid) THEN "nothing" ELSE "left_out"
           /\ Race(IF job.ok /\ ~kept THEN {"unconfirmed"}
                   ELSE IF unsaid /\ Without({"undercut", "backtracked"}) THEN {"unsaid"} ELSE {})
    /\ UNCHANGED task

\* The card asks about the task when it is shown and after every answer. A
\* task that is missing and one that cannot be told are the same to a wizard.
ProbeAnswers(readable) ==
    /\ ScheduleCard
    /\ mounts[live].wizard
    /\ LET status == IF readable /\ task.there THEN "live" ELSE "none" IN
       mounts' = [mounts EXCEPT ![live].status = status,
                    ![live].skipped = IF status = "live" THEN FALSE ELSE @]
    /\ UNCHANGED <<doc, task, live, jobs, told, races>>

Next ==
    \/ Open
    \/ Leave
    \/ Back
    \/ Decline
    \/ UnregisterPressed
    \/ ForwardSkippable
    \/ \E district \in Districts : MappingApply(district) \/ ForwardDistrict(district)
    \/ \E folders \in Folders : ForwardFolders(folders)
    \/ \E yes \in BOOLEAN : Finish(yes) \/ EditWindow(yes) \/ TestDelivery(yes) \/ ProbeAnswers(yes)
    \/ \E unreadable \in BOOLEAN :
          \/ Agree(unreadable)
          \/ \E typed \in Typed :
                \/ RegisterPressed(typed, unreadable)
                \/ SaveDelivery(typed, unreadable)
                \/ \E district \in Districts, folders \in Folders :
                      SaveFolders(district, folders, typed, unreadable)
    \/ \E j \in DOMAIN jobs :
          \/ WorkerReads(j)
          \/ LateEffect(j)
          \/ \E way \in DirectWays \cup ElevatedWays, effect \in {"now", "late", "never"},
                readable \in BOOLEAN : WorkerEnds(j, way, effect, readable)
          \/ \E handover \in {"none", "off", "done", "refused"} : Answer(j, handover)

Spec == Init /\ [][Next]_vars

-----------------------------------------------------------------------------
(* Properties.  Each names the races that break it: steps the screen lets   *)
(* a person, or Windows, take, after which what it says is not so.          *)

Quiet == \A j \in DOMAIN jobs : jobs[j].phase = "answered"

\* What the settings record of the task is the task that Windows has, when
\* nothing is under way: both where there is one and what it carries. A save
\* made while a registration runs does not get into the record of it. It is
\* not so after the screen was left while one ran ("left"), a second one was
\* asked for by Enter, a save came between the click and its thread, a read-back
\* found an older task or none ("misread", "unconfirmed"), what was given up
\* came late, or a provisioning made its task and could not say so, or had no
\* folder to record it in ("unconfirmed").
RecordIsTheTask ==
    (Quiet /\ Without({"left", "resubmitted", "undercut", "misread", "unconfirmed",
              "late"}))
        => /\ doc.registered = task.there
           /\ (doc.registered /\ doc.args # NoArgs)
                 => task = [there |-> TRUE, args |-> doc.args, account |-> doc.account,
                            kind |-> doc.kind, wake |-> doc.wake]

\* Settings that the task does not have yet were said not to be in it, by the
\* last word the person read: whatever a save found out, asked, had declined,
\* or came too late for. A wizard that goes back and saves says nothing, and
\* neither does a provisioning of what was saved while it ran ("unsaid").
DriftIsTold ==
    (Quiet /\ task.there /\ Without({"left", "resubmitted", "undercut", "misread", "unconfirmed",
              "late", "backtracked", "unsaid"}))
        => \/ told = "left_out"
           \/ task.args \in {TaskArgs(doc, doc.time), NoArgs}

\* A task that runs while nobody is signed in becomes one that does not only
\* when somebody asked for just that, by the button or in the dialog; a save
\* of other settings never does it by itself, also where what the task can do
\* was never recorded.
NoSilentDowngrade ==
    [][(task.there /\ task'.there /\ Unattended(task.kind) /\ ~Unattended(task'.kind))
          => \/ \E j \in DOMAIN jobs : /\ jobs'[j].phase # jobs[j].phase
                                       /\ jobs[j].asked # "save"
             \/ ~Without({"left", "resubmitted", "misread", "unconfirmed", "late"})]_vars

OnFinish == live # 0 /\ mounts[live].wizard /\ mounts[live].step = "finish"

Desync(m) == ScheduleDeliveryDesync(m.status = "live", m.cfg.args, m.cfg.delivery)

FinishPage ==
    LET m == mounts[live] IN FinishCopy(m.status = "live", m.delivery, m.district, Desync(m))

FinishRows ==
    LET m == mounts[live] IN FinishSummaryRows(m.status = "live", m.delivery, Desync(m))

\* The last page of the wizard is reached with no registration under way, and
\* neither its text nor its check list promises a delivery that the task on this
\* computer will not make, also when delivery was set up after the task was. A
\* connection that was tested and never saved is ticked, and is not meant here.
FinishIsTrue ==
    (OnFinish /\ Without({"left", "resubmitted", "undercut", "misread", "unconfirmed",
              "late"}))
        => /\ ~InFlight(live)
           /\ (task.there /\ FinishPage.delivers) => task.args.delivery
           /\ (task.there /\ doc.delivery /\ ~FinishRows.notYet
                /\ {"Delivery", "Schedule"} \subseteq FinishRows.done) => task.args.delivery
           /\ FinishPage.warns => FinishRows.notYet

=============================================================================
