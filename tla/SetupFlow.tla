------------------------------ MODULE SetupFlow ------------------------------
(***************************************************************************)
(* The decisions of the setup wizard and of the Settings screen, without   *)
(* the screen: ui_flet/setup_flow.py and ui_flet/setup_gates.py.  Which    *)
(* step comes next and what opens it, whether a save has to register the   *)
(* nightly task again, whether that would take away its right to run while *)
(* nobody is signed in, and what the last page says of tonight.            *)
(***************************************************************************)
EXTENDS SyncWindow, Sequences, FiniteSets, SequencesExt

CONSTANT Own     \* the signed-in Windows account

Steps == {"district", "folders", "files", "delivery", "schedule", "finish"}

StepOrder(mode) ==
    IF mode = "creator"
      THEN <<"district", "folders", "files", "delivery", "schedule", "finish">>
      ELSE <<"district", "folders", "delivery", "schedule", "finish">>

StepNumber(step, mode) == CHOOSE i \in DOMAIN StepOrder(mode) : StepOrder(mode)[i] = step

PreFinishSteps(mode) == ToSet(StepOrder(mode)) \ {"finish"}

\* The step after and the step before; "none" at the ends.
NextStep(step, mode) ==
    LET i == StepNumber(step, mode) IN
    IF i < Len(StepOrder(mode)) THEN StepOrder(mode)[i + 1] ELSE "none"

PrevStep(step, mode) ==
    LET i == StepNumber(step, mode) IN
    IF i > 1 THEN StepOrder(mode)[i - 1] ELSE "none"

Skippable == {"schedule", "delivery"}

DeliverySatisfied == {"tested_ok", "stored", "skipped"}
DeliveryConfigured == {"tested_ok", "stored"}

-----------------------------------------------------------------------------
(* The wizard's gates.  `in` is a FlowInputs: what the session knows.      *)

ScheduleSatisfied(in) == in.skipped \/ in.status = "live"

DistrictChosen(in) == IF in.mode = "creator" THEN in.draft ELSE in.district

SatisfiedSteps(in) ==
    {s \in Steps :
        CASE s = "folders"  -> in.folders
          [] s = "district" -> DistrictChosen(in)
          [] s = "files"    -> in.mode = "creator" /\ in.tested
          [] s = "schedule" -> ScheduleSatisfied(in)
          [] s = "delivery" -> in.delivery \in DeliverySatisfied
          [] OTHER          -> FALSE}

\* derive_flow: the first step that is not done, else the last one.
ResumeStep(in) ==
    LET open == PreFinishSteps(in.mode) \ SatisfiedSteps(in) IN
    IF open = {} THEN "finish"
    ELSE CHOOSE s \in open : \A t \in open : StepNumber(s, in.mode) <= StepNumber(t, in.mode)

CanFinish(in) ==
    /\ PreFinishSteps(in.mode) \subseteq SatisfiedSteps(in)
    /\ in.mode = "creator" => in.activated

\* The schedule step waits for an apply under way and for a readable window.
CanAdvance(step, in) ==
    CASE step = "folders"  -> in.folders
      [] step = "district" -> DistrictChosen(in)
      [] step = "files"    -> in.tested
      [] step = "schedule" -> in.windowValid /\ ~in.busy
      [] step = "delivery" -> TRUE
      [] OTHER             -> CanFinish(in)

\* A lone district is picked for the person.
AutoSelectedDistrict(available) ==
    IF Cardinality(available) = 1 THEN CHOOSE d \in available : TRUE ELSE "none"

-----------------------------------------------------------------------------
(* The record of the registered task.  What a task carries is a TaskArgs;  *)
(* doc is the settings document.                                           *)

NoArgs == [district |-> "none", folders |-> "none", delivery |-> FALSE, time |-> "none"]

TaskArgs(doc, time) ==
    [district |-> doc.district, folders |-> doc.folders, delivery |-> doc.delivery, time |-> time]

\* Mutant: delivery is not one of the arguments.
TaskArgsMoved(saved, pending) == [saved EXCEPT !.delivery = pending.delivery] # pending

TaskArgsChanged(saved, pending) == saved # pending

\* A record without readable arguments is no record: whether that task runs
\* signed out, and as whom, is unknown.
RegisteredSchedule(doc) ==
    IF doc.args = NoArgs
      THEN [args |-> NoArgs, unattended |-> "unknown", account |-> "unknown",
            kind |-> "unknown", wake |-> FALSE]
      ELSE [args |-> doc.args, unattended |-> IF doc.unattended THEN "yes" ELSE "no",
            account |-> doc.account, kind |-> doc.kind, wake |-> doc.wake]

\* Every spelling of the signed-in account is the one key.
PrincipalKey(account) == IF account \in {"none", "unknown", Own} THEN Own ELSE account

\* What a save in Settings has to do about the task.
ScheduleReconcile(doc, pending, account, wake) ==
    LET record == RegisteredSchedule(doc) IN
    IF ~doc.registered THEN "no_task"
    ELSE IF \/ record.args = NoArgs
            \/ TaskArgsChanged(record.args, pending)
            \/ PrincipalKey(record.account) # PrincipalKey(account)
            \/ record.wake # wake
         THEN "reregister" ELSE "up_to_date"

RunTimeSaveDecision(saved, field) ==
    IF field = saved THEN [persist |-> FALSE, invalid |-> FALSE]
    ELSE [persist |-> field \notin {"bad", "none"}, invalid |-> field \in {"bad", "none"}]

-----------------------------------------------------------------------------
(* The register gate.  typed is what the schedule card holds.              *)

\* An account name Windows cannot take, or one that is not of its kind.
ShapeRefused(typed) ==
    \/ typed.account = "bad"
    \/ typed.kind = "managed" /\ PrincipalKey(typed.account) = Own

RegisterBlock(doc, typed, complete, unreadable) ==
    LET record == RegisteredSchedule(doc)
        other == PrincipalKey(typed.account) # Own
        same == IF record.account = "unknown" THEN ~other
                ELSE PrincipalKey(record.account) = PrincipalKey(typed.account)
    IN  IF ~complete THEN "incomplete"
        ELSE IF typed.time = "none" THEN "run_time"
        ELSE IF ShapeRefused(typed) THEN "account_shape"
        ELSE IF doc.registered /\ ~same THEN "account_switch_needs_remove"
        ELSE IF other /\ unreadable THEN "delivery_secret_unreadable"
        ELSE IF other /\ typed.kind = "token" THEN "account_needs_password"
        ELSE "none"

CanRegisterSchedule(doc, typed, complete, unreadable) ==
    RegisterBlock(doc, typed, complete, unreadable) = "none"

\* Mutant: what was never recorded needs no asking.
DowngradeInterruptKnown(record, passwordSupplied) ==
    IF passwordSupplied THEN "none"
    ELSE IF record.kind = "managed" THEN "managed"
    ELSE IF PrincipalKey(record.account) # Own THEN "service_account"
    ELSE IF record.unattended = "yes" THEN "signed_out" ELSE "none"

\* Whether a save may not register again before the person has chosen, and
\* which of the dialogs asks: only two of them offer to run signed in only.
DowngradeInterrupt(record, passwordSupplied) ==
    IF passwordSupplied THEN "none"
    ELSE IF record.kind = "managed" THEN "managed"
    ELSE IF PrincipalKey(record.account) # Own THEN "service_account"
    ELSE CASE record.unattended = "unknown" -> "cannot_tell"
           [] record.unattended = "yes"     -> "signed_out"
           [] OTHER                         -> "none"

OffersSignedInOnly(dialog) == dialog \in {"cannot_tell", "signed_out"}

\* What a save's note says of the task, by what the reconcile did: nothing
\* only when it had nothing to do.
SaveNote(outcome) ==
    CASE outcome = "none"       -> "saved"
      [] outcome = "dispatched" -> "updating"
      [] OTHER                  -> "left_out"

-----------------------------------------------------------------------------
(* The last page of the wizard.                                            *)

\* Mutant: a task that is live has every setting.
NoDesync(live, registered, delivery) == ~live /\ delivery

ScheduleDeliveryDesync(live, registered, delivery) ==
    live /\ registered # NoArgs /\ delivery /\ ~registered.delivery

FinishNeedsAttention(fact, desync) == desync /\ fact \in DeliveryConfigured

\* What the page promises: a run tonight, of which district, and its delivery.
FinishCopy(live, fact, district, desync) ==
    [tonight  |-> live,
     district |-> district,
     delivers |-> IF live /\ ~FinishNeedsAttention(fact, desync) THEN fact = "stored" ELSE FALSE,
     warns    |-> live /\ FinishNeedsAttention(fact, desync)]

\* Its check list: the rows ticked, and whether the schedule row says that
\* delivery is not in it yet.
FinishSummaryRows(live, fact, desync) ==
    [done |-> {"District", "Folders"}
                \cup (IF fact \in DeliveryConfigured THEN {"Delivery"} ELSE {})
                \cup (IF live THEN {"Schedule"} ELSE {}),
     notYet |-> live /\ desync]
=============================================================================
