------------------------------ MODULE Convert ------------------------------
(***************************************************************************)
(* The Convert screen (ui_flet/screens/convert.py): a person converts,     *)
(* answers the question about a shrinking roster, delivers what is on      *)
(* disk, and walks away from the screen while a job runs. A job keeps      *)
(* running on its thread; opening the screen again builds a new one, with  *)
(* a new JobRunner. A nightly may write the same output folder.            *)
(*                                                                         *)
(* Writing a folder and uploading it are one step each here: OutputFolder  *)
(* and Delivery are their insides. The sftp_requested leg of convert_job,  *)
(* which no caller asks for, is left out.                                  *)
(***************************************************************************)
EXTENDS ConvertGates

CONSTANTS
    Folders,       \* the input folders a person may pick
    Sizes,         \* the rows a later extract may have
    MaxJobs,       \* the most jobs of a budget
    Starts         \* what there is to begin with: a set of records

ASSUME StartsAssumption ==
    /\ Sizes \subseteq Nat
    /\ \A s \in Starts :
        /\ s.saved \in [district : Districts \cup {Blank}, listed : SUBSET Districts,
                        folder : Folders, output : BOOLEAN, sftp : BOOLEAN,
                        credential : BOOLEAN]
        /\ s.extract \in [Folders -> Nat]
        /\ s.output \in [Entities -> [by : Districts \cup {Absent.by}, rows : Nat]]
        /\ s.budget \in [{"jobs", "visits", "faults", "events"} -> Nat]

VARIABLES
    saved,     \* the settings on disk
    extract,   \* the rows of each input folder
    output,    \* the output folder, a file for each entity
    writer,    \* history: who wrote it last
    jobs,      \* the jobs, oldest first
    screen,    \* the controls of the screen, or Away
    budget     \* how many jobs, visits, faults and outside events are left

vars == <<saved, extract, output, writer, jobs, screen, budget>>

world == <<saved, extract, output, writer>>

NoSlot == [kind |-> "none", job |-> 0, offer |-> "hidden"]
NoDialog == [kind |-> "none", district |-> Blank, run |-> 0]

\* What a person sees when the window shows another screen.
Away == [here |-> FALSE, outputSet |-> FALSE, pick |-> Blank, folder |-> Blank,
         ack |-> NoRun, runner |-> "idle", refused |-> FALSE,
         slot |-> NoSlot, standalone |-> "hidden", dialog |-> NoDialog]

NoRecord == [status |-> "absent", outcomes |-> {}]

\* at: where the job is; view: what the screen showed when it was started; run:
\* for a delivery offered by a run's card, that run. shrank, raced, stuck, late,
\* foreign and sent are history.
NewJob(kind, who, ack, run) ==
    [kind |-> kind, who |-> who, ack |-> ack, run |-> run, visit |-> budget.visits,
     view |-> Identity(screen.pick, screen.folder),
     at |-> IF kind = "convert" THEN "prepare" ELSE "resolve",
     rows |-> 0, emit |-> {}, dirty |-> FALSE, outcomes |-> {},
     status |-> "none", record |-> NoRecord, wrote |-> FALSE, shrank |-> FALSE,
     raced |-> FALSE, stuck |-> FALSE, late |-> FALSE, foreign |-> FALSE, sent |-> {}]

Init ==
    /\ \E s \in Starts :
         /\ saved = s.saved
         /\ extract = s.extract
         /\ output = s.output
         /\ budget = s.budget
    /\ writer = 0
    /\ jobs = <<>>
    /\ screen = Away

Spends(what) == budget[what] > 0 /\ budget' = [budget EXCEPT ![what] = @ - 1]

-----------------------------------------------------------------------------
(* Deliver affordances                                                     *)

Offerable(job) ==
    \/ job.status = "built_not_delivered"
    \/ job.kind = "convert" /\ job.status \in SuccessShaped

\* _deliver_district: the pick, else the saved district.
DeliverDistrict(pick) == IF pick # Blank THEN pick ELSE saved.district

Standalone(pick) ==
    LET files == Deliverable(DeliverDistrict(pick), output)
    IN  StandaloneDeliver(saved.sftp, saved.credential, files)

ResultOffer(job, pick) ==
    ResultDeliver(Offerable(job), saved.sftp, Deliverable(job.who.district, output),
                  job.who.district = DeliverDistrict(pick), saved.credential)

\* Mutant: a run's card is left as it is.
RefreshedStandaloneOnly(s) ==
    IF s.slot.kind # "none" THEN s ELSE [s EXCEPT !.standalone = Standalone(s.pick)]

\* _refresh_deliver_slot: a rendered run re-gates its card, a note or an error
\* card has none, and without either the card for the files on disk is redrawn.
Refreshed(s) ==
    CASE s.slot.kind = "banner" ->
            [s EXCEPT !.slot.offer = ResultOffer(jobs[s.slot.job], s.pick)]
      [] s.slot.kind = "none" -> [s EXCEPT !.standalone = Standalone(s.pick)]
      [] OTHER -> s

-----------------------------------------------------------------------------
(* The person at the screen                                                *)

Shows == screen.here /\ screen.dialog.kind = "none"

Enabled == Interaction(CanRunConvert(screen.pick, screen.outputSet),
                       screen.runner = "running", screen.ack # NoRun)

\* render_by_id builds the screen anew (shell.py, build_convert).
Open ==
    /\ ~screen.here /\ Spends("visits")
    /\ screen' = Refreshed([Away EXCEPT !.here = TRUE, !.outputSet = saved.output,
                                        !.pick = saved.district, !.folder = saved.folder])
    /\ UNCHANGED <<world, jobs>>

\* Another destination of the rail; a running job is not asked.
Leave ==
    /\ Shows
    /\ screen' = Away
    /\ UNCHANGED <<world, jobs, budget>>

\* _on_district_change
PickDistrict ==
    /\ Shows /\ Enabled.inputs
    /\ \E d \in saved.listed \ {screen.pick} :
         screen' = Refreshed([screen EXCEPT !.pick = d])
    /\ UNCHANGED <<world, jobs, budget>>

PickFolder ==
    /\ Shows /\ Enabled.inputs
    /\ \E x \in Folders \ {screen.folder} : screen' = [screen EXCEPT !.folder = x]
    /\ UNCHANGED <<world, jobs, budget>>

\* runner.run: the slots are cleared first, and one job runs at a time.
Begins(job) ==
    /\ Spends("jobs") /\ CanStart(screen.runner)
    /\ jobs' = Append(jobs, job)
    /\ screen' = [screen EXCEPT !.runner = "running", !.ack = NoRun, !.slot = NoSlot,
                                !.standalone = "hidden", !.refused = FALSE,
                                !.dialog = NoDialog]
    /\ UNCHANGED world

\* The Convert button.
StartConvert ==
    /\ Shows /\ Enabled.convert
    /\ Begins(NewJob("convert", Identity(screen.pick, screen.folder), NoRun, 0))

\* "I've reviewed this - convert anyway": the card replays the run it shows.
Acknowledge ==
    /\ Shows /\ screen.slot.kind = "ack"
    /\ LET reviewed == jobs[screen.slot.job].who
       IN  Begins(NewJob("convert", reviewed, reviewed, 0))

\* _on_cancel of the question.
Decline ==
    /\ Shows /\ screen.slot.kind = "ack"
    /\ screen' = [screen EXCEPT !.runner = Reset(@), !.ack = NoRun, !.slot.kind = "note"]
    /\ UNCHANGED <<world, jobs, budget>>

\* _confirm_and_deliver: every delivery passes here.
Confirm(d, run) ==
    /\ screen' = [screen EXCEPT !.dialog =
            [kind |-> IF Deliverable(d, output) = {} THEN "nothing" ELSE "deliver",
             district |-> d, run |-> run]]
    /\ UNCHANGED <<world, jobs, budget>>

\* The card of a run is bound to that run's district,
DeliverResult ==
    /\ Shows /\ screen.slot.offer = "ready"
    /\ LET job == jobs[screen.slot.job]
       IN  Confirm(job.who.district, IF job.kind = "convert" THEN screen.slot.job ELSE job.run)

\* the card for the files on disk to what is picked when it is pressed.
DeliverFolder ==
    /\ Shows /\ screen.standalone = "ready"
    /\ Confirm(DeliverDistrict(screen.pick), 0)

CloseDialog ==
    /\ screen.dialog.kind # "none"
    /\ screen' = [screen EXCEPT !.dialog = NoDialog]
    /\ UNCHANGED <<world, jobs, budget>>

\* _start_deliver; the retry of a delivery stands for the same run.
StartDeliver ==
    /\ screen.dialog.kind = "deliver"
    /\ LET d == screen.dialog.district
       IN  Begins(NewJob("deliver", Identity(d, screen.folder), NoRun, screen.dialog.run))

-----------------------------------------------------------------------------
(* convert_job, on a thread of its own                                     *)

Still == UNCHANGED <<saved, extract, screen>>

Goes(j, job) == jobs' = [jobs EXCEPT ![j] = job]

AtStep(j, kind, place) == jobs[j].kind = kind /\ jobs[j].at = place

\* _record_manual_run; a job that raised is recorded by _record_failed_attempt.
Record(job, status, attempted, ok) ==
    [source |-> "manual", status |-> status, attempted |-> attempted, ok |-> ok,
     outcomes |-> job.outcomes, odd |-> FALSE, dirty |-> job.dirty,
     deliveryOnly |-> job.kind = "deliver", district |-> job.who.district, at |-> 0]

Ends(job, status, record) ==
    [job EXCEPT !.at = "over", !.status = status, !.record = record,
                !.rows = 0, !.emit = {}, !.dirty = FALSE]

Raises(job) ==
    Ends(job, "raised", [Record(job, "failed", FALSE, FALSE) EXCEPT !.dirty = FALSE])

Fault == Spends("faults")

\* The mapping, then the output folder, before anything is read. AppConfig is
\* read again; without a folder the job raises and is not recorded.
Prepare(j) ==
    /\ AtStep(j, "convert", "prepare") /\ UNCHANGED budget
    /\ Goes(j, IF saved.output THEN [jobs[j] EXCEPT !.at = "build"]
               ELSE Ends(jobs[j], "unset", NoRecord))
    /\ UNCHANGED <<output, writer>> /\ Still

\* The mapping does not load: recorded and raised. The folder cannot be used:
\* told, and not recorded.
PrepareFails(j) ==
    /\ AtStep(j, "convert", "prepare") /\ Fault
    /\ \/ Goes(j, Raises(jobs[j]))
       \/ saved.output /\ Goes(j, Ends(jobs[j], "output_folder_unusable", NoRecord))
    /\ UNCHANGED <<output, writer>> /\ Still

Out(e, kind, reason) == [entity |-> e, kind |-> kind, reason |-> reason, notes |-> {}]

AllBuilt(emit) == {Out(e, "built", "none") : e \in emit}

Made(emit, outcomes, dirty) == [emit |-> emit, outcomes |-> outcomes, dirty |-> dirty]

\* What run_transform may make of the extract, the delivery gate permitting: the
\* whole roster, with or without fields left blank, one without the isolatable
\* files, or nothing to send.
Builds(d) ==
    LET whole == Configured[d]
        part == whole \ Isolatable
        without == {Out(e, "failed", "transform_error") : e \in whole \cap Isolatable}
        nothing == {Out(e, "empty", "source_files_empty") : e \in whole}
    IN  IF whole = {} THEN {}
        ELSE {Made(whole, AllBuilt(whole), FALSE), Made(whole, AllBuilt(whole), TRUE)}
               \cup (IF EveryEntityMayBeEmpty(whole) THEN {Made({}, nothing, FALSE)}
                    ELSE IF part = {} THEN {}
                    ELSE {Made(part, AllBuilt(part) \cup without, FALSE)})

\* The anomaly gate: a question to the person, not an outcome.
Looked(job) ==
    IF /\ Anomalous(job.emit, job.rows, Configured[job.who.district], output)
       /\ ~AckAuthorizes(job.ack, job.who)
      THEN Ends(job, "needs_anomaly_ack", NoRecord)
      ELSE [job EXCEPT !.at = "write"]

\* The read, the transform, check_delivery_integrity and the anomaly gate.
Build(j) ==
    /\ AtStep(j, "convert", "build") /\ UNCHANGED budget
    /\ \E b \in Builds(jobs[j].who.district) :
         LET built == [jobs[j] EXCEPT !.rows = extract[jobs[j].who.folder],
                          !.emit = b.emit, !.outcomes = b.outcomes, !.dirty = b.dirty]
         IN  Goes(j, IF b.emit = {}
                       THEN Ends(built, "nothing_to_send", Record(built, "success", FALSE, FALSE))
                       ELSE Looked(built))
    /\ UNCHANGED <<output, writer>> /\ Still

\* No usable input is a question of the folder picked; a refusal by the gate and
\* a raise are recorded as failures. A mapping that enables no entity ends here.
BuildStops(j) ==
    /\ AtStep(j, "convert", "build")
    /\ IF Configured[jobs[j].who.district] = {} THEN UNCHANGED budget ELSE Fault
    /\ \/ Goes(j, Ends(jobs[j], "no_input", NoRecord))
       \/ \E status \in {"no_output", "incomplete_roster"} :
             Goes(j, Ends(jobs[j], status, Record(jobs[j], "failed", FALSE, FALSE)))
       \/ Goes(j, Raises(jobs[j]))
    /\ UNCHANGED <<output, writer>> /\ Still

\* A writer replaces its files; every job between its look and its write has
\* looked at another folder.
Replaced(emit, rows, by) ==
    [e \in Entities |-> IF e \in emit THEN [by |-> by, rows |-> rows] ELSE output[e]]

Overtaken(js) ==
    [i \in DOMAIN js |-> [js[i] EXCEPT !.raced = @ \/ js[i].at = "write"]]

\* save_all: all of the files or, when it raises, none.
Write(j) ==
    /\ AtStep(j, "convert", "write") /\ UNCHANGED budget
    /\ LET job == jobs[j]
       IN  /\ output' = Replaced(job.emit, job.rows, job.who.district)
           /\ writer' = j
           /\ jobs' = Overtaken([jobs EXCEPT ![j] = [job EXCEPT !.at = "finish",
                 !.wrote = TRUE,
                 !.shrank = \E e \in job.emit : DropsSharply(job.rows, output[e].rows)]])
    /\ Still

\* Mutant: what was replaced before the error is not put back.
WriteFailsHalfway(j) ==
    /\ AtStep(j, "convert", "write") /\ Fault
    /\ output' = Replaced(jobs[j].emit, jobs[j].rows, jobs[j].who.district)
    /\ Goes(j, [Ends(jobs[j], "output_folder_unusable", NoRecord) EXCEPT !.wrote = TRUE])
    /\ UNCHANGED writer /\ Still

\* An OSError (a file open in Excel) is told as a folder that cannot be used.
WriteFails(j) ==
    /\ AtStep(j, "convert", "write") /\ Fault
    /\ \/ Goes(j, Ends(jobs[j], "output_folder_unusable", NoRecord))
       \/ Goes(j, Raises(jobs[j]))
    /\ UNCHANGED <<output, writer>> /\ Still

Stale(emit) == PresentIn(output) \ emit

\* archive_stale_outputs, best-effort file by file, and the quality report.
Finish(j) ==
    /\ AtStep(j, "convert", "finish")
    /\ \E kept \in SUBSET Stale(jobs[j].emit) :
         /\ IF kept = {} THEN UNCHANGED budget ELSE Fault
         /\ output' = [e \in Entities |->
                IF e \in Stale(jobs[j].emit) \ kept THEN Absent ELSE output[e]]
         /\ LET job == [jobs[j] EXCEPT !.stuck = kept # {}]
            IN  Goes(j, Ends(job, IF job.dirty THEN "built_with_data_errors" ELSE "delivered",
                             Record(job, "success", FALSE, FALSE)))
    /\ UNCHANGED writer /\ Still

\* The archive directory or the report fails: the run is a failed one, although
\* its files are written.
FinishFails(j) ==
    /\ AtStep(j, "convert", "finish") /\ Fault
    /\ Goes(j, Raises([jobs[j] EXCEPT !.late = TRUE]))
    /\ UNCHANGED <<output, writer>> /\ Still

-----------------------------------------------------------------------------
(* deliver_job                                                             *)

\* The settings are read again. Without a folder, or when the mapping does not
\* load, the job raises and is not recorded.
Resolve(j) ==
    /\ AtStep(j, "deliver", "resolve")
    /\ \/ saved.output /\ UNCHANGED budget /\ Goes(j, [jobs[j] EXCEPT !.at = "upload"])
       \/ /\ IF saved.output THEN Fault ELSE UNCHANGED budget
          /\ Goes(j, Ends(jobs[j], "unset", NoRecord))
    /\ UNCHANGED <<output, writer>> /\ Still

\* upload_csvs over the manifest; nothing to send fails loudly. The files go one
\* by one, so an upload that fails has sent some of them, or all.
Upload(j) ==
    /\ AtStep(j, "deliver", "upload")
    /\ LET job == jobs[j]
           files == Deliverable(job.who.district, output)
           Sent(arrived) == [job EXCEPT !.sent = {output[e].by : e \in arrived},
                                        !.foreign = writer # job.run]
       IN  \/ /\ files # {} /\ UNCHANGED budget
              /\ Goes(j, Ends(Sent(files), "delivered_from_disk",
                              Record(job, "success", TRUE, TRUE)))
           \/ /\ IF files = {} THEN UNCHANGED budget ELSE Fault
              /\ \E arrived \in SUBSET files :
                   Goes(j, Ends(Sent(arrived), "built_not_delivered",
                                Record(job, "success", TRUE, FALSE)))
    /\ UNCHANGED <<output, writer>> /\ Still

-----------------------------------------------------------------------------
(* The answer, on the event loop                                           *)

Raised == {"raised", "unset"}

\* _render_result: a question freezes the inputs, a verdict gets its own offer.
Rendered(s, j) ==
    LET job == jobs[j]
        kind == IF job.status = "needs_anomaly_ack" THEN "ack" ELSE "banner"
    IN  [s EXCEPT !.runner = Finished(@, "done"),
                  !.ack = IF kind = "ack" THEN job.who ELSE @,
                  !.refused = job.status = "output_folder_unusable",
                  !.slot = [kind |-> kind, job |-> j,
                            offer |-> IF kind = "ack" THEN "hidden" ELSE ResultOffer(job, s.pick)]]

ErrorShown(s, j) ==
    [s EXCEPT !.runner = Finished(@, "error"), !.refused = FALSE,
              !.slot = [kind |-> "error", job |-> j, offer |-> "hidden"]]

\* What only mattered until the answer is forgotten.
Answered(job) ==
    [job EXCEPT !.at = "answered", !.record = NoRecord, !.outcomes = {},
                !.shrank = FALSE, !.raced = FALSE]

\* Mutant: a job that raised is not routed back to the screen.
AnswerOfResultsOnly(j) ==
    /\ jobs[j].at = "over" /\ jobs[j].status \notin Raised
    /\ Goes(j, Answered(jobs[j]))
    /\ screen' = IF screen.here /\ jobs[j].visit = budget.visits THEN Rendered(screen, j) ELSE screen
    /\ UNCHANGED <<world, budget>>

\* route, then page.run_task: the runner settles and the result is painted. The
\* controls of a screen that was left belong to nobody.
Answer(j) ==
    /\ jobs[j].at = "over"
    /\ Goes(j, Answered(jobs[j]))
    /\ screen' = IF ~(screen.here /\ jobs[j].visit = budget.visits) THEN screen
                 ELSE IF jobs[j].status \in Raised THEN ErrorShown(screen, j)
                 ELSE Rendered(screen, j)
    /\ UNCHANGED <<world, budget>>

-----------------------------------------------------------------------------
(* Meanwhile                                                               *)

\* Another screen of the window saves a setting.
Settle ==
    /\ ~screen.here /\ Spends("events")
    /\ \/ \E f \in {"output", "sftp", "credential"} : saved' = [saved EXCEPT ![f] = ~@]
       \/ \E d \in saved.listed \ {saved.district} : saved' = [saved EXCEPT !.district = d]
    /\ UNCHANGED <<extract, output, writer, jobs, screen>>

\* The school exports again.
Export ==
    /\ Spends("events")
    /\ \E x \in Folders, n \in Sizes :
         n # extract[x] /\ extract' = [extract EXCEPT ![x] = n]
    /\ UNCHANGED <<saved, output, writer, jobs, screen>>

\* A nightly of the saved district writes and archives.
Night ==
    /\ Spends("events") /\ saved.output /\ saved.district # Blank
    /\ output' = [e \in Entities |->
            IF e \in Configured[saved.district]
              THEN [by |-> saved.district, rows |-> extract[saved.folder]] ELSE Absent]
    /\ writer' = -1
    /\ jobs' = Overtaken(jobs)
    /\ UNCHANGED <<saved, extract, screen>>

Runs(j) ==
    \/ Prepare(j) \/ PrepareFails(j) \/ Build(j) \/ BuildStops(j)
    \/ Write(j) \/ WriteFails(j) \/ Finish(j) \/ FinishFails(j)
    \/ Resolve(j) \/ Upload(j) \/ Answer(j)

Next ==
    \/ Open \/ Leave \/ PickDistrict \/ PickFolder
    \/ StartConvert \/ Acknowledge \/ Decline
    \/ DeliverResult \/ DeliverFolder \/ CloseDialog \/ StartDeliver
    \/ \E j \in 1 .. Len(jobs) : Runs(j)
    \/ Settle \/ Export \/ Night

\* Threads and the event loop are scheduled; a person and a school need not act.
Spec == Init /\ [][Next]_vars /\ \A j \in 1 .. MaxJobs :
            WF_vars(j <= Len(jobs) /\ Runs(j))

-----------------------------------------------------------------------------
(* Properties                                                              *)

\* "A silent 20% roster drop is structurally impossible" (screens/convert.py),
\* "an approval given for one folder can never be spent on another": a run that
\* was approved is the one the screen showed when it was, and one that was not
\* takes more than a fifth of its rows from a file only in a folder another
\* writer has filled since it looked.
ConsentIsForTheRun ==
    \A j \in DOMAIN jobs :
        /\ jobs[j].ack # NoRun => jobs[j].view = jobs[j].ack /\ jobs[j].who = jobs[j].ack
        /\ jobs[j].shrank /\ jobs[j].ack = NoRun => jobs[j].raced

\* "The files it built are the only ones it may send, under the only name they
\* may carry": a delivery from a run's card goes out under the district of that
\* run and of the dropdown, and sends that run's files alone, unless another run
\* wrote the folder since or a file could not be archived.
CardSendsItsOwnRun ==
    \A j \in DOMAIN jobs :
        LET job == jobs[j]
        IN  job.kind = "deliver" /\ job.run # 0 =>
                /\ job.who.district = job.view.district
                /\ job.who.district = jobs[job.run].who.district
                /\ job.sent \subseteq {job.who.district} \/ job.foreign \/ jobs[job.run].stuck

\* What the screen says of a job is what the job did to the disk: "nothing has
\* been written yet", "no files were written", "nothing new was saved" are said
\* of jobs that wrote nothing (unless the run failed after its commit), a roster
\* is called built only when it is, and a refused folder is blamed on the run
\* that is shown.
ToldIsTrue ==
    LET slot == screen.slot
        job == jobs[slot.job]
    IN  /\ screen.refused => slot.kind = "banner" /\ job.status = "output_folder_unusable"
        /\ slot.kind # "none" =>
            /\ slot.kind \in {"ack", "note"} => ~job.wrote
            /\ slot.kind = "error" => ~job.wrote \/ job.late
            /\ slot.kind = "banner" =>
                 IF job.status \in WroteOutput /\ job.kind = "convert"
                   THEN job.wrote ELSE ~job.wrote
            /\ job.status = "delivered_from_disk" => job.sent # {}

NotRecorded == {"no_input", "needs_anomaly_ack", "output_folder_unusable", "unset"}

\* "Every attempt leaves exactly one run record", the four exceptions aside, and
\* Home reads from the record of a build what the screen said of it; a failed
\* delivery is a failure on both.
HistoryAgrees ==
    \A j \in DOMAIN jobs :
        LET job == jobs[j]
            home == VerdictForReason[LatestReason(job.record, NoBuild)]
        IN  job.at = "over" =>
              IF job.status \in NotRecorded THEN job.record = NoRecord
              ELSE /\ job.record # NoRecord
                   /\ home = IF job.status = "raised" THEN "FAILED"
                             ELSE Summarize(job.status, job.outcomes)

\* "No dead clicks, no double-start": every job is answered, whatever it met,
\* and no screen spins for ever; a screen never runs two.
EveryJobIsAnswered ==
    []<>(screen.runner # "running" /\ \A j \in DOMAIN jobs : jobs[j].at = "answered")

=============================================================================
