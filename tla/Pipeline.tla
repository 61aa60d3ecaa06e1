------------------------------ MODULE Pipeline ------------------------------
(***************************************************************************)
(* One command-line run of the ETL (src/etl/pipeline.py, run_pipeline, with *)
(* run_transform, the two input gates, the delivery-integrity gate and the *)
(* record of the run) and the exit code main._cli gives it.                *)
(*                                                                         *)
(* The rows are abstracted to whether there are any; what a transform does *)
(* with them is a choice among everything run_transform tells apart.       *)
(***************************************************************************)
EXTENDS Outcomes

CONSTANTS
    Orders,     \* the configurations: sequences of enabled entities
    Feeds       \* the entities whose files travel on their own, not in the zip

ASSUME OrdersAssumption ==
    \A o \in Orders :
        /\ o \in Seq(Entities)
        /\ \A i, j \in 1 .. Len(o) : o[i] = o[j] => i = j

VARIABLES
    order,      \* configured_entity_order
    file,       \* what is in the input folder under each name
    dry, sftp,  \* --dry-run, --sftp
    stage,      \* where run_pipeline is
    lacking,    \* entities some of whose mapped columns the input lacks
    next,       \* position of the entity the loop is at
    outcome,    \* the OutcomeLedger
    isolated,   \* category of the first isolated exception, or "none"
    raised,     \* category of the exception in flight, or "none"
    raisedAt,   \* history: the stage that raised it
    written,    \* the entities whose CSVs save_all committed
    attempted,  \* sftp_attempted
    delivered,  \* the entities whose files reached SpacesEDU
    sftpOk,     \* sftp_ok
    logged,     \* the run records written to the log
    stored,     \* how many of them reached the history store
    exit        \* the process exit code, -1 until then

vars == <<order, file, dry, sftp, stage, lacking, next, outcome, isolated,
          raised, raisedAt, written, attempted, delivered, sftpOk, logged, stored,
          exit>>

given == <<order, file, dry, sftp>>
disk  == <<written, attempted, delivered, sftpOk>>
told  == <<logged, stored, exit>>

Configured == {order[i] : i \in 1 .. Len(order)}

Categories == {"none", "no_input", "no_output", "incomplete_roster", "config",
               "data", "output", "unknown", "source_schema",
               "input_unreadable", "incomplete_input", "empty_required_output"}

Record == [status : {"success", "failed"}, category : Categories,
           outcomes : [Entities -> Outcome] \cup {<<>>},
           attempted : BOOLEAN, ok : BOOLEAN]

Init ==
    /\ order \in Orders
    /\ file \in [Files -> {"absent", "rowless", "rows"}]
    /\ dry \in BOOLEAN /\ sftp \in BOOLEAN
    /\ stage = "start"
    /\ lacking = {}
    /\ next = 1
    /\ outcome = [e \in Entities |-> Unset]
    /\ isolated = "none" /\ raised = "none" /\ raisedAt = "start"
    /\ written = {} /\ attempted = FALSE /\ delivered = {} /\ sftpOk = FALSE
    /\ logged = <<>> /\ stored = 0 /\ exit = -1

-----------------------------------------------------------------------------
(* Helpers                                                                  *)

Goto(s) == stage' = s

\* An exception leaves the try block of run_pipeline: the failure sink is next.
Raises(category) ==
    /\ raised' = category
    /\ raisedAt' = stage
    /\ Goto("sink")

NoRaise == UNCHANGED <<raised, raisedAt>>

\* mark_not_run over the entities after position i; recorded ones keep theirs.
WithRestNotRun(o, i) ==
    [e \in Entities |->
        IF \E j \in i + 1 .. Len(order) : order[j] = e THEN NotRun ELSE o[e]]

\* finalize_aborted: idempotent, it fills only what is unrecorded.
Finalized(o) ==
    [e \in Entities |->
        IF e \in Configured /\ o[e] = Unset THEN NotRun ELSE o[e]]

BuiltSet == {e \in Configured : outcome[e].kind = "built"}

Required == UNION {Lists[e] : e \in Configured}

\* build_run_record, then _log_run_record; _store_run_record skips a dry run
\* and never raises, whether or not the row was written.
RecordRun(status, category, outcomes) ==
    /\ logged' = Append(logged, [status |-> status, category |-> category,
                                 outcomes |-> outcomes, attempted |-> attempted,
                                 ok |-> sftpOk])
    /\ stored' \in IF dry THEN {stored} ELSE {stored, stored + 1}

-----------------------------------------------------------------------------
(* Before the ledger exists: each failure records itself and exits 1        *)

EarlyExit(category) ==
    /\ RecordRun("failed", category, <<>>)
    /\ exit' = 1
    /\ raised' = category /\ raisedAt' = stage
    /\ Goto("over")
    /\ UNCHANGED <<given, lacking, next, outcome, isolated, disk>>

Proceed(s) ==
    /\ Goto(s)
    /\ UNCHANGED <<given, lacking, next, outcome, isolated, raised, raisedAt,
                   disk, told>>

CheckInputDir ==
    /\ stage = "start"
    /\ Proceed("config") \/ EarlyExit("no_input")

\* Anything else load_config raises reaches the generic sink.
LoadConfig ==
    /\ stage = "config"
    /\ \/ Proceed(IF dry THEN "open" ELSE "preflight")
       \/ EarlyExit("config")
       \/ Raises("unknown")
          /\ UNCHANGED <<given, lacking, next, outcome, isolated, disk, told>>

CheckOutputTarget ==
    /\ stage = "preflight"
    /\ Proceed("open") \/ EarlyExit("output")

-----------------------------------------------------------------------------
(* Reading the input                                                        *)

\* The ledger is built; DataLoader makes the output folder, and an OSError is
\* an output fault only when the folder was pre-flighted.
OpenFolders ==
    /\ stage = "open"
    /\ \/ Goto("load") /\ NoRaise
       \/ \E c \in (IF dry THEN {"config", "unknown"} ELSE {"output"}) : Raises(c)
    /\ UNCHANGED <<given, lacking, next, outcome, isolated, disk, told>>

NoUsableInput ==
    /\ \A f \in Required : file[f] # "rows"
    /\ ~ /\ Required # {}
         /\ \A f \in Required : file[f] # "absent"
         /\ EveryEntityMayBeEmpty(Configured)

\* load_data, absent_files, has_no_usable_input; then observe_source_columns,
\* which only takes note of entities whose columns are missing.
LoadData ==
    /\ stage = "load"
    /\ \/ Raises("input_unreadable") /\ UNCHANGED lacking
       \/ NoUsableInput /\ Raises("no_input") /\ UNCHANGED lacking
       \/ /\ ~NoUsableInput
          /\ lacking' \in SUBSET Configured
          /\ Goto("gate") /\ NoRaise
    /\ UNCHANGED <<given, next, outcome, isolated, disk, told>>

\* The files of e that stop the night.
Stopping(e) ==
    {f \in Lists[e] : /\ ~SourceFileMayBeAbsent(e, f)
                      /\ \/ file[f] = "absent"
                         \/ file[f] = "rowless" /\ e \notin MayBeEmpty}

Stopped == {e \in Configured : Stopping(e) # {}}

\* check_required_inputs: every entity the input stops is recorded, then the
\* one exception is raised.
CheckRequiredInputs ==
    /\ stage = "gate"
    /\ \/ Stopped = {} /\ Goto("setup") /\ NoRaise /\ UNCHANGED outcome
       \/ /\ Stopped # {}
          /\ outcome' = [e \in Entities |->
                            IF e \in Stopped THEN Failed("missing_source_file")
                            ELSE outcome[e]]
          /\ Raises("incomplete_input")
    /\ UNCHANGED <<given, lacking, next, isolated, disk, told>>

-----------------------------------------------------------------------------
(* run_transform                                                            *)

\* The school year is determined before the entity loop and may raise.
DetermineSchoolYear ==
    /\ stage = "setup"
    /\ \/ Goto("transform") /\ NoRaise
       \/ \E c \in {"data", "unknown"} : Raises(c)
    /\ UNCHANGED <<given, lacking, next, outcome, isolated, disk, told>>

\* record_empty: an entity that may not be empty stops the night.
RecordEmpty(e, reason) ==
    LET refined == Observed(reason, e \in lacking)
        recorded == [outcome EXCEPT ![e] = Empty(refined)]
    IN IF StopsWhenEmpty(e, refined)
         THEN /\ outcome' = WithRestNotRun(recorded, next)
              /\ Raises("empty_required_output")
              /\ UNCHANGED next
         ELSE /\ outcome' = recorded
              /\ next' = next + 1
              /\ NoRaise /\ UNCHANGED stage

\* An entity without source files, or all of whose files have no rows.
SkipEntity ==
    /\ stage = "transform" /\ next <= Len(order)
    /\ LET e == order[next] IN
         \/ Lists[e] = {} /\ RecordEmpty(e, "no_source_files_declared")
         \/ /\ Lists[e] # {}
            /\ \A f \in Lists[e] : file[f] # "rows"
            /\ RecordEmpty(e, "source_files_empty")
    /\ UNCHANGED <<given, lacking, isolated, disk, told>>

HasInput(e) == \E f \in Lists[e] : file[f] = "rows"

BuildEntity ==
    /\ stage = "transform" /\ next <= Len(order) /\ HasInput(order[next])
    /\ outcome' = [outcome EXCEPT ![order[next]] = Built]
    /\ next' = next + 1
    /\ NoRaise
    /\ UNCHANGED <<given, lacking, stage, isolated, disk, told>>

\* The transform kept no row, or the required-value rule left none.
EmptyEntity ==
    /\ stage = "transform" /\ next <= Len(order) /\ HasInput(order[next])
    /\ \E reason \in {"no_rows_after_transform", "required_values_missing"} :
          RecordEmpty(order[next], reason)
    /\ UNCHANGED <<given, lacking, isolated, disk, told>>

\* reason_for and classify_error_category, both by the exception's type.
TransformFaults ==
    {<<"missing_source_column", "source_schema">>, <<"transform_error", "data">>,
     <<"transform_error", "unknown">>}

\* Mutant: the bulkhead isolates every entity.
FailEntityIsolatesAll ==
    /\ stage = "transform" /\ next <= Len(order) /\ HasInput(order[next])
    /\ \E fault \in TransformFaults :
         /\ outcome' = [outcome EXCEPT ![order[next]] = Failed(fault[1])]
         /\ next' = next + 1
         /\ isolated' = IF isolated = "none" THEN fault[2] ELSE isolated
         /\ NoRaise /\ UNCHANGED stage
    /\ UNCHANGED <<given, lacking, disk, told>>

\* The entity bulkhead: a critical entity's exception fails the run, an
\* isolatable one's leaves that entity out.
FailEntity ==
    /\ stage = "transform" /\ next <= Len(order) /\ HasInput(order[next])
    /\ \E fault \in TransformFaults :
         LET e == order[next]
             recorded == [outcome EXCEPT ![e] = Failed(fault[1])]
         IN \/ /\ e \notin Isolatable
               /\ outcome' = WithRestNotRun(recorded, next)
               /\ Raises(fault[2])
               /\ UNCHANGED <<next, isolated>>
            \/ /\ e \in Isolatable
               /\ outcome' = recorded
               /\ next' = next + 1
               /\ isolated' = IF isolated = "none" THEN fault[2] ELSE isolated
               /\ NoRaise /\ UNCHANGED stage
    /\ UNCHANGED <<given, lacking, disk, told>>

\* Nothing was built and something failed: the first contained exception.
EndTransform ==
    /\ stage = "transform" /\ next > Len(order)
    /\ IF isolated # "none" /\ BuiltSet = {}
         THEN Raises(isolated)
         ELSE Goto("integrity") /\ NoRaise
    /\ UNCHANGED <<given, lacking, next, outcome, isolated, disk, told>>

\* run_transform alone, once the school year is known: what a specification of
\* the transformers implements.
TransformInit ==
    /\ order \in Orders
    /\ stage = "transform" /\ next = 1
    /\ outcome = [e \in Entities |-> Unset]
    /\ isolated = "none" /\ raised = "none"

TransformNext ==
    SkipEntity \/ BuildEntity \/ EmptyEntity \/ FailEntity \/ EndTransform

TransformSpec == TransformInit /\ [][TransformNext]_vars

-----------------------------------------------------------------------------
(* The way out                                                              *)

\* check_delivery_integrity: the fault of an output set, "none" when it is sound.
IntegrityFault ==
    IF BuiltSet = {}
      THEN IF NothingToSend(Configured, outcome) THEN "none" ELSE "no_output"
      ELSE IF Anchor \in Configured \ BuiltSet THEN "incomplete_roster" ELSE "none"

\* A sound set is written, unless the run is a dry one or has nothing to send.
CheckDeliveryIntegrity ==
    /\ stage = "integrity"
    /\ IF IntegrityFault # "none"
         THEN Raises(IntegrityFault)
         ELSE /\ Goto(IF dry \/ BuiltSet = {} THEN "report" ELSE "write")
              /\ NoRaise
    /\ UNCHANGED <<given, lacking, next, outcome, isolated, disk, told>>

\* save_all: OSError is an output fault, ValueError (a missing column) is data.
SaveAll ==
    /\ stage = "write"
    /\ \/ written' = BuiltSet /\ Goto("archive") /\ NoRaise
       \/ \E c \in {"output", "data"} : Raises(c) /\ UNCHANGED written
    /\ UNCHANGED <<given, lacking, next, outcome, isolated, attempted,
                   delivered, sftpOk, told>>

\* archive_stale_outputs: a file that cannot be moved is skipped, but making
\* the archive directory is outside that guard and may raise.
ArchiveStaleOutputs ==
    /\ stage = "archive"
    /\ \/ Goto(IF sftp THEN "deliver" ELSE "report") /\ NoRaise
       \/ \E c \in {"unknown", "config"} : Raises(c)
    /\ UNCHANGED <<given, lacking, next, outcome, isolated, disk, told>>

\* _sftp_upload never raises: it says whether the whole manifest was delivered.
\* The zip is put first and then the feeds one by one, so a failed upload may
\* leave some of the files, or all of them, on the server.
Deliver ==
    /\ stage = "deliver"
    /\ attempted' = TRUE
    /\ sftpOk' \in BOOLEAN
    /\ delivered' \in {s \in SUBSET written :
                         \/ s = {} /\ ~sftpOk'
                         \/ written \ Feeds \subseteq s /\ ~sftpOk'
                         \/ s = written}
    /\ Goto("report")
    /\ NoRaise
    /\ UNCHANGED <<given, lacking, next, outcome, isolated, written, told>>

\* Mutant: a failed delivery exits 0.
FinishIgnoringDelivery ==
    /\ stage = "report"
    /\ RecordRun("success", "none", outcome)
    /\ exit' = 0
    /\ Goto("over") /\ NoRaise
    /\ UNCHANGED <<given, lacking, next, outcome, isolated, disk>>

\* The dry-run, diff and quality prints may raise; then the run is recorded
\* and main._cli turns a failed delivery into exit code 3.
Finish ==
    /\ stage = "report"
    /\ \/ /\ RecordRun("success", "none", outcome)
          /\ exit' = IF attempted /\ ~sftpOk THEN 3 ELSE 0
          /\ Goto("over") /\ NoRaise
       \/ \E c \in {"data", "unknown"} : Raises(c) /\ UNCHANGED told
    /\ UNCHANGED <<given, lacking, next, outcome, isolated, disk>>

\* Mutant: the sink records the ledger as it stands.
FailureSinkUnfinalized ==
    /\ stage = "sink"
    /\ RecordRun("failed", raised, IF raisedAt = "config" THEN <<>> ELSE outcome)
    /\ exit' = 1
    /\ Goto("over") /\ NoRaise
    /\ UNCHANGED <<given, lacking, next, outcome, isolated, disk>>

\* The failure sink: the ledger is completed (there is none before OpenFolders),
\* the run is recorded as failed, and main exits 1.
FailureSink ==
    /\ stage = "sink"
    /\ outcome' = IF raisedAt = "config" THEN outcome ELSE Finalized(outcome)
    /\ RecordRun("failed", raised, IF raisedAt = "config" THEN <<>> ELSE outcome')
    /\ exit' = 1
    /\ Goto("over") /\ NoRaise
    /\ UNCHANGED <<given, lacking, next, isolated, disk>>

\* Killed, or ended by Ctrl-C: no except clause catches it, nothing is recorded.
Die ==
    /\ stage # "over"
    /\ Goto("over") /\ NoRaise
    /\ UNCHANGED <<given, lacking, next, outcome, isolated, disk, told>>

-----------------------------------------------------------------------------

Next ==
    \/ CheckInputDir \/ LoadConfig \/ CheckOutputTarget \/ OpenFolders
    \/ LoadData \/ CheckRequiredInputs \/ DetermineSchoolYear
    \/ SkipEntity \/ BuildEntity \/ EmptyEntity \/ FailEntity \/ EndTransform
    \/ CheckDeliveryIntegrity \/ SaveAll \/ ArchiveStaleOutputs \/ Deliver
    \/ Finish \/ FailureSink \/ Die

Spec == Init /\ [][Next]_vars

-----------------------------------------------------------------------------
(* Properties                                                               *)

\* A file leaves the run only when every entity the night cannot go without
\* was built, or had nothing to send on a normal night; and what leaves is
\* exactly what was built.  Several gates, far apart, make it so.
OnlyAWholeNightLeaves ==
    /\ delivered \subseteq written
    /\ written # {} =>
         /\ written = BuiltSet
         /\ \A e \in Configured \ Isolatable :
               \/ e \in written
               \/ outcome[e].kind = "empty" /\ EmptyIsExpected(e, outcome[e].reason)

\* OutcomeLedger, "exactly one outcome per configured entity": a record that
\* carries outcomes carries one for every configured entity, and a successful
\* run left none of them failed or unattempted but an isolatable one.
LedgerIsComplete ==
    \A i \in 1 .. Len(logged) : logged[i].outcomes # <<>> =>
        \A e \in Configured :
            LET o == logged[i].outcomes[e] IN
            /\ o # Unset
            /\ logged[i].status = "success" =>
                 /\ o # NotRun
                 /\ o.kind = "failed" => e \in Isolatable

\* The exit-code contract: 0 is a recorded success whose delivery, if one was
\* attempted, arrived whole; 3 is a recorded success with its files on disk and
\* a delivery the record says did not complete (some files may have arrived all
\* the same); 1 is a recorded failure.
ExitCodeContract ==
    exit # -1 =>
        /\ Len(logged) = 1 /\ stored <= (IF dry THEN 0 ELSE 1)
        /\ exit = 0 => /\ logged[1].status = "success"
                       /\ attempted => delivered = written
        /\ exit = 3 => /\ logged[1].status = "success"
                       /\ written # {} /\ attempted /\ ~logged[1].ok
        /\ exit = 1 => logged[1].status = "failed"

=============================================================================
