---------------------------- MODULE ConvertGates ----------------------------
(***************************************************************************)
(* What the Convert screen may offer and say: the pure rules of            *)
(* ui_flet/convert_output.py and ui_flet/convert_result.py, and the        *)
(* single-flight machine of ui_flet/job_runner.py. Files stand for the     *)
(* entities they hold; wording for which sentence it is.                   *)
(***************************************************************************)
EXTENDS HomeStatus

CONSTANTS
    Districts,     \* the district mappings the screen lists
    Configured,    \* configured_entity_order: the entities each one produces
    Blank          \* an empty dropdown or setting

ASSUME ConfiguredAssumption ==
    /\ Configured \in [Districts -> SUBSET Entities]
    /\ Blank \notin Districts

Identity(d, x) == [district |-> d, folder |-> x]
NoRun == Identity(Blank, Blank)

-----------------------------------------------------------------------------
(* The gates (convert_output.py).                                          *)

CanRunConvert(pick, outputSet) == pick # Blank /\ outputSet

\* Mutant: a question on the screen does not freeze the inputs.
InteractionUnfrozen(gatesOk, running, awaiting) ==
    [convert |-> ~running /\ gatesOk, inputs |-> ~running]

\* interaction_state: what is enabled.
Interaction(gatesOk, running, awaiting) ==
    [convert |-> ~running /\ gatesOk, inputs |-> ~running /\ ~awaiting]

\* ack_authorizes: an approval is spent on the run it names only.
AckAuthorizes(ack, current) == ack # NoRun /\ ack = current

\* A folder maps an entity to the file that holds it; Absent is no file.
Absent == [by |-> "nobody", rows |-> 0]

PresentIn(folder) == {e \in Entities : folder[e] # Absent}

\* deliverable_files and deliverable_manifest: the files of the folder that the
\* district's own mapping would produce.
Deliverable(d, folder) ==
    IF d = Blank THEN {} ELSE Configured[d] \cap PresentIn(folder)

StandaloneDeliver(configured, credential, files) ==
    IF ~configured \/ files = {} THEN "hidden"
    ELSE IF credential THEN "ready" ELSE "needs_credential"

ResultDeliver(offerable, configured, files, matches, credential) ==
    IF ~offerable \/ ~configured \/ files = {} THEN "hidden"
    ELSE IF ~matches THEN "district_changed"
    ELSE IF credential THEN "ready" ELSE "needs_credential"

\* ANOMALY_THRESHOLD: more than a fifth of the rows are gone.
DropsSharply(rows, previous) == 5 * rows < 4 * previous

\* compute_anomalies: a file this run would replace by one with far fewer rows,
\* or an expected one it did not produce at all. (A previous file that cannot be
\* read asks as well, and is left out.)
Anomalous(emit, rows, expected, folder) ==
    \/ \E e \in emit : DropsSharply(rows, folder[e].rows)
    \/ \E e \in expected \ emit : folder[e].rows > 0

-----------------------------------------------------------------------------
(* The verdict on the screen (convert_result.py).                          *)

FailedStatuses == {"no_input", "no_output", "incomplete_roster", "output_folder_unusable"}

SuccessShaped == {"delivered", "built_with_data_errors"}

\* _WROTE_OUTPUT (screens/convert.py), and who may still be delivered.
WroteOutput == SuccessShaped \cup {"built_not_delivered"}

\* Mutant: a file left out is no concern of the card's.
SummarizeWhole(status, outcomes) ==
    CASE status = "built_with_data_errors" -> "WARNING"
      [] status = "needs_anomaly_ack" -> "WARNING"
      [] status \in FailedStatuses \cup {"built_not_delivered"} -> "FAILED"
      [] OTHER -> "HEALTHY"

\* summarize: a file that was left out outranks a clean bill.
Summarize(status, outcomes) ==
    CASE status \in SuccessShaped /\ WarningOutcomes(outcomes) # {} -> "WARNING"
      [] status = "built_with_data_errors" -> "WARNING"
      [] status = "needs_anomaly_ack" -> "WARNING"
      [] status \in FailedStatuses \cup {"built_not_delivered"} -> "FAILED"
      [] OTHER -> "HEALTHY"

-----------------------------------------------------------------------------
(* The single-flight machine (job_runner.py).                              *)

CanStart(runner) == runner # "running"
Finished(runner, how) == IF runner = "running" THEN how ELSE runner
Reset(runner) == IF runner \in {"done", "error"} THEN "idle" ELSE runner

=============================================================================
