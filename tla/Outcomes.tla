------------------------------ MODULE Outcomes ------------------------------
(***************************************************************************)
(* The declarations and rules of src/etl/outcomes.py that decide, for one  *)
(* entity of a run, whether its failure or its emptiness stops the night.  *)
(***************************************************************************)
EXTENDS Sequences, Integers

CONSTANTS
    Entities,      \* every entity a configuration may enable
    Isolatable,    \* those ENTITY_CRITICALITY lists as isolatable (Family)
    MayBeEmpty,    \* MAY_BE_EMPTY (StudentAttendance)
    Anchor,        \* ROSTER_ANCHOR_ENTITY (Students)
    Files,         \* the source files of the input folder
    Lists,         \* the files each entity's mapping lists
    Optional       \* <<entity, file>> listings of the Class Information export
                   \* under a configuration that switches blended detection off

ASSUME DeclarationsAssumption ==
    /\ Isolatable \subseteq Entities
    /\ MayBeEmpty \subseteq Entities
    /\ Isolatable \cap MayBeEmpty = {}
    /\ Lists \in [Entities -> SUBSET Files]
    /\ Optional \subseteq Entities \X Files

NothingToSendReasons == {"source_files_empty", "no_source_files_declared"}

EmptyReasons == NothingToSendReasons \cup
    {"no_rows_after_transform", "required_values_missing", "missing_source_column"}

FailedReasons ==
    {"missing_source_column", "transform_error", "missing_source_file"}

Unset == [kind |-> "unset", reason |-> "none"]
Built == [kind |-> "built", reason |-> "none"]
NotRun == [kind |-> "not_run", reason |-> "run_aborted"]
Empty(reason) == [kind |-> "empty", reason |-> reason]
Failed(reason) == [kind |-> "failed", reason |-> reason]

\* VALID_REASONS, and the outcome nothing was recorded for yet.
Outcome == {Unset, Built, NotRun} \cup {Empty(x) : x \in EmptyReasons}
                \cup {Failed(x) : x \in FailedReasons}

SourceFileMayBeAbsent(e, f) == e \in Isolatable \/ <<e, f>> \in Optional

EmptyIsExpected(e, reason) ==
    e \in MayBeEmpty /\ reason \in NothingToSendReasons

StopsWhenEmpty(e, reason) == e \notin Isolatable /\ ~EmptyIsExpected(e, reason)

EveryEntityMayBeEmpty(configured) ==
    configured # {} /\ configured \subseteq MayBeEmpty

NothingToSend(configured, outcome) ==
    /\ configured # {}
    /\ \A e \in configured : outcome[e].kind = "empty"
                                 /\ EmptyIsExpected(e, outcome[e].reason)

\* apply_observation: a file that lacks mapped columns explains an empty result.
Observed(reason, lacksColumns) ==
    IF lacksColumns
         /\ reason \in {"no_rows_after_transform", "required_values_missing"}
      THEN "missing_source_column" ELSE reason

=============================================================================
