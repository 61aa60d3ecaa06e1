----------------------------- MODULE HomeStatus -----------------------------
(***************************************************************************)
(* What Home and Run History conclude from the run records, the settings   *)
(* and one reading of the scheduled task: the pure derivations of          *)
(* ui_flet/home_status.py, schedule_status.py, run_history.py and the      *)
(* tiers of failure_copy.py. Wording is abstracted to which sentence it is.*)
(* Times are counted in half days; Never is a timestamp that is absent.    *)
(***************************************************************************)
EXTENDS Outcomes, SyncWindow, FiniteSets

CONSTANTS
    StaleAfter,    \* STALE_AFTER_HOURS: older than this many half days is stale
    MissedAfter    \* MISSED_RUN_AFTER_HOURS, tighter

ASSUME ThresholdsAssumption ==
    StaleAfter \in Nat /\ MissedAfter \in Nat /\ MissedAfter < StaleAfter

Never == -1

-----------------------------------------------------------------------------
(* The tiers of an outcome and of a note (failure_copy.py).                *)

Worse(v, w) == LET rank == [HEALTHY |-> 0, WARNING |-> 1, FAILED |-> 2]
               IN  IF rank[w] > rank[v] THEN w ELSE v

\* The notes are told apart only by their tier: NOTE_TIER.
NoteTier == [excluded |-> "WARNING", informative |-> "HEALTHY"]

KindTier(o) ==
    CASE o.kind = "built" -> "HEALTHY"
      [] o.kind = "failed" -> "WARNING"
      [] o.kind = "not_run" -> "FAILED"
      [] OTHER -> IF EmptyIsExpected(o.entity, o.reason) THEN "HEALTHY" ELSE "WARNING"

OutcomeTier(o) ==
    IF \E n \in o.notes : NoteTier[n] = "WARNING"
      THEN Worse(KindTier(o), "WARNING") ELSE KindTier(o)

WarningOutcomes(outcomes) == {o \in outcomes : OutcomeTier(o) = "WARNING"}

\* detail_note_labels: the notes a row may carry beside its status.
DetailNotes(outcomes) ==
    {n \in UNION {o.notes : o \in outcomes} : NoteTier[n] = "HEALTHY"}

\* partial_label over _split_left_out: how many files were skipped, which notes.
PartialLabel(left) ==
    [skipped |-> Cardinality({o \in left : o.kind # "built"}),
     notes |-> {n \in UNION {o.notes : o \in {x \in left : x.kind = "built"}} :
                    NoteTier[n] = "WARNING"}]

-----------------------------------------------------------------------------
(* The records, newest first (home_status.py).                             *)

IsFailedManualAttempt(r) == r.source = "manual" /\ r.status = "failed"

VerdictRecords(records) ==
    LET Counted[i \in 0 .. Len(records)] ==
            IF i = 0 THEN <<>>
            ELSE IF IsFailedManualAttempt(records[i]) THEN Counted[i - 1]
            ELSE Append(Counted[i - 1], records[i])
    IN  Counted[Len(records)]

VerdictLatestTimestamp(records) ==
    IF VerdictRecords(records) = <<>> THEN Never ELSE VerdictRecords(records)[1].at

NoBuild == [status |-> "absent", outcomes |-> {}]

NewestSuccessfulBuild(records) ==
    LET builds == SelectSeq(records,
                      LAMBDA r : ~r.deliveryOnly /\ r.status = "success")
    IN  IF builds = <<>> THEN NoBuild ELSE builds[1]

\* build_record_for: a delivery stands for the build whose files it shipped.
BuildRecordFor(records, i) ==
    IF ~records[i].deliveryOnly THEN records[i]
    ELSE NewestSuccessfulBuild(SubSeq(records, i + 1, Len(records)))

LeftOutOutcomes(record, priorBuild) ==
    WarningOutcomes((IF record.deliveryOnly THEN priorBuild ELSE record).outcomes)

LatestReason(record, priorBuild) ==
    LET left == LeftOutOutcomes(record, priorBuild)
        onlyNotes == \A o \in left : o.kind = "built"
    IN  CASE record.status # "success" -> "failed_etl"
          [] record.status = "success" /\ record.attempted /\ ~record.ok -> "failed_delivery"
          [] OTHER ->
                IF left # {} /\ ~(record.odd /\ onlyNotes) THEN "partial"
                ELSE IF record.odd THEN "anomaly"
                ELSE IF record.dirty THEN "data_warnings" ELSE "clean"

VerdictForReason ==
    [failed_etl |-> "FAILED", failed_delivery |-> "FAILED",
     partial |-> "WARNING", anomaly |-> "WARNING",
     data_warnings |-> "WARNING", clean |-> "HEALTHY"]

LatestIsFailure(records) ==
    /\ records # <<>>
    /\ VerdictForReason[LatestReason(records[1], BuildRecordFor(records, 1))] = "FAILED"

IsStale(at, now, limit) == at # Never /\ now - at > limit

-----------------------------------------------------------------------------
(* The scheduled task as one reading shows it (schedule_status.py).        *)

CalmResults == {"ok", "never_run", "running", "unreadable"}

\* run_result_verdict over the result codes Windows and DistrictSync use.
RunResultVerdict(code) ==
    CASE code = "none" -> "unreadable"
      [] code = "zero" -> "ok"
      [] code = "one" -> "failed"
      [] code = "three" -> "delivery_failed"
      [] code = "has_not_run" -> "never_run"
      [] code = "running" -> "running"
      [] OTHER -> "unrecognised"

ReportedAProblem(result) == result \notin CalmResults

NoStatus ==
    [state |-> "unprobed", expected |-> FALSE, contradiction |-> FALSE,
     attention |-> FALSE, next |-> FALSE, foreign |-> FALSE, shared |-> FALSE,
     result |-> "unreadable", moved |-> FALSE]

\* Mutant: the task's own exit code is believed.
IsContradictionTrusting(readback, latest, foreign, shared) ==
    /\ ~(foreign /\ ~shared)
    /\ RunResultVerdict(readback.result) = "ok"
    /\ readback.lastRun # Never /\ latest # Never
    /\ readback.lastRun > latest

\* _is_contradiction: the task ran after the newest record was written.
IsContradiction(readback, latest, foreign, shared) ==
    /\ ~(foreign /\ ~shared)
    /\ readback.lastRun # Never /\ latest # Never
    /\ readback.lastRun > latest

LiveStatus(readback, latest, expected, foreign, shared, moved) ==
    LET result == RunResultVerdict(readback.result)
        gap == result # "running" /\ IsContradiction(readback, latest, foreign, shared)
    IN  [state |-> "live", expected |-> expected, contradiction |-> gap,
         attention |-> gap \/ (foreign /\ ReportedAProblem(result)),
         next |-> ~gap /\ readback.next, foreign |-> foreign, shared |-> shared,
         result |-> result, moved |-> moved]

MissingStatus(expected, foreign, shared) ==
    [NoStatus EXCEPT !.state = "missing", !.expected = expected,
                     !.attention = expected, !.foreign = foreign, !.shared = shared]

UnknownStatus(expected, foreign, shared) ==
    [NoStatus EXCEPT !.state = "unknown", !.expected = expected,
                     !.foreign = foreign, !.shared = shared]

DeriveScheduleStatus(readback, hint, latest, foreign, shared, moved) ==
    CASE readback.found = "yes" ->
            LiveStatus(readback, latest, hint, foreign, shared, moved)
      [] readback.found = "no" -> MissingStatus(hint, foreign, shared)
      [] OTHER -> UnknownStatus(hint, foreign, shared)

\* Mutant: the dot forgets the season.
NeedsSetupBadgeAllYear(status, paused, setupUnfinished) ==
    ~setupUnfinished /\ status.attention

\* The dot on the rail's Setup item.
NeedsSetupBadge(status, paused, setupUnfinished) ==
    /\ ~setupUnfinished
    /\ ~(paused /\ status.contradiction)
    /\ status.attention

ConfirmedLive(status) == status.state = "live"
ConfirmedMissing(status) == status.state = "missing"
ConfirmedGone(status) == status.state = "missing" /\ status.attention

-----------------------------------------------------------------------------
(* The season (etl/sync_window.py).                                        *)

SyncWindowPaused(cfg, today, foreign, shared) ==
    /\ ~(foreign /\ ~shared)
    /\ cfg.windowOn
    /\ ~InSyncWindow(today, cfg.opens, cfg.closes)

-----------------------------------------------------------------------------
(* Home (derive_home_status): first match wins.                            *)

\* A status, the rule it comes from, and where its button leads.
Home(verdict, why, fix) == [verdict |-> verdict, why |-> why, fix |-> fix]

ForeignRecordsElsewhere(records, now, status) ==
    /\ status.foreign /\ ~status.shared /\ status.state = "live"
    /\ records = <<>> \/ IsStale(records[1].at, now, StaleAfter)

ForeignRecordsStatus(status) ==
    IF status.attention THEN Home("WARNING", "foreign", "setup")
    ELSE Home("HEALTHY", "foreign", "none")

IsMissedRun(records, now, created, status) ==
    /\ status.state = "live"
    /\ ~(status.foreign /\ ~status.shared)
    /\ IsStale(created, now, MissedAfter)
    /\ records = <<>> \/ IsStale(records[1].at, now, MissedAfter)

\* has_earlier_run_history and empty_state_headline.
EmptyHeadline(created, failedAttemptsOnly) ==
    IF failedAttemptsOnly THEN "no_completed_runs"
    ELSE IF created # Never THEN "fresh_start" ELSE "no_runs"

ExpectsANightly(cfg, status) == ConfirmedLive(status) \/ cfg.registered

\* The newest record that counts has been found: its own failure owns the band,
\* then the season, then whose records these are, then what the record says.
HomeOverRecords(latest, paused, elsewhere, missed, now, status, reason) ==
    LET entities == {o.entity : o \in latest.outcomes}
        outcome == [e \in entities |-> CHOOSE o \in latest.outcomes : o.entity = e]
    IN  CASE reason = "failed_etl" -> Home("FAILED", reason, "run_history")
          [] reason = "failed_delivery" -> Home("FAILED", reason, "setup")
          [] OTHER ->
                IF paused THEN Home("HEALTHY", "paused", "none")
                ELSE IF elsewhere THEN ForeignRecordsStatus(status)
                ELSE IF missed THEN Home("WARNING", "missed", "run_history")
                ELSE IF reason # "clean"
                  THEN Home(VerdictForReason[reason], reason, "run_history")
                ELSE IF IsStale(latest.at, now, StaleAfter)
                  THEN Home("WARNING", "stale", "run_history")
                ELSE IF NothingToSend(entities, outcome)
                  THEN Home("HEALTHY", "nothing_to_send", "none")
                ELSE Home("HEALTHY", "healthy", "none")

DeriveHomeStatus(all, readable, cfg, now, today, created, status) ==
    LET records == VerdictRecords(all)
        failedOnly == all # <<>> /\ records = <<>>
        paused == /\ SyncWindowPaused(cfg, today, status.foreign, status.shared)
                  /\ ~ConfirmedMissing(status)
        elsewhere == ForeignRecordsElsewhere(records, now, status)
        anchor == IF created # Never THEN created ELSE cfg.registeredAt
        missed == IsMissedRun(records, now, anchor, status)
    IN  IF ~readable THEN Home("WARNING", "unavailable", "run_history")
        ELSE IF /\ status.attention /\ ~LatestIsFailure(records)
                /\ ~(paused /\ status.state = "live")
          THEN Home("WARNING", "schedule", "setup")
        ELSE IF records = <<>> THEN
            CASE paused -> Home("HEALTHY", "paused", "none")
              [] ~paused /\ elsewhere -> ForeignRecordsStatus(status)
              [] ~paused /\ ~elsewhere /\ missed -> Home("WARNING", "missed", "run_history")
              [] OTHER -> Home("WARNING", EmptyHeadline(created, failedOnly), "none")
        ELSE HomeOverRecords(records[1], paused, elsewhere, missed, now, status,
                LatestReason(records[1], BuildRecordFor(records, 1)))

\* The sentence beneath an empty state.
EmptyDetail(cfg, all, created, status) ==
    IF cfg.complete /\ ConfirmedMissing(status) THEN "no_auto_sync"
    ELSE IF all # <<>> THEN "failed_attempts_only"
    ELSE IF created # Never THEN "fresh_start"
    ELSE IF ConfirmedLive(status) /\ status.next THEN "scheduled"
    ELSE IF ExpectsANightly(cfg, status) THEN "first_sync" ELSE "no_runs_yet"

\* A failure's second clause: the schedule is gone as well.
WithScheduleNote(home, status) ==
    home.verdict = "FAILED" /\ ConfirmedGone(status)

\* welcome_band_line, above the wizard of an install that has not finished it.
WelcomeBand(all, readable, created, cfg) ==
    LET history == ~readable \/ all # <<>> \/ created # Never
    IN  IF ~history /\ ~cfg.choices THEN "fresh"
        ELSE IF history /\ readable THEN "resume_with_history"
        ELSE IF ~cfg.choices THEN "resume_plain" ELSE "resume_settings_only"

-----------------------------------------------------------------------------
(* Run History (ui_flet/run_history.py).                                   *)

HistoryOverRecords(latest, paused, elsewhere, foreign, now, reason) ==
    IF VerdictForReason[reason] = "FAILED" THEN [verdict |-> "FAILED", why |-> reason]
    ELSE IF paused THEN [verdict |-> "HEALTHY", why |-> "paused"]
    ELSE IF elsewhere THEN foreign
    ELSE IF reason # "clean" THEN [verdict |-> "WARNING", why |-> reason]
    ELSE IF IsStale(latest.at, now, StaleAfter)
      THEN [verdict |-> "WARNING", why |-> "stale"]
    ELSE [verdict |-> VerdictForReason[reason], why |-> "healthy"]

DeriveHistoryBanner(all, readable, cfg, now, today, created, status) ==
    LET records == VerdictRecords(all)
        failedOnly == all # <<>> /\ records = <<>>
        paused == /\ SyncWindowPaused(cfg, today, status.foreign, status.shared)
                  /\ ~ConfirmedMissing(status)
        elsewhere == ForeignRecordsElsewhere(records, now, status)
        foreign == [verdict |-> ForeignRecordsStatus(status).verdict, why |-> "foreign"]
    IN  IF ~readable THEN [verdict |-> "WARNING", why |-> "unavailable"]
        ELSE IF records = <<>>
          THEN IF paused THEN [verdict |-> "HEALTHY", why |-> "paused"]
               ELSE IF elsewhere THEN foreign
               ELSE [verdict |-> "WARNING", why |-> EmptyHeadline(created, failedOnly)]
        ELSE HistoryOverRecords(records[1], paused, elsewhere, foreign, now,
                LatestReason(records[1], BuildRecordFor(records, 1)))

\* The sentence beneath an empty table.
HistoryEmptyDetail(cfg, all, created, status) ==
    IF cfg.complete /\ ConfirmedMissing(status) THEN "no_auto_sync"
    ELSE IF all # <<>> THEN "failed_attempts_only"
    ELSE IF created # Never THEN "fresh_start" ELSE "first_run"

SftpDelivery(r) == IF r.ok THEN "delivered" ELSE IF r.attempted THEN "failed" ELSE "not_attempted"

\* to_run_row, _status_label: what a row of the table says.
RunRow(records, i) ==
    LET r == records[i]
        prior == BuildRecordFor(records, i)
        reason == LatestReason(r, prior)
        word == IF r.deliveryOnly THEN "delivered_saved_files"
                ELSE IF r.ok THEN "delivered" ELSE "completed"
    IN  [verdict |-> VerdictForReason[reason],
         label |-> CASE reason = "failed_etl" -> "failed"
                     [] reason = "failed_delivery" ->
                            IF r.deliveryOnly THEN "delivery_failed" ELSE "built_not_delivered"
                     [] OTHER -> word,
         sftp |-> SftpDelivery(r),
         left |-> IF reason = "partial" THEN PartialLabel(LeftOutOutcomes(r, prior))
                  ELSE PartialLabel({}),
         notes |-> IF VerdictForReason[reason] = "FAILED" THEN {}
                   ELSE DetailNotes((IF r.deliveryOnly THEN prior ELSE r).outcomes)]

=============================================================================
