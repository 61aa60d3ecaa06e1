-------------------------------- MODULE Watch --------------------------------
(***************************************************************************)
(* Nights go by while nobody looks; then somebody opens the window. The    *)
(* ledger of runs, the scheduled task and the season move on their own; a  *)
(* screen reads the records when it is built, asks Windows about the task  *)
(* on a thread, and renders again when the answer comes (screens/home.py,  *)
(* screens/run_history.py, shell.py). A clock counts half days: an even    *)
(* one is a morning, an odd one the hour of the nightly.                   *)
(***************************************************************************)
EXTENDS HomeStatus

CONSTANTS
    Days,          \* the days watched, which are also the length of the year
    Opens, Closes, \* the school year, when the sync window is on
    MaxRuns,       \* bound on the runs that happen
    Kept,          \* bound on the records kept, newest first
    Results,       \* the ways a run ends that leaves a record: a set of records
    Places         \* the accounts and settings: a set of records

\* A run's record (build_run_record); at is the half day it was written on.
RunRecords ==
    [source : {"scheduled", "manual"}, status : {"success", "failed"},
     attempted : BOOLEAN, ok : BOOLEAN, odd : BOOLEAN, dirty : BOOLEAN,
     deliveryOnly : BOOLEAN, district : STRING, at : Nat,
     outcomes : SUBSET [entity : Entities, kind : {"built", "empty", "failed", "not_run"},
                        reason : STRING, notes : SUBSET {"excluded", "informative"}]]

\* Neither the task's command line nor the Convert screen has anything left to fail
\* at once a delivery is through (windows.py:375-397: no --diff, no --quality).
ASSUME ResultsAssumption ==
    /\ Results \subseteq RunRecords
    /\ \A r \in Results : r.ok => r.status = "success"

ASSUME PlacesAssumption ==
    Places \subseteq [foreign : BOOLEAN, shared : BOOLEAN, windowOn : BOOLEAN, complete : BOOLEAN]

ASSUME BoundsAssumption ==
    Days \in Nat \ {0} /\ MaxRuns \in Nat /\ Kept \in Nat

VARIABLES
    clock,         \* half days since the first morning
    place,         \* what never moves: the task's account and the settings
    hint,          \* AppConfig.schedule_registered and schedule_registered_at
    task,          \* the scheduled task
    ledger,        \* [created, records]: run history, newest first
    view,          \* one surface, and what it read when it was built
    runs           \* how many runs there were

vars == <<clock, place, hint, task, ledger, view, runs>>

world == <<clock, place, hint, task, ledger, runs>>

Today == (clock \div 2) % Days
Night == clock % 2 = 1
InSeason == ~place.windowOn \/ InSyncWindow(Today, Opens, Closes)

Cfg == [windowOn |-> place.windowOn, opens |-> Opens, closes |-> Closes,
        registered |-> hint # Never, registeredAt |-> hint,
        complete |-> place.complete, choices |-> place.complete]

\* The nightly's records go to another profile's history.
Elsewhere == place.foreign /\ ~place.shared

\* how: what became of the task's last run, which the code does not see.
NoTask == [there |-> FALSE, lastRun |-> Never, result |-> "has_not_run", how |-> "none"]

NoView == [screen |-> "none", readable |-> TRUE, records |-> <<>>, created |-> Never,
           phase |-> "idle", status |-> NoStatus, how |-> "none", ran |-> Never]

Init ==
    /\ clock = 0
    /\ place \in Places
    /\ hint \in {Never, 0}
    /\ task = [NoTask EXCEPT !.there = hint # Never]
    /\ ledger = [created |-> Never, records |-> <<>>]
    /\ view = NoView
    /\ runs = 0

-----------------------------------------------------------------------------
(* The world.                                                              *)

\* A started nightly ends before the next half day.
Tick ==
    /\ clock < 2 * Days - 1
    /\ task.result # "running"
    /\ clock' = clock + 1
    /\ UNCHANGED <<place, hint, task, ledger, view, runs>>

FiresNow == task.there /\ Night /\ task.lastRun # clock /\ task.result # "running"

\* store.write_run_record: the first record creates the store.
Recorded(r) ==
    ledger' = [created |-> IF ledger.created = Never THEN clock ELSE ledger.created,
               records |-> SubSeq(<<r>> \o ledger.records, 1,
                    IF Len(ledger.records) < Kept THEN Len(ledger.records) + 1 ELSE Kept)]

\* Out of season the nightly exits 0 before it records anything (main.py).
NightSkips ==
    /\ FiresNow
    /\ ~InSeason
    /\ task' = [task EXCEPT !.lastRun = clock, !.result = "zero",
                        !.how = "skipped"]
    /\ UNCHANGED <<clock, place, hint, ledger, view, runs>>

NightStarts ==
    /\ FiresNow
    /\ InSeason
    /\ runs < MaxRuns
    /\ runs' = runs + 1
    /\ task' = [task EXCEPT !.lastRun = clock, !.result = "running",
                        !.how = "none"]
    /\ UNCHANGED <<clock, place, hint, ledger, view>>

ExitCode(r) ==
    IF r.status # "success" THEN "one"
    ELSE IF r.attempted /\ ~r.ok THEN "three" ELSE "zero"

\* A nightly that comes to its end records itself, in its own account's store.
NightEnds(r) ==
    /\ task.result = "running"
    /\ ~r.deliveryOnly
    /\ task' = [task EXCEPT !.result = ExitCode(r), !.how = "recorded"]
    /\ IF Elsewhere THEN UNCHANGED ledger
       ELSE Recorded([r EXCEPT !.source = "scheduled", !.at = clock])
    /\ UNCHANGED <<clock, place, hint, view, runs>>

\* A nightly that is killed, or that dies before the pipeline's record.
NightIsKilled ==
    /\ task.result = "running"
    /\ task' = [task EXCEPT !.result = "terminated", !.how = "silent"]
    /\ UNCHANGED <<clock, place, hint, ledger, view, runs>>

\* The Convert screen, and its delivery of files saved before.
Manual(r) ==
    /\ ~Night
    /\ runs < MaxRuns
    /\ runs' = runs + 1
    /\ Recorded([r EXCEPT !.source = "manual", !.at = clock])
    /\ UNCHANGED <<clock, place, hint, task, view>>

\* Somebody deletes the task outside DistrictSync; the hint stays.
TaskVanishes ==
    /\ task.there
    /\ task' = NoTask
    /\ UNCHANGED <<clock, place, hint, ledger, view, runs>>

\* Settings: a confirmed registration replaces the task, with no run of its own.
Register ==
    /\ ~task.there
    /\ ~Night
    /\ hint' = clock
    /\ task' = [NoTask EXCEPT !.there = TRUE]
    /\ UNCHANGED <<clock, place, ledger, view, runs>>

Unregister ==
    /\ hint # Never
    /\ task.result # "running"
    /\ hint' = Never
    /\ task' = NoTask
    /\ UNCHANGED <<clock, place, ledger, view, runs>>

-----------------------------------------------------------------------------
(* The surfaces: Home, Run History and the dot on the rail. They only read, *)
(* so one at a time stands for all of them.                                *)

\* A screen reads the records and is on show before the task is asked about;
\* Run History wants the store's birth for an empty table only. Home hosts the
\* wizard, which asks about no task, until setup is complete.
Open(screen, readable) ==
    LET records == IF readable THEN ledger.records ELSE <<>>
        created == IF ~readable \/ (screen = "run_history" /\ records # <<>>)
                     THEN Never ELSE ledger.created
        wizard == screen = "home" /\ ~place.complete
    IN  /\ view.screen = "none"
        /\ view' = [NoView EXCEPT !.screen = IF wizard THEN "wizard" ELSE screen,
                !.readable = readable, !.records = records, !.created = created,
                !.phase = IF wizard THEN "idle" ELSE "asked"]
        /\ UNCHANGED world

\* What Get-ScheduledTask tells, or that it could not be asked.
Readback(answered) ==
    [found |-> IF ~answered THEN "unknown" ELSE IF task.there THEN "yes" ELSE "no",
     lastRun |-> task.lastRun, result |-> task.result, next |-> task.there]

\* The thread reads the task, and compares it with the newest record as it was
\* when the surface was built. The surface is rendered again with the answer,
\* whenever the window gets to it: what it shows is a function of view and clock.
ProbeReads(answered) ==
    /\ view.phase = "asked"
    /\ view' = [view EXCEPT !.phase = "answered",
           !.status = DeriveScheduleStatus(Readback(answered), hint # Never,
                VerdictLatestTimestamp(view.records), place.foreign, place.shared, FALSE),
           !.how = task.how, !.ran = task.lastRun]
    /\ UNCHANGED world

Leave == view.screen # "none" /\ view' = NoView /\ UNCHANGED world

ShownHome ==
    DeriveHomeStatus(view.records, view.readable, Cfg, clock, Today, view.created,
        view.status)

ShownHistory ==
    DeriveHistoryBanner(view.records, view.readable, Cfg, clock, Today, view.created,
        view.status)

ShownBand == WelcomeBand(view.records, view.readable, view.created, Cfg)

\* _refresh_setup_badge.
ShownDot ==
    NeedsSetupBadge(view.status,
        SyncWindowPaused(Cfg, Today, place.foreign, place.shared), ~place.complete)

-----------------------------------------------------------------------------
Next ==
    \/ Tick \/ NightSkips \/ NightStarts \/ NightIsKilled
    \/ \E r \in Results : NightEnds(r) \/ Manual(r)
    \/ TaskVanishes \/ Register \/ Unregister
    \/ \E screen \in {"home", "run_history", "rail"}, readable \in BOOLEAN :
           Open(screen, readable)
    \/ \E answered \in BOOLEAN : ProbeReads(answered)
    \/ Leave

Spec == Init /\ [][Next]_vars

-----------------------------------------------------------------------------
(* Properties.                                                             *)

Latest(records) == VerdictRecords(records)[1]

\* Whole: it ended, what was to be sent was sent, and nothing was left out.
Whole(records) ==
    /\ records # <<>>
    /\ records[1].status = "success"
    /\ records[1].attempted => records[1].ok
    /\ WarningOutcomes(BuildRecordFor(records, 1).outcomes) = {}

\* A green "in sync" over a task that answers is earned: the newest run that
\* counts ended whole within the missed-run window, and the task did not start
\* again after it and die without a record (_is_contradiction, _is_missed_run).
GreenIsEarned ==
    (/\ view.screen = "home" /\ view.status.state = "live" /\ ~Elsewhere
     /\ ShownHome.why = "healthy")
      => /\ Whole(VerdictRecords(view.records))
         /\ clock - Latest(view.records).at <= MissedAfter
         /\ view.how = "silent" => view.ran <= Latest(view.records).at

\* Home, Run History, the dot on the rail and the wizard's greeting never
\* contradict each other over the same facts: both screens are red together, a
\* green Home is never over a Run History that warns, a lit dot is never beside a
\* green Home - but for a paused one on which another account's task reported a
\* problem - and the row of the newest run that counts says what the banner says.
\* A schedule that is gone is told in every season and under every record,
\* as Home's headline or beneath the failure that owns it, and two empty screens
\* give the same reason.
SurfacesAgree ==
    /\ view.screen = "home" =>
        /\ (ShownHome.verdict = "FAILED") = (ShownHistory.verdict = "FAILED")
        /\ ShownHome.verdict = "HEALTHY" => ShownHistory.verdict = "HEALTHY"
        /\ ShownDot => \/ ShownHome.verdict # "HEALTHY"
                       \/ /\ ShownHome.why = "paused" /\ view.status.foreign
                          /\ ReportedAProblem(view.status.result)
        /\ (view.readable /\ VerdictRecords(view.records) # <<>>) =>
              LET row == RunRow(VerdictRecords(view.records), 1)
              IN  /\ (row.verdict = "FAILED") = (ShownHome.verdict = "FAILED")
                  /\ row.verdict = "FAILED" => row.label \notin {"completed", "delivered"}
                  /\ row.sftp = "delivered" => row.verdict # "FAILED"
        /\ (view.readable /\ ConfirmedGone(view.status)) =>
              ShownHome.why = "schedule" \/ WithScheduleNote(ShownHome, view.status)
        /\ (view.readable /\ VerdictRecords(view.records) = <<>>) =>
              LET home == EmptyDetail(Cfg, view.records, view.created, view.status)
                  table == HistoryEmptyDetail(Cfg, view.records, view.created, view.status)
              IN  home = table \/ {home, table} \subseteq {"scheduled", "first_sync",
                                                          "no_runs_yet", "first_run"}
    /\ view.screen = "wizard" /\ ShownBand = "fresh" =>
          view.readable /\ view.records = <<>>
=============================================================================
