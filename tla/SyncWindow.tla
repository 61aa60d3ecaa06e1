----------------------------- MODULE SyncWindow -----------------------------
(***************************************************************************)
(* The season of the nightly (etl/sync_window.py) and the window the setup *)
(* screen fills in from the first day of school (ui_flet/setup_flow.py).   *)
(* A day is a number within a year that is not a leap year.                *)
(***************************************************************************)
EXTENDS Integers

YearLength == 365

NoDay  == -1   \* never set
BadDay == -2   \* text that is no day

\* Either bound is included; a window may span the new year.
InSyncWindow(today, opens, closes) ==
    IF opens <= closes THEN opens <= today /\ today <= closes
    ELSE today >= opens \/ today <= closes

\* The next day, counted from the first of this year, the window opens on.
NextResume(today, opens, year) == IF today < opens THEN opens ELSE year + opens

StartLead == 14
SummerGap == 36

ShiftDay(day, by) == IF day < 0 THEN NoDay ELSE (day + by) % YearLength

\* start is the first day of school, or NoDay.
DefaultWindowBounds(start, fallback) ==
    LET opens == ShiftDay(start, -StartLead)
    IN  IF opens = NoDay THEN fallback
        ELSE [opens |-> opens, closes |-> ShiftDay(opens, -SummerGap)]

WindowSettingsValid(enabled, opens, closes) == enabled => opens # BadDay /\ closes # BadDay

\* A bound that was never set shows the district's own.
WindowValidFromConfig(enabled, opens, closes, prefill) ==
    WindowSettingsValid(enabled, IF opens = NoDay THEN prefill.opens ELSE opens,
                                 IF closes = NoDay THEN prefill.closes ELSE closes)
=============================================================================
