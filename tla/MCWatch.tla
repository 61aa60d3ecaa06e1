------------------------------- MODULE MCWatch -------------------------------
(* Four days, of which the middle two are the school year, and one result   *)
(* of each kind the derivations tell apart.                                 *)
EXTENDS Watch

MCNone == {}
MCEntities == {"Students", "Family"}
MCIsolatable == {"Family"}
MCLists == [e \in MCEntities |-> {}]

Run(status, attempted, ok, outcomes) ==
    [source |-> "scheduled", status |-> status, attempted |-> attempted, ok |-> ok,
     outcomes |-> outcomes, odd |-> FALSE, dirty |-> FALSE, deliveryOnly |-> FALSE,
     district |-> "home", at |-> 0]

Out(e, kind, reason) == [entity |-> e, kind |-> kind, reason |-> reason, notes |-> {}]

MCWhole == Run("success", TRUE, TRUE, {Out("Students", "built", "none")})
MCPartial == Run("success", TRUE, TRUE, {Out("Students", "built", "none"),
                    Out("Family", "failed", "missing_source_file")})
MCFailed == Run("failed", FALSE, FALSE, {Out("Students", "not_run", "run_aborted")})
MCUnsent == Run("success", TRUE, FALSE, {Out("Students", "built", "none")})
MCResend == [Run("success", TRUE, TRUE, {}) EXCEPT !.deliveryOnly = TRUE]

Place(foreign, shared, windowOn, complete) ==
    [foreign |-> foreign, shared |-> shared, windowOn |-> windowOn, complete |-> complete]

\* Our own account, another account with its own records or with shared ones,
\* all year and with a school year, and an install still in the wizard.
MCPlaces == {Place(FALSE, FALSE, TRUE, TRUE), Place(TRUE, FALSE, TRUE, TRUE),
             Place(TRUE, TRUE, TRUE, TRUE), Place(TRUE, TRUE, FALSE, TRUE),
             Place(FALSE, FALSE, FALSE, FALSE)}

MCResults == {MCWhole, MCPartial, MCFailed, MCUnsent, MCResend}

-----------------------------------------------------------------------------
(* The season's arithmetic, over every day of a year.                       *)

YearDays == 0 .. YearLength - 1
Prefilled(start) == DefaultWindowBounds(start, [opens |-> 222, closes |-> 186])

\* What the setup screen fills in from any first day of school is a season that
\* has begun by then and pauses for a summer of five weeks, wherever the new
\* year falls.
ASSUME PrefillIsASeason == \A start \in YearDays :
    LET season == Prefilled(start)
        summer == {d \in YearDays : ~InSyncWindow(d, season.opens, season.closes)}
    IN  /\ InSyncWindow(start, season.opens, season.closes)
        /\ summer = {(season.opens - k) % YearLength : k \in 1 .. SummerGap - 1}
        /\ WindowValidFromConfig(TRUE, NoDay, NoDay, season)

\* The day a pause is said to end on is the first on which the nightly runs.
ASSUME ResumeIsTheFirstOpenDay ==
    LET year == 9
    IN  \A today, opens, closes \in 0 .. year - 1 :
          LET resume == NextResume(today, opens, year)
              IsOpen(d) == InSyncWindow(d % year, opens, closes)
          IN  ~IsOpen(today) => /\ IsOpen(resume)
                                /\ \A d \in today .. resume - 1 : ~IsOpen(d)
=============================================================================
