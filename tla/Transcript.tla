----------------------------- MODULE Transcript -----------------------------
(***************************************************************************)
(* The two myBlueprint+ feeds that join several exports: StudentCourses    *)
(* (src/etl/transformers/student_courses.py), built from course history    *)
(* and course selection, and StudentAttendance (student_attendance.py),    *)
(* built from the daily and the per-period absence exports.                *)
(*                                                                         *)
(* A frame is the sequence of its rows, in file order, as records.  Marks, *)
(* codes and dates are values the two passes tell apart; titles, credits   *)
(* and the text of a date are left out.                                    *)
(***************************************************************************)
EXTENDS FrameRows, FiniteSetsExt

CONSTANTS
    Cleaned,        \* clean_course_code_flavor, as a function on raw codes
    CodeGrade,      \* course_grade of a cleaned code
    Patterned,      \* raw codes effective_course_code_patterns excludes
    MarkValue,      \* the numeric marks, as a function to their value
    PortionRule,    \* global_config.attendance.daily.portion; portions are in
                    \* units of which full_day_value is a whole number
    CategoryMap     \* <<absent code, authorized>> -> Absence Category

ASSUME PortionRuleAssumption ==
    /\ PortionRule.fullDay \in Nat \ {0}
    /\ {PortionRule.tardyRows, PortionRule.fullDayRows, PortionRule.defaultRows,
        PortionRule.upperFullDayRows, PortionRule.upperDefaultRows} \subseteq Int

NoText == ""       \* a blank cell, as _str reads it
NoDate == 0         \* a date _parse_date cannot read

-----------------------------------------------------------------------------
(* StudentCourses                                                           *)

ParseMarkPassing(mark) == mark \in DOMAIN MarkValue /\ MarkValue[mark] >= 50

\* SG and TS grant the credit of a grade 10-12 course.
StandingGrantsCredit(mark, code) == mark \in {"SG", "TS"} /\ CodeGrade[code] >= 10

HistoryCode(h) == Cleaned[IF h.full = NoText THEN h.code ELSE h.full]

HistoryIsRead(h) ==
    /\ h.code \notin Patterned
    /\ h.mark # "W"
    /\ h.student # NoText /\ h.code # NoText

IsPass(h) ==
    ParseMarkPassing(h.mark) \/ StandingGrantsCredit(h.mark, HistoryCode(h))

\* What one attempt says of (student, cleaned code), and how a further attempt
\* is folded into it.
Attempt(h) ==
    [hasPassed |-> IsPass(h), latestStart |-> h.start,
     hasNullStart |-> h.start = NoDate, isInProgress |-> ~h.completed]

MergedLastWins(meta, more) == [more EXCEPT
    !.latestStart = IF @ > meta.latestStart THEN @ ELSE meta.latestStart]

Merged(meta, more) ==
    [hasPassed |-> meta.hasPassed \/ more.hasPassed,
     latestStart |-> IF more.latestStart > meta.latestStart
                     THEN more.latestStart ELSE meta.latestStart,
     hasNullStart |-> meta.hasNullStart \/ more.hasNullStart,
     isInProgress |-> meta.isInProgress \/ more.isInProgress]

UpdateSchLookup(lookup, h) ==
    LET key == <<h.student, HistoryCode(h)>>
    IN  [k \in DOMAIN lookup \cup {key} |->
            IF k # key THEN lookup[k]
            ELSE IF key \in DOMAIN lookup THEN Merged(lookup[key], Attempt(h))
            ELSE Attempt(h)]

ReadHistory(history) == Among(history, {h \in ToSet(history) : HistoryIsRead(h)})

SchLookup(history) ==
    LET read == ReadHistory(history)
        After[n \in 0 .. Len(read)] ==
            IF n = 0 THEN <<>> ELSE UpdateSchLookup(After[n - 1], read[n])
    IN  After[Len(read)]

\* A selection is shown unless the history says the course is passed, running,
\* or was last started no earlier.
ShouldIncludeSelection(lookup, student, code, start) ==
    LET key == <<student, code>>
    IN  key \in DOMAIN lookup =>
            LET meta == lookup[key]
            IN  /\ ~meta.hasPassed /\ ~meta.isInProgress
                /\ \/ meta.hasNullStart
                   \/ start = NoDate
                   \/ start > meta.latestStart

HistoryRow(h) ==
    [student |-> h.student, code |-> HistoryCode(h), mark |-> h.mark,
     earned |-> IsPass(h), from |-> "history"]

SelectionRow(s) ==
    [student |-> s.student, code |-> Cleaned[s.code], mark |-> NoText,
     earned |-> FALSE, from |-> "selection"]

SelectionIsRead(s) ==
    s.code \notin Patterned /\ s.student # NoText /\ s.code # NoText

\* The two passes; the caller filters the result to the active roster.
StudentCoursesRows(history, selection) ==
    LET lookup == SchLookup(history)
        read == ReadHistory(history)
        shown == Among(selection,
                     {s \in ToSet(selection) :
                         /\ SelectionIsRead(s)
                         /\ ShouldIncludeSelection(lookup, s.student,
                                                   Cleaned[s.code], s.start)})
    IN  [i \in DOMAIN read |-> HistoryRow(read[i])]
            \o [i \in DOMAIN shown |-> SelectionRow(shown[i])]

-----------------------------------------------------------------------------
(* StudentAttendance                                                        *)

\* _is_upper_grade: kindergarten and a grade below upper_grade_from take the
\* K-7 rows, and so does a student with no grade (0 here).
IsUpperGrade(grade) == grade >= PortionRule.upperGradeFrom

Clamped(n, low, high) == IF n < low THEN low ELSE IF n > high THEN high ELSE n

UpperPartialRows(portion) ==
    Clamped((2 * portion * PortionRule.upperFullDayRows + PortionRule.fullDay)
                \div (2 * PortionRule.fullDay),
            1, PortionRule.upperFullDayRows - 1)

DeriveRowCount(code, portion, upper) ==
    CASE code = PortionRule.tardyCode -> PortionRule.tardyRows
      [] code # PortionRule.tardyCode /\ ~upper ->
            IF portion = PortionRule.fullDay THEN PortionRule.fullDayRows
            ELSE PortionRule.defaultRows
      [] code # PortionRule.tardyCode /\ upper ->
            IF portion = PortionRule.fullDay THEN PortionRule.upperFullDayRows
            ELSE IF portion > 0 /\ portion < PortionRule.fullDay
              THEN UpperPartialRows(portion)
            ELSE PortionRule.upperDefaultRows

DailyIsRead(d) == d.code # NoText

\* A pair the category map does not know fails the entity.
UnknownCategory(daily) ==
    \E i \in DOMAIN daily :
        /\ DailyIsRead(daily[i])
        /\ <<daily[i].code, daily[i].authorized>> \notin DOMAIN CategoryMap

DailyRow(d) ==
    [school |-> d.school, day |-> d.day, student |-> d.student,
     category |-> CategoryMap[<<d.code, d.authorized>>]]

RowCount(d) == DeriveRowCount(d.code, d.portion, IsUpperGrade(d.grade))

Copies(d) == [n \in 1 .. RowCount(d) |-> DailyRow(d)]

BuildDailyRows(daily) ==
    LET read == Among(daily, {d \in ToSet(daily) : DailyIsRead(d)})
    IN  FlattenSeq([i \in DOMAIN read |-> Copies(read[i])])

PeriodIsRead(p) == p.category # NoText /\ p.student # NoText

StudentDay(row) == <<row.school, row.day, row.student>>

\* suppress_overlapping_period_rows: a day the daily band EMITTED is its own.
ClaimedFromExport(daily, dailyRows) == {StudentDay(daily[i]) : i \in DOMAIN daily}

Claimed(daily, dailyRows) == {StudentDay(dailyRows[i]) : i \in DOMAIN dailyRows}

BuildPeriodRows(period) ==
    LET read == Among(period, {p \in ToSet(period) : PeriodIsRead(p)})
    IN  [i \in DOMAIN read |->
            [school |-> read[i].school, day |-> read[i].day,
             student |-> read[i].student, category |-> read[i].category]]

StudentAttendanceRows(daily, period) ==
    LET dailyRows == BuildDailyRows(daily)
        periodRows == BuildPeriodRows(period)
    IN  dailyRows \o Among(periodRows,
                           {row \in ToSet(periodRows) :
                               StudentDay(row) \notin Claimed(daily, dailyRows)})

=============================================================================
