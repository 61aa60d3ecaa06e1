------------------------------ MODULE MCRoster ------------------------------
(***************************************************************************)
(* Instances of Roster: folders that vary one or two exports at a time     *)
(* around a small roster of two students (a, b) and two teachers (t, u).   *)
(***************************************************************************)
EXTENDS Roster

MCEntities == {"Students", "Staff", "Family", "Classes", "Enrollments",
               "StudentCourses", "StudentAttendance"}
\* The source files, by the field that holds their rows.
MCFiles == {"demos", "staff", "contacts", "schedule", "info", "history",
            "selection", "daily", "period"}
MCLists ==
    [Students |-> {"demos"}, Staff |-> {"staff"}, Family |-> {"contacts"},
     Classes |-> {"schedule", "info", "demos"}, Enrollments |-> {"schedule", "demos"},
     StudentCourses |-> {"history", "selection"},
     StudentAttendance |-> {"daily", "period"}]

\* 1 and 2 are homeroom grades, the others are on the timetable.
MCGrades == {1, 2, 9, 10, Ungraded}
MCKeyOrder == <<<<"S", "t", "p">>, <<"S", "t", "q">>, <<"S", "u", "p">>>>

MCCleaned == [c \in {"MA10", "MA10-F", "MA08"} |->
                 IF c = "MA10-F" THEN "MA10" ELSE c]
MCCodeGrade == [c \in {"MA10", "MA08"} |-> IF c = "MA10" THEN 10 ELSE 8]
MCPatterned == {"MA08"}
MCMarkValue == [m \in {"49", "50"} |-> IF m = "49" THEN 49 ELSE 50]
\* The shipped rule; a portion is in tenths of a day.
MCPortionRule ==
    [fullDay |-> 10, fullDayRows |-> 2, tardyCode |-> "T", tardyRows |-> 1,
     defaultRows |-> 1, upperGradeFrom |-> 8, upperFullDayRows |-> 4,
     upperDefaultRows |-> 2]
MCCategoryMap ==
    [p \in {<<"A", "N">>, <<"A", "Y">>, <<"T", "N">>, <<"T", "Y">>} |->
        p[1] \o p[2]]

\* The rows of a pool at a set of positions, in file order.
Picked(pool, n) ==
    {LET at == SetToSortSeq(I, LAMBDA i, j : i < j)
     IN  [i \in DOMAIN at |-> pool[at[i]]] :
        I \in {J \in SUBSET DOMAIN pool : J # {} /\ Cardinality(J) <= n}}

Ordered(pool, n) == SeqOf(ToSet(pool), n) \ {<<>>}

Demo(student, school, homeroom, grade, teacher) ==
    [student |-> student, school |-> school, home |-> "S", homeroom |-> homeroom,
     grade |-> grade, teacher |-> teacher, status |-> "Active",
     withdraw |-> "none", whole |-> TRUE]

Demos == <<Demo("a", "S", "1A", 1, "t"), Demo("a", "R", "9A", 9, "u"),
           Demo("a", "", "1A", 1, "t"), Demo("b", "S", "1A", 2, "u"),
           [Demo("b", "S", "1A", 1, "t") EXCEPT !.status = "", !.withdraw = "past"],
           [Demo("b", "S", "9A", 9, "") EXCEPT !.whole = FALSE],
           [Demo("b", "R", "9A", 9, "t") EXCEPT !.status = "Withdrawn"]>>

Member(teacher, status, role, whole) ==
    [teacher |-> teacher, status |-> status, role |-> role, whole |-> whole]

Staff == <<Member("t", "active", "teacher", TRUE), Member("t", "active", "teacher", FALSE),
           Member("u", "inactive", "teacher", TRUE), Member("u", "active", "", FALSE),
           Member("t", "?", "", TRUE)>>

Row(student, section, grade, teacher) ==
    [student |-> student, school |-> "S", section |-> section, grade |-> grade,
     stated |-> TRUE, teacher |-> teacher, code |-> "M"]

Schedule == <<Row("a", "m1", 9, "t"), Row("b", "m1", 10, "t"), Row("a", "m2", 10, "u"),
              Row("b", "m2", 2, "t"), Row("c", "m1", 1, "t"),
              [Row("a", "m3", Ungraded, "") EXCEPT !.stated = FALSE],
              [Row("b", "m3", Ungraded, "u") EXCEPT !.school = ""],
              [Row("b", "m3", 9, "t") EXCEPT !.code = "X"]>>

Course(section, teacher, slot, primary) ==
    [section |-> section, school |-> "S", teacher |-> teacher, slot |-> slot,
     primary |-> primary, letter |-> "1A", code |-> "M"]

Info == <<Course("m1", "t", "p", TRUE), Course("m2", "t", "p", FALSE),
          Course("m2", "u", "p", TRUE), Course("m3", "t", "q", TRUE),
          Course("m3", "t", "p", FALSE), Course("m1", "", "p", TRUE)>>

Contact(student, email, whole) ==
    [student |-> student, email |-> email, guardian |-> TRUE, whole |-> whole]

Contacts == <<Contact("a", TRUE, TRUE), Contact("a", FALSE, TRUE),
              Contact("c", TRUE, TRUE), Contact("b", TRUE, FALSE),
              [Contact("b", TRUE, TRUE) EXCEPT !.guardian = FALSE]>>

Taken(code, full, mark, start, completed) ==
    [student |-> "a", code |-> code, full |-> full, mark |-> mark,
     start |-> start, completed |-> completed]

History == <<Taken("MA10", "", "49", 1, TRUE), Taken("MA10", "MA10-F", "50", 2, TRUE),
             Taken("MA10", "", "SG", 0, TRUE), Taken("MA10", "", "W", 2, FALSE),
             Taken("MA10", "", "49", 3, TRUE), Taken("MA10", "", "", 1, FALSE),
             Taken("MA10", "", "49", 0, TRUE), Taken("MA08", "", "50", 1, TRUE)>>

Selection == <<[student |-> "a", code |-> "MA10", start |-> 0],
               [student |-> "a", code |-> "MA10-F", start |-> 2],
               [student |-> "b", code |-> "MA10", start |-> 1],
               [student |-> "c", code |-> "MA10", start |-> 1],
               [student |-> "", code |-> "MA08", start |-> 1]>>

Absence(student, code, authorized, portion, grade) ==
    [student |-> student, school |-> "S", day |-> 1, code |-> code,
     authorized |-> authorized, portion |-> portion, grade |-> grade]

Daily == <<Absence("a", "A", "N", 10, 1), Absence("a", "A", "Y", 5, 1),
           Absence("a", "", "N", 10, 1), Absence("a", "A", "N", 1, 9),
           Absence("a", "A", "N", 10, 9), Absence("a", "A", "N", 9, 9),
           Absence("a", "A", "N", 0, 9), Absence("a", "T", "Y", 5, 9),
           Absence("a", "Z", "N", 5, 9), Absence("b", "A", "N", 10, 0)>>

Missed(student, day, category) ==
    [student |-> student, school |-> "S", day |-> day, category |-> category]

Period == <<Missed("a", 1, "A"), Missed("a", 1, "L"), Missed("a", 2, "A"),
            Missed("b", 1, ""), Missed("", 1, "A")>>

-----------------------------------------------------------------------------
RosterOrder == <<"Students", "Staff", "Family", "Classes", "Enrollments">>

Full == [order |-> RosterOrder, studentScope |-> Unrestricted,
         classScope |-> Unrestricted, homeroom |-> {1, 2}, collapse |-> TRUE,
         blended |-> TRUE, excludedCodes |-> {"X"}]
Scope(grades) == [given |-> TRUE, grades |-> grades]
Scoped == [Full EXCEPT !.studentScope = Scope({1, 2, 9}), !.collapse = FALSE]
Narrow == [Full EXCEPT !.classScope = Scope({1, 10})]
Unblended == [Full EXCEPT !.blended = FALSE]
Feeds == [Full EXCEPT !.order = <<"Students", "StudentCourses", "StudentAttendance">>]
CoursesOnly == [Full EXCEPT !.order = <<"StudentCourses">>]
\* Hand-written orders that leave out what Enrollments depends on.
Partial == {[Full EXCEPT !.order = <<"Students", "Staff", "Enrollments">>],
            [Full EXCEPT !.order = <<"Staff", "Classes", "Enrollments">>]}

Folder ==
    [demos |-> <<Demo("a", "S", "9A", 9, "t"), Demo("b", "S", "1A", 1, "t")>>,
     schedule |-> <<Schedule[1], Row("b", "m4", 10, "t"), Schedule[3]>>,
     info |-> <<Info[1], Info[2]>>,
     staff |-> <<Staff[1], Member("u", "active", "teacher", TRUE)>>,
     contacts |-> <<Contacts[1]>>,
     history |-> <<>>, selection |-> <<>>, daily |-> <<>>, period |-> <<>>,
     statusColumn |-> TRUE, withdrawColumn |-> TRUE, staffStatusColumn |-> TRUE,
     courses |-> TRUE, misshapen |-> {}]

PeopleFolders ==
    {[Folder EXCEPT !.demos = d, !.staff = s, !.statusColumn = c, !.withdrawColumn = w] :
        d \in Picked(Demos, 2), s \in Picked(Staff, 2), c, w \in BOOLEAN}

TimetableFolders ==
    {[Folder EXCEPT !.schedule = s, !.info = i] :
        s \in Picked(Schedule, 3), i \in Picked(Info, 3)}

ContactFolders ==
    {[Folder EXCEPT !.contacts = c, !.staffStatusColumn = FALSE, !.courses = FALSE] :
        c \in Picked(Contacts, 3)}

\* Exports that came without a needed column, or with no row.
BrokenFolders ==
    {[Folder EXCEPT !.misshapen = {e}] : e \in MCEntities}
    \cup {[Folder EXCEPT !.contacts = <<>>], [Folder EXCEPT !.demos = <<>>],
          [Folder EXCEPT !.schedule = <<>>, !.info = <<>>]}

FeedFolders ==
    {[Folder EXCEPT !.history = h, !.selection = s] :
        h \in Ordered(History, 2), s \in Picked(Selection, 2)}
    \cup {[Folder EXCEPT !.history = <<History[1]>>, !.daily = d, !.period = p] :
             d \in Picked(Daily, 2), p \in Picked(Period, 3) \cup {<<>>}}

Under(configs, folders) ==
    {[config |-> c, extract |-> x] : c \in configs, x \in folders}

MCCases ==
    Under({Full, Scoped}, PeopleFolders)
    \cup Under({Full, Scoped, Narrow, Unblended}, TimetableFolders)
    \cup Under({Full}, ContactFolders \cup BrokenFolders)
    \cup Under({[Full EXCEPT !.order = <<"Family">>]}, BrokenFolders)
    \cup Under({Feeds, CoursesOnly}, FeedFolders)
    \cup Under(Partial, {Folder} \cup ContactFolders)

=============================================================================
