------------------------------- MODULE Roster -------------------------------
(***************************************************************************)
(* What run_transform does with the rows of one extract                    *)
(* (src/etl/pipeline.py, src/etl/transformer.py and src/etl/transformers): *)
(* the entities are built one after the other, each reads what the earlier *)
(* ones published on the shared context, and a critical entity that comes  *)
(* out with no rows stops the night.                                       *)
(*                                                                         *)
(* A frame is the sequence of its rows.  A row keeps its keys, its grade   *)
(* and whether the remaining required values are there (`whole`); names,   *)
(* e-mail addresses and dates are left out.                                *)
(***************************************************************************)
EXTENDS Outcomes, Blended, Transcript

CONSTANTS
    Grades,     \* the CEDS grade codes, Ungraded among them
    Cases       \* district configurations with the contents of an input folder

\* What an entity reads of another: its publications on the context.
DependsOn ==
    {<<"Enrollments", "Classes">>, <<"Enrollments", "Students">>,
     <<"Enrollments", "Staff">>, <<"Classes", "Students">>,
     <<"Family", "Students">>, <<"StudentCourses", "Students">>}

\* configured_entity_order names an entity once, and the configurations run it
\* after those it depends on.
InOrder(order) ==
    /\ order \in Seq(Entities)
    /\ \A i, j \in DOMAIN order :
          /\ order[i] = order[j] => i = j
          /\ <<order[i], order[j]>> \in DependsOn => j < i

ASSUME CasesAssumption == \A c \in Cases :
    /\ InOrder(c.config.order)
    /\ IsFrame(c.extract.demos) /\ IsFrame(c.extract.staff)
    /\ IsFrame(c.extract.contacts)
    /\ IsFrame(c.extract.schedule) /\ IsFrame(c.extract.info)
    /\ IsFrame(c.extract.history) /\ IsFrame(c.extract.selection)
    /\ IsFrame(c.extract.daily) /\ IsFrame(c.extract.period)
    /\ \A h \in ToSet(c.extract.history) \cup ToSet(c.extract.selection) :
          h.start \in Nat
    /\ \A d \in ToSet(c.extract.daily) : d.portion \in Int

VARIABLES
    config,
    extract,
    loop,       \* "running", "built" or "stopped"
    position,   \* where in entity_order the loop is
    context,    \* the TransformContext
    output,     \* the frame of each entity built
    ledger      \* the OutcomeLedger

rosterVars == <<config, extract, loop, position, context, output, ledger>>

NoArtifacts == [published |-> FALSE, homerooms |-> <<>>, info |-> <<>>,
                classMap |-> <<>>, teachers |-> <<>>]

Unrestricted == [given |-> FALSE, grades |-> {}]

RosterInit ==
    /\ \E c \in Cases : config = c.config /\ extract = c.extract
    /\ loop = "running" /\ position = 1
    /\ context = [active |-> {}, leftOutStaff |-> {}, leftOutClasses |-> {},
                  artifacts |-> NoArtifacts, notes |-> {}, dataErrors |-> {}]
    /\ output = <<>>
    /\ ledger = [e \in Entities |-> Unset]

-----------------------------------------------------------------------------
(* Rules every transformer shares                                           *)

\* The ids of the rows left out, none of whose other rows ships.
LeftOutIdsOfAnyRow(leftOut, shipped) == leftOut

LeftOutIds(leftOut, shipped) == leftOut \ shipped

NoteIf(condition, entity, note) == IF condition THEN {<<entity, note>>} ELSE {}

LeftOutNote(entity, rows, kept) ==
    NoteIf(rows # kept, entity, "excluded_required_value")

\* filter_to_active: without a roster every row is kept, and a note says so.
FilterToActive(rows) ==
    IF context.active = {} THEN rows
    ELSE Among(rows, {row \in ToSet(rows) : row.student \in context.active})

UnfilteredNote(entity, rows) ==
    NoteIf(context.active = {} /\ rows # <<>>, entity, "active_roster_unavailable")

\* filter_excluded_course_codes
NotExcluded(row) == row.code \notin config.excludedCodes

\* resolve_timetable_scope and timetable_rostered_grades
TimetableScope ==
    IF config.classScope.given
      THEN [given |-> TRUE, grades |-> config.classScope.grades \ config.homeroom]
    ELSE IF config.studentScope.given
      THEN [given |-> TRUE, grades |-> config.studentScope.grades \ config.homeroom]
    ELSE Unrestricted

Rostered == IF TimetableScope.given THEN TimetableScope.grades
            ELSE Grades \ config.homeroom

-----------------------------------------------------------------------------
(* The loop of run_transform                                                *)

Turn(e) ==
    /\ loop = "running" /\ position <= Len(config.order)
    /\ config.order[position] = e

RestNotRun(o) ==
    [e \in Entities |->
        IF \E j \in position + 1 .. Len(config.order) : config.order[j] = e
          THEN NotRun ELSE o[e]]

\* record_empty: an empty output the night cannot go without stops it.
EmptyTurn(e, reason) ==
    /\ output' = output
    /\ IF StopsWhenEmpty(e, reason)
         THEN /\ ledger' = RestNotRun([ledger EXCEPT ![e] = Empty(reason)])
              /\ loop' = "stopped" /\ position' = position
         ELSE /\ ledger' = [ledger EXCEPT ![e] = Empty(reason)]
              /\ loop' = loop /\ position' = position + 1

LeftOut(e, published) ==
    \/ <<e, "excluded_required_value">> \in published.notes
    \/ <<e, "excluded_no_email">> \in published.notes

\* The transform of e returned rows, and published on the context.
Transformed(e, rows, published) ==
    /\ context' = published
    /\ \/ /\ rows # <<>>
          /\ output' = [x \in DOMAIN output \cup {e} |->
                          IF x = e THEN rows ELSE output[x]]
          /\ ledger' = [ledger EXCEPT ![e] = Built]
          /\ position' = position + 1 /\ loop' = loop
       \/ /\ rows = <<>>
          /\ EmptyTurn(e, IF LeftOut(e, published) THEN "required_values_missing"
                            ELSE "no_rows_after_transform")
    /\ UNCHANGED <<config, extract>>

\* The exception of an entity: a critical one ends the run, an isolatable one
\* takes back only the data errors it recorded.
Raised(e, reason) ==
    /\ IF e \in Isolatable
         THEN /\ ledger' = [ledger EXCEPT ![e] = Failed(reason)]
              /\ loop' = loop /\ position' = position + 1
         ELSE /\ ledger' = RestNotRun([ledger EXCEPT ![e] = Failed(reason)])
              /\ loop' = "stopped" /\ position' = position
    /\ UNCHANGED <<config, extract, context, output>>

\* One of its files holds a row.
HasRows(e) == \E f \in Lists[e] : extract[f] # <<>>

\* Its mapping lists no file, or its files hold no row at all.
SourcesEmpty == \E e \in Entities :
    /\ Turn(e) /\ ~HasRows(e)
    /\ EmptyTurn(e, IF Lists[e] = {} THEN "no_source_files_declared"
                      ELSE "source_files_empty")
    /\ UNCHANGED <<config, extract, context>>

\* A guard of require_columns: an export came without a column e needs.
EntityRaises == \E e \in Entities :
    /\ Turn(e) /\ HasRows(e) /\ e \in extract.misshapen
    /\ Raised(e, "missing_source_column")

Transforms(e) == Turn(e) /\ HasRows(e) /\ e \notin extract.misshapen

-----------------------------------------------------------------------------
(* Students                                                                 *)

\* decide_enroll_status: the status column, else the withdraw date, else all.
ActiveStatus(d) ==
    IF extract.statusColumn /\ d.status # "" THEN d.status = "Active"
    ELSE IF extract.withdrawColumn THEN d.withdraw \in {"none", "future"}
    ELSE TRUE

ActiveStatusNotes(rows) ==
    NoteIf(~extract.statusColumn /\ ~extract.withdrawColumn /\ rows # <<>>,
           "Students", "all_active_default")

AtHome(d) == d.school = d.home

\* One row per student, the home school's when there is one.
CollapseCrossEnrollment(rows) ==
    IF ~config.collapse THEN rows
    ELSE LET home == {d \in ToSet(rows) : AtHome(d)}
         IN  DropDuplicates(Among(rows, home) \o Among(rows, ToSet(rows) \ home),
                            {"student"})

FilterToRosteredGrades(rows) ==
    IF config.studentScope.given
      THEN Among(rows, {d \in ToSet(rows) : d.grade \in config.studentScope.grades})
    ELSE rows

StudentIsWhole(d) == d.whole /\ ~IsBlank(d.student) /\ ~IsBlank(d.school)

StudentRows ==
    FilterToRosteredGrades(CollapseCrossEnrollment(
        Among(extract.demos, {d \in ToSet(extract.demos) : ActiveStatus(d)})))

\* The roster the later entities are filtered to: the students who ship.
ActiveStudentIds(rows, kept) == {d.student : d \in ToSet(kept)}

BuildStudents ==
    /\ Transforms("Students")
    /\ LET rows == StudentRows
           kept == Among(rows, {d \in ToSet(rows) : StudentIsWhole(d)})
       IN  Transformed("Students", kept,
               [context EXCEPT
                   !.active = ActiveStudentIds(rows, kept),
                   !.notes = @ \cup ActiveStatusNotes(extract.demos)
                               \cup LeftOutNote("Students", rows, kept)])

-----------------------------------------------------------------------------
(* Staff                                                                    *)

KnownStatuses == {"active", "inactive", ""}

\* filter_departed_staff: what the status column cannot say filters nobody out.
StaffStatusFault ==
    IF ~extract.staffStatusColumn THEN "staff_status_column_absent"
    ELSE IF \E i \in DOMAIN extract.staff : extract.staff[i].status \notin KnownStatuses
      THEN "staff_status_vocabulary_unrecognised"
    ELSE IF \A i \in DOMAIN extract.staff : extract.staff[i].status # "active"
      THEN "staff_filter_would_empty"
    ELSE "none"

PresentStaff ==
    IF StaffStatusFault # "none" THEN extract.staff
    ELSE Among(extract.staff, {s \in ToSet(extract.staff) : s.status = "active"})

\* _teacher_of_record_ids: whoever a teaching source names, unfiltered.
TeachersOfRecord ==
    {id \in {r.teacher : r \in ToSet(extract.schedule) \cup ToSet(extract.info)
                                  \cup ToSet(extract.demos)} : ~IsBlank(id)}

\* A row without a role ships as a teacher of record, or not at all.
HasRole(s) == s.role \in {"teacher", "administrator"} \/ s.teacher \in TeachersOfRecord

StaffIsWhole(s) == s.whole /\ ~IsBlank(s.teacher)

BuildStaff ==
    /\ Transforms("Staff")
    /\ LET rows == Among(PresentStaff, {s \in ToSet(PresentStaff) : HasRole(s)})
           kept == Among(rows, {s \in ToSet(rows) : StaffIsWhole(s)})
       IN  Transformed("Staff", kept,
               [context EXCEPT
                   !.leftOutStaff = LeftOutIds({s.teacher : s \in ToSet(rows) \ ToSet(kept)},
                                               {s.teacher : s \in ToSet(kept)}),
                   !.notes = @ \cup NoteIf(StaffStatusFault # "none", "Staff",
                                           StaffStatusFault)
                               \cup LeftOutNote("Staff", rows, kept)])

-----------------------------------------------------------------------------
(* Family                                                                   *)

ContactIsWhole(c) == c.whole /\ ~IsBlank(c.student)

BuildFamily ==
    /\ Transforms("Family")
    /\ LET guardians == Among(extract.contacts,
                              {c \in ToSet(extract.contacts) : c.guardian})
           reached == FilterToActive(guardians)
           mailed == Among(reached, {c \in ToSet(reached) : c.email})
           kept == Among(mailed, {c \in ToSet(mailed) : ContactIsWhole(c)})
       IN  Transformed("Family", kept,
               [context EXCEPT
                   !.notes = @ \cup UnfilteredNote("Family", guardians)
                               \cup NoteIf(reached # mailed, "Family",
                                           "excluded_no_email")
                               \cup LeftOutNote("Family", mailed, kept)])

-----------------------------------------------------------------------------
(* Classes                                                                  *)

InHomeroomGrades(d) == d.grade \in config.homeroom

HomeroomStudents ==
    Among(extract.demos, {d \in ToSet(extract.demos) : InHomeroomGrades(d)})

\* _create_homeroom_classes: one entry per school, homeroom and teacher; two
\* teachers of one homeroom share its Class ID, which is reported.
Homerooms ==
    LET students == FilterToActive(HomeroomStudents)
        unique == DropDuplicates(students, {"school", "homeroom", "teacher"})
    IN  [i \in DOMAIN unique |->
            [school |-> unique[i].school, homeroom |-> unique[i].homeroom,
             teacher |-> unique[i].teacher,
             class |-> HomeroomId(unique[i].school, unique[i].homeroom)]]

HomeroomIdCollision(homerooms) ==
    \E i, j \in DOMAIN homerooms : i # j /\ homerooms[i].class = homerooms[j].class

\* assign_class_ids: the blend the section belongs to, else the section itself.
ClassIdOf(section, classMap) ==
    IF section \in DOMAIN classMap THEN classMap[section] ELSE SectionId(section)

\* The schedule rows of the timetable side.
TimetableRows ==
    Among(extract.schedule,
          {r \in ToSet(extract.schedule) : NotExcluded(r) /\ r.grade \in Rostered})

SubjectClasses(classMap) ==
    LET rows == TimetableRows
    IN  [i \in DOMAIN rows |->
            [class |-> ClassIdOf(rows[i].section, classMap), school |-> rows[i].school]]

\* _emit_missing_blended_classes: a registered blend is always a class.
RegisteredKeys(teachers) ==
    RowsAt(KeyOrder, {i \in DOMAIN KeyOrder : BlendedId(KeyOrder[i]) \in DOMAIN teachers})

BlendedClasses(teachers) ==
    LET keys == RegisteredKeys(teachers)
    IN  [i \in DOMAIN keys |-> [class |-> BlendedId(keys[i]), school |-> keys[i][1]]]

HomeroomClasses(homerooms) ==
    [i \in DOMAIN homerooms |->
        [class |-> homerooms[i].class, school |-> homerooms[i].school]]

ClassIsWhole(c) == ~IsBlank(c.school)

ClassInfo == Among(extract.info, {r \in ToSet(extract.info) : NotExcluded(r)})

ScheduledRows ==
    Among(extract.schedule, {r \in ToSet(extract.schedule) : NotExcluded(r)})

BlendDetection ==
    IF config.blended
      THEN Detect(ClassInfo, ScheduledRows, extract.courses, Rostered)
      ELSE NoBlends

ClassRows(homerooms, blends) ==
    DropDuplicates(HomeroomClasses(homerooms) \o SubjectClasses(blends.classMap)
                       \o BlendedClasses(blends.teachers),
                   {"class"})

BuildClasses ==
    /\ Transforms("Classes")
    /\ LET homerooms == Homerooms
           blends == BlendDetection
           rows == ClassRows(homerooms, blends)
           kept == Among(rows, {c \in ToSet(rows) : ClassIsWhole(c)})
       IN  Transformed("Classes", kept,
               [context EXCEPT
                   !.artifacts = [published |-> TRUE, homerooms |-> homerooms,
                                  info |-> ClassInfo, classMap |-> blends.classMap,
                                  teachers |-> blends.teachers],
                   !.leftOutClasses = LeftOutIds({c.class : c \in ToSet(rows) \ ToSet(kept)},
                                                 {c.class : c \in ToSet(kept)}),
                   !.dataErrors = @ \cup (IF HomeroomIdCollision(homerooms)
                                          THEN {"Classes"} ELSE {}),
                   !.notes = @ \cup UnfilteredNote("Classes", extract.demos)
                               \cup LeftOutNote("Classes", rows, kept)])

-----------------------------------------------------------------------------
(* Enrollments                                                              *)

Enrollment(class, user, role, school) ==
    [class |-> class, user |-> user, role |-> role, school |-> school]

\* clean_invalid_ids
Identified(rows) == Among(rows, {row \in ToSet(rows) : ~IsBlank(row.user)})

RoomEntries(school, homeroom, entries) ==
    Among(entries, {h \in ToSet(entries) : h.school = school /\ h.homeroom = homeroom})

\* _homeroom_enrollments: every homeroom-grade student meets the entries of
\* their school and homeroom; the first entry gives the class its teacher.
HomeroomMeetings ==
    LET students == HomeroomStudents
    IN  FlattenSeq([i \in DOMAIN students |->
            LET own == RoomEntries(students[i].school, students[i].homeroom,
                                   context.artifacts.homerooms)
            IN  [j \in DOMAIN own |-> [student |-> students[i].student,
                                       teacher |-> own[j].teacher,
                                       class |-> own[j].class,
                                       school |-> students[i].school]]])

HomeroomEnrollments ==
    LET students == FilterToActive(HomeroomMeetings)
        led == DropDuplicates(HomeroomMeetings, {"class"})
    IN  [i \in DOMAIN students |->
            Enrollment(students[i].class, students[i].student, "student", students[i].school)]
        \o Identified([i \in DOMAIN led |->
               Enrollment(led[i].class, led[i].teacher, "teacher", led[i].school)])

BlendedTeacherEnrollments ==
    LET teachers == context.artifacts.teachers
        keys == RegisteredKeys(teachers)
    IN  FlattenSeq([i \in DOMAIN keys |->
            LET own == teachers[BlendedId(keys[i])]
            IN  [j \in DOMAIN own |->
                    Enrollment(BlendedId(keys[i]), own[j], "teacher", keys[i][1])]])

\* _subject_enrollments: the students of a section, its teacher unless the
\* section is blended, and the teachers of every blend.
SubjectEnrollments ==
    LET map == context.artifacts.classMap
        students == FilterToActive(TimetableRows)
        taught == Among(TimetableRows,
                        {r \in ToSet(TimetableRows) : ClassIdOf(r.section, map)
                             \notin DOMAIN context.artifacts.teachers})
    IN  IF TimetableRows = <<>> THEN <<>>
        ELSE [i \in DOMAIN students |->
                 Enrollment(ClassIdOf(students[i].section, map), students[i].student,
                            "student", students[i].school)]
             \o BlendedTeacherEnrollments
             \o Identified([i \in DOMAIN taught |->
                    Enrollment(ClassIdOf(taught[i].section, map), taught[i].teacher,
                               "teacher", taught[i].school)])

\* _classinfo_coteacher_enrollments: a primary teacher of Class Information
\* joins the homeroom of that section letter, and the blend of that section.
CoteacherEnrollments ==
    LET map == context.artifacts.classMap
        rows == Among(context.artifacts.info,
                      {r \in ToSet(context.artifacts.info) : r.primary})
        rooms == DropDuplicates(context.artifacts.homerooms,
                                {"school", "homeroom"})
        Joins(r, class) == Enrollment(class, r.teacher, "teacher", r.school)
        byLetter == FlattenSeq([i \in DOMAIN rows |->
            LET own == RoomEntries(rows[i].school, rows[i].letter, rooms)
            IN  [j \in DOMAIN own |-> Joins(rows[i], own[j].class)]])
        mapped == Among(rows, {r \in ToSet(rows) : r.section \in DOMAIN map})
        bySection == [i \in DOMAIN mapped |-> Joins(mapped[i], map[mapped[i].section])]
    IN  Identified(byLetter \o bySection)

EnrollmentUnion ==
    DropDuplicates(HomeroomEnrollments \o SubjectEnrollments \o CoteacherEnrollments,
                   {"class", "user", "role"})

\* _leave_out_orphans_of_left_out_rows
NotAnOrphan(row) ==
    /\ row.role = "teacher" => row.user \notin context.leftOutStaff
    /\ row.class \notin context.leftOutClasses

EnrollmentIsWhole(row) == ~IsBlank(row.user) /\ ~IsBlank(row.school)

BuildEnrollments ==
    /\ Transforms("Enrollments")
    /\ \/ /\ ~context.artifacts.published
          /\ Raised("Enrollments", "transform_error")
       \/ /\ context.artifacts.published
          /\ LET union == EnrollmentUnion
                 rows == Among(union, {r \in ToSet(union) : NotAnOrphan(r)})
                 kept == Among(rows, {r \in ToSet(rows) : EnrollmentIsWhole(r)})
             IN  Transformed("Enrollments", kept,
                     [context EXCEPT
                         !.notes = @ \cup UnfilteredNote("Enrollments", HomeroomMeetings)
                                     \cup UnfilteredNote("Enrollments", TimetableRows)
                                     \cup LeftOutNote("Enrollments", rows, kept)])

-----------------------------------------------------------------------------
(* The myBlueprint+ feeds                                                   *)

BuildStudentCourses ==
    /\ Transforms("StudentCourses")
    /\ LET rows == StudentCoursesRows(extract.history, extract.selection)
       IN  Transformed("StudentCourses", FilterToActive(rows),
               [context EXCEPT !.notes = @ \cup UnfilteredNote("StudentCourses", rows)])

BuildStudentAttendance ==
    /\ Transforms("StudentAttendance")
    /\ \/ /\ UnknownCategory(extract.daily)
          /\ Raised("StudentAttendance", "transform_error")
       \/ /\ ~UnknownCategory(extract.daily)
          /\ Transformed("StudentAttendance",
                         StudentAttendanceRows(extract.daily, extract.period), context)

\* When nothing was built and an isolatable entity failed, its exception is
\* raised after all.
NothingBuilt ==
    /\ \E e \in ToSet(config.order) : ledger[e].kind = "failed"
    /\ \A e \in ToSet(config.order) : ledger[e].kind # "built"

Complete ==
    /\ loop = "running" /\ position > Len(config.order)
    /\ loop' = IF NothingBuilt THEN "stopped" ELSE "built"
    /\ UNCHANGED <<config, extract, position, context, output, ledger>>

RosterNext ==
    \/ SourcesEmpty
    \/ EntityRaises
    \/ BuildStudents
    \/ BuildStaff
    \/ BuildFamily
    \/ BuildClasses
    \/ BuildEnrollments
    \/ BuildStudentCourses
    \/ BuildStudentAttendance
    \/ Complete

RosterSpec == RosterInit /\ [][RosterNext]_rosterVars

-----------------------------------------------------------------------------
(* Properties of a built roster                                             *)

Rows(e) == IF e \in DOMAIN output THEN ToSet(output[e]) ELSE {}
ShippedClasses == {c.class : c \in Rows("Classes")}
ShippedStudents == {d.student : d \in Rows("Students")}
ShippedStaff == {s.teacher : s \in Rows("Staff")}
HasRoster == loop = "built" /\ "Enrollments" \in DOMAIN output

IsPlaced(class, user, role) ==
    \E r \in Rows("Enrollments") : r.class = class /\ r.user = user /\ r.role = role

Told(entities) == \E e \in entities : <<e, "excluded_required_value">> \in context.notes

\* No row points at something the same delivery does not hold: every enrollment
\* names a class of Classes, every student row of any file a student of
\* Students where they are delivered, and no teacher row one of the staff left
\* out for a blank value.
\* The files are built one after the other from exports that disagree, with
\* only the context between them.
ReferencesResolve ==
    /\ HasRoster =>
          \A r \in Rows("Enrollments") :
              /\ r.class \in ShippedClasses
              /\ r.role = "student" /\ "Students" \in DOMAIN output =>
                    r.user \in ShippedStudents
              /\ r.role = "teacher" => r.user \notin context.leftOutStaff
    /\ "Students" \in DOMAIN output =>
          \A r \in Rows("Family") \cup Rows("StudentCourses") :
              r.student \in ShippedStudents

Placed(class, user, role) == IsPlaced(class, user, role) \/ Told({"Enrollments"})

\* Class Information lists the teacher of w for the blend, or for the homeroom
\* of its section letter.
TaughtWith(w, class) ==
    \/ class.kind = "blended" /\ w.section \in SessionSections(Working(ClassInfo), class.of)
    \/ w.primary /\ class = HomeroomId(w.school, w.letter)

\* Two teachers of one homeroom share its Class ID, and the first is its
\* teacher: the other one is not placed, which is reported of Classes.
RoomIsShared(class, teacher) ==
    /\ \E h \in ToSet(context.artifacts.homerooms) : h.class = class /\ h.teacher # teacher
    /\ "Classes" \in context.dataErrors

\* A student and a teacher who are delivered are also placed, in every class
\* that is delivered and that an export puts them in: the pupils of a section,
\* a blend or a homeroom; the teacher of a section, all the teachers that Class
\* Information lists for a blend, the teacher of a homeroom and its co-teachers.
\* Or a note says that rows were left out; and the second teacher of a shared
\* homeroom is reported.  (Who teaches a blend is for Class Information to say,
\* not for the schedule.)  A second, incomplete row of somebody must not take
\* away the places of the complete one.
WhoShipsIsPlaced ==
    HasRoster =>
        /\ \A r \in ToSet(TimetableRows) :
              LET class == ClassIdOf(r.section, context.artifacts.classMap)
              IN  class \in ShippedClasses =>
                    /\ r.student \in ShippedStudents => Placed(class, r.student, "student")
                    /\ r.teacher \in ShippedStaff /\ class.kind = "section" =>
                          Placed(class, r.teacher, "teacher")
        /\ \A d \in ToSet(HomeroomStudents) :
              LET class == HomeroomId(d.school, d.homeroom)
              IN  d.student \in ShippedStudents /\ class \in ShippedClasses =>
                    /\ Placed(class, d.student, "student")
                    /\ d.teacher \in ShippedStaff =>
                          Placed(class, d.teacher, "teacher") \/ RoomIsShared(class, d.teacher)
        /\ \A w \in ToSet(ClassInfo), class \in ShippedClasses :
              w.teacher \in ShippedStaff /\ TaughtWith(w, class) =>
                  Placed(class, w.teacher, "teacher")

SessionOf(row) == {k \in ToSet(KeyOrder) :
                     row.section \in SessionSections(Working(ClassInfo), k)}

\* One lesson is one class: the pupils of sections that one teacher takes in one
\* slot, of two stated grades or more, are put together; and a blend is
\* delivered only when some pupil can be put in it.  (A section listed in two
\* sessions belongs to the later one and is left out of the statement.)
OneLessonOneClass ==
    HasRoster /\ config.blended /\ extract.courses =>
        /\ \A r \in ToSet(TimetableRows) :
              Cardinality(SessionOf(r)) = 1 =>
                \A k \in SessionOf(r) :
                    Validate(ScheduledRows, SessionSections(Working(ClassInfo), k))
                      => ClassIdOf(r.section, context.artifacts.classMap) = BlendedId(k)
        /\ \A c \in {d \in ShippedClasses : d.kind = "blended"} :
              \E r \in ToSet(TimetableRows) : c.of \in SessionOf(r)

AttemptsAt(s) ==
    {h \in ToSet(extract.history) :
        HistoryIsRead(h) /\ h.student = s.student /\ HistoryCode(h) = Cleaned[s.code]}

MayBePlanned(s) ==
    /\ \A h \in AttemptsAt(s) : ~IsPass(h) /\ h.completed
    /\ \/ s.start = NoDate
       \/ \E h \in AttemptsAt(s) : h.start = NoDate
       \/ \A h \in AttemptsAt(s) : s.start > h.start

\* A planned course is delivered exactly when the whole of the history allows
\* it, whatever the order of its rows: no attempt passed or is running, and each
\* dated attempt began before the plan, unless some date is missing.
RetakeFollowsTheWholeHistory ==
    loop = "built" =>
        LET read == {s \in ToSet(extract.selection) :
                        /\ SelectionIsRead(s)
                        /\ context.active # {} => s.student \in context.active}
            planned == {r \in Rows("StudentCourses") : r.from = "selection"}
        IN  "StudentCourses" \in DOMAIN output =>
                planned = {SelectionRow(s) : s \in {q \in read : MayBePlanned(q)}}

\* A student's day is counted once: a day for which the daily export has rows
\* to count has exactly those, each absence as many as the portion rule gives
\* it and no period on top; any other day has one row per period that the
\* period export reads.
\* (With a half day AND the periods it stands for, the importer adds up a full
\* day; with a blank daily absence claiming the day, the periods are lost.)
DayIsCountedOnce ==
    loop = "built" /\ "StudentAttendance" \in DOMAIN output =>
        LET daily == Among(extract.daily, {d \in ToSet(extract.daily) : DailyIsRead(d)})
            period == Among(extract.period, {p \in ToSet(extract.period) : PeriodIsRead(p)})
            delivered == output["StudentAttendance"]
            On(day, rows) == {i \in DOMAIN rows : StudentDay(rows[i]) = day}
            RowsOf(i) == {i} \X (1 .. RowCount(daily[i]))
            FromDaily(day) == Cardinality(UNION {RowsOf(i) : i \in On(day, daily)})
            FromPeriods(day) == Cardinality(On(day, period))
        IN  \A day \in {StudentDay(r) : r \in ToSet(daily) \cup ToSet(period)
                                             \cup ToSet(delivered)} :
                Cardinality(On(day, delivered)) =
                    IF FromDaily(day) > 0 THEN FromDaily(day) ELSE FromPeriods(day)

=============================================================================
