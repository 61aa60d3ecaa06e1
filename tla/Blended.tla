------------------------------ MODULE Blended ------------------------------
(***************************************************************************)
(* BlendedClassDetector (src/etl/transformers/blended.py): sections that   *)
(* one teacher teaches at one school in one time slot, to two grades or    *)
(* more, become one class.  Grades are CEDS codes as numbers, Ungraded the *)
(* code UG; ceds_grade_series reads a blank grade as UG too, and `stated`  *)
(* tells the two apart.                                                    *)
(***************************************************************************)
EXTENDS FrameRows, FiniteSetsExt

CONSTANT KeyOrder   \* the session keys, in the order groupby visits them

ASSUME KeyOrderAssumption == IsFrame(KeyOrder)

Ungraded == 14      \* UG, which sorts after the numbered grades
IsBlank(id) == id \in {"", "nan"}

\* A Class ID: what it is made from, under the kind of class that made it.
BlendedId(key) == [kind |-> "blended", of |-> key]
SectionId(section) == [kind |-> "section", of |-> <<"", section, "">>]
HomeroomId(school, homeroom) ==
    [kind |-> "homeroom", of |-> <<school, homeroom, "">>]

SessionKey(row) == <<row.school, row.teacher, row.slot>>

\* _drop_teacherless_sections
Working(info) == Among(info, {row \in ToSet(info) : ~IsBlank(row.teacher)})

SessionSections(working, key) ==
    {row.section : row \in {r \in ToSet(working) : SessionKey(r) = key}}

\* _build_grade_map: the most frequent stated grade of a section, the lowest
\* of them on a tie.
Frequency(schedule, section, grade) ==
    Quantify(DOMAIN schedule, LAMBDA i :
        LET r == schedule[i]
        IN  r.section = section /\ r.stated /\ r.grade = grade)

StatedGrades(schedule, section) ==
    {r.grade : r \in {s \in ToSet(schedule) : s.section = section /\ s.stated}}

ModeGrade(schedule, section) ==
    Min({g \in StatedGrades(schedule, section) :
            \A h \in StatedGrades(schedule, section) :
                Frequency(schedule, section, g) >= Frequency(schedule, section, h)})

BlendGrades(schedule, sections) ==
    {ModeGrade(schedule, s) :
        s \in {t \in sections : StatedGrades(schedule, t) # {}}}

\* _build_enrollable_grade_map: the grade of every ROW, blank ones included.
EnrollableFromMode(schedule, sections) == BlendGrades(schedule, sections)

EnrollableGrades(schedule, sections) ==
    {r.grade : r \in {s \in ToSet(schedule) : s.section \in sections}}

Validate(schedule, sections) ==
    /\ Cardinality(sections) > 1
    /\ Cardinality(BlendGrades(schedule, sections)) >= 2

Qualified(working, schedule) ==
    {k \in ToSet(KeyOrder) : Validate(schedule, SessionSections(working, k))}

\* A blend none of whose rows is timetable-side is suppressed BEFORE any map
\* is written.
Registered(working, schedule, rostered) ==
    {k \in Qualified(working, schedule) :
        EnrollableGrades(schedule, SessionSections(working, k)) \cap rostered # {}}

\* A section of two sessions belongs to the one visited last.
OwnerKey(working, keys, section) ==
    KeyOrder[Max({i \in DOMAIN KeyOrder :
                    /\ KeyOrder[i] \in keys
                    /\ section \in SessionSections(working, KeyOrder[i])})]

ClassMapOf(working, keys) ==
    [s \in UNION {SessionSections(working, k) : k \in keys} |->
        BlendedId(OwnerKey(working, keys, s))]

ClassMapQualified(working, schedule, rostered) ==
    ClassMapOf(working, Qualified(working, schedule))

ClassMap(working, schedule, rostered) ==
    ClassMapOf(working, Registered(working, schedule, rostered))

\* Everyone Class Information lists for a section of the blend, once each.
CollectTeachers(working, key) ==
    LET listed == DropDuplicates(
                      Among(working, {w \in ToSet(working) :
                                         w.section \in SessionSections(working, key)}),
                      {"teacher"})
    IN  [i \in DOMAIN listed |-> listed[i].teacher]

NoBlends == [classMap |-> <<>>, teachers |-> <<>>]

\* detect: nothing without a schedule and a course file.
Detect(info, schedule, hasCourses, rostered) ==
    LET working == Working(info)
        keys == Registered(working, schedule, rostered)
    IN  IF schedule = <<>> \/ ~hasCourses \/ working = <<>> THEN NoBlends
        ELSE [classMap |-> ClassMap(working, schedule, rostered),
              teachers |-> [b \in {BlendedId(k) : k \in keys} |->
                                CollectTeachers(working, b.of)]]

=============================================================================
