----------------------------- MODULE MCPipeline -----------------------------
(* Pipeline on the entities that the rules tell apart: a roster anchor, a   *)
(* critical entity with an optional Class Information listing, the one      *)
(* isolatable entity and the one that may be empty.                         *)
EXTENDS Pipeline

MCEntities == {"Students", "Classes", "Family", "StudentAttendance", "CourseInfo"}

MCFiles == {"StudentDemographic", "ClassInformation", "Contacts", "Absences"}

MCLists == [Students |-> {"StudentDemographic"},
            Classes |-> {"StudentDemographic", "ClassInformation"},
            Family |-> {"Contacts", "StudentDemographic"},
            StudentAttendance |-> {"Absences"},
            CourseInfo |-> {}]

\* A configuration with blended detection off.
MCOptional == {<<"Classes", "ClassInformation">>}

\* Files that travel on their own.
MCFeeds == {"StudentAttendance", "CourseInfo"}

\* A whole district, one whose order puts a dependent first, attendance alone,
\* a contacts-and-attendance configuration, one without source files, none.
MCOrders == {<<"Students", "Family", "Classes", "StudentAttendance">>,
             <<"Family", "Students">>,
             <<"StudentAttendance">>,
             <<"Family", "StudentAttendance">>,
             <<"Students", "CourseInfo">>,
             <<>>}

=============================================================================
