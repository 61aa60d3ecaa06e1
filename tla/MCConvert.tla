------------------------------ MODULE MCConvert ------------------------------
(* Two rostering districts that produce files of the same names, and one that *)
(* may have nothing to send, over one folder.                                *)
EXTENDS Convert

MCNone == {}
MCEntities == {"Students", "Family", "StudentAttendance"}
MCIsolatable == {"Family"}
MCMayBeEmpty == {"StudentAttendance"}
MCLists == [e \in MCEntities |-> {}]
MCDistricts == {"here", "there", "daily"}
MCFolders == {"drop", "old"}
MCConfigured ==
    [d \in MCDistricts |->
        IF d = "daily" THEN {"StudentAttendance"} ELSE {"Students", "Family"}]

\* Of five rows, four are no question (80 % is the threshold) and three are.
MCSizes == {3, 4}

Settings(d, listed) ==
    [district |-> d, listed |-> listed, folder |-> "drop",
     output |-> TRUE, sftp |-> TRUE, credential |-> TRUE]

Of(d, files) == [x \in MCEntities |-> IF x \in files THEN [by |-> d, rows |-> 5] ELSE Absent]

Start(settings, files, most, opens, fails, happens) ==
    [saved |-> settings, output |-> files, extract |-> [drop |-> 3, old |-> 4],
     budget |-> [jobs |-> most, visits |-> opens, faults |-> fails, events |-> happens]]

\* Two visits with a job left behind and somebody else at work, one visit with
\* three jobs of which a step fails, and a district that may have nothing to send.
MCStarts ==
    {Start(Settings("here", {"here", "there"}), Of("here", {"Students"}), 2, 2, 0, 1),
     Start(Settings("here", {"here", "there"}), Of("there", {"Students", "Family"}), 3, 1, 1, 0),
     Start(Settings("daily", {"daily"}), Of("daily", {"StudentAttendance"}), 2, 1, 1, 1)}

=============================================================================
