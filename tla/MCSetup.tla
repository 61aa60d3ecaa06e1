------------------------------- MODULE MCSetup -------------------------------
EXTENDS Setup
MCTested == {"north", "south"}
MCDistricts == MCTested \cup {"draft"}
MCFolders == {"f"}
Card(account, kind, time) == [account |-> account, kind |-> kind, time |-> time, wake |-> FALSE]
MCTyped == {Card("me", "token", "3am"), Card("me", "password", "3am"), Card("svc", "password", "3am")}
Fresh == [district |-> "none", folders |-> "none", delivery |-> FALSE, time |-> "3am",
          registered |-> FALSE, args |-> NoArgs, unattended |-> FALSE, account |-> "me",
          kind |-> "token", wake |-> FALSE, completed |-> FALSE]
Done == [Fresh EXCEPT !.district = "north", !.folders = "f", !.completed = TRUE]
Nightly == [Done EXCEPT !.registered = TRUE, !.args = TaskArgs(Done, "3am"), !.kind = "password",
                        !.unattended = TRUE]
\* A document of an earlier version: a task is recorded, what it carries is not.
OldRecord == [Nightly EXCEPT !.args = NoArgs, !.unattended = FALSE]
Served == [Nightly EXCEPT !.account = "svc"]
MCStarts == {Fresh, Nightly, Served, OldRecord}
=============================================================================
