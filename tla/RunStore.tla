------------------------------ MODULE RunStore ------------------------------
(***************************************************************************)
(* The run history, history.db (src/history/store.py): every run opens,    *)
(* writes and closes it by itself, the nightly task and the window at the  *)
(* same time and from two versions of the program.  A write creates the    *)
(* store, migrates it forward, or moves a damaged one aside; a read never  *)
(* creates it.                                                             *)
(*                                                                         *)
(* A file is an identity of its own, so that one connection may hold a     *)
(* file that another process has since renamed.  The -wal and -shm files   *)
(* are part of the file they belong to.                                    *)
(***************************************************************************)
EXTENDS Integers, FiniteSets

CONSTANTS
    Writers,       \* the calls of write_run_record, one row each
    Readers,       \* the calls of read_run_records or store_meta
    Newest,        \* the highest SCHEMA_VERSION of a program in use
    NFiles,        \* bound on the files ever created
    MaxSeconds,    \* bound on the clocks, which date the quarantined files
    Settings       \* the computers a behaviour may play on

ASSUME BoundsAssumption ==
    /\ Newest \in Nat \ {0}
    /\ NFiles \in Nat \ {0} /\ MaxSeconds \in Nat \ {0}
ASSUME SettingsAssumption ==
    Settings \subseteq
      [version     : [Writers -> 0 .. Newest],  \* its program's SCHEMA_VERSION, 0: no call
       readers     : SUBSET Readers,
       established : BOOLEAN,    \* a store exists already, at the baseline
       overlap     : BOOLEAN,    \* writers run at the same time
       handOver    : BOOLEAN,    \* the profile may be superseded meanwhile
       damages     : Nat,        \* bound on how often the store is damaged
       seconds     : 1 .. MaxSeconds]  \* bound on the clock

VARIABLES
    set,          \* the one of Settings it plays on
    file,         \* the files, by number
    used,         \* how many there are
    live,         \* the one named history.db, 0 when there is none
    quarantined,  \* the one named history.corrupt-<second>.db, 0 for none
    aside,        \* those the handover renamed
    fenced,       \* whether MOVED.txt is in the profile
    handover,     \* how far the handover is
    now, rots,    \* the clock, and how often the store was damaged
    pc,           \* where each writer is
    conn,         \* the file it has open, 0 for none
    seen,         \* the user_version it read
    target,       \* the rung of the migration ladder it is at
    again,        \* whether it is writing into a recreated store
    met,          \* the file it met the damage in, 0 for none
    result,       \* what write_run_record answered
    faulted,      \* history: the writers one of whose own steps failed
    mistaken,     \* history: the files renamed for the damage of another
    asking,       \* where each reader is
    answer        \* what it answered

store  == <<file, used, live>>
world  == <<set, quarantined, aside, fenced, handover, now, rots>>
writer == <<pc, conn, seen, target, again, met, result, faulted, mistaken>>
reader == <<asking, answer>>
kept   == <<met, faulted, mistaken>>
vars == <<set, file, used, live, quarantined, aside, fenced, handover, now, rots,
          pc, conn, seen, target, again, met, result, faulted, mistaken, asking,
          answer>>

\* What sqlite3.connect makes of a missing file.
Blank == [rotten |-> FALSE, tables |-> FALSE, stamp |-> 0, steps |-> {}, rows |-> {}]

Working == {"read", "tables", "stamp", "migrate", "insert"}

Init ==
    /\ set \in Settings
    /\ file = [n \in 1 .. NFiles |->
                  IF set.established /\ n = 1
                    THEN [Blank EXCEPT !.tables = TRUE, !.stamp = 1] ELSE Blank]
    /\ used = IF set.established THEN 1 ELSE 0
    /\ live = used
    /\ quarantined = [s \in 1 .. MaxSeconds |-> 0]
    /\ aside = {} /\ fenced = FALSE /\ handover = "before"
    /\ now = 1 /\ rots = 0
    /\ pc = [w \in Writers |-> "idle"]
    /\ conn = [w \in Writers |-> 0]
    /\ seen = [w \in Writers |-> 0]
    /\ target = [w \in Writers |-> 2]
    /\ again = [w \in Writers |-> FALSE]
    /\ result = [w \in Writers |-> "none"]
    /\ met = [w \in Writers |-> 0]
    /\ faulted = {} /\ mistaken = {}
    /\ asking = [q \in Readers |-> "idle"]
    /\ answer = [q \in Readers |-> "none"]

-----------------------------------------------------------------------------
(* Helpers                                                                  *)

Busy(w) == pc[w] \notin {"idle", "over"}

Goto(w, place) == pc' = [pc EXCEPT ![w] = place]

\* The call returns: the finally clause closes the connection.
Returns(w, what) ==
    /\ Goto(w, "over")
    /\ conn' = [conn EXCEPT ![w] = 0]
    /\ result' = [result EXCEPT ![w] = what]

Stays == UNCHANGED <<conn, result>>

\* sqlite3.connect: it opens the file of that name, or makes one.
Connect(n) ==
    \/ live # 0 /\ n = live /\ UNCHANGED store
    \/ /\ live = 0 /\ used < NFiles
       /\ n = used + 1
       /\ used' = n /\ live' = n
       /\ UNCHANGED file

Mine(w) == file[conn[w]]

-----------------------------------------------------------------------------
(* write_run_record                                                         *)

\* The superseded fence, before any file is touched.
CheckFence(w) ==
    /\ pc[w] = "idle" /\ set.version[w] # 0
    /\ set.overlap \/ \A v \in Writers : ~Busy(v)
    /\ IF fenced THEN Returns(w, "fenced") ELSE Goto(w, "open") /\ Stays
    /\ UNCHANGED <<store, world, seen, target, again, kept, reader>>

Open(w) ==
    /\ pc[w] = "open"
    /\ \E n \in 1 .. NFiles : Connect(n) /\ conn' = [conn EXCEPT ![w] = n]
    /\ Goto(w, "read")
    /\ UNCHANGED <<world, seen, target, again, result, kept, reader>>

\* PRAGMA user_version.
ReadVersion(w) ==
    /\ pc[w] = "read"
    /\ seen' = [seen EXCEPT ![w] = Mine(w).stamp]
    /\ Goto(w, "tables")
    /\ UNCHANGED <<store, world, conn, target, again, result, kept, reader>>

\* Mutant: the baseline is stamped whatever the version was.
EnsureTablesAlwaysStamps(w) ==
    /\ pc[w] = "tables"
    /\ file' = [file EXCEPT ![conn[w]].tables = TRUE]
    /\ Goto(w, "stamp")
    /\ UNCHANGED <<used, live, world, conn, seen, target, again, result, kept,
                   reader>>

\* CREATE TABLE IF NOT EXISTS: harmless on a store that has its tables.
EnsureTables(w) ==
    /\ pc[w] = "tables"
    /\ file' = [file EXCEPT ![conn[w]].tables = TRUE]
    /\ Goto(w, IF seen[w] = 0 THEN "stamp" ELSE "migrate")
    /\ UNCHANGED <<used, live, world, conn, seen, target, again, result, kept,
                   reader>>

\* PRAGMA user_version=1, on what was a brand-new store when it was read.
StampBaseline(w) ==
    /\ pc[w] = "stamp"
    /\ file' = [file EXCEPT ![conn[w]].stamp = 1]
    /\ seen' = [seen EXCEPT ![w] = 1]
    /\ Goto(w, "migrate")
    /\ UNCHANGED <<used, live, world, conn, target, again, result, kept,
                   reader>>

Migrating(w) ==
    pc[w] = "migrate" /\ seen[w] < set.version[w] /\ target[w] <= set.version[w]

NextRung(w) ==
    /\ target' = [target EXCEPT ![w] = @ + 1]
    /\ UNCHANGED pc /\ Stays

\* One rung, its column and its stamp in one transaction.
Commits(w) ==
    file' = [file EXCEPT ![conn[w]].steps = @ \cup {target[w]},
                         ![conn[w]].stamp = target[w]]

\* write_run_record answers a MigrationError; _quarantine_and_recreate catches
\* sqlite3.Error and OSError only, so that of the second attempt leaves the
\* call as an exception, which its two callers catch.
MigrationEnds(w) == IF again[w] THEN "raised" ELSE "migrationFailed"

\* A column that is there already cannot be added again: the step raises and
\* is rolled back.
Climb(w) ==
    IF target[w] \in Mine(w).steps
      THEN /\ Returns(w, MigrationEnds(w))
           /\ UNCHANGED <<file, target>>
      ELSE Commits(w) /\ NextRung(w)

\* The step itself is faulty, or the lock is not to be had.
MigrationFails(w) ==
    /\ Migrating(w)
    /\ Returns(w, MigrationEnds(w))
    /\ faulted' = faulted \cup {w}
    /\ UNCHANGED <<store, world, seen, target, again, met, mistaken, reader>>

\* Mutant: the version is not read again under the lock.
MigrateStepUnread(w) ==
    /\ Migrating(w) /\ Climb(w)
    /\ UNCHANGED <<used, live, world, seen, again, kept, reader>>

\* BEGIN IMMEDIATE, then the version is read again under the lock: a rung
\* another process has climbed meanwhile is passed over.
MigrateStep(w) ==
    /\ Migrating(w)
    /\ \/ Mine(w).stamp >= target[w] /\ NextRung(w) /\ UNCHANGED file
       \/ Mine(w).stamp < target[w] /\ Climb(w)
    /\ UNCHANGED <<used, live, world, seen, again, kept, reader>>

Migrated(w) ==
    /\ pc[w] = "migrate" /\ ~Migrating(w)
    /\ Goto(w, "insert")
    /\ UNCHANGED <<store, world, conn, seen, target, again, result, kept,
                   reader>>

\* The row and the birth stamp, in one transaction.
Insert(w) ==
    /\ pc[w] = "insert"
    /\ file' = [file EXCEPT ![conn[w]].rows = @ \cup {w}]
    /\ Returns(w, "written")
    /\ UNCHANGED <<used, live, world, seen, target, again, kept, reader>>

\* Mutant: every error is taken for damage.
WriteFailsAsDamage(w) ==
    /\ pc[w] \in {"open"} \cup (Working \ {"migrate"})
    /\ Goto(w, "quarantine")
    /\ conn' = [conn EXCEPT ![w] = 0]
    /\ met' = [met EXCEPT ![w] = conn[w]]
    /\ UNCHANGED <<store, world, seen, target, again, result, faulted, mistaken,
                   reader>>

\* A locked store, a full disk, a folder that cannot be made: logged, False.
WriteFails(w) ==
    /\ pc[w] \in {"open"} \cup (Working \ {"migrate"})
    /\ Returns(w, "failed")
    /\ UNCHANGED <<store, world, seen, target, again, kept, reader>>

\* "malformed" or "not a database": the store is moved aside, but only once.
\* During a migration the error is a MigrationError instead.
MeetsDamage(w) ==
    /\ pc[w] \in Working \ {"migrate"} /\ Mine(w).rotten
    /\ IF again[w]
         THEN Returns(w, "failed") /\ UNCHANGED met
         ELSE /\ Goto(w, "quarantine")
              /\ conn' = [conn EXCEPT ![w] = 0]
              /\ met' = [met EXCEPT ![w] = conn[w]]
              /\ UNCHANGED result
    /\ UNCHANGED <<store, world, seen, target, again, faulted, mistaken, reader>>

\* The rename takes whatever is named history.db by then: the store another
\* writer has repaired meanwhile, too.
Renames(w) ==
    \/ live = 0 /\ UNCHANGED <<live, quarantined, mistaken>>
    \/ /\ live # 0
       /\ quarantined' = [quarantined EXCEPT ![now] = live]
       /\ mistaken' = IF live = met[w] THEN mistaken ELSE mistaken \cup {live}
       /\ live' = 0

\* Mutant: a file that cannot be moved is tried again.
QuarantineRetries(w) ==
    /\ pc[w] = "quarantine"
    /\ Goto(w, "open")
    /\ UNCHANGED <<store, world, conn, seen, target, again, result, kept, reader>>

\* _quarantine_and_recreate, over the file another quarantine of the same second
\* left.  The rename fails while another process holds the file open (Windows),
\* or a sidecar's does.
Quarantine(w) ==
    /\ pc[w] = "quarantine"
    /\ again' = [again EXCEPT ![w] = TRUE]
    /\ target' = [target EXCEPT ![w] = 2]
    /\ Renames(w)
    /\ Goto(w, "open")
    /\ UNCHANGED <<set, file, used, aside, fenced, handover, now, rots, conn, seen,
                   met, result, faulted, reader>>

QuarantineFails(w) ==
    /\ pc[w] = "quarantine"
    /\ Renames(w) \/ UNCHANGED <<live, quarantined, mistaken>>
    /\ Returns(w, "failed")
    /\ UNCHANGED <<set, file, used, aside, fenced, handover, now, rots, seen, target,
                   again, met, faulted, reader>>

\* The process dies; what it had not committed is rolled back.
Kill(w) ==
    /\ Busy(w)
    /\ Returns(w, "killed")
    /\ UNCHANGED <<store, world, seen, target, again, kept, reader>>

Write(w) ==
    \/ CheckFence(w) \/ Open(w) \/ ReadVersion(w) \/ EnsureTables(w)
    \/ StampBaseline(w) \/ MigrateStep(w) \/ MigrationFails(w) \/ Migrated(w)
    \/ Insert(w) \/ WriteFails(w) \/ MeetsDamage(w)
    \/ Quarantine(w) \/ QuarantineFails(w)

-----------------------------------------------------------------------------
(* read_run_records, store_meta                                             *)

Answers(q, what) ==
    /\ asking' = [asking EXCEPT ![q] = "over"]
    /\ answer' = [answer EXCEPT ![q] = what]

\* A missing store is an empty one, and is not created.
LookForStore(q) ==
    /\ asking[q] = "idle" /\ q \in set.readers
    /\ IF live = 0
         THEN Answers(q, "empty")
         ELSE asking' = [asking EXCEPT ![q] = "select"] /\ UNCHANGED answer
    /\ UNCHANGED <<store, world, writer>>

\* connect and SELECT; any error is "unavailable".
Select(q) ==
    /\ asking[q] = "select"
    /\ \E n \in 1 .. NFiles :
         /\ Connect(n)
         /\ \/ Answers(q, "unavailable")
            \/ /\ file[n].tables
               /\ Answers(q, IF file[n].rows = {} THEN "empty" ELSE "rows")
    /\ UNCHANGED <<world, writer>>

-----------------------------------------------------------------------------
(* The world around the store                                               *)

\* A torn write or a bad disk.
Rot ==
    /\ rots < set.damages /\ live # 0
    /\ rots' = rots + 1
    /\ file' = [file EXCEPT ![live].rotten = TRUE]
    /\ UNCHANGED <<set, used, live, quarantined, aside, fenced, handover, now, writer,
                   reader>>

Tick ==
    /\ now < set.seconds
    /\ now' = now + 1
    /\ UNCHANGED <<set, store, quarantined, aside, fenced, handover, rots, writer,
                   reader>>

\* complete_handover: the store is renamed, or cannot be, then the breadcrumb
\* fences the profile (best-effort: it may fail to be written).
SetAside ==
    /\ set.handOver /\ handover = "before"
    /\ handover' = "aside"
    /\ \/ live # 0 /\ aside' = aside \cup {live} /\ live' = 0
       \/ UNCHANGED <<aside, live>>
    /\ UNCHANGED <<set, file, used, quarantined, fenced, now, rots, writer, reader>>

Breadcrumb ==
    /\ handover = "aside"
    /\ handover' = "done"
    /\ fenced' \in BOOLEAN
    /\ UNCHANGED <<set, store, quarantined, aside, now, rots, writer, reader>>

-----------------------------------------------------------------------------

Next ==
    \/ \E w \in Writers : Write(w) \/ Kill(w)
    \/ \E q \in Readers : LookForStore(q) \/ Select(q)
    \/ Rot \/ Tick \/ SetAside \/ Breadcrumb

Spec == Init /\ [][Next]_vars

\* A writer's process is scheduled; no call of sqlite waits beyond its timeout.
FairSpec == Spec /\ \A w \in Writers : WF_vars(Write(w))

-----------------------------------------------------------------------------
(* Properties                                                               *)

\* "A higher user_version is never migrated or downgraded": an old program and
\* a new one share an established store, and its version never goes down.
NeverDowngraded ==
    [][\A n \in 1 .. NFiles : file'[n].stamp >= file[n].stamp]_vars

\* _migrate_forward reads the version again under the write lock, "so two
\* processes can't both migrate": a migration fails only for a fault of its
\* own, never because another process had done the step.
MigrationErrorIsReal ==
    \A w \in Writers :
        result[w] \in {"migrationFailed", "raised"} => w \in faulted

\* A run whose row was written is in the history the window reads, until the
\* file itself is damaged or the profile handed over.  Of the other writers'
\* errors only one takes it away, and the code lets it: of writers at the same
\* time, one that met the damage of an earlier file renames the store a faster
\* one has just recreated.
WrittenIsRead ==
    \A w \in Writers : result[w] = "written" =>
        \E n \in 1 .. used :
            /\ w \in file[n].rows
            /\ \/ n = live \/ file[n].rotten \/ n \in aside
               \/ set.overlap /\ n \in mistaken

\* A write comes to an end, whatever it meets: it repairs the store at most
\* once.  The end is an answer, or else the exception of a migration that fails
\* in the store just recreated ("raised"): the docstring's "never raises" does
\* not hold of that one, and its callers catch it.
EveryWriteEnds == \A w \in Writers : (pc[w] = "open") ~> (pc[w] = "over")

=============================================================================
