---------------------------- MODULE OutputFolder ----------------------------
(***************************************************************************)
(* The output folder of DistrictSync and the runs that write into it       *)
(* (src/etl/loader.py, class DataLoader): staging, the backup-and-restore  *)
(* commit, its rollback, the clean-up of the two scratch directories, the  *)
(* reconciliation of what a dead run left, and the archiving of files the  *)
(* run did not produce.                                                    *)
(*                                                                         *)
(* Several runs may share the folder: the nightly task and a manual        *)
(* Convert take no lock.  Each file-system call is a step, so runs         *)
(* interleave between any two of them, a process may die between any two   *)
(* of them, and any call may raise OSError.                                *)
(***************************************************************************)
EXTENDS Integers, FiniteSets

CONSTANTS
    Runs,        \* the runs, one save_all each
    NFiles,      \* how many entity CSV names there are
    Original,    \* bytes that were in the folder before any run
    Absent,      \* no such file
    Folders      \* what the folder may hold to begin with

ASSUME NFilesAssumption == NFiles \in Nat
ASSUME BytesAssumption ==
    /\ Original # Absent
    /\ Original \notin Runs
    /\ Absent \notin Runs

\* The CSV names, numbered in the order sorted() lists them.
Files == 1 .. NFiles

ASSUME FoldersAssumption == Folders \subseteq [Files -> {Original, Absent}]

\* What a name can hold: the bytes of the run that wrote them stand for them.
Bytes == Runs \cup {Original}
Content == Bytes \cup {Absent}

Nothing == [f \in Files |-> Absent]

VARIABLES
    top,       \* the folder itself: what each CSV name holds
    tmpDir,    \* the runs whose .tmp_<stamp>/ exists
    staged,    \* the files in it
    bakDir,    \* the runs whose .bak_<stamp>/ exists
    bak,       \* what it holds
    age,       \* of a run's directories: 0 young, 1 over an hour, 2 over a week
    archive,   \* the <<file, bytes>> kept in archive_*/ directories
    pc,        \* where each run is in save_all
    outs,      \* the files the run produces
    scan,      \* the leftovers the reconciliation has still to look at
    todo,      \* the files still to promote (later: still to archive)
    applied,   \* the files recorded in "applied", not yet rolled back
    backed,    \* those of them whose backup is not None
    before,    \* history: what the run found in the folder
    result,    \* how the run ended, "running" until then
    spoiled,   \* history: the runs one of whose restores failed
    alone      \* history: the runs no other one has overlapped

disk == <<top, tmpDir, staged, bakDir, bak, age, archive>>
run  == <<pc, outs, scan, todo, applied, backed, before, result, spoiled, alone>>
vars == <<top, tmpDir, staged, bakDir, bak, age, archive,
          pc, outs, scan, todo, applied, backed, before, result, spoiled, alone>>

Committing   == {"look", "move", "promote"}
RollingBack  == {"unlink", "restore"}
Cleaning     == {"cleanTmp", "cleanBak"}
Places       == {"idle", "reconcile", "write", "archive", "over"}
                    \cup Committing \cup RollingBack \cup Cleaning
Results      == {"running", "committed", "failed", "interrupted", "killed"}

TypeOK ==
    /\ top \in [Files -> Content]
    /\ tmpDir \subseteq Runs
    /\ staged \in [Runs -> SUBSET Files]
    /\ bakDir \subseteq Runs
    /\ bak \in [Runs -> [Files -> Content]]
    /\ age \in [Runs -> 0 .. 2]
    /\ archive \subseteq (Files \X Bytes)
    /\ pc \in [Runs -> Places]
    /\ outs \in [Runs -> SUBSET Files]
    /\ scan \in [Runs -> SUBSET (Runs \X {"bak", "tmp"})]
    /\ todo \in [Runs -> SUBSET Files]
    /\ applied \in [Runs -> SUBSET Files]
    /\ backed \in [Runs -> SUBSET Files]
    /\ before \in [Runs -> [Files -> Content]]
    /\ result \in [Runs -> Results]
    /\ spoiled \subseteq Runs
    /\ alone \subseteq Runs

Init ==
    /\ top \in Folders
    /\ tmpDir = {}
    /\ staged = [r \in Runs |-> {}]
    /\ bakDir = {}
    /\ bak = [r \in Runs |-> Nothing]
    /\ age = [r \in Runs |-> 0]
    /\ archive = {}
    /\ pc = [r \in Runs |-> "idle"]
    /\ outs = [r \in Runs |-> {}]
    /\ scan = [r \in Runs |-> {}]
    /\ todo = [r \in Runs |-> {}]
    /\ applied = [r \in Runs |-> {}]
    /\ backed = [r \in Runs |-> {}]
    /\ before = [r \in Runs |-> Nothing]
    /\ result = [r \in Runs |-> "running"]
    /\ spoiled = {}
    /\ alone = Runs

-----------------------------------------------------------------------------
(* Helpers                                                                  *)

Live(r) == pc[r] \notin {"idle", "over"}

Company == {q \in Runs : Live(q)}

Goto(r, place) == pc' = [pc EXCEPT ![r] = place]

Ends(r, how) == result' = [result EXCEPT ![r] = how]

First(f, S) == f \in S /\ \A g \in S : f <= g
Last(f, S)  == f \in S /\ \A g \in S : g <= f

Leftovers ==
    {<<q, "bak">> : q \in bakDir} \cup {<<q, "tmp">> : q \in tmpDir}

-----------------------------------------------------------------------------
(* Start and reconciliation: DataLoader._reconcile_output_dir               *)

\* save_all is called with the run's outputs (never none: the callers check).
\* The folder is listed once; a listing that fails reconciles nothing.  No
\* lock keeps another run out.
Start(r) ==
    /\ pc[r] = "idle"
    /\ alone' = IF Company = {} THEN alone ELSE alone \ (Company \cup {r})
    /\ \E s \in SUBSET Files : s # {} /\ outs' = [outs EXCEPT ![r] = s]
    /\ \E seen \in {Leftovers, {}} : scan' = [scan EXCEPT ![r] = seen]
    /\ before' = [before EXCEPT ![r] = top]
    /\ Goto(r, "reconcile")
    /\ UNCHANGED <<disk, todo, applied, backed, result, spoiled>>

\* Mutant: the leftover backup is deleted instead of archived.
ReconcileBackupDeletes(r, q) ==
    /\ pc[r] = "reconcile"
    /\ <<q, "bak">> \in scan[r]
    /\ scan' = [scan EXCEPT ![r] = @ \ {<<q, "bak">>}]
    /\ q \in bakDir /\ age[q] >= 1
    /\ bak' = [bak EXCEPT ![q] = Nothing]
    /\ bakDir' = bakDir \ {q}
    /\ UNCHANGED <<top, tmpDir, staged, age, archive, pc, outs, todo, applied,
                   backed, before, result, spoiled, alone>>

\* Mutant: no age gate.
ReconcileBackupAnyAge(r, q) ==
    /\ pc[r] = "reconcile"
    /\ <<q, "bak">> \in scan[r]
    /\ scan' = [scan EXCEPT ![r] = @ \ {<<q, "bak">>}]
    /\ archive' = archive \cup {<<f, bak[q][f]>> :
                                  f \in {g \in Files : bak[q][g] # Absent}}
    /\ bak' = [bak EXCEPT ![q] = Nothing]
    /\ bakDir' = bakDir \ {q}
    /\ UNCHANGED <<top, tmpDir, staged, age, pc, outs, todo, applied, backed,
                   before, result, spoiled, alone>>

\* A .bak_* past the one-hour gate is moved into archive_<ts>_recovered/, or
\* the move fails and it stays; a younger one may be a live run's.
ReconcileBackup(r, q) ==
    /\ pc[r] = "reconcile"
    /\ <<q, "bak">> \in scan[r]
    /\ scan' = [scan EXCEPT ![r] = @ \ {<<q, "bak">>}]
    /\ \/ /\ q \in bakDir /\ age[q] >= 1
          /\ archive' = archive \cup {<<f, bak[q][f]>> :
                                        f \in {g \in Files : bak[q][g] # Absent}}
          /\ bak' = [bak EXCEPT ![q] = Nothing]
          /\ bakDir' = bakDir \ {q}
       \/ UNCHANGED <<archive, bak, bakDir>>
    /\ UNCHANGED <<top, tmpDir, staged, age, pc, outs, todo, applied, backed,
                   before, result, spoiled, alone>>

\* A .tmp_* past the one-week gate is deleted (some of it may stay).
ReconcileStaging(r, q) ==
    /\ pc[r] = "reconcile"
    /\ <<q, "tmp">> \in scan[r]
    /\ scan' = [scan EXCEPT ![r] = @ \ {<<q, "tmp">>}]
    /\ \/ /\ q \in tmpDir /\ age[q] >= 2
          /\ tmpDir' = tmpDir \ {q}
          /\ staged' = [staged EXCEPT ![q] = {}]
       \/ UNCHANGED <<tmpDir, staged>>
    /\ UNCHANGED <<top, bakDir, bak, age, archive, pc, outs, todo, applied,
                   backed, before, result, spoiled, alone>>

-----------------------------------------------------------------------------
(* Staging: the first half of save_all                                      *)

\* mkdir of .tmp_<stamp>/ stands before the try: its failure leaves save_all
\* at once.
MakeStaging(r) ==
    /\ pc[r] = "reconcile" /\ scan[r] = {}
    /\ \/ /\ tmpDir' = tmpDir \cup {r}
          /\ Goto(r, "write")
          /\ UNCHANGED result
       \/ /\ Goto(r, "over")
          /\ Ends(r, "failed")
          /\ UNCHANGED tmpDir
    /\ UNCHANGED <<top, staged, bakDir, bak, age, archive, outs, scan, todo,
                   applied, backed, before, spoiled, alone>>

\* One CSV is written into the staging directory, or the write raises
\* (a missing column, a full disk) and only the clean-up is left.
StageFile(r) ==
    /\ pc[r] = "write"
    /\ \E f \in outs[r] \ staged[r] :
         \/ /\ staged' = [staged EXCEPT ![r] = @ \cup {f}]
            /\ UNCHANGED <<pc, result>>
         \/ /\ Goto(r, "cleanTmp")
            /\ Ends(r, "failed")
            /\ UNCHANGED staged
    /\ UNCHANGED <<top, tmpDir, bakDir, bak, age, archive, outs, scan, todo,
                   applied, backed, before, spoiled, alone>>

\* Everything is staged: the sorted list is taken and the commit begins, or
\* the listing raises.
ListStaged(r) ==
    /\ pc[r] = "write" /\ staged[r] = outs[r]
    /\ \/ /\ todo' = [todo EXCEPT ![r] = staged[r]]
          /\ Goto(r, "look")
          /\ UNCHANGED result
       \/ /\ Goto(r, "cleanTmp")
          /\ Ends(r, "failed")
          /\ UNCHANGED todo
    /\ UNCHANGED <<disk, outs, scan, applied, backed, before, spoiled, alone>>

-----------------------------------------------------------------------------
(* The commit: DataLoader._commit_staged                                    *)

\* Mutant: every file is taken for a new entity, none is backed up.
LookNoBackup(r) ==
    /\ pc[r] = "look"
    /\ \E f \in Files :
         /\ First(f, todo[r])
         /\ applied' = [applied EXCEPT ![r] = @ \cup {f}]
    /\ Goto(r, "promote")
    /\ UNCHANGED <<disk, outs, scan, todo, backed, before, result, spoiled, alone>>

\* dest.exists() for the next staged file; a new entity needs no backup.
Look(r) ==
    /\ pc[r] = "look"
    /\ \E f \in Files :
         /\ First(f, todo[r])
         /\ \/ /\ top[f] = Absent
               /\ applied' = [applied EXCEPT ![r] = @ \cup {f}]
               /\ Goto(r, "promote")
            \/ /\ top[f] # Absent
               /\ Goto(r, "move")
               /\ UNCHANGED applied
    /\ UNCHANGED <<disk, outs, scan, todo, backed, before, result, spoiled, alone>>

\* Mutant: the file is not recorded before it is promoted.
MoveAsideUnrecorded(r) ==
    /\ pc[r] = "move"
    /\ \E f \in Files :
         /\ First(f, todo[r])
         /\ top[f] # Absent
         /\ bak' = [bak EXCEPT ![r][f] = top[f]]
         /\ before' = [before EXCEPT ![r][f] = top[f]]
         /\ top' = [top EXCEPT ![f] = Absent]
         /\ backed' = [backed EXCEPT ![r] = @ \cup {f}]
    /\ bakDir' = bakDir \cup {r}
    /\ Goto(r, "promote")
    /\ UNCHANGED <<tmpDir, staged, age, archive, outs, scan, todo, applied,
                   result, spoiled, alone>>

\* os.replace(dest, backup), with the lazy mkdir of .bak_<stamp>/, then the
\* append to "applied".  It raises if another run took dest meanwhile.
MoveAside(r) ==
    /\ pc[r] = "move"
    /\ \E f \in Files :
         /\ First(f, todo[r])
         /\ top[f] # Absent
         /\ bak' = [bak EXCEPT ![r][f] = top[f]]
         /\ before' = [before EXCEPT ![r][f] = top[f]]
         /\ top' = [top EXCEPT ![f] = Absent]
         /\ applied' = [applied EXCEPT ![r] = @ \cup {f}]
         /\ backed' = [backed EXCEPT ![r] = @ \cup {f}]
    /\ bakDir' = bakDir \cup {r}
    /\ Goto(r, "promote")
    /\ UNCHANGED <<tmpDir, staged, age, archive, outs, scan, todo, result,
                   spoiled, alone>>

MoveAsideFails(r) ==
    /\ pc[r] = "move"
    /\ bakDir' \in {bakDir, bakDir \cup {r}}
    /\ Goto(r, "unlink")
    /\ UNCHANGED <<top, tmpDir, staged, bak, age, archive, outs, scan, todo,
                   applied, backed, before, result, spoiled, alone>>

\* os.replace(tmp_file, dest), or it raises.
Promote(r) ==
    /\ pc[r] = "promote"
    /\ \E f \in Files :
         /\ First(f, todo[r])
         /\ \/ /\ top' = [top EXCEPT ![f] = r]
               /\ staged' = [staged EXCEPT ![r] = @ \ {f}]
               /\ todo' = [todo EXCEPT ![r] = @ \ {f}]
               /\ Goto(r, "look")
            \/ /\ Goto(r, "unlink")
               /\ UNCHANGED <<top, staged, todo>>
    /\ UNCHANGED <<tmpDir, bakDir, bak, age, archive, outs, scan, applied,
                   backed, before, result, spoiled, alone>>

CommitDone(r) ==
    /\ pc[r] = "look" /\ todo[r] = {}
    /\ Ends(r, "committed")
    /\ Goto(r, "cleanTmp")
    /\ UNCHANGED <<disk, outs, scan, todo, applied, backed, before, spoiled, alone>>

-----------------------------------------------------------------------------
(* The rollback: the except block of _commit_staged                         *)

\* dest.unlink(missing_ok=True) on the last applied file.  A failure skips
\* the restore of that file and goes on with the next one.
Unlink(r) ==
    /\ pc[r] = "unlink"
    /\ \E f \in Files :
         /\ Last(f, applied[r])
         /\ \/ /\ top' = [top EXCEPT ![f] = Absent]
               /\ Goto(r, "restore")
               /\ UNCHANGED <<applied, spoiled>>
            \/ /\ applied' = [applied EXCEPT ![r] = @ \ {f}]
               /\ spoiled' = spoiled \cup {r}
               /\ UNCHANGED <<top, pc>>
    /\ UNCHANGED <<tmpDir, staged, bakDir, bak, age, archive, outs, scan, todo,
                   backed, before, result, alone>>

\* os.replace(backup, dest) when there is a backup; it may fail too.
Restore(r) ==
    /\ pc[r] = "restore"
    /\ \E f \in Files :
         /\ Last(f, applied[r])
         /\ applied' = [applied EXCEPT ![r] = @ \ {f}]
         /\ \/ /\ f \notin backed[r]
               /\ UNCHANGED <<top, bak, backed, spoiled>>
            \/ /\ f \in backed[r] /\ bak[r][f] # Absent
               /\ top' = [top EXCEPT ![f] = bak[r][f]]
               /\ bak' = [bak EXCEPT ![r][f] = Absent]
               /\ backed' = [backed EXCEPT ![r] = @ \ {f}]
               /\ UNCHANGED spoiled
            \/ /\ f \in backed[r]
               /\ spoiled' = spoiled \cup {r}
               /\ UNCHANGED <<top, bak, backed>>
    /\ Goto(r, "unlink")
    /\ UNCHANGED <<tmpDir, staged, bakDir, age, archive, outs, scan, todo,
                   before, result, alone>>

\* Every applied file was handled: the original exception is re-raised.
RollbackDone(r) ==
    /\ pc[r] = "unlink" /\ applied[r] = {}
    /\ Ends(r, "failed")
    /\ Goto(r, "cleanTmp")
    /\ UNCHANGED <<disk, outs, scan, todo, applied, backed, before, spoiled, alone>>

-----------------------------------------------------------------------------
(* The finally block of save_all: both rmtree calls ignore their errors, so *)
(* a staging directory may stay, and so may any part of a backup directory. *)

CleanTmp(r) ==
    /\ pc[r] = "cleanTmp"
    /\ \/ /\ tmpDir' = tmpDir \ {r}
          /\ staged' = [staged EXCEPT ![r] = {}]
       \/ UNCHANGED <<tmpDir, staged>>
    /\ Goto(r, "cleanBak")
    /\ UNCHANGED <<top, bakDir, bak, age, archive, outs, scan, todo, applied,
                   backed, before, result, spoiled, alone>>

CleanBak(r) ==
    /\ pc[r] = "cleanBak"
    /\ \/ /\ bakDir' = bakDir \ {r}
          /\ bak' = [bak EXCEPT ![r] = Nothing]
       \/ /\ \E kept \in SUBSET Files :
               bak' = [bak EXCEPT ![r] =
                          [f \in Files |-> IF f \in kept THEN bak[r][f] ELSE Absent]]
          /\ UNCHANGED bakDir
    /\ Goto(r, IF result[r] = "committed" THEN "archive" ELSE "over")
    /\ todo' = [todo EXCEPT ![r] =
                   IF result[r] = "committed"
                     THEN {f \in Files \ outs[r] : top[f] # Absent}
                     ELSE @]
    /\ UNCHANGED <<top, tmpDir, staged, age, archive, outs, scan, applied,
                   backed, before, result, spoiled, alone>>

-----------------------------------------------------------------------------
(* archive_stale_outputs: what the run did not produce is moved aside.      *)

ArchiveStale(r) ==
    /\ pc[r] = "archive"
    /\ \E f \in todo[r] :
         /\ todo' = [todo EXCEPT ![r] = @ \ {f}]
         /\ \/ /\ top[f] # Absent
               /\ archive' = archive \cup {<<f, top[f]>>}
               /\ top' = [top EXCEPT ![f] = Absent]
            \/ UNCHANGED <<archive, top>>
    /\ UNCHANGED <<tmpDir, staged, bakDir, bak, age, pc, outs, scan, applied,
                   backed, before, result, spoiled, alone>>

\* Nothing (more) to move, or the archive directory cannot be made.
ArchiveEnds(r) ==
    /\ pc[r] = "archive"
    /\ Goto(r, "over")
    /\ UNCHANGED <<disk, outs, scan, todo, applied, backed, before, result,
                   spoiled, alone>>

-----------------------------------------------------------------------------
(* Faults of the process, and time                                          *)

\* The process dies: nothing of save_all runs any more.
Kill(r) ==
    /\ Live(r)
    /\ Goto(r, "over")
    /\ Ends(r, IF result[r] = "running" THEN "killed" ELSE result[r])
    /\ UNCHANGED <<disk, outs, scan, todo, applied, backed, before, spoiled, alone>>

\* Ctrl-C raises KeyboardInterrupt, which "except Exception" does not catch:
\* inside the try of save_all only the finally block runs.
Interrupt(r) ==
    /\ pc[r] \in {"write"} \cup Committing \cup RollingBack
    /\ Goto(r, "cleanTmp")
    /\ Ends(r, "interrupted")
    /\ UNCHANGED <<disk, outs, scan, todo, applied, backed, before, spoiled, alone>>

\* Time passes over what a dead run left.  A run that is alive never has a
\* directory an hour old: the assumption behind _STALE_BAK_MIN_AGE_SECONDS.
Age(r) ==
    /\ pc[r] = "over"
    /\ r \in bakDir \cup tmpDir
    /\ age[r] < 2
    /\ age' = [age EXCEPT ![r] = @ + 1]
    /\ UNCHANGED <<top, tmpDir, staged, bakDir, bak, archive, run>>

-----------------------------------------------------------------------------

Reconcile(r) == \E q \in Runs : ReconcileBackup(r, q) \/ ReconcileStaging(r, q)

Commit(r) == Look(r) \/ MoveAside(r) \/ MoveAsideFails(r) \/ Promote(r)
                \/ CommitDone(r)

Rollback(r) == Unlink(r) \/ Restore(r) \/ RollbackDone(r)

\* What the run does by itself once it has started.
Step(r) ==
    \/ Reconcile(r) \/ MakeStaging(r) \/ StageFile(r) \/ ListStaged(r)
    \/ Commit(r) \/ Rollback(r)
    \/ CleanTmp(r) \/ CleanBak(r)
    \/ ArchiveStale(r) \/ ArchiveEnds(r)

Next == \E r \in Runs : Start(r) \/ Step(r) \/ Kill(r) \/ Interrupt(r) \/ Age(r)

Spec == Init /\ [][Next]_vars

-----------------------------------------------------------------------------
(* Properties                                                               *)

\* The originals r moved aside and has not restored are kept somewhere.
OwedIsKept(r) ==
    \A f \in backed[r] :
        bak[r][f] = before[r][f] \/ <<f, before[r][f]>> \in archive

\* What a complete commit of r leaves in a folder that held what it found.
Published(r) == [f \in Files |-> IF f \in outs[r] THEN r ELSE before[r][f]]

\* save_all: "all succeed or none are committed".  Of a run no other one
\* overlapped, whatever runs before it left: when its clean-up begins, it has
\* committed with every one of its files in place and touched no other, or it
\* failed, none of its restores failed, and it has left the folder exactly as
\* it found it.
AllOrNothing ==
    \A r \in alone : pc[r] \in Cleaning =>
        /\ result[r] = "committed" => top = Published(r)
        /\ result[r] = "failed" /\ r \notin spoiled => top = before[r]

\* _reconcile_output_dir, "Never deleted": the original a run moved aside and
\* never restored is still in its backup directory, or in the archive, however
\* long ago the run was killed and whatever other runs did since.
MovedAsideIsKept ==
    \A r \in Runs : result[r] \in {"running", "killed"} => OwedIsKept(r)

\* The age gates: while a run commits or rolls back, no other run has swept
\* its staging directory or moved its backups away.
LiveDirsUntouched ==
    \A r \in Runs : pc[r] \in Committing \cup RollingBack =>
        /\ \A f \in applied[r] \cap backed[r] : bak[r][f] # Absent
        /\ todo[r] \subseteq staged[r]

=============================================================================
