------------------------- MODULE OutputFolderProofs -------------------------
(***************************************************************************)
(* Proofs about OutputFolder, for any number of runs and files.            *)
(*                                                                         *)
(*   Types               what every variable ranges over;                  *)
(*   BackupsAreSafe      however runs overlap and die, what a killed run  *)
(*                       moved aside is kept (MovedAsideIsKept);           *)
(*   LiveDirsAreSafe     and no run loses its backups or its staging       *)
(*                       directory to another one (LiveDirsUntouched);     *)
(*   SaveIsAllOrNothing  of a run no other one overlapped: if it commits   *)
(*                       it publishes all its files, and if it fails and   *)
(*                       can restore it leaves the folder as it found it   *)
(*                       (AllOrNothing);                                   *)
(*   ImplementsAtomic    for whoever reads the folder between commits,     *)
(*                       save_all is the atomic step of AtomicOutput until *)
(*                       two runs meet in it (ImplementsAtomicOutput).     *)
(***************************************************************************)
EXTENDS OutputFolderRefinement, TLAPS

Working  == {"idle", "reconcile", "write"} \cup Committing \cup RollingBack
Finished == Cleaning \cup {"archive"}

\* The program counter and the result go together, and a run owns no backup
\* before its commit begins.
Progress(r) ==
    /\ pc[r] \in Working => result[r] = "running"
    /\ pc[r] \in Finished => result[r] \in {"committed", "failed", "interrupted"}
    /\ pc[r] \in {"idle", "reconcile", "write"} => applied[r] = {} /\ backed[r] = {}

\* The age gates tell the dead from the living.
Young(r) == pc[r] # "over" => age[r] = 0

Owed(r) ==
    /\ \A f \in backed[r] : before[r][f] # Absent
    /\ result[r] \in {"running", "killed"} => OwedIsKept(r)

Untouched(r) ==
    pc[r] \in Committing \cup RollingBack =>
        /\ \A f \in applied[r] \cap backed[r] : bak[r][f] # Absent
        /\ todo[r] \subseteq staged[r]

\* The commit records a file before it promotes it, and the files in order.
InOrder(r) ==
    /\ pc[r] \in {"look", "move"} => applied[r] \cap todo[r] = {}
    /\ pc[r] = "promote" => \A f \in applied[r] \cap todo[r] : First(f, todo[r])
    /\ pc[r] \in Committing => backed[r] \subseteq applied[r]

Safe(r) == Progress(r) /\ Young(r) /\ InOrder(r) /\ Owed(r) /\ Untouched(r)

DirsInv == TypeOK /\ \A r \in Runs : Safe(r)

\* A step that leaves alone what q's facts are about, but for what it adds to
\* the archive.
Frame(q) ==
    /\ pc'[q] = pc[q] /\ result'[q] = result[q]
    /\ applied'[q] = applied[q] /\ backed'[q] = backed[q]
    /\ before'[q] = before[q] /\ bak'[q] = bak[q]
    /\ todo'[q] = todo[q] /\ staged'[q] = staged[q]
    /\ age'[q] = age[q]
    /\ archive \subseteq archive'

-----------------------------------------------------------------------------

LEMMA NothingType == Nothing \in [Files -> Content]
  BY DEF Nothing, Content

LEMMA InitType == Init => TypeOK
  BY BytesAssumption, FoldersAssumption DEF Init, TypeOK, Nothing, Content, Bytes, Files, Places, Results

LEMMA NextType == TypeOK /\ [Next]_vars => TypeOK'
<1> SUFFICES ASSUME TypeOK, [Next]_vars PROVE TypeOK'
  OBVIOUS
<1> USE DEF TypeOK, Goto, Ends, disk, run
<1>1. ASSUME NEW r \in Runs, Start(r) PROVE TypeOK'
  <2>1. Leftovers \subseteq Runs \X {"bak", "tmp"}
    BY DEF Leftovers
  <2> QED BY <1>1, <2>1 DEF Start, Places
<1>2. ASSUME NEW r \in Runs, NEW q \in Runs, ReconcileBackup(r, q) PROVE TypeOK'
  <2>1. archive' \subseteq Files \X Bytes
    BY <1>2 DEF ReconcileBackup, Content
  <2>2. bak' \in [Runs -> [Files -> Content]] /\ bakDir' \subseteq Runs
    BY <1>2, NothingType DEF ReconcileBackup
  <2>3. scan' \in [Runs -> SUBSET (Runs \X {"bak", "tmp"})]
    BY <1>2 DEF ReconcileBackup
  <2> QED BY <1>2, <2>1, <2>2, <2>3 DEF ReconcileBackup
<1>3. ASSUME NEW r \in Runs, NEW q \in Runs, ReconcileStaging(r, q) PROVE TypeOK'
  BY <1>3 DEF ReconcileStaging
<1>4. ASSUME NEW r \in Runs, MakeStaging(r) PROVE TypeOK'
  BY <1>4 DEF MakeStaging, Places, Results
<1>5. ASSUME NEW r \in Runs, StageFile(r) PROVE TypeOK'
  <2> PICK f \in outs[r] \ staged[r] : StageFile(r)!2!(f)
    BY <1>5 DEF StageFile
  <2>0. staged[r] \cup {f} \in SUBSET Files
    OBVIOUS
  <2>1. staged' \in [Runs -> SUBSET Files]
    BY <2>0
  <2>2. pc' \in [Runs -> Places] /\ result' \in [Runs -> Results]
    BY <1>5 DEF StageFile, Places, Cleaning, Results
  <2> QED BY <1>5, <2>1, <2>2 DEF StageFile
<1>6. ASSUME NEW r \in Runs, ListStaged(r) PROVE TypeOK'
  BY <1>6 DEF ListStaged, Places, Committing, Cleaning, Results
<1>7. ASSUME NEW r \in Runs, Look(r) PROVE TypeOK'
  <2> PICK f \in Files : Look(r)!2!(f)
    BY <1>7 DEF Look
  <2>0. applied[r] \cup {f} \in SUBSET Files
    OBVIOUS
  <2>1. applied' \in [Runs -> SUBSET Files]
    BY <2>0
  <2>2. pc' \in [Runs -> Places]
    BY <1>7 DEF Look, Places, Committing
  <2> QED BY <1>7, <2>1, <2>2 DEF Look
<1>8. ASSUME NEW r \in Runs, MoveAside(r) PROVE TypeOK'
  BY <1>8 DEF MoveAside, Places, Committing, Content
<1>9. ASSUME NEW r \in Runs, MoveAsideFails(r) PROVE TypeOK'
  BY <1>9 DEF MoveAsideFails, Places, RollingBack
<1>10. ASSUME NEW r \in Runs, Promote(r) PROVE TypeOK'
  <2> PICK f \in Files : Promote(r)!2!(f)
    BY <1>10 DEF Promote
  <2>1. top' \in [Files -> Content]
    <3>1. r \in Content
      BY DEF Content, Bytes
    <3>2. top' = top \/ top' = [top EXCEPT ![f] = r]
      OBVIOUS
    <3> QED BY <3>1, <3>2
  <2>2. staged' \in [Runs -> SUBSET Files] /\ todo' \in [Runs -> SUBSET Files]
    <3>1. staged[r] \ {f} \in SUBSET Files /\ todo[r] \ {f} \in SUBSET Files
      OBVIOUS
    <3>2. staged' = staged \/ staged' = [staged EXCEPT ![r] = @ \ {f}]
      OBVIOUS
    <3>3. todo' = todo \/ todo' = [todo EXCEPT ![r] = @ \ {f}]
      OBVIOUS
    <3>4. staged' \in [Runs -> SUBSET Files]
      BY <3>1, <3>2
    <3>5. todo' \in [Runs -> SUBSET Files]
      BY <3>1, <3>3
    <3> QED BY <3>4, <3>5
  <2>3. pc' \in [Runs -> Places]
    BY <1>10 DEF Promote, Places, Committing, RollingBack
  <2> QED BY <1>10, <2>1, <2>2, <2>3 DEF Promote
<1>11. ASSUME NEW r \in Runs, CommitDone(r) PROVE TypeOK'
  BY <1>11 DEF CommitDone, Places, Cleaning, Results
<1>12. ASSUME NEW r \in Runs, Unlink(r) PROVE TypeOK'
  <2> PICK f \in Files : Unlink(r)!2!(f)
    BY <1>12 DEF Unlink
  <2>1. top' \in [Files -> Content]
    BY DEF Content
  <2>2. applied' \in [Runs -> SUBSET Files] /\ spoiled' \subseteq Runs
    <3>1. applied[r] \ {f} \in SUBSET Files
      OBVIOUS
    <3>2. applied' = applied \/ applied' = [applied EXCEPT ![r] = @ \ {f}]
      OBVIOUS
    <3>3. spoiled' \subseteq Runs
      OBVIOUS
    <3>4. applied' \in [Runs -> SUBSET Files]
      BY <3>1, <3>2
    <3> QED BY <3>3, <3>4
  <2>3. pc' \in [Runs -> Places]
    BY <1>12 DEF Unlink, Places, RollingBack
  <2> QED BY <1>12, <2>1, <2>2, <2>3 DEF Unlink
<1>13. ASSUME NEW r \in Runs, Restore(r) PROVE TypeOK'
  <2> PICK f \in Files : Restore(r)!2!(f)
    BY <1>13 DEF Restore
  <2>0. bak[r][f] \in Content /\ Absent \in Content
    BY DEF Content
  <2>1. top' \in [Files -> Content] /\ bak' \in [Runs -> [Files -> Content]]
    <3>1. top' = top \/ top' = [top EXCEPT ![f] = bak[r][f]]
      OBVIOUS
    <3>2. bak' = bak \/ bak' = [bak EXCEPT ![r][f] = Absent]
      OBVIOUS
    <3>3. top' \in [Files -> Content]
      BY <2>0, <3>1
    <3>4. [bak[r] EXCEPT ![f] = Absent] \in [Files -> Content]
      BY <2>0
    <3>5. bak' = bak \/ bak' = [bak EXCEPT ![r] = [bak[r] EXCEPT ![f] = Absent]]
      BY <3>2
    <3>6. CASE bak' = bak
      BY <3>3, <3>6
    <3>7. CASE bak' = [bak EXCEPT ![r] = [bak[r] EXCEPT ![f] = Absent]]
      BY <3>3, <3>4, <3>7
    <3> QED BY <3>5, <3>6, <3>7
  <2>2. applied' \in [Runs -> SUBSET Files] /\ backed' \in [Runs -> SUBSET Files]
    OBVIOUS
  <2>3. pc' \in [Runs -> Places] /\ spoiled' \subseteq Runs
    BY <1>13 DEF Restore, Places, RollingBack
  <2> QED BY <1>13, <2>1, <2>2, <2>3 DEF Restore
<1>14. ASSUME NEW r \in Runs, RollbackDone(r) PROVE TypeOK'
  BY <1>14 DEF RollbackDone, Places, Cleaning, Results
<1>15. ASSUME NEW r \in Runs, CleanTmp(r) PROVE TypeOK'
  BY <1>15 DEF CleanTmp, Places, Cleaning
<1>16. ASSUME NEW r \in Runs, CleanBak(r) PROVE TypeOK'
  <2>1. bak' \in [Runs -> [Files -> Content]] /\ bakDir' \subseteq Runs
    BY <1>16 DEF CleanBak, Nothing, Content
  <2>2. pc' \in [Runs -> Places] /\ todo' \in [Runs -> SUBSET Files]
    BY <1>16 DEF CleanBak, Places
  <2> QED BY <1>16, <2>1, <2>2 DEF CleanBak
<1>17. ASSUME NEW r \in Runs, ArchiveStale(r) PROVE TypeOK'
  BY <1>17 DEF ArchiveStale, Content
<1>18. ASSUME NEW r \in Runs, ArchiveEnds(r) PROVE TypeOK'
  BY <1>18 DEF ArchiveEnds, Places
<1>19. ASSUME NEW r \in Runs, Kill(r) PROVE TypeOK'
  BY <1>19 DEF Kill, Places, Results
<1>20. ASSUME NEW r \in Runs, Interrupt(r) PROVE TypeOK'
  BY <1>20 DEF Interrupt, Places, Cleaning, Results
<1>21. ASSUME NEW r \in Runs, Age(r) PROVE TypeOK'
  <2>1. age' \in [Runs -> 0 .. 2]
    BY <1>21 DEF Age
  <2> QED BY <1>21, <2>1 DEF Age
<1>22. CASE UNCHANGED vars
  BY <1>22 DEF vars
<1> QED
  BY <1>1, <1>2, <1>3, <1>4, <1>5, <1>6, <1>7, <1>8, <1>9, <1>10, <1>11, <1>12,
     <1>13, <1>14, <1>15, <1>16, <1>17, <1>18, <1>19, <1>20, <1>21, <1>22
  DEF Next, Step, Reconcile, Commit, Rollback

\* Every variable keeps its type, whatever the runs do: a run never archives
\* or moves aside a name that holds nothing.
THEOREM Types == Spec => []TypeOK
<1>1. Init => TypeOK
  BY InitType
<1>2. TypeOK /\ [Next]_vars => TypeOK'
  BY NextType
<1> QED BY <1>1, <1>2, PTL DEF Spec

-----------------------------------------------------------------------------
(* Backups and staging directories survive other runs                       *)

LEMMA FrameKeepsSafe ==
  ASSUME NEW q \in Runs, Safe(q), Frame(q)
  PROVE  Safe(q)'
BY DEF Safe, Frame, Progress, Young, InOrder, Owed, OwedIsKept, Untouched

LEMMA InitDirs == Init => DirsInv
<1> SUFFICES ASSUME Init PROVE DirsInv
  OBVIOUS
<1>1. TypeOK
  BY InitType
<1>2. ASSUME NEW r \in Runs PROVE Safe(r)
  BY <1>2 DEF Init, Safe, Progress, Young, InOrder, Owed, OwedIsKept, Untouched, Working,
              Finished, Committing, RollingBack, Cleaning
<1> QED BY <1>1, <1>2 DEF DirsInv

LEMMA NextDirs == DirsInv /\ [Next]_vars => DirsInv'
<1> SUFFICES ASSUME DirsInv, [Next]_vars, NEW q \in Runs PROVE Safe(q)'
  BY NextType DEF DirsInv
<1> USE DEF DirsInv, TypeOK
<1>0. Safe(q)
  OBVIOUS
<1>1. ASSUME NEW r \in Runs, Start(r) PROVE Safe(q)'
  <2>1. CASE q # r
    BY <1>0, <1>1, <2>1, FrameKeepsSafe DEF Start, Frame, disk, Goto
  <2>2. CASE q = r
    BY <1>0, <1>1, <2>2 DEF Start, disk, Goto, Safe, Progress, Young, InOrder, Owed, OwedIsKept,
       Untouched, Working, Finished, Committing, RollingBack, Cleaning
  <2> QED BY <2>1, <2>2
<1>2. ASSUME NEW r \in Runs, NEW p \in Runs, ReconcileBackup(r, p) PROVE Safe(q)'
  <2>1. CASE q # p \/ UNCHANGED <<archive, bak, bakDir>>
    <3>1. bak'[q] = bak[q] /\ archive \subseteq archive'
      BY <1>2, <2>1 DEF ReconcileBackup
    <3> QED BY <1>0, <1>2, <3>1, FrameKeepsSafe DEF ReconcileBackup, Frame
  <2>2. CASE q = p /\ ~UNCHANGED <<archive, bak, bakDir>>
    <3>1. /\ q \in bakDir /\ age[q] >= 1
          /\ archive' = archive \cup {<<f, bak[q][f]>> :
                                        f \in {g \in Files : bak[q][g] # Absent}}
      BY <1>2, <2>2 DEF ReconcileBackup
    <3>2. pc[q] = "over"
      BY <1>0, <3>1 DEF Safe, Young
    <3>3. OwedIsKept(q) => OwedIsKept(q)'
      <4> SUFFICES ASSUME OwedIsKept(q), NEW f \in backed[q]
                   PROVE  <<f, before[q][f]>> \in archive'
        BY <1>2 DEF OwedIsKept, ReconcileBackup
      <4>1. before[q][f] # Absent /\ f \in Files
        BY <1>0 DEF Safe, Owed
      <4> QED BY <3>1, <4>1 DEF OwedIsKept
    <3> QED BY <1>0, <1>2, <3>2, <3>3 DEF ReconcileBackup, Safe, Progress, Young, InOrder, Owed,
               Untouched, Working, Finished, Committing, RollingBack, Cleaning
  <2> QED BY <2>1, <2>2
<1>3. ASSUME NEW r \in Runs, NEW p \in Runs, ReconcileStaging(r, p) PROVE Safe(q)'
  <2>1. CASE staged'[q] = staged[q]
    BY <1>0, <1>3, <2>1, FrameKeepsSafe DEF ReconcileStaging, Frame
  <2>2. CASE staged'[q] # staged[q]
    <3>1. pc[q] = "over"
      BY <1>0, <1>3, <2>2 DEF ReconcileStaging, Safe, Young
    <3> QED BY <1>0, <1>3, <3>1 DEF ReconcileStaging, Safe, Progress, Young, InOrder, Owed,
               OwedIsKept, Untouched, Committing, RollingBack
  <2> QED BY <2>1, <2>2
<1>4. ASSUME NEW r \in Runs, MakeStaging(r) PROVE Safe(q)'
  <2>1. CASE q # r
    BY <1>0, <1>4, <2>1, FrameKeepsSafe DEF MakeStaging, Frame, Goto, Ends
  <2>2. CASE q = r
    BY <1>0, <1>4, <2>2 DEF MakeStaging, Goto, Ends, Safe, Progress, Young, InOrder, Owed,
       OwedIsKept, Untouched, Working, Finished, Committing, RollingBack, Cleaning
  <2> QED BY <2>1, <2>2
<1>5. ASSUME NEW r \in Runs, StageFile(r) PROVE Safe(q)'
  <2>1. CASE q # r
    BY <1>0, <1>5, <2>1, FrameKeepsSafe DEF StageFile, Frame, Goto, Ends
  <2>2. CASE q = r
    BY <1>0, <1>5, <2>2 DEF StageFile, Goto, Ends, Safe, Progress, Young, InOrder, Owed,
       OwedIsKept, Untouched, Working, Finished, Committing, RollingBack, Cleaning
  <2> QED BY <2>1, <2>2
<1>6. ASSUME NEW r \in Runs, ListStaged(r) PROVE Safe(q)'
  <2>1. CASE q # r
    BY <1>0, <1>6, <2>1, FrameKeepsSafe DEF ListStaged, Frame, disk, Goto, Ends
  <2>2. CASE q = r
    BY <1>0, <1>6, <2>2 DEF ListStaged, disk, Goto, Ends, Safe, Progress, Young, InOrder, Owed,
       OwedIsKept, Untouched, Working, Finished, Committing, RollingBack, Cleaning
  <2> QED BY <2>1, <2>2
<1>7. ASSUME NEW r \in Runs, Look(r) PROVE Safe(q)'
  <2>1. CASE q # r
    BY <1>0, <1>7, <2>1, FrameKeepsSafe DEF Look, Frame, disk, Goto
  <2>2. CASE q = r
    <3> PICK f \in Files : Look(r)!2!(f)
      BY <1>7 DEF Look
    <3>1. pc[q] = "look" /\ pc'[q] \in {"move", "promote"}
      BY <1>7, <2>2 DEF Look, Goto
    <3>2. applied'[q] = applied[q] \/ applied'[q] = applied[q] \cup {f}
      BY <2>2
    <3>3. f \in todo[q] /\ f \notin backed[q]
      BY <1>0, <2>2, <3>1 DEF Safe, InOrder, First, Committing
    <3>4. UNCHANGED <<disk, todo, backed, before, result>>
      BY <1>7 DEF Look
    <3>5. InOrder(q)'
      BY <1>0, <1>7, <2>2, <3>1, <3>2, <3>3, <3>4 DEF Safe, InOrder, Committing, First, Goto
    <3> QED BY <1>0, <3>1, <3>2, <3>3, <3>4, <3>5 DEF disk, Safe, Progress, Young,
               Owed, OwedIsKept, Untouched, Working, Finished, Committing, Cleaning
  <2> QED BY <2>1, <2>2
<1>8. ASSUME NEW r \in Runs, MoveAside(r) PROVE Safe(q)'
  <2>1. CASE q # r
    BY <1>0, <1>8, <2>1, FrameKeepsSafe DEF MoveAside, Frame, Goto
  <2>2. CASE q = r
    <3> PICK f \in Files : MoveAside(r)!2!(f)
      BY <1>8 DEF MoveAside
    <3>1. pc[q] = "move" /\ pc'[q] = "promote"
      BY <1>8, <2>2 DEF MoveAside, Goto
    <3>2. /\ applied'[q] = applied[q] \cup {f} /\ backed'[q] = backed[q] \cup {f}
          /\ bak'[q] = [bak[q] EXCEPT ![f] = top[f]]
          /\ before'[q] = [before[q] EXCEPT ![f] = top[f]]
      BY <2>2
    <3>3. UNCHANGED <<age, archive, todo, staged, result>>
      BY <1>8 DEF MoveAside
    <3>4. Progress(q)' /\ Young(q)' /\ InOrder(q)'
      BY <1>0, <2>2, <3>1, <3>2, <3>3
      DEF Safe, Progress, Young, InOrder, Working, Finished, Committing, Cleaning, First
    <3>5. ASSUME NEW g \in backed'[q]
          PROVE  /\ before'[q][g] # Absent
                 /\ bak'[q][g] = before'[q][g] \/ <<g, before'[q][g]>> \in archive'
      <4>1. CASE g = f
        BY <3>2, <4>1
      <4>2. CASE g # f
        BY <1>0, <3>1, <3>2, <3>3, <4>2 DEF Safe, Owed, OwedIsKept, Progress, Working,
           Committing
      <4> QED BY <4>1, <4>2
    <3>6. ASSUME NEW g \in applied'[q] \cap backed'[q] PROVE bak'[q][g] # Absent
      BY <1>0, <3>1, <3>2 DEF Safe, Untouched, Committing
    <3> QED BY <1>0, <3>1, <3>3, <3>4, <3>5, <3>6
            DEF Safe, Owed, OwedIsKept, Untouched, Committing
  <2> QED BY <2>1, <2>2
<1>9. ASSUME NEW r \in Runs, MoveAsideFails(r) PROVE Safe(q)'
  <2>1. CASE q # r
    BY <1>0, <1>9, <2>1, FrameKeepsSafe DEF MoveAsideFails, Frame, Goto
  <2>2. CASE q = r
    BY <1>0, <1>9, <2>2 DEF MoveAsideFails, Goto, Safe, Progress, Young, InOrder, Owed,
       OwedIsKept, Untouched, Working, Finished, Committing, RollingBack, Cleaning
  <2> QED BY <2>1, <2>2
<1>10. ASSUME NEW r \in Runs, Promote(r) PROVE Safe(q)'
  <2>1. CASE q # r
    BY <1>0, <1>10, <2>1, FrameKeepsSafe DEF Promote, Frame, Goto
  <2>2. CASE q = r
    <3> PICK f \in Files : Promote(r)!2!(f)
      BY <1>10 DEF Promote
    <3>1. UNCHANGED <<bak, age, archive, applied, backed, before, result>>
      BY <1>10 DEF Promote
    <3>2. pc[q] = "promote"
      BY <1>10, <2>2 DEF Promote
    <3>3. CASE pc' = [pc EXCEPT ![r] = "look"]
      <4>1. pc'[q] = "look"
        BY <2>2, <3>3
      <4>2. todo'[q] = todo[q] \ {f} /\ staged'[q] = staged[q] \ {f}
        BY <2>2, <3>3, <4>1 DEF Goto
      <4>3. applied[q] \cap todo[q] \subseteq {f}
        BY <1>0, <2>2, <3>2 DEF Safe, InOrder, First, Files
      <4> QED BY <1>0, <3>1, <3>2, <4>1, <4>2, <4>3 DEF Safe, Progress, Young, InOrder,
                 Owed, OwedIsKept, Untouched, Working, Finished, Committing, Cleaning
    <3>4. CASE pc' # [pc EXCEPT ![r] = "look"]
      <4>1. pc'[q] = "unlink" /\ UNCHANGED <<staged, todo>>
        BY <2>2, <3>4 DEF Goto
      <4> QED BY <1>0, <3>1, <3>2, <4>1 DEF Safe, Progress, Young, InOrder, Owed,
                 OwedIsKept, Untouched, Working, Finished, Committing, RollingBack, Cleaning
    <3> QED BY <3>3, <3>4
  <2> QED BY <2>1, <2>2
<1>11. ASSUME NEW r \in Runs, CommitDone(r) PROVE Safe(q)'
  <2>1. CASE q # r
    BY <1>0, <1>11, <2>1, FrameKeepsSafe DEF CommitDone, Frame, disk, Goto, Ends
  <2>2. CASE q = r
    BY <1>0, <1>11, <2>2 DEF CommitDone, disk, Goto, Ends, Safe, Progress, Young, InOrder,
       Owed, OwedIsKept, Untouched, Working, Finished, Committing, RollingBack, Cleaning
  <2> QED BY <2>1, <2>2
<1>12. ASSUME NEW r \in Runs, Unlink(r) PROVE Safe(q)'
  <2>1. CASE q # r
    BY <1>0, <1>12, <2>1, FrameKeepsSafe DEF Unlink, Frame, Goto
  <2>2. CASE q = r
    <3> PICK f \in Files : Unlink(r)!2!(f)
      BY <1>12 DEF Unlink
    <3>1. UNCHANGED <<staged, bak, age, archive, todo, backed, before, result>>
      BY <1>12 DEF Unlink
    <3>2. pc[q] = "unlink" /\ pc'[q] \in RollingBack
      BY <1>12, <2>2 DEF Unlink, Goto, RollingBack
    <3>3. applied'[q] \subseteq applied[q]
      BY <2>2
    <3> QED BY <1>0, <3>1, <3>2, <3>3 DEF Safe, Progress, Young, InOrder, Owed, OwedIsKept,
               Untouched, Working, Finished, Committing, RollingBack, Cleaning
  <2> QED BY <2>1, <2>2
<1>13. ASSUME NEW r \in Runs, Restore(r) PROVE Safe(q)'
  <2>1. CASE q # r
    BY <1>0, <1>13, <2>1, FrameKeepsSafe DEF Restore, Frame, Goto
  <2>2. CASE q = r
    <3> PICK f \in Files : Restore(r)!2!(f)
      BY <1>13 DEF Restore
    <3>1. UNCHANGED <<staged, age, archive, todo, before, result>>
      BY <1>13 DEF Restore
    <3>2. pc[q] = "restore" /\ pc'[q] = "unlink"
      BY <1>13, <2>2 DEF Restore, Goto
    <3>3. applied'[q] = applied[q] \ {f}
      BY <2>2
    <3>4. \/ backed'[q] = backed[q] /\ bak'[q] = bak[q]
          \/ backed'[q] = backed[q] \ {f} /\ bak'[q] = [bak[q] EXCEPT ![f] = Absent]
      BY <2>2
    <3>5. \A g \in backed'[q] : g \in backed[q] /\ (g # f \/ bak'[q] = bak[q])
      BY <3>4
    <3>6. \A g \in backed'[q] : bak'[q][g] = bak[q][g]
      BY <3>4, <3>5
    <3> QED BY <1>0, <3>1, <3>2, <3>3, <3>5, <3>6 DEF Safe, Progress, Young, InOrder, Owed,
               OwedIsKept, Untouched, Working, Finished, Committing, RollingBack, Cleaning
  <2> QED BY <2>1, <2>2
<1>14. ASSUME NEW r \in Runs, RollbackDone(r) PROVE Safe(q)'
  <2>1. CASE q # r
    BY <1>0, <1>14, <2>1, FrameKeepsSafe DEF RollbackDone, Frame, disk, Goto, Ends
  <2>2. CASE q = r
    BY <1>0, <1>14, <2>2 DEF RollbackDone, disk, Goto, Ends, Safe, Progress, Young, InOrder,
       Owed, OwedIsKept, Untouched, Working, Finished, Committing, RollingBack, Cleaning
  <2> QED BY <2>1, <2>2
<1>15. ASSUME NEW r \in Runs, CleanTmp(r) PROVE Safe(q)'
  <2>1. CASE q # r
    BY <1>0, <1>15, <2>1, FrameKeepsSafe DEF CleanTmp, Frame, Goto
  <2>2. CASE q = r
    BY <1>0, <1>15, <2>2 DEF CleanTmp, Goto, Safe, Progress, Young, InOrder, Owed,
       OwedIsKept, Untouched, Working, Finished, Committing, RollingBack, Cleaning
  <2> QED BY <2>1, <2>2
<1>16. ASSUME NEW r \in Runs, CleanBak(r) PROVE Safe(q)'
  <2>1. CASE q # r
    <3>1. bak'[q] = bak[q]
      BY <1>16, <2>1 DEF CleanBak
    <3> QED BY <1>0, <1>16, <2>1, <3>1, FrameKeepsSafe DEF CleanBak, Frame, Goto
  <2>2. CASE q = r
    <3>1. pc[q] = "cleanBak" /\ pc'[q] \in {"archive", "over"}
      BY <1>16, <2>2 DEF CleanBak, Goto
    <3>2. UNCHANGED <<age, applied, backed, before, result>>
      BY <1>16 DEF CleanBak
    <3> QED BY <1>0, <3>1, <3>2 DEF Safe, Progress, Young, InOrder, Owed,
               Untouched, Working, Finished, Committing, RollingBack, Cleaning
  <2> QED BY <2>1, <2>2
<1>17. ASSUME NEW r \in Runs, ArchiveStale(r) PROVE Safe(q)'
  <2>1. CASE q # r
    BY <1>0, <1>17, <2>1, FrameKeepsSafe DEF ArchiveStale, Frame
  <2>2. CASE q = r
    BY <1>0, <1>17, <2>2 DEF ArchiveStale, Safe, Progress, Young, InOrder, Owed,
       OwedIsKept, Untouched, Working, Finished, Committing, RollingBack, Cleaning
  <2> QED BY <2>1, <2>2
<1>18. ASSUME NEW r \in Runs, ArchiveEnds(r) PROVE Safe(q)'
  <2>1. CASE q # r
    BY <1>0, <1>18, <2>1, FrameKeepsSafe DEF ArchiveEnds, Frame, disk, Goto
  <2>2. CASE q = r
    BY <1>0, <1>18, <2>2 DEF ArchiveEnds, disk, Goto, Safe, Progress, Young, InOrder, Owed,
       OwedIsKept, Untouched, Working, Finished, Committing, RollingBack, Cleaning
  <2> QED BY <2>1, <2>2
<1>19. ASSUME NEW r \in Runs, Kill(r) PROVE Safe(q)'
  <2>1. CASE q # r
    BY <1>0, <1>19, <2>1, FrameKeepsSafe DEF Kill, Frame, disk, Goto, Ends
  <2>2. CASE q = r
    BY <1>0, <1>19, <2>2 DEF Kill, disk, Goto, Ends, Safe, Progress, Young, InOrder, Owed,
       OwedIsKept, Untouched, Working, Finished, Committing, RollingBack, Cleaning
  <2> QED BY <2>1, <2>2
<1>20. ASSUME NEW r \in Runs, Interrupt(r) PROVE Safe(q)'
  <2>1. CASE q # r
    BY <1>0, <1>20, <2>1, FrameKeepsSafe DEF Interrupt, Frame, disk, Goto, Ends
  <2>2. CASE q = r
    BY <1>0, <1>20, <2>2 DEF Interrupt, disk, Goto, Ends, Safe, Progress, Young, InOrder,
       Owed, OwedIsKept, Untouched, Working, Finished, Committing, RollingBack, Cleaning
  <2> QED BY <2>1, <2>2
<1>21. ASSUME NEW r \in Runs, Age(r) PROVE Safe(q)'
  <2>1. CASE q # r
    BY <1>0, <1>21, <2>1, FrameKeepsSafe DEF Age, Frame, run
  <2>2. CASE q = r
    BY <1>0, <1>21, <2>2 DEF Age, run, Safe, Progress, Young, InOrder, Owed, OwedIsKept,
       Untouched, Working, Finished, Committing, RollingBack, Cleaning
  <2> QED BY <2>1, <2>2
<1>22. CASE UNCHANGED vars
  BY <1>0, <1>22, FrameKeepsSafe DEF vars, Frame
<1> QED
  BY <1>1, <1>2, <1>3, <1>4, <1>5, <1>6, <1>7, <1>8, <1>9, <1>10, <1>11, <1>12,
     <1>13, <1>14, <1>15, <1>16, <1>17, <1>18, <1>19, <1>20, <1>21, <1>22
  DEF Next, Step, Reconcile, Commit, Rollback

\* _reconcile_output_dir, "Never deleted": however runs overlap, fail or die,
\* what a run that is under way or was killed had moved aside is in its backup
\* directory or in the archive.
THEOREM BackupsAreSafe == Spec => []MovedAsideIsKept
<1>1. DirsInv => MovedAsideIsKept
  BY DEF DirsInv, Safe, Owed, MovedAsideIsKept
<1> QED BY <1>1, InitDirs, NextDirs, PTL DEF Spec

\* The age gates of _reconcile_output_dir: however runs overlap, none has its
\* staging directory or its backups swept while it commits or rolls back.
THEOREM LiveDirsAreSafe == Spec => []LiveDirsUntouched
<1>1. DirsInv => LiveDirsUntouched
  BY DEF DirsInv, Safe, Untouched, LiveDirsUntouched
<1> QED BY <1>1, InitDirs, NextDirs, PTL DEF Spec

-----------------------------------------------------------------------------
(* A run by itself commits everything or nothing                            *)

Alone == \A r \in alone, q \in Runs : Live(r) /\ Live(q) => r = q

\* While r commits: a file it has promoted holds its bytes, every other one
\* that is not recorded in "applied" is as r found it.
Committed(r) ==
    /\ applied[r] \subseteq outs[r] /\ todo[r] \subseteq outs[r]
    /\ outs[r] \ todo[r] \subseteq applied[r]
    /\ \A f \in outs[r] \ todo[r] : top[f] = r
    /\ \A f \in Files \ applied[r] : top[f] = before[r][f]
    /\ pc[r] = "promote" => \A f \in Files : First(f, todo[r]) => f \in applied[r]

\* What "applied" records suffices to undo it.
Undoable(r) ==
    \A f \in applied[r] : IF f \in backed[r] THEN bak[r][f] = before[r][f]
                                            ELSE before[r][f] = Absent

\* While r rolls back: what is no longer in "applied" is as r found it.
Undone(r) ==
    /\ r \notin spoiled => \A f \in Files \ applied[r] : top[f] = before[r][f]
    /\ pc[r] = "restore" => \A f \in Files : Last(f, applied[r]) => top[f] = Absent

Settled(r) ==
    /\ result[r] = "committed" => top = Published(r)
    /\ result[r] = "failed" /\ r \notin spoiled => top = before[r]

Ledger(r) ==
    /\ pc[r] \in {"reconcile", "write"} => top = before[r]
    /\ pc[r] \in Committing => Committed(r)
    /\ pc[r] \in Committing \cup RollingBack => Undoable(r)
    /\ pc[r] \in RollingBack => Undone(r)
    /\ pc[r] \in Cleaning => Settled(r)

AloneInv == DirsInv /\ Alone /\ \A r \in alone : Ledger(r)

\* The step is one of r's own, after its start.
OthersRest(r) ==
    /\ Live(r) /\ alone' = alone
    /\ \A q \in Runs \ {r} : pc'[q] = pc[q]

LEMMA OnlyOneMoves ==
  ASSUME TypeOK, Alone, NEW r \in Runs, OthersRest(r), r \in alone => Ledger(r)'
  PROVE  Alone' /\ \A q \in alone' : Ledger(q)'
<1>0. alone \subseteq Runs /\ alone' = alone
  BY DEF TypeOK, OthersRest
<1>1. \A q \in alone \ {r} : pc'[q] \in {"idle", "over"}
  BY <1>0 DEF Alone, OthersRest, Live
<1>2. r \in alone => \A q \in Runs \ {r} : pc'[q] \in {"idle", "over"}
  BY DEF Alone, OthersRest, Live
<1>3. Alone'
  BY <1>0, <1>1, <1>2 DEF Alone, Live
<1>4. \A q \in alone \ {r} : Ledger(q)'
  BY <1>1 DEF Ledger, Committing, RollingBack, Cleaning
<1> QED BY <1>0, <1>3, <1>4

LEMMA InitAlone == Init => AloneInv
<1> SUFFICES ASSUME Init PROVE AloneInv
  OBVIOUS
<1>1. \A r \in Runs : pc[r] = "idle"
  BY DEF Init
<1>2. Alone
  BY <1>1 DEF Alone, Live
<1>3. \A r \in alone : Ledger(r)
  BY <1>1 DEF Init, Ledger, Committing, RollingBack, Cleaning
<1> QED BY <1>2, <1>3, InitDirs DEF AloneInv

LEMMA NextAlone == AloneInv /\ [Next]_vars => AloneInv'
<1> SUFFICES ASSUME AloneInv, [Next]_vars
             PROVE  Alone' /\ \A q \in alone' : Ledger(q)'
  BY NextDirs DEF AloneInv
<1> USE DEF DirsInv, TypeOK
<1>0. /\ Alone /\ TypeOK
      /\ \A q \in Runs : Safe(q)
      /\ \A q \in alone : Ledger(q)
  BY DEF AloneInv
<1>1. ASSUME NEW r \in Runs, Start(r) PROVE Alone' /\ \A q \in alone' : Ledger(q)'
  <2>1. /\ pc[r] = "idle" /\ pc'[r] = "reconcile"
        /\ \A q \in Runs \ {r} : pc'[q] = pc[q]
        /\ top' = top /\ before'[r] = top
    BY <1>0, <1>1 DEF Start, Goto, disk
  <2>2. alone' \subseteq alone /\ alone \subseteq Runs
    BY <1>0, <1>1 DEF Start
  <2>3. ASSUME NEW q \in alone', q # r PROVE ~Live(q) /\ pc'[q] \in {"idle", "over"}
    <3>1. ~Live(q)
      BY <1>1, <2>2, <2>3 DEF Start, Company
    <3> QED BY <2>1, <2>2, <2>3, <3>1 DEF Live
  <2>4. ASSUME r \in alone', NEW q \in Runs, q # r PROVE ~Live(q)
    BY <1>1, <2>4 DEF Start, Company
  <2>5. Alone'
    BY <2>1, <2>2, <2>3, <2>4 DEF Alone, Live
  <2>6. \A q \in alone' : Ledger(q)'
    BY <2>1, <2>2, <2>3 DEF Ledger, Committing, RollingBack, Cleaning
  <2> QED BY <2>5, <2>6
<1>2. ASSUME NEW r \in Runs, NEW p \in Runs, ReconcileBackup(r, p) \/ ReconcileStaging(r, p)
      PROVE  Alone' /\ \A q \in alone' : Ledger(q)'
  <2>1. pc[r] = "reconcile" /\ UNCHANGED <<pc, top, before>>
    BY <1>2 DEF ReconcileBackup, ReconcileStaging
  <2>2. OthersRest(r)
    BY <1>2, <2>1 DEF OthersRest, Live, ReconcileBackup, ReconcileStaging
  <2> SUFFICES ASSUME r \in alone PROVE Ledger(r)'
    BY <1>0, <2>2, OnlyOneMoves
  <2> QED BY <1>0, <2>1 DEF Ledger, Committing, RollingBack, Cleaning
<1>3. ASSUME NEW r \in Runs, MakeStaging(r) PROVE Alone' /\ \A q \in alone' : Ledger(q)'
  <2>1. OthersRest(r)
    BY <1>0, <1>3 DEF OthersRest, Live, MakeStaging, Goto
  <2> SUFFICES ASSUME r \in alone PROVE Ledger(r)'
    BY <1>0, <2>1, OnlyOneMoves
  <2>2. Ledger(r)'
    BY <1>0, <1>3 DEF MakeStaging, Goto, Ledger, Committing, RollingBack, Cleaning
  <2> QED BY <1>0, <2>1, <2>2
<1>4. ASSUME NEW r \in Runs, StageFile(r) PROVE Alone' /\ \A q \in alone' : Ledger(q)'
  <2>1. OthersRest(r)
    BY <1>0, <1>4 DEF OthersRest, Live, StageFile, Goto
  <2> SUFFICES ASSUME r \in alone PROVE Ledger(r)'
    BY <1>0, <2>1, OnlyOneMoves
  <2>2. UNCHANGED <<top, before>> /\ pc[r] = "write"
    BY <1>4 DEF StageFile
  <2>3. pc'[r] = "write" \/ (pc'[r] = "cleanTmp" /\ result'[r] = "failed")
    BY <1>0, <1>4 DEF StageFile, Goto, Ends
  <2>4. Ledger(r)'
    BY <1>0, <2>2, <2>3 DEF Ledger, Settled, Committing, RollingBack, Cleaning
  <2> QED BY <1>0, <2>1, <2>4
<1>5. ASSUME NEW r \in Runs, ListStaged(r) PROVE Alone' /\ \A q \in alone' : Ledger(q)'
  <2>1. OthersRest(r)
    BY <1>0, <1>5 DEF OthersRest, Live, ListStaged, Goto
  <2> SUFFICES ASSUME r \in alone PROVE Ledger(r)'
    BY <1>0, <2>1, OnlyOneMoves
  <2>2. pc[r] = "write" /\ UNCHANGED <<top, before, applied, outs>>
    BY <1>0, <1>5 DEF ListStaged, disk
  <2>3. top = before[r] /\ applied[r] = {}
    BY <1>0, <2>2 DEF Safe, Progress, Ledger
  <2>4. CASE pc'[r] = "look" /\ todo'[r] = outs[r]
    <3>1. Committed(r)' /\ Undoable(r)'
      BY <1>0, <2>2, <2>3, <2>4 DEF Committed, Undoable
    <3> QED BY <1>0, <2>1, <2>4, <3>1
            DEF Ledger, Committing, RollingBack, Cleaning
  <2>5. CASE pc'[r] = "cleanTmp" /\ result'[r] = "failed"
    BY <1>0, <2>1, <2>2, <2>3, <2>5
    DEF Ledger, Settled, Committing, RollingBack, Cleaning
  <2>6. \/ pc'[r] = "look" /\ todo'[r] = outs[r]
        \/ pc'[r] = "cleanTmp" /\ result'[r] = "failed"
    BY <1>0, <1>5 DEF ListStaged, Goto, Ends
  <2> QED BY <2>4, <2>5, <2>6
<1>6. ASSUME NEW r \in Runs, Look(r) PROVE Alone' /\ \A q \in alone' : Ledger(q)'
  <2> PICK f \in Files : Look(r)!2!(f)
    BY <1>6 DEF Look
  <2>1. OthersRest(r)
    BY <1>0, <1>6 DEF OthersRest, Live, Look, Goto
  <2> SUFFICES ASSUME r \in alone PROVE Ledger(r)'
    BY <1>0, <2>1, OnlyOneMoves
  <2>2. /\ pc[r] = "look"
        /\ UNCHANGED <<top, bak, before, backed, todo, outs>>
    BY <1>6 DEF Look, disk
  <2>3. f \notin applied[r] /\ f \notin backed[r] /\ f \in outs[r]
    BY <1>0, <2>2 DEF Safe, InOrder, First, Ledger, Committed, Committing
  <2>4. \A g \in Files : First(g, todo[r]) => g = f
    BY DEF First, Files
  <2>5. CASE top[f] = Absent /\ applied' = [applied EXCEPT ![r] = @ \cup {f}]
             /\ Goto(r, "promote")
    <3>1. before[r][f] = Absent
      BY <1>0, <2>2, <2>3, <2>5 DEF Ledger, Committed, Committing
    <3>2. pc'[r] = "promote" /\ applied'[r] = applied[r] \cup {f}
      BY <1>0, <2>5 DEF Goto
    <3>3. Committed(r)' /\ Undoable(r)'
      BY <1>0, <2>2, <2>3, <2>4, <3>1, <3>2
      DEF Ledger, Committed, Undoable, Committing, First
    <3> QED BY <1>0, <2>1, <3>2, <3>3
            DEF Ledger, Committing, RollingBack, Cleaning
  <2>6. CASE Goto(r, "move") /\ UNCHANGED applied
    <3>1. pc'[r] = "move"
      BY <1>0, <2>6 DEF Goto
    <3>2. Committed(r)' /\ Undoable(r)'
      BY <1>0, <2>2, <2>6, <3>1 DEF Ledger, Committed, Undoable, Committing
    <3> QED BY <1>0, <2>1, <3>1, <3>2
            DEF Ledger, Committing, RollingBack, Cleaning
  <2> QED BY <2>5, <2>6
<1>7. ASSUME NEW r \in Runs, MoveAside(r) PROVE Alone' /\ \A q \in alone' : Ledger(q)'
  <2> PICK f \in Files : MoveAside(r)!2!(f)
    BY <1>7 DEF MoveAside
  <2>1. OthersRest(r)
    BY <1>0, <1>7 DEF OthersRest, Live, MoveAside, Goto
  <2> SUFFICES ASSUME r \in alone PROVE Ledger(r)'
    BY <1>0, <2>1, OnlyOneMoves
  <2>2. pc[r] = "move" /\ pc'[r] = "promote" /\ UNCHANGED <<todo, outs>>
    BY <1>0, <1>7 DEF MoveAside, Goto
  <2>3. f \notin applied[r] /\ f \in outs[r] /\ f \in todo[r]
    BY <1>0, <2>2 DEF Safe, InOrder, First, Ledger, Committed, Committing
  <2>4. \A g \in Files : First(g, todo[r]) => g = f
    BY DEF First, Files
  <2>5. /\ applied'[r] = applied[r] \cup {f} /\ backed'[r] = backed[r] \cup {f}
        /\ bak'[r] = [bak[r] EXCEPT ![f] = top[f]]
        /\ before'[r] = [before[r] EXCEPT ![f] = top[f]]
        /\ \A g \in Files \ {f} : top'[g] = top[g]
    BY <1>0
  <2>6. Committed(r)'
    BY <1>0, <2>2, <2>3, <2>4, <2>5 DEF Ledger, Committed, Committing, First
  <2>7. Undoable(r)'
    BY <1>0, <2>2, <2>3, <2>5 DEF Ledger, Undoable, Committing
  <2> QED BY <1>0, <2>1, <2>2, <2>6, <2>7
          DEF Ledger, Committing, RollingBack, Cleaning
<1>8. ASSUME NEW r \in Runs, MoveAsideFails(r) PROVE Alone' /\ \A q \in alone' : Ledger(q)'
  <2>1. OthersRest(r)
    BY <1>0, <1>8 DEF OthersRest, Live, MoveAsideFails, Goto
  <2> SUFFICES ASSUME r \in alone PROVE Ledger(r)'
    BY <1>0, <2>1, OnlyOneMoves
  <2>2. /\ pc[r] = "move" /\ pc'[r] = "unlink"
        /\ UNCHANGED <<top, bak, before, applied, backed, spoiled>>
    BY <1>0, <1>8 DEF MoveAsideFails, Goto
  <2> QED BY <1>0, <2>1, <2>2
          DEF Ledger, Committed, Undone, Undoable, Committing, RollingBack, Cleaning
<1>9. ASSUME NEW r \in Runs, Promote(r) PROVE Alone' /\ \A q \in alone' : Ledger(q)'
  <2> PICK f \in Files : Promote(r)!2!(f)
    BY <1>9 DEF Promote
  <2>1. OthersRest(r)
    BY <1>0, <1>9 DEF OthersRest, Live, Promote, Goto
  <2> SUFFICES ASSUME r \in alone PROVE Ledger(r)'
    BY <1>0, <2>1, OnlyOneMoves
  <2>2. pc[r] = "promote" /\ UNCHANGED <<bak, before, applied, backed, outs>>
    BY <1>9 DEF Promote
  <2>3. f \in applied[r] /\ f \in todo[r]
    BY <1>0, <2>2 DEF Ledger, Committed, Committing, First
  <2>4. CASE /\ top' = [top EXCEPT ![f] = r]
             /\ todo' = [todo EXCEPT ![r] = @ \ {f}]
             /\ Goto(r, "look")
    <3>1. pc'[r] = "look" /\ todo'[r] = todo[r] \ {f}
      BY <1>0, <2>4 DEF Goto
    <3>2. top'[f] = r /\ \A g \in Files \ {f} : top'[g] = top[g]
      BY <1>0, <2>4
    <3>3. Committed(r)' /\ Undoable(r)'
      BY <1>0, <2>2, <2>3, <3>1, <3>2 DEF Ledger, Committed, Undoable, Committing
    <3> QED BY <1>0, <2>1, <3>1, <3>3
            DEF Ledger, Committing, RollingBack, Cleaning
  <2>5. CASE Goto(r, "unlink") /\ UNCHANGED <<top, staged, todo>>
    <3>1. pc'[r] = "unlink"
      BY <1>0, <2>5 DEF Goto
    <3>2. Undone(r)' /\ Undoable(r)'
      BY <1>0, <2>2, <2>5, <3>1 DEF Ledger, Committed, Undone, Undoable, Committing
    <3> QED BY <1>0, <2>1, <3>1, <3>2
            DEF Ledger, Committing, RollingBack, Cleaning
  <2> QED BY <2>4, <2>5
<1>10. ASSUME NEW r \in Runs, CommitDone(r) PROVE Alone' /\ \A q \in alone' : Ledger(q)'
  <2>1. OthersRest(r)
    BY <1>0, <1>10 DEF OthersRest, Live, CommitDone, Goto
  <2> SUFFICES ASSUME r \in alone PROVE Ledger(r)'
    BY <1>0, <2>1, OnlyOneMoves
  <2>2. /\ pc[r] = "look" /\ todo[r] = {} /\ pc'[r] = "cleanTmp"
        /\ result'[r] = "committed" /\ UNCHANGED <<top, before, outs>>
    BY <1>0, <1>10 DEF CommitDone, Goto, Ends, disk
  <2>3. \A f \in Files : top[f] = IF f \in outs[r] THEN r ELSE before[r][f]
    BY <1>0, <2>2 DEF Ledger, Committed, Committing
  <2>4. top' = Published(r)'
    BY <1>0, <2>2, <2>3 DEF Published
  <2> QED BY <1>0, <2>1, <2>2, <2>4
          DEF Ledger, Settled, Committing, RollingBack, Cleaning
<1>11. ASSUME NEW r \in Runs, Unlink(r) PROVE Alone' /\ \A q \in alone' : Ledger(q)'
  <2> PICK f \in Files : Unlink(r)!2!(f)
    BY <1>11 DEF Unlink
  <2>1. OthersRest(r)
    BY <1>0, <1>11 DEF OthersRest, Live, Unlink, Goto
  <2> SUFFICES ASSUME r \in alone PROVE Ledger(r)'
    BY <1>0, <2>1, OnlyOneMoves
  <2>2. pc[r] = "unlink" /\ UNCHANGED <<bak, before, backed>>
    BY <1>11 DEF Unlink
  <2>3. \A g \in Files : Last(g, applied[r]) => g = f
    BY DEF Last, Files
  <2>4. CASE /\ top' = [top EXCEPT ![f] = Absent]
             /\ Goto(r, "restore")
             /\ UNCHANGED <<applied, spoiled>>
    <3>1. pc'[r] = "restore" /\ top'[f] = Absent /\ \A g \in Files \ {f} : top'[g] = top[g]
      BY <1>0, <2>4 DEF Goto
    <3>2. f \in applied[r]
      BY DEF Last
    <3>3. Undone(r)' /\ Undoable(r)'
      BY <1>0, <2>2, <2>3, <2>4, <3>1, <3>2
      DEF Ledger, Undone, Undoable, RollingBack, Last
    <3> QED BY <1>0, <2>1, <3>1, <3>3
            DEF Ledger, Committing, RollingBack, Cleaning
  <2>5. CASE /\ applied' = [applied EXCEPT ![r] = @ \ {f}]
             /\ spoiled' = spoiled \cup {r}
             /\ UNCHANGED <<top, pc>>
    <3>1. applied'[r] = applied[r] \ {f} /\ r \in spoiled'
      BY <1>0, <2>5
    <3>2. Undone(r)' /\ Undoable(r)'
      BY <1>0, <2>2, <2>5, <3>1 DEF Ledger, Undone, Undoable, RollingBack
    <3> QED BY <1>0, <2>1, <2>2, <2>5, <3>2
            DEF Ledger, Committing, RollingBack, Cleaning
  <2> QED BY <2>4, <2>5
<1>12. ASSUME NEW r \in Runs, Restore(r) PROVE Alone' /\ \A q \in alone' : Ledger(q)'
  <2> PICK f \in Files : Restore(r)!2!(f)
    BY <1>12 DEF Restore
  <2>1. OthersRest(r)
    BY <1>0, <1>12 DEF OthersRest, Live, Restore, Goto
  <2> SUFFICES ASSUME r \in alone PROVE Ledger(r)'
    BY <1>0, <2>1, OnlyOneMoves
  <2>2. pc[r] = "restore" /\ pc'[r] = "unlink" /\ UNCHANGED before
    BY <1>0, <1>12 DEF Restore, Goto
  <2>3. applied'[r] = applied[r] \ {f} /\ f \in applied[r] /\ top[f] = Absent
    BY <1>0, <2>2 DEF Ledger, Undone, RollingBack, Last
  <2>4. CASE f \notin backed[r] /\ UNCHANGED <<top, bak, backed, spoiled>>
    <3>1. before[r][f] = Absent
      BY <1>0, <2>2, <2>3, <2>4 DEF Ledger, Undoable, RollingBack
    <3>2. Undone(r)' /\ Undoable(r)'
      BY <1>0, <2>2, <2>3, <2>4, <3>1 DEF Ledger, Undone, Undoable, RollingBack
    <3> QED BY <1>0, <2>1, <2>2, <3>2
            DEF Ledger, Committing, RollingBack, Cleaning
  <2>5. CASE /\ f \in backed[r]
             /\ top' = [top EXCEPT ![f] = bak[r][f]]
             /\ bak' = [bak EXCEPT ![r][f] = Absent]
             /\ backed' = [backed EXCEPT ![r] = @ \ {f}]
             /\ UNCHANGED spoiled
    <3>1. bak[r][f] = before[r][f]
      BY <1>0, <2>2, <2>3, <2>5 DEF Ledger, Undoable, RollingBack
    <3>2. top'[f] = before[r][f] /\ \A g \in Files \ {f} : top'[g] = top[g]
      BY <1>0, <2>5, <3>1
    <3>3. backed'[r] = backed[r] \ {f} /\ \A g \in Files \ {f} : bak'[r][g] = bak[r][g]
      BY <1>0, <2>5
    <3>4. Undone(r)' /\ Undoable(r)'
      BY <1>0, <2>2, <2>3, <2>5, <3>2, <3>3 DEF Ledger, Undone, Undoable, RollingBack
    <3> QED BY <1>0, <2>1, <2>2, <3>4
            DEF Ledger, Committing, RollingBack, Cleaning
  <2>6. CASE spoiled' = spoiled \cup {r} /\ UNCHANGED <<top, bak, backed>>
    BY <1>0, <2>1, <2>2, <2>3, <2>6
    DEF Ledger, Undone, Undoable, Committing, RollingBack, Cleaning
  <2> QED BY <2>4, <2>5, <2>6
<1>13. ASSUME NEW r \in Runs, RollbackDone(r) PROVE Alone' /\ \A q \in alone' : Ledger(q)'
  <2>1. OthersRest(r)
    BY <1>0, <1>13 DEF OthersRest, Live, RollbackDone, Goto
  <2> SUFFICES ASSUME r \in alone PROVE Ledger(r)'
    BY <1>0, <2>1, OnlyOneMoves
  <2>2. /\ pc[r] = "unlink" /\ applied[r] = {} /\ pc'[r] = "cleanTmp"
        /\ result'[r] = "failed" /\ UNCHANGED <<top, before, spoiled>>
    BY <1>0, <1>13 DEF RollbackDone, Goto, Ends, disk
  <2>3. r \notin spoiled => top = before[r]
    BY <1>0, <2>2 DEF Ledger, Undone, RollingBack
  <2> QED BY <1>0, <2>1, <2>2, <2>3
          DEF Ledger, Settled, Committing, RollingBack, Cleaning
<1>14. ASSUME NEW r \in Runs, CleanTmp(r) PROVE Alone' /\ \A q \in alone' : Ledger(q)'
  <2>1. OthersRest(r)
    BY <1>0, <1>14 DEF OthersRest, Live, CleanTmp, Goto
  <2> SUFFICES ASSUME r \in alone PROVE Ledger(r)'
    BY <1>0, <2>1, OnlyOneMoves
  <2>2. /\ pc[r] = "cleanTmp" /\ pc'[r] = "cleanBak"
        /\ UNCHANGED <<top, before, result, spoiled, outs>>
    BY <1>0, <1>14 DEF CleanTmp, Goto
  <2> QED BY <1>0, <2>1, <2>2
          DEF Ledger, Settled, Published, Committing, RollingBack, Cleaning
<1>15. ASSUME NEW r \in Runs, CleanBak(r) \/ ArchiveStale(r) \/ ArchiveEnds(r) \/ Kill(r)
       PROVE  Alone' /\ \A q \in alone' : Ledger(q)'
  <2>1. OthersRest(r)
    BY <1>0, <1>15 DEF OthersRest, Live, CleanBak, ArchiveStale, ArchiveEnds, Kill, Goto,
       Cleaning
  <2> SUFFICES ASSUME r \in alone PROVE Ledger(r)'
    BY <1>0, <2>1, OnlyOneMoves
  <2>2. pc'[r] \in {"archive", "over"}
    BY <1>0, <1>15 DEF CleanBak, ArchiveStale, ArchiveEnds, Kill, Goto
  <2> QED BY <1>0, <2>1, <2>2
          DEF Ledger, Committing, RollingBack, Cleaning
<1>16. ASSUME NEW r \in Runs, Interrupt(r) PROVE Alone' /\ \A q \in alone' : Ledger(q)'
  <2>1. OthersRest(r)
    BY <1>0, <1>16 DEF OthersRest, Live, Interrupt, Goto, Committing, RollingBack
  <2> SUFFICES ASSUME r \in alone PROVE Ledger(r)'
    BY <1>0, <2>1, OnlyOneMoves
  <2>2. pc'[r] = "cleanTmp" /\ result'[r] = "interrupted"
    BY <1>0, <1>16 DEF Interrupt, Goto, Ends
  <2> QED BY <1>0, <2>1, <2>2
          DEF Ledger, Settled, Committing, RollingBack, Cleaning
<1>17. ASSUME UNCHANGED <<top, bak, run>> PROVE Alone' /\ \A q \in alone' : Ledger(q)'
  BY <1>0, <1>17 DEF run, Alone, Live, Ledger, Committed, Undoable, Undone, Settled,
     Published
<1>18. ASSUME NEW r \in Runs, Age(r) PROVE UNCHANGED <<top, bak, run>>
  BY <1>18 DEF Age
<1>19. CASE UNCHANGED vars
  BY <1>17, <1>19 DEF vars, run
<1> QED
  BY <1>1, <1>2, <1>3, <1>4, <1>5, <1>6, <1>7, <1>8, <1>9, <1>10, <1>11, <1>12,
     <1>13, <1>14, <1>15, <1>16, <1>17, <1>18, <1>19
  DEF Next, Step, Reconcile, Commit, Rollback

\* save_all, "all succeed or none are committed", for every run no other one
\* overlapped, whatever the runs before it did to the folder.
THEOREM SaveIsAllOrNothing == Spec => []AllOrNothing
<1>1. AloneInv => AllOrNothing
  BY DEF AloneInv, Ledger, Settled, AllOrNothing
<1>2. AloneInv /\ [Next]_vars => AloneInv'
  BY NextAlone
<1> QED BY <1>1, <1>2, InitAlone, PTL DEF Spec

-----------------------------------------------------------------------------
(* Until two runs meet the folder implements AtomicOutput                   *)

\* Each file of an undecided run is new, old or missing, every other one is
\* as the run found it.
Partly(r) ==
    /\ applied[r] \subseteq outs[r]
    /\ \A f \in Files :
          top[f] = before[r][f] \/ (f \in outs[r] /\ top[f] \in {r, Absent})
    /\ pc[r] = "promote" => \A f \in Files : First(f, todo[r]) => top[f] = Absent

\* What the atomic folder records of a run follows from where the run is.
Tale(r) ==
    /\ pc[r] = "idle" <=> outs[r] = {}
    /\ pc[r] \in Working <=> result[r] = "running"
    /\ r \in spoiled => pc[r] \in RollingBack \cup Finished \cup {"over"}
    /\ pc[r] = "archive" => result[r] = "committed" /\ todo[r] \cap outs[r] = {}
    /\ Undecided(r) => Partly(r)

ApartInv == AloneInv /\ (alone = Runs => \A r \in Runs : Tale(r))

\* A step that leaves the other runs where they are.
Aside(r) ==
    \A q \in Runs \ {r} :
        /\ pc'[q] = pc[q] /\ outs'[q] = outs[q] /\ result'[q] = result[q]
        /\ q \in spoiled' <=> q \in spoiled

Quiet(r) == \A q \in Runs \ {r} : pc[q] \in {"idle", "over"}

LEMMA OthersKeepTheirTale ==
  ASSUME NEW r \in Runs, \A q \in Runs : Tale(q), Quiet(r), Aside(r)
  PROVE  \A q \in Runs \ {r} : Tale(q)'
<1> SUFFICES ASSUME NEW q \in Runs \ {r} PROVE Tale(q)'
  OBVIOUS
<1>1. /\ Tale(q) /\ pc[q] \in {"idle", "over"}
      /\ pc'[q] = pc[q] /\ outs'[q] = outs[q] /\ result'[q] = result[q]
      /\ q \in spoiled' <=> q \in spoiled
  BY DEF Quiet, Aside
<1> QED BY <1>1 DEF Tale, Undecided, Committing, RollingBack

LEMMA OneIsLive ==
  ASSUME AloneInv, alone = Runs, NEW r \in Runs, Live(r)
  PROVE  Quiet(r)
BY DEF AloneInv, Alone, Live, Quiet

LEMMA InitApart == Init => ApartInv
<1> SUFFICES ASSUME Init PROVE ApartInv
  OBVIOUS
<1>1. ASSUME NEW r \in Runs PROVE Tale(r)
  BY DEF Init, Tale, Undecided, Working, Committing, RollingBack
<1> QED BY <1>1, InitAlone DEF ApartInv

\* The run that moves is the only one alive, and no run has met another.
Solo(r) ==
    /\ AloneInv /\ AloneInv' /\ alone = Runs /\ alone' = Runs
    /\ Tale(r) /\ Quiet(r)

Keeping(r) == Aside(r) /\ Tale(r)'

LEMMA StagingKeepsTale ==
  ASSUME NEW r \in Runs, Solo(r)
  PROVE  /\ Start(r) => Keeping(r)
         /\ Reconcile(r) => Keeping(r)
         /\ MakeStaging(r) => Keeping(r)
         /\ StageFile(r) => Keeping(r)
         /\ ListStaged(r) => Keeping(r)
<1> USE DEF Keeping, Aside, Goto, Ends, TypeOK
<1>0. TypeOK /\ Tale(r) /\ Safe(r) /\ Ledger(r)
  BY DEF Solo, AloneInv, DirsInv
<1>1. ASSUME Start(r) PROVE Keeping(r)
  BY <1>0, <1>1 DEF Start, disk, Tale, Undecided, Working, Committing, RollingBack, Finished, Cleaning
<1>2. ASSUME Reconcile(r) PROVE Keeping(r)
  <2>1. pc[r] = "reconcile" /\ UNCHANGED <<pc, outs, result, spoiled>>
    BY <1>2 DEF Reconcile, ReconcileBackup, ReconcileStaging
  <2> QED BY <1>0, <2>1 DEF Tale, Undecided, Committing, RollingBack
<1>3. ASSUME MakeStaging(r) PROVE Keeping(r)
  BY <1>0, <1>3 DEF MakeStaging, Tale, Undecided, Working, Committing, RollingBack, Finished, Cleaning
<1>4. ASSUME StageFile(r) PROVE Keeping(r)
  <2>1. /\ pc[r] = "write" /\ UNCHANGED <<outs, spoiled>>
        /\ \/ UNCHANGED <<pc, result>>
           \/ Goto(r, "cleanTmp") /\ Ends(r, "failed")
    BY <1>4 DEF StageFile
  <2> QED BY <1>0, <2>1 DEF Tale, Undecided, Working, Committing, RollingBack, Finished, Cleaning
<1>5. ASSUME ListStaged(r) PROVE Keeping(r)
  <2>1. /\ pc[r] = "write" /\ UNCHANGED <<top, outs, spoiled, before, applied>>
        /\ \/ Goto(r, "look") /\ UNCHANGED result
           \/ Goto(r, "cleanTmp") /\ Ends(r, "failed")
    BY <1>5 DEF ListStaged, disk
  <2>2. applied[r] = {} /\ top = before[r]
    BY <1>0, <2>1 DEF Safe, Progress, Ledger
  <2> QED BY <1>0, <2>1, <2>2 DEF Tale, Undecided, Partly, Working, Committing, RollingBack, Finished, Cleaning
<1> QED BY <1>1, <1>2, <1>3, <1>4, <1>5

\* While the commit is undecided r's program counter says what it is doing,
\* and the facts about its files hold.
LEMMA UndecidedFacts ==
  ASSUME NEW r \in Runs, Solo(r), Undecided(r)
  PROVE  /\ TypeOK /\ Partly(r) /\ outs[r] # {} /\ result[r] = "running"
         /\ pc[r] \in Committing => Committed(r) /\ r \notin spoiled
         /\ pc[r] \in {"look", "move"} => applied[r] \cap todo[r] = {}
         /\ Undoable(r)
         /\ pc[r] \in RollingBack => Undone(r)
BY DEF Solo, AloneInv, DirsInv, Safe, InOrder, Ledger, Tale, Undecided, Working, Finished,
   Committing, RollingBack, Cleaning

LEMMA CommitKeepsTale ==
  ASSUME NEW r \in Runs, Solo(r)
  PROVE  /\ Look(r) => Keeping(r)
         /\ MoveAside(r) => Keeping(r)
         /\ MoveAsideFails(r) => Keeping(r)
         /\ Promote(r) => Keeping(r)
         /\ CommitDone(r) => Keeping(r)
<1> USE DEF Keeping, Aside, Goto, Ends, TypeOK
<1>0. TypeOK
  BY DEF Solo, AloneInv, DirsInv
<1>1. ASSUME Look(r) PROVE Keeping(r)
  <2> PICK f \in Files : Look(r)!2!(f)
    BY <1>1 DEF Look
  <2>1. pc[r] = "look" /\ UNCHANGED <<top, before, todo, outs, result, spoiled>>
    BY <1>1 DEF Look, disk
  <2>2. Undecided(r)
    BY <2>1 DEF Undecided, Committing
  <2>3. Partly(r) /\ Committed(r) /\ outs[r] # {} /\ result[r] = "running" /\ r \notin spoiled
    BY <2>1, <2>2, UndecidedFacts DEF Committing
  <2>4. f \in outs[r] /\ \A g \in Files : First(g, todo[r]) => g = f
    BY <2>3 DEF Committed, First, Files
  <2>5. \/ pc'[r] = "promote" /\ top[f] = Absent /\ applied'[r] = applied[r] \cup {f}
        \/ pc'[r] = "move" /\ applied'[r] = applied[r]
    BY <1>0
  <2>6. Partly(r)'
    BY <2>1, <2>3, <2>4, <2>5 DEF Partly
  <2>7. \A q \in Runs \ {r} : pc'[q] = pc[q]
    BY <1>0
  <2>8. pc'[r] \in Committing
    BY <2>5 DEF Committing
  <2> QED BY <2>1, <2>3, <2>6, <2>7, <2>8 DEF Tale, Undecided, Working, Committing, RollingBack, Finished
<1>2. ASSUME MoveAside(r) PROVE Keeping(r)
  <2> PICK f \in Files : MoveAside(r)!2!(f)
    BY <1>2 DEF MoveAside
  <2>1. /\ pc[r] = "move" /\ pc'[r] = "promote" /\ UNCHANGED <<todo, outs, result, spoiled>>
        /\ \A q \in Runs \ {r} : pc'[q] = pc[q]
    BY <1>0, <1>2 DEF MoveAside
  <2>2. Undecided(r)
    BY <2>1 DEF Undecided, Committing
  <2>3. Partly(r) /\ Committed(r) /\ outs[r] # {} /\ result[r] = "running" /\ r \notin spoiled
    BY <2>1, <2>2, UndecidedFacts DEF Committing
  <2>4. f \in outs[r] /\ \A g \in Files : First(g, todo[r]) => g = f
    BY <2>3 DEF Committed, First, Files
  <2>5. /\ applied'[r] = applied[r] \cup {f}
        /\ before'[r] = [before[r] EXCEPT ![f] = top[f]]
        /\ top' = [top EXCEPT ![f] = Absent]
    BY <1>0
  <2>6. Partly(r)'
    BY <1>0, <2>1, <2>3, <2>4, <2>5 DEF Partly
  <2> QED BY <2>1, <2>3, <2>6 DEF Tale, Undecided, Working, Committing, RollingBack, Finished
<1>3. ASSUME MoveAsideFails(r) PROVE Keeping(r)
  <2>1. /\ pc[r] = "move" /\ pc'[r] = "unlink"
        /\ UNCHANGED <<top, applied, todo, outs, result, spoiled, before>>
        /\ \A q \in Runs \ {r} : pc'[q] = pc[q]
    BY <1>0, <1>3 DEF MoveAsideFails
  <2>2. Undecided(r)
    BY <2>1 DEF Undecided, Committing
  <2>3. Partly(r) /\ outs[r] # {} /\ result[r] = "running" /\ r \notin spoiled
    BY <2>1, <2>2, UndecidedFacts DEF Committing
  <2>4. Partly(r)'
    BY <2>1, <2>3 DEF Partly
  <2> QED BY <2>1, <2>3, <2>4 DEF Tale, Undecided, Working, Committing, RollingBack, Finished
<1>4. ASSUME Promote(r) PROVE Keeping(r)
  <2> PICK f \in Files : Promote(r)!2!(f)
    BY <1>4 DEF Promote
  <2>1. /\ pc[r] = "promote" /\ UNCHANGED <<outs, result, spoiled, before, applied>>
    BY <1>4 DEF Promote
  <2>2. Undecided(r)
    BY <2>1 DEF Undecided, Committing
  <2>3. Partly(r) /\ Committed(r) /\ outs[r] # {} /\ result[r] = "running" /\ r \notin spoiled
    BY <2>1, <2>2, UndecidedFacts DEF Committing
  <2>4. f \in outs[r]
    BY <2>3 DEF Committed, First
  <2>5. /\ \A q \in Runs \ {r} : pc'[q] = pc[q]
        /\ \/ pc'[r] = "look" /\ top' = [top EXCEPT ![f] = r]
           \/ pc'[r] = "unlink" /\ top' = top
    BY <1>0
  <2>6. Partly(r)'
    BY <1>0, <2>1, <2>3, <2>4, <2>5 DEF Partly
  <2> QED BY <2>1, <2>3, <2>5, <2>6 DEF Tale, Undecided, Working, Committing, RollingBack, Finished
<1>5. ASSUME CommitDone(r) PROVE Keeping(r)
  <2>1. /\ pc[r] = "look" /\ pc'[r] = "cleanTmp" /\ result'[r] = "committed"
        /\ \A q \in Runs \ {r} : pc'[q] = pc[q] /\ result'[q] = result[q]
        /\ UNCHANGED <<outs, spoiled>>
    BY <1>0, <1>5 DEF CommitDone
  <2>2. outs[r] # {}
    BY <2>1, UndecidedFacts DEF Undecided, Committing
  <2> QED BY <2>1, <2>2 DEF Tale, Undecided, Working, Committing, RollingBack, Finished, Cleaning
<1> QED BY <1>1, <1>2, <1>3, <1>4, <1>5

LEMMA RollbackKeepsTale ==
  ASSUME NEW r \in Runs, Solo(r)
  PROVE  /\ Unlink(r) => Keeping(r)
         /\ Restore(r) => Keeping(r)
         /\ RollbackDone(r) => Keeping(r)
<1> USE DEF Keeping, Aside, Goto, Ends, TypeOK
<1>0. TypeOK
  BY DEF Solo, AloneInv, DirsInv
<1>1. ASSUME Unlink(r) PROVE Keeping(r)
  <2> PICK f \in Files : Unlink(r)!2!(f)
    BY <1>1 DEF Unlink
  <2>1. /\ pc[r] = "unlink" /\ UNCHANGED <<outs, result, before>>
        /\ \A q \in Runs \ {r} : q \in spoiled' <=> q \in spoiled
    BY <1>1 DEF Unlink
  <2>2. Undecided(r)
    BY <2>1 DEF Undecided, RollingBack
  <2>3. Partly(r) /\ outs[r] # {} /\ result[r] = "running"
    BY <2>1, <2>2, UndecidedFacts
  <2>4. f \in outs[r]
    BY <2>3 DEF Partly, Last
  <2>5. /\ pc'[r] \in RollingBack /\ \A q \in Runs \ {r} : pc'[q] = pc[q]
        /\ applied'[r] \subseteq applied[r]
        /\ top' = top \/ top' = [top EXCEPT ![f] = Absent]
    BY <1>0, <2>1 DEF RollingBack
  <2>6. Partly(r)'
    BY <1>0, <2>1, <2>3, <2>4, <2>5 DEF Partly, RollingBack
  <2> QED BY <2>1, <2>3, <2>5, <2>6 DEF Tale, Undecided, Working, Committing, RollingBack, Finished
<1>2. ASSUME Restore(r) PROVE Keeping(r)
  <2> PICK f \in Files : Restore(r)!2!(f)
    BY <1>2 DEF Restore
  <2>1. /\ pc[r] = "restore" /\ UNCHANGED <<outs, result, before>>
        /\ \A q \in Runs \ {r} : q \in spoiled' <=> q \in spoiled
        /\ pc'[r] = "unlink" /\ \A q \in Runs \ {r} : pc'[q] = pc[q]
    BY <1>0, <1>2 DEF Restore
  <2>2. Undecided(r)
    BY <2>1 DEF Undecided, RollingBack
  <2>3. Partly(r) /\ Undoable(r) /\ outs[r] # {} /\ result[r] = "running"
    BY <2>1, <2>2, UndecidedFacts
  <2>4. f \in applied[r]
    BY DEF Last
  <2>5. f \in backed[r] => bak[r][f] = before[r][f]
    BY <2>3, <2>4 DEF Undoable
  <2>6. /\ applied'[r] \subseteq applied[r]
        /\ top' = top \/ top' = [top EXCEPT ![f] = before[r][f]]
    BY <1>0, <2>5
  <2>7. Partly(r)'
    BY <1>0, <2>1, <2>3, <2>6 DEF Partly
  <2> QED BY <2>1, <2>3, <2>7 DEF Tale, Undecided, Working, Committing, RollingBack, Finished
<1>3. ASSUME RollbackDone(r) PROVE Keeping(r)
  <2>1. /\ pc[r] = "unlink" /\ pc'[r] = "cleanTmp" /\ result'[r] = "failed"
        /\ \A q \in Runs \ {r} : pc'[q] = pc[q] /\ result'[q] = result[q]
        /\ UNCHANGED <<outs, spoiled>>
    BY <1>0, <1>3 DEF RollbackDone
  <2>2. outs[r] # {}
    BY <2>1, UndecidedFacts DEF Undecided, RollingBack
  <2> QED BY <2>1, <2>2 DEF Tale, Undecided, Working, Committing, RollingBack, Finished, Cleaning
<1> QED BY <1>1, <1>2, <1>3

LEMMA EndKeepsTale ==
  ASSUME NEW r \in Runs, Solo(r)
  PROVE  /\ CleanTmp(r) => Keeping(r)
         /\ CleanBak(r) => Keeping(r)
         /\ ArchiveStale(r) => Keeping(r)
         /\ ArchiveEnds(r) => Keeping(r)
         /\ Kill(r) => Keeping(r)
         /\ Interrupt(r) => Keeping(r)
<1> USE DEF Keeping, Aside, Goto, Ends, TypeOK
<1>0. TypeOK /\ Tale(r) /\ Safe(r)
  BY DEF Solo, AloneInv, DirsInv
<1>1. ASSUME CleanTmp(r) PROVE Keeping(r)
  BY <1>0, <1>1 DEF CleanTmp, Tale, Undecided, Working, Committing, RollingBack, Finished, Cleaning
<1>2. ASSUME CleanBak(r) PROVE Keeping(r)
  <2>1. /\ pc[r] = "cleanBak" /\ UNCHANGED <<outs, result, spoiled>>
        /\ \A q \in Runs \ {r} : pc'[q] = pc[q]
        /\ pc'[r] = "over" \/ (/\ pc'[r] = "archive" /\ result[r] = "committed"
                               /\ todo'[r] \cap outs[r] = {})
    BY <1>0, <1>2 DEF CleanBak
  <2> QED BY <1>0, <2>1 DEF Tale, Undecided, Working, Committing, RollingBack, Finished, Cleaning
<1>3. ASSUME ArchiveStale(r) PROVE Keeping(r)
  <2>1. pc[r] = "archive" /\ UNCHANGED <<pc, outs, result, spoiled>> /\ todo'[r] \subseteq todo[r]
    BY <1>0, <1>3 DEF ArchiveStale
  <2> QED BY <1>0, <2>1 DEF Tale, Undecided, Working, Committing, RollingBack, Finished, Cleaning
<1>4. ASSUME ArchiveEnds(r) PROVE Keeping(r)
  BY <1>0, <1>4 DEF ArchiveEnds, Tale, Undecided, Working, Committing, RollingBack, Finished, Cleaning
<1>5. ASSUME Kill(r) PROVE Keeping(r)
  <2>1. /\ pc[r] # "idle" /\ pc'[r] = "over" /\ result'[r] # "running"
        /\ \A q \in Runs \ {r} : pc'[q] = pc[q] /\ result'[q] = result[q]
        /\ UNCHANGED <<outs, spoiled>>
    BY <1>0, <1>5 DEF Kill, Live
  <2> QED BY <1>0, <2>1 DEF Tale, Undecided, Working, Committing, RollingBack, Finished, Cleaning
<1>6. ASSUME Interrupt(r) PROVE Keeping(r)
  <2>1. /\ pc[r] # "idle" /\ pc'[r] = "cleanTmp" /\ result'[r] = "interrupted"
        /\ \A q \in Runs \ {r} : pc'[q] = pc[q] /\ result'[q] = result[q]
        /\ UNCHANGED <<outs, spoiled>>
    BY <1>0, <1>6 DEF Interrupt, Committing, RollingBack
  <2> QED BY <1>0, <2>1 DEF Tale, Undecided, Working, Committing, RollingBack, Finished, Cleaning
<1> QED BY <1>1, <1>2, <1>3, <1>4, <1>5, <1>6

\* Runs that have met stay so.
LEMMA AloneShrinks == [Next]_vars => alone' \subseteq alone
BY DEF Next, Step, Reconcile, Commit, Rollback, Start, ReconcileBackup, ReconcileStaging,
   MakeStaging, StageFile, ListStaged, Look, MoveAside, MoveAsideFails, Promote, CommitDone,
   Unlink, Restore, RollbackDone, CleanTmp, CleanBak, ArchiveStale, ArchiveEnds, Kill,
   Interrupt, Age, run, vars

LEMMA MovesAreSolo ==
  ASSUME ApartInv, [Next]_vars, alone' = Runs
  PROVE  /\ alone = Runs
         /\ \A r \in Runs : Start(r) \/ Step(r) \/ Kill(r) \/ Interrupt(r) => Solo(r)
<1>0. AloneInv /\ AloneInv' /\ TypeOK
  BY NextAlone DEF ApartInv, AloneInv, DirsInv
<1>1. alone' \subseteq alone
  BY AloneShrinks
<1>2. alone = Runs
  BY <1>0, <1>1 DEF TypeOK
<1>3. ASSUME NEW r \in Runs, Start(r) PROVE Quiet(r)
  <2>1. Company = {}
    BY <1>3 DEF Start
  <2> QED BY <2>1 DEF Company, Live, Quiet
<1>4. ASSUME NEW r \in Runs, Step(r) \/ Kill(r) \/ Interrupt(r) PROVE Live(r)
  BY <1>4 DEF Step, Reconcile, Commit, Rollback, ReconcileBackup, ReconcileStaging,
     MakeStaging, StageFile, ListStaged, Look, MoveAside, MoveAsideFails, Promote, CommitDone,
     Unlink, Restore, RollbackDone, CleanTmp, CleanBak, ArchiveStale, ArchiveEnds, Kill,
     Interrupt, Live, Committing, RollingBack
<1>5. \A r \in Runs : Tale(r)
  BY <1>2 DEF ApartInv
<1> QED BY <1>0, <1>2, <1>3, <1>4, <1>5, OneIsLive DEF Solo

LEMMA MovesKeepTale ==
  ASSUME NEW r \in Runs, Solo(r), Start(r) \/ Step(r) \/ Kill(r) \/ Interrupt(r)
  PROVE  Keeping(r)
BY StagingKeepsTale, CommitKeepsTale, RollbackKeepsTale, EndKeepsTale
DEF Step, Commit, Rollback

LEMMA NextApart == ApartInv /\ [Next]_vars => ApartInv'
<1> SUFFICES ASSUME ApartInv, [Next]_vars, alone' = Runs PROVE \A q \in Runs : Tale(q)'
  BY NextAlone DEF ApartInv
<1>0. alone = Runs /\ \A q \in Runs : Tale(q)
  BY MovesAreSolo DEF ApartInv
<1>1. ASSUME NEW r \in Runs, Start(r) \/ Step(r) \/ Kill(r) \/ Interrupt(r)
      PROVE  \A q \in Runs : Tale(q)'
  <2>1. Solo(r)
    BY <1>1, MovesAreSolo
  <2>2. Keeping(r)
    BY <1>1, <2>1, MovesKeepTale
  <2>3. \A q \in Runs \ {r} : Tale(q)'
    BY <1>0, <2>1, <2>2, OthersKeepTheirTale DEF Solo, Keeping
  <2> QED BY <2>2, <2>3 DEF Keeping
<1>2. ASSUME UNCHANGED <<top, run>> PROVE \A q \in Runs : Tale(q)'
  BY <1>0, <1>2 DEF run, Tale, Undecided, Partly
<1>3. ASSUME NEW r \in Runs, Age(r) PROVE UNCHANGED <<top, run>>
  BY <1>3 DEF Age
<1>4. CASE UNCHANGED vars
  BY <1>2, <1>4 DEF vars, run
<1> QED BY <1>1, <1>2, <1>3, <1>4 DEF Next

\* What a reader finds, before and after a step of r.
LEMMA FolderNow ==
  ASSUME NEW r \in Runs, Solo(r)
  PROVE  AbstractOut = IF Undecided(r) THEN before[r] ELSE top
<1>1. ~Met /\ \A q \in Runs : Undecided(q) => q = r
  BY DEF Solo, Met, Quiet, Undecided, Committing, RollingBack
<1>2. CASE Undecided(r)
  <2>1. (CHOOSE q \in Runs : Undecided(q)) = r
    BY <1>1, <1>2
  <2> QED BY <1>1, <1>2, <2>1 DEF AbstractOut
<1>3. CASE ~Undecided(r)
  BY <1>1, <1>3 DEF AbstractOut
<1> QED BY <1>2, <1>3

LEMMA FolderThen ==
  ASSUME NEW r \in Runs, Solo(r), Keeping(r)
  PROVE  AbstractOut' = IF Undecided(r)' THEN before'[r] ELSE top'
<1>1. ~Met' /\ \A q \in Runs : Undecided(q)' => q = r
  BY DEF Solo, Met, Quiet, Undecided, Committing, RollingBack, Keeping, Aside
<1>2. CASE Undecided(r)'
  <2>1. (CHOOSE q \in Runs : Undecided(q)') = r
    BY <1>1, <1>2
  <2> QED BY <1>1, <1>2, <2>1 DEF AbstractOut
<1>3. CASE ~Undecided(r)'
  BY <1>1, <1>3 DEF AbstractOut
<1> QED BY <1>2, <1>3

LEMMA VerdictTable ==
  ASSUME NEW how, NEW isSpoiled
  PROVE  /\ how = "running" => Verdict(how, isSpoiled) = "none"
         /\ how = "committed" => Verdict(how, isSpoiled) = "published"
         /\ how = "failed" /\ ~isSpoiled => Verdict(how, isSpoiled) = "abandoned"
         /\ how = "failed" /\ isSpoiled => Verdict(how, isSpoiled) = "torn"
         /\ how \in {"interrupted", "killed"} => Verdict(how, isSpoiled) = "torn"
BY DEF Verdict

LEMMA OneVerdictMoves ==
  ASSUME NEW r \in Runs, Solo(r), Keeping(r)
  PROVE  /\ AbstractVerdict[r] = Verdict(result[r], r \in spoiled)
         /\ AbstractVerdict' =
               [AbstractVerdict EXCEPT ![r] = Verdict(result'[r], r \in spoiled')]
<1>1. ~Met /\ ~Met'
  BY DEF Solo, Met
<1>2. \A q \in Runs \ {r} : result'[q] = result[q] /\ (q \in spoiled' <=> q \in spoiled)
  BY DEF Keeping, Aside
<1>3. \A q \in Runs \ {r} : (q \in spoiled') = (q \in spoiled)
  BY <1>2
<1>4. AbstractVerdict = [q \in Runs |-> Verdict(result[q], q \in spoiled)]
  BY <1>1 DEF AbstractVerdict
<1>5. AbstractVerdict' = [q \in Runs |-> Verdict(result'[q], q \in spoiled')]
  BY <1>1 DEF AbstractVerdict
<1>6. \A q \in Runs \ {r} :
         Verdict(result'[q], q \in spoiled') = Verdict(result[q], q \in spoiled)
  BY <1>2, <1>3
<1> QED BY <1>4, <1>5, <1>6

-----------------------------------------------------------------------------
(* Steps of the code as steps of AtomicOutput                               *)

\* r's outputs stand.
Same(r) == Solo(r) /\ Keeping(r) /\ outs' = outs

LEMMA HiddenStep ==
  ASSUME NEW r \in Runs, Same(r), result'[r] = result[r],
         result[r] = "running" \/ spoiled' = spoiled, AbstractOut' = AbstractOut
  PROVE  UNCHANGED Atomic!avars
<1>1. Met = FALSE /\ Met' = FALSE
  BY DEF Same, Solo, Met
<1>2. Verdict(result'[r], r \in spoiled') = Verdict(result[r], r \in spoiled)
  <2>1. CASE result[r] = "running"
    BY <2>1, VerdictTable
  <2>2. CASE spoiled' = spoiled
    BY <2>2
  <2> QED BY <2>1, <2>2
<1>3. AbstractVerdict' = AbstractVerdict
  BY <1>2, OneVerdictMoves DEF Same, AbstractVerdict
<1>4. AbstractOuts' = AbstractOuts
  BY <1>1 DEF AbstractOuts, Same
<1> QED BY <1>1, <1>3, <1>4 DEF Atomic!avars

\* r's commit is decided, as v.
LEMMA DecidedStep ==
  ASSUME NEW r \in Runs, Same(r), result[r] = "running", result'[r] # "running",
         NEW v, Verdict(result'[r], r \in spoiled') = v
  PROVE  Atomic!Decide(r, v) /\ AbstractOuts = outs
<1>1. Met = FALSE /\ Met' = FALSE
  BY DEF Same, Solo, Met
<1>2. AbstractVerdict[r] = "none"
  BY OneVerdictMoves, VerdictTable DEF Same
<1>3. AbstractVerdict' = [AbstractVerdict EXCEPT ![r] = v]
  BY OneVerdictMoves DEF Same
<1>4. AbstractOuts = outs /\ AbstractOuts' = outs
  BY <1>1 DEF AbstractOuts, Same
<1>5. outs[r] # {}
  BY DEF Same, Solo, Keeping, Tale, Working
<1> QED BY <1>1, <1>2, <1>3, <1>4, <1>5 DEF Atomic!Decide

LEMMA AbandonedStep ==
  ASSUME NEW r \in Runs, Same(r), result[r] = "running", result'[r] = "failed",
         r \notin spoiled', AbstractOut' = AbstractOut
  PROVE  Atomic!Abandon(r)
<1>1. Verdict(result'[r], r \in spoiled') = "abandoned"
  BY VerdictTable
<1> QED BY <1>1, DecidedStep DEF Atomic!Abandon

\* The run ends in the middle: what stands of its files is new, old or missing.
LEMMA TornStep ==
  ASSUME NEW r \in Runs, Same(r), TypeOK, result[r] = "running", top' = top, ~Undecided(r)',
         result'[r] \in {"interrupted", "killed"} \/ (result'[r] = "failed" /\ r \in spoiled')
  PROVE  Atomic!Tear(r)
<1>1. Verdict(result'[r], r \in spoiled') = "torn"
  BY VerdictTable
<1>2. Atomic!Decide(r, "torn") /\ AbstractOuts = outs
  BY <1>1, DecidedStep
<1>3. AbstractOut' = top
  BY FolderThen DEF Same
<1>4. AbstractOut = IF Undecided(r) THEN before[r] ELSE top
  BY FolderNow DEF Same
<1>5. AbstractOut \in [Files -> Content] /\ outs[r] \subseteq Files
  BY <1>4 DEF TypeOK
<1>6. \A f \in Files : top[f] = AbstractOut[f] \/ (f \in outs[r] /\ top[f] \in {r, Absent})
  BY <1>4 DEF Same, Solo, Tale, Partly
<1> DEFINE torn == [f \in outs[r] |-> IF top[f] = AbstractOut[f] THEN "old"
                                      ELSE IF top[f] = r THEN "new" ELSE "missing"]
<1>7. torn \in [AbstractOuts[r] -> {"new", "old", "missing"}]
  BY <1>2
<1>8. ASSUME NEW f \in Files
      PROVE  top[f] = IF f \notin AbstractOuts[r] THEN AbstractOut[f]
                      ELSE CASE torn[f] = "new"     -> r
                             [] torn[f] = "old"     -> AbstractOut[f]
                             [] torn[f] = "missing" -> Absent
  <2>1. CASE f \notin outs[r]
    BY <1>2, <1>6, <2>1
  <2>2. CASE f \in outs[r] /\ top[f] = AbstractOut[f]
    <3>1. torn[f] = "old"
      BY <2>2
    <3> HIDE DEF torn
    <3> QED BY <1>2, <2>2, <3>1
  <2>3. CASE f \in outs[r] /\ top[f] # AbstractOut[f] /\ top[f] = r
    <3>1. torn[f] = "new"
      BY <2>3
    <3> HIDE DEF torn
    <3> QED BY <1>2, <2>3, <3>1
  <2>4. CASE f \in outs[r] /\ top[f] # AbstractOut[f] /\ top[f] # r
    <3>1. torn[f] = "missing" /\ top[f] = Absent
      BY <1>6, <2>4
    <3> HIDE DEF torn
    <3> QED BY <1>2, <2>4, <3>1
  <2> QED BY <2>1, <2>2, <2>3, <2>4
<1>9. top = [f \in Files |-> top[f]]
  BY DEF TypeOK
<1> HIDE DEF torn
<1>10. AbstractOut' = [f \in Files |->
                    IF f \notin AbstractOuts[r] THEN AbstractOut[f]
                    ELSE CASE torn[f] = "new"     -> r
                           [] torn[f] = "old"     -> AbstractOut[f]
                           [] torn[f] = "missing" -> Absent]
  BY <1>3, <1>8, <1>9, Zenon
<1> QED BY <1>2, <1>7, <1>10 DEF Atomic!Tear

\* The first run of all starts, or one starts when all others are through.
LEMMA StartMaps ==
  ASSUME NEW r \in Runs, Solo(r), Keeping(r), Start(r)
  PROVE  Atomic!Declare(r)
<1>1. Met = FALSE /\ Met' = FALSE /\ TypeOK
  BY DEF Solo, Met, AloneInv, DirsInv
<1>2. /\ pc[r] = "idle" /\ pc'[r] = "reconcile" /\ UNCHANGED <<top, result, spoiled>>
      /\ \E s \in SUBSET Files : s # {} /\ outs' = [outs EXCEPT ![r] = s]
  BY <1>1 DEF Start, disk, Goto, TypeOK
<1>3. AbstractOut = top /\ AbstractOut' = top'
  BY <1>2, FolderNow, FolderThen DEF Undecided, Committing, RollingBack
<1>4. AbstractOuts = outs /\ AbstractOuts' = outs'
  BY <1>1 DEF AbstractOuts
<1>5. outs[r] = {} /\ result[r] = "running"
  BY <1>2 DEF Solo, Tale, Working
<1>6. AbstractVerdict[r] = "none" /\ AbstractVerdict' = AbstractVerdict
  BY <1>1, <1>2, <1>5, OneVerdictMoves, VerdictTable DEF AbstractVerdict
<1> QED BY <1>1, <1>2, <1>3, <1>4, <1>5, <1>6 DEF Atomic!Declare

Mapped(r) ==
    \/ UNCHANGED Atomic!avars
    \/ Atomic!Publish(r) \/ Atomic!Abandon(r) \/ Atomic!Tear(r) \/ Atomic!Retire(r)

\* Before the commit begins nothing a reader sees changes.
LEMMA StagingMaps ==
  ASSUME NEW r \in Runs, Solo(r), Keeping(r),
         Reconcile(r) \/ MakeStaging(r) \/ StageFile(r) \/ ListStaged(r)
  PROVE  Mapped(r)
<1>0. TypeOK /\ Safe(r) /\ Ledger(r)
  BY DEF Solo, AloneInv, DirsInv
<1>1. /\ pc[r] \in {"reconcile", "write"}
      /\ UNCHANGED <<top, outs, spoiled, before>>
      /\ \/ UNCHANGED <<pc, result>>
         \/ pc'[r] \in {"write", "look"} /\ UNCHANGED result
         \/ pc'[r] \in {"over", "cleanTmp"} /\ result'[r] = "failed"
  BY <1>0 DEF Reconcile, ReconcileBackup, ReconcileStaging, MakeStaging, StageFile, ListStaged,
     Goto, Ends, disk, TypeOK
<1>2. result[r] = "running" /\ r \notin spoiled /\ top = before[r]
  BY <1>0, <1>1 DEF Safe, Progress, Working, Ledger, Solo, Tale, Committing, RollingBack,
     Finished, Cleaning
<1>3. AbstractOut = top /\ AbstractOut' = top
  BY <1>1, <1>2, FolderNow, FolderThen DEF Undecided, Committing, RollingBack
<1>4. Same(r)
  BY <1>1 DEF Same
<1>5. CASE result' = result
  BY <1>3, <1>4, <1>5, <1>2, HiddenStep DEF Mapped
<1>6. CASE result'[r] = "failed"
  BY <1>1, <1>2, <1>3, <1>4, <1>6, AbandonedStep DEF Mapped
<1> QED BY <1>1, <1>5, <1>6

\* Until it is decided a reader sees what the run found.
LEMMA UndecidedMaps ==
  ASSUME NEW r \in Runs, Solo(r), Keeping(r),
         Look(r) \/ MoveAside(r) \/ MoveAsideFails(r) \/ Promote(r) \/ Unlink(r) \/ Restore(r)
  PROVE  UNCHANGED Atomic!avars
<1>0. TypeOK
  BY DEF Solo, AloneInv, DirsInv
<1>1. /\ pc[r] \in Committing \cup RollingBack /\ pc'[r] \in Committing \cup RollingBack
      /\ UNCHANGED <<outs, result>>
  BY <1>0 DEF Look, MoveAside, MoveAsideFails, Promote, Unlink, Restore, Goto, Committing,
     RollingBack, TypeOK
<1>2. Undecided(r) /\ Undecided(r)'
  BY <1>1 DEF Undecided
<1>3. result[r] = "running"
  BY <1>2, UndecidedFacts
<1>4. before'[r] = before[r]
  <2>1. CASE MoveAside(r)
    <3> PICK f \in Files : MoveAside(r)!2!(f)
      BY <2>1 DEF MoveAside
    <3>1. pc[r] = "move"
      BY <2>1 DEF MoveAside
    <3>2. Committed(r) /\ applied[r] \cap todo[r] = {}
      BY <1>2, <3>1, UndecidedFacts DEF Committing
    <3>3. top[f] = before[r][f]
      BY <3>2 DEF Committed, First
    <3>4. before'[r] = [before[r] EXCEPT ![f] = top[f]]
      BY <1>0 DEF TypeOK
    <3> QED BY <1>0, <3>3, <3>4 DEF TypeOK
  <2>2. CASE ~MoveAside(r)
    BY <2>2 DEF Look, MoveAsideFails, Promote, Unlink, Restore
  <2> QED BY <2>1, <2>2
<1>5. AbstractOut' = AbstractOut
  BY <1>2, <1>4, FolderNow, FolderThen
<1>6. Same(r)
  BY <1>1 DEF Same
<1> QED BY <1>1, <1>3, <1>5, <1>6, HiddenStep

\* The last promotion publishes every file at once.
LEMMA CommitMaps ==
  ASSUME NEW r \in Runs, Solo(r), Keeping(r), CommitDone(r)
  PROVE  Atomic!Publish(r)
<1>0. TypeOK /\ Ledger(r)'
  BY DEF Solo, AloneInv, DirsInv
<1>1. /\ pc[r] = "look" /\ pc'[r] = "cleanTmp" /\ result'[r] = "committed"
      /\ UNCHANGED <<top, outs, before, spoiled>>
  BY <1>0 DEF CommitDone, Goto, Ends, disk, TypeOK
<1>2. Undecided(r) /\ ~Undecided(r)' /\ result[r] = "running"
  BY <1>1, UndecidedFacts DEF Undecided, Committing, RollingBack
<1>3. top' = Published(r)'
  BY <1>0, <1>1 DEF Ledger, Settled, Cleaning
<1>4. AbstractOut = before[r] /\ AbstractOut' = top'
  BY <1>2, FolderNow, FolderThen
<1>5. Same(r) /\ Verdict(result'[r], r \in spoiled') = "published"
  BY <1>1, VerdictTable DEF Same
<1>6. Atomic!Decide(r, "published") /\ AbstractOuts = outs
  BY <1>1, <1>2, <1>5, DecidedStep
<1>7. AbstractOut' = [f \in Files |-> IF f \in AbstractOuts[r] THEN r ELSE AbstractOut[f]]
  BY <1>1, <1>3, <1>4, <1>6 DEF Published
<1> QED BY <1>6, <1>7 DEF Atomic!Publish

\* A rollback leaves the folder alone, or some of its restores failed.
LEMMA RollbackMaps ==
  ASSUME NEW r \in Runs, Solo(r), Keeping(r), RollbackDone(r)
  PROVE  Mapped(r)
<1>0. TypeOK /\ Ledger(r)'
  BY DEF Solo, AloneInv, DirsInv
<1>1. /\ pc[r] = "unlink" /\ pc'[r] = "cleanTmp" /\ result'[r] = "failed"
      /\ UNCHANGED <<top, outs, before, spoiled>>
  BY <1>0 DEF RollbackDone, Goto, Ends, disk, TypeOK
<1>2. Undecided(r) /\ ~Undecided(r)' /\ result[r] = "running"
  BY <1>1, UndecidedFacts DEF Undecided, Committing, RollingBack
<1>3. Same(r)
  BY <1>1 DEF Same
<1>4. CASE r \in spoiled'
  BY <1>0, <1>1, <1>2, <1>3, <1>4, TornStep DEF Mapped
<1>5. CASE r \notin spoiled'
  <2>1. top' = before'[r]
    BY <1>0, <1>1, <1>5 DEF Ledger, Settled, Cleaning
  <2>2. AbstractOut' = AbstractOut
    BY <1>1, <1>2, <2>1, FolderNow, FolderThen
  <2> QED BY <1>1, <1>2, <1>3, <1>5, <2>2, AbandonedStep DEF Mapped
<1> QED BY <1>4, <1>5

\* The clean-up is not seen, and the archiving retires files of earlier runs.
LEMMA EndMaps ==
  ASSUME NEW r \in Runs, Solo(r), Keeping(r),
         CleanTmp(r) \/ CleanBak(r) \/ ArchiveStale(r) \/ ArchiveEnds(r)
  PROVE  Mapped(r)
<1>0. TypeOK
  BY DEF Solo, AloneInv, DirsInv
<1>1. /\ pc[r] \in Cleaning \cup {"archive"}
      /\ pc'[r] \in Cleaning \cup {"archive", "over"}
      /\ UNCHANGED <<outs, result, spoiled>>
  BY <1>0 DEF CleanTmp, CleanBak, ArchiveStale, ArchiveEnds, Goto, Cleaning, disk, TypeOK
<1>2. AbstractOut = top /\ AbstractOut' = top'
  BY <1>1, FolderNow, FolderThen DEF Undecided, Committing, RollingBack, Cleaning
<1>3. Same(r)
  BY <1>1 DEF Same
<1>4. CASE top' = top
  BY <1>1, <1>2, <1>3, <1>4, HiddenStep DEF Mapped
<1>5. CASE top' # top
  <2>1. ArchiveStale(r)
    BY <1>5 DEF CleanTmp, CleanBak, ArchiveEnds, disk
  <2>2. pc[r] = "archive"
    BY <2>1 DEF ArchiveStale
  <2>3. result[r] = "committed" /\ todo[r] \cap outs[r] = {}
    BY <2>2 DEF Solo, Tale
  <2> PICK f \in todo[r] : ArchiveStale(r)!2!(f)
    BY <2>1 DEF ArchiveStale
  <2>4. top[f] # Absent /\ top' = [top EXCEPT ![f] = Absent]
    BY <1>5
  <2>5. Met = FALSE /\ Met' = FALSE
    BY DEF Solo, Met
  <2>6. AbstractOuts = outs /\ AbstractOuts' = AbstractOuts
    BY <1>1, <2>5 DEF AbstractOuts
  <2>7. AbstractVerdict[r] = "published" /\ AbstractVerdict' = AbstractVerdict
    BY <1>1, <2>3, <2>5, OneVerdictMoves, VerdictTable DEF AbstractVerdict
  <2>8. f \in Files \ AbstractOuts[r]
    BY <1>0, <2>3, <2>6 DEF TypeOK
  <2>9. Atomic!Retire(r)
    BY <1>2, <2>4, <2>5, <2>6, <2>7, <2>8 DEF Atomic!Retire
  <2> QED BY <2>9 DEF Mapped
<1> QED BY <1>4, <1>5

\* Ctrl-C or a dying process tears an undecided run, and no other.
LEMMA FaultMaps ==
  ASSUME NEW r \in Runs, Solo(r), Keeping(r), Kill(r) \/ Interrupt(r)
  PROVE  Mapped(r)
<1>0. TypeOK /\ Safe(r)
  BY DEF Solo, AloneInv, DirsInv
<1>1. /\ UNCHANGED <<top, outs, spoiled>> /\ pc'[r] \in {"over", "cleanTmp"}
      /\ \/ result'[r] \in {"killed", "interrupted"} /\ result[r] = "running"
         \/ result' = result /\ result[r] # "running" /\ pc[r] \notin Working
  <2>1. CASE Kill(r)
    <3>1. UNCHANGED <<top, outs, spoiled>> /\ pc'[r] = "over"
      BY <1>0, <2>1 DEF Kill, Goto, disk, TypeOK
    <3>2. CASE result[r] = "running"
      BY <1>0, <2>1, <3>1, <3>2 DEF Kill, Ends, TypeOK
    <3>3. CASE result[r] # "running"
      <4>1. result' = result
        BY <1>0, <2>1, <3>3 DEF Kill, Ends, TypeOK
      <4> QED BY <1>0, <3>1, <3>3, <4>1 DEF Safe, Progress
    <3> QED BY <3>2, <3>3
  <2>2. CASE Interrupt(r)
    BY <1>0, <2>2 DEF Interrupt, Goto, Ends, disk, TypeOK, Safe, Progress, Working
  <2> QED BY <2>1, <2>2
<1>2. Same(r) /\ ~Undecided(r)'
  BY <1>1 DEF Same, Undecided, Committing, RollingBack
<1>3. CASE result'[r] \in {"killed", "interrupted"} /\ result[r] = "running"
  BY <1>0, <1>1, <1>2, <1>3, TornStep DEF Mapped
<1>4. CASE result' = result /\ result[r] # "running" /\ pc[r] \notin Working
  <2>1. ~Undecided(r)
    BY <1>4 DEF Undecided, Working
  <2>2. AbstractOut' = AbstractOut
    BY <1>1, <1>2, <2>1, FolderNow, FolderThen
  <2> QED BY <1>1, <1>2, <1>4, <2>2, HiddenStep DEF Mapped
<1> QED BY <1>1, <1>3, <1>4

LEMMA InitMaps == Init => Atomic!AInit
<1> SUFFICES ASSUME Init PROVE Atomic!AInit
  OBVIOUS
<1>1. Met = FALSE /\ \A r \in Runs : ~Undecided(r)
  BY DEF Init, Met, Undecided, Committing, RollingBack
<1>2. AbstractOut = top /\ top \in [Files -> {Original, Absent}]
  BY <1>1, FoldersAssumption DEF AbstractOut, Init
<1>3. AbstractOuts = [r \in Runs |-> {}]
  BY <1>1 DEF AbstractOuts, Init
<1>4. \A r \in Runs : Verdict(result[r], r \in spoiled) = "none"
  BY VerdictTable DEF Init
<1>5. AbstractVerdict = [r \in Runs |-> "none"]
  BY <1>1, <1>4 DEF AbstractVerdict
<1> QED BY <1>1, <1>2, <1>3, <1>5 DEF Atomic!AInit

\* Two runs meet: nothing is promised any more.
LEMMA MeetMaps ==
  ASSUME alone = Runs, alone' # Runs
  PROVE  Atomic!Meet
<1>1. Met = FALSE /\ Met' = TRUE
  BY DEF Met
<1>2. AbstractOut' = Atomic!Nowhere
  BY <1>1 DEF AbstractOut, Nothing, Atomic!Nowhere
<1>3. AbstractOuts' = [r \in Runs |-> {}] /\ AbstractVerdict' = [r \in Runs |-> "none"]
  BY <1>1 DEF AbstractOuts, AbstractVerdict
<1> QED BY <1>1, <1>2, <1>3 DEF Atomic!Meet

LEMMA NextMaps == ApartInv /\ [Next]_vars => [Atomic!ANext]_Atomic!avars
<1> SUFFICES ASSUME ApartInv, [Next]_vars PROVE Atomic!ANext \/ UNCHANGED Atomic!avars
  OBVIOUS
<1>0. TypeOK
  BY DEF ApartInv, AloneInv, DirsInv
<1>1. CASE alone # Runs
  <2>1. alone' \subseteq alone
    BY AloneShrinks
  <2>2. Met = TRUE /\ Met' = TRUE
    BY <1>0, <1>1, <2>1 DEF Met, TypeOK
  <2> QED BY <2>2 DEF Atomic!avars, AbstractOut, AbstractOuts, AbstractVerdict
<1>2. CASE alone = Runs /\ alone' # Runs
  BY <1>2, MeetMaps DEF Atomic!ANext
<1>3. CASE alone = Runs /\ alone' = Runs
  <2>1. ASSUME NEW r \in Runs, Start(r) \/ Step(r) \/ Kill(r) \/ Interrupt(r)
        PROVE  Solo(r) /\ Keeping(r)
    BY <1>3, <2>1, MovesAreSolo, MovesKeepTale
  <2>2. ASSUME NEW r \in Runs, Start(r) PROVE Atomic!ANext
    BY <2>1, <2>2, StartMaps DEF Atomic!ANext
  <2>3. ASSUME NEW r \in Runs, Mapped(r) PROVE Atomic!ANext \/ UNCHANGED Atomic!avars
    BY <2>3 DEF Mapped, Atomic!ANext
  <2>4. ASSUME NEW r \in Runs, Step(r) PROVE Mapped(r)
    <3>1. Solo(r) /\ Keeping(r)
      BY <2>1, <2>4
    <3>2. CASE Reconcile(r) \/ MakeStaging(r) \/ StageFile(r) \/ ListStaged(r)
      BY <3>1, <3>2, StagingMaps
    <3>3. CASE Look(r) \/ MoveAside(r) \/ MoveAsideFails(r) \/ Promote(r) \/ Unlink(r) \/ Restore(r)
      BY <3>1, <3>3, UndecidedMaps DEF Mapped
    <3>4. CASE CommitDone(r)
      BY <3>1, <3>4, CommitMaps DEF Mapped
    <3>5. CASE RollbackDone(r)
      BY <3>1, <3>5, RollbackMaps
    <3>6. CASE CleanTmp(r) \/ CleanBak(r) \/ ArchiveStale(r) \/ ArchiveEnds(r)
      BY <3>1, <3>6, EndMaps
    <3> QED BY <2>4, <3>2, <3>3, <3>4, <3>5, <3>6 DEF Step, Commit, Rollback
  <2>5. ASSUME NEW r \in Runs, Kill(r) \/ Interrupt(r) PROVE Mapped(r)
    BY <2>1, <2>5, FaultMaps
  <2>6. ASSUME UNCHANGED <<top, run>> PROVE UNCHANGED Atomic!avars
    BY <2>6 DEF run, Atomic!avars, AbstractOut, AbstractOuts, AbstractVerdict, Met, Undecided
  <2>7. ASSUME NEW r \in Runs, Age(r) PROVE UNCHANGED <<top, run>>
    BY <2>7 DEF Age
  <2>8. CASE UNCHANGED vars
    BY <2>6, <2>8 DEF vars, run
  <2> QED BY <2>2, <2>3, <2>4, <2>5, <2>6, <2>7, <2>8 DEF Next
<1> QED BY <1>1, <1>2, <1>3

\* save_all, seen by those who read the folder between commits, is the atomic
\* output folder: it publishes all its files at once, leaves the folder alone,
\* or, when it is killed or a restore fails, leaves its own files new, old or
\* missing and no other file touched, until two runs meet in the folder.
THEOREM ImplementsAtomic == Spec => ImplementsAtomicOutput
<1>1. ApartInv /\ [Next]_vars => ApartInv'
  BY NextApart
<1>2. ApartInv /\ [Next]_vars => [Atomic!ANext]_Atomic!avars
  BY NextMaps
<1> QED BY <1>1, <1>2, InitApart, InitMaps, PTL
        DEF Spec, ImplementsAtomicOutput, Atomic!ASpec

=============================================================================
