--------------------------- MODULE PipelineProofs ---------------------------
(***************************************************************************)
(* Proofs about a run. About Pipeline, for any entities, criticalities,    *)
(* source files and configurations:                                        *)
(*                                                                         *)
(*   PipelineTypes      what every variable ranges over;                   *)
(*   WholeNights        only a whole night's files are written or leave    *)
(*                      (OnlyAWholeNightLeaves);                           *)
(*   CompleteLedgers    a recorded run says what became of every entity    *)
(*                      (LedgerIsComplete);                                *)
(*   ExitCodes          what the exit code promises (ExitCodeContract).    *)
(*                                                                         *)
(* and about Delivery, for any files, schedules of retries, durations and  *)
(* budget, and whether or not another run rewrites the folder meanwhile:   *)
(*                                                                         *)
(*   DeliveryTypes      what every variable ranges over;                   *)
(*   FailsClosed        only the pinned server is sent anything            *)
(*                      (UnverifiedServerGetsNothing);                     *)
(*   BudgetHolds        no retry begins over budget (RetriesStayInBudget); *)
(*   EnvelopeHolds      nothing but the manifest's files is put, under the *)
(*                      delivery's own names (OnlyTheEnvelope);            *)
(*   DeliveredIsWhole   what returns has put all of them, whole            *)
(*                      (SuccessMeansWhole);                               *)
(*                                                                         *)
(* and about Roster, for any folders of exports, any configuration whose   *)
(* order runs an entity after those it depends on, and any blends:         *)
(*                                                                         *)
(*   RosterReferences   no row points at what is not delivered             *)
(*                      (ReferencesResolve);                               *)
(*   RosterPlaces       whoever is delivered has their places, or a note   *)
(*                      says so (WhoShipsIsPlaced);                        *)
(*   RosterLessons      one lesson is one class (OneLessonOneClass);       *)
(*   RosterRetakes      a planned course follows the whole history         *)
(*                      (RetakeFollowsTheWholeHistory);                    *)
(*   RosterDays         a day is counted once (DayIsCountedOnce);          *)
(*   RosterImplementsTransform                                             *)
(*                      what the transformers make of the exports is       *)
(*                      something Pipeline's entity loop may do            *)
(*                      (ImplementsTransform).                             *)
(***************************************************************************)
EXTENDS Pipeline, Delivery, RosterRefinement, SequenceTheorems, FiniteSetTheorems,
        WellFoundedInduction, TLAPS

Early == {"start", "config", "preflight", "open", "load", "gate", "setup"}
Out == {"integrity", "write", "archive", "deliver", "report"}
Stages == Early \cup {"transform"} \cup Out \cup {"sink", "over"}

TypeOK ==
    /\ order \in Orders
    /\ dry \in BOOLEAN /\ sftp \in BOOLEAN
    /\ stage \in Stages
    /\ lacking \subseteq Entities
    /\ next \in Nat \ {0}
    /\ outcome \in [Entities -> Outcome]
    /\ isolated \in Categories /\ raised \in Categories
    /\ raisedAt \in Stages
    /\ written \subseteq Entities /\ delivered \subseteq Entities
    /\ attempted \in BOOLEAN /\ sftpOk \in BOOLEAN
    /\ logged \in Seq(Record)
    /\ stored \in Nat /\ exit \in {-1, 0, 1, 3}

-----------------------------------------------------------------------------

\* What the loop of run_transform leaves behind it: an entity it could go on
\* after.
Passed(e) ==
    \/ outcome[e].kind = "built"
    \/ e \in Isolatable /\ outcome[e].kind \in {"empty", "failed"}
    \/ outcome[e].kind = "empty" /\ EmptyIsExpected(e, outcome[e].reason)

AllPassed == \A e \in Configured : Passed(e)

LoopInv ==
    /\ stage \in Early => next = 1
    /\ stage = "transform" =>
         \A i \in 1 .. Len(order) : i < next => Passed(order[i])
    /\ stage \in Out => AllPassed

\* When the files are written and sent, and what they are.
DiskInv ==
    /\ stage = "write" => BuiltSet # {}
    /\ stage \in {"archive", "deliver"} => written # {}
    /\ written # {} =>
         /\ stage \in {"archive", "deliver", "report", "sink", "over"}
         /\ AllPassed /\ written = BuiltSet
    /\ attempted => written # {} /\ stage \in {"report", "sink", "over"}
    /\ delivered \subseteq written /\ (delivered # {} => attempted)
    /\ sftpOk => attempted /\ delivered = written

RecordInv == stage # "over" => logged = <<>> /\ stored = 0 /\ exit = -1

Inv == LoopInv /\ DiskInv /\ RecordInv /\ LedgerIsComplete /\ ExitCodeContract

IInv == TypeOK /\ Inv

-----------------------------------------------------------------------------
(* Outcomes and configured entities.                                       *)

LEMMA OutcomeTypes ==
    /\ Unset \in Outcome /\ Built \in Outcome /\ NotRun \in Outcome
    /\ \A x \in EmptyReasons : Empty(x) \in Outcome
    /\ \A x \in FailedReasons : Failed(x) \in Outcome
  BY DEF Outcome

LEMMA ObservedType ==
    \A x \in EmptyReasons : \A b : Observed(x, b) \in EmptyReasons
  BY DEF Observed, EmptyReasons, NothingToSendReasons

LEMMA ConfiguredFacts ==
    ASSUME order \in Orders
    PROVE  /\ order \in Seq(Entities) /\ Len(order) \in Nat
           /\ Configured \subseteq Entities
           /\ \A i \in 1 .. Len(order) : order[i] \in Configured
           /\ \A e \in Configured : \E i \in 1 .. Len(order) : order[i] = e
<1>1. order \in Seq(Entities)
  BY OrdersAssumption
<1> QED BY <1>1 DEF Configured

\* mark_not_run and finalize_aborted keep a ledger a ledger.
LEMMA LedgerTypes ==
    ASSUME NEW o \in [Entities -> Outcome], NEW i \in Nat
    PROVE  /\ WithRestNotRun(o, i) \in [Entities -> Outcome]
           /\ Finalized(o) \in [Entities -> Outcome]
  BY OutcomeTypes DEF WithRestNotRun, Finalized

LEMMA RecordTypes ==
    ASSUME TypeOK, NEW status \in {"success", "failed"}, NEW category \in Categories,
           NEW outcomes \in [Entities -> Outcome] \cup {<<>>},
           RecordRun(status, category, outcomes)
    PROVE  /\ logged' \in Seq(Record) /\ stored' \in Nat
           /\ \/ stored' = stored
              \/ ~dry /\ stored' = stored + 1
<1> DEFINE row == [status |-> status, category |-> category, outcomes |-> outcomes,
                   attempted |-> attempted, ok |-> sftpOk]
<1>1. row \in Record
  BY DEF Record, TypeOK
<1>2. logged' = Append(logged, row) /\ stored' \in IF dry THEN {stored} ELSE {stored, stored + 1}
  BY DEF RecordRun
<1> HIDE DEF row
<1>3. logged' \in Seq(Record)
  BY <1>1, <1>2 DEF TypeOK
<1> QED BY <1>2, <1>3 DEF TypeOK

-----------------------------------------------------------------------------
(* Types.                                                                  *)

LEMMA InitTypes == Init => TypeOK
<1> SUFFICES ASSUME Init PROVE TypeOK
  OBVIOUS
<1>1. outcome \in [Entities -> Outcome]
  BY OutcomeTypes DEF Init
<1>2. logged \in Seq(Record)
  BY DEF Init
<1>3. /\ isolated \in Categories /\ raised \in Categories
      /\ stage \in Stages /\ raisedAt \in Stages
  BY DEF Init, Categories, Stages, Early
<1>4. next \in Nat \ {0} /\ stored \in Nat /\ exit \in {-1, 0, 1, 3}
  BY DEF Init
<1> QED BY <1>1, <1>2, <1>3, <1>4 DEF Init, TypeOK

LEMMA EarlyTypes ==
    ASSUME TypeOK, CheckInputDir \/ LoadConfig \/ CheckOutputTarget PROVE TypeOK'
<1>1. ASSUME NEW c \in Categories, EarlyExit(c) PROVE TypeOK'
  <2>1. logged' \in Seq(Record) /\ stored' \in Nat
    BY <1>1, RecordTypes DEF EarlyExit
  <2> QED BY <1>1, <2>1 DEF EarlyExit, TypeOK, Goto, Stages, given, disk
<1>2. ASSUME NEW s \in Stages, Proceed(s) PROVE TypeOK'
  BY <1>2 DEF Proceed, TypeOK, Goto, given, disk, told
<1>3. CASE CheckInputDir
  BY <1>1, <1>2, <1>3 DEF CheckInputDir, Stages, Early, Categories
<1>4. CASE LoadConfig
  <2>1. CASE Raises("unknown")
              /\ UNCHANGED <<given, lacking, next, outcome, isolated, disk, told>>
    BY <2>1 DEF Raises, Goto, TypeOK, Stages, Categories, given, disk, told
  <2> QED BY <1>1, <1>2, <1>4, <2>1 DEF LoadConfig, Stages, Early, Categories
<1>5. CASE CheckOutputTarget
  BY <1>1, <1>2, <1>5 DEF CheckOutputTarget, Stages, Early, Categories
<1> QED BY <1>3, <1>4, <1>5

LEMMA InputTypes ==
    ASSUME TypeOK, OpenFolders \/ LoadData \/ CheckRequiredInputs \/ DetermineSchoolYear
    PROVE  TypeOK'
<1>1. CASE OpenFolders
  BY <1>1 DEF OpenFolders, Raises, NoRaise, Goto, TypeOK, Stages, Early, Categories,
              given, disk, told
<1>2. CASE LoadData
  <2>1. lacking' \subseteq Entities
    BY <1>2, ConfiguredFacts DEF LoadData, TypeOK
  <2> QED BY <1>2, <2>1 DEF LoadData, Raises, NoRaise, Goto, TypeOK, Stages, Early,
                            Categories, given, disk, told
<1>3. CASE CheckRequiredInputs
  <2>1. outcome' \in [Entities -> Outcome]
    BY <1>3, OutcomeTypes DEF CheckRequiredInputs, TypeOK, FailedReasons
  <2> QED BY <1>3, <2>1 DEF CheckRequiredInputs, Raises, NoRaise, Goto, TypeOK, Stages,
                            Early, Categories, given, disk, told
<1>4. CASE DetermineSchoolYear
  BY <1>4 DEF DetermineSchoolYear, Raises, NoRaise, Goto, TypeOK, Stages, Categories,
              given, disk, told
<1> QED BY <1>1, <1>2, <1>3, <1>4

LEMMA RecordEmptyTypes ==
    ASSUME TypeOK, stage = "transform", next <= Len(order),
           NEW reason \in EmptyReasons, RecordEmpty(order[next], reason)
    PROVE  /\ outcome' \in [Entities -> Outcome]
           /\ next' \in Nat \ {0}
           /\ raised' \in Categories /\ raisedAt' \in Stages /\ stage' \in Stages
<1> DEFINE e == order[next]
           refined == Observed(reason, e \in lacking)
           recorded == [outcome EXCEPT ![e] = Empty(refined)]
<1>1. e \in Entities
  BY ConfiguredFacts DEF TypeOK
<1>2. Empty(refined) \in Outcome
  BY ObservedType, OutcomeTypes
<1>3. recorded \in [Entities -> Outcome]
  BY <1>1, <1>2 DEF TypeOK
<1>4. WithRestNotRun(recorded, next) \in [Entities -> Outcome]
  BY <1>3, LedgerTypes DEF TypeOK
<1>5. \/ /\ outcome' = WithRestNotRun(recorded, next)
         /\ Raises("empty_required_output") /\ UNCHANGED next
      \/ /\ outcome' = recorded /\ next' = next + 1
         /\ NoRaise /\ UNCHANGED stage
  BY DEF RecordEmpty
<1> HIDE DEF recorded
<1> QED BY <1>3, <1>4, <1>5 DEF TypeOK, Raises, NoRaise, Goto, Stages, Categories

LEMMA TransformTypes ==
    ASSUME TypeOK,
           SkipEntity \/ BuildEntity \/ EmptyEntity \/ FailEntity \/ EndTransform
    PROVE  TypeOK'
<1>0. /\ \A reason \in {"no_source_files_declared", "source_files_empty",
                        "no_rows_after_transform", "required_values_missing"} :
            reason \in EmptyReasons
      /\ \A fault \in TransformFaults : fault[1] \in FailedReasons /\ fault[2] \in Categories
  BY DEF EmptyReasons, NothingToSendReasons, TransformFaults, FailedReasons, Categories
<1>1. ASSUME stage = "transform", next <= Len(order), NEW reason \in EmptyReasons,
             RecordEmpty(order[next], reason), UNCHANGED <<given, lacking, isolated, disk, told>>
      PROVE  TypeOK'
  BY <1>1, RecordEmptyTypes DEF TypeOK, given, disk, told
<1>2. CASE SkipEntity
  BY <1>0, <1>1, <1>2 DEF SkipEntity
<1>3. CASE BuildEntity
  <2>1. outcome' \in [Entities -> Outcome]
    BY <1>3, OutcomeTypes DEF BuildEntity, TypeOK
  <2> QED BY <1>3, <2>1 DEF BuildEntity, TypeOK, NoRaise, given, disk, told
<1>4. CASE EmptyEntity
  BY <1>0, <1>1, <1>4 DEF EmptyEntity
<1>5. CASE FailEntity
  <2>0. next <= Len(order)
    BY <1>5 DEF FailEntity
  <2> DEFINE e == order[next]
  <2>1. PICK fault \in TransformFaults :
          LET recorded == [outcome EXCEPT ![e] = Failed(fault[1])]
          IN \/ /\ e \notin Isolatable
                /\ outcome' = WithRestNotRun(recorded, next)
                /\ Raises(fault[2])
                /\ UNCHANGED <<next, isolated>>
             \/ /\ e \in Isolatable
                /\ outcome' = recorded
                /\ next' = next + 1
                /\ isolated' = IF isolated = "none" THEN fault[2] ELSE isolated
                /\ NoRaise /\ UNCHANGED stage
    BY <1>5 DEF FailEntity
  <2> DEFINE recorded == [outcome EXCEPT ![e] = Failed(fault[1])]
  <2>2. recorded \in [Entities -> Outcome]
    BY <1>0, <2>0, ConfiguredFacts, OutcomeTypes DEF TypeOK
  <2>3. WithRestNotRun(recorded, next) \in [Entities -> Outcome]
    BY <2>2, LedgerTypes DEF TypeOK
  <2>4. outcome' = recorded \/ outcome' = WithRestNotRun(recorded, next)
    BY <2>1
  <2>5. outcome' \in [Entities -> Outcome]
    BY <2>2, <2>3, <2>4
  <2>6. /\ next' = next \/ next' = next + 1
        /\ isolated' \in {isolated, fault[2]}
        /\ \/ raised' = raised /\ raisedAt' = raisedAt /\ stage' = stage
           \/ raised' = fault[2] /\ raisedAt' = stage /\ stage' = "sink"
    BY <2>1 DEF Raises, NoRaise, Goto
  <2>7. /\ next' \in Nat \ {0}
        /\ isolated' \in Categories /\ raised' \in Categories
        /\ raisedAt' \in Stages /\ stage' \in Stages
    BY <1>0, <2>6 DEF TypeOK, Stages
  <2> QED BY <1>5, <2>5, <2>7 DEF FailEntity, TypeOK, given, disk, told
<1>6. CASE EndTransform
  BY <1>6 DEF EndTransform, Raises, NoRaise, Goto, TypeOK, Stages, Out, given, disk, told
<1> QED BY <1>2, <1>3, <1>4, <1>5, <1>6

LEMMA OutTypes ==
    ASSUME TypeOK,
           CheckDeliveryIntegrity \/ SaveAll \/ ArchiveStaleOutputs \/ Deliver
             \/ Finish \/ FailureSink \/ Die
    PROVE  TypeOK'
<1>0. BuiltSet \subseteq Entities
  BY ConfiguredFacts DEF BuiltSet, TypeOK
<1>1. CASE CheckDeliveryIntegrity
  <2>1. IntegrityFault \in Categories
    BY DEF IntegrityFault, Categories
  <2> QED BY <1>1, <2>1 DEF CheckDeliveryIntegrity, Raises, NoRaise, Goto, TypeOK, Stages,
                            Out, given, disk, told
<1>2. CASE SaveAll
  BY <1>0, <1>2 DEF SaveAll, Raises, NoRaise, Goto, TypeOK, Stages, Out, Categories,
                    given, disk, told
<1>3. CASE ArchiveStaleOutputs
  BY <1>3 DEF ArchiveStaleOutputs, Raises, NoRaise, Goto, TypeOK, Stages, Out, Categories,
              given, disk, told
<1>4. CASE Deliver
  BY <1>4 DEF Deliver, NoRaise, Goto, TypeOK, Stages, Out, given, told
<1>5. CASE Finish
  <2>1. CASE RecordRun("success", "none", outcome)
    <3>1. logged' \in Seq(Record) /\ stored' \in Nat
      BY <2>1, RecordTypes DEF TypeOK, Categories
    <3> QED BY <1>5, <3>1 DEF Finish, Raises, NoRaise, Goto, TypeOK, Stages, Categories,
                              given, disk, told
  <2>2. CASE UNCHANGED told
    BY <1>5, <2>2 DEF Finish, Raises, NoRaise, Goto, TypeOK, Stages, Categories,
                      given, disk, told
  <2> QED BY <1>5, <2>1, <2>2 DEF Finish
<1>6. CASE FailureSink
  <2>1. outcome' \in [Entities -> Outcome]
    BY <1>6, LedgerTypes DEF FailureSink, TypeOK
  <2>2. logged' \in Seq(Record) /\ stored' \in Nat
    BY <1>6, <2>1, RecordTypes DEF FailureSink, TypeOK
  <2> QED BY <1>6, <2>1, <2>2 DEF FailureSink, NoRaise, Goto, TypeOK, Stages, given, disk
<1>7. CASE Die
  BY <1>7 DEF Die, NoRaise, Goto, TypeOK, Stages, given, disk, told
<1> QED BY <1>1, <1>2, <1>3, <1>4, <1>5, <1>6, <1>7

LEMMA NextTypes == TypeOK /\ [Next]_vars => TypeOK'
<1> SUFFICES ASSUME TypeOK, [Next]_vars PROVE TypeOK'
  OBVIOUS
<1>1. CASE Next
  BY <1>1, EarlyTypes, InputTypes, TransformTypes, OutTypes DEF Next
<1>2. CASE UNCHANGED vars
  BY <1>2 DEF vars, TypeOK
<1> QED BY <1>1, <1>2

\* What every variable of a run ranges over (src/etl/pipeline.py, run_pipeline).
THEOREM PipelineTypes == Spec => []TypeOK
  BY InitTypes, NextTypes, PTL DEF Spec

-----------------------------------------------------------------------------
(* What is recorded.                                                       *)

\* A step that records nothing, before the run is over.
LEMMA QuietStep ==
    ASSUME RecordInv, stage # "over", UNCHANGED told
    PROVE  RecordInv' /\ LedgerIsComplete' /\ ExitCodeContract'
<1>1. logged' = <<>> /\ stored' = 0 /\ exit' = -1
  BY DEF RecordInv, told
<1> QED BY <1>1 DEF RecordInv, LedgerIsComplete, ExitCodeContract

\* A run is recorded once.
LEMMA RecordedOnce ==
    ASSUME RecordInv, stage # "over", NEW status, NEW category, NEW outcomes,
           RecordRun(status, category, outcomes)
    PROVE  /\ Len(logged') = 1
           /\ logged'[1].status = status /\ logged'[1].outcomes = outcomes
           /\ logged'[1].ok = sftpOk
           /\ stored' <= IF dry THEN 0 ELSE 1
<1> DEFINE row == [status |-> status, category |-> category, outcomes |-> outcomes,
                   attempted |-> attempted, ok |-> sftpOk]
<1>1. logged' = Append(<<>>, row)
  BY DEF RecordRun, RecordInv
<1>2. logged' = <<row>>
  BY <1>1
<1>3. stored' <= IF dry THEN 0 ELSE 1
  BY DEF RecordRun, RecordInv
<1> QED BY <1>2, <1>3

LEMMA EarlyInv ==
    ASSUME IInv,
           \/ CheckInputDir \/ LoadConfig \/ CheckOutputTarget \/ OpenFolders
           \/ LoadData \/ CheckRequiredInputs \/ DetermineSchoolYear
    PROVE  Inv'
<1>1. /\ stage \in Early /\ stage # "over"
      /\ RecordInv /\ next = 1
      /\ written = {} /\ ~attempted /\ delivered = {} /\ ~sftpOk
  BY DEF CheckInputDir, LoadConfig, CheckOutputTarget, OpenFolders, LoadData,
         CheckRequiredInputs, DetermineSchoolYear, IInv, Inv, LoopInv, DiskInv, Early
<1>2. ASSUME UNCHANGED <<given, next, disk>>,
             stage' \in Early \cup {"transform", "sink", "over"}
      PROVE  LoopInv' /\ DiskInv'
  <2>1. LoopInv'
    BY <1>1, <1>2 DEF LoopInv, given, Early, Out, IInv, TypeOK
  <2>2. DiskInv'
    BY <1>1, <1>2 DEF DiskInv, disk, Early
  <2> QED BY <2>1, <2>2
<1>3. ASSUME NEW c, EarlyExit(c) PROVE Inv'
  <2>1. LoopInv' /\ DiskInv'
    BY <1>2, <1>3 DEF EarlyExit, Goto
  <2>2. /\ Len(logged') = 1 /\ logged'[1].outcomes = <<>> /\ logged'[1].status = "failed"
        /\ stored' <= IF dry THEN 0 ELSE 1
    BY <1>1, <1>3, RecordedOnce DEF EarlyExit
  <2>3. RecordInv' /\ exit' = 1 /\ dry' = dry
    BY <1>3 DEF EarlyExit, RecordInv, Goto, given
  <2>4. LedgerIsComplete' /\ ExitCodeContract'
    BY <2>2, <2>3 DEF LedgerIsComplete, ExitCodeContract
  <2> QED BY <2>1, <2>3, <2>4 DEF Inv
<1>4. ASSUME UNCHANGED <<given, next, disk, told>>, stage' \in Early \cup {"transform", "sink"}
      PROVE  Inv'
  BY <1>1, <1>2, <1>4, QuietStep DEF Inv
<1>5. CASE CheckInputDir
  BY <1>3, <1>4, <1>5 DEF CheckInputDir, Proceed, Goto, Early
<1>6. CASE LoadConfig
  BY <1>3, <1>4, <1>6 DEF LoadConfig, Proceed, Raises, Goto, Early
<1>7. CASE CheckOutputTarget
  BY <1>3, <1>4, <1>7 DEF CheckOutputTarget, Proceed, Goto, Early
<1>8. CASE OpenFolders
  BY <1>4, <1>8 DEF OpenFolders, Raises, Goto, Early
<1>9. CASE LoadData
  BY <1>4, <1>9 DEF LoadData, Raises, Goto, Early
<1>10. CASE CheckRequiredInputs
  BY <1>4, <1>10 DEF CheckRequiredInputs, Raises, Goto, Early
<1>11. CASE DetermineSchoolYear
  BY <1>4, <1>11 DEF DetermineSchoolYear, Raises, Goto, Early
<1> QED BY <1>5, <1>6, <1>7, <1>8, <1>9, <1>10, <1>11

-----------------------------------------------------------------------------
(* The entity loop.                                                        *)

\* The loop goes on only after an entity it may go on after.
LEMMA LoopGoesOn ==
    ASSUME TypeOK, LoopInv, stage = "transform", next <= Len(order),
           NEW o,
           \/ o.kind = "built"
           \/ order[next] \in Isolatable /\ o.kind \in {"empty", "failed"}
           \/ o.kind = "empty" /\ EmptyIsExpected(order[next], o.reason),
           outcome' = [outcome EXCEPT ![order[next]] = o],
           next' = next + 1, UNCHANGED <<order, stage>>
    PROVE  LoopInv'
<1>1. order[next] \in Entities
  BY ConfiguredFacts DEF TypeOK
<1>2. outcome'[order[next]] = o
  BY <1>1 DEF TypeOK
<1>3. ASSUME NEW i \in 1 .. Len(order), i < next' PROVE Passed(order[i])'
  <2>1. CASE order[i] = order[next]
    BY <1>2, <2>1 DEF Passed
  <2>2. CASE order[i] # order[next]
    <3>1. order[i] \in Entities
      BY ConfiguredFacts DEF TypeOK
    <3>2. outcome'[order[i]] = outcome[order[i]]
      BY <2>2, <3>1 DEF TypeOK
    <3>3. i < next
      BY <1>3, <2>2, ConfiguredFacts DEF TypeOK
    <3>4. Passed(order[i])
      BY <3>3 DEF LoopInv
    <3> QED BY <3>2, <3>4 DEF Passed
  <2> QED BY <2>1, <2>2
<1> QED BY <1>3 DEF LoopInv, Early, Out

LEMMA TransformInv ==
    ASSUME IInv, SkipEntity \/ BuildEntity \/ EmptyEntity \/ FailEntity \/ EndTransform
    PROVE  Inv'
<1>1. /\ stage = "transform" /\ TypeOK /\ LoopInv /\ RecordInv
      /\ written = {} /\ ~attempted /\ delivered = {} /\ ~sftpOk
      /\ UNCHANGED <<given, disk, told>>
  BY DEF SkipEntity, BuildEntity, EmptyEntity, FailEntity, EndTransform, IInv, Inv, DiskInv
<1>2. ASSUME stage' \in {"transform", "integrity", "sink"}, LoopInv' PROVE Inv'
  <2>1. DiskInv'
    BY <1>1, <1>2 DEF DiskInv, disk
  <2> QED BY <1>1, <1>2, <2>1, QuietStep DEF Inv
<1>3. ASSUME NEW c, Raises(c) PROVE Inv'
  BY <1>2, <1>3 DEF Raises, Goto, LoopInv, Early, Out
<1>4. ASSUME next <= Len(order), NEW reason, RecordEmpty(order[next], reason) PROVE Inv'
  <2> DEFINE e == order[next]
             refined == Observed(reason, e \in lacking)
  <2>1. CASE StopsWhenEmpty(e, refined)
    BY <1>3, <1>4, <2>1 DEF RecordEmpty
  <2>2. CASE ~StopsWhenEmpty(e, refined)
    <3>1. /\ outcome' = [outcome EXCEPT ![e] = Empty(refined)]
          /\ next' = next + 1 /\ UNCHANGED stage
      BY <1>4, <2>2 DEF RecordEmpty
    <3>2. \/ e \in Isolatable
          \/ EmptyIsExpected(e, Empty(refined).reason)
      BY <2>2 DEF StopsWhenEmpty, Empty
    <3>3. Empty(refined).kind = "empty" /\ order' = order
      BY <1>1 DEF Empty, given
    <3>4. LoopInv'
      <4> HIDE DEF refined
      <4> QED BY <1>1, <1>4, <3>1, <3>2, <3>3, LoopGoesOn
    <3> QED BY <1>1, <1>2, <3>1, <3>4
  <2> QED BY <2>1, <2>2
<1>5. CASE SkipEntity
  BY <1>4, <1>5 DEF SkipEntity
<1>6. CASE BuildEntity
  <2>1. LoopInv'
    BY <1>1, <1>6, LoopGoesOn DEF BuildEntity, Built, given
  <2> QED BY <1>1, <1>2, <1>6, <2>1 DEF BuildEntity
<1>7. CASE EmptyEntity
  BY <1>4, <1>7 DEF EmptyEntity
<1>8. CASE FailEntity
  <2>1. PICK fault \in TransformFaults :
          \/ Raises(fault[2])
          \/ /\ order[next] \in Isolatable
             /\ outcome' = [outcome EXCEPT ![order[next]] = Failed(fault[1])]
             /\ next' = next + 1 /\ UNCHANGED stage
    BY <1>8 DEF FailEntity
  <2>2. CASE Raises(fault[2])
    BY <1>3, <2>2
  <2>3. CASE ~Raises(fault[2])
    <3>1. LoopInv'
      BY <1>1, <1>8, <2>1, <2>3, LoopGoesOn DEF FailEntity, Failed, given
    <3> QED BY <1>1, <1>2, <2>1, <2>3, <3>1
  <2> QED BY <2>2, <2>3
<1>9. CASE EndTransform
  <2>1. CASE Raises(isolated)
    BY <1>3, <2>1
  <2>2. CASE stage' = "integrity"
    <3>1. ASSUME NEW x \in Configured PROVE Passed(x)
      <4>1. PICK i \in 1 .. Len(order) : order[i] = x
        BY <1>1, ConfiguredFacts DEF TypeOK
      <4>2. i < next
        BY <1>1, <1>9, ConfiguredFacts DEF EndTransform, TypeOK
      <4> QED BY <1>1, <4>1, <4>2 DEF LoopInv
    <3>2. AllPassed'
      BY <1>9, <3>1 DEF EndTransform, AllPassed, Passed, Configured, given
    <3>3. LoopInv'
      BY <2>2, <3>2 DEF LoopInv, Early
    <3> QED BY <1>2, <2>2, <3>3
  <2> QED BY <1>9, <2>1, <2>2 DEF EndTransform, Goto
<1> QED BY <1>5, <1>6, <1>7, <1>8, <1>9

-----------------------------------------------------------------------------
(* The way out.                                                            *)

\* Once files are written the ledger of the configured entities stands.
LEMMA WrittenStands ==
    ASSUME DiskInv, UNCHANGED <<order, written>>,
           \A e \in Configured : Passed(e) => outcome'[e] = outcome[e],
           written # {}
    PROVE  AllPassed' /\ written' = BuiltSet'
<1>1. Configured' = Configured /\ AllPassed
  BY DEF Configured, DiskInv
<1>2. \A e \in Configured : Passed(e) /\ outcome'[e] = outcome[e]
  BY <1>1 DEF AllPassed
<1>3. AllPassed'
  BY <1>1, <1>2 DEF AllPassed, Passed
<1>4. BuiltSet' = BuiltSet
  BY <1>1, <1>2 DEF BuiltSet
<1> QED BY <1>3, <1>4 DEF DiskInv

LEMMA OutInv ==
    ASSUME IInv,
           CheckDeliveryIntegrity \/ SaveAll \/ ArchiveStaleOutputs \/ Deliver
    PROVE  Inv'
<1>1. /\ stage \in {"integrity", "write", "archive", "deliver"}
      /\ LoopInv /\ DiskInv /\ RecordInv /\ TypeOK /\ AllPassed
      /\ ~attempted /\ delivered = {} /\ ~sftpOk
      /\ UNCHANGED <<given, outcome, told>>
  BY DEF CheckDeliveryIntegrity, SaveAll, ArchiveStaleOutputs, Deliver, IInv, Inv, LoopInv,
         DiskInv, Out
<1>2. AllPassed' /\ BuiltSet' = BuiltSet
  BY <1>1 DEF AllPassed, Passed, Configured, BuiltSet, given
<1>3. ASSUME stage' \in Out \cup {"sink"}, DiskInv' PROVE Inv'
  <2>1. LoopInv'
    BY <1>2, <1>3 DEF LoopInv, Early, Out
  <2> QED BY <1>1, <1>3, <2>1, QuietStep DEF Inv
<1>4. CASE CheckDeliveryIntegrity
  <2>1. stage' \in {"report", "write", "sink"} /\ (stage' = "write" => BuiltSet # {})
    BY <1>4 DEF CheckDeliveryIntegrity, Raises, Goto
  <2>2. DiskInv'
    BY <1>1, <1>2, <1>4, <2>1 DEF CheckDeliveryIntegrity, DiskInv, disk
  <2> QED BY <1>3, <2>1, <2>2 DEF Out
<1>5. CASE SaveAll
  <2>1. \/ stage' = "archive" /\ written' = BuiltSet
        \/ stage' = "sink" /\ written' = written
    BY <1>5 DEF SaveAll, Raises, Goto
  <2>2. DiskInv'
    BY <1>1, <1>2, <1>5, <2>1 DEF SaveAll, DiskInv
  <2> QED BY <1>3, <2>1, <2>2 DEF Out
<1>6. CASE ArchiveStaleOutputs
  <2>1. stage' \in {"deliver", "report", "sink"}
    BY <1>6 DEF ArchiveStaleOutputs, Raises, Goto
  <2>2. DiskInv'
    BY <1>1, <1>2, <1>6, <2>1 DEF ArchiveStaleOutputs, DiskInv, disk
  <2> QED BY <1>3, <2>1, <2>2 DEF Out
<1>7. CASE Deliver
  <2>1. stage' = "report" /\ written' = written
    BY <1>7 DEF Deliver, Goto
  <2>2. DiskInv'
    BY <1>1, <1>2, <1>7, <2>1 DEF Deliver, DiskInv
  <2> QED BY <1>3, <2>1, <2>2 DEF Out
<1> QED BY <1>4, <1>5, <1>6, <1>7

LEMMA EndInv == ASSUME IInv, Finish \/ FailureSink \/ Die PROVE Inv'
<1>1. /\ stage # "over" /\ LoopInv /\ DiskInv /\ RecordInv /\ TypeOK
      /\ UNCHANGED <<given, disk>>
  BY DEF Finish, FailureSink, Die, IInv, Inv
<1>2. ASSUME \A e \in Configured : Passed(e) => outcome'[e] = outcome[e],
             stage' \in {"sink", "over"}, stage \in {"report", "sink"} \/ outcome' = outcome
      PROVE  LoopInv' /\ DiskInv'
  <2>1. LoopInv'
    BY <1>2 DEF LoopInv, Early, Out
  <2>2. written # {} => AllPassed' /\ written' = BuiltSet'
    BY <1>1, <1>2, WrittenStands DEF given, disk
  <2>3. DiskInv'
    BY <1>1, <1>2, <2>2 DEF DiskInv, disk
  <2> QED BY <2>1, <2>3
<1>3. CASE Finish
  <2>1. outcome' = outcome /\ AllPassed /\ stage = "report"
    BY <1>1, <1>3 DEF Finish, LoopInv, Out
  <2>2. stage' \in {"sink", "over"}
    BY <1>3 DEF Finish, Raises, Goto
  <2>3. CASE UNCHANGED told
    BY <1>1, <1>2, <2>1, <2>2, <2>3, QuietStep DEF Inv
  <2>4. CASE /\ RecordRun("success", "none", outcome)
             /\ exit' = IF attempted /\ ~sftpOk THEN 3 ELSE 0
             /\ stage' = "over"
    <3>1. /\ Len(logged') = 1
          /\ logged'[1].status = "success" /\ logged'[1].outcomes = outcome
          /\ logged'[1].ok = sftpOk
          /\ stored' <= IF dry THEN 0 ELSE 1
      BY <1>1, <2>4, RecordedOnce
    <3>2. LedgerIsComplete'
      <4>1. ASSUME NEW e \in Configured
            PROVE  /\ outcome[e] # Unset /\ outcome[e] # NotRun
                   /\ outcome[e].kind = "failed" => e \in Isolatable
        BY <2>1 DEF AllPassed, Passed, Unset, NotRun
      <4>2. Configured' = Configured
        BY <1>1 DEF Configured, given
      <4> QED BY <3>1, <4>1, <4>2 DEF LedgerIsComplete
    <3>3. ExitCodeContract'
      BY <1>1, <2>4, <3>1 DEF ExitCodeContract, DiskInv, given, disk
    <3> QED BY <1>2, <2>1, <2>2, <2>4, <3>2, <3>3 DEF Inv, RecordInv
  <2> QED BY <1>3, <2>3, <2>4 DEF Finish, Goto
<1>4. CASE FailureSink
  <2>1. ASSUME NEW e \in Configured, Passed(e) PROVE outcome'[e] = outcome[e]
    <3>1. outcome[e] # Unset /\ e \in Entities
      BY <1>1, <2>1, ConfiguredFacts DEF Passed, Unset, TypeOK
    <3> QED BY <1>4, <3>1 DEF FailureSink, Finalized
  <2> DEFINE outcomes == IF raisedAt = "config" THEN <<>> ELSE outcome'
  <2>2. /\ Len(logged') = 1
        /\ logged'[1].status = "failed" /\ logged'[1].outcomes = outcomes
        /\ stored' <= IF dry THEN 0 ELSE 1
    BY <1>1, <1>4, RecordedOnce DEF FailureSink
  <2>3. LedgerIsComplete'
    <3>1. ASSUME raisedAt # "config", NEW e \in Configured PROVE outcome'[e] # Unset
      BY <1>1, <1>4, <3>1, ConfiguredFacts DEF FailureSink, Finalized, Unset, NotRun, TypeOK
    <3>2. Configured' = Configured
      BY <1>1 DEF Configured, given
    <3> QED BY <2>2, <3>1, <3>2 DEF LedgerIsComplete
  <2>4. stage' = "over" /\ stage = "sink" /\ exit' = 1
    BY <1>4 DEF FailureSink, Goto
  <2>5. ExitCodeContract'
    BY <1>1, <2>2, <2>4 DEF ExitCodeContract, given
  <2> QED BY <1>2, <2>1, <2>3, <2>4, <2>5 DEF Inv, RecordInv
<1>5. CASE Die
  BY <1>1, <1>2, <1>5, QuietStep DEF Die, Goto, Inv
<1> QED BY <1>3, <1>4, <1>5

LEMMA NextInv == IInv /\ [Next]_vars => Inv'
<1> SUFFICES ASSUME IInv, [Next]_vars PROVE Inv'
  OBVIOUS
<1>1. CASE Next
  BY <1>1, EarlyInv, TransformInv, OutInv, EndInv DEF Next
<1>2. CASE UNCHANGED vars
  <2>1. /\ LoopInv' = LoopInv /\ DiskInv' = DiskInv /\ RecordInv' = RecordInv
    BY <1>2 DEF vars, LoopInv, DiskInv, RecordInv, AllPassed, Passed, Configured, BuiltSet
  <2>2. LedgerIsComplete' = LedgerIsComplete /\ ExitCodeContract' = ExitCodeContract
    BY <1>2 DEF vars, LedgerIsComplete, ExitCodeContract, Configured
  <2> QED BY <2>1, <2>2 DEF IInv, Inv
<1> QED BY <1>1, <1>2

LEMMA InvAlways == Spec => []IInv
<1>1. Init => IInv
  <2>1. Init => Inv
    BY DEF Init, Inv, LoopInv, DiskInv, RecordInv, LedgerIsComplete, ExitCodeContract, Early, Out
  <2> QED BY <2>1, InitTypes DEF IInv
<1>2. IInv /\ [Next]_vars => IInv'
  BY NextTypes, NextInv DEF IInv
<1> QED BY <1>1, <1>2, PTL DEF Spec

\* A file leaves the run only when every entity the night cannot go without was
\* built, or had nothing to send on a normal night; and what leaves is exactly
\* what was built (run_pipeline, from the input gates to save_all).
THEOREM WholeNights == Spec => []OnlyAWholeNightLeaves
<1>1. IInv => OnlyAWholeNightLeaves
  <2> SUFFICES ASSUME IInv PROVE OnlyAWholeNightLeaves
    OBVIOUS
  <2>1. delivered \subseteq written
    BY DEF IInv, Inv, DiskInv
  <2>2. ASSUME written # {}
        PROVE  /\ written = BuiltSet
               /\ \A e \in Configured \ Isolatable :
                    \/ e \in written
                    \/ outcome[e].kind = "empty" /\ EmptyIsExpected(e, outcome[e].reason)
    BY <2>2 DEF IInv, Inv, DiskInv, AllPassed, Passed, BuiltSet
  <2> QED BY <2>1, <2>2 DEF OnlyAWholeNightLeaves
<1> QED BY <1>1, InvAlways, PTL

\* A record that carries outcomes carries one for every configured entity, and a
\* successful run left none failed or unattempted but an isolatable one
\* (src/etl/outcomes.py, OutcomeLedger).
THEOREM CompleteLedgers == Spec => []LedgerIsComplete
<1>1. IInv => LedgerIsComplete
  BY DEF IInv, Inv
<1> QED BY <1>1, InvAlways, PTL

\* 0 is a recorded success whose delivery, if one was attempted, arrived; 3 one
\* with its files on disk and none delivered; 1 a recorded failure (main._cli).
THEOREM ExitCodes == Spec => []ExitCodeContract
<1>1. IInv => ExitCodeContract
  BY DEF IInv, Inv
<1> QED BY <1>1, InvAlways, PTL

-----------------------------------------------------------------------------
(* The delivery of what a run saved (Delivery).                            *)

\* Where the connection is open: only the pinned server gets this far.
Online == {"putZip", "putFeed", "close", "delivered"}

ServerInv ==
    /\ phase \in Online => server \in HostKeys /\ server = Pinned
    /\ server \in HostKeys \ {Pinned} => phase = "failed"
    /\ \A k \in HostKeys \ {Pinned}, n \in Names : remote[k][n] = Nothing

Zipping == {<<"zip", zipDay>> : f \in manifest \ Standalone}

\* What is on the server under a name is a part of the envelope.
EnvelopeInv ==
    \A k \in HostKeys, n \in Names : remote[k][n] # Nothing =>
        \/ n \in Zipping /\ DOMAIN remote[k][n].bytes = manifest \ Standalone
        \/ \E f \in manifest \cap Standalone :
              n = <<"feed", f>> /\ DOMAIN remote[k][n].bytes = {f}

\* The zip is complete before the first attempt begins.
ZipInv ==
    phase \in {"connect"} \cup Online => DOMAIN zip = manifest \ Standalone

\* An attempt that got so far has put what comes before whole.
PutInv ==
    /\ phase = "putZip" => sending = manifest \cap Standalone
    /\ phase \in {"putFeed", "close", "delivered"} =>
         /\ \A n \in Zipping : remote[server][n].whole
         /\ \A f \in (manifest \cap Standalone) \ sending :
               remote[server][<<"feed", f>>].whole
    /\ phase \in {"close", "delivered"} => sending = {}

UploadInv == DeliveryTypeOK /\ RetriesStayInBudget /\ ServerInv /\ EnvelopeInv /\ ZipInv /\ PutInv

-----------------------------------------------------------------------------

LEMMA BytesOf ==
  ASSUME NEW s \in SUBSET CsvFiles, NEW b \in [s -> 0 .. 2]
  PROVE  b \in Bytes
BY DEF Bytes

LEMMA BytesAre ==
  ASSUME NEW b \in Bytes
  PROVE  DOMAIN b \subseteq CsvFiles /\ \A f \in DOMAIN b : b[f] \in 0 .. 2
BY DEF Bytes

LEMMA NothingIsEmpty == Nothing \in [whole : BOOLEAN, bytes : Bytes]
<1>1. <<>> \in [{} -> 0 .. 2]
  OBVIOUS
<1>2. <<>> \in Bytes
  BY <1>1, BytesOf
<1> QED BY <1>2 DEF Nothing

LEMMA WaitsAreTimes ==
  ASSUME scheduled \in BOOLEAN
  PROVE  /\ Attempts \in Nat \ {0}
         /\ \A i \in Nat \ {0} : i < Attempts => Waits[i] \in Nat
BY TimesAssumption DEF Attempts, Waits

LEMMA UploadInitInv == DeliveryInit => UploadInv
<1> SUFFICES ASSUME DeliveryInit PROVE UploadInv
  OBVIOUS
<1>1. zip \in Bytes /\ DOMAIN zip = {}
  <2>1. zip \in [{} -> 0 .. 2]
    BY DEF DeliveryInit
  <2> QED BY <2>1, BytesOf
<1>2. DeliveryTypeOK
  BY <1>1, NothingIsEmpty, WaitsAreTimes DEF DeliveryInit, DeliveryTypeOK, Phases, Pins, Day
<1> QED BY <1>2 DEF UploadInv, DeliveryInit, RetriesStayInBudget, ServerInv, EnvelopeInv, ZipInv,
           PutInv, Online, HostKeys, Unpinned

\* What _with_retry does to the clock and the counter.
LEMMA FailsOrRetries ==
  ASSUME DeliveryTypeOK, Fails \/ Retry
  PROVE  /\ phase' \in {"failed", "connect"}
         /\ attempt' \in 1 .. Attempts /\ elapsed' \in Nat
         /\ phase' # "failed" => elapsed' < Budget
<1>1. CASE Fails
  BY <1>1, TimesAssumption DEF Fails, Enter, DeliveryTypeOK
<1>2. CASE Retry
  <2>1. attempt \in Nat \ {0} /\ attempt < Attempts /\ Attempts \in Nat
    BY <1>2, WaitsAreTimes DEF Retry, DeliveryTypeOK
  <2>2. Waits[attempt] \in Nat
    BY <2>1, WaitsAreTimes DEF DeliveryTypeOK
  <2> QED BY <1>2, <2>1, <2>2, TimesAssumption DEF Retry, Enter, DeliveryTypeOK
<1> QED BY <1>1, <1>2

\* What a put may change on the servers.
LEMMA PutChanges ==
  ASSUME DeliveryTypeOK, server \in HostKeys, NEW name \in Names, NEW b \in Bytes,
         Put(name, b) \/ BrokenPut(name, b)
  PROVE  /\ remote' \in [HostKeys -> [Names -> [whole : BOOLEAN, bytes : Bytes]]]
         /\ \A k \in HostKeys, n \in Names : k # server \/ n # name =>
               remote'[k][n] = remote[k][n]
         /\ \/ remote'[server][name] = remote[server][name]
            \/ remote'[server][name].bytes = b
         /\ Put(name, b) => remote'[server][name].whole /\ remote'[server][name].bytes = b
<1>1. remote \in [HostKeys -> [Names -> [whole : BOOLEAN, bytes : Bytes]]]
  BY DEF DeliveryTypeOK
<1>2. ASSUME NEW w \in BOOLEAN,
             remote' = [remote EXCEPT ![server][name] = [whole |-> w, bytes |-> b]]
      PROVE  /\ remote' \in [HostKeys -> [Names -> [whole : BOOLEAN, bytes : Bytes]]]
             /\ \A k \in HostKeys, n \in Names : k # server \/ n # name =>
                   remote'[k][n] = remote[k][n]
             /\ remote'[server][name] = [whole |-> w, bytes |-> b]
  <2>1. [whole |-> w, bytes |-> b] \in [whole : BOOLEAN, bytes : Bytes]
    OBVIOUS
  <2>2. [remote[server] EXCEPT ![name] = [whole |-> w, bytes |-> b]]
           \in [Names -> [whole : BOOLEAN, bytes : Bytes]]
    BY <1>1, <2>1
  <2>3. remote' = [remote EXCEPT ![server] =
                     [remote[server] EXCEPT ![name] = [whole |-> w, bytes |-> b]]]
    BY <1>2
  <2> QED BY <1>1, <2>1, <2>2, <2>3
<1>3. CASE Put(name, b)
  BY <1>2, <1>3 DEF Put
<1>4. CASE BrokenPut(name, b) /\ ~Put(name, b)
  <2>1. CASE UNCHANGED remote
    BY <1>1, <1>4, <2>1
  <2>2. CASE \E w \in BOOLEAN :
          remote' = [remote EXCEPT ![server][name] = [whole |-> w, bytes |-> b]]
    <3> PICK w \in BOOLEAN :
               remote' = [remote EXCEPT ![server][name] = [whole |-> w, bytes |-> b]]
      BY <2>2
    <3>1. remote'[server][name] = [whole |-> w, bytes |-> b]
      BY <1>2
    <3>2. [whole |-> w, bytes |-> b].bytes = b
      OBVIOUS
    <3> QED BY <1>2, <1>4, <3>1, <3>2
  <2> QED BY <1>4, <2>1, <2>2 DEF BrokenPut
<1> QED BY <1>3, <1>4

LEMMA StepType == DeliveryTypeOK /\ ServerInv /\ [DeliveryNext]_deliveryVars => DeliveryTypeOK'
<1> SUFFICES ASSUME DeliveryTypeOK, ServerInv, [DeliveryNext]_deliveryVars PROVE DeliveryTypeOK'
  OBVIOUS
<1> USE DEF handed, Enter
<1>0. /\ manifest \subseteq CsvFiles /\ scheduled \in BOOLEAN
      /\ pins \in [{"user", "bundled"} -> Pins] /\ midnight \in Midnights
      /\ local \in [CsvFiles -> 0 .. 2] /\ zip \in Bytes
      /\ DOMAIN zip \subseteq manifest \ Standalone /\ zipDay \in {1, 2}
      /\ attempt \in 1 .. Attempts /\ elapsed \in Nat /\ server \in Pins
      /\ sending \subseteq manifest \cap Standalone
      /\ remote \in [HostKeys -> [Names -> [whole : BOOLEAN, bytes : Bytes]]]
      /\ Pinned \in Pins
  BY DEF DeliveryTypeOK, Pinned
<1>1. CASE CheckManifest
  BY <1>1, WaitsAreTimes DEF CheckManifest, DeliveryTypeOK, Phases, Attempts, Waits
<1>2. CASE ZipFile
  <2> PICK f \in CsvFiles : ZipFile!2!(f)
    BY <1>2 DEF ZipFile
  <2>1. f \in manifest \ Standalone
    BY DEF IsNext
  <2>2. zip' \in [DOMAIN zip \cup {f} -> 0 .. 2]
    BY <1>0, BytesAre
  <2>3. DOMAIN zip \cup {f} \in SUBSET CsvFiles
    BY <1>0, <2>1
  <2>4. zip' \in Bytes /\ DOMAIN zip' = DOMAIN zip \cup {f}
    BY <2>2, <2>3, BytesOf
  <2> QED BY <1>0, <1>2, <2>1, <2>4 DEF ZipFile, DeliveryTypeOK, Attempts, Waits
<1>3. CASE ZipFails \/ ZipBuilt
  BY <1>0, <1>3 DEF ZipFails, ZipBuilt, DeliveryTypeOK, Phases, Attempts, Waits
<1>4. ASSUME NEW key \in HostKeys, ConnectTo(key) PROVE DeliveryTypeOK'
  <2>1. /\ phase' \in Phases /\ attempt' \in 1 .. Attempts /\ elapsed' \in Nat
        /\ sending' \subseteq manifest \cap Standalone
    <3>1. CASE Fails \/ Retry
      BY <1>0, <1>4, <3>1, FailsOrRetries DEF ConnectTo, Phases
    <3>2. CASE ~(Fails \/ Retry)
      BY <1>0, <1>4, <3>2 DEF ConnectTo, Phases
    <3> QED BY <3>1, <3>2
  <2>2. server' \in Pins /\ UNCHANGED <<handed, local, zip, zipDay, remote>>
    BY <1>4 DEF ConnectTo, Pins
  <2> QED BY <1>0, <2>1, <2>2 DEF DeliveryTypeOK, Attempts, Waits
<1>5. CASE ConnectFails
  <2>1. server' \in Pins /\ UNCHANGED <<handed, local, zip, zipDay, sending, remote>>
    BY <1>5 DEF ConnectFails, Pins
  <2>2. Fails \/ Retry
    BY <1>5 DEF ConnectFails
  <2> QED BY <1>0, <2>1, <2>2, FailsOrRetries DEF DeliveryTypeOK, Phases, Attempts, Waits
<1>6. CASE PutZip
  <2>1. /\ phase = "putZip"
        /\ UNCHANGED <<handed, local, zip, zipDay, server, sending>>
    BY <1>6 DEF PutZip
  <2>2. phase' \in Phases /\ attempt' \in 1 .. Attempts /\ elapsed' \in Nat
    <3>1. CASE Fails \/ Retry
      BY <3>1, FailsOrRetries DEF Phases
    <3>2. CASE ~(Fails \/ Retry)
      BY <1>0, <1>6, <3>2 DEF PutZip, Phases
    <3> QED BY <3>1, <3>2
  <2>3. server \in HostKeys /\ <<"zip", zipDay>> \in Names
    BY <1>0, <2>1 DEF ServerInv, Online, Names
  <2>4. \/ UNCHANGED remote
        \/ Put(<<"zip", zipDay>>, zip) \/ BrokenPut(<<"zip", zipDay>>, zip)
    BY <1>6 DEF PutZip
  <2>5. remote' \in [HostKeys -> [Names -> [whole : BOOLEAN, bytes : Bytes]]]
    BY <1>0, <2>3, <2>4, PutChanges
  <2> QED BY <1>0, <2>1, <2>2, <2>5 DEF DeliveryTypeOK, Attempts, Waits
<1>7. CASE PutFeed
  <2> PICK f \in sending : PutFeed!2!(f)
    BY <1>7 DEF PutFeed
  <2>1. phase = "putFeed" /\ UNCHANGED <<handed, local, zip, zipDay, server>>
    BY <1>7 DEF PutFeed
  <2>2. /\ phase' \in Phases /\ attempt' \in 1 .. Attempts /\ elapsed' \in Nat
        /\ sending' \subseteq manifest \cap Standalone
    <3>1. CASE Fails \/ Retry
      BY <1>0, <3>1, FailsOrRetries DEF Phases
    <3>2. CASE ~(Fails \/ Retry)
      BY <1>0, <2>1, <3>2 DEF Phases
    <3> QED BY <3>1, <3>2
  <2>3. server \in HostKeys /\ <<"feed", f>> \in Names
    BY <1>0, <2>1 DEF ServerInv, Online, Names
  <2>4. [g \in {f} |-> local[f]] \in Bytes
    <3>1. [g \in {f} |-> local[f]] \in [{f} -> 0 .. 2] /\ {f} \in SUBSET CsvFiles
      BY <1>0
    <3> QED BY <3>1, BytesOf
  <2>5. \/ UNCHANGED remote
        \/ Put(<<"feed", f>>, [g \in {f} |-> local[f]])
        \/ BrokenPut(<<"feed", f>>, [g \in {f} |-> local[f]])
    OBVIOUS
  <2>6. remote' \in [HostKeys -> [Names -> [whole : BOOLEAN, bytes : Bytes]]]
    BY <1>0, <2>3, <2>4, <2>5, PutChanges
  <2> QED BY <1>0, <2>1, <2>2, <2>6 DEF DeliveryTypeOK, Attempts, Waits
<1>8. CASE FeedsPut
  BY <1>0, <1>8 DEF FeedsPut, DeliveryTypeOK, Phases, Attempts, Waits
<1>9. CASE Close
  <2>1. phase' \in Phases /\ attempt' \in 1 .. Attempts /\ elapsed' \in Nat
    <3>1. CASE Fails \/ Retry
      BY <3>1, FailsOrRetries DEF Phases
    <3>2. CASE ~(Fails \/ Retry)
      BY <1>0, <1>9, <3>2 DEF Close, Phases
    <3> QED BY <3>1, <3>2
  <2> QED BY <1>0, <1>9, <2>1 DEF Close, DeliveryTypeOK, Attempts, Waits
<1>10. CASE OtherRunWrites
  BY <1>0, <1>10 DEF OtherRunWrites, DeliveryTypeOK, Attempts, Waits
<1>11. CASE UNCHANGED deliveryVars
  BY <1>0, <1>11 DEF deliveryVars, DeliveryTypeOK, Attempts, Waits
<1> QED BY <1>1, <1>2, <1>3, <1>4, <1>5, <1>6, <1>7, <1>8, <1>9, <1>10, <1>11
        DEF DeliveryNext, Step

-----------------------------------------------------------------------------

LEMMA StepInv == UploadInv /\ [DeliveryNext]_deliveryVars => UploadInv'
<1> SUFFICES ASSUME UploadInv, [DeliveryNext]_deliveryVars
             PROVE  (RetriesStayInBudget /\ ServerInv /\ EnvelopeInv /\ ZipInv /\ PutInv)'
  BY StepType DEF UploadInv
<1> USE DEF handed, Enter
<1>0. /\ DeliveryTypeOK /\ RetriesStayInBudget /\ ServerInv /\ EnvelopeInv /\ ZipInv /\ PutInv
      /\ remote \in [HostKeys -> [Names -> [whole : BOOLEAN, bytes : Bytes]]]
      /\ DOMAIN zip \subseteq manifest \ Standalone
      /\ sending \subseteq manifest \cap Standalone
  BY DEF UploadInv, DeliveryTypeOK
\* Where only the phase moves, or the folder, before the connection is open.
<1>1. CASE CheckManifest \/ ZipFile \/ ZipFails \/ ZipBuilt
  <2>1. /\ phase' \in {"zip", "connect", "failed"} /\ phase \in {"check", "zip"}
        /\ phase' = "connect" => DOMAIN zip' = manifest \ Standalone
        /\ UNCHANGED <<handed, zipDay, attempt, elapsed, server, sending, remote>>
    BY <1>1 DEF CheckManifest, ZipFile, ZipFails, ZipBuilt
  <2> QED BY <1>0, <2>1 DEF RetriesStayInBudget, ServerInv, EnvelopeInv, ZipInv, PutInv,
             Online, Zipping, Pinned
<1>2. ASSUME NEW key \in HostKeys, ConnectTo(key)
      PROVE  (RetriesStayInBudget /\ ServerInv /\ EnvelopeInv /\ ZipInv /\ PutInv)'
  <2>1. /\ phase = "connect" /\ server' = key
        /\ UNCHANGED <<handed, local, zip, zipDay, remote>>
    BY <1>2 DEF ConnectTo
  <2>2. CASE /\ phase' = "putZip" /\ key = Pinned /\ UNCHANGED <<attempt, elapsed>>
             /\ sending' = manifest \cap Standalone
    BY <1>0, <2>1, <2>2 DEF RetriesStayInBudget, ServerInv, EnvelopeInv, ZipInv, PutInv,
       Online, Zipping, Pinned
  <2>3. CASE (Fails \/ Retry) /\ key = Pinned
    BY <1>0, <2>1, <2>3, FailsOrRetries DEF RetriesStayInBudget, ServerInv, EnvelopeInv,
       ZipInv, PutInv, Online, Zipping, Pinned
  <2>4. CASE Fails
    <3>1. phase' = "failed"
      BY <2>4 DEF Fails
    <3> QED BY <1>0, <2>1, <3>1 DEF RetriesStayInBudget, ServerInv, EnvelopeInv,
               ZipInv, PutInv, Online, Zipping, Pinned
  <2> QED BY <1>2, <2>2, <2>3, <2>4 DEF ConnectTo, Accepts
<1>3. CASE ConnectFails
  <2>1. /\ server' = Unpinned
        /\ Fails \/ Retry
        /\ UNCHANGED <<handed, local, zip, zipDay, sending, remote>>
    BY <1>3 DEF ConnectFails
  <2>2. phase = "connect" /\ Unpinned \notin HostKeys
    BY <1>3 DEF ConnectFails, Unpinned, HostKeys
  <2> QED BY <1>0, <2>1, <2>2, FailsOrRetries DEF RetriesStayInBudget, ServerInv,
             EnvelopeInv, ZipInv, PutInv, Online, Zipping, Pinned
<1>4. CASE PutZip
  <2>1. /\ phase = "putZip" /\ UNCHANGED <<handed, local, zip, zipDay, server, sending>>
        /\ server \in HostKeys /\ server = Pinned
        /\ DOMAIN zip = manifest \ Standalone /\ zip \in Bytes
        /\ <<"zip", zipDay>> \in Names
    BY <1>0, <1>4 DEF PutZip, ServerInv, ZipInv, Online, DeliveryTypeOK, Names
  <2>2. /\ \A k \in HostKeys, n \in Names : k # server \/ n # <<"zip", zipDay>> =>
              remote'[k][n] = remote[k][n]
        /\ \/ UNCHANGED remote
           \/ /\ DOMAIN zip # {}
              /\ \/ remote'[server][<<"zip", zipDay>>] = remote[server][<<"zip", zipDay>>]
                 \/ remote'[server][<<"zip", zipDay>>].bytes = zip
    BY <1>0, <1>4, <2>1, PutChanges DEF PutZip
  <2>3. phase' = "putFeed" /\ DOMAIN zip # {} => remote'[server][<<"zip", zipDay>>].whole
    BY <1>0, <1>4, <2>1, PutChanges, FailsOrRetries DEF PutZip
  <2>4. EnvelopeInv'
    <3> SUFFICES ASSUME NEW k \in HostKeys, NEW n \in Names, remote'[k][n] # Nothing
                 PROVE  \/ n \in Zipping /\ DOMAIN remote'[k][n].bytes = manifest \ Standalone
                        \/ \E f \in manifest \cap Standalone :
                              n = <<"feed", f>> /\ DOMAIN remote'[k][n].bytes = {f}
      BY <2>1 DEF EnvelopeInv, Zipping
    <3>1. CASE remote'[k][n] = remote[k][n]
      BY <1>0, <3>1 DEF EnvelopeInv
    <3>2. CASE remote'[k][n] # remote[k][n]
      <4>1. k = server /\ n = <<"zip", zipDay>>
        BY <2>2, <3>2
      <4>2. DOMAIN zip # {} /\ remote'[server][<<"zip", zipDay>>].bytes = zip
        <5>1. remote'[server][<<"zip", zipDay>>] # remote[server][<<"zip", zipDay>>]
          BY <3>2, <4>1
        <5>2. ~UNCHANGED remote
          BY <5>1
        <5> QED BY <2>2, <5>1, <5>2
      <4> QED BY <2>1, <4>1, <4>2 DEF Zipping
    <3> QED BY <3>1, <3>2
  <2>5. PutInv'
    <3>1. phase' \in {"putFeed", "failed", "connect"}
      BY <1>0, <1>4, FailsOrRetries DEF PutZip
    <3>2. CASE phase' = "putFeed"
      <4>1. \A n \in Zipping : n = <<"zip", zipDay>> /\ DOMAIN zip # {}
        BY <2>1 DEF Zipping
      <4>2. \A n \in Zipping' : remote'[server'][n].whole
        BY <2>1, <2>3, <3>2, <4>1 DEF Zipping
      <4>3. sending = manifest \cap Standalone
        BY <1>0, <2>1 DEF PutInv
      <4> QED BY <2>1, <3>2, <4>2, <4>3 DEF PutInv
    <3> QED BY <3>1, <3>2 DEF PutInv
  <2>6. phase' \in {"putFeed", "failed", "connect"} /\ RetriesStayInBudget'
    <3>1. CASE phase' = "putFeed" /\ UNCHANGED <<attempt, elapsed>>
      BY <1>0, <2>1, <3>1 DEF RetriesStayInBudget
    <3>2. CASE Fails \/ Retry
      BY <1>0, <3>2, FailsOrRetries DEF RetriesStayInBudget
    <3> QED BY <1>4, <3>1, <3>2 DEF PutZip
  <2> QED BY <1>0, <2>1, <2>2, <2>4, <2>5, <2>6 DEF ServerInv, ZipInv, Online, Pinned
<1>5. CASE PutFeed
  <2> PICK f \in sending : PutFeed!2!(f)
    BY <1>5 DEF PutFeed
  <2>1. /\ phase = "putFeed" /\ UNCHANGED <<handed, local, zip, zipDay, server>>
        /\ server \in HostKeys /\ server = Pinned
        /\ <<"feed", f>> \in Names /\ f \in manifest \cap Standalone
    BY <1>0, <1>5 DEF PutFeed, ServerInv, Online, Names
  <2>2. [g \in {f} |-> local[f]] \in Bytes
    <3>1. [g \in {f} |-> local[f]] \in [{f} -> 0 .. 2] /\ {f} \in SUBSET CsvFiles
      BY <1>0, <2>1 DEF DeliveryTypeOK
    <3> QED BY <3>1, BytesOf
  <2>3. /\ \A k \in HostKeys, n \in Names : k # server \/ n # <<"feed", f>> =>
              remote'[k][n] = remote[k][n]
        /\ \/ remote'[server][<<"feed", f>>] = remote[server][<<"feed", f>>]
           \/ DOMAIN remote'[server][<<"feed", f>>].bytes = {f}
    <3>1. CASE UNCHANGED remote
      BY <3>1
    <3>2. CASE \/ Put(<<"feed", f>>, [g \in {f} |-> local[f]])
               \/ BrokenPut(<<"feed", f>>, [g \in {f} |-> local[f]])
      <4>1. DOMAIN [g \in {f} |-> local[f]] = {f}
        OBVIOUS
      <4>2. /\ \A k \in HostKeys, n \in Names : k # server \/ n # <<"feed", f>> =>
                  remote'[k][n] = remote[k][n]
            /\ \/ remote'[server][<<"feed", f>>] = remote[server][<<"feed", f>>]
               \/ remote'[server][<<"feed", f>>].bytes = [g \in {f} |-> local[f]]
        BY <1>0, <2>1, <2>2, <3>2, PutChanges
      <4> QED BY <4>1, <4>2
    <3> QED BY <3>1, <3>2
  <2>4. EnvelopeInv'
    <3> SUFFICES ASSUME NEW k \in HostKeys, NEW n \in Names, remote'[k][n] # Nothing
                 PROVE  \/ n \in Zipping /\ DOMAIN remote'[k][n].bytes = manifest \ Standalone
                        \/ \E g \in manifest \cap Standalone :
                              n = <<"feed", g>> /\ DOMAIN remote'[k][n].bytes = {g}
      BY <2>1 DEF EnvelopeInv, Zipping
    <3>1. CASE remote'[k][n] = remote[k][n]
      BY <1>0, <3>1 DEF EnvelopeInv
    <3>2. CASE remote'[k][n] # remote[k][n]
      <4>1. n = <<"feed", f>> /\ DOMAIN remote'[k][n].bytes = {f}
        BY <2>3, <3>2
      <4> QED BY <2>1, <4>1
    <3> QED BY <3>1, <3>2
  <2>5. CASE /\ Put(<<"feed", f>>, [g \in {f} |-> local[f]])
             /\ sending' = sending \ {f}
             /\ UNCHANGED <<phase, attempt, elapsed>>
    <3>1. remote'[server][<<"feed", f>>].whole
      BY <1>0, <2>1, <2>2, <2>5, PutChanges
    <3>2. \A n \in Zipping : n \in Names /\ n # <<"feed", f>>
      BY <1>0 DEF Zipping, Names, DeliveryTypeOK
    <3>3. \A g \in (manifest \cap Standalone) \ sending' :
             remote'[server][<<"feed", g>>].whole
      <4> SUFFICES ASSUME NEW g \in (manifest \cap Standalone) \ sending'
                   PROVE  remote'[server][<<"feed", g>>].whole
        OBVIOUS
      <4>1. <<"feed", g>> \in Names
        BY DEF Names
      <4>2. CASE g = f
        BY <3>1, <4>2
      <4>3. CASE g # f
        <5>1. remote[server][<<"feed", g>>].whole
          BY <1>0, <2>1, <2>5, <4>3 DEF PutInv
        <5>2. <<"feed", g>> # <<"feed", f>>
          BY <4>3
        <5> QED BY <2>1, <2>3, <4>1, <5>1, <5>2
      <4> QED BY <4>2, <4>3
    <3>4. \A n \in Zipping : remote'[server][n].whole
      BY <1>0, <2>1, <2>3, <3>2 DEF PutInv
    <3>5. PutInv'
      BY <2>1, <2>5, <3>3, <3>4 DEF PutInv, Zipping
    <3> QED BY <1>0, <2>1, <2>3, <2>4, <2>5, <3>5
            DEF RetriesStayInBudget, ServerInv, ZipInv, Online, Pinned
  <2>6. CASE Fails \/ Retry
    BY <1>0, <2>1, <2>3, <2>4, <2>6, FailsOrRetries
    DEF RetriesStayInBudget, ServerInv, ZipInv, PutInv, Online, Pinned
  <2> QED BY <2>5, <2>6
<1>6. CASE FeedsPut
  BY <1>0, <1>6 DEF FeedsPut, RetriesStayInBudget, ServerInv, EnvelopeInv, ZipInv, PutInv,
     Online, Zipping, Pinned
<1>7. CASE Close
  <2>1. /\ phase = "close"
        /\ UNCHANGED <<handed, local, zip, zipDay, server, sending, remote>>
    BY <1>7 DEF Close
  <2>2. CASE phase' = "delivered" /\ UNCHANGED <<attempt, elapsed>>
    BY <1>0, <2>1, <2>2 DEF RetriesStayInBudget, ServerInv, EnvelopeInv, ZipInv, PutInv,
       Online, Zipping, Pinned
  <2>3. CASE Fails \/ Retry
    BY <1>0, <2>1, <2>3, FailsOrRetries DEF RetriesStayInBudget, ServerInv, EnvelopeInv,
       ZipInv, PutInv, Online, Zipping, Pinned
  <2> QED BY <1>7, <2>2, <2>3 DEF Close
<1>8. CASE OtherRunWrites
  BY <1>0, <1>8 DEF OtherRunWrites, RetriesStayInBudget, ServerInv, EnvelopeInv, ZipInv,
     PutInv, Online, Zipping, Pinned
<1>9. CASE UNCHANGED deliveryVars
  BY <1>0, <1>9 DEF deliveryVars, RetriesStayInBudget, ServerInv, EnvelopeInv, ZipInv,
     PutInv, Online, Zipping, Pinned
<1> QED BY <1>1, <1>2, <1>3, <1>4, <1>5, <1>6, <1>7, <1>8, <1>9 DEF DeliveryNext, Step

LEMMA UploadInvariance == DeliverySpec => []UploadInv
  BY UploadInitInv, StepInv, PTL DEF DeliverySpec

\* What every variable of a delivery ranges over.
THEOREM DeliveryTypes == DeliverySpec => []DeliveryTypeOK
<1>1. UploadInv => DeliveryTypeOK
  BY DEF UploadInv
<1> QED BY <1>1, UploadInvariance, PTL

\* PinnedHostKeyPolicy: whatever servers the attempts meet, only the pinned one
\* is sent anything, and meeting another one is never retried.
THEOREM FailsClosed == DeliverySpec => []UnverifiedServerGetsNothing
<1>1. UploadInv => UnverifiedServerGetsNothing
  BY DEF UploadInv, ServerInv, UnverifiedServerGetsNothing
<1> QED BY <1>1, UploadInvariance, PTL

\* _with_retry: every retry begins before the budget is spent, whatever the
\* schedule and however long an attempt takes.
THEOREM BudgetHolds == DeliverySpec => []RetriesStayInBudget
<1>1. UploadInv => RetriesStayInBudget
  BY DEF UploadInv
<1> QED BY <1>1, UploadInvariance, PTL

\* upload_csvs: nothing reaches the server under a name the delivery does not
\* own, or from outside its manifest, across retries and midnight.
THEOREM EnvelopeHolds == DeliverySpec => []OnlyTheEnvelope
<1>1. UploadInv => OnlyTheEnvelope
  BY DEF UploadInv, EnvelopeInv, OnlyTheEnvelope, Envelope, Zipping
<1> QED BY <1>1, UploadInvariance, PTL

\* upload_csvs: a delivery that returns has put every manifested file, whole.
THEOREM DeliveredIsWhole == DeliverySpec => []SuccessMeansWhole
<1>1. ASSUME UploadInv, phase = "delivered"
      PROVE  /\ \A n \in Envelope : remote[server][n].whole
             /\ UNION {DOMAIN remote[server][n].bytes : n \in Envelope} = manifest
  <2>1. /\ server \in HostKeys /\ sending = {} /\ manifest \subseteq CsvFiles
        /\ zipDay \in {1, 2}
    BY <1>1 DEF UploadInv, ServerInv, PutInv, Online, DeliveryTypeOK
  <2>2. ASSUME NEW n \in Zipping
        PROVE  /\ remote[server][n].whole
               /\ DOMAIN remote[server][n].bytes = manifest \ Standalone
    <3>1. n \in Names /\ \A f \in Standalone : n # <<"feed", f>>
      BY <2>1 DEF Zipping, Names
    <3>2. remote[server][n].whole
      BY <1>1 DEF UploadInv, PutInv
    <3>3. remote[server][n] # Nothing
      BY <3>2 DEF Nothing
    <3> QED BY <1>1, <2>1, <3>1, <3>2, <3>3 DEF UploadInv, EnvelopeInv
  <2>3. ASSUME NEW f \in manifest \cap Standalone
        PROVE  /\ remote[server][<<"feed", f>>].whole
               /\ DOMAIN remote[server][<<"feed", f>>].bytes = {f}
    <3>1. <<"feed", f>> \in Names /\ <<"feed", f>> \notin Zipping
      BY DEF Zipping, Names
    <3>2. remote[server][<<"feed", f>>].whole
      BY <1>1, <2>1 DEF UploadInv, PutInv
    <3>3. remote[server][<<"feed", f>>] # Nothing
      BY <3>2 DEF Nothing
    <3> QED BY <1>1, <2>1, <3>1, <3>2, <3>3 DEF UploadInv, EnvelopeInv
  <2>4. Envelope = Zipping \cup {<<"feed", f>> : f \in manifest \cap Standalone}
    BY DEF Envelope, Zipping
  <2>5. \A f \in manifest \ Standalone : <<"zip", zipDay>> \in Zipping
    BY DEF Zipping
  <2> DEFINE Content == UNION {DOMAIN remote[server][n].bytes : n \in Envelope}
  <2>6. ASSUME NEW f \in manifest PROVE f \in Content
    <3>1. CASE f \in Standalone
      <4>1. <<"feed", f>> \in Envelope
        BY <2>4, <3>1
      <4>2. f \in DOMAIN remote[server][<<"feed", f>>].bytes
        BY <2>3, <3>1
      <4> QED BY <4>1, <4>2
    <3>2. CASE f \notin Standalone
      BY <2>2, <2>4, <2>5, <3>2
    <3> QED BY <3>1, <3>2
  <2>7. Content \subseteq manifest
    BY <2>2, <2>3, <2>4
  <2> QED BY <2>2, <2>3, <2>4, <2>6, <2>7
<1>2. UploadInv => SuccessMeansWhole
  BY <1>1 DEF SuccessMeansWhole
<1> QED BY <1>2, UploadInvariance, PTL

-----------------------------------------------------------------------------
(* A roster. Frames first: what pandas' indexing returns, as sets of rows.  *)

LEMMA Least ==
    ASSUME NEW T \in SUBSET Nat, T # {}
    PROVE  \E m \in T : \A k \in T : m <= k
<1>1. PICK m \in T : \A k \in T : <<k, m>> \notin OpToRel(<, Nat)
  BY NatLessThanWellFounded, WFMin
<1>2. \A k \in T : ~(k < m)
  BY <1>1 DEF OpToRel
<1> QED BY <1>2

LEMMA FrameFacts ==
    ASSUME NEW rows, IsFrame(rows)
    PROVE  /\ Len(rows) \in Nat /\ DOMAIN rows = 1 .. Len(rows)
           /\ \A i \in DOMAIN rows : rows[i] \in ToSet(rows)
           /\ \A r \in ToSet(rows) : \E i \in DOMAIN rows : r = rows[i]
           /\ rows = <<>> <=> ToSet(rows) = {}
<1>1. Len(rows) \in Nat /\ DOMAIN rows = 1 .. Len(rows)
  BY DEF IsFrame
<1>2. rows = <<>> <=> Len(rows) = 0
  BY EmptySeq DEF IsFrame
<1>3. Len(rows) = 0 <=> DOMAIN rows = {}
  BY <1>1
<1>4. DOMAIN rows = {} <=> ToSet(rows) = {}
  BY DEF ToSet
<1>5. /\ \A i \in DOMAIN rows : rows[i] \in ToSet(rows)
      /\ \A r \in ToSet(rows) : \E i \in DOMAIN rows : r = rows[i]
  BY DEF ToSet
<1> QED BY <1>1, <1>2, <1>3, <1>4, <1>5

\* A function on an initial segment is a frame.
LEMMA FrameOf ==
    ASSUME NEW n \in Nat, NEW f, f = [i \in 1 .. n |-> f[i]]
    PROVE  IsFrame(f) /\ Len(f) = n
<1>1. f \in [1 .. n -> ToSet(f)]
  BY DEF ToSet
<1>2. f \in Seq(ToSet(f))
  BY <1>1
<1> QED BY <1>1, <1>2 DEF IsFrame

LEMMA SubFrame ==
    ASSUME NEW S, NEW rows \in Seq(S)
    PROVE  IsFrame(rows) /\ ToSet(rows) \subseteq S
<1>1. rows = [i \in 1 .. Len(rows) |-> rows[i]] /\ Len(rows) \in Nat
  OBVIOUS
<1>2. IsFrame(rows)
  BY <1>1, FrameOf
<1> QED BY <1>1, <1>2 DEF ToSet

LEMMA NoRows == IsFrame(<<>>) /\ ToSet(<<>>) = {} /\ DOMAIN <<>> = {}
  BY DEF IsFrame, ToSet

LEMMA ConcatFacts ==
    ASSUME NEW f, NEW g, IsFrame(f), IsFrame(g)
    PROVE  IsFrame(f \o g) /\ ToSet(f \o g) = ToSet(f) \cup ToSet(g)
<1> DEFINE S == ToSet(f) \cup ToSet(g)
<1>1. f \in Seq(S) /\ g \in Seq(S)
  BY SeqMonotonic DEF IsFrame
<1>2. /\ f \o g \in Seq(S) /\ Len(f \o g) = Len(f) + Len(g)
      /\ \A i \in 1 .. Len(f) + Len(g) :
            (f \o g)[i] = IF i <= Len(f) THEN f[i] ELSE g[i - Len(f)]
  BY <1>1, ConcatProperties
<1>3. IsFrame(f \o g) /\ ToSet(f \o g) \subseteq S
  BY <1>2, SubFrame
<1>4. ASSUME NEW i \in DOMAIN f PROVE f[i] \in ToSet(f \o g)
  <2>1. i \in 1 .. Len(f) /\ i \in DOMAIN (f \o g) /\ (f \o g)[i] = f[i]
    BY <1>1, <1>2
  <2> QED BY <2>1 DEF ToSet
<1>5. ASSUME NEW i \in DOMAIN g PROVE g[i] \in ToSet(f \o g)
  <2>1. /\ i + Len(f) \in DOMAIN (f \o g) /\ ~(i + Len(f) <= Len(f))
        /\ (f \o g)[i + Len(f)] = g[i + Len(f) - Len(f)]
    BY <1>1, <1>2
  <2>2. i + Len(f) - Len(f) = i
    BY <1>1
  <2> QED BY <2>1, <2>2 DEF ToSet
<1> QED BY <1>3, <1>4, <1>5 DEF ToSet

\* FlattenSeq after i frames, and that its recursion has a solution.
Joined(ss, g, i) == IF i = 1 THEN ss[i] ELSE g[i - 1] \o ss[i]

LEMMA JoinedExists ==
    ASSUME NEW ss, NEW n \in Nat \ {0}
    PROVE  \E g : g = [i \in 1 .. n |-> Joined(ss, g, i)]
<1> DEFINE Good(k) == \E g : g = [i \in 1 .. k |-> Joined(ss, g, i)]
           T == {k \in Nat \ {0} : ~Good(k)}
<1> SUFFICES ASSUME T # {} PROVE FALSE
  OBVIOUS
<1>1. PICK m \in T : \A k \in T : m <= k
  <2>1. T \in SUBSET Nat
    OBVIOUS
  <2> HIDE DEF T
  <2> QED BY <2>1, Least
<1>2. m # 1
  <2> DEFINE z == [i \in 1 .. 1 |-> ss[1]]
  <2>1. \A i \in 1 .. 1 : z[i] = Joined(ss, z, i)
    BY DEF Joined
  <2>2. z = [i \in 1 .. 1 |-> Joined(ss, z, i)]
    BY <2>1
  <2>3. Good(1)
    BY <2>2
  <2> QED BY <2>3
<1>3. m \in Nat \ {0, 1} /\ m - 1 \in Nat \ {0}
  BY <1>2
<1>4. m - 1 \notin T
  <2> HIDE DEF T
  <2> QED BY <1>1, <1>3
<1>5. PICK g : g = [i \in 1 .. m - 1 |-> Joined(ss, g, i)]
  BY <1>3, <1>4
<1> DEFINE h == [i \in 1 .. m |-> IF i = m THEN Joined(ss, g, m) ELSE g[i]]
<1> HIDE DEF T, Good
<1>6. \A i \in 1 .. m : h[i] = Joined(ss, h, i)
  <2>1. ASSUME NEW i \in 1 .. m - 1 PROVE h[i] = g[i] /\ g[i] = Joined(ss, g, i)
    <3>1. i \in 1 .. m /\ i # m
      BY <1>3
    <3>2. g[i] = Joined(ss, g, i)
      BY <1>5
    <3> QED BY <3>1, <3>2
  <2>2. h[m] = Joined(ss, g, m) /\ h[m - 1] = g[m - 1]
    BY <1>3, <1>5
  <2>3. h[m] = Joined(ss, h, m)
    BY <1>3, <2>2 DEF Joined
  <2>4. ASSUME NEW i \in 1 .. m - 1 PROVE Joined(ss, g, i) = Joined(ss, h, i)
    BY <1>3, <2>1 DEF Joined
  <2> HIDE DEF h
  <2> QED BY <2>1, <2>3, <2>4, <1>3
<1>7. h = [i \in 1 .. m |-> Joined(ss, h, i)]
  BY <1>6
<1>8. Good(m)
  BY <1>7 DEF Good
<1> QED BY <1>1, <1>8 DEF T

\* The recursion of FlattenSeq.
LEMMA FlattenSolved ==
    ASSUME NEW ss, IsFrame(ss), Len(ss) # 0
    PROVE  /\ Len(ss) \in Nat \ {0} /\ DOMAIN ss = 1 .. Len(ss)
           /\ \E F : /\ F = [i \in 1 .. Len(ss) |-> Joined(ss, F, i)]
                     /\ FlattenSeq(ss) = F[Len(ss)]
<1> DEFINE n == Len(ss)
           F == CHOOSE g : g = [i \in 1 .. n |-> Joined(ss, g, i)]
<1>1. n \in Nat \ {0} /\ DOMAIN ss = 1 .. n
  BY FrameFacts
<1>2. FlattenSeq(ss) = F[n]
  BY DEF FlattenSeq, Joined
<1>3. F = [i \in 1 .. n |-> Joined(ss, F, i)]
  <2>1. \E g : g = [i \in 1 .. n |-> Joined(ss, g, i)]
    BY <1>1, JoinedExists
  <2> QED BY <2>1
<1> HIDE DEF F
<1> QED BY <1>1, <1>2, <1>3

\* What the join of frames holds.
LEMMA FlattenFacts ==
    ASSUME NEW ss, IsFrame(ss), \A i \in DOMAIN ss : IsFrame(ss[i])
    PROVE  /\ IsFrame(FlattenSeq(ss))
           /\ ToSet(FlattenSeq(ss)) = UNION {ToSet(ss[i]) : i \in DOMAIN ss}
<1>1. CASE Len(ss) = 0
  <2>1. FlattenSeq(ss) = ss /\ ss = <<>>
    BY <1>1, FrameFacts, EmptySeq DEF FlattenSeq, IsFrame
  <2> QED BY <2>1, NoRows
<1>2. CASE Len(ss) # 0
  <2> DEFINE n == Len(ss)
  <2>1. n \in Nat \ {0} /\ DOMAIN ss = 1 .. n
    BY <1>2, FlattenSolved
  <2>2. PICK F : F = [i \in 1 .. n |-> Joined(ss, F, i)] /\ FlattenSeq(ss) = F[n]
    BY <1>2, FlattenSolved
  <2> DEFINE Holds(k) == IsFrame(F[k]) /\ ToSet(F[k]) = UNION {ToSet(ss[i]) : i \in 1 .. k}
             T == {k \in 1 .. n : ~Holds(k)}
  <2> HIDE DEF n
  <2>3. ASSUME T # {} PROVE FALSE
    <3>1. PICK m \in T : \A k \in T : m <= k
      <4>1. T \in SUBSET Nat
        OBVIOUS
      <4> HIDE DEF T
      <4> QED BY <2>3, <4>1, Least
    <3>2. m \in 1 .. n /\ F[m] = Joined(ss, F, m) /\ ~Holds(m)
      BY <2>2
    <3>3. CASE m = 1
      <4>1. F[m] = ss[1] /\ IsFrame(ss[1]) /\ 1 .. m = {1}
        BY <2>1, <3>2, <3>3 DEF Joined
      <4> QED BY <3>2, <4>1
    <3>4. CASE m # 1
      <4>1. /\ m - 1 \in 1 .. n /\ m - 1 < m /\ F[m] = F[m - 1] \o ss[m]
            /\ IsFrame(ss[m]) /\ 1 .. m = (1 .. m - 1) \cup {m}
        BY <2>1, <3>2, <3>4 DEF Joined
      <4>2. Holds(m - 1)
        BY <3>1, <4>1
      <4>3. IsFrame(F[m]) /\ ToSet(F[m]) = ToSet(F[m - 1]) \cup ToSet(ss[m])
        BY <4>1, <4>2, ConcatFacts
      <4>4. ToSet(F[m]) = UNION {ToSet(ss[i]) : i \in 1 .. m}
        BY <4>1, <4>2, <4>3
      <4> QED BY <3>2, <4>3, <4>4
    <3> QED BY <3>3, <3>4
  <2>4. Holds(n)
    BY <2>1, <2>3
  <2> QED BY <2>1, <2>2, <2>4 DEF n
<1> QED BY <1>1, <1>2

\* What boolean indexing and drop_duplicates keep.
LEMMA RowsAtFacts ==
    ASSUME NEW rows, IsFrame(rows), NEW I
    PROVE  /\ IsFrame(RowsAt(rows, I))
           /\ ToSet(RowsAt(rows, I)) = {rows[i] : i \in DOMAIN rows \cap I}
<1> DEFINE ss == [i \in DOMAIN rows |-> IF i \in I THEN <<rows[i]>> ELSE <<>>]
<1>1. Len(rows) \in Nat /\ DOMAIN rows = 1 .. Len(rows)
  BY FrameFacts
<1>2. IsFrame(ss)
  <2>1. ss = [i \in 1 .. Len(rows) |-> ss[i]]
    BY <1>1
  <2> HIDE DEF ss
  <2> QED BY <1>1, <2>1, FrameOf
<1>3. \A r : IsFrame(<<r>>) /\ ToSet(<<r>>) = {r}
  BY DEF IsFrame, ToSet
<1>4. \A i \in DOMAIN rows : IsFrame(ss[i])
                             /\ ToSet(ss[i]) = IF i \in I THEN {rows[i]} ELSE {}
  BY <1>3, NoRows
<1>5. DOMAIN ss = DOMAIN rows /\ RowsAt(rows, I) = FlattenSeq(ss)
  BY DEF RowsAt
<1> HIDE DEF ss
<1>6. /\ IsFrame(FlattenSeq(ss))
      /\ ToSet(FlattenSeq(ss)) = UNION {ToSet(ss[i]) : i \in DOMAIN ss}
  BY <1>2, <1>4, <1>5, FlattenFacts
<1> QED BY <1>4, <1>5, <1>6

LEMMA AmongFacts ==
    ASSUME NEW rows, IsFrame(rows), NEW S
    PROVE  IsFrame(Among(rows, S)) /\ ToSet(Among(rows, S)) = ToSet(rows) \cap S
<1> DEFINE I == {i \in DOMAIN rows : rows[i] \in S}
<1>1. Among(rows, S) = RowsAt(rows, I)
  BY DEF Among
<1>2. /\ IsFrame(RowsAt(rows, I))
      /\ ToSet(RowsAt(rows, I)) = {rows[i] : i \in DOMAIN rows \cap I}
  BY RowsAtFacts
<1> QED BY <1>1, <1>2 DEF ToSet

LEMMA DropFacts ==
    ASSUME NEW rows, IsFrame(rows), NEW fields
    PROVE  /\ IsFrame(DropDuplicates(rows, fields))
           /\ ToSet(DropDuplicates(rows, fields)) \subseteq ToSet(rows)
           /\ \A r \in ToSet(rows) : \E k \in ToSet(DropDuplicates(rows, fields)) :
                 \A f \in fields : k[f] = r[f]
<1> DEFINE I == {i \in DOMAIN rows :
                    \A j \in 1 .. i - 1 : \E f \in fields : rows[j][f] # rows[i][f]}
<1>1. DropDuplicates(rows, fields) = RowsAt(rows, I)
  BY DEF DropDuplicates
<1>2. /\ IsFrame(RowsAt(rows, I))
      /\ ToSet(RowsAt(rows, I)) = {rows[i] : i \in DOMAIN rows \cap I}
  BY RowsAtFacts
<1>3. Len(rows) \in Nat /\ DOMAIN rows = 1 .. Len(rows)
  BY FrameFacts
<1>4. ASSUME NEW r \in ToSet(rows)
      PROVE  \E k \in ToSet(RowsAt(rows, I)) : \A f \in fields : k[f] = r[f]
  <2> DEFINE T == {i \in DOMAIN rows : \A f \in fields : rows[i][f] = r[f]}
  <2>1. T \in SUBSET Nat /\ T # {}
    BY <1>3 DEF ToSet
  <2>2. PICK m \in T : \A k \in T : m <= k
    <3> HIDE DEF T
    <3> QED BY <2>1, Least
  <2>3. m \in I
    <3> SUFFICES ASSUME NEW j \in 1 .. m - 1 PROVE \E f \in fields : rows[j][f] # rows[m][f]
      OBVIOUS
    <3>1. j \in DOMAIN rows /\ ~(m <= j)
      BY <1>3
    <3>2. j \notin T
      BY <2>2, <3>1
    <3> QED BY <3>1, <3>2
  <2> QED BY <1>2, <2>3
<1>5. {rows[i] : i \in DOMAIN rows \cap I} \subseteq ToSet(rows)
  BY DEF ToSet
<1> QED BY <1>1, <1>2, <1>4, <1>5

LEMMA MappedFacts ==
    ASSUME NEW rows, IsFrame(rows), NEW f, f = [i \in DOMAIN rows |-> f[i]]
    PROVE  /\ IsFrame(f) /\ DOMAIN f = DOMAIN rows
           /\ ToSet(f) = {f[i] : i \in DOMAIN rows}
<1>1. Len(rows) \in Nat /\ DOMAIN rows = 1 .. Len(rows)
  BY FrameFacts
<1> QED BY <1>1, FrameOf DEF ToSet

-----------------------------------------------------------------------------
(* Counting the rows of a frame that are among some.                       *)

Places(rows, S) == {i \in DOMAIN rows : rows[i] \in S}

Tally(rows, S) == Cardinality(Places(rows, S))

LEMMA TallyFacts ==
    ASSUME NEW rows, IsFrame(rows), NEW S
    PROVE  /\ IsFiniteSet(Places(rows, S)) /\ Tally(rows, S) \in Nat
           /\ Tally(rows, S) = 0 <=> ToSet(rows) \cap S = {}
           /\ ToSet(rows) \subseteq S => Tally(rows, S) = Len(rows)
<1>1. Len(rows) \in Nat /\ DOMAIN rows = 1 .. Len(rows)
  BY FrameFacts
<1>2. IsFiniteSet(DOMAIN rows) /\ Cardinality(DOMAIN rows) = Len(rows)
  <2>1. IsFiniteSet(1 .. Len(rows)) /\ Cardinality(1 .. Len(rows))
           = IF 1 > Len(rows) THEN 0 ELSE Len(rows) - 1 + 1
    BY <1>1, FS_Interval
  <2> QED BY <1>1, <2>1
<1>3. IsFiniteSet(Places(rows, S)) /\ Tally(rows, S) \in Nat
  BY <1>2, FS_Subset, FS_CardinalityType DEF Places, Tally
<1>4. Tally(rows, S) = 0 <=> Places(rows, S) = {}
  BY <1>3, FS_EmptySet DEF Tally
<1>5. Places(rows, S) = {} <=> ToSet(rows) \cap S = {}
  BY DEF Places, ToSet
<1>6. ToSet(rows) \subseteq S => Places(rows, S) = DOMAIN rows
  BY FrameFacts DEF Places
<1> QED BY <1>2, <1>3, <1>4, <1>5, <1>6 DEF Tally

LEMMA TallyOne ==
    ASSUME NEW r, NEW S
    PROVE  Tally(<<r>>, S) = (IF r \in S THEN 1 ELSE 0) /\ Tally(<<>>, S) = 0
<1>1. IsFrame(<<r>>) /\ ToSet(<<r>>) = {r} /\ Len(<<r>>) = 1
  BY DEF IsFrame, ToSet
<1>2. /\ Tally(<<r>>, S) = 0 <=> {r} \cap S = {}
      /\ {r} \subseteq S => Tally(<<r>>, S) = 1
  BY <1>1, TallyFacts
<1>3. Tally(<<>>, S) = 0
  BY NoRows, TallyFacts
<1> QED BY <1>2, <1>3

\* The places of g in f \o g are those in g, moved by the length of f.
LEMMA Shifted ==
    ASSUME NEW A, IsFiniteSet(A), A \subseteq Int, NEW n \in Int,
           NEW B, B = {a + n : a \in A}
    PROVE  IsFiniteSet(B) /\ Cardinality(B) = Cardinality(A)
<1> DEFINE f == [a \in A |-> a + n]
<1>1. f \in [A -> B] /\ \A b \in B : \E a \in A : f[a] = b
  OBVIOUS
<1>2. \A a, b \in A : f[a] = f[b] => a = b
  OBVIOUS
<1>3. DOMAIN f = A
  OBVIOUS
<1> HIDE DEF f
<1>4. f \in Bijection(A, B)
  BY <1>1, <1>2, <1>3 DEF Bijection, Injection, Surjection, IsInjective
<1> QED BY <1>4, FS_Bijection DEF ExistsBijection

LEMMA TallyConcat ==
    ASSUME NEW f, NEW g, IsFrame(f), IsFrame(g), NEW S
    PROVE  Tally(f \o g, S) = Tally(f, S) + Tally(g, S)
<1> DEFINE n == Len(f)
           A == Places(f, S)
           B == {a + n : a \in Places(g, S)}
<1>1. /\ n \in Nat /\ Len(g) \in Nat /\ DOMAIN f = 1 .. n /\ DOMAIN g = 1 .. Len(g)
      /\ f \in Seq(ToSet(f)) /\ g \in Seq(ToSet(g))
  BY FrameFacts DEF IsFrame
<1>2. /\ DOMAIN (f \o g) = 1 .. n + Len(g)
      /\ \A i \in 1 .. n + Len(g) :
            (f \o g)[i] = IF i <= n THEN f[i] ELSE g[i - n]
  BY <1>1
<1>3. IsFiniteSet(A) /\ IsFiniteSet(Places(g, S)) /\ Tally(f, S) \in Nat /\ Tally(g, S) \in Nat
  BY TallyFacts
<1>4. IsFiniteSet(B) /\ Cardinality(B) = Tally(g, S)
  <2>1. Places(g, S) \subseteq Int /\ n \in Int
    BY <1>1 DEF Places
  <2> HIDE DEF n
  <2> QED BY <1>3, <2>1, Shifted DEF Tally
<1>5. Places(f \o g, S) = A \cup B
  <2>1. ASSUME NEW i \in Places(f \o g, S) PROVE i \in A \cup B
    <3>1. CASE i <= n
      BY <1>1, <1>2, <2>1, <3>1 DEF Places
    <3>2. CASE ~(i <= n)
      <4>1. i - n \in DOMAIN g /\ g[i - n] \in S /\ i = (i - n) + n
        BY <1>1, <1>2, <2>1, <3>2 DEF Places
      <4> QED BY <4>1 DEF Places
    <3> QED BY <3>1, <3>2
  <2>2. ASSUME NEW i \in A PROVE i \in Places(f \o g, S)
    BY <1>1, <1>2, <2>2 DEF Places
  <2>3. ASSUME NEW a \in Places(g, S) PROVE a + n \in Places(f \o g, S)
    <3>1. /\ a + n \in DOMAIN (f \o g) /\ ~(a + n <= n) /\ (a + n) - n = a
          /\ g[a] \in S
      BY <1>1, <1>2, <2>3 DEF Places
    <3> QED BY <1>2, <3>1 DEF Places
  <2> QED BY <2>1, <2>2, <2>3
<1>6. A \cap B = {}
  BY <1>1 DEF Places
<1> HIDE DEF A, B
<1>7. Cardinality(A \cup B) = Cardinality(A) + Cardinality(B) - Cardinality({})
  BY <1>3, <1>4, <1>6, FS_Union
<1>8. Cardinality({}) = 0 /\ Cardinality(A) = Tally(f, S)
  BY FS_EmptySet DEF Tally, A
<1> QED BY <1>3, <1>4, <1>5, <1>7, <1>8 DEF Tally

\* The rows of joined frames are counted frame by frame, in W.
LEMMA TallyFlatten ==
    ASSUME NEW ss, IsFrame(ss), \A i \in DOMAIN ss : IsFrame(ss[i]), NEW S,
           NEW W, W[0] = 0, \A i \in DOMAIN ss : W[i] = W[i - 1] + Tally(ss[i], S)
    PROVE  Tally(FlattenSeq(ss), S) = W[Len(ss)]
<1>1. CASE Len(ss) = 0
  <2>1. FlattenSeq(ss) = ss /\ ss = <<>>
    BY <1>1, FrameFacts, EmptySeq DEF FlattenSeq, IsFrame
  <2> QED BY <1>1, <2>1, TallyOne
<1>2. CASE Len(ss) # 0
  <2> DEFINE n == Len(ss)
  <2>1. n \in Nat \ {0} /\ DOMAIN ss = 1 .. n
    BY <1>2, FlattenSolved
  <2>2. PICK F : F = [i \in 1 .. n |-> Joined(ss, F, i)] /\ FlattenSeq(ss) = F[n]
    BY <1>2, FlattenSolved
  <2> DEFINE Holds(k) == IsFrame(F[k]) /\ Tally(F[k], S) = W[k]
             T == {k \in 1 .. n : ~Holds(k)}
  <2> HIDE DEF n
  <2>3. ASSUME T # {} PROVE FALSE
    <3>1. PICK m \in T : \A k \in T : m <= k
      <4>1. T \in SUBSET Nat
        OBVIOUS
      <4> HIDE DEF T
      <4> QED BY <2>3, <4>1, Least
    <3>2. /\ m \in 1 .. n /\ F[m] = Joined(ss, F, m) /\ ~Holds(m)
          /\ IsFrame(ss[m]) /\ Tally(ss[m], S) \in Nat
          /\ W[m] = W[m - 1] + Tally(ss[m], S)
      BY <2>1, <2>2, TallyFacts
    <3>3. CASE m = 1
      <4>1. F[m] = ss[m] /\ W[m] = 0 + Tally(ss[m], S)
        BY <3>2, <3>3 DEF Joined
      <4> QED BY <3>2, <4>1
    <3>4. CASE m # 1
      <4>1. m - 1 \in 1 .. n /\ m - 1 < m /\ F[m] = F[m - 1] \o ss[m]
        BY <2>1, <3>2, <3>4 DEF Joined
      <4>2. Holds(m - 1)
        BY <3>1, <4>1
      <4>3. IsFrame(F[m]) /\ Tally(F[m], S) = Tally(F[m - 1], S) + Tally(ss[m], S)
        BY <3>2, <4>1, <4>2, ConcatFacts, TallyConcat
      <4> QED BY <3>2, <4>2, <4>3
    <3> QED BY <3>3, <3>4
  <2>4. Holds(n)
    BY <2>1, <2>3
  <2> QED BY <2>2, <2>4 DEF n
<1> QED BY <1>1, <1>2

\* What boolean indexing leaves of a count.
LEMMA TallyAmong ==
    ASSUME NEW rows, IsFrame(rows), NEW C, NEW S
    PROVE  Tally(Among(rows, C), S) = Tally(rows, S \cap C)
<1> DEFINE n == Len(rows)
           I == {i \in DOMAIN rows : rows[i] \in C}
           ss == [i \in DOMAIN rows |-> IF i \in I THEN <<rows[i]>> ELSE <<>>]
           Upto(k) == {i \in 1 .. k : rows[i] \in S \cap C}
           W == [k \in 0 .. n |-> Cardinality(Upto(k))]
<1>1. n \in Nat /\ DOMAIN rows = 1 .. n
  BY FrameFacts
<1>2. Among(rows, C) = FlattenSeq(ss) /\ DOMAIN ss = 1 .. n
  BY <1>1 DEF Among, RowsAt
<1>3. IsFrame(ss) /\ Len(ss) = n
  <2>1. ss = [i \in 1 .. n |-> ss[i]]
    BY <1>1
  <2> HIDE DEF ss
  <2> QED BY <1>1, <2>1, FrameOf
<1>4. ASSUME NEW i \in 1 .. n
      PROVE  /\ IsFrame(ss[i])
             /\ Tally(ss[i], S) = IF rows[i] \in S \cap C THEN 1 ELSE 0
  <2>1. ss[i] = IF rows[i] \in C THEN <<rows[i]>> ELSE <<>>
    BY <1>1
  <2>2. IsFrame(<<rows[i]>>)
    BY DEF IsFrame, ToSet
  <2> QED BY <2>1, <2>2, NoRows, TallyOne
<1>5. ASSUME NEW i \in 1 .. n PROVE W[i] = W[i - 1] + Tally(ss[i], S)
  <2>1. i - 1 \in 0 .. n /\ i \in 0 .. n /\ i \notin Upto(i - 1)
    BY <1>1
  <2>2. IsFiniteSet(Upto(i - 1)) /\ Cardinality(Upto(i - 1)) \in Nat
    <3>1. 1 \in Int /\ i - 1 \in Int /\ Upto(i - 1) \in SUBSET (1 .. i - 1)
      BY <2>1
    <3>2. IsFiniteSet(1 .. i - 1)
      BY <3>1, FS_Interval
    <3> HIDE DEF Upto
    <3> QED BY <3>1, <3>2, FS_Subset, FS_CardinalityType
  <2>3. Upto(i) = IF rows[i] \in S \cap C THEN Upto(i - 1) \cup {i} ELSE Upto(i - 1)
    BY <1>1
  <2>4. W[i] = Cardinality(Upto(i)) /\ W[i - 1] = Cardinality(Upto(i - 1))
    BY <2>1
  <2> HIDE DEF Upto, W, ss
  <2>5. Cardinality(Upto(i - 1) \cup {i}) = Cardinality(Upto(i - 1)) + 1
    BY <2>1, <2>2, FS_AddElement
  <2> QED BY <1>4, <2>2, <2>3, <2>4, <2>5
<1>6. W[0] = 0
  <2>1. Upto(0) = {}
    OBVIOUS
  <2> QED BY <1>1, <2>1, FS_EmptySet
<1>7. W[n] = Tally(rows, S \cap C)
  BY <1>1 DEF Tally, Places
<1> HIDE DEF ss, W, n
<1>8. Tally(FlattenSeq(ss), S) = W[Len(ss)]
  BY <1>2, <1>3, <1>4, <1>5, <1>6, TallyFlatten
<1> QED BY <1>2, <1>3, <1>7, <1>8

\* Where one of the joined frames holds all the rows that count.
LEMMA TallyOfOne ==
    ASSUME NEW ss, IsFrame(ss), \A i \in DOMAIN ss : IsFrame(ss[i]), NEW S,
           NEW one \in DOMAIN ss, ToSet(ss[one]) \subseteq S,
           \A i \in DOMAIN ss : i # one => ToSet(ss[i]) \cap S = {}
    PROVE  Tally(FlattenSeq(ss), S) = Len(ss[one])
<1> DEFINE n == Len(ss)
           W == [k \in 0 .. n |-> IF k < one THEN 0 ELSE Len(ss[one])]
<1>1. n \in Nat /\ DOMAIN ss = 1 .. n /\ Len(ss[one]) \in Nat
  BY FrameFacts
<1>2. \A i \in 1 .. n : Tally(ss[i], S) = IF i = one THEN Len(ss[one]) ELSE 0
  BY <1>1, TallyFacts
<1>3. ASSUME NEW i \in 1 .. n PROVE W[i] = W[i - 1] + Tally(ss[i], S)
  <2>1. i \in 0 .. n /\ i - 1 \in 0 .. n /\ one \in 1 .. n
    BY <1>1
  <2> QED BY <1>1, <1>2, <2>1
<1>4. W[0] = 0 /\ W[n] = Len(ss[one])
  BY <1>1
<1> HIDE DEF W
<1> QED BY <1>1, <1>3, <1>4, TallyFlatten

-----------------------------------------------------------------------------
(* The loop over the entities.                                             *)

ContextFields ==
    {"active", "leftOutStaff", "leftOutClasses", "artifacts", "notes", "dataErrors"}

\* The entities the loop is past.
Done == {config.order[j] : j \in 1 .. position - 1}

\* The configuration and the exports are those of one case, throughout.
CaseInv == \E c \in Cases : config = c.config /\ extract = c.extract

\* The rows of StudentAttendance are counted (AttendanceInv), and nothing reads
\* them.
OutputInv ==
    /\ loop \in {"running", "built", "stopped"}
    /\ position \in 1 .. Len(config.order) + 1
    /\ DOMAIN context = ContextFields
    /\ DOMAIN output \subseteq Done
    /\ \A e \in DOMAIN output \ {"StudentAttendance"} :
          IsFrame(output[e]) /\ output[e] # <<>>

TurnsInv == CaseInv /\ OutputInv

LEMMA CaseFacts ==
    ASSUME CaseInv
    PROVE  /\ Len(config.order) \in Nat
           /\ DOMAIN config.order = 1 .. Len(config.order)
           /\ InOrder(config.order)
           /\ IsFrame(extract.demos) /\ IsFrame(extract.staff)
           /\ IsFrame(extract.contacts)
           /\ IsFrame(extract.schedule) /\ IsFrame(extract.info)
           /\ IsFrame(extract.history) /\ IsFrame(extract.selection)
           /\ IsFrame(extract.daily) /\ IsFrame(extract.period)
           /\ \A h \in ToSet(extract.history) \cup ToSet(extract.selection) :
                 h.start \in Nat
           /\ \A d \in ToSet(extract.daily) : d.portion \in Int
<1>1. /\ InOrder(config.order)
      /\ IsFrame(extract.demos) /\ IsFrame(extract.staff)
      /\ IsFrame(extract.contacts)
      /\ IsFrame(extract.schedule) /\ IsFrame(extract.info)
      /\ IsFrame(extract.history) /\ IsFrame(extract.selection)
      /\ IsFrame(extract.daily) /\ IsFrame(extract.period)
      /\ \A h \in ToSet(extract.history) \cup ToSet(extract.selection) :
                 h.start \in Nat
      /\ \A d \in ToSet(extract.daily) : d.portion \in Int
  BY CasesAssumption DEF CaseInv
<1>2. config.order \in Seq(Entities)
  BY <1>1 DEF InOrder
<1> QED BY <1>1, <1>2

\* Its turn comes once, and before that of every entity that depends on it.
LEMMA TurnFacts ==
    ASSUME TurnsInv, NEW e, Turn(e)
    PROVE  /\ e \notin Done /\ e \notin DOMAIN output
           /\ \A d : <<d, e>> \in DependsOn => d \notin Done /\ d \notin DOMAIN output
<1>1. /\ position \in DOMAIN config.order /\ config.order[position] = e
      /\ \A j \in 1 .. position - 1 : j \in DOMAIN config.order /\ j < position
  BY CaseFacts DEF TurnsInv, OutputInv, Turn
<1>2. \A i, j \in DOMAIN config.order :
          /\ config.order[i] = config.order[j] => i = j
          /\ <<config.order[i], config.order[j]>> \in DependsOn => j < i
  BY CaseFacts DEF TurnsInv, InOrder
<1>3. e \notin Done
  <2> SUFFICES ASSUME NEW j \in 1 .. position - 1, config.order[j] = e PROVE FALSE
    BY DEF Done
  <2>1. j = position
    BY <1>1, <1>2
  <2>2. j < position
    BY <1>1
  <2> QED BY <2>1, <2>2 DEF TurnsInv, OutputInv
<1>4. ASSUME NEW d, <<d, e>> \in DependsOn PROVE d \notin Done
  <2> SUFFICES ASSUME NEW j \in 1 .. position - 1, config.order[j] = d PROVE FALSE
    BY DEF Done
  <2>1. position < j /\ j < position
    BY <1>1, <1>2, <1>4
  <2> QED BY <2>1 DEF TurnsInv, OutputInv
<1> QED BY <1>3, <1>4 DEF TurnsInv, OutputInv

\* Going on to the next entity, or stopping where it is.
LEMMA Advance ==
    ASSUME TurnsInv, UNCHANGED <<config, extract>>, NEW e, Turn(e),
           \/ position' = position + 1 /\ loop' = loop
           \/ position' = position /\ loop' = "stopped"
    PROVE  /\ CaseInv' /\ Done \subseteq Done'
           /\ position' \in 1 .. Len(config'.order) + 1
           /\ loop' \in {"running", "built", "stopped"}
           /\ position' = position + 1 => e \in Done'
           /\ loop' = "running" => e \in Done'
<1>1. CaseInv'
  BY DEF TurnsInv, CaseInv
<1>2. position \in 1 .. Len(config.order) /\ Len(config.order) \in Nat
  BY CaseFacts DEF TurnsInv, OutputInv, Turn
<1>3. Done \subseteq Done'
  BY <1>2 DEF Done
<1>4. position' = position + 1 => e \in Done'
  BY <1>2 DEF Done, Turn
<1> QED BY <1>1, <1>2, <1>3, <1>4 DEF TurnsInv, OutputInv

\* The transform of e adds its rows, and nothing else, to what is built.
LEMMA TransformedFacts ==
    ASSUME TurnsInv, NEW e, Turn(e), NEW rows,
           e # "StudentAttendance" => IsFrame(rows), NEW published,
           DOMAIN published = ContextFields, Transformed(e, rows, published)
    PROVE  /\ TurnsInv' /\ context' = published
           /\ Rows(e)' = ToSet(rows) /\ (e \in DOMAIN output' <=> rows # <<>>)
           /\ \A x : x # e => /\ x \in DOMAIN output' <=> x \in DOMAIN output
                              /\ Rows(x)' = Rows(x)
           /\ loop' = "running" => e \in Done'
<1>1. UNCHANGED <<config, extract>> /\ context' = published /\ loop = "running"
  BY DEF Transformed, Turn
<1>2. e \notin DOMAIN output
  BY TurnFacts
<1>3. CASE rows # <<>>
  <2>1. /\ output' = [x \in DOMAIN output \cup {e} |-> IF x = e THEN rows ELSE output[x]]
        /\ position' = position + 1 /\ loop' = loop
    BY <1>3 DEF Transformed, EmptyTurn
  <2>2. /\ CaseInv' /\ Done \subseteq Done' /\ position' \in 1 .. Len(config'.order) + 1
        /\ loop' \in {"running", "built", "stopped"} /\ e \in Done'
    BY <1>1, <2>1, Advance
  <2>3. /\ DOMAIN output' = DOMAIN output \cup {e} /\ output'[e] = rows
        /\ \A x \in DOMAIN output : output'[x] = output[x]
    BY <1>2, <2>1
  <2>4. TurnsInv'
    BY <1>1, <1>3, <2>2, <2>3 DEF TurnsInv, OutputInv
  <2> QED BY <1>1, <1>2, <1>3, <2>2, <2>3, <2>4 DEF Rows
<1>4. CASE rows = <<>>
  <2>1. /\ output' = output
        /\ \/ position' = position + 1 /\ loop' = loop
           \/ position' = position /\ loop' = "stopped"
    BY <1>4 DEF Transformed, EmptyTurn
  <2>2. /\ CaseInv' /\ Done \subseteq Done' /\ position' \in 1 .. Len(config'.order) + 1
        /\ loop' \in {"running", "built", "stopped"} /\ (loop' = "running" => e \in Done')
    BY <1>1, <2>1, Advance
  <2>3. TurnsInv'
    BY <1>1, <2>1, <2>2 DEF TurnsInv, OutputInv
  <2> QED BY <1>1, <1>2, <1>4, <2>1, <2>2, <2>3, NoRows DEF Rows
<1> QED BY <1>3, <1>4

LEMMA TransformedAdvances ==
    ASSUME TurnsInv, NEW e, Turn(e), NEW rows, NEW published,
           Transformed(e, rows, published)
    PROVE  /\ UNCHANGED <<config, extract>>
           /\ loop' = "running" => loop = "running" /\ Done \subseteq Done'
<1>1. /\ UNCHANGED <<config, extract>> /\ loop = "running"
      /\ \/ position' = position + 1 /\ loop' = loop
         \/ position' = position /\ loop' = "stopped"
  BY DEF Transformed, EmptyTurn, Turn
<1> QED BY <1>1, Advance

\* An entity without rows to read, or whose transform raises, adds nothing.
LEMMA NothingAdded ==
    ASSUME TurnsInv, NEW e, Turn(e), UNCHANGED <<config, extract, context, output>>,
           \/ position' = position + 1 /\ loop' = loop
           \/ position' = position /\ loop' = "stopped"
    PROVE  TurnsInv' /\ (loop' = "running" => loop = "running" /\ Done \subseteq Done')
<1>1. loop = "running"
  BY DEF Turn
<1> QED BY <1>1, Advance DEF TurnsInv, OutputInv

-----------------------------------------------------------------------------
(* Blended classes.                                                        *)

LEMMA Greatest ==
    ASSUME NEW n \in Nat, NEW T \in SUBSET (1 .. n), T # {}
    PROVE  /\ Max(T) \in T
           /\ \A k \in T : Max(T) >= k
<1> DEFINE U == {n - k : k \in T}
<1>1. U \in SUBSET Nat /\ U # {}
  <2>1. \A k \in T : n - k \in Nat
    OBVIOUS
  <2>2. PICK k \in T : TRUE
    OBVIOUS
  <2>3. n - k \in U
    OBVIOUS
  <2> QED BY <2>1, <2>3
<1>2. PICK m \in U : \A k \in U : m <= k
  <2> HIDE DEF U
  <2> QED BY <1>1, Least
<1>3. n - m \in T /\ \A k \in T : n - m >= k
  BY <1>2
<1>4. \E x \in T : \A y \in T : x >= y
  BY <1>3
<1> QED BY <1>4 DEF Max

\* The blend a section belongs to is one of those that hold it.
LEMMA OwnerFacts ==
    ASSUME NEW working, NEW keys \in SUBSET ToSet(KeyOrder), NEW k \in keys,
           NEW s \in SessionSections(working, k)
    PROVE  /\ OwnerKey(working, keys, s) \in keys
           /\ s \in SessionSections(working, OwnerKey(working, keys, s))
<1> DEFINE T == {i \in DOMAIN KeyOrder : /\ KeyOrder[i] \in keys
                                          /\ s \in SessionSections(working, KeyOrder[i])}
<1>1. Len(KeyOrder) \in Nat /\ DOMAIN KeyOrder = 1 .. Len(KeyOrder)
  BY KeyOrderAssumption, FrameFacts
<1>2. \E i \in DOMAIN KeyOrder : KeyOrder[i] = k
  BY DEF ToSet
<1>3. T \in SUBSET (1 .. Len(KeyOrder)) /\ T # {}
  BY <1>1, <1>2
<1>4. Max(T) \in T
  <2> HIDE DEF T
  <2> QED BY <1>1, <1>3, Greatest
<1>5. OwnerKey(working, keys, s) = KeyOrder[Max(T)]
  BY DEF OwnerKey
<1> QED BY <1>4, <1>5

LEMMA SameBlend == \A j, k : BlendedId(j) = BlendedId(k) => j = k
<1>1. \A j : BlendedId(j).of = j
  BY DEF BlendedId
<1> QED BY <1>1

\* Every section of a blend is mapped to a registered one, which has a frame of
\* teachers and a pupil on the timetable.
BlendsHold(blends) ==
    /\ \A s \in DOMAIN blends.classMap : blends.classMap[s] \in DOMAIN blends.teachers
    /\ \A b \in DOMAIN blends.teachers :
          /\ b.kind = "blended" /\ IsFrame(blends.teachers[b])
          /\ \E i \in DOMAIN KeyOrder : b = BlendedId(KeyOrder[i])

LEMMA WorkingFacts ==
    ASSUME NEW info, IsFrame(info)
    PROVE  /\ IsFrame(Working(info))
           /\ ToSet(Working(info)) = {row \in ToSet(info) : ~IsBlank(row.teacher)}
<1> DEFINE taught == {row \in ToSet(info) : ~IsBlank(row.teacher)}
<1>1. Working(info) = Among(info, taught)
  BY DEF Working
<1>2. IsFrame(Among(info, taught)) /\ ToSet(Among(info, taught)) = ToSet(info) \cap taught
  <2> HIDE DEF taught
  <2> QED BY AmongFacts
<1> QED BY <1>1, <1>2

LEMMA TeachersFacts ==
    ASSUME NEW working, IsFrame(working), NEW key
    PROVE  /\ IsFrame(CollectTeachers(working, key))
           /\ \A w \in ToSet(working) : w.section \in SessionSections(working, key) =>
                 w.teacher \in ToSet(CollectTeachers(working, key))
<1> DEFINE S == {w \in ToSet(working) : w.section \in SessionSections(working, key)}
           rows == Among(working, S)
           listed == DropDuplicates(rows, {"teacher"})
           f == [i \in DOMAIN listed |-> listed[i].teacher]
<1>1. IsFrame(rows) /\ ToSet(rows) = ToSet(working) \cap S
  <2> HIDE DEF S
  <2> QED BY AmongFacts
<1> HIDE DEF rows
<1>2. /\ IsFrame(listed)
      /\ \A r \in ToSet(rows) : \E k \in ToSet(listed) : k.teacher = r.teacher
  BY <1>1, DropFacts
<1>3. f = [i \in DOMAIN listed |-> f[i]] /\ \A i \in DOMAIN listed : f[i] = listed[i].teacher
  OBVIOUS
<1>4. CollectTeachers(working, key) = f
  BY DEF CollectTeachers, rows
<1> HIDE DEF f, listed
<1>5. IsFrame(f) /\ ToSet(f) = {f[i] : i \in DOMAIN listed}
  BY <1>2, <1>3, MappedFacts
<1>6. \A k \in ToSet(listed) : k.teacher \in ToSet(f)
  BY <1>3, <1>5 DEF ToSet
<1>7. \A w \in ToSet(working) : w.section \in SessionSections(working, key) => w \in ToSet(rows)
  BY <1>1
<1> QED BY <1>2, <1>4, <1>5, <1>6, <1>7

LEMMA RegisteredFacts ==
    ASSUME NEW working, NEW schedule, NEW rostered
    PROVE  /\ Registered(working, schedule, rostered) \in SUBSET ToSet(KeyOrder)
           /\ \A k \in Registered(working, schedule, rostered) :
                 \E r \in ToSet(schedule) :
                    r.section \in SessionSections(working, k) /\ r.grade \in rostered
           /\ \A k \in ToSet(KeyOrder), r \in ToSet(schedule) :
                 /\ Validate(schedule, SessionSections(working, k))
                 /\ r.section \in SessionSections(working, k) /\ r.grade \in rostered
                 => k \in Registered(working, schedule, rostered)
  BY DEF Registered, Qualified, EnrollableGrades

LEMMA DetectFacts ==
    ASSUME NEW info, IsFrame(info), NEW schedule, NEW hasCourses, NEW rostered
    PROVE  BlendsHold(Detect(info, schedule, hasCourses, rostered))
<1> DEFINE working == Working(info)
           keys == Registered(working, schedule, rostered)
           map == ClassMap(working, schedule, rostered)
           teachers == [b \in {BlendedId(k) : k \in keys} |-> CollectTeachers(working, b.of)]
<1>1. BlendsHold(NoBlends)
  BY DEF BlendsHold, NoBlends
<1>2. \/ Detect(info, schedule, hasCourses, rostered) = NoBlends
      \/ Detect(info, schedule, hasCourses, rostered) = [classMap |-> map, teachers |-> teachers]
  BY DEF Detect
<1>3. IsFrame(working)
  BY WorkingFacts
<1>4. keys \in SUBSET ToSet(KeyOrder)
  BY RegisteredFacts
<1>5. ASSUME NEW b \in DOMAIN teachers
      PROVE  /\ b.kind = "blended" /\ IsFrame(teachers[b])
             /\ \E i \in DOMAIN KeyOrder : b = BlendedId(KeyOrder[i])
  <2>1. PICK k \in keys : b = BlendedId(k)
    OBVIOUS
  <2>2. b.kind = "blended"
    BY <2>1 DEF BlendedId
  <2>3. teachers[b] = CollectTeachers(working, b.of)
    OBVIOUS
  <2>4. \E i \in DOMAIN KeyOrder : k = KeyOrder[i]
    BY <1>4, <2>1 DEF ToSet
  <2> HIDE DEF teachers, working
  <2> QED BY <1>3, <2>1, <2>2, <2>3, <2>4, TeachersFacts
<1>6. ASSUME NEW s \in DOMAIN map PROVE map[s] \in DOMAIN teachers
  <2>1. /\ s \in UNION {SessionSections(working, k) : k \in keys}
        /\ map[s] = BlendedId(OwnerKey(working, keys, s))
    BY DEF ClassMap, ClassMapOf
  <2>2. PICK k \in keys : s \in SessionSections(working, k)
    BY <2>1
  <2>3. OwnerKey(working, keys, s) \in keys
    <3> HIDE DEF keys, working
    <3> QED BY <1>4, <2>2, OwnerFacts
  <2>4. DOMAIN teachers = {BlendedId(j) : j \in keys}
    OBVIOUS
  <2> HIDE DEF teachers, keys
  <2> QED BY <2>1, <2>3, <2>4
<1> HIDE DEF map, teachers
<1>7. BlendsHold([classMap |-> map, teachers |-> teachers])
  BY <1>5, <1>6 DEF BlendsHold
<1> QED BY <1>1, <1>2, <1>7

-----------------------------------------------------------------------------
(* What each entity leaves to the next ones.                               *)

\* Every class made: delivered, or left out for a blank value.
Known == ShippedClasses \cup context.leftOutClasses

\* The roster the entities are filtered to is the one delivered, and a staff
\* member is delivered or left out, never both.
PeopleInv ==
    /\ context.active = ShippedStudents
    /\ \A s \in ShippedStaff : ~IsBlank(s) /\ s \notin context.leftOutStaff

\* The part of ReferencesResolve that is not about Enrollments.
StudentFilesInv ==
    "Students" \in DOMAIN output =>
        \A r \in Rows("Family") \cup Rows("StudentCourses") :
            r.student \in ShippedStudents

\* The homerooms are the classes of their kind, every delivered pupil of a
\* homeroom grade has one with their teacher, and a Class ID that two entries
\* share is reported.
HomeroomsInv ==
    /\ IsFrame(context.artifacts.homerooms)
    /\ context.artifacts.info = ClassInfo
    /\ \A h \in ToSet(context.artifacts.homerooms) :
          h.class = HomeroomId(h.school, h.homeroom) /\ h.class \in Known
    /\ \A c \in ShippedClasses : c.kind = "homeroom" =>
          \E h \in ToSet(context.artifacts.homerooms) : h.class = c
    /\ \A d \in ToSet(HomeroomStudents) : d.student \in ShippedStudents =>
          \E h \in ToSet(context.artifacts.homerooms) :
              h.school = d.school /\ h.homeroom = d.homeroom /\ h.teacher = d.teacher
    /\ \A g, h \in ToSet(context.artifacts.homerooms) :
          g.class = h.class /\ g.teacher # h.teacher =>
              "Classes" \in context.dataErrors

\* The class of every timetable row is a class, and every blend is one, with
\* the teachers that Class Information lists for its sections.
TimetableInv ==
    /\ BlendsHold(context.artifacts)
    /\ DOMAIN context.artifacts.teachers \subseteq Known
    /\ \A r \in ToSet(TimetableRows) :
          ClassIdOf(r.section, context.artifacts.classMap) \in Known
    /\ \A c \in ShippedClasses :
          c.kind = "blended" => c \in DOMAIN context.artifacts.teachers
    /\ \A b \in DOMAIN context.artifacts.teachers :
          /\ TimetableRows # <<>>
          /\ \A w \in ToSet(Working(ClassInfo)) :
                w.section \in SessionSections(Working(ClassInfo), b.of) =>
                    w.teacher \in ToSet(context.artifacts.teachers[b])

\* The two halves of OneLessonOneClass, of every blend.
LessonsInv ==
    config.blended /\ extract.courses =>
        /\ \A r \in ToSet(TimetableRows) : Cardinality(SessionOf(r)) = 1 =>
              \A k \in SessionOf(r) :
                  Validate(ScheduledRows, SessionSections(Working(ClassInfo), k))
                    => ClassIdOf(r.section, context.artifacts.classMap) = BlendedId(k)
        /\ \A b \in DOMAIN context.artifacts.teachers :
              \E r \in ToSet(TimetableRows) : b.of \in SessionOf(r)

\* What Classes publishes is there only once its turn is over, so nothing that
\* it was made from changes after it.
ClassesInv ==
    /\ ShippedClasses \cap context.leftOutClasses = {}
    /\ context.artifacts.published =>
          /\ loop = "running" => "Classes" \in Done
          /\ HomeroomsInv /\ TimetableInv /\ LessonsInv

\* The two properties of Enrollments, from the step that builds it.
Resolved ==
    \A r \in Rows("Enrollments") :
        /\ r.class \in ShippedClasses
        /\ r.role = "student" /\ "Students" \in DOMAIN output =>
              r.user \in ShippedStudents
        /\ r.role = "teacher" => r.user \notin context.leftOutStaff

AllPlaced ==
    /\ \A r \in ToSet(TimetableRows) :
          LET class == ClassIdOf(r.section, context.artifacts.classMap)
          IN  class \in ShippedClasses =>
                /\ r.student \in ShippedStudents => Placed(class, r.student, "student")
                /\ r.teacher \in ShippedStaff /\ class.kind = "section" =>
                      Placed(class, r.teacher, "teacher")
    /\ \A d \in ToSet(HomeroomStudents) :
          LET class == HomeroomId(d.school, d.homeroom)
          IN  d.student \in ShippedStudents /\ class \in ShippedClasses =>
                /\ Placed(class, d.student, "student")
                /\ d.teacher \in ShippedStaff =>
                      Placed(class, d.teacher, "teacher") \/ RoomIsShared(class, d.teacher)
    /\ \A w \in ToSet(ClassInfo), class \in ShippedClasses :
          w.teacher \in ShippedStaff /\ TaughtWith(w, class) =>
              Placed(class, w.teacher, "teacher")

EnrollmentsInv ==
    "Enrollments" \in DOMAIN output =>
        context.artifacts.published /\ Resolved /\ AllPlaced

RosterInv ==
    TurnsInv /\ PeopleInv /\ StudentFilesInv /\ ClassesInv /\ EnrollmentsInv

LEMMA SameExports ==
    ASSUME UNCHANGED <<config, extract>>
    PROVE  /\ TimetableRows' = TimetableRows /\ HomeroomStudents' = HomeroomStudents
           /\ ClassInfo' = ClassInfo /\ ScheduledRows' = ScheduledRows
           /\ Rostered' = Rostered
<1>1. Rostered' = Rostered
  BY DEF Rostered, TimetableScope
<1>2. \A r : NotExcluded(r)' = NotExcluded(r)
  BY DEF NotExcluded
<1> QED BY <1>1, <1>2 DEF TimetableRows, HomeroomStudents, ClassInfo, ScheduledRows,
             NotExcluded, InHomeroomGrades

LEMMA KeepsPeople ==
    ASSUME PeopleInv, context'.active = context.active,
           context'.leftOutStaff = context.leftOutStaff,
           Rows("Students")' = Rows("Students"), Rows("Staff")' = Rows("Staff")
    PROVE  PeopleInv'
<1>1. ShippedStudents' = ShippedStudents /\ ShippedStaff' = ShippedStaff
  BY DEF ShippedStudents, ShippedStaff
<1> QED BY <1>1 DEF PeopleInv

LEMMA KeepsStudentFiles ==
    ASSUME StudentFilesInv,
           "Students" \in DOMAIN output' <=> "Students" \in DOMAIN output,
           Rows("Students")' = Rows("Students"), Rows("Family")' = Rows("Family"),
           Rows("StudentCourses")' = Rows("StudentCourses")
    PROVE  StudentFilesInv'
<1>1. ShippedStudents' = ShippedStudents
  BY DEF ShippedStudents
<1> QED BY <1>1 DEF StudentFilesInv

LEMMA KeepsClasses ==
    ASSUME ClassesInv, UNCHANGED <<config, extract>>,
           context'.leftOutClasses = context.leftOutClasses,
           context'.artifacts = context.artifacts,
           context'.dataErrors = context.dataErrors,
           loop' = "running" => loop = "running" /\ Done \subseteq Done',
           Rows("Students")' = Rows("Students"), Rows("Classes")' = Rows("Classes")
    PROVE  ClassesInv'
<1>1. /\ ShippedStudents' = ShippedStudents /\ ShippedClasses' = ShippedClasses
      /\ Known' = Known
  BY DEF ShippedStudents, ShippedClasses, Known
<1>2. HomeroomsInv => HomeroomsInv'
  BY <1>1, SameExports DEF HomeroomsInv
<1>3. TimetableInv => TimetableInv'
  BY <1>1, SameExports DEF TimetableInv, BlendsHold, ClassIdOf
<1>4. LessonsInv => LessonsInv'
  BY SameExports DEF LessonsInv, SessionOf, ClassIdOf
<1> QED BY <1>1, <1>2, <1>3, <1>4 DEF ClassesInv

LEMMA KeepsEnrollments ==
    ASSUME EnrollmentsInv, UNCHANGED <<config, extract>>,
           "Enrollments" \in DOMAIN output' <=> "Enrollments" \in DOMAIN output,
           "Students" \in DOMAIN output' <=> "Students" \in DOMAIN output,
           context'.leftOutStaff = context.leftOutStaff,
           context'.artifacts = context.artifacts,
           context'.dataErrors = context.dataErrors,
           context.notes \subseteq context'.notes,
           Rows("Students")' = Rows("Students"), Rows("Staff")' = Rows("Staff"),
           Rows("Classes")' = Rows("Classes"),
           Rows("Enrollments")' = Rows("Enrollments")
    PROVE  EnrollmentsInv'
<1>1. /\ ShippedStudents' = ShippedStudents /\ ShippedClasses' = ShippedClasses
      /\ ShippedStaff' = ShippedStaff
  BY DEF ShippedStudents, ShippedClasses, ShippedStaff
<1>2. Told({"Enrollments"}) => Told({"Enrollments"})'
  BY DEF Told
<1>3. Resolved => Resolved'
  BY <1>1 DEF Resolved
<1>4. /\ \A class, user, role : Placed(class, user, role) => Placed(class, user, role)'
      /\ \A class, teacher : RoomIsShared(class, teacher) => RoomIsShared(class, teacher)'
      /\ \A w, class : TaughtWith(w, class)' = TaughtWith(w, class)
  BY <1>2, SameExports DEF Placed, IsPlaced, RoomIsShared, TaughtWith
<1>5. AllPlaced => AllPlaced'
  BY <1>1, <1>4, SameExports DEF AllPlaced, ClassIdOf
<1> QED BY <1>3, <1>5 DEF EnrollmentsInv

LEMMA KeepsAll ==
    ASSUME RosterInv, UNCHANGED <<config, extract, context, output>>, TurnsInv',
           loop' = "running" => loop = "running" /\ Done \subseteq Done'
    PROVE  RosterInv'
<1>1. \A x : Rows(x)' = Rows(x)
  BY DEF Rows
<1>2. PeopleInv'
  BY <1>1, KeepsPeople DEF RosterInv
<1>3. StudentFilesInv'
  BY <1>1, KeepsStudentFiles DEF RosterInv
<1>4. ClassesInv'
  BY <1>1, KeepsClasses DEF RosterInv
<1>5. EnrollmentsInv'
  BY <1>1, KeepsEnrollments DEF RosterInv
<1> QED BY <1>2, <1>3, <1>4, <1>5 DEF RosterInv

LEMMA EmptyStep ==
    ASSUME RosterInv, SourcesEmpty \/ EntityRaises \/ Complete
    PROVE  RosterInv'
<1>1. ASSUME NEW e, Turn(e), UNCHANGED <<config, extract, context, output>>,
             \/ position' = position + 1 /\ loop' = loop
             \/ position' = position /\ loop' = "stopped"
      PROVE  RosterInv'
  BY <1>1, NothingAdded, KeepsAll DEF RosterInv
<1>2. CASE SourcesEmpty
  BY <1>1, <1>2 DEF SourcesEmpty, EmptyTurn
<1>3. CASE EntityRaises
  BY <1>1, <1>3 DEF EntityRaises, Raised
<1>4. CASE Complete
  <2>1. /\ UNCHANGED <<config, extract, position, context, output>>
        /\ loop' \in {"built", "stopped"}
    BY <1>4 DEF Complete
  <2>2. TurnsInv'
    BY <2>1 DEF RosterInv, TurnsInv, CaseInv, OutputInv, Done
  <2> QED BY <2>1, <2>2, KeepsAll
<1> QED BY <1>2, <1>3, <1>4

\* The rows a transform keeps, of a frame.
LEMMA FilteredFacts ==
    ASSUME NEW rows, IsFrame(rows)
    PROVE  /\ IsFrame(FilterToActive(rows))
           /\ ToSet(FilterToActive(rows)) =
                {r \in ToSet(rows) : context.active # {} => r.student \in context.active}
<1> DEFINE S == {row \in ToSet(rows) : row.student \in context.active}
<1>1. IsFrame(Among(rows, S)) /\ ToSet(Among(rows, S)) = ToSet(rows) \cap S
  <2> HIDE DEF S
  <2> QED BY AmongFacts
<1> QED BY <1>1 DEF FilterToActive

\* Where Students is delivered, the active roster is its students.
LEMMA ActiveShips ==
    ASSUME OutputInv, PeopleInv, "Students" \in DOMAIN output
    PROVE  context.active # {} /\ context.active = ShippedStudents
<1>1. IsFrame(output["Students"]) /\ output["Students"] # <<>>
  BY DEF OutputInv
<1>2. Rows("Students") # {}
  BY <1>1, FrameFacts DEF Rows
<1> QED BY <1>2 DEF ShippedStudents, PeopleInv

LEMMA StudentRowsFrame == CaseInv => IsFrame(StudentRows)
<1> SUFFICES ASSUME CaseInv PROVE IsFrame(StudentRows)
  OBVIOUS
<1> DEFINE actives == {d \in ToSet(extract.demos) : ActiveStatus(d)}
           rows == Among(extract.demos, actives)
           home == {d \in ToSet(rows) : AtHome(d)}
           first == Among(rows, home)
           others == Among(rows, ToSet(rows) \ home)
           one == CollapseCrossEnrollment(rows)
           scoped == {d \in ToSet(one) : d.grade \in config.studentScope.grades}
<1>1. IsFrame(rows)
  <2> HIDE DEF actives
  <2> QED BY CaseFacts, AmongFacts
<1>2. IsFrame(one)
  <2>1. one = rows \/ one = DropDuplicates(first \o others, {"student"})
    BY DEF CollapseCrossEnrollment
  <2> HIDE DEF rows, home, one
  <2>2. IsFrame(first) /\ IsFrame(others)
    BY <1>1, AmongFacts
  <2> HIDE DEF first, others
  <2> QED BY <1>1, <2>1, <2>2, ConcatFacts, DropFacts
<1>3. StudentRows = one \/ StudentRows = Among(one, scoped)
  BY DEF StudentRows, FilterToRosteredGrades
<1> HIDE DEF one, scoped
<1> QED BY <1>2, <1>3, AmongFacts

LEMMA StudentsStep == ASSUME RosterInv, BuildStudents PROVE RosterInv'
<1> DEFINE rows == StudentRows
           whole == {d \in ToSet(rows) : StudentIsWhole(d)}
           kept == Among(rows, whole)
           published == [context EXCEPT
                   !.active = ActiveStudentIds(rows, kept),
                   !.notes = @ \cup ActiveStatusNotes(extract.demos)
                               \cup LeftOutNote("Students", rows, kept)]
<1>1. Turn("Students") /\ Transformed("Students", kept, published)
  BY DEF BuildStudents, Transforms
<1>2. IsFrame(kept)
  <2> HIDE DEF rows, whole
  <2>1. IsFrame(rows)
    BY StudentRowsFrame DEF rows, RosterInv, TurnsInv
  <2> QED BY <2>1, AmongFacts
<1>3. /\ DOMAIN published = ContextFields
      /\ published.active = {d.student : d \in ToSet(kept)}
      /\ published.leftOutStaff = context.leftOutStaff
      /\ published.leftOutClasses = context.leftOutClasses
      /\ published.artifacts = context.artifacts
  BY DEF RosterInv, TurnsInv, OutputInv, ContextFields, ActiveStudentIds
<1> HIDE DEF kept, published
<1>4. /\ TurnsInv' /\ context' = published
      /\ Rows("Students")' = ToSet(kept)
      /\ \A x : x # "Students" => /\ x \in DOMAIN output' <=> x \in DOMAIN output
                                  /\ Rows(x)' = Rows(x)
      /\ loop' = "running" => "Students" \in Done'
  BY <1>1, <1>2, <1>3, TransformedFacts DEF RosterInv
<1>5. \A d \in {"Classes", "Enrollments", "Family", "StudentCourses"} :
          d \notin Done /\ d \notin DOMAIN output /\ d \notin DOMAIN output'
  BY <1>1, <1>4, TurnFacts DEF RosterInv, DependsOn
<1>6. PeopleInv'
  <2>1. ShippedStudents' = {d.student : d \in ToSet(kept)} /\ ShippedStaff' = ShippedStaff
    BY <1>4 DEF ShippedStudents, ShippedStaff
  <2> QED BY <1>3, <1>4, <2>1 DEF PeopleInv, RosterInv
<1>7. StudentFilesInv'
  BY <1>5 DEF StudentFilesInv, Rows
<1>8. ClassesInv'
  <2>1. ~context.artifacts.published
    BY <1>1, <1>5 DEF RosterInv, ClassesInv, Turn
  <2>2. ShippedClasses' = ShippedClasses
    BY <1>4 DEF ShippedClasses
  <2> QED BY <1>3, <1>4, <2>1, <2>2 DEF RosterInv, ClassesInv
<1>9. EnrollmentsInv'
  BY <1>5 DEF EnrollmentsInv
<1> QED BY <1>4, <1>6, <1>7, <1>8, <1>9 DEF RosterInv

LEMMA StaffStep ==
    ASSUME RosterInv, BuildStaff PROVE RosterInv' /\ context'.active = context.active
<1> DEFINE named == {s \in ToSet(PresentStaff) : HasRole(s)}
           rows == Among(PresentStaff, named)
           whole == {s \in ToSet(rows) : StaffIsWhole(s)}
           kept == Among(rows, whole)
           published == [context EXCEPT
                   !.leftOutStaff = LeftOutIds({s.teacher : s \in ToSet(rows) \ ToSet(kept)},
                                               {s.teacher : s \in ToSet(kept)}),
                   !.notes = @ \cup NoteIf(StaffStatusFault # "none", "Staff",
                                           StaffStatusFault)
                               \cup LeftOutNote("Staff", rows, kept)]
<1>1. Turn("Staff") /\ Transformed("Staff", kept, published)
  BY DEF BuildStaff, Transforms
<1>2. IsFrame(kept) /\ \A s \in ToSet(kept) : StaffIsWhole(s)
  <2> DEFINE active == {s \in ToSet(extract.staff) : s.status = "active"}
  <2>1. PresentStaff = extract.staff \/ PresentStaff = Among(extract.staff, active)
    BY DEF PresentStaff
  <2>2. IsFrame(PresentStaff)
    <3> HIDE DEF active
    <3> QED BY <2>1, CaseFacts, AmongFacts DEF RosterInv, TurnsInv
  <2>3. IsFrame(rows)
    <3> HIDE DEF named
    <3> QED BY <2>2, AmongFacts
  <2>4. \A s \in whole : StaffIsWhole(s)
    OBVIOUS
  <2> HIDE DEF rows, whole
  <2> QED BY <2>3, <2>4, AmongFacts
<1>3. /\ DOMAIN published = ContextFields
      /\ published.active = context.active
      /\ published.leftOutStaff \cap {s.teacher : s \in ToSet(kept)} = {}
      /\ published.leftOutClasses = context.leftOutClasses
      /\ published.artifacts = context.artifacts
      /\ published.dataErrors = context.dataErrors
  BY DEF RosterInv, TurnsInv, OutputInv, ContextFields, LeftOutIds
<1> HIDE DEF kept, published
<1>4. /\ TurnsInv' /\ context' = published
      /\ Rows("Staff")' = ToSet(kept)
      /\ \A x : x # "Staff" => /\ x \in DOMAIN output' <=> x \in DOMAIN output
                               /\ Rows(x)' = Rows(x)
      /\ loop' = "running" => "Staff" \in Done'
  BY <1>1, <1>2, <1>3, TransformedFacts DEF RosterInv
<1>5. "Enrollments" \notin DOMAIN output'
  BY <1>1, <1>4, TurnFacts DEF RosterInv, DependsOn
<1>6. PeopleInv'
  <2>1. ShippedStaff' = {s.teacher : s \in ToSet(kept)} /\ ShippedStudents' = ShippedStudents
    BY <1>4 DEF ShippedStudents, ShippedStaff
  <2>2. \A s \in ShippedStaff' : ~IsBlank(s)
    BY <1>2, <2>1 DEF StaffIsWhole
  <2> QED BY <1>3, <1>4, <2>1, <2>2 DEF PeopleInv, RosterInv
<1>7. StudentFilesInv'
  BY <1>4, KeepsStudentFiles DEF RosterInv
<1>8. ClassesInv'
  <2>1. loop' = "running" => loop = "running" /\ Done \subseteq Done'
    BY <1>1, TransformedAdvances DEF RosterInv
  <2>2. UNCHANGED <<config, extract>>
    BY <1>1 DEF Transformed
  <2> QED BY <1>3, <1>4, <2>1, <2>2, KeepsClasses DEF RosterInv
<1>9. EnrollmentsInv'
  BY <1>5 DEF EnrollmentsInv
<1> QED BY <1>3, <1>4, <1>6, <1>7, <1>8, <1>9 DEF RosterInv

LEMMA FamilyStep == ASSUME RosterInv, BuildFamily PROVE RosterInv'
<1> DEFINE isGuardian == {c \in ToSet(extract.contacts) : c.guardian}
           guardians == Among(extract.contacts, isGuardian)
           reached == FilterToActive(guardians)
           withEmail == {c \in ToSet(reached) : c.email}
           mailed == Among(reached, withEmail)
           whole == {c \in ToSet(mailed) : ContactIsWhole(c)}
           kept == Among(mailed, whole)
           published == [context EXCEPT
                   !.notes = @ \cup UnfilteredNote("Family", guardians)
                               \cup NoteIf(reached # mailed, "Family",
                                           "excluded_no_email")
                               \cup LeftOutNote("Family", mailed, kept)]
<1>1. Turn("Family") /\ Transformed("Family", kept, published)
  BY DEF BuildFamily, Transforms
<1>2. IsFrame(kept) /\ ToSet(kept) \subseteq ToSet(reached)
  <2>1. IsFrame(guardians)
    <3> HIDE DEF isGuardian
    <3> QED BY CaseFacts, AmongFacts DEF RosterInv, TurnsInv
  <2>2. IsFrame(reached)
    <3> HIDE DEF guardians
    <3> QED BY <2>1, FilteredFacts
  <2>3. IsFrame(mailed) /\ ToSet(mailed) \subseteq ToSet(reached)
    <3> HIDE DEF reached, withEmail
    <3> QED BY <2>2, AmongFacts
  <2> HIDE DEF mailed, whole
  <2> QED BY <2>3, AmongFacts
<1>3. \A r \in ToSet(kept) : context.active # {} => r.student \in context.active
  <2>1. IsFrame(guardians)
    <3> HIDE DEF isGuardian
    <3> QED BY CaseFacts, AmongFacts DEF RosterInv, TurnsInv
  <2>2. \A r \in ToSet(reached) : context.active # {} => r.student \in context.active
    <3> HIDE DEF guardians
    <3> QED BY <2>1, FilteredFacts
  <2> HIDE DEF reached, kept
  <2> QED BY <1>2, <2>2
<1>4. /\ DOMAIN published = ContextFields
      /\ published.active = context.active
      /\ published.leftOutStaff = context.leftOutStaff
      /\ published.leftOutClasses = context.leftOutClasses
      /\ published.artifacts = context.artifacts
      /\ published.dataErrors = context.dataErrors
      /\ context.notes \subseteq published.notes
  BY DEF RosterInv, TurnsInv, OutputInv, ContextFields
<1> HIDE DEF kept, published
<1>5. /\ TurnsInv' /\ context' = published
      /\ Rows("Family")' = ToSet(kept)
      /\ \A x : x # "Family" => /\ x \in DOMAIN output' <=> x \in DOMAIN output
                                /\ Rows(x)' = Rows(x)
  BY <1>1, <1>2, <1>4, TransformedFacts DEF RosterInv
<1>6. PeopleInv'
  BY <1>4, <1>5, KeepsPeople DEF RosterInv
<1>7. StudentFilesInv'
  <2>1. /\ ShippedStudents' = ShippedStudents
        /\ "Students" \in DOMAIN output' => "Students" \in DOMAIN output
        /\ Rows("StudentCourses")' = Rows("StudentCourses")
    BY <1>5 DEF ShippedStudents
  <2>2. ASSUME "Students" \in DOMAIN output'
        PROVE  \A r \in ToSet(kept) : r.student \in ShippedStudents
    BY <1>3, <2>1, <2>2, ActiveShips DEF RosterInv, TurnsInv
  <2> QED BY <1>5, <2>1, <2>2 DEF RosterInv, StudentFilesInv
<1>8. ClassesInv'
  BY <1>1, <1>4, <1>5, TransformedAdvances, KeepsClasses DEF RosterInv
<1>9. EnrollmentsInv'
  BY <1>1, <1>4, <1>5, TransformedAdvances, KeepsEnrollments DEF RosterInv
<1> QED BY <1>5, <1>6, <1>7, <1>8, <1>9 DEF RosterInv

LEMMA AttendanceStep == ASSUME RosterInv, BuildStudentAttendance PROVE RosterInv'
<1> DEFINE kept == StudentAttendanceRows(extract.daily, extract.period)
<1>1. CASE Raised("StudentAttendance", "transform_error") /\ Turn("StudentAttendance")
  <2>1. /\ UNCHANGED <<config, extract, context, output>>
        /\ \/ position' = position + 1 /\ loop' = loop
           \/ position' = position /\ loop' = "stopped"
    BY <1>1 DEF Raised
  <2> QED BY <1>1, <2>1, NothingAdded, KeepsAll DEF RosterInv
<1>2. CASE Turn("StudentAttendance") /\ Transformed("StudentAttendance", kept, context)
  <2>2. DOMAIN context = ContextFields
    BY DEF RosterInv, TurnsInv, OutputInv
  <2> HIDE DEF kept
  <2>3. /\ TurnsInv' /\ context' = context
        /\ \A x : x # "StudentAttendance" => /\ x \in DOMAIN output' <=> x \in DOMAIN output
                                             /\ Rows(x)' = Rows(x)
    BY <1>2, <2>2, TransformedFacts DEF RosterInv
  <2>4. PeopleInv'
    BY <2>3, KeepsPeople DEF RosterInv
  <2>5. StudentFilesInv'
    BY <2>3, KeepsStudentFiles DEF RosterInv
  <2>6. ClassesInv'
    BY <1>2, <2>3, TransformedAdvances, KeepsClasses DEF RosterInv
  <2>7. EnrollmentsInv'
    BY <1>2, <2>3, TransformedAdvances, KeepsEnrollments DEF RosterInv
  <2> QED BY <2>3, <2>4, <2>5, <2>6, <2>7 DEF RosterInv
<1> QED BY <1>1, <1>2 DEF BuildStudentAttendance, Transforms

-----------------------------------------------------------------------------
(* Classes.                                                                *)

LEMMA ExportFrames ==
    ASSUME CaseInv
    PROVE  /\ IsFrame(TimetableRows) /\ IsFrame(HomeroomStudents)
           /\ IsFrame(ClassInfo) /\ IsFrame(ScheduledRows)
           /\ ToSet(TimetableRows) =
                {r \in ToSet(ScheduledRows) : r.grade \in Rostered}
           /\ ToSet(HomeroomStudents) =
                {d \in ToSet(extract.demos) : InHomeroomGrades(d)}
<1> DEFINE timetabled == {r \in ToSet(extract.schedule) :
                              NotExcluded(r) /\ r.grade \in Rostered}
           uncoded == {r \in ToSet(extract.schedule) : NotExcluded(r)}
           listed == {r \in ToSet(extract.info) : NotExcluded(r)}
           young == {d \in ToSet(extract.demos) : InHomeroomGrades(d)}
<1>1. /\ IsFrame(extract.demos) /\ IsFrame(extract.schedule) /\ IsFrame(extract.info)
  BY CaseFacts
<1>2. /\ TimetableRows = Among(extract.schedule, timetabled)
      /\ ScheduledRows = Among(extract.schedule, uncoded)
      /\ ClassInfo = Among(extract.info, listed)
      /\ HomeroomStudents = Among(extract.demos, young)
  BY DEF TimetableRows, ScheduledRows, ClassInfo, HomeroomStudents
<1>3. /\ timetabled = {r \in uncoded : r.grade \in Rostered}
      /\ uncoded \subseteq ToSet(extract.schedule)
      /\ young \subseteq ToSet(extract.demos)
  OBVIOUS
<1> HIDE DEF timetabled, uncoded, listed, young
<1>4. /\ IsFrame(TimetableRows) /\ IsFrame(HomeroomStudents)
      /\ IsFrame(ClassInfo) /\ IsFrame(ScheduledRows)
      /\ ToSet(TimetableRows) = ToSet(extract.schedule) \cap timetabled
      /\ ToSet(ScheduledRows) = ToSet(extract.schedule) \cap uncoded
      /\ ToSet(HomeroomStudents) = ToSet(extract.demos) \cap young
  BY <1>1, <1>2, AmongFacts
<1> QED BY <1>3, <1>4 DEF young

\* Every pupil of a homeroom grade who ships has a homeroom.
LEMMA HomeroomsFacts ==
    ASSUME CaseInv, PeopleInv
    PROVE  /\ IsFrame(Homerooms)
           /\ \A h \in ToSet(Homerooms) : h.class = HomeroomId(h.school, h.homeroom)
           /\ \A d \in ToSet(HomeroomStudents) : d.student \in ShippedStudents =>
                 \E h \in ToSet(Homerooms) :
                     /\ h.school = d.school /\ h.homeroom = d.homeroom
                     /\ h.teacher = d.teacher
<1> DEFINE students == FilterToActive(HomeroomStudents)
           fields == {"school", "homeroom", "teacher"}
           unique == DropDuplicates(students, fields)
           Room(d) == [school |-> d.school, homeroom |-> d.homeroom,
                       teacher |-> d.teacher,
                       class |-> HomeroomId(d.school, d.homeroom)]
           f == [i \in DOMAIN unique |-> Room(unique[i])]
<1>1. /\ IsFrame(students)
      /\ ToSet(students) = {r \in ToSet(HomeroomStudents) :
                               context.active # {} => r.student \in context.active}
  BY ExportFrames, FilteredFacts
<1>2. Homerooms = f
  BY DEF Homerooms
<1>3. f = [i \in DOMAIN unique |-> f[i]]
  OBVIOUS
<1> HIDE DEF students
<1>4. /\ IsFrame(unique)
      /\ \A r \in ToSet(students) : \E k \in ToSet(unique) :
            /\ k.school = r.school /\ k.homeroom = r.homeroom
            /\ k.teacher = r.teacher
  BY <1>1, DropFacts
<1> HIDE DEF unique
<1>5. IsFrame(f) /\ DOMAIN f = DOMAIN unique /\ ToSet(f) = {f[i] : i \in DOMAIN unique}
  <2> HIDE DEF f
  <2> QED BY <1>3, <1>4, MappedFacts
<1>6. \A i \in DOMAIN unique : f[i] = Room(unique[i])
  OBVIOUS
<1>7. \A h \in ToSet(f) : h.class = HomeroomId(h.school, h.homeroom)
  BY <1>5, <1>6
<1>8. ASSUME NEW d \in ToSet(HomeroomStudents), d.student \in ShippedStudents
      PROVE  \E h \in ToSet(f) : /\ h.school = d.school /\ h.homeroom = d.homeroom
                                  /\ h.teacher = d.teacher
  <2>1. d \in ToSet(students)
    BY <1>1, <1>8 DEF PeopleInv
  <2>2. PICK k \in ToSet(unique) : /\ k.school = d.school /\ k.homeroom = d.homeroom
                                   /\ k.teacher = d.teacher
    BY <1>4, <2>1
  <2>3. PICK i \in DOMAIN unique : k = unique[i]
    BY DEF ToSet
  <2>4. Room(k) \in ToSet(f)
    BY <1>5, <1>6, <2>3
  <2>5. /\ Room(k).school = d.school /\ Room(k).homeroom = d.homeroom
        /\ Room(k).teacher = d.teacher
    BY <2>2
  <2> HIDE DEF f, Room
  <2> QED BY <2>4, <2>5
<1> HIDE DEF f
<1> QED BY <1>2, <1>5, <1>7, <1>8

\* The registered keys, as the frame the two emissions go through.
LEMMA RegisteredKeysFacts ==
    ASSUME NEW blends, BlendsHold(blends)
    PROVE  /\ IsFrame(RegisteredKeys(blends.teachers))
           /\ \A k \in ToSet(RegisteredKeys(blends.teachers)) :
                 BlendedId(k) \in DOMAIN blends.teachers
           /\ \A b \in DOMAIN blends.teachers :
                 \E k \in ToSet(RegisteredKeys(blends.teachers)) : b = BlendedId(k)
<1> DEFINE I == {i \in DOMAIN KeyOrder : BlendedId(KeyOrder[i]) \in DOMAIN blends.teachers}
<1>1. RegisteredKeys(blends.teachers) = RowsAt(KeyOrder, I)
  BY DEF RegisteredKeys
<1>2. /\ IsFrame(RowsAt(KeyOrder, I))
      /\ ToSet(RowsAt(KeyOrder, I)) = {KeyOrder[i] : i \in DOMAIN KeyOrder \cap I}
  <2> HIDE DEF I
  <2> QED BY KeyOrderAssumption, RowsAtFacts
<1>3. ASSUME NEW b \in DOMAIN blends.teachers
      PROVE  \E i \in I : b = BlendedId(KeyOrder[i])
  BY DEF BlendsHold
<1> QED BY <1>1, <1>2, <1>3

LEMMA ClassRowsFacts ==
    ASSUME CaseInv, NEW homerooms, IsFrame(homerooms),
           \A h \in ToSet(homerooms) : h.class = HomeroomId(h.school, h.homeroom),
           NEW blends, BlendsHold(blends)
    PROVE  LET rows == ClassRows(homerooms, blends)
               ids == {c.class : c \in ToSet(rows)}
           IN  /\ IsFrame(rows)
               /\ \A h \in ToSet(homerooms) : h.class \in ids
               /\ \A r \in ToSet(TimetableRows) :
                     ClassIdOf(r.section, blends.classMap) \in ids
               /\ DOMAIN blends.teachers \subseteq ids
               /\ \A c \in ids : c.kind = "blended" => c \in DOMAIN blends.teachers
               /\ \A c \in ids : c.kind = "homeroom" =>
                     \E h \in ToSet(homerooms) : h.class = c
<1> DEFINE A == HomeroomClasses(homerooms)
           B == SubjectClasses(blends.classMap)
           C == BlendedClasses(blends.teachers)
           keys == RegisteredKeys(blends.teachers)
           all == A \o B \o C
           rows == ClassRows(homerooms, blends)
           ids == {c.class : c \in ToSet(rows)}
<1>1. /\ IsFrame(A)
      /\ \A h \in ToSet(homerooms) : \E c \in ToSet(A) : c.class = h.class
      /\ \A c \in ToSet(A) : \E h \in ToSet(homerooms) : c.class = h.class
  <2>1. A = [i \in DOMAIN homerooms |-> A[i]]
    BY DEF HomeroomClasses
  <2>2. \A i \in DOMAIN homerooms : A[i].class = homerooms[i].class
    BY DEF HomeroomClasses
  <2> HIDE DEF A
  <2>3. IsFrame(A) /\ ToSet(A) = {A[i] : i \in DOMAIN homerooms}
    BY <2>1, MappedFacts
  <2>4. /\ \A i \in DOMAIN homerooms : homerooms[i] \in ToSet(homerooms)
        /\ \A h \in ToSet(homerooms) : \E i \in DOMAIN homerooms : h = homerooms[i]
    BY FrameFacts
  <2> QED BY <2>2, <2>3, <2>4
<1>2. /\ IsFrame(B)
      /\ \A r \in ToSet(TimetableRows) : \E c \in ToSet(B) :
            c.class = ClassIdOf(r.section, blends.classMap)
      /\ \A c \in ToSet(B) : \E r \in ToSet(TimetableRows) :
            c.class = ClassIdOf(r.section, blends.classMap)
  <2>1. B = [i \in DOMAIN TimetableRows |-> B[i]]
    BY DEF SubjectClasses
  <2>2. \A i \in DOMAIN TimetableRows :
            B[i].class = ClassIdOf(TimetableRows[i].section, blends.classMap)
    BY DEF SubjectClasses
  <2> HIDE DEF B
  <2>3. IsFrame(B) /\ ToSet(B) = {B[i] : i \in DOMAIN TimetableRows}
    BY <2>1, ExportFrames, MappedFacts
  <2>4. /\ \A i \in DOMAIN TimetableRows : TimetableRows[i] \in ToSet(TimetableRows)
        /\ \A r \in ToSet(TimetableRows) : \E i \in DOMAIN TimetableRows :
              r = TimetableRows[i]
    BY ExportFrames, FrameFacts
  <2> QED BY <2>2, <2>3, <2>4
<1>3. /\ IsFrame(C)
      /\ \A k \in ToSet(keys) : \E c \in ToSet(C) : c.class = BlendedId(k)
      /\ \A c \in ToSet(C) : \E k \in ToSet(keys) : c.class = BlendedId(k)
  <2>1. C = [i \in DOMAIN keys |-> C[i]]
    BY DEF BlendedClasses
  <2>2. \A i \in DOMAIN keys : C[i].class = BlendedId(keys[i])
    BY DEF BlendedClasses
  <2>3. IsFrame(keys)
    BY RegisteredKeysFacts
  <2> HIDE DEF C, keys
  <2>4. IsFrame(C) /\ ToSet(C) = {C[i] : i \in DOMAIN keys}
    BY <2>1, <2>3, MappedFacts
  <2> QED BY <2>2, <2>4 DEF ToSet
<1>4. /\ \A k \in ToSet(keys) : BlendedId(k) \in DOMAIN blends.teachers
      /\ \A b \in DOMAIN blends.teachers : \E k \in ToSet(keys) : b = BlendedId(k)
  BY RegisteredKeysFacts
<1>5. rows = DropDuplicates(all, {"class"})
  BY DEF ClassRows
<1> HIDE DEF A, B, C, keys, rows
<1>6. IsFrame(all) /\ ToSet(all) = ToSet(A) \cup ToSet(B) \cup ToSet(C)
  BY <1>1, <1>2, <1>3, ConcatFacts
<1> HIDE DEF all
<1>7. /\ IsFrame(rows) /\ ToSet(rows) \subseteq ToSet(all)
      /\ \A r \in ToSet(all) : \E k \in ToSet(rows) : k.class = r.class
  BY <1>5, <1>6, DropFacts
<1>8. \A r \in ToSet(all) : r.class \in ids
  BY <1>7
<1>9. ASSUME NEW c \in ToSet(rows), c.class.kind = "blended"
      PROVE  c.class \in DOMAIN blends.teachers
  <2>1. CASE c \in ToSet(A)
    <3>1. PICK h \in ToSet(homerooms) : c.class = h.class
      BY <1>1, <2>1
    <3>2. c.class = HomeroomId(h.school, h.homeroom)
      BY <3>1
    <3>3. HomeroomId(h.school, h.homeroom).kind = "homeroom"
      BY DEF HomeroomId
    <3>4. c.class.kind = "homeroom"
      BY <3>2, <3>3
    <3> QED BY <1>9, <3>4
  <2>2. CASE c \in ToSet(B)
    <3>1. PICK r \in ToSet(TimetableRows) :
              c.class = ClassIdOf(r.section, blends.classMap)
      BY <1>2, <2>2
    <3>2. SectionId(r.section).kind # "blended"
      BY DEF SectionId
    <3> QED BY <1>9, <3>1, <3>2 DEF ClassIdOf, BlendsHold
  <2>3. CASE c \in ToSet(C)
    BY <1>3, <1>4, <2>3
  <2> QED BY <1>6, <1>7, <2>1, <2>2, <2>3
<1>11. ASSUME NEW c \in ToSet(rows), c.class.kind = "homeroom"
       PROVE  \E h \in ToSet(homerooms) : h.class = c.class
  <2>1. CASE c \in ToSet(A)
    BY <1>1, <2>1
  <2>2. CASE c \in ToSet(B)
    <3>1. PICK r \in ToSet(TimetableRows) :
              c.class = ClassIdOf(r.section, blends.classMap)
      BY <1>2, <2>2
    <3>2. SectionId(r.section).kind # "homeroom"
      BY DEF SectionId
    <3>3. \A b \in DOMAIN blends.teachers : b.kind # "homeroom"
      BY DEF BlendsHold
    <3> QED BY <1>11, <3>1, <3>2, <3>3 DEF ClassIdOf, BlendsHold
  <2>3. CASE c \in ToSet(C)
    <3>2. \A k : BlendedId(k).kind = "blended"
      BY DEF BlendedId
    <3>1. c.class.kind = "blended"
      BY <1>3, <2>3, <3>2
    <3> QED BY <1>11, <3>1
  <2> QED BY <1>6, <1>7, <2>1, <2>2, <2>3
<1>10. /\ \A h \in ToSet(homerooms) : h.class \in ids
       /\ \A r \in ToSet(TimetableRows) : ClassIdOf(r.section, blends.classMap) \in ids
       /\ DOMAIN blends.teachers \subseteq ids
  <2> HIDE DEF ids
  <2> QED BY <1>1, <1>2, <1>3, <1>4, <1>6, <1>8
<1> QED BY <1>7, <1>9, <1>10, <1>11 DEF rows

LEMMA OneOf ==
    ASSUME NEW r, Cardinality(SessionOf(r)) = 1
    PROVE  \A j, k \in SessionOf(r) : j = k
<1>1. Len(KeyOrder) \in Nat /\ DOMAIN KeyOrder = 1 .. Len(KeyOrder)
  BY KeyOrderAssumption, FrameFacts
<1>2. KeyOrder \in Surjection(1 .. Len(KeyOrder), ToSet(KeyOrder))
  <2>1. KeyOrder \in [1 .. Len(KeyOrder) -> ToSet(KeyOrder)]
    BY <1>1, KeyOrderAssumption DEF IsFrame
  <2> QED BY <1>1, <2>1 DEF Surjection, ToSet
<1>3. IsFiniteSet(ToSet(KeyOrder))
  BY <1>1, <1>2, FS_NatSurjection DEF ExistsSurjection
<1>4. IsFiniteSet(SessionOf(r))
  BY <1>3, FS_Subset DEF SessionOf
<1>5. \E x : SessionOf(r) = {x}
  BY <1>4, FS_Singleton
<1> QED BY <1>5

\* What the detector finds puts a lesson together, and only with pupils.
LEMMA LessonsFacts ==
    ASSUME CaseInv, config.blended, extract.courses
    PROVE  /\ \A r \in ToSet(TimetableRows) : Cardinality(SessionOf(r)) = 1 =>
                 \A k \in SessionOf(r) :
                     Validate(ScheduledRows, SessionSections(Working(ClassInfo), k))
                       => ClassIdOf(r.section, BlendDetection.classMap) = BlendedId(k)
           /\ \A b \in DOMAIN BlendDetection.teachers :
                 \E r \in ToSet(TimetableRows) : b.of \in SessionOf(r)
<1> DEFINE working == Working(ClassInfo)
           keys == Registered(working, ScheduledRows, Rostered)
           map == ClassMap(working, ScheduledRows, Rostered)
           teachers == [b \in {BlendedId(k) : k \in keys} |-> CollectTeachers(working, b.of)]
           idle == ScheduledRows = <<>> \/ working = <<>>
<1>1. BlendDetection = IF idle THEN NoBlends ELSE [classMap |-> map, teachers |-> teachers]
  BY DEF BlendDetection, Detect
<1>2. /\ keys \in SUBSET ToSet(KeyOrder)
      /\ \A k \in keys : \E r \in ToSet(ScheduledRows) :
            r.section \in SessionSections(working, k) /\ r.grade \in Rostered
      /\ \A k \in ToSet(KeyOrder), r \in ToSet(ScheduledRows) :
            /\ Validate(ScheduledRows, SessionSections(working, k))
            /\ r.section \in SessionSections(working, k) /\ r.grade \in Rostered
            => k \in keys
  BY RegisteredFacts
<1>3. ToSet(TimetableRows) = {r \in ToSet(ScheduledRows) : r.grade \in Rostered}
  BY ExportFrames
<1>4. \A r : SessionOf(r) = {k \in ToSet(KeyOrder) : r.section \in SessionSections(working, k)}
  BY DEF SessionOf
<1>5. /\ DOMAIN map = UNION {SessionSections(working, k) : k \in keys}
      /\ \A s \in DOMAIN map : map[s] = BlendedId(OwnerKey(working, keys, s))
  BY DEF ClassMap, ClassMapOf
<1>6. /\ DOMAIN teachers = {BlendedId(k) : k \in keys}
      /\ \A k : BlendedId(k).of = k
  BY DEF BlendedId
<1>7. ASSUME NEW r \in ToSet(TimetableRows), Cardinality(SessionOf(r)) = 1,
             NEW k \in SessionOf(r),
             Validate(ScheduledRows, SessionSections(working, k))
      PROVE  ClassIdOf(r.section, BlendDetection.classMap) = BlendedId(k)
  <2>1. k \in keys /\ r.section \in SessionSections(working, k)
    <3> HIDE DEF working, keys
    <3> QED BY <1>2, <1>3, <1>4, <1>7
  <2>2. ~idle
    <3>1. ToSet(ScheduledRows) # {} /\ ToSet(working) # {}
      BY <1>3, <2>1 DEF SessionSections
    <3> HIDE DEF working
    <3> QED BY <3>1, NoRows
  <2> HIDE DEF working, keys, map, teachers
  <2>3. /\ OwnerKey(working, keys, r.section) \in keys
        /\ r.section \in SessionSections(working, OwnerKey(working, keys, r.section))
    BY <1>2, <2>1, OwnerFacts
  <2>4. OwnerKey(working, keys, r.section) \in SessionOf(r)
    BY <1>2, <1>4, <2>3
  <2>5. OwnerKey(working, keys, r.section) = k
    BY <1>7, <2>4, OneOf
  <2>6. r.section \in DOMAIN map /\ map[r.section] = BlendedId(k)
    BY <1>5, <2>1, <2>5
  <2>7. BlendDetection.classMap = map
    BY <1>1, <2>2
  <2> QED BY <2>6, <2>7 DEF ClassIdOf
<1>8. ASSUME NEW b \in DOMAIN BlendDetection.teachers
      PROVE  \E r \in ToSet(TimetableRows) : b.of \in SessionOf(r)
  <2>1. ~idle
    BY <1>1, NoRows DEF NoBlends
  <2> HIDE DEF working, keys, map, teachers
  <2>2. b \in DOMAIN teachers
    BY <1>1, <2>1
  <2>3. PICK k \in keys : b = BlendedId(k)
    BY <1>6, <2>2
  <2> QED BY <1>2, <1>3, <1>4, <1>6, <2>3
<1> HIDE DEF working
<1>9. \A r, k : SessionSections(Working(ClassInfo), k) = SessionSections(working, k)
  BY DEF working
<1> QED BY <1>7, <1>8, <1>9

\* The detector lists for a blend everyone that Class Information does, and
\* registers none without a row of the timetable.
LEMMA BlendTeachers ==
    ASSUME CaseInv
    PROVE  \A b \in DOMAIN BlendDetection.teachers :
              /\ TimetableRows # <<>>
              /\ \A w \in ToSet(Working(ClassInfo)) :
                    w.section \in SessionSections(Working(ClassInfo), b.of) =>
                        w.teacher \in ToSet(BlendDetection.teachers[b])
<1> DEFINE working == Working(ClassInfo)
           keys == Registered(working, ScheduledRows, Rostered)
           map == ClassMap(working, ScheduledRows, Rostered)
           teachers == [b \in {BlendedId(k) : k \in keys} |-> CollectTeachers(working, b.of)]
<1>1. BlendDetection = NoBlends \/ BlendDetection = [classMap |-> map, teachers |-> teachers]
  BY DEF BlendDetection, Detect
<1>2. DOMAIN NoBlends.teachers = {}
  BY DEF NoBlends
<1>3. IsFrame(working)
  BY ExportFrames, WorkingFacts
<1>4. ASSUME NEW b \in DOMAIN teachers
      PROVE  /\ TimetableRows # <<>>
             /\ \A w \in ToSet(working) : w.section \in SessionSections(working, b.of) =>
                   w.teacher \in ToSet(teachers[b])
  <2>1. PICK k \in keys : b = BlendedId(k)
    OBVIOUS
  <2>2. teachers[b] = CollectTeachers(working, b.of)
    OBVIOUS
  <2> HIDE DEF teachers, working
  <2>3. \E r \in ToSet(ScheduledRows) : r.grade \in Rostered
    BY <2>1, RegisteredFacts
  <2>4. ToSet(TimetableRows) # {}
    BY <2>3, ExportFrames
  <2> QED BY <1>3, <2>2, <2>4, TeachersFacts, NoRows
<1> HIDE DEF map, teachers
<1>5. CASE BlendDetection = [classMap |-> map, teachers |-> teachers]
  <2>1. BlendDetection.teachers = teachers
    BY <1>5
  <2> QED BY <1>4, <2>1
<1> QED BY <1>1, <1>2, <1>5

LEMMA BlendDetectionHolds == CaseInv => BlendsHold(BlendDetection)
<1>1. BlendsHold(NoBlends)
  BY DEF BlendsHold, NoBlends
<1> QED BY <1>1, ExportFrames, DetectFacts DEF BlendDetection

LEMMA ClassesStep ==
    ASSUME RosterInv, BuildClasses PROVE RosterInv' /\ context'.active = context.active
<1> DEFINE homerooms == Homerooms
           blends == BlendDetection
           rows == ClassRows(homerooms, blends)
           whole == {c \in ToSet(rows) : ClassIsWhole(c)}
           kept == Among(rows, whole)
           ids == {c.class : c \in ToSet(rows)}
           shipped == {c.class : c \in ToSet(kept)}
           leftOut == {c.class : c \in ToSet(rows) \ ToSet(kept)}
           published == [context EXCEPT
                   !.artifacts = [published |-> TRUE, homerooms |-> homerooms,
                                  info |-> ClassInfo, classMap |-> blends.classMap,
                                  teachers |-> blends.teachers],
                   !.leftOutClasses = LeftOutIds(leftOut, shipped),
                   !.dataErrors = @ \cup (IF HomeroomIdCollision(homerooms)
                                          THEN {"Classes"} ELSE {}),
                   !.notes = @ \cup UnfilteredNote("Classes", extract.demos)
                               \cup LeftOutNote("Classes", rows, kept)]
<1>1. Turn("Classes") /\ Transformed("Classes", kept, published)
  BY DEF BuildClasses, Transforms
<1>2. CaseInv /\ PeopleInv
  BY DEF RosterInv, TurnsInv
<1>3. BlendsHold(blends)
  BY <1>2, BlendDetectionHolds
<1>4. /\ IsFrame(homerooms)
      /\ \A h \in ToSet(homerooms) : h.class = HomeroomId(h.school, h.homeroom)
      /\ \A d \in ToSet(HomeroomStudents) : d.student \in ShippedStudents =>
            \E h \in ToSet(homerooms) : /\ h.school = d.school /\ h.homeroom = d.homeroom
                                        /\ h.teacher = d.teacher
  BY <1>2, HomeroomsFacts
<1>5. config.blended /\ extract.courses =>
        /\ \A r \in ToSet(TimetableRows) : Cardinality(SessionOf(r)) = 1 =>
              \A k \in SessionOf(r) :
                  Validate(ScheduledRows, SessionSections(Working(ClassInfo), k))
                    => ClassIdOf(r.section, blends.classMap) = BlendedId(k)
        /\ \A b \in DOMAIN blends.teachers :
              \E r \in ToSet(TimetableRows) : b.of \in SessionOf(r)
  BY <1>2, LessonsFacts
<1>15. \A b \in DOMAIN blends.teachers :
          /\ TimetableRows # <<>>
          /\ \A w \in ToSet(Working(ClassInfo)) :
                w.section \in SessionSections(Working(ClassInfo), b.of) =>
                    w.teacher \in ToSet(blends.teachers[b])
  BY <1>2, BlendTeachers
<1> HIDE DEF homerooms, blends
<1>6. /\ IsFrame(rows)
      /\ \A h \in ToSet(homerooms) : h.class \in ids
      /\ \A r \in ToSet(TimetableRows) : ClassIdOf(r.section, blends.classMap) \in ids
      /\ DOMAIN blends.teachers \subseteq ids
      /\ \A c \in ids : c.kind = "blended" => c \in DOMAIN blends.teachers
      /\ \A c \in ids : c.kind = "homeroom" => \E h \in ToSet(homerooms) : h.class = c
  BY <1>2, <1>3, <1>4, ClassRowsFacts
<1> HIDE DEF rows
<1>7. IsFrame(kept) /\ ToSet(kept) \subseteq ToSet(rows)
  <2> HIDE DEF whole
  <2> QED BY <1>6, AmongFacts
<1>8. /\ DOMAIN published = ContextFields
      /\ published.active = context.active
      /\ published.leftOutStaff = context.leftOutStaff
      /\ published.leftOutClasses = leftOut \ shipped
      /\ published.artifacts = [published |-> TRUE, homerooms |-> homerooms,
                                info |-> ClassInfo, classMap |-> blends.classMap,
                                teachers |-> blends.teachers]
      /\ HomeroomIdCollision(homerooms) => "Classes" \in published.dataErrors
  BY DEF RosterInv, TurnsInv, OutputInv, ContextFields, LeftOutIds
<1>16. \A g, h \in ToSet(homerooms) : g.class = h.class /\ g.teacher # h.teacher =>
          "Classes" \in published.dataErrors
  BY <1>8 DEF HomeroomIdCollision, ToSet
<1> HIDE DEF kept, published
<1>9. /\ TurnsInv' /\ context' = published
      /\ Rows("Classes")' = ToSet(kept)
      /\ \A x : x # "Classes" => /\ x \in DOMAIN output' <=> x \in DOMAIN output
                                 /\ Rows(x)' = Rows(x)
      /\ loop' = "running" => "Classes" \in Done'
  BY <1>1, <1>7, <1>8, TransformedFacts DEF RosterInv
<1>10. "Enrollments" \notin DOMAIN output'
  BY <1>1, <1>9, TurnFacts DEF RosterInv, DependsOn
<1>11. PeopleInv'
  BY <1>8, <1>9, KeepsPeople DEF RosterInv
<1>12. StudentFilesInv'
  BY <1>9, KeepsStudentFiles DEF RosterInv
<1>13. ClassesInv'
  <2>1. UNCHANGED <<config, extract>>
    BY <1>1 DEF Transformed
  <2>2. /\ ShippedClasses' = shipped /\ ShippedStudents' = ShippedStudents
        /\ Known' = ids /\ shipped \subseteq ids
    <3>1. shipped \cup (leftOut \ shipped) = ids /\ shipped \subseteq ids
      BY <1>7
    <3>2. ShippedClasses' = shipped /\ ShippedStudents' = ShippedStudents
      BY <1>9 DEF ShippedClasses, ShippedStudents
    <3>3. Known' = ShippedClasses' \cup context'.leftOutClasses
      BY DEF Known
    <3> HIDE DEF shipped, ids, leftOut
    <3> QED BY <1>8, <1>9, <3>1, <3>2, <3>3
  <2> HIDE DEF shipped, ids, leftOut
  <2>3. context'.artifacts = [published |-> TRUE, homerooms |-> homerooms,
                              info |-> ClassInfo, classMap |-> blends.classMap,
                              teachers |-> blends.teachers]
    BY <1>8, <1>9
  <2>4. /\ context'.artifacts.homerooms = homerooms
        /\ context'.artifacts.info = ClassInfo
        /\ context'.artifacts.classMap = blends.classMap
        /\ context'.artifacts.teachers = blends.teachers
    BY <2>3
  <2>5. HomeroomsInv'
    <3>1. "Classes" \in published.dataErrors => "Classes" \in context'.dataErrors
      BY <1>9
    <3> QED BY <1>4, <1>6, <1>16, <2>1, <2>2, <2>4, <3>1, SameExports DEF HomeroomsInv
  <2>6. TimetableInv'
    BY <1>3, <1>6, <1>15, <2>1, <2>2, <2>4, SameExports
       DEF TimetableInv, BlendsHold, ClassIdOf
  <2>7. LessonsInv'
    BY <1>5, <2>1, <2>4, SameExports DEF LessonsInv, SessionOf, ClassIdOf
  <2>8. ShippedClasses' \cap context'.leftOutClasses = {}
    BY <1>8, <1>9, <2>2
  <2> QED BY <1>9, <2>5, <2>6, <2>7, <2>8 DEF ClassesInv
<1>14. EnrollmentsInv'
  BY <1>10 DEF EnrollmentsInv
<1> QED BY <1>8, <1>9, <1>11, <1>12, <1>13, <1>14 DEF RosterInv

-----------------------------------------------------------------------------
(* Enrollments.                                                            *)

IsEnrollment(r, class, user, role) == r.class = class /\ r.user = user /\ r.role = role

\* A row that may be emitted: its class is known, and a student of it active.
Sound(r) ==
    /\ r.class \in Known
    /\ r.role = "student" /\ context.active # {} => r.user \in context.active

LEMMA IdentifiedFacts ==
    ASSUME NEW rows, IsFrame(rows)
    PROVE  /\ IsFrame(Identified(rows))
           /\ ToSet(Identified(rows)) = {r \in ToSet(rows) : ~IsBlank(r.user)}
<1> DEFINE named == {row \in ToSet(rows) : ~IsBlank(row.user)}
<1>1. Identified(rows) = Among(rows, named)
  BY DEF Identified
<1>2. IsFrame(Among(rows, named)) /\ ToSet(Among(rows, named)) = ToSet(rows) \cap named
  <2> HIDE DEF named
  <2> QED BY AmongFacts
<1> QED BY <1>1, <1>2

LEMMA RoomEntriesFacts ==
    ASSUME NEW entries, IsFrame(entries), NEW school, NEW homeroom
    PROVE  /\ IsFrame(RoomEntries(school, homeroom, entries))
           /\ ToSet(RoomEntries(school, homeroom, entries)) =
                {h \in ToSet(entries) : h.school = school /\ h.homeroom = homeroom}
<1> DEFINE own == {h \in ToSet(entries) : h.school = school /\ h.homeroom = homeroom}
<1>1. RoomEntries(school, homeroom, entries) = Among(entries, own)
  BY DEF RoomEntries
<1>2. IsFrame(Among(entries, own)) /\ ToSet(Among(entries, own)) = ToSet(entries) \cap own
  <2> HIDE DEF own
  <2> QED BY AmongFacts
<1> QED BY <1>1, <1>2

\* A frame of frames, joined.
LEMMA JoinedFrames ==
    ASSUME NEW rows, IsFrame(rows), NEW ss, ss = [i \in DOMAIN rows |-> ss[i]],
           \A i \in DOMAIN rows : IsFrame(ss[i])
    PROVE  /\ IsFrame(FlattenSeq(ss))
           /\ ToSet(FlattenSeq(ss)) = UNION {ToSet(ss[i]) : i \in DOMAIN rows}
<1>1. IsFrame(ss) /\ DOMAIN ss = DOMAIN rows
  BY MappedFacts
<1> QED BY <1>1, FlattenFacts

LEMMA MeetingsFacts ==
    ASSUME CaseInv, HomeroomsInv
    PROVE  /\ IsFrame(HomeroomMeetings)
           /\ \A m \in ToSet(HomeroomMeetings) :
                 /\ m.class \in Known
                 /\ \E h \in ToSet(context.artifacts.homerooms) :
                       h.class = m.class /\ h.teacher = m.teacher
           /\ \A d \in ToSet(HomeroomStudents) :
                 \A h \in ToSet(context.artifacts.homerooms) :
                    h.school = d.school /\ h.homeroom = d.homeroom =>
                       \E m \in ToSet(HomeroomMeetings) :
                           m.student = d.student /\ m.class = h.class
<1> DEFINE students == HomeroomStudents
           rooms == context.artifacts.homerooms
           Own(d) == RoomEntries(d.school, d.homeroom, rooms)
           Meeting(d, h) == [student |-> d.student, teacher |-> h.teacher,
                             class |-> h.class, school |-> d.school]
           Met(d) == [j \in DOMAIN Own(d) |-> Meeting(d, Own(d)[j])]
           ss == [i \in DOMAIN students |-> Met(students[i])]
<1>1. HomeroomMeetings = FlattenSeq(ss)
  BY DEF HomeroomMeetings
<1>2. IsFrame(rooms) /\ \A h \in ToSet(rooms) : h.class \in Known
  BY DEF HomeroomsInv
<1>3. IsFrame(students)
  BY ExportFrames
<1> HIDE DEF students, rooms
<1>4. ASSUME NEW d
      PROVE  /\ IsFrame(Met(d))
             /\ \A m \in ToSet(Met(d)) : \E h \in ToSet(rooms) :
                   h.class = m.class /\ h.teacher = m.teacher
             /\ \A h \in ToSet(rooms) :
                   h.school = d.school /\ h.homeroom = d.homeroom =>
                      \E m \in ToSet(Met(d)) : m.student = d.student /\ m.class = h.class
  <2>1. /\ IsFrame(Own(d))
        /\ ToSet(Own(d)) = {h \in ToSet(rooms) : h.school = d.school /\ h.homeroom = d.homeroom}
    BY <1>2, RoomEntriesFacts
  <2>2. Met(d) = [j \in DOMAIN Own(d) |-> Met(d)[j]]
    OBVIOUS
  <2>3. \A j \in DOMAIN Own(d) : /\ Met(d)[j].class = Own(d)[j].class
                                 /\ Met(d)[j].teacher = Own(d)[j].teacher
                                 /\ Met(d)[j].student = d.student
    OBVIOUS
  <2>4. /\ \A j \in DOMAIN Own(d) : Own(d)[j] \in ToSet(Own(d))
        /\ \A h \in ToSet(Own(d)) : \E j \in DOMAIN Own(d) : h = Own(d)[j]
    <3> HIDE DEF Own
    <3> QED BY <2>1, FrameFacts
  <2> HIDE DEF Met, Own
  <2>5. IsFrame(Met(d)) /\ ToSet(Met(d)) = {Met(d)[j] : j \in DOMAIN Own(d)}
    BY <2>1, <2>2, MappedFacts
  <2>6. \A m \in ToSet(Met(d)) : \E h \in ToSet(rooms) :
            h.class = m.class /\ h.teacher = m.teacher
    BY <2>1, <2>3, <2>4, <2>5
  <2> QED BY <2>1, <2>3, <2>4, <2>5, <2>6
<1>5. ss = [i \in DOMAIN students |-> ss[i]] /\ \A i \in DOMAIN students : ss[i] = Met(students[i])
  OBVIOUS
<1> HIDE DEF ss, Met
<1>6. /\ IsFrame(FlattenSeq(ss))
      /\ ToSet(FlattenSeq(ss)) = UNION {ToSet(ss[i]) : i \in DOMAIN students}
  BY <1>3, <1>4, <1>5, JoinedFrames
<1>7. \A d \in ToSet(students) : \E i \in DOMAIN students : d = students[i]
  BY <1>3, FrameFacts
<1>8. \A m \in ToSet(FlattenSeq(ss)) :
          /\ m.class \in Known
          /\ \E h \in ToSet(rooms) : h.class = m.class /\ h.teacher = m.teacher
  BY <1>2, <1>4, <1>5, <1>6
<1>9. ASSUME NEW d \in ToSet(students), NEW h \in ToSet(rooms),
             h.school = d.school, h.homeroom = d.homeroom
      PROVE  \E m \in ToSet(FlattenSeq(ss)) : m.student = d.student /\ m.class = h.class
  <2>1. PICK i \in DOMAIN students : d = students[i]
    BY <1>7
  <2>2. PICK m \in ToSet(ss[i]) : m.student = d.student /\ m.class = h.class
    BY <1>4, <1>5, <1>9, <2>1
  <2>3. m \in ToSet(FlattenSeq(ss))
    BY <1>6, <2>2
  <2> QED BY <2>2, <2>3
<1> QED BY <1>1, <1>6, <1>8, <1>9 DEF students, rooms

\* A frame of enrollments made row by row.
LEMMA EnrolledFacts ==
    ASSUME NEW rows, IsFrame(rows), NEW f, f = [i \in DOMAIN rows |-> f[i]],
           NEW role,
           \A i \in DOMAIN rows : f[i].class \in Known /\ f[i].role = role,
           role = "student" => \A i \in DOMAIN rows :
                                  context.active # {} => f[i].user \in context.active
    PROVE  /\ IsFrame(f) /\ \A r \in ToSet(f) : Sound(r)
           /\ \A i \in DOMAIN rows : f[i] \in ToSet(f)
<1>1. IsFrame(f) /\ ToSet(f) = {f[i] : i \in DOMAIN rows}
  BY MappedFacts
<1> QED BY <1>1 DEF Sound

LEMMA HomeroomEnrollmentsFacts ==
    ASSUME CaseInv, HomeroomsInv
    PROVE  /\ IsFrame(HomeroomEnrollments)
           /\ \A r \in ToSet(HomeroomEnrollments) : Sound(r)
           /\ \A m \in ToSet(HomeroomMeetings) :
                 (context.active # {} => m.student \in context.active) =>
                    \E r \in ToSet(HomeroomEnrollments) :
                        IsEnrollment(r, m.class, m.student, "student")
           /\ \A m \in ToSet(HomeroomMeetings) :
                 \E h \in ToSet(context.artifacts.homerooms) :
                    /\ h.class = m.class
                    /\ ~IsBlank(h.teacher) =>
                          \E r \in ToSet(HomeroomEnrollments) :
                              IsEnrollment(r, m.class, h.teacher, "teacher")
<1> DEFINE students == FilterToActive(HomeroomMeetings)
           led == DropDuplicates(HomeroomMeetings, {"class"})
           A == [i \in DOMAIN students |->
                    Enrollment(students[i].class, students[i].student, "student",
                               students[i].school)]
           L == [i \in DOMAIN led |->
                    Enrollment(led[i].class, led[i].teacher, "teacher", led[i].school)]
<1>1. HomeroomEnrollments = A \o Identified(L)
  BY DEF HomeroomEnrollments
<1>2. /\ IsFrame(students)
      /\ ToSet(students) = {r \in ToSet(HomeroomMeetings) :
                               context.active # {} => r.student \in context.active}
  BY MeetingsFacts, FilteredFacts
<1>3. /\ IsFrame(led) /\ ToSet(led) \subseteq ToSet(HomeroomMeetings)
      /\ \A m \in ToSet(HomeroomMeetings) : \E k \in ToSet(led) : k.class = m.class
  BY MeetingsFacts, DropFacts
<1>4. \A m \in ToSet(HomeroomMeetings) : m.class \in Known
  BY MeetingsFacts
<1> HIDE DEF students, led
<1>5. /\ A = [i \in DOMAIN students |-> A[i]]
      /\ \A i \in DOMAIN students :
            IsEnrollment(A[i], students[i].class, students[i].student, "student")
  BY DEF Enrollment, IsEnrollment
<1>6. /\ L = [i \in DOMAIN led |-> L[i]]
      /\ \A i \in DOMAIN led : IsEnrollment(L[i], led[i].class, led[i].teacher, "teacher")
  BY DEF Enrollment, IsEnrollment
<1> HIDE DEF A, L
<1>7. /\ \A i \in DOMAIN students : students[i] \in ToSet(students)
      /\ \A r \in ToSet(students) : \E i \in DOMAIN students : r = students[i]
      /\ \A i \in DOMAIN led : led[i] \in ToSet(led)
      /\ \A k \in ToSet(led) : \E i \in DOMAIN led : k = led[i]
  BY <1>2, <1>3, FrameFacts
<1>8. /\ \A i \in DOMAIN students : A[i].class \in Known /\ A[i].role = "student"
      /\ \A i \in DOMAIN students :
            context.active # {} => A[i].user \in context.active
      /\ \A i \in DOMAIN led : L[i].class \in Known /\ L[i].role = "teacher"
  BY <1>2, <1>3, <1>4, <1>5, <1>6, <1>7 DEF IsEnrollment
<1>9. /\ IsFrame(A) /\ \A r \in ToSet(A) : Sound(r)
      /\ \A i \in DOMAIN students : A[i] \in ToSet(A)
  BY <1>2, <1>5, <1>8, EnrolledFacts
<1>10. /\ IsFrame(L) /\ \A r \in ToSet(L) : Sound(r)
       /\ \A i \in DOMAIN led : L[i] \in ToSet(L)
  BY <1>3, <1>6, <1>8, EnrolledFacts
<1>11. /\ IsFrame(HomeroomEnrollments)
       /\ ToSet(HomeroomEnrollments) =
             ToSet(A) \cup {r \in ToSet(L) : ~IsBlank(r.user)}
  BY <1>1, <1>9, <1>10, IdentifiedFacts, ConcatFacts
<1>12. ASSUME NEW m \in ToSet(HomeroomMeetings),
              context.active # {} => m.student \in context.active
       PROVE  \E r \in ToSet(A) : IsEnrollment(r, m.class, m.student, "student")
  <2>1. PICK i \in DOMAIN students : m = students[i]
    BY <1>2, <1>7, <1>12
  <2> QED BY <1>5, <1>9, <2>1
<1>13. ASSUME NEW m \in ToSet(HomeroomMeetings)
       PROVE  \E h \in ToSet(context.artifacts.homerooms) :
                 /\ h.class = m.class
                 /\ ~IsBlank(h.teacher) =>
                       \E r \in ToSet(HomeroomEnrollments) :
                           IsEnrollment(r, m.class, h.teacher, "teacher")
  <2>1. PICK k \in ToSet(led) : k.class = m.class
    BY <1>3
  <2>2. PICK i \in DOMAIN led : k = led[i]
    BY <1>7
  <2>3. PICK h \in ToSet(context.artifacts.homerooms) :
            h.class = k.class /\ h.teacher = k.teacher
    BY <1>3, MeetingsFacts
  <2>4. L[i] \in ToSet(L) /\ IsEnrollment(L[i], m.class, h.teacher, "teacher")
    BY <1>6, <1>10, <2>1, <2>2, <2>3
  <2>5. L[i].user = h.teacher
    BY <2>4 DEF IsEnrollment
  <2>6. ~IsBlank(h.teacher) => L[i] \in ToSet(HomeroomEnrollments)
    BY <1>11, <2>4, <2>5
  <2> QED BY <2>1, <2>3, <2>4, <2>6
<1> QED BY <1>9, <1>10, <1>11, <1>12, <1>13

LEMMA BlendedTeacherFacts ==
    ASSUME TimetableInv
    PROVE  /\ IsFrame(BlendedTeacherEnrollments)
           /\ \A r \in ToSet(BlendedTeacherEnrollments) : Sound(r)
           /\ \A b \in DOMAIN context.artifacts.teachers :
                 \A t \in ToSet(context.artifacts.teachers[b]) :
                    \E r \in ToSet(BlendedTeacherEnrollments) :
                        IsEnrollment(r, b, t, "teacher")
<1> DEFINE teachers == context.artifacts.teachers
           keys == RegisteredKeys(teachers)
           Own(k) == teachers[BlendedId(k)]
           Taught(k) == [j \in DOMAIN Own(k) |->
                            Enrollment(BlendedId(k), Own(k)[j], "teacher", k[1])]
           ss == [i \in DOMAIN keys |-> Taught(keys[i])]
<1>1. BlendedTeacherEnrollments = FlattenSeq(ss)
  BY DEF BlendedTeacherEnrollments
<1>2. /\ IsFrame(keys)
      /\ \A k \in ToSet(keys) : BlendedId(k) \in DOMAIN teachers
      /\ \A b \in DOMAIN teachers : \E k \in ToSet(keys) : b = BlendedId(k)
  BY RegisteredKeysFacts DEF TimetableInv
<1>3. \A b \in DOMAIN teachers : IsFrame(teachers[b]) /\ b \in Known
  BY DEF TimetableInv, BlendsHold
<1> HIDE DEF keys, teachers
<1>4. ASSUME NEW k \in ToSet(keys)
      PROVE  /\ IsFrame(Taught(k)) /\ \A r \in ToSet(Taught(k)) : Sound(r)
             /\ \A t \in ToSet(Own(k)) : \E r \in ToSet(Taught(k)) :
                   IsEnrollment(r, BlendedId(k), t, "teacher")
  <2>1. IsFrame(Own(k)) /\ BlendedId(k) \in Known
    BY <1>2, <1>3
  <2>2. Taught(k) = [j \in DOMAIN Own(k) |-> Taught(k)[j]]
    OBVIOUS
  <2>3. \A j \in DOMAIN Own(k) : Taught(k)[j].class \in Known /\ Taught(k)[j].role = "teacher"
    BY <2>1 DEF Enrollment
  <2>4. \A j \in DOMAIN Own(k) : IsEnrollment(Taught(k)[j], BlendedId(k), Own(k)[j], "teacher")
    BY DEF Enrollment, IsEnrollment
  <2>5. \A t \in ToSet(Own(k)) : \E j \in DOMAIN Own(k) : t = Own(k)[j]
    BY DEF ToSet
  <2> HIDE DEF Taught, Own
  <2>6. /\ IsFrame(Taught(k)) /\ \A r \in ToSet(Taught(k)) : Sound(r)
        /\ \A j \in DOMAIN Own(k) : Taught(k)[j] \in ToSet(Taught(k))
    BY <2>1, <2>2, <2>3, EnrolledFacts
  <2> QED BY <2>4, <2>5, <2>6
<1>5. ss = [i \in DOMAIN keys |-> ss[i]] /\ \A i \in DOMAIN keys : ss[i] = Taught(keys[i])
  OBVIOUS
<1>6. /\ \A i \in DOMAIN keys : keys[i] \in ToSet(keys)
      /\ \A k \in ToSet(keys) : \E i \in DOMAIN keys : k = keys[i]
  BY <1>2, FrameFacts
<1> HIDE DEF ss, Taught
<1>7. /\ IsFrame(FlattenSeq(ss))
      /\ ToSet(FlattenSeq(ss)) = UNION {ToSet(ss[i]) : i \in DOMAIN keys}
  BY <1>2, <1>4, <1>5, <1>6, JoinedFrames
<1>8. ASSUME NEW b \in DOMAIN teachers, NEW t \in ToSet(teachers[b])
      PROVE  \E r \in ToSet(FlattenSeq(ss)) : IsEnrollment(r, b, t, "teacher")
  <2>1. PICK k \in ToSet(keys) : b = BlendedId(k)
    BY <1>2
  <2>2. PICK r \in ToSet(Taught(k)) : IsEnrollment(r, b, t, "teacher")
    BY <1>4, <1>8, <2>1
  <2>3. PICK i \in DOMAIN keys : k = keys[i]
    BY <1>6
  <2>4. r \in ToSet(FlattenSeq(ss))
    BY <1>5, <1>7, <2>2, <2>3
  <2> QED BY <2>2, <2>4
<1> QED BY <1>1, <1>4, <1>5, <1>6, <1>7, <1>8 DEF teachers

LEMMA SubjectEnrollmentsFacts ==
    ASSUME CaseInv, TimetableInv
    PROVE  /\ IsFrame(SubjectEnrollments)
           /\ \A r \in ToSet(SubjectEnrollments) : Sound(r)
           /\ \A t \in ToSet(TimetableRows) :
                 LET class == ClassIdOf(t.section, context.artifacts.classMap)
                 IN  /\ (context.active # {} => t.student \in context.active) =>
                           \E r \in ToSet(SubjectEnrollments) :
                               IsEnrollment(r, class, t.student, "student")
                     /\ ~IsBlank(t.teacher)
                           /\ class \notin DOMAIN context.artifacts.teachers =>
                           \E r \in ToSet(SubjectEnrollments) :
                               IsEnrollment(r, class, t.teacher, "teacher")
           /\ \A b \in DOMAIN context.artifacts.teachers :
                 \A t \in ToSet(context.artifacts.teachers[b]) :
                    \E r \in ToSet(SubjectEnrollments) :
                        IsEnrollment(r, b, t, "teacher")
<1> DEFINE map == context.artifacts.classMap
           Id(t) == ClassIdOf(t.section, map)
           students == FilterToActive(TimetableRows)
           single == {r \in ToSet(TimetableRows) :
                         Id(r) \notin DOMAIN context.artifacts.teachers}
           taught == Among(TimetableRows, single)
           A == [i \in DOMAIN students |->
                    Enrollment(Id(students[i]), students[i].student, "student",
                               students[i].school)]
           T == [i \in DOMAIN taught |->
                    Enrollment(Id(taught[i]), taught[i].teacher, "teacher",
                               taught[i].school)]
           B == BlendedTeacherEnrollments
<1>1. SubjectEnrollments = IF TimetableRows = <<>> THEN <<>> ELSE A \o B \o Identified(T)
  BY DEF SubjectEnrollments
<1>2. IsFrame(TimetableRows) /\ \A t \in ToSet(TimetableRows) : Id(t) \in Known
  BY ExportFrames DEF TimetableInv
<1>3. /\ IsFrame(students)
      /\ ToSet(students) = {r \in ToSet(TimetableRows) :
                               context.active # {} => r.student \in context.active}
  BY <1>2, FilteredFacts
<1>4. IsFrame(taught) /\ ToSet(taught) = single
  <2>1. IsFrame(taught) /\ ToSet(taught) = ToSet(TimetableRows) \cap single
    <3> HIDE DEF single
    <3> QED BY <1>2, AmongFacts
  <2> QED BY <2>1
<1> HIDE DEF students, taught, Id
<1>5. /\ A = [i \in DOMAIN students |-> A[i]]
      /\ \A i \in DOMAIN students :
            IsEnrollment(A[i], Id(students[i]), students[i].student, "student")
  BY DEF Enrollment, IsEnrollment
<1>6. /\ T = [i \in DOMAIN taught |-> T[i]]
      /\ \A i \in DOMAIN taught :
            IsEnrollment(T[i], Id(taught[i]), taught[i].teacher, "teacher")
  BY DEF Enrollment, IsEnrollment
<1> HIDE DEF A, T, B
<1>7. /\ \A i \in DOMAIN students : students[i] \in ToSet(students)
      /\ \A r \in ToSet(students) : \E i \in DOMAIN students : r = students[i]
      /\ \A i \in DOMAIN taught : taught[i] \in ToSet(taught)
      /\ \A r \in ToSet(taught) : \E i \in DOMAIN taught : r = taught[i]
  BY <1>3, <1>4, FrameFacts
<1>8. /\ \A i \in DOMAIN students : A[i].class \in Known /\ A[i].role = "student"
      /\ \A i \in DOMAIN students :
            context.active # {} => A[i].user \in context.active
      /\ \A i \in DOMAIN taught : T[i].class \in Known /\ T[i].role = "teacher"
  BY <1>2, <1>3, <1>4, <1>5, <1>6, <1>7 DEF IsEnrollment
<1>9. /\ IsFrame(A) /\ \A r \in ToSet(A) : Sound(r)
      /\ \A i \in DOMAIN students : A[i] \in ToSet(A)
  BY <1>3, <1>5, <1>8, EnrolledFacts
<1>10. /\ IsFrame(T) /\ \A r \in ToSet(T) : Sound(r)
       /\ \A i \in DOMAIN taught : T[i] \in ToSet(T)
  BY <1>4, <1>6, <1>8, EnrolledFacts
<1>11. /\ IsFrame(B) /\ \A r \in ToSet(B) : Sound(r)
       /\ \A b \in DOMAIN context.artifacts.teachers :
             \A t \in ToSet(context.artifacts.teachers[b]) :
                \E r \in ToSet(B) : IsEnrollment(r, b, t, "teacher")
  BY BlendedTeacherFacts DEF B
<1>12. /\ IsFrame(A \o B \o Identified(T))
       /\ ToSet(A \o B \o Identified(T)) =
             ToSet(A) \cup ToSet(B) \cup {r \in ToSet(T) : ~IsBlank(r.user)}
  <2>1. IsFrame(Identified(T)) /\ ToSet(Identified(T)) = {r \in ToSet(T) : ~IsBlank(r.user)}
    BY <1>10, IdentifiedFacts
  <2>2. IsFrame(A \o B) /\ ToSet(A \o B) = ToSet(A) \cup ToSet(B)
    BY <1>9, <1>11, ConcatFacts
  <2> QED BY <2>1, <2>2, ConcatFacts
<1>13. /\ IsFrame(SubjectEnrollments)
       /\ \A r \in ToSet(SubjectEnrollments) : Sound(r)
  BY <1>1, <1>9, <1>10, <1>11, <1>12, NoRows
<1>14. ASSUME NEW t \in ToSet(TimetableRows)
       PROVE  /\ TimetableRows # <<>>
              /\ (context.active # {} => t.student \in context.active) =>
                    \E r \in ToSet(A) : IsEnrollment(r, Id(t), t.student, "student")
              /\ ~IsBlank(t.teacher) /\ t \in single =>
                    \E r \in ToSet(T) : ~IsBlank(r.user)
                                          /\ IsEnrollment(r, Id(t), t.teacher, "teacher")
  <2>1. TimetableRows # <<>>
    BY NoRows
  <2>2. ASSUME context.active # {} => t.student \in context.active
        PROVE  \E r \in ToSet(A) : IsEnrollment(r, Id(t), t.student, "student")
    <3>1. PICK i \in DOMAIN students : t = students[i]
      BY <1>3, <1>7, <2>2
    <3> QED BY <1>5, <1>9, <3>1
  <2>3. ASSUME ~IsBlank(t.teacher), t \in single
        PROVE  \E r \in ToSet(T) : ~IsBlank(r.user)
                                     /\ IsEnrollment(r, Id(t), t.teacher, "teacher")
    <3>1. PICK i \in DOMAIN taught : t = taught[i]
      BY <1>4, <1>7, <2>3
    <3>2. T[i] \in ToSet(T) /\ IsEnrollment(T[i], Id(t), t.teacher, "teacher")
      BY <1>6, <1>10, <3>1
    <3> QED BY <2>3, <3>2 DEF IsEnrollment
  <2> QED BY <2>1, <2>2, <2>3
<1>15. ASSUME NEW t \in ToSet(TimetableRows)
       PROVE  /\ (context.active # {} => t.student \in context.active) =>
                    \E r \in ToSet(SubjectEnrollments) :
                        IsEnrollment(r, Id(t), t.student, "student")
              /\ ~IsBlank(t.teacher) /\ Id(t) \notin DOMAIN context.artifacts.teachers =>
                    \E r \in ToSet(SubjectEnrollments) :
                        IsEnrollment(r, Id(t), t.teacher, "teacher")
  <2>1. ToSet(SubjectEnrollments) =
             ToSet(A) \cup ToSet(B) \cup {r \in ToSet(T) : ~IsBlank(r.user)}
    BY <1>1, <1>12, <1>14
  <2>2. t \in single <=> Id(t) \notin DOMAIN context.artifacts.teachers
    OBVIOUS
  <2> HIDE DEF single
  <2> QED BY <1>14, <2>1, <2>2
<1>16. ASSUME NEW b \in DOMAIN context.artifacts.teachers,
              NEW t \in ToSet(context.artifacts.teachers[b])
       PROVE  \E r \in ToSet(SubjectEnrollments) : IsEnrollment(r, b, t, "teacher")
  <2>1. TimetableRows # <<>>
    BY DEF TimetableInv
  <2>2. ToSet(B) \subseteq ToSet(SubjectEnrollments)
    BY <1>1, <1>12, <2>1
  <2> QED BY <1>11, <2>2
<1> QED BY <1>13, <1>15, <1>16 DEF Id

LEMMA CoteacherFacts ==
    ASSUME CaseInv, HomeroomsInv, TimetableInv
    PROVE  /\ IsFrame(CoteacherEnrollments)
           /\ \A r \in ToSet(CoteacherEnrollments) : Sound(r)
           /\ \A w \in ToSet(ClassInfo), h \in ToSet(context.artifacts.homerooms) :
                 /\ w.primary /\ ~IsBlank(w.teacher)
                 /\ h.school = w.school /\ h.homeroom = w.letter
                 => \E r \in ToSet(CoteacherEnrollments) :
                       IsEnrollment(r, h.class, w.teacher, "teacher")
<1> DEFINE map == context.artifacts.classMap
           info == context.artifacts.info
           primary == {r \in ToSet(info) : r.primary}
           rows == Among(info, primary)
           rooms == DropDuplicates(context.artifacts.homerooms, {"school", "homeroom"})
           Joins(r, class) == Enrollment(class, r.teacher, "teacher", r.school)
           Own(r) == RoomEntries(r.school, r.letter, rooms)
           Led(r) == [j \in DOMAIN Own(r) |-> Joins(r, Own(r)[j].class)]
           ss == [i \in DOMAIN rows |-> Led(rows[i])]
           blended == {r \in ToSet(rows) : r.section \in DOMAIN map}
           mapped == Among(rows, blended)
           bySection == [i \in DOMAIN mapped |-> Joins(mapped[i], map[mapped[i].section])]
<1>1. CoteacherEnrollments = Identified(FlattenSeq(ss) \o bySection)
  BY DEF CoteacherEnrollments
<1>2. IsFrame(info) /\ IsFrame(context.artifacts.homerooms)
      /\ \A h \in ToSet(context.artifacts.homerooms) : h.class \in Known
  BY ExportFrames DEF HomeroomsInv
<1>3. IsFrame(rows) /\ ToSet(rows) = ToSet(info) \cap primary
  <2> HIDE DEF primary, info
  <2> QED BY <1>2, AmongFacts
<1>4. /\ IsFrame(rooms) /\ \A h \in ToSet(rooms) : h.class \in Known
      /\ \A h \in ToSet(context.artifacts.homerooms) : \E k \in ToSet(rooms) :
            /\ k.school = h.school /\ k.homeroom = h.homeroom
            /\ k.class = h.class
  <2>1. /\ IsFrame(rooms) /\ ToSet(rooms) \subseteq ToSet(context.artifacts.homerooms)
        /\ \A h \in ToSet(context.artifacts.homerooms) : \E k \in ToSet(rooms) :
              k.school = h.school /\ k.homeroom = h.homeroom
    BY <1>2, DropFacts
  <2>2. \A h \in ToSet(context.artifacts.homerooms) :
            h.class = HomeroomId(h.school, h.homeroom)
    BY DEF HomeroomsInv
  <2> HIDE DEF rooms
  <2> QED BY <1>2, <2>1, <2>2
<1>5. \A s \in DOMAIN map : map[s] \in Known
  BY DEF TimetableInv, BlendsHold
<1> HIDE DEF map, rows, rooms
<1>6. IsFrame(mapped) /\ \A r \in ToSet(mapped) : r.section \in DOMAIN map
  <2>1. \A r \in blended : r.section \in DOMAIN map
    OBVIOUS
  <2> HIDE DEF blended
  <2> QED BY <1>3, <2>1, AmongFacts
<1> HIDE DEF mapped
<1>7. ASSUME NEW d
      PROVE  /\ IsFrame(Led(d)) /\ \A r \in ToSet(Led(d)) : Sound(r)
             /\ \A k \in ToSet(rooms) : k.school = d.school /\ k.homeroom = d.letter =>
                   \E r \in ToSet(Led(d)) : IsEnrollment(r, k.class, d.teacher, "teacher")
  <2>1. /\ IsFrame(Own(d)) /\ \A h \in ToSet(Own(d)) : h.class \in Known
        /\ \A k \in ToSet(rooms) : k.school = d.school /\ k.homeroom = d.letter =>
              k \in ToSet(Own(d))
    BY <1>4, RoomEntriesFacts
  <2>2. Led(d) = [j \in DOMAIN Own(d) |-> Led(d)[j]]
    OBVIOUS
  <2>3. /\ \A j \in DOMAIN Own(d) : Own(d)[j] \in ToSet(Own(d))
        /\ \A k \in ToSet(Own(d)) : \E j \in DOMAIN Own(d) : k = Own(d)[j]
    <3> HIDE DEF Own
    <3> QED BY <2>1, FrameFacts
  <2>4. \A j \in DOMAIN Own(d) : /\ Led(d)[j].class = Own(d)[j].class
                                 /\ Led(d)[j].role = "teacher"
                                 /\ Led(d)[j].user = d.teacher
    BY DEF Enrollment
  <2> HIDE DEF Led, Own
  <2>5. \A j \in DOMAIN Own(d) : Led(d)[j].class \in Known /\ Led(d)[j].role = "teacher"
    BY <2>1, <2>3, <2>4
  <2>6. /\ IsFrame(Led(d)) /\ \A r \in ToSet(Led(d)) : Sound(r)
        /\ \A j \in DOMAIN Own(d) : Led(d)[j] \in ToSet(Led(d))
    BY <2>1, <2>2, <2>5, EnrolledFacts
  <2> QED BY <2>1, <2>3, <2>4, <2>6 DEF IsEnrollment
<1>8. ss = [i \in DOMAIN rows |-> ss[i]] /\ \A i \in DOMAIN rows : ss[i] = Led(rows[i])
  OBVIOUS
<1>9. /\ bySection = [i \in DOMAIN mapped |-> bySection[i]]
      /\ \A i \in DOMAIN mapped : /\ bySection[i].class = map[mapped[i].section]
                                  /\ bySection[i].role = "teacher"
  BY DEF Enrollment
<1>10. \A i \in DOMAIN mapped : mapped[i] \in ToSet(mapped)
  BY <1>6, FrameFacts
<1> HIDE DEF ss, Led, bySection
<1>14. \A r \in ToSet(rows) : \E i \in DOMAIN rows : r = rows[i]
  BY <1>3, FrameFacts
<1>11. /\ IsFrame(FlattenSeq(ss)) /\ \A r \in ToSet(FlattenSeq(ss)) : Sound(r)
       /\ \A d \in ToSet(rows) : ToSet(Led(d)) \subseteq ToSet(FlattenSeq(ss))
  <2>1. /\ IsFrame(FlattenSeq(ss))
        /\ ToSet(FlattenSeq(ss)) = UNION {ToSet(ss[i]) : i \in DOMAIN rows}
    BY <1>3, <1>7, <1>8, JoinedFrames
  <2> QED BY <1>7, <1>8, <1>14, <2>1
<1>12. IsFrame(bySection) /\ \A r \in ToSet(bySection) : Sound(r)
  <2>1. \A i \in DOMAIN mapped : bySection[i].class \in Known /\ bySection[i].role = "teacher"
    BY <1>5, <1>6, <1>9, <1>10
  <2> QED BY <1>6, <1>9, <2>1, EnrolledFacts
<1>13. /\ IsFrame(FlattenSeq(ss) \o bySection)
       /\ \A r \in ToSet(FlattenSeq(ss) \o bySection) : Sound(r)
       /\ ToSet(FlattenSeq(ss)) \subseteq ToSet(FlattenSeq(ss) \o bySection)
  BY <1>11, <1>12, ConcatFacts
<1>15. ASSUME NEW w \in ToSet(ClassInfo), NEW h \in ToSet(context.artifacts.homerooms),
              w.primary, ~IsBlank(w.teacher), h.school = w.school, h.homeroom = w.letter
       PROVE  \E r \in ToSet(CoteacherEnrollments) :
                 IsEnrollment(r, h.class, w.teacher, "teacher")
  <2>1. w \in ToSet(rows)
    BY <1>3, <1>15 DEF HomeroomsInv
  <2>2. PICK k \in ToSet(rooms) : /\ k.school = w.school /\ k.homeroom = w.letter
                                  /\ k.class = h.class
    BY <1>4, <1>15
  <2>3. PICK r \in ToSet(Led(w)) : IsEnrollment(r, h.class, w.teacher, "teacher")
    BY <1>7, <2>2
  <2>4. r \in ToSet(FlattenSeq(ss) \o bySection) /\ ~IsBlank(r.user)
    BY <1>11, <1>13, <1>15, <2>1, <2>3 DEF IsEnrollment
  <2>5. r \in ToSet(CoteacherEnrollments)
    BY <1>1, <1>13, <2>4, IdentifiedFacts
  <2> QED BY <2>3, <2>5
<1> QED BY <1>1, <1>13, <1>15, IdentifiedFacts

\* Everything the three parts emit is sound, and whoever ships is in it.
LEMMA UnionFacts ==
    ASSUME CaseInv, PeopleInv, HomeroomsInv, TimetableInv
    PROVE  /\ IsFrame(EnrollmentUnion)
           /\ \A r \in ToSet(EnrollmentUnion) : Sound(r)
           /\ \A t \in ToSet(TimetableRows) :
                 LET class == ClassIdOf(t.section, context.artifacts.classMap)
                 IN  /\ t.student \in ShippedStudents =>
                           \E r \in ToSet(EnrollmentUnion) :
                               IsEnrollment(r, class, t.student, "student")
                     /\ t.teacher \in ShippedStaff /\ class.kind = "section" =>
                           \E r \in ToSet(EnrollmentUnion) :
                               IsEnrollment(r, class, t.teacher, "teacher")
           /\ \A d \in ToSet(HomeroomStudents) : d.student \in ShippedStudents =>
                 \E r \in ToSet(EnrollmentUnion) :
                     IsEnrollment(r, HomeroomId(d.school, d.homeroom), d.student, "student")
           /\ \A d \in ToSet(HomeroomStudents) :
                 d.student \in ShippedStudents /\ d.teacher \in ShippedStaff =>
                    LET class == HomeroomId(d.school, d.homeroom)
                    IN  \/ \E r \in ToSet(EnrollmentUnion) :
                              IsEnrollment(r, class, d.teacher, "teacher")
                        \/ RoomIsShared(class, d.teacher)
           /\ \A w \in ToSet(ClassInfo), class \in ShippedClasses :
                 w.teacher \in ShippedStaff /\ TaughtWith(w, class) =>
                    \E r \in ToSet(EnrollmentUnion) :
                        IsEnrollment(r, class, w.teacher, "teacher")
<1> DEFINE all == HomeroomEnrollments \o SubjectEnrollments \o CoteacherEnrollments
           Id(t) == ClassIdOf(t.section, context.artifacts.classMap)
           U == EnrollmentUnion
<1>1. /\ IsFrame(all)
      /\ ToSet(all) = ToSet(HomeroomEnrollments) \cup ToSet(SubjectEnrollments)
                          \cup ToSet(CoteacherEnrollments)
  <2>1. /\ IsFrame(HomeroomEnrollments \o SubjectEnrollments)
        /\ ToSet(HomeroomEnrollments \o SubjectEnrollments) =
              ToSet(HomeroomEnrollments) \cup ToSet(SubjectEnrollments)
    BY HomeroomEnrollmentsFacts, SubjectEnrollmentsFacts, ConcatFacts
  <2> QED BY <2>1, CoteacherFacts, ConcatFacts
<1>2. U = DropDuplicates(all, {"class", "user", "role"})
  BY DEF EnrollmentUnion
<1> HIDE DEF all, U
<1>3. \A r \in ToSet(all) : Sound(r)
  BY <1>1, HomeroomEnrollmentsFacts, SubjectEnrollmentsFacts, CoteacherFacts
<1>4. /\ IsFrame(U) /\ ToSet(U) \subseteq ToSet(all)
      /\ \A r \in ToSet(all) : \E k \in ToSet(U) :
            \A f \in {"class", "user", "role"} : k[f] = r[f]
  BY <1>1, <1>2, DropFacts
<1>5. ASSUME NEW class, NEW user, NEW role,
             \E r \in ToSet(all) : IsEnrollment(r, class, user, role)
      PROVE  \E r \in ToSet(U) : IsEnrollment(r, class, user, role)
  <2>1. PICK r \in ToSet(all) : IsEnrollment(r, class, user, role)
    BY <1>5
  <2>2. PICK k \in ToSet(U) : \A f \in {"class", "user", "role"} : k[f] = r[f]
    BY <1>4
  <2>3. k.class = r.class /\ k.user = r.user /\ k.role = r.role
    BY <2>2
  <2> QED BY <2>1, <2>3 DEF IsEnrollment
<1>6. ASSUME NEW t \in ToSet(TimetableRows)
      PROVE  /\ t.student \in ShippedStudents =>
                   \E r \in ToSet(all) : IsEnrollment(r, Id(t), t.student, "student")
             /\ t.teacher \in ShippedStaff /\ Id(t).kind = "section" =>
                   \E r \in ToSet(all) : IsEnrollment(r, Id(t), t.teacher, "teacher")
  <2>1. t.student \in ShippedStudents => t.student \in context.active
    BY DEF PeopleInv
  <2>2. t.teacher \in ShippedStaff => ~IsBlank(t.teacher)
    BY DEF PeopleInv
  <2>3. Id(t).kind = "section" => Id(t) \notin DOMAIN context.artifacts.teachers
    BY DEF TimetableInv, BlendsHold
  <2> QED BY <1>1, <2>1, <2>2, <2>3, SubjectEnrollmentsFacts
<1>7. ASSUME NEW d \in ToSet(HomeroomStudents), d.student \in ShippedStudents
      PROVE  \E r \in ToSet(all) :
                 IsEnrollment(r, HomeroomId(d.school, d.homeroom), d.student, "student")
  <2>1. PICK h \in ToSet(context.artifacts.homerooms) :
            h.school = d.school /\ h.homeroom = d.homeroom
    BY <1>7 DEF HomeroomsInv
  <2>2. h.class = HomeroomId(d.school, d.homeroom)
    BY <2>1 DEF HomeroomsInv
  <2>3. PICK m \in ToSet(HomeroomMeetings) : m.student = d.student /\ m.class = h.class
    BY <2>1, MeetingsFacts
  <2>4. context.active # {} => m.student \in context.active
    BY <1>7, <2>3 DEF PeopleInv
  <2> QED BY <1>1, <2>2, <2>3, <2>4, HomeroomEnrollmentsFacts
<1>8. ASSUME NEW d \in ToSet(HomeroomStudents), d.student \in ShippedStudents,
             d.teacher \in ShippedStaff
      PROVE  \/ \E r \in ToSet(all) :
                   IsEnrollment(r, HomeroomId(d.school, d.homeroom), d.teacher, "teacher")
             \/ RoomIsShared(HomeroomId(d.school, d.homeroom), d.teacher)
  <2> DEFINE rooms == context.artifacts.homerooms
             class == HomeroomId(d.school, d.homeroom)
  <2>1. PICK g \in ToSet(rooms) : /\ g.school = d.school /\ g.homeroom = d.homeroom
                                  /\ g.teacher = d.teacher
    BY <1>8 DEF HomeroomsInv
  <2>2. g.class = class
    BY <2>1 DEF HomeroomsInv
  <2>3. PICK m \in ToSet(HomeroomMeetings) : m.class = class
    BY <2>1, <2>2, MeetingsFacts
  <2>4. PICK h \in ToSet(rooms) :
            /\ h.class = class
            /\ ~IsBlank(h.teacher) =>
                  \E r \in ToSet(HomeroomEnrollments) :
                      IsEnrollment(r, class, h.teacher, "teacher")
    BY <2>3, HomeroomEnrollmentsFacts
  <2>5. ~IsBlank(d.teacher)
    BY <1>8 DEF PeopleInv
  <2>6. CASE h.teacher = d.teacher
    BY <1>1, <2>4, <2>5, <2>6
  <2>7. CASE h.teacher # d.teacher
    BY <2>1, <2>2, <2>4, <2>7 DEF HomeroomsInv, RoomIsShared
  <2> QED BY <2>6, <2>7
<1>9. ASSUME NEW w \in ToSet(ClassInfo), NEW class \in ShippedClasses,
             w.teacher \in ShippedStaff, TaughtWith(w, class)
      PROVE  \E r \in ToSet(all) : IsEnrollment(r, class, w.teacher, "teacher")
  <2>1. ~IsBlank(w.teacher)
    BY <1>9 DEF PeopleInv
  <2>2. CASE /\ class.kind = "blended"
             /\ w.section \in SessionSections(Working(ClassInfo), class.of)
    <3>1. class \in DOMAIN context.artifacts.teachers
      BY <2>2 DEF TimetableInv
    <3>2. w \in ToSet(Working(ClassInfo))
      BY <2>1, ExportFrames, WorkingFacts
    <3>3. w.teacher \in ToSet(context.artifacts.teachers[class])
      BY <2>2, <3>1, <3>2 DEF TimetableInv
    <3> QED BY <1>1, <3>1, <3>3, SubjectEnrollmentsFacts
  <2>3. CASE w.primary /\ class = HomeroomId(w.school, w.letter)
    <3>1. class.kind = "homeroom"
      BY <2>3 DEF HomeroomId
    <3>2. PICK h \in ToSet(context.artifacts.homerooms) : h.class = class
      BY <3>1 DEF HomeroomsInv
    <3>3. HomeroomId(h.school, h.homeroom) = HomeroomId(w.school, w.letter)
      BY <2>3, <3>2 DEF HomeroomsInv
    <3>4. h.school = w.school /\ h.homeroom = w.letter
      <4>1. <<h.school, h.homeroom, "">> = <<w.school, w.letter, "">>
        BY <3>3 DEF HomeroomId
      <4> QED BY <4>1
    <3> QED BY <1>1, <2>1, <2>3, <3>2, <3>4, CoteacherFacts
  <2> QED BY <1>9, <2>2, <2>3 DEF TaughtWith
<1> QED BY <1>3, <1>4, <1>5, <1>6, <1>7, <1>8, <1>9 DEF U

LEMMA EnrollmentsStep == ASSUME RosterInv, BuildEnrollments PROVE RosterInv'
<1> DEFINE U == EnrollmentUnion
           sound == {r \in ToSet(U) : NotAnOrphan(r)}
           rows == Among(U, sound)
           whole == {r \in ToSet(rows) : EnrollmentIsWhole(r)}
           kept == Among(rows, whole)
           published == [context EXCEPT
                             !.notes = @ \cup UnfilteredNote("Enrollments", HomeroomMeetings)
                                         \cup UnfilteredNote("Enrollments", TimetableRows)
                                         \cup LeftOutNote("Enrollments", rows, kept)]
<1> CaseInv /\ OutputInv /\ PeopleInv
  BY DEF RosterInv, TurnsInv
<1>1. CASE Turn("Enrollments") /\ Raised("Enrollments", "transform_error")
  <2>1. /\ UNCHANGED <<config, extract, context, output>>
        /\ \/ position' = position + 1 /\ loop' = loop
           \/ position' = position /\ loop' = "stopped"
    BY <1>1 DEF Raised
  <2> QED BY <1>1, <2>1, NothingAdded, KeepsAll DEF RosterInv
<1>2. CASE /\ Turn("Enrollments") /\ context.artifacts.published
           /\ Transformed("Enrollments", kept, published)
  <2>1. HomeroomsInv /\ TimetableInv /\ ShippedClasses \cap context.leftOutClasses = {}
    BY <1>2 DEF RosterInv, ClassesInv
  <2>2. /\ IsFrame(U) /\ \A r \in ToSet(U) : Sound(r)
        /\ \A t \in ToSet(TimetableRows) :
              LET class == ClassIdOf(t.section, context.artifacts.classMap)
              IN  /\ t.student \in ShippedStudents =>
                        \E r \in ToSet(U) : IsEnrollment(r, class, t.student, "student")
                  /\ t.teacher \in ShippedStaff /\ class.kind = "section" =>
                        \E r \in ToSet(U) : IsEnrollment(r, class, t.teacher, "teacher")
        /\ \A d \in ToSet(HomeroomStudents) : d.student \in ShippedStudents =>
              \E r \in ToSet(U) :
                  IsEnrollment(r, HomeroomId(d.school, d.homeroom), d.student, "student")
        /\ \A d \in ToSet(HomeroomStudents) :
              d.student \in ShippedStudents /\ d.teacher \in ShippedStaff =>
                 LET class == HomeroomId(d.school, d.homeroom)
                 IN  \/ \E r \in ToSet(U) : IsEnrollment(r, class, d.teacher, "teacher")
                     \/ RoomIsShared(class, d.teacher)
        /\ \A w \in ToSet(ClassInfo), class \in ShippedClasses :
              w.teacher \in ShippedStaff /\ TaughtWith(w, class) =>
                 \E r \in ToSet(U) : IsEnrollment(r, class, w.teacher, "teacher")
    BY <2>1, UnionFacts
  <2> HIDE DEF U
  <2>3. IsFrame(rows) /\ ToSet(rows) = sound
    <3>1. IsFrame(rows) /\ ToSet(rows) = ToSet(U) \cap sound
      <4> HIDE DEF sound
      <4> QED BY <2>2, AmongFacts
    <3> QED BY <3>1
  <2> HIDE DEF rows
  <2>4. IsFrame(kept) /\ ToSet(kept) \subseteq sound
    <3> HIDE DEF whole, sound
    <3> QED BY <2>3, AmongFacts
  <2>5. /\ DOMAIN published = ContextFields
        /\ published.active = context.active
        /\ published.leftOutStaff = context.leftOutStaff
        /\ published.leftOutClasses = context.leftOutClasses
        /\ published.artifacts = context.artifacts
        /\ published.dataErrors = context.dataErrors
        /\ context.notes \subseteq published.notes
        /\ rows # kept => <<"Enrollments", "excluded_required_value">> \in published.notes
    BY DEF OutputInv, ContextFields, LeftOutNote, NoteIf
  <2> HIDE DEF kept, published
  <2>6. /\ TurnsInv' /\ context' = published
        /\ Rows("Enrollments")' = ToSet(kept)
        /\ \A x : x # "Enrollments" => /\ x \in DOMAIN output' <=> x \in DOMAIN output
                                       /\ Rows(x)' = Rows(x)
    BY <1>2, <2>4, <2>5, TransformedFacts DEF RosterInv
  <2>7. PeopleInv'
    BY <2>5, <2>6, KeepsPeople DEF RosterInv
  <2>8. StudentFilesInv'
    BY <2>6, KeepsStudentFiles DEF RosterInv
  <2>9. ClassesInv'
    BY <1>2, <2>5, <2>6, TransformedAdvances, KeepsClasses DEF RosterInv
  <2>10. /\ UNCHANGED <<config, extract>>
         /\ ShippedStudents' = ShippedStudents /\ ShippedClasses' = ShippedClasses
         /\ ShippedStaff' = ShippedStaff
    BY <1>2, <2>6, TransformedAdvances DEF ShippedStudents, ShippedClasses, ShippedStaff, RosterInv
  <2>11. Resolved'
    <3>1. ASSUME NEW r \in ToSet(kept)
          PROVE  /\ r.class \in ShippedClasses
                 /\ r.role = "student" /\ "Students" \in DOMAIN output =>
                       r.user \in ShippedStudents
                 /\ r.role = "teacher" => r.user \notin context.leftOutStaff
      <4>1. Sound(r) /\ NotAnOrphan(r)
        BY <2>2, <2>4
      <4>2. "Students" \in DOMAIN output =>
                context.active # {} /\ context.active = ShippedStudents
        BY ActiveShips
      <4> QED BY <4>1, <4>2 DEF Sound, NotAnOrphan, Known
    <3> QED BY <2>5, <2>6, <2>10, <3>1 DEF Resolved
  <2> DEFINE Excused == <<"Enrollments", "excluded_required_value">> \in published.notes
             In(class, user, role) == \E r \in ToSet(kept) : IsEnrollment(r, class, user, role)
  <2>12. ASSUME NEW class \in ShippedClasses, NEW user, NEW role,
                role = "teacher" => user \notin context.leftOutStaff,
                \E r \in ToSet(U) : IsEnrollment(r, class, user, role)
         PROVE  In(class, user, role) \/ Excused
    <3>1. PICK r \in ToSet(U) : IsEnrollment(r, class, user, role)
      BY <2>12
    <3>2. r \in sound
      BY <2>1, <2>12, <3>1 DEF NotAnOrphan, IsEnrollment
    <3> QED BY <2>3, <2>5, <3>1, <3>2
  <2>13. \A s \in ShippedStaff : s \notin context.leftOutStaff
    BY DEF PeopleInv
  <2> HIDE DEF Excused, In
  <2>14. ASSUME NEW t \in ToSet(TimetableRows),
                ClassIdOf(t.section, context.artifacts.classMap) \in ShippedClasses
         PROVE  LET class == ClassIdOf(t.section, context.artifacts.classMap)
                IN  /\ t.student \in ShippedStudents =>
                          In(class, t.student, "student") \/ Excused
                    /\ t.teacher \in ShippedStaff /\ class.kind = "section" =>
                          In(class, t.teacher, "teacher") \/ Excused
    <3> DEFINE class == ClassIdOf(t.section, context.artifacts.classMap)
    <3>1. /\ t.student \in ShippedStudents =>
                \E r \in ToSet(U) : IsEnrollment(r, class, t.student, "student")
          /\ t.teacher \in ShippedStaff /\ class.kind = "section" =>
                \E r \in ToSet(U) : IsEnrollment(r, class, t.teacher, "teacher")
          /\ class \in ShippedClasses
      BY <2>2, <2>14
    <3> HIDE DEF class
    <3>2. t.student \in ShippedStudents => In(class, t.student, "student") \/ Excused
      BY <2>12, <3>1
    <3>3. t.teacher \in ShippedStaff /\ class.kind = "section" =>
              In(class, t.teacher, "teacher") \/ Excused
      BY <2>12, <2>13, <3>1
    <3> QED BY <3>2, <3>3 DEF class
  <2>15. ASSUME NEW d \in ToSet(HomeroomStudents), d.student \in ShippedStudents,
                HomeroomId(d.school, d.homeroom) \in ShippedClasses
         PROVE  LET class == HomeroomId(d.school, d.homeroom)
                IN  /\ In(class, d.student, "student") \/ Excused
                    /\ d.teacher \in ShippedStaff =>
                          \/ In(class, d.teacher, "teacher") \/ Excused
                          \/ RoomIsShared(class, d.teacher)
    BY <2>2, <2>12, <2>13, <2>15
  <2>18. ASSUME NEW w \in ToSet(ClassInfo), NEW class \in ShippedClasses,
                w.teacher \in ShippedStaff, TaughtWith(w, class)
         PROVE  In(class, w.teacher, "teacher") \/ Excused
    BY <2>2, <2>12, <2>13, <2>18
  <2>16. AllPlaced'
    <3>1. Excused => Told({"Enrollments"})'
      BY <2>6 DEF Told, Excused
    <3>2. \A class, user, role : In(class, user, role) =>
              \E r \in Rows("Enrollments")' :
                  r.class = class /\ r.user = user /\ r.role = role
      BY <2>6 DEF In, IsEnrollment
    <3>3. /\ context'.artifacts = context.artifacts
          /\ context'.dataErrors = context.dataErrors
      BY <2>5, <2>6
    <3>4. /\ \A class, user, role :
                In(class, user, role) \/ Excused => Placed(class, user, role)'
          /\ \A class, teacher : RoomIsShared(class, teacher) => RoomIsShared(class, teacher)'
          /\ \A w, class : TaughtWith(w, class)' = TaughtWith(w, class)
      BY <2>10, <3>1, <3>2, <3>3, SameExports DEF Placed, IsPlaced, RoomIsShared, TaughtWith
    <3> QED BY <2>10, <2>14, <2>15, <2>18, <3>3, <3>4, SameExports DEF AllPlaced, ClassIdOf
  <2>17. EnrollmentsInv'
    BY <1>2, <2>5, <2>6, <2>11, <2>16 DEF EnrollmentsInv
  <2> QED BY <2>6, <2>7, <2>8, <2>9, <2>17 DEF RosterInv
<1> QED BY <1>1, <1>2 DEF BuildEnrollments, Transforms

-----------------------------------------------------------------------------
(* The lookup of the first pass over the course history.                   *)

Course(h) == <<h.student, HistoryCode(h)>>

\* The lookup after i rows, and that its recursion has a solution.
Looked(read, g, i) == IF i = 0 THEN <<>> ELSE UpdateSchLookup(g[i - 1], read[i])

LEMMA LookedExists ==
    ASSUME NEW read, NEW n \in Nat
    PROVE  \E g : g = [i \in 0 .. n |-> Looked(read, g, i)]
<1> DEFINE Good(k) == \E g : g = [i \in 0 .. k |-> Looked(read, g, i)]
           T == {k \in Nat : ~Good(k)}
<1> SUFFICES ASSUME T # {} PROVE FALSE
  OBVIOUS
<1>1. PICK m \in T : \A k \in T : m <= k
  <2>1. T \in SUBSET Nat
    OBVIOUS
  <2> HIDE DEF T
  <2> QED BY <2>1, Least
<1>2. m # 0
  <2> DEFINE z == [i \in 0 .. 0 |-> <<>>]
  <2>1. \A i \in 0 .. 0 : z[i] = Looked(read, z, i)
    BY DEF Looked
  <2>2. z = [i \in 0 .. 0 |-> Looked(read, z, i)]
    BY <2>1
  <2>3. Good(0)
    BY <2>2
  <2> QED BY <2>3
<1>3. m \in Nat \ {0} /\ m - 1 \in Nat
  BY <1>2
<1>4. m - 1 \notin T
  <2> HIDE DEF T
  <2> QED BY <1>1, <1>3
<1>5. PICK g : g = [i \in 0 .. m - 1 |-> Looked(read, g, i)]
  BY <1>3, <1>4
<1> DEFINE h == [i \in 0 .. m |-> IF i = m THEN Looked(read, g, m) ELSE g[i]]
<1> HIDE DEF T, Good
<1>6. \A i \in 0 .. m : h[i] = Looked(read, h, i)
  <2>1. ASSUME NEW i \in 0 .. m - 1 PROVE h[i] = g[i] /\ g[i] = Looked(read, g, i)
    <3>1. i \in 0 .. m /\ i # m
      BY <1>3
    <3>2. g[i] = Looked(read, g, i)
      BY <1>5
    <3> QED BY <3>1, <3>2
  <2>2. h[m] = Looked(read, g, m) /\ h[m - 1] = g[m - 1]
    BY <1>3, <1>5
  <2>3. h[m] = Looked(read, h, m)
    BY <1>3, <2>2 DEF Looked
  <2>4. ASSUME NEW i \in 0 .. m - 1 PROVE Looked(read, g, i) = Looked(read, h, i)
    BY <1>3, <2>1 DEF Looked
  <2> HIDE DEF h
  <2> QED BY <2>1, <2>3, <2>4, <1>3
<1>7. h = [i \in 0 .. m |-> Looked(read, h, i)]
  BY <1>6
<1>8. Good(m)
  BY <1>7 DEF Good
<1> QED BY <1>1, <1>8 DEF T

\* The summary of a course's attempts says what the attempts themselves say.
Says(meta, attempts) ==
    /\ meta.hasPassed <=> \E h \in attempts : IsPass(h)
    /\ meta.isInProgress <=> \E h \in attempts : ~h.completed
    /\ meta.hasNullStart <=> \E h \in attempts : h.start = NoDate
    /\ meta.latestStart \in Nat
    /\ \A h \in attempts : h.start <= meta.latestStart
    /\ \E h \in attempts : h.start = meta.latestStart

LEMMA SaysOne == ASSUME NEW h, h.start \in Nat PROVE Says(Attempt(h), {h})
<1>1. /\ Attempt(h).hasPassed <=> IsPass(h)
      /\ Attempt(h).isInProgress <=> ~h.completed
      /\ Attempt(h).hasNullStart <=> h.start = NoDate
      /\ Attempt(h).latestStart = h.start
  BY DEF Attempt
<1> QED BY <1>1 DEF Says

LEMMA SaysMore ==
    ASSUME NEW meta, NEW attempts, \A a \in attempts : a.start \in Nat,
           Says(meta, attempts), NEW h, h.start \in Nat
    PROVE  Says(Merged(meta, Attempt(h)), attempts \cup {h})
<1> DEFINE more == Merged(meta, Attempt(h))
<1>1. /\ Attempt(h).hasPassed <=> IsPass(h)
      /\ Attempt(h).isInProgress <=> ~h.completed
      /\ Attempt(h).hasNullStart <=> h.start = NoDate
      /\ Attempt(h).latestStart = h.start
  BY DEF Attempt
<1>2. /\ more.hasPassed <=> meta.hasPassed \/ Attempt(h).hasPassed
      /\ more.isInProgress <=> meta.isInProgress \/ Attempt(h).isInProgress
      /\ more.hasNullStart <=> meta.hasNullStart \/ Attempt(h).hasNullStart
      /\ more.latestStart = IF Attempt(h).latestStart > meta.latestStart
                            THEN Attempt(h).latestStart ELSE meta.latestStart
  BY DEF Merged
<1> HIDE DEF more
<1>3. /\ more.hasPassed <=> \E a \in attempts \cup {h} : IsPass(a)
      /\ more.isInProgress <=> \E a \in attempts \cup {h} : ~a.completed
      /\ more.hasNullStart <=> \E a \in attempts \cup {h} : a.start = NoDate
  BY <1>1, <1>2 DEF Says
<1>4. /\ more.latestStart \in Nat
      /\ \A a \in attempts \cup {h} : a.start <= more.latestStart
      /\ \E a \in attempts \cup {h} : a.start = more.latestStart
  BY <1>1, <1>2 DEF Says
<1> QED BY <1>3, <1>4 DEF Says, more

LEMMA LookupFacts ==
    ASSUME NEW history, IsFrame(history), \A h \in ToSet(history) : h.start \in Nat
    PROVE  LET lookup == SchLookup(history)
               Of(k) == {h \in ToSet(history) : HistoryIsRead(h) /\ Course(h) = k}
           IN  \A k : /\ k \in DOMAIN lookup <=> Of(k) # {}
                      /\ k \in DOMAIN lookup => Says(lookup[k], Of(k))
<1> DEFINE read == ReadHistory(history)
           n == Len(read)
           G == CHOOSE g : g = [i \in 0 .. n |-> Looked(read, g, i)]
           Upto(m, k) == {read[i] : i \in {j \in 1 .. m : Course(read[j]) = k}}
           Holds(m) == \A k : /\ k \in DOMAIN G[m] <=> Upto(m, k) # {}
                              /\ k \in DOMAIN G[m] => Says(G[m][k], Upto(m, k))
           T == {m \in 0 .. n : ~Holds(m)}
           wanted == {h \in ToSet(history) : HistoryIsRead(h)}
<1>1. IsFrame(read) /\ ToSet(read) = wanted
  <2>1. read = Among(history, wanted)
    BY DEF ReadHistory
  <2>2. wanted \subseteq ToSet(history)
    OBVIOUS
  <2> HIDE DEF wanted, read
  <2> QED BY <2>1, <2>2, AmongFacts
<1>2. SchLookup(history) = G[n]
  BY DEF SchLookup, Looked
<1> HIDE DEF read
<1>3. /\ n \in Nat /\ DOMAIN read = 1 .. n
      /\ \A i \in 1 .. n : read[i] \in ToSet(read) /\ read[i].start \in Nat
      /\ \A h \in ToSet(read) : \E i \in 1 .. n : h = read[i]
  BY <1>1, FrameFacts
<1>4. G = [i \in 0 .. n |-> Looked(read, G, i)]
  <2>1. \E g : g = [i \in 0 .. n |-> Looked(read, g, i)]
    BY <1>3, LookedExists
  <2> QED BY <2>1
<1> HIDE DEF G, n
<1>5. ASSUME T # {} PROVE FALSE
  <2>1. PICK m \in T : \A k \in T : m <= k
    <3>1. T \in SUBSET Nat
      BY <1>3
    <3> HIDE DEF T
    <3> QED BY <1>5, <3>1, Least
  <2>2. m \in 0 .. n /\ G[m] = Looked(read, G, m) /\ ~Holds(m)
    BY <1>4
  <2>3. CASE m = 0
    <3>1. G[m] = <<>> /\ DOMAIN G[m] = {}
      BY <2>2, <2>3, NoRows DEF Looked
    <3>2. \A k : Upto(m, k) = {}
      BY <2>3
    <3> QED BY <2>2, <3>1, <3>2
  <2>4. CASE m # 0
    <3> DEFINE h == read[m]
               before == G[m - 1]
    <3>1. /\ m - 1 \in 0 .. n /\ ~(m <= m - 1) /\ m \in 1 .. n
          /\ 1 .. m = (1 .. m - 1) \cup {m}
          /\ G[m] = UpdateSchLookup(before, h) /\ h.start \in Nat
      BY <1>3, <2>2, <2>4 DEF Looked
    <3>2. Holds(m - 1)
      BY <2>1, <3>1
    <3>3. /\ DOMAIN G[m] = DOMAIN before \cup {Course(h)}
          /\ \A k \in DOMAIN G[m] : G[m][k] =
                IF k # Course(h) THEN before[k]
                ELSE IF Course(h) \in DOMAIN before THEN Merged(before[k], Attempt(h))
                ELSE Attempt(h)
      BY <3>1 DEF UpdateSchLookup, Course
    <3>4. ASSUME NEW k
          PROVE  /\ Upto(m, k) = Upto(m - 1, k) \cup (IF Course(h) = k THEN {h} ELSE {})
                 /\ \A a \in Upto(m - 1, k) : a.start \in Nat
      BY <1>3, <3>1
    <3> HIDE DEF Upto, T, h, before
    <3>5. ASSUME NEW k
          PROVE  /\ k \in DOMAIN G[m] <=> Upto(m, k) # {}
                 /\ k \in DOMAIN G[m] => Says(G[m][k], Upto(m, k))
      <4>1. /\ k \in DOMAIN before <=> Upto(m - 1, k) # {}
            /\ k \in DOMAIN before => Says(before[k], Upto(m - 1, k))
        BY <3>2 DEF before
      <4>2. CASE k # Course(h)
        BY <3>3, <3>4, <4>1, <4>2
      <4>3. CASE k = Course(h) /\ k \notin DOMAIN before
        <5>1. Upto(m, k) = {h} /\ k \in DOMAIN G[m] /\ G[m][k] = Attempt(h)
          BY <3>3, <3>4, <4>1, <4>3
        <5> QED BY <3>1, <5>1, SaysOne DEF h
      <4>4. CASE k = Course(h) /\ k \in DOMAIN before
        <5>1. /\ Upto(m, k) = Upto(m - 1, k) \cup {h}
              /\ k \in DOMAIN G[m] /\ G[m][k] = Merged(before[k], Attempt(h))
          BY <3>3, <3>4, <4>4
        <5>2. Says(Merged(before[k], Attempt(h)), Upto(m - 1, k) \cup {h})
          BY <3>1, <3>4, <4>1, <4>4, SaysMore
        <5> QED BY <5>1, <5>2
      <4> QED BY <4>2, <4>3, <4>4
    <3> QED BY <2>2, <3>5
  <2> QED BY <2>3, <2>4
<1>6. Holds(n)
  <2>1. n \in 0 .. n
    BY <1>3
  <2> HIDE DEF Holds
  <2> QED BY <1>5, <2>1
<1>7. \A k : Upto(n, k) = {h \in ToSet(history) : HistoryIsRead(h) /\ Course(h) = k}
  BY <1>1, <1>3
<1> HIDE DEF Upto
<1> QED BY <1>2, <1>6, <1>7

\* A selection is shown exactly when the whole of the history allows it.
LEMMA ShownFacts ==
    ASSUME CaseInv, NEW s \in ToSet(extract.selection)
    PROVE  ShouldIncludeSelection(SchLookup(extract.history), s.student,
                                  Cleaned[s.code], s.start) <=> MayBePlanned(s)
<1> DEFINE lookup == SchLookup(extract.history)
           key == <<s.student, Cleaned[s.code]>>
           Of(k) == {h \in ToSet(extract.history) : HistoryIsRead(h) /\ Course(h) = k}
           shown == ShouldIncludeSelection(lookup, s.student, Cleaned[s.code], s.start)
<1>1. /\ IsFrame(extract.history) /\ s.start \in Nat
      /\ \A h \in ToSet(extract.history) : h.start \in Nat
  BY CaseFacts
<1>2. /\ key \in DOMAIN lookup <=> Of(key) # {}
      /\ key \in DOMAIN lookup => Says(lookup[key], Of(key))
  BY <1>1, LookupFacts
<1>3. AttemptsAt(s) = Of(key)
  BY DEF AttemptsAt, Course
<1>4. \A h \in Of(key) : h.start \in Nat
  BY <1>1
<1>5. shown <=> (key \in DOMAIN lookup =>
                    /\ ~lookup[key].hasPassed /\ ~lookup[key].isInProgress
                    /\ \/ lookup[key].hasNullStart
                       \/ s.start = NoDate
                       \/ s.start > lookup[key].latestStart)
  BY DEF ShouldIncludeSelection
<1>6. MayBePlanned(s) <=>
          /\ \A h \in Of(key) : ~IsPass(h) /\ h.completed
          /\ \/ s.start = NoDate
             \/ \E h \in Of(key) : h.start = NoDate
             \/ \A h \in Of(key) : s.start > h.start
  BY <1>3 DEF MayBePlanned
<1> HIDE DEF lookup, key, Of, shown
<1>7. ASSUME key \notin DOMAIN lookup PROVE shown <=> MayBePlanned(s)
  BY <1>2, <1>5, <1>6, <1>7
<1>8. ASSUME key \in DOMAIN lookup PROVE shown <=> MayBePlanned(s)
  <2> DEFINE meta == lookup[key]
  <2>1. Says(meta, Of(key))
    BY <1>2, <1>8
  <2> HIDE DEF meta
  <2>2. (\A h \in Of(key) : ~IsPass(h) /\ h.completed) <=>
            ~meta.hasPassed /\ ~meta.isInProgress
    BY <2>1 DEF Says
  <2>3. (\E h \in Of(key) : h.start = NoDate) <=> meta.hasNullStart
    BY <2>1 DEF Says
  <2>4. (\A h \in Of(key) : s.start > h.start) <=> s.start > meta.latestStart
    BY <1>1, <1>4, <2>1 DEF Says
  <2> QED BY <1>5, <1>6, <1>8, <2>2, <2>3, <2>4 DEF meta
<1> QED BY <1>7, <1>8 DEF shown, lookup

\* The second pass: what is delivered of the selection.
LEMMA PlannedFacts ==
    ASSUME CaseInv
    PROVE  LET rows == StudentCoursesRows(extract.history, extract.selection)
           IN  /\ IsFrame(rows)
               /\ {r \in ToSet(rows) : r.from = "selection"} =
                     {SelectionRow(s) : s \in
                         {q \in ToSet(extract.selection) :
                             SelectionIsRead(q) /\ MayBePlanned(q)}}
<1> DEFINE lookup == SchLookup(extract.history)
           read == ReadHistory(extract.history)
           wanted == {h \in ToSet(extract.history) : HistoryIsRead(h)}
           Shown(s) == /\ SelectionIsRead(s)
                       /\ ShouldIncludeSelection(lookup, s.student,
                                                 Cleaned[s.code], s.start)
           chosen == {s \in ToSet(extract.selection) : Shown(s)}
           shown == Among(extract.selection, chosen)
           A == [i \in DOMAIN read |-> HistoryRow(read[i])]
           B == [i \in DOMAIN shown |-> SelectionRow(shown[i])]
           rows == StudentCoursesRows(extract.history, extract.selection)
<1>1. rows = A \o B
  BY DEF StudentCoursesRows
<1>2. IsFrame(extract.history) /\ IsFrame(extract.selection)
  BY CaseFacts
<1>3. IsFrame(read)
  <2> HIDE DEF wanted
  <2> QED BY <1>2, AmongFacts DEF ReadHistory
<1>4. chosen = {q \in ToSet(extract.selection) : SelectionIsRead(q) /\ MayBePlanned(q)}
  BY ShownFacts
<1> HIDE DEF chosen
<1>5. IsFrame(shown) /\ ToSet(shown) = ToSet(extract.selection) \cap chosen
  BY <1>2, AmongFacts
<1> HIDE DEF read, shown, rows
<1>6. /\ A = [i \in DOMAIN read |-> A[i]] /\ B = [i \in DOMAIN shown |-> B[i]]
      /\ \A i \in DOMAIN read : A[i].from = "history"
      /\ \A i \in DOMAIN shown : B[i] = SelectionRow(shown[i])
  BY DEF HistoryRow
<1> HIDE DEF A, B
<1>7. /\ IsFrame(A) /\ ToSet(A) = {A[i] : i \in DOMAIN read}
      /\ IsFrame(B) /\ ToSet(B) = {B[i] : i \in DOMAIN shown}
  BY <1>3, <1>5, <1>6, MappedFacts
<1>8. IsFrame(rows) /\ ToSet(rows) = ToSet(A) \cup ToSet(B)
  BY <1>1, <1>7, ConcatFacts
<1>9. \A r \in ToSet(A) : r.from = "history"
  BY <1>6, <1>7
<1>10. ToSet(B) = {SelectionRow(s) : s \in chosen}
  <2>1. /\ \A i \in DOMAIN shown : shown[i] \in ToSet(shown)
        /\ \A s \in ToSet(shown) : \E i \in DOMAIN shown : s = shown[i]
    BY <1>5, FrameFacts
  <2>2. ToSet(shown) = chosen
    BY <1>4, <1>5
  <2> QED BY <1>6, <1>7, <2>1, <2>2
<1>11. \A s : SelectionRow(s).from = "selection"
  BY DEF SelectionRow
<1>12. {r \in ToSet(rows) : r.from = "selection"} = ToSet(B)
  BY <1>8, <1>9, <1>10, <1>11
<1> QED BY <1>4, <1>8, <1>10, <1>12 DEF rows

\* The property of StudentCourses, from the step that builds it.
CoursesInv ==
    "StudentCourses" \in DOMAIN output =>
        {r \in Rows("StudentCourses") : r.from = "selection"} =
            {SelectionRow(s) : s \in
                {q \in ToSet(extract.selection) :
                    /\ SelectionIsRead(q)
                    /\ context.active # {} => q.student \in context.active
                    /\ MayBePlanned(q)}}

LEMMA StudentCoursesStep ==
    ASSUME RosterInv, BuildStudentCourses PROVE RosterInv' /\ CoursesInv'
<1> DEFINE rows == StudentCoursesRows(extract.history, extract.selection)
           kept == FilterToActive(rows)
           published == [context EXCEPT
                             !.notes = @ \cup UnfilteredNote("StudentCourses", rows)]
<1>1. Turn("StudentCourses") /\ Transformed("StudentCourses", kept, published)
  BY DEF BuildStudentCourses, Transforms
<1>2. /\ IsFrame(rows)
      /\ {r \in ToSet(rows) : r.from = "selection"} =
            {SelectionRow(s) : s \in {q \in ToSet(extract.selection) :
                                         SelectionIsRead(q) /\ MayBePlanned(q)}}
  BY PlannedFacts DEF RosterInv, TurnsInv
<1> HIDE DEF rows
<1>3. /\ IsFrame(kept)
      /\ ToSet(kept) = {r \in ToSet(rows) :
                           context.active # {} => r.student \in context.active}
  BY <1>2, FilteredFacts
<1>4. /\ DOMAIN published = ContextFields
      /\ published.active = context.active
      /\ published.leftOutStaff = context.leftOutStaff
      /\ published.leftOutClasses = context.leftOutClasses
      /\ published.artifacts = context.artifacts
      /\ published.dataErrors = context.dataErrors
      /\ context.notes \subseteq published.notes
  BY DEF RosterInv, TurnsInv, OutputInv, ContextFields
<1> HIDE DEF kept, published
<1>5. /\ TurnsInv' /\ context' = published
      /\ Rows("StudentCourses")' = ToSet(kept)
      /\ \A x : x # "StudentCourses" => /\ x \in DOMAIN output' <=> x \in DOMAIN output
                                        /\ Rows(x)' = Rows(x)
  BY <1>1, <1>3, <1>4, TransformedFacts DEF RosterInv
<1>6. PeopleInv'
  BY <1>4, <1>5, KeepsPeople DEF RosterInv
<1>7. StudentFilesInv'
  <2>1. /\ ShippedStudents' = ShippedStudents
        /\ "Students" \in DOMAIN output' => "Students" \in DOMAIN output
        /\ Rows("Family")' = Rows("Family")
    BY <1>5 DEF ShippedStudents
  <2>2. ASSUME "Students" \in DOMAIN output'
        PROVE  \A r \in ToSet(kept) : r.student \in ShippedStudents
    BY <1>3, <2>1, <2>2, ActiveShips DEF RosterInv, TurnsInv
  <2> QED BY <1>5, <2>1, <2>2 DEF RosterInv, StudentFilesInv
<1>8. ClassesInv'
  BY <1>1, <1>4, <1>5, TransformedAdvances, KeepsClasses DEF RosterInv
<1>9. EnrollmentsInv'
  BY <1>1, <1>4, <1>5, TransformedAdvances, KeepsEnrollments DEF RosterInv
<1>10. CoursesInv'
  <2> DEFINE planned == {q \in ToSet(extract.selection) :
                            SelectionIsRead(q) /\ MayBePlanned(q)}
             sent == {q \in planned : context.active # {} => q.student \in context.active}
  <2>1. \A s : SelectionRow(s).student = s.student
    BY DEF SelectionRow
  <2>2. {r \in ToSet(kept) : r.from = "selection"} = {SelectionRow(s) : s \in sent}
    <3>1. {r \in ToSet(kept) : r.from = "selection"} =
              {r \in {SelectionRow(s) : s \in planned} :
                  context.active # {} => r.student \in context.active}
      BY <1>2, <1>3
    <3> HIDE DEF planned
    <3> QED BY <2>1, <3>1
  <2>3. UNCHANGED <<config, extract>>
    BY <1>1 DEF Transformed
  <2>4. Rows("StudentCourses")' = ToSet(kept) /\ context'.active = context.active
    BY <1>4, <1>5
  <2> QED BY <2>2, <2>3, <2>4 DEF CoursesInv, MayBePlanned, AttemptsAt
<1> QED BY <1>5, <1>6, <1>7, <1>8, <1>9, <1>10 DEF RosterInv

LEMMA KeepsCourses ==
    ASSUME CoursesInv, UNCHANGED <<config, extract>>,
           "StudentCourses" \in DOMAIN output' => "StudentCourses" \in DOMAIN output,
           context'.active = context.active,
           Rows("StudentCourses")' = Rows("StudentCourses")
    PROVE  CoursesInv'
  BY DEF CoursesInv, MayBePlanned, AttemptsAt

\* A transform leaves what the other entities made.
LEMMA TransformedElsewhere ==
    ASSUME NEW e, NEW rows, NEW published, Transformed(e, rows, published),
           NEW x, x # e
    PROVE  /\ x \in DOMAIN output' <=> x \in DOMAIN output
           /\ Rows(x)' = Rows(x)
           /\ UNCHANGED <<config, extract>> /\ context' = published
  BY DEF Transformed, EmptyTurn, Rows

LEMMA CoursesStep == ASSUME RosterInv, CoursesInv, RosterNext PROVE CoursesInv'
<1> DOMAIN context = ContextFields
  BY DEF RosterInv, TurnsInv, OutputInv
<1>1. ASSUME UNCHANGED <<config, extract, context, output>> PROVE CoursesInv'
  BY <1>1, KeepsCourses DEF Rows
<1>2. ASSUME NEW e, e # "StudentCourses", NEW rows, NEW published,
             Transformed(e, rows, published), context'.active = context.active
      PROVE  CoursesInv'
  BY <1>2, TransformedElsewhere, KeepsCourses
<1>3. CASE SourcesEmpty \/ EntityRaises \/ Complete
  BY <1>1, <1>3 DEF SourcesEmpty, EmptyTurn, EntityRaises, Raised, Complete
<1>4. CASE BuildStudents
  <2>1. Turn("Students") /\ \E rows, published : Transformed("Students", rows, published)
    BY <1>4 DEF BuildStudents, Transforms
  <2>2. "StudentCourses" \notin DOMAIN output
    BY <2>1, TurnFacts DEF RosterInv, DependsOn
  <2>3. "StudentCourses" \notin DOMAIN output'
    BY <2>1, <2>2, TransformedElsewhere
  <2> QED BY <2>3 DEF CoursesInv
<1>5. CASE BuildStaff
  <2>1. \E rows, published : Transformed("Staff", rows, published)
    BY <1>5 DEF BuildStaff
  <2> QED BY <1>2, <1>5, <2>1, StaffStep
<1>6. CASE BuildFamily
  <2>1. \E rows, published : /\ Transformed("Family", rows, published)
                             /\ published.active = context.active
    BY <1>6 DEF BuildFamily, ContextFields
  <2> QED BY <1>2, <2>1 DEF Transformed
<1>7. CASE BuildClasses
  <2>1. \E rows, published : Transformed("Classes", rows, published)
    BY <1>7 DEF BuildClasses
  <2> QED BY <1>2, <1>7, <2>1, ClassesStep
<1>8. CASE BuildEnrollments
  <2>1. \/ Raised("Enrollments", "transform_error")
        \/ \E rows, published : /\ Transformed("Enrollments", rows, published)
                                /\ published.active = context.active
    BY <1>8 DEF BuildEnrollments, ContextFields
  <2> QED BY <1>1, <1>2, <2>1 DEF Raised, Transformed
<1>9. CASE BuildStudentCourses
  BY <1>9, StudentCoursesStep
<1>10. CASE BuildStudentAttendance
  <2>1. \/ Raised("StudentAttendance", "transform_error")
        \/ \E rows : Transformed("StudentAttendance", rows, context)
    BY <1>10 DEF BuildStudentAttendance
  <2> QED BY <1>1, <1>2, <2>1 DEF Raised, Transformed
<1> QED BY <1>3, <1>4, <1>5, <1>6, <1>7, <1>8, <1>9, <1>10 DEF RosterNext

-----------------------------------------------------------------------------
(* StudentAttendance.                                                      *)

\* What is delivered is what was made of the two exports.
AttendanceInv ==
    "StudentAttendance" \in DOMAIN output =>
        output["StudentAttendance"] = StudentAttendanceRows(extract.daily, extract.period)

LEMMA RowCountFacts ==
    ASSUME NEW d, d.portion \in Int
    PROVE  RowCount(d) \in Int
<1> DEFINE n == (2 * d.portion * PortionRule.upperFullDayRows + PortionRule.fullDay)
                    \div (2 * PortionRule.fullDay)
<1>1. /\ PortionRule.fullDay \in Nat \ {0} /\ PortionRule.tardyRows \in Int
      /\ PortionRule.fullDayRows \in Int /\ PortionRule.defaultRows \in Int
      /\ PortionRule.upperFullDayRows \in Int /\ PortionRule.upperDefaultRows \in Int
  BY PortionRuleAssumption
<1>2. n \in Int
  BY <1>1
<1> HIDE DEF n
<1>3. UpperPartialRows(d.portion) \in Int
  <2>1. Clamped(n, 1, PortionRule.upperFullDayRows - 1) \in Int
    BY <1>1, <1>2 DEF Clamped
  <2> QED BY <2>1 DEF UpperPartialRows, n
<1>4. CASE d.code = PortionRule.tardyCode
  BY <1>1, <1>4 DEF RowCount, DeriveRowCount
<1>5. CASE d.code # PortionRule.tardyCode /\ IsUpperGrade(d.grade) = FALSE
  BY <1>1, <1>5 DEF RowCount, DeriveRowCount
<1>6. CASE d.code # PortionRule.tardyCode /\ IsUpperGrade(d.grade) = TRUE
  BY <1>1, <1>3, <1>6 DEF RowCount, DeriveRowCount
<1>7. IsUpperGrade(d.grade) \in BOOLEAN
  BY DEF IsUpperGrade
<1> QED BY <1>4, <1>5, <1>6, <1>7

LEMMA CopiesFacts ==
    ASSUME NEW d, d.portion \in Int, NEW S
    PROVE  /\ IsFrame(Copies(d)) /\ ToSet(Copies(d)) \subseteq {DailyRow(d)}
           /\ Tally(Copies(d), S) =
                 Cardinality(IF DailyRow(d) \in S THEN 1 .. RowCount(d) ELSE {})
           /\ StudentDay(DailyRow(d)) = StudentDay(d)
<1> DEFINE n == RowCount(d)
           m == IF n < 0 THEN 0 ELSE n
<1>1. n \in Int /\ m \in Nat /\ 1 .. m = 1 .. n
  BY RowCountFacts
<1> HIDE DEF n, m
<1>2. Copies(d) = [k \in 1 .. n |-> DailyRow(d)]
  BY DEF Copies, n
<1>3. Copies(d) = [k \in 1 .. m |-> Copies(d)[k]]
  BY <1>1, <1>2
<1>4. IsFrame(Copies(d)) /\ DOMAIN Copies(d) = 1 .. n
  BY <1>1, <1>2, <1>3, FrameOf
<1>5. \A k \in DOMAIN Copies(d) : Copies(d)[k] = DailyRow(d)
  BY <1>2
<1>6. ToSet(Copies(d)) \subseteq {DailyRow(d)}
  BY <1>5 DEF ToSet
<1>7. Places(Copies(d), S) = IF DailyRow(d) \in S THEN 1 .. n ELSE {}
  BY <1>4, <1>5 DEF Places
<1>8. StudentDay(DailyRow(d)) = StudentDay(d)
  BY DEF StudentDay, DailyRow
<1> QED BY <1>4, <1>6, <1>7, <1>8 DEF Tally, n

\* The rows the absences of `read` on a day are due, as pairs.
Due(read, day) ==
    UNION {{i} \X (1 .. RowCount(read[i])) :
              i \in {k \in DOMAIN read : StudentDay(read[k]) = day}}

\* The daily band: each absence read has its copies, and no other row.
LEMMA DailyFacts ==
    ASSUME NEW daily, IsFrame(daily), \A d \in ToSet(daily) : d.portion \in Int
    PROVE  LET read == Among(daily, {d \in ToSet(daily) : DailyIsRead(d)})
               made == BuildDailyRows(daily)
           IN  /\ IsFrame(read) /\ IsFrame(made)
               /\ ToSet(made) \subseteq {DailyRow(d) : d \in ToSet(read)}
               /\ \A day, S :
                     (\A i \in DOMAIN read :
                         DailyRow(read[i]) \in S <=> StudentDay(read[i]) = day)
                     => Tally(made, S) = Cardinality(Due(read, day))
<1> DEFINE read == Among(daily, {d \in ToSet(daily) : DailyIsRead(d)})
           made == BuildDailyRows(daily)
           ss == [i \in DOMAIN read |-> Copies(read[i])]
<1>1. IsFrame(read) /\ ToSet(read) \subseteq ToSet(daily)
  BY AmongFacts
<1>2. made = FlattenSeq(ss)
  BY DEF BuildDailyRows
<1> HIDE DEF read, made
<1> DEFINE n == Len(read)
<1>3. n \in Nat /\ DOMAIN read = 1 .. n
  BY <1>1, FrameFacts
<1>4. DOMAIN ss = 1 .. n /\ IsFrame(ss) /\ Len(ss) = n
  <2>1. ss = [i \in 1 .. n |-> ss[i]]
    BY <1>3
  <2> HIDE DEF ss, n
  <2> QED BY <1>3, <2>1, FrameOf
<1>5. \A i \in 1 .. n : read[i].portion \in Int /\ read[i] \in ToSet(read)
  BY <1>1, <1>3 DEF ToSet
<1>6. ASSUME NEW i \in 1 .. n
      PROVE  /\ IsFrame(ss[i]) /\ ToSet(ss[i]) \subseteq {DailyRow(read[i])}
             /\ \A S : Tally(ss[i], S) =
                   Cardinality(IF DailyRow(read[i]) \in S
                                 THEN 1 .. RowCount(read[i]) ELSE {})
  BY <1>3, <1>5, CopiesFacts
<1> HIDE DEF ss, n
<1>7. IsFrame(made) /\ ToSet(made) = UNION {ToSet(ss[i]) : i \in DOMAIN ss}
  BY <1>2, <1>4, <1>6, FlattenFacts
<1>8. ToSet(made) \subseteq {DailyRow(d) : d \in ToSet(read)}
  BY <1>4, <1>5, <1>6, <1>7
<1>9. ASSUME NEW day, NEW S,
             \A i \in DOMAIN read : DailyRow(read[i]) \in S <=> StudentDay(read[i]) = day
      PROVE  Tally(made, S) = Cardinality(Due(read, day))
  <2> DEFINE Of(i) == IF StudentDay(read[i]) = day
                        THEN {i} \X (1 .. RowCount(read[i])) ELSE {}
             Upto(k) == UNION {Of(i) : i \in 1 .. k}
             W == [k \in 0 .. n |-> Cardinality(Upto(k))]
  <2>1. ASSUME NEW i \in 1 .. n
        PROVE  IsFiniteSet(Of(i)) /\ Cardinality(Of(i)) = Tally(ss[i], S)
    <3>1. RowCount(read[i]) \in Int
      BY <1>5, RowCountFacts
    <3>2. CASE StudentDay(read[i]) = day
      <4> DEFINE c == RowCount(read[i])
                 f == [k \in 1 .. c |-> <<i, k>>]
      <4>1. f \in Bijection(1 .. c, {i} \X (1 .. c))
        BY DEF Bijection, Injection, Surjection, IsInjective
      <4>2. IsFiniteSet(1 .. c)
        BY <3>1, FS_Interval
      <4> HIDE DEF c, f
      <4>3. /\ IsFiniteSet({i} \X (1 .. c))
            /\ Cardinality({i} \X (1 .. c)) = Cardinality(1 .. c)
        BY <4>1, <4>2, FS_Bijection DEF ExistsBijection
      <4>4. Of(i) = {i} \X (1 .. c)
        BY <3>2 DEF c
      <4> QED BY <1>3, <1>6, <1>9, <3>2, <4>3, <4>4 DEF c
    <3>3. CASE StudentDay(read[i]) # day
      BY <1>3, <1>6, <1>9, <3>3, FS_EmptySet
    <3> QED BY <3>2, <3>3
  <2>2. \A i, j \in 1 .. n : i # j => Of(i) \cap Of(j) = {}
    OBVIOUS
  <2>3. Upto(0) = {}
    OBVIOUS
  <2>4. ASSUME NEW k \in 1 .. n
        PROVE  Upto(k) = Upto(k - 1) \cup Of(k) /\ Upto(k - 1) \cap Of(k) = {}
    <3>1. 1 .. k = (1 .. k - 1) \cup {k} /\ 1 .. k - 1 \subseteq 1 .. n /\ k \notin 1 .. k - 1
      BY <1>3
    <3> HIDE DEF Of
    <3>2. Upto(k) = Upto(k - 1) \cup Of(k)
      BY <3>1
    <3>3. Upto(k - 1) \cap Of(k) = {}
      BY <2>2, <3>1
    <3> QED BY <3>2, <3>3
  <2> HIDE DEF Of
  <2> DEFINE Bad == {k \in 0 .. n : ~IsFiniteSet(Upto(k))}
  <2>5. \A k \in 0 .. n : IsFiniteSet(Upto(k))
    <3> SUFFICES ASSUME Bad # {} PROVE FALSE
      OBVIOUS
    <3>1. PICK m \in Bad : \A k \in Bad : m <= k
      <4>1. Bad \in SUBSET Nat
        BY <1>3
      <4> HIDE DEF Bad
      <4> QED BY <4>1, Least
    <3>2. m # 0
      BY <2>3, FS_EmptySet
    <3>3. m \in 1 .. n /\ m - 1 \in 0 .. n /\ ~(m <= m - 1)
      BY <1>3, <3>2
    <3> HIDE DEF Upto
    <3>4. IsFiniteSet(Upto(m - 1))
      BY <3>1, <3>3
    <3>5. IsFiniteSet(Of(m)) /\ Upto(m) = Upto(m - 1) \cup Of(m)
      BY <2>1, <2>4, <3>3
    <3>6. IsFiniteSet(Upto(m - 1) \cup Of(m))
      BY <3>4, <3>5, FS_Union
    <3> QED BY <3>1, <3>5, <3>6
  <2> HIDE DEF Upto
  <2>6. ASSUME NEW k \in 1 .. n PROVE W[k] = W[k - 1] + Tally(ss[k], S)
    <3>1. k \in 0 .. n /\ k - 1 \in 0 .. n
      BY <1>3
    <3>2. /\ IsFiniteSet(Upto(k - 1)) /\ IsFiniteSet(Of(k))
          /\ Cardinality(Upto(k - 1)) \in Nat /\ Cardinality(Of(k)) \in Nat
      BY <2>1, <2>5, <3>1, FS_CardinalityType
    <3>3. Cardinality(Upto(k - 1) \cup Of(k)) =
              Cardinality(Upto(k - 1)) + Cardinality(Of(k))
                - Cardinality(Upto(k - 1) \cap Of(k))
      BY <3>2, FS_Union
    <3>4. Cardinality({}) = 0
      BY FS_EmptySet
    <3>7. Upto(k) = Upto(k - 1) \cup Of(k) /\ Upto(k - 1) \cap Of(k) = {}
      BY <2>4
    <3>8. /\ Cardinality(Upto(k)) = Cardinality(Upto(k - 1) \cup Of(k))
          /\ Cardinality(Upto(k - 1) \cap Of(k)) = Cardinality({})
      BY <3>7, Zenon
    <3>5. Cardinality(Upto(k)) = Cardinality(Upto(k - 1)) + Cardinality(Of(k))
      <4> DEFINE a == Cardinality(Upto(k - 1))
                 b == Cardinality(Of(k))
                 both == Cardinality(Upto(k - 1) \cup Of(k))
                 shared == Cardinality(Upto(k - 1) \cap Of(k))
      <4>1. both = a + b - shared /\ a \in Nat /\ b \in Nat /\ shared = 0
        BY <3>2, <3>3, <3>4, <3>8
      <4> HIDE DEF a, b, both, shared
      <4>2. both = a + b
        BY <4>1
      <4> QED BY <3>8, <4>2, Zenon DEF a, b, both
    <3>6. W[k] = Cardinality(Upto(k)) /\ W[k - 1] = Cardinality(Upto(k - 1))
      BY <3>1
    <3> QED BY <2>1, <3>5, <3>6
  <2>7. W[0] = 0
    BY <1>3, <2>3, FS_EmptySet
  <2>8. W[n] = Cardinality(Upto(n))
    BY <1>3
  <2>9. Upto(n) = Due(read, day)
    BY <1>3 DEF Upto, Of, Due
  <2> HIDE DEF W
  <2>10. Tally(FlattenSeq(ss), S) = W[Len(ss)]
    BY <1>4, <1>6, <2>6, <2>7, TallyFlatten
  <2> QED BY <1>2, <1>4, <2>8, <2>9, <2>10
<1> QED BY <1>1, <1>7, <1>8, <1>9 DEF read, made

\* The period band: one row for each absence read, at the same place.
LEMMA PeriodFacts ==
    ASSUME NEW period, IsFrame(period)
    PROVE  LET read == Among(period, {p \in ToSet(period) : PeriodIsRead(p)})
               made == BuildPeriodRows(period)
           IN  /\ IsFrame(made) /\ DOMAIN made = DOMAIN read
               /\ \A i \in DOMAIN read : StudentDay(made[i]) = StudentDay(read[i])
<1> DEFINE read == Among(period, {p \in ToSet(period) : PeriodIsRead(p)})
           made == BuildPeriodRows(period)
<1>1. IsFrame(read)
  BY AmongFacts
<1>2. made = [i \in DOMAIN read |->
                 [school |-> read[i].school, day |-> read[i].day,
                  student |-> read[i].student, category |-> read[i].category]]
  BY DEF BuildPeriodRows
<1> HIDE DEF read, made
<1>3. Len(read) \in Nat /\ DOMAIN read = 1 .. Len(read)
  BY <1>1, FrameFacts
<1>4. DOMAIN made = DOMAIN read /\ made = [i \in 1 .. Len(read) |-> made[i]]
  BY <1>2, <1>3
<1>5. IsFrame(made)
  BY <1>3, <1>4, FrameOf
<1>6. \A i \in DOMAIN read : StudentDay(made[i]) = StudentDay(read[i])
  BY <1>2 DEF StudentDay
<1> QED BY <1>4, <1>5, <1>6 DEF read, made

\* What is delivered of a day, S being the rows of that day: what the daily
\* band has, or else the periods.
Delivers(daily, period, day, S) ==
    /\ IsFrame(StudentAttendanceRows(daily, period))
    /\ Tally(BuildDailyRows(daily), S) \in Nat
    /\ \A r \in ToSet(BuildDailyRows(daily)) : r \in S <=> StudentDay(r) = day
    /\ day \in Claimed(daily, BuildDailyRows(daily)) =>
          Tally(StudentAttendanceRows(daily, period), S)
             = Tally(BuildDailyRows(daily), S)
    /\ day \notin Claimed(daily, BuildDailyRows(daily)) =>
          Tally(StudentAttendanceRows(daily, period), S) =
              Cardinality({i \in DOMAIN BuildPeriodRows(period) :
                             StudentDay(BuildPeriodRows(period)[i]) = day})

LEMMA AttendanceFacts ==
    ASSUME NEW daily, IsFrame(daily),
           \A d \in ToSet(daily) : d.portion \in Int, NEW period, IsFrame(period),
           NEW day, NEW S,
           \A r \in ToSet(StudentAttendanceRows(daily, period)) :
              r \in S <=> StudentDay(r) = day
    PROVE  Delivers(daily, period, day, S)
<1> DEFINE dailyRows == BuildDailyRows(daily)
           periodRows == BuildPeriodRows(period)
           shipped == StudentAttendanceRows(daily, period)
           C == {r \in ToSet(periodRows) : StudentDay(r) \notin Claimed(daily, dailyRows)}
<1>1. shipped = dailyRows \o Among(periodRows, C)
  BY DEF StudentAttendanceRows
<1>2. IsFrame(dailyRows) /\ IsFrame(periodRows)
  BY DailyFacts, PeriodFacts
<1>12. \A r \in ToSet(shipped) : r \in S <=> StudentDay(r) = day
  OBVIOUS
<1> HIDE DEF dailyRows, periodRows, shipped
<1>3. \A r \in ToSet(dailyRows) : StudentDay(r) \in Claimed(daily, dailyRows)
  BY DEF Claimed, ToSet
<1>4. IsFrame(Among(periodRows, C)) /\ ToSet(Among(periodRows, C)) = ToSet(periodRows) \cap C
  BY <1>2, AmongFacts
<1>5. /\ IsFrame(shipped)
      /\ ToSet(shipped) = ToSet(dailyRows) \cup (ToSet(periodRows) \cap C)
  BY <1>1, <1>2, <1>4, ConcatFacts
<1>7. Tally(shipped, S) = Tally(dailyRows, S) + Tally(periodRows, S \cap C)
  <2> HIDE DEF C
  <2>1. Tally(shipped, S) = Tally(dailyRows, S) + Tally(Among(periodRows, C), S)
    BY <1>1, <1>2, <1>4, TallyConcat
  <2> QED BY <1>2, <2>1, TallyAmong
<1>8. Tally(dailyRows, S) \in Nat /\ Tally(periodRows, S \cap C) \in Nat
  BY <1>2, TallyFacts
<1>9. \A r \in ToSet(dailyRows) : r \in S <=> StudentDay(r) = day
  BY <1>5, <1>12
<1>10. ASSUME day \in Claimed(daily, dailyRows)
       PROVE  Tally(shipped, S) = Tally(dailyRows, S)
  <2>1. ToSet(periodRows) \cap (S \cap C) = {}
    BY <1>5, <1>10, <1>12
  <2>2. Tally(periodRows, S \cap C) = 0
    BY <1>2, <2>1, TallyFacts
  <2> QED BY <1>7, <1>8, <2>2
<1>11. ASSUME day \notin Claimed(daily, dailyRows)
       PROVE  Tally(shipped, S) =
                  Cardinality({i \in DOMAIN periodRows : StudentDay(periodRows[i]) = day})
  <2>1. ToSet(dailyRows) \cap S = {}
    BY <1>3, <1>5, <1>11, <1>12
  <2>2. Tally(dailyRows, S) = 0
    BY <1>2, <2>1, TallyFacts
  <2>3. \A i \in DOMAIN periodRows : periodRows[i] \in S \cap C
                                     <=> StudentDay(periodRows[i]) = day
    BY <1>2, <1>5, <1>11, <1>12, FrameFacts
  <2>4. Places(periodRows, S \cap C)
           = {i \in DOMAIN periodRows : StudentDay(periodRows[i]) = day}
    BY <2>3 DEF Places
  <2>5. Tally(periodRows, S \cap C)
           = Cardinality({i \in DOMAIN periodRows : StudentDay(periodRows[i]) = day})
    BY <2>4 DEF Tally
  <2> HIDE DEF C
  <2> QED BY <1>7, <1>8, <2>2, <2>5
<1> QED BY <1>5, <1>8, <1>9, <1>10, <1>11 DEF dailyRows, periodRows, shipped, Delivers

LEMMA AttendanceHolds ==
    ASSUME CaseInv, AttendanceInv
    PROVE  DayIsCountedOnce
<1> SUFFICES ASSUME "StudentAttendance" \in DOMAIN output PROVE DayIsCountedOnce
  BY DEF DayIsCountedOnce
<1> DEFINE daily == Among(extract.daily, {d \in ToSet(extract.daily) : DailyIsRead(d)})
           period == Among(extract.period, {p \in ToSet(extract.period) : PeriodIsRead(p)})
           shipped == output["StudentAttendance"]
           dailyRows == BuildDailyRows(extract.daily)
           periodRows == BuildPeriodRows(extract.period)
           All == ToSet(shipped) \cup {DailyRow(d) : d \in ToSet(daily)}
           Of(day) == {r \in All : StudentDay(r) = day}
           On(day, rows) == {i \in DOMAIN rows : StudentDay(rows[i]) = day}
           Count(day) == Cardinality(On(day, shipped))
           FromDaily(day) == Cardinality(Due(daily, day))
           FromPeriods(day) == Cardinality(On(day, period))
<1>1. /\ IsFrame(extract.daily) /\ IsFrame(extract.period)
      /\ \A d \in ToSet(extract.daily) : d.portion \in Int
      /\ shipped = StudentAttendanceRows(extract.daily, extract.period)
  BY CaseFacts DEF AttendanceInv
<1>2. /\ IsFrame(daily) /\ IsFrame(dailyRows)
      /\ \A day, T :
            (\A i \in DOMAIN daily :
                DailyRow(daily[i]) \in T <=> StudentDay(daily[i]) = day)
            => Tally(dailyRows, T) = Cardinality(Due(daily, day))
  BY <1>1, DailyFacts
<1>3. /\ DOMAIN periodRows = DOMAIN period
      /\ \A i \in DOMAIN period : StudentDay(periodRows[i]) = StudentDay(period[i])
  BY <1>1, PeriodFacts
<1>4. \A day :
        /\ IsFrame(shipped) /\ Tally(dailyRows, Of(day)) \in Nat
        /\ \A r \in ToSet(dailyRows) : r \in Of(day) <=> StudentDay(r) = day
        /\ day \in Claimed(extract.daily, dailyRows) =>
              Tally(shipped, Of(day)) = Tally(dailyRows, Of(day))
        /\ day \notin Claimed(extract.daily, dailyRows) =>
              Tally(shipped, Of(day)) = Cardinality(On(day, periodRows))
  <2>1. ToSet(shipped) \subseteq All
    OBVIOUS
  <2>2. ToSet(StudentAttendanceRows(extract.daily, extract.period)) \subseteq All
    BY <1>1, <2>1
  <2> SUFFICES ASSUME NEW day
               PROVE  /\ IsFrame(shipped) /\ Tally(dailyRows, Of(day)) \in Nat
                      /\ \A r \in ToSet(dailyRows) :
                            r \in Of(day) <=> StudentDay(r) = day
                      /\ day \in Claimed(extract.daily, dailyRows) =>
                            Tally(shipped, Of(day)) = Tally(dailyRows, Of(day))
                      /\ day \notin Claimed(extract.daily, dailyRows) =>
                            Tally(shipped, Of(day)) = Cardinality(On(day, periodRows))
    OBVIOUS
  <2> HIDE DEF All
  <2>3. \A r \in All : r \in Of(day) <=> StudentDay(r) = day
    OBVIOUS
  <2> HIDE DEF Of
  <2> DEFINE T == Of(day)
             made == StudentAttendanceRows(extract.daily, extract.period)
  <2>4. Delivers(extract.daily, extract.period, day, T)
    <3> HIDE DEF T
    <3>1. \A r \in ToSet(made) : r \in T <=> StudentDay(r) = day
      BY <2>2, <2>3 DEF T
    <3> QED BY <1>1, <3>1, AttendanceFacts
  <2>5. shipped = made
    BY <1>1
  <2> QED BY <2>4, <2>5 DEF Delivers
<1>5. ASSUME NEW day PROVE Count(day) = Tally(shipped, Of(day))
  <2>1. \A i \in DOMAIN shipped : shipped[i] \in All
    BY <1>4, FrameFacts
  <2>2. Places(shipped, Of(day)) = On(day, shipped)
    BY <2>1 DEF Places
  <2> QED BY <2>2 DEF Tally
<1>6. ASSUME NEW day PROVE Tally(dailyRows, Of(day)) = FromDaily(day)
  <2>1. \A i \in DOMAIN daily : StudentDay(DailyRow(daily[i])) = StudentDay(daily[i])
    BY DEF StudentDay, DailyRow
  <2>2. \A i \in DOMAIN daily : DailyRow(daily[i]) \in All
    BY <1>2, FrameFacts
  <2>3. \A i \in DOMAIN daily :
           DailyRow(daily[i]) \in Of(day) <=> StudentDay(daily[i]) = day
    BY <2>1, <2>2
  <2> HIDE DEF daily, dailyRows, Of
  <2> QED BY <1>2, <2>3
<1>7. ASSUME NEW day
      PROVE  day \in Claimed(extract.daily, dailyRows) <=> Tally(dailyRows, Of(day)) # 0
  <2>1. Claimed(extract.daily, dailyRows) = {StudentDay(r) : r \in ToSet(dailyRows)}
    BY DEF Claimed, ToSet
  <2> HIDE DEF dailyRows, Of
  <2>2. Tally(dailyRows, Of(day)) = 0 <=> ToSet(dailyRows) \cap Of(day) = {}
    BY <1>2, TallyFacts
  <2> QED BY <1>4, <2>1, <2>2
<1>8. ASSUME NEW day PROVE On(day, periodRows) = On(day, period)
  BY <1>3
<1> HIDE DEF dailyRows, periodRows, shipped, daily, period, Of, On
<1>9. ASSUME NEW day
      PROVE  Count(day) = IF FromDaily(day) > 0 THEN FromDaily(day) ELSE FromPeriods(day)
  <2>1. FromDaily(day) \in Nat
    BY <1>4, <1>6
  <2>2. CASE FromDaily(day) > 0
    BY <1>4, <1>5, <1>6, <1>7, <2>1, <2>2
  <2>3. CASE ~(FromDaily(day) > 0)
    BY <1>4, <1>5, <1>6, <1>7, <1>8, <2>1, <2>3
  <2> QED BY <2>2, <2>3
<1> QED BY <1>9 DEF DayIsCountedOnce, On, Due, daily, period, shipped

\* A transform changes no frame but its own.
LEMMA KeepsAttendance ==
    ASSUME RosterInv, AttendanceInv, RosterNext PROVE AttendanceInv'
<1>1. ASSUME UNCHANGED <<extract, output>> PROVE AttendanceInv'
  BY <1>1 DEF AttendanceInv
<1>2. ASSUME NEW e, e # "StudentAttendance",
             \E rows, published : Transformed(e, rows, published)
      PROVE  AttendanceInv'
  <2>1. /\ UNCHANGED extract
        /\ \/ output' = output
           \/ \E rows : output' = [x \in DOMAIN output \cup {e} |->
                                      IF x = e THEN rows ELSE output[x]]
    BY <1>2 DEF Transformed, EmptyTurn
  <2> QED BY <1>2, <2>1 DEF AttendanceInv
<1>3. CASE SourcesEmpty \/ EntityRaises \/ Complete
  BY <1>1, <1>3 DEF SourcesEmpty, EmptyTurn, EntityRaises, Raised, Complete
<1>4. CASE \/ BuildStudents \/ BuildStaff \/ BuildFamily \/ BuildClasses
           \/ BuildEnrollments \/ BuildStudentCourses
  <2>1. \/ Raised("Enrollments", "transform_error")
        \/ \E e : e # "StudentAttendance" /\ \E rows, published : Transformed(e, rows, published)
    BY <1>4 DEF BuildStudents, BuildStaff, BuildFamily, BuildClasses, BuildEnrollments,
                BuildStudentCourses
  <2> QED BY <1>1, <1>2, <2>1 DEF Raised
<1>5. CASE BuildStudentAttendance
  <2> DEFINE kept == StudentAttendanceRows(extract.daily, extract.period)
  <2>1. \/ Raised("StudentAttendance", "transform_error")
        \/ Turn("StudentAttendance") /\ Transformed("StudentAttendance", kept, context)
    BY <1>5 DEF BuildStudentAttendance, Transforms
  <2>2. ASSUME Turn("StudentAttendance"), Transformed("StudentAttendance", kept, context)
        PROVE  AttendanceInv'
    <3>1. "StudentAttendance" \notin DOMAIN output
      BY <2>2, TurnFacts DEF RosterInv
    <3>2. /\ UNCHANGED extract
          /\ \/ output' = output
             \/ output' = [x \in DOMAIN output \cup {"StudentAttendance"} |->
                              IF x = "StudentAttendance" THEN kept ELSE output[x]]
      BY <2>2 DEF Transformed, EmptyTurn
    <3> QED BY <3>1, <3>2 DEF AttendanceInv
  <2> QED BY <1>1, <2>1, <2>2 DEF Raised
<1> QED BY <1>3, <1>4, <1>5 DEF RosterNext

-----------------------------------------------------------------------------
(* The loop, entity by entity.                                             *)

LEMMA RosterStarts == RosterInit => RosterInv /\ CoursesInv /\ AttendanceInv
<1> SUFFICES ASSUME RosterInit PROVE RosterInv /\ CoursesInv /\ AttendanceInv
  OBVIOUS
<1>1. CaseInv
  BY DEF RosterInit, CaseInv
<1>2. /\ DOMAIN output = {} /\ position = 1 /\ loop = "running"
      /\ DOMAIN context = ContextFields
      /\ context.active = {} /\ context.leftOutStaff = {} /\ context.leftOutClasses = {}
      /\ context.artifacts.published = FALSE
  BY NoRows DEF RosterInit, ContextFields, NoArtifacts
<1>3. \A x : Rows(x) = {}
  BY <1>2 DEF Rows
<1>4. ShippedStudents = {} /\ ShippedStaff = {} /\ ShippedClasses = {}
  BY <1>3 DEF ShippedStudents, ShippedStaff, ShippedClasses
<1>5. OutputInv
  BY <1>1, <1>2, CaseFacts DEF OutputInv
<1>6. /\ PeopleInv /\ StudentFilesInv /\ ClassesInv /\ EnrollmentsInv
      /\ CoursesInv /\ AttendanceInv
  BY <1>2, <1>4 DEF PeopleInv, StudentFilesInv, ClassesInv, EnrollmentsInv, CoursesInv,
                    AttendanceInv
<1> QED BY <1>1, <1>5, <1>6 DEF RosterInv, TurnsInv

LEMMA RosterSteps ==
    RosterInv /\ CoursesInv /\ AttendanceInv /\ [RosterNext]_rosterVars
        => (RosterInv /\ CoursesInv /\ AttendanceInv)'
<1> SUFFICES ASSUME RosterInv, CoursesInv, AttendanceInv, [RosterNext]_rosterVars
             PROVE  RosterInv' /\ CoursesInv' /\ AttendanceInv'
  OBVIOUS
<1>1. CASE RosterNext
  <2>1. RosterInv'
    BY <1>1, EmptyStep, StudentsStep, StaffStep, FamilyStep, ClassesStep,
       EnrollmentsStep, StudentCoursesStep, AttendanceStep DEF RosterNext
  <2> QED BY <1>1, <2>1, CoursesStep, KeepsAttendance
<1>2. CASE UNCHANGED rosterVars
  <2>1. UNCHANGED <<config, extract, loop, position, context, output>>
    BY <1>2 DEF rosterVars
  <2>2. TurnsInv' /\ Done' = Done
    BY <2>1 DEF RosterInv, TurnsInv, CaseInv, OutputInv, Done
  <2>3. RosterInv'
    BY <2>1, <2>2, KeepsAll
  <2>4. CoursesInv'
    BY <2>1, KeepsCourses DEF Rows
  <2>5. AttendanceInv'
    BY <2>1 DEF AttendanceInv
  <2> QED BY <2>3, <2>4, <2>5
<1> QED BY <1>1, <1>2

\* The inductive invariant: run_transform's loop, entity by entity.
THEOREM RosterInvariant == RosterSpec => [](RosterInv /\ CoursesInv /\ AttendanceInv)
  BY RosterStarts, RosterSteps, PTL DEF RosterSpec

\* No row of the delivery points at something the same delivery does not hold
\* (EnrollmentTransformer, filter_to_active and the no-orphan cascade).
THEOREM RosterReferences == RosterSpec => []ReferencesResolve
<1>1. RosterInv => ReferencesResolve
  BY DEF RosterInv, EnrollmentsInv, StudentFilesInv, Resolved, ReferencesResolve, HasRoster
<1> QED BY <1>1, RosterInvariant, PTL

\* Whoever is delivered is placed in every delivered class an export puts them
\* in, or a note says that rows were left out (EnrollmentTransformer).
THEOREM RosterPlaces == RosterSpec => []WhoShipsIsPlaced
<1>1. RosterInv => WhoShipsIsPlaced
  BY DEF RosterInv, EnrollmentsInv, AllPlaced, WhoShipsIsPlaced, HasRoster
<1> QED BY <1>1, RosterInvariant, PTL

\* The sections of one lesson are one class, and a blend has a pupil
\* (BlendedClassDetector, with _emit_missing_blended_classes).
THEOREM RosterLessons == RosterSpec => []OneLessonOneClass
<1>1. RosterInv => OneLessonOneClass
  <2> SUFFICES ASSUME RosterInv, HasRoster, config.blended, extract.courses
               PROVE  OneLessonOneClass
    BY DEF OneLessonOneClass
  <2>1. TimetableInv /\ LessonsInv
    BY DEF RosterInv, EnrollmentsInv, ClassesInv, HasRoster
  <2> QED BY <2>1 DEF TimetableInv, LessonsInv, OneLessonOneClass
<1> QED BY <1>1, RosterInvariant, PTL

\* A planned course is delivered exactly when the whole history allows it,
\* whatever the order of its rows (StudentCoursesTransformer's two passes).
THEOREM RosterRetakes == RosterSpec => []RetakeFollowsTheWholeHistory
<1>1. CoursesInv => RetakeFollowsTheWholeHistory
  <2> SUFFICES ASSUME CoursesInv, "StudentCourses" \in DOMAIN output
               PROVE  RetakeFollowsTheWholeHistory
    BY DEF RetakeFollowsTheWholeHistory
  <2> DEFINE read == {s \in ToSet(extract.selection) :
                        /\ SelectionIsRead(s)
                        /\ context.active # {} => s.student \in context.active}
  <2>1. {q \in ToSet(extract.selection) :
            /\ SelectionIsRead(q)
            /\ context.active # {} => q.student \in context.active
            /\ MayBePlanned(q)} = {q \in read : MayBePlanned(q)}
    OBVIOUS
  <2> QED BY <2>1 DEF CoursesInv, RetakeFollowsTheWholeHistory
<1> QED BY <1>1, RosterInvariant, PTL

\* A day is counted once, whatever the two absence exports and the portion
\* rule say: the rows of the daily export, or else those of its periods
\* (suppress_overlapping_period_rows).
THEOREM RosterDays == RosterSpec => []DayIsCountedOnce
<1>1. RosterInv /\ AttendanceInv => DayIsCountedOnce
  BY AttendanceHolds DEF RosterInv, TurnsInv
<1> QED BY <1>1, RosterInvariant, PTL

-----------------------------------------------------------------------------
(* The transformers implement the entity loop of Pipeline.  Only the ledger *)
(* up to the turn of the loop tells what it has contained.                  *)

Turns == 1 .. position - 1

LEMMA TurnAt ==
    ASSUME TurnsInv, NEW e, Turn(e)
    PROVE  /\ position \in Nat \ {0} /\ position <= Len(config.order)
           /\ config.order[position] = e /\ e \in Entities
           /\ Turns \subseteq Nat /\ position \notin Turns
           /\ \A i \in Turns : /\ config.order[i] \in Entities
                               /\ config.order[i] # e
<1>1. /\ position \in DOMAIN config.order /\ position \in Nat \ {0}
      /\ config.order[position] = e /\ config.order \in Seq(Entities)
      /\ position <= Len(config.order)
      /\ \A i \in Turns : i \in DOMAIN config.order /\ i # position /\ i \in Nat
  BY CaseFacts DEF TurnsInv, OutputInv, Turn, InOrder, Turns
<1>2. \A i \in DOMAIN config.order : config.order[i] \in Entities
  BY <1>1
<1>3. \A i, j \in DOMAIN config.order : config.order[i] = config.order[j] => i = j
  BY CaseFacts DEF TurnsInv, InOrder
<1> QED BY <1>1, <1>2, <1>3

LEMMA FirstContainedFacts ==
    ASSUME position \in Nat, Contained # {}
    PROVE  /\ FirstContained \in Contained
           /\ \A j \in Contained : FirstContained <= j
<1>1. Contained \in SUBSET Nat
  BY DEF Contained
<1>2. \E i \in Contained : \A j \in Contained : i <= j
  BY <1>1, Least
<1> QED BY <1>2 DEF FirstContained

LEMMA IsolatedFacts ==
    (Isolated = "none" <=> Contained = {}) /\ Isolated \in {"none", "source_schema", "data"}
  BY DEF Isolated, CategoryOf

\* What the ledger says of the turns behind the loop decides.
LEMMA IsolatedStays ==
    ASSUME TurnsInv, UNCHANGED config, Contained' = Contained,
           \A i \in Contained : OutcomeAt(i)' = OutcomeAt(i)
    PROVE  Isolated' = Isolated
<1>1. position \in Nat
  BY CaseFacts DEF TurnsInv, OutputInv
<1>2. FirstContained' = FirstContained
  BY DEF FirstContained
<1>3. CASE Contained = {}
  BY <1>3 DEF Isolated
<1>4. CASE Contained # {}
  BY <1>1, <1>2, <1>4, FirstContainedFacts DEF Isolated
<1> QED BY <1>3, <1>4

LEMMA IsolatedWaits ==
    ASSUME TurnsInv, UNCHANGED <<config, position>>,
           \A i \in Turns : OutcomeAt(i)' = OutcomeAt(i)
    PROVE  Isolated' = Isolated
<1>1. Contained' = Contained /\ \A i \in Contained : i \in Turns
  BY DEF Contained, Turns
<1> QED BY <1>1, IsolatedStays

LEMMA IsolatedGoesOn ==
    ASSUME TurnsInv, NEW e, Turn(e), UNCHANGED config, position' = position + 1,
           \A i \in Turns : OutcomeAt(i)' = OutcomeAt(i)
    PROVE  Isolated' = IF ledger'[e].kind = "failed" /\ Isolated = "none"
                         THEN CategoryOf(ledger'[e].reason) ELSE Isolated
<1>0. PICK p \in Nat \ {0} : p = position
  BY TurnAt
<1>1. /\ Turns' = Turns \cup {p} /\ OutcomeAt(p)' = ledger'[e]
      /\ position' \in Nat /\ Turns \subseteq Nat
      /\ p \notin Turns /\ \A i \in Turns : i < p
  BY <1>0, TurnAt DEF Turns, OutcomeAt
<1>2. Contained' = IF ledger'[e].kind = "failed" THEN Contained \cup {p} ELSE Contained
  <2>1. Contained = {i \in Turns : OutcomeAt(i).kind = "failed"}
    BY DEF Contained, Turns
  <2>2. Contained' = {i \in Turns \cup {p} : OutcomeAt(i)'.kind = "failed"}
    BY <1>1 DEF Contained, Turns
  <2> QED BY <1>1, <2>1, <2>2
<1>3. Contained \subseteq Turns
  BY DEF Contained, Turns
<1>4. CASE ledger'[e].kind # "failed"
  BY <1>2, <1>3, <1>4, IsolatedStays
<1>5. CASE ledger'[e].kind = "failed" /\ Contained = {}
  <2>1. Contained' = {p}
    BY <1>2, <1>5
  <2>2. FirstContained' = p
    BY <2>1 DEF FirstContained
  <2>3. Isolated' = CategoryOf(ledger'[e].reason)
    BY <1>1, <2>1, <2>2 DEF Isolated, CategoryOf
  <2> QED BY <1>5, <2>3, IsolatedFacts
<1>6. CASE ledger'[e].kind = "failed" /\ Contained # {}
  <2>1. /\ FirstContained \in Contained
        /\ \A j \in Contained : FirstContained <= j
    BY <1>0, <1>6, FirstContainedFacts
  <2>2. Contained' = Contained \cup {p} /\ FirstContained < p
    BY <1>1, <1>2, <1>3, <1>6, <2>1
  <2>3. FirstContained' = FirstContained
    <3>1. ASSUME NEW i \in Contained', \A j \in Contained' : i <= j
          PROVE  i = FirstContained
      BY <1>1, <1>3, <2>1, <2>2, <3>1
    <3>2. \A j \in Contained' : FirstContained <= j
      BY <1>1, <1>3, <2>1, <2>2
    <3> QED BY <2>1, <2>2, <3>1, <3>2 DEF FirstContained
  <2>4. OutcomeAt(FirstContained)' = OutcomeAt(FirstContained)
    BY <1>3, <2>1, <2>3 DEF OutcomeAt
  <2> QED BY <1>6, <2>1, <2>2, <2>3, <2>4, IsolatedFacts DEF Isolated
<1> QED BY <1>4, <1>5, <1>6

LedgerInv == DOMAIN ledger = Entities

\* Recording the outcome of a turn, with or without the rest marked not run,
\* leaves those before it alone.
LEMMA RecordedFacts ==
    ASSUME TurnsInv, LedgerInv, NEW e, Turn(e), UNCHANGED config, NEW o,
           \/ ledger' = [ledger EXCEPT ![e] = o]
           \/ ledger' = RestNotRun([ledger EXCEPT ![e] = o])
    PROVE  /\ LedgerInv' /\ ledger'[e] = o
           /\ \A i \in Turns : OutcomeAt(i)' = OutcomeAt(i)
<1> DEFINE l == [ledger EXCEPT ![e] = o]
           Later(x) == \E j \in position + 1 .. Len(config.order) : config.order[j] = x
<1>1. DOMAIN l = Entities /\ l[e] = o /\ \A x \in Entities \ {e} : l[x] = ledger[x]
  BY TurnAt DEF LedgerInv
<1>2. ~Later(e) /\ \A i \in Turns : ~Later(config.order[i])
  <2>1. \A i, j \in DOMAIN config.order : config.order[i] = config.order[j] => i = j
    BY CaseFacts DEF TurnsInv, InOrder
  <2>2. /\ DOMAIN config.order = 1 .. Len(config.order) /\ Len(config.order) \in Nat
        /\ position \in 1 .. Len(config.order) /\ config.order[position] = e
    BY CaseFacts, TurnAt DEF TurnsInv
  <2>3. \A i \in Turns : i \in 1 .. Len(config.order) /\ i < position
    BY <2>2 DEF Turns
  <2>4. \A j \in position + 1 .. Len(config.order) :
            j \in 1 .. Len(config.order) /\ position < j
    BY <2>2
  <2>5. ASSUME NEW i \in 1 .. Len(config.order), i <= position PROVE ~Later(config.order[i])
    <3>1. ASSUME NEW j \in position + 1 .. Len(config.order),
                 config.order[j] = config.order[i]
          PROVE  FALSE
      <4>1. j = i /\ position < j
        BY <2>1, <2>2, <2>4, <3>1
      <4> QED BY <2>2, <2>5, <4>1
    <3> QED BY <3>1
  <2> QED BY <2>2, <2>3, <2>5
<1>3. \A x \in Entities : ~Later(x) => RestNotRun(l)[x] = l[x]
  BY DEF RestNotRun
<1>4. DOMAIN RestNotRun(l) = Entities
  BY DEF RestNotRun
<1>5. /\ DOMAIN ledger' = Entities
      /\ \A x \in Entities : ~Later(x) => ledger'[x] = l[x]
  BY <1>1, <1>3, <1>4
<1>6. e \in Entities /\ \A i \in Turns : config.order[i] \in Entities \ {e}
  BY TurnAt
<1> HIDE DEF l, Later
<1> QED BY <1>1, <1>2, <1>5, <1>6 DEF LedgerInv, OutcomeAt

LEMMA Steady ==
    ASSUME UNCHANGED <<config, extract>>
    PROVE  UNCHANGED <<Loop!given, Loop!disk, Loop!told>>
  BY DEF Loop!given, Loop!disk, Loop!told

LEMMA TurnGoesOn ==
    ASSUME loop = "running", loop' = loop
    PROVE  Loop!NoRaise /\ StageOf(loop)' = StageOf(loop)
  BY DEF Loop!NoRaise, HasStopped, StageOf

LEMMA LoopStops ==
    ASSUME loop = "running", loop' = "stopped"
    PROVE  \A c : StoppedBy' = c => Loop!Raises(c)
  BY DEF Loop!Raises, Loop!Goto, HasStopped, StageOf

\* What the loop is at, as Pipeline sees it.
LEMMA LoopAt ==
    ASSUME TurnsInv, NEW e, Turn(e)
    PROVE  /\ StageOf(loop) = "transform" /\ position <= Len(config.order)
           /\ config.order[position] = e /\ loop = "running"
           /\ Loop!HasInput(e) <=> HasRows(e)
<1>1. \A f \in Lists[e] : f \in Files
  BY DeclarationsAssumption, TurnAt
<1> QED BY <1>1, TurnAt DEF Turn, StageOf, Loop!HasInput, HasRows

\* Stopping at a turn raises what the outcome of that turn says.
LEMMA StopsAt ==
    ASSUME TurnsInv, NEW e, Turn(e), UNCHANGED <<config, position>>
    PROVE  /\ ledger'[e].kind = "empty" => StoppedBy' = "empty_required_output"
           /\ ledger'[e].kind = "failed" => StoppedBy' = CategoryOf(ledger'[e].reason)
<1>1. /\ ~(position' > Len(config.order)')
      /\ OutcomeAt(position)' = ledger'[e]
  <2>1. position' = position /\ config' = config /\ Len(config.order) \in Nat
    BY CaseFacts DEF TurnsInv
  <2> QED BY <2>1, TurnAt DEF OutcomeAt
<1> QED BY <1>1 DEF StoppedBy

LEMMA EmptyTurnLoops ==
    ASSUME TurnsInv, LedgerInv, NEW e, Turn(e), NEW reason, EmptyTurn(e, reason),
           UNCHANGED <<config, extract>>
    PROVE  LedgerInv' /\ Loop!RecordEmpty(e, reason) /\ Isolated' = Isolated
<1> DEFINE recorded == [ledger EXCEPT ![e] = Empty(reason)]
<1>1. Loop!Observed(reason, e \in {}) = reason
  BY DEF Loop!Observed
<1>2. /\ Loop!Empty(reason) = Empty(reason)
      /\ Loop!StopsWhenEmpty(e, reason) <=> StopsWhenEmpty(e, reason)
      /\ Loop!WithRestNotRun(recorded, position) = RestNotRun(recorded)
  BY DEF Loop!Empty, Empty, Loop!StopsWhenEmpty, StopsWhenEmpty, Loop!EmptyIsExpected,
         EmptyIsExpected, Loop!NothingToSendReasons, NothingToSendReasons,
         Loop!WithRestNotRun, RestNotRun, Loop!NotRun, NotRun
<1>3. loop = "running"
  BY DEF Turn
<1>4. CASE StopsWhenEmpty(e, reason)
  <2>1. /\ ledger' = RestNotRun(recorded) /\ loop' = "stopped" /\ position' = position
    BY <1>4 DEF EmptyTurn
  <2>2. /\ LedgerInv' /\ ledger'[e] = Empty(reason)
        /\ \A i \in Turns : OutcomeAt(i)' = OutcomeAt(i)
    BY <2>1, RecordedFacts
  <2>3. StoppedBy' = "empty_required_output"
    <3>1. ledger'[e].kind = "empty"
      BY <2>2 DEF Empty
    <3> QED BY <2>1, <3>1, StopsAt
  <2>4. Isolated' = Isolated
    BY <2>1, <2>2, IsolatedWaits
  <2> QED BY <1>1, <1>2, <1>3, <1>4, <2>1, <2>2, <2>3, <2>4, LoopStops, TurnAt
          DEF Loop!RecordEmpty
<1>5. CASE ~StopsWhenEmpty(e, reason)
  <2>1. /\ ledger' = recorded /\ loop' = loop /\ position' = position + 1
    BY <1>5 DEF EmptyTurn
  <2>2. /\ LedgerInv' /\ ledger'[e] = Empty(reason)
        /\ \A i \in Turns : OutcomeAt(i)' = OutcomeAt(i)
    BY <2>1, RecordedFacts
  <2>3. Isolated' = Isolated
    BY <2>1, <2>2, IsolatedGoesOn DEF Empty
  <2> QED BY <1>1, <1>2, <1>3, <1>5, <2>1, <2>2, <2>3, TurnGoesOn DEF Loop!RecordEmpty
<1> QED BY <1>4, <1>5

\* A transform that returns builds its entity, or leaves it empty.
LEMMA TransformedLoops ==
    ASSUME TurnsInv, LedgerInv, NEW e, Transforms(e), NEW rows, NEW published,
           Transformed(e, rows, published)
    PROVE  LedgerInv' /\ Loop!TransformNext
<1>1. Turn(e) /\ Loop!HasInput(e) /\ UNCHANGED <<config, extract>>
  BY LoopAt DEF Transforms, Transformed
<1>2. UNCHANGED <<Loop!given, Loop!disk, Loop!told>>
  BY <1>1, Steady
<1>3. CASE rows # <<>>
  <2>1. ledger' = [ledger EXCEPT ![e] = Built] /\ position' = position + 1 /\ loop' = loop
    BY <1>3 DEF Transformed
  <2>2. /\ LedgerInv' /\ ledger'[e] = Built
        /\ \A i \in Turns : OutcomeAt(i)' = OutcomeAt(i)
    BY <1>1, <2>1, RecordedFacts
  <2>3. Isolated' = Isolated
    BY <1>1, <2>1, <2>2, IsolatedGoesOn DEF Built
  <2>4. Loop!NoRaise /\ StageOf(loop)' = StageOf(loop)
    BY <1>1, <2>1, LoopAt, TurnGoesOn
  <2>5. Loop!BuildEntity
    BY <1>1, <1>2, <2>1, <2>3, <2>4, LoopAt DEF Loop!BuildEntity, Loop!Built, Built
  <2> QED BY <2>2, <2>5 DEF Loop!TransformNext
<1>4. CASE rows = <<>>
  <2>1. PICK reason \in {"no_rows_after_transform", "required_values_missing"} :
            EmptyTurn(e, reason)
    BY <1>4 DEF Transformed
  <2>2. LedgerInv' /\ Loop!RecordEmpty(e, reason) /\ Isolated' = Isolated
    BY <1>1, <2>1, EmptyTurnLoops
  <2>3. Loop!EmptyEntity
    BY <1>1, <1>2, <2>2, LoopAt DEF Loop!EmptyEntity
  <2> QED BY <2>2, <2>3 DEF Loop!TransformNext
<1> QED BY <1>3, <1>4

\* The bulkhead: a critical entity's exception stops the loop.
LEMMA RaisedLoops ==
    ASSUME TurnsInv, LedgerInv, NEW e, Turn(e), HasRows(e),
           NEW reason \in {"missing_source_column", "transform_error"}, Raised(e, reason)
    PROVE  LedgerInv' /\ Loop!TransformNext
<1> DEFINE recorded == [ledger EXCEPT ![e] = Failed(reason)]
           fault == <<reason, CategoryOf(reason)>>
<1>1. Loop!HasInput(e) /\ UNCHANGED <<config, extract>>
  BY LoopAt DEF Raised
<1>2. UNCHANGED <<Loop!given, Loop!disk, Loop!told>>
  BY <1>1, Steady
<1>3. fault \in Loop!TransformFaults
  BY DEF Loop!TransformFaults, CategoryOf
<1>4. /\ Loop!Failed(reason) = Failed(reason)
      /\ Loop!WithRestNotRun(recorded, position) = RestNotRun(recorded)
  BY DEF Loop!Failed, Failed, Loop!WithRestNotRun, RestNotRun, Loop!NotRun, NotRun
<1>5. CASE e \in Isolatable
  <2>1. ledger' = recorded /\ loop' = loop /\ position' = position + 1
    BY <1>5 DEF Raised
  <2>2. /\ LedgerInv' /\ ledger'[e] = Failed(reason)
        /\ \A i \in Turns : OutcomeAt(i)' = OutcomeAt(i)
    BY <1>1, <2>1, RecordedFacts
  <2>3. Isolated' = IF Isolated = "none" THEN CategoryOf(reason) ELSE Isolated
    BY <1>1, <2>1, <2>2, IsolatedGoesOn DEF Failed
  <2>4. Loop!NoRaise /\ StageOf(loop)' = StageOf(loop)
    BY <2>1, LoopAt, TurnGoesOn
  <2>5. Loop!FailEntity
    BY <1>1, <1>2, <1>3, <1>4, <1>5, <2>1, <2>3, <2>4, LoopAt DEF Loop!FailEntity
  <2> QED BY <2>2, <2>5 DEF Loop!TransformNext
<1>6. CASE e \notin Isolatable
  <2>1. ledger' = RestNotRun(recorded) /\ loop' = "stopped" /\ position' = position
    BY <1>6 DEF Raised
  <2>2. /\ LedgerInv' /\ ledger'[e] = Failed(reason)
        /\ \A i \in Turns : OutcomeAt(i)' = OutcomeAt(i)
    BY <1>1, <2>1, RecordedFacts
  <2>3. StoppedBy' = CategoryOf(reason)
    <3>1. ledger'[e].kind = "failed" /\ ledger'[e].reason = reason
      BY <2>2 DEF Failed
    <3> QED BY <1>1, <2>1, <3>1, StopsAt
  <2>4. Isolated' = Isolated
    BY <1>1, <2>1, <2>2, IsolatedWaits
  <2>5. Loop!Raises(CategoryOf(reason))
    BY <2>1, <2>3, LoopAt, LoopStops
  <2>6. Loop!FailEntity
    BY <1>1, <1>2, <1>3, <1>4, <1>6, <2>1, <2>4, <2>5, LoopAt DEF Loop!FailEntity
  <2> QED BY <2>2, <2>6 DEF Loop!TransformNext
<1> QED BY <1>5, <1>6

\* Past the last turn: the first contained exception, when nothing was built.
LEMMA CompleteLoops ==
    ASSUME TurnsInv, LedgerInv, Complete
    PROVE  LedgerInv' /\ Loop!TransformNext
<1>1. /\ loop = "running" /\ position > Len(config.order) /\ StageOf(loop) = "transform"
      /\ loop' = IF NothingBuilt THEN "stopped" ELSE "built"
      /\ UNCHANGED <<config, extract, position, ledger>>
  BY DEF Complete, StageOf
<1>2. /\ position = Len(config.order) + 1 /\ Len(config.order) \in Nat
      /\ DOMAIN config.order = 1 .. Len(config.order)
      /\ Turns = DOMAIN config.order
  BY <1>1, CaseFacts DEF TurnsInv, OutputInv, Turns
<1>3. NothingBuilt <=> Isolated # "none" /\ Loop!BuiltSet = {}
  <2>1. ToSet(config.order) = {config.order[i] : i \in 1 .. Len(config.order)}
    BY <1>2 DEF ToSet
  <2>2. Contained = {} <=> ~\E x \in ToSet(config.order) : ledger[x].kind = "failed"
    BY <1>2, <2>1 DEF Contained, Turns, OutcomeAt
  <2> QED BY <2>1, <2>2, IsolatedFacts DEF NothingBuilt, Loop!BuiltSet, Loop!Configured
<1>4. Isolated' = Isolated
  BY <1>1, IsolatedWaits DEF OutcomeAt
<1>5. UNCHANGED <<Loop!given, Loop!disk, Loop!told>>
  BY <1>1, Steady
<1>6. CASE NothingBuilt
  <2>1. loop' = "stopped" /\ position' > Len(config.order)'
    BY <1>1, <1>6
  <2>2. StoppedBy' = Isolated
    BY <1>4, <2>1 DEF StoppedBy
  <2>3. Loop!Raises(Isolated)
    BY <1>1, <2>1, <2>2, LoopStops
  <2>4. Loop!EndTransform
    BY <1>1, <1>3, <1>4, <1>5, <1>6, <2>3 DEF Loop!EndTransform
  <2> QED BY <1>1, <2>4 DEF Loop!TransformNext, LedgerInv
<1>7. CASE ~NothingBuilt
  <2>1. Loop!Goto("integrity") /\ Loop!NoRaise
    BY <1>1, <1>7 DEF Loop!Goto, Loop!NoRaise, StageOf, HasStopped
  <2>2. Loop!EndTransform
    BY <1>1, <1>3, <1>4, <1>5, <1>7, <2>1 DEF Loop!EndTransform
  <2> QED BY <1>1, <2>2 DEF Loop!TransformNext, LedgerInv
<1> QED BY <1>6, <1>7

LEMMA SourcesEmptyLoops ==
    ASSUME TurnsInv, LedgerInv, SourcesEmpty
    PROVE  LedgerInv' /\ Loop!TransformNext
<1> DEFINE why(e) == IF Lists[e] = {} THEN "no_source_files_declared"
                       ELSE "source_files_empty"
<1>1. PICK e \in Entities : /\ Turn(e) /\ ~HasRows(e) /\ EmptyTurn(e, why(e))
                            /\ UNCHANGED <<config, extract>>
  BY DEF SourcesEmpty
<1>2. LedgerInv' /\ Loop!RecordEmpty(e, why(e)) /\ Isolated' = Isolated
  BY <1>1, EmptyTurnLoops
<1>3. UNCHANGED <<Loop!given, Loop!disk, Loop!told>>
  BY <1>1, Steady
<1>4. ~Loop!HasInput(e) /\ StageOf(loop) = "transform" /\ position <= Len(config.order)
      /\ config.order[position] = e
  BY <1>1, LoopAt
<1>5. Loop!SkipEntity
  BY <1>2, <1>3, <1>4 DEF Loop!SkipEntity, Loop!HasInput
<1> QED BY <1>2, <1>5 DEF Loop!TransformNext

LEMMA LoopStep ==
    ASSUME TurnsInv, LedgerInv, RosterNext
    PROVE  LedgerInv' /\ Loop!TransformNext
<1>1. ASSUME NEW e, Transforms(e), NEW rows, NEW published,
             Transformed(e, rows, published)
      PROVE  LedgerInv' /\ Loop!TransformNext
  BY <1>1, TransformedLoops
<1>2. CASE SourcesEmpty
  BY <1>2, SourcesEmptyLoops
<1>3. CASE EntityRaises
  BY <1>3, RaisedLoops DEF EntityRaises
<1>4. CASE BuildStudents
  BY <1>1, <1>4 DEF BuildStudents
<1>5. CASE BuildStaff
  BY <1>1, <1>5 DEF BuildStaff
<1>6. CASE BuildFamily
  BY <1>1, <1>6 DEF BuildFamily
<1>7. CASE BuildClasses
  BY <1>1, <1>7 DEF BuildClasses
<1>8. CASE BuildEnrollments
  BY <1>1, <1>8, RaisedLoops DEF BuildEnrollments, Transforms
<1>9. CASE BuildStudentCourses
  BY <1>1, <1>9 DEF BuildStudentCourses
<1>10. CASE BuildStudentAttendance
  BY <1>1, <1>10, RaisedLoops DEF BuildStudentAttendance, Transforms
<1>11. CASE Complete
  BY <1>11, CompleteLoops
<1> QED BY <1>2, <1>3, <1>4, <1>5, <1>6, <1>7, <1>8, <1>9, <1>10, <1>11 DEF RosterNext

LEMMA LoopStarts == RosterInit => LedgerInv /\ Loop!TransformInit
<1> SUFFICES ASSUME RosterInit PROVE LedgerInv /\ Loop!TransformInit
  OBVIOUS
<1>1. /\ config.order \in CaseOrders /\ loop = "running" /\ position = 1
      /\ ledger = [e \in Entities |-> Unset]
  BY DEF RosterInit, CaseOrders
<1>2. Contained = {}
  BY <1>1 DEF Contained
<1>3. Loop!Unset = Unset
  BY DEF Loop!Unset, Unset
<1> QED BY <1>1, <1>2, <1>3 DEF LedgerInv, Loop!TransformInit, StageOf, HasStopped, Isolated

\* Whatever the exports hold, what the transformers make of them is something
\* Pipeline lets the entity loop do (run_transform, entity by entity): so what
\* is proved of Pipeline for any choice of outcomes covers the outcomes the
\* transformers work out.
THEOREM RosterImplementsTransform == RosterSpec => ImplementsTransform
<1>1. TurnsInv /\ LedgerInv /\ [RosterNext]_rosterVars => LedgerInv'
  BY LoopStep DEF rosterVars, LedgerInv
<1>2. TurnsInv /\ LedgerInv /\ [RosterNext]_rosterVars
        => [Loop!TransformNext]_(Loop!vars)
  <2> SUFFICES ASSUME TurnsInv, LedgerInv, UNCHANGED rosterVars
               PROVE  UNCHANGED Loop!vars
    BY LoopStep
  <2>1. /\ UNCHANGED <<config, extract, loop, position, ledger>>
    BY DEF rosterVars
  <2>2. Isolated' = Isolated
    BY <2>1, IsolatedWaits DEF OutcomeAt
  <2>3. StoppedBy' = StoppedBy
    BY <2>1, <2>2 DEF StoppedBy, OutcomeAt
  <2> QED BY <2>1, <2>2, <2>3 DEF Loop!vars, HasStopped, StageOf
<1>3. RosterInv => TurnsInv
  BY DEF RosterInv
<1> QED BY <1>1, <1>2, <1>3, LoopStarts, RosterInvariant, PTL
        DEF RosterSpec, ImplementsTransform, Loop!TransformSpec

=============================================================================
