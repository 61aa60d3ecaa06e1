---------------------------- MODULE ConvertProofs ----------------------------
(***************************************************************************)
(* Proofs about Convert, for any districts, folders, entities, extracts    *)
(* and budgets.                                                            *)
(*                                                                         *)
(*   ConvertTypes    what every variable ranges over;                      *)
(*   Consents        an approval is spent on the run it was given for, and *)
(*                   nothing shrinks without one (ConsentIsForTheRun);     *)
(*   CardsSendTheirOwn  a card delivers its own run (CardSendsItsOwnRun);  *)
(*   TellsTheTruth   what the screen says happened (ToldIsTrue);           *)
(*   HistoriesAgree  and Home reads the same from the record               *)
(*                   (HistoryAgrees).                                      *)
(***************************************************************************)
EXTENDS Convert, SequenceTheorems, TLAPS

Picks == Districts \cup {Blank}
Whos == [district : Picks, folder : Folders \cup {Blank}]
Cells == [by : Districts \cup {Absent.by}, rows : Nat]

OutcomeRows == [entity : Entities, kind : {"built", "failed", "empty"},
                reason : {"none", "transform_error", "source_files_empty"}, notes : {{}}]

Records ==
    {NoRecord} \cup
    [source : {"manual"}, status : {"success", "failed"}, attempted : BOOLEAN, ok : BOOLEAN,
     outcomes : SUBSET OutcomeRows, odd : {FALSE}, dirty : BOOLEAN, deliveryOnly : BOOLEAN,
     district : Picks, at : {0}]

Places == {"prepare", "build", "write", "finish", "resolve", "upload", "over", "answered"}

Statuses == FailedStatuses \cup WroteOutput \cup Raised \cup
            {"none", "needs_anomaly_ack", "nothing_to_send", "delivered_from_disk"}

Jobs ==
    [kind : {"convert", "deliver"}, who : Whos, ack : Whos, run : Nat, visit : Nat, view : Whos,
     at : Places, rows : Nat, emit : SUBSET Entities, dirty : BOOLEAN,
     outcomes : SUBSET OutcomeRows, status : Statuses, record : Records, wrote : BOOLEAN,
     shrank : BOOLEAN, raced : BOOLEAN, stuck : BOOLEAN, late : BOOLEAN, foreign : BOOLEAN,
     sent : SUBSET (Districts \cup {Absent.by})]

Offers == {"hidden", "ready", "needs_credential", "district_changed"}

Slots == [kind : {"none", "ack", "note", "error", "banner"}, job : Nat, offer : Offers]
Dialogs == [kind : {"none", "nothing", "deliver"}, district : Picks, run : Nat]

Screens ==
    [here : BOOLEAN, outputSet : BOOLEAN, pick : Picks, folder : Folders \cup {Blank}, ack : Whos,
     runner : {"idle", "running", "done", "error"}, refused : BOOLEAN,
     slot : Slots, standalone : Offers, dialog : Dialogs]

TypeOK ==
    /\ saved \in [district : Picks, listed : SUBSET Districts, folder : Folders,
                  output : BOOLEAN, sftp : BOOLEAN, credential : BOOLEAN]
    /\ extract \in [Folders -> Nat]
    /\ output \in [Entities -> Cells]
    /\ writer \in {-1} \cup 0 .. Len(jobs)
    /\ jobs \in Seq(Jobs)
    /\ screen \in Screens
    /\ budget \in [{"jobs", "visits", "faults", "events"} -> Nat]

-----------------------------------------------------------------------------
(* What is so of each job.                                                 *)

\* What a job was started with: a conversion is the run the screen showed, and an
\* approval names the run it goes with.
AskedFor(job) ==
    /\ job.kind = "convert" =>
         job.who = job.view /\ job.who.district \in Districts /\ job.run = 0
                            /\ job.who.folder \in Folders
    /\ job.ack # NoRun => job.kind = "convert" /\ job.ack = job.who

\* Where a job of each kind can be, and what it has by then.
InPlace(job) ==
    /\ job.at \in {"prepare", "build", "write", "finish"} => job.kind = "convert"
    /\ job.at \in {"resolve", "upload"} => job.kind = "deliver"
    /\ job.kind = "deliver" => ~job.dirty /\ job.outcomes = {} /\ ~job.wrote /\ ~job.shrank
    /\ job.at \in {"prepare", "build", "write"} => ~job.wrote
    /\ job.at = "finish" => job.wrote
    /\ job.at \notin {"over", "answered"} => job.status = "none"

\* Nothing shrinks unseen: the look before the write holds until somebody else
\* writes.
Shrunk(job) == job.shrank /\ job.ack = NoRun => job.raced

LookHolds(job) ==
    job.at = "write" /\ job.ack = NoRun /\ ~job.raced =>
         \A e \in job.emit : ~DropsSharply(job.rows, output[e].rows)

\* What a verdict says was written was, and the other way round.
Truthful(job) ==
    job.at \in {"over", "answered"} =>
        /\ job.status # "none"
        /\ job.status = "needs_anomaly_ack" => job.kind = "convert" /\ ~job.wrote
        /\ job.status \in Raised => ~job.wrote \/ job.late
        /\ job.status \notin Raised \cup {"needs_anomaly_ack"} =>
             IF job.status \in WroteOutput /\ job.kind = "convert" THEN job.wrote ELSE ~job.wrote
        /\ job.status = "delivered_from_disk" => job.sent # {}
        /\ job.kind = "convert" => job.status # "built_not_delivered"
        /\ job.kind = "deliver" => job.status \notin SuccessShaped

Agreed(job) ==
    job.at = "over" =>
        IF job.status \in NotRecorded THEN job.record = NoRecord
        ELSE /\ job.record # NoRecord
             /\ VerdictForReason[LatestReason(job.record, NoBuild)] =
                  IF job.status = "raised" THEN "FAILED"
                  ELSE Summarize(job.status, job.outcomes)

\* A run whose card may offer a delivery.
CanOffer(r) ==
    /\ r \in 1 .. Len(jobs) /\ jobs[r].kind = "convert" /\ jobs[r].at = "answered"
    /\ jobs[r].status \in SuccessShaped

\* A delivery offered by a run's card is that run's.
OfItsRun(job) ==
    job.kind = "deliver" /\ job.run # 0 =>
        /\ CanOffer(job.run)
        /\ job.who.district = job.view.district
        /\ job.who.district = jobs[job.run].who.district
        /\ job.sent \subseteq {job.who.district} \/ job.foreign \/ jobs[job.run].stuck

\* What is so of a job whatever became of the folder and of the other jobs.
Sound(job) == AskedFor(job) /\ InPlace(job) /\ Shrunk(job) /\ Truthful(job) /\ Agreed(job)

JobsInv ==
    \A j \in 1 .. Len(jobs) : Sound(jobs[j]) /\ LookHolds(jobs[j]) /\ OfItsRun(jobs[j])

-----------------------------------------------------------------------------
(* The folder, and who wrote it last.                                      *)

OnlyBy(d, files) == \A e \in files : output[e] # Absent => output[e].by = d

FolderInv ==
    writer > 0 =>
        LET job == jobs[writer]
        IN  /\ job.kind = "convert" /\ job.at \in {"finish", "over", "answered"}
            /\ job.at = "finish" => OnlyBy(job.who.district, job.emit)
            /\ job.status \in SuccessShaped /\ ~job.stuck =>
                 OnlyBy(job.who.district, Entities)

-----------------------------------------------------------------------------
(* The screen.                                                             *)

Mine(job) == screen.here /\ job.visit = budget.visits

\* One job of a visit runs at a time, over the inputs the screen shows.
RunnerInv ==
    /\ \A j \in 1 .. Len(jobs) :
         /\ jobs[j].visit >= budget.visits
         /\ Mine(jobs[j]) /\ jobs[j].at # "answered" =>
              /\ screen.runner = "running"
              /\ jobs[j].view = Identity(screen.pick, screen.folder)
              /\ \A k \in 1 .. Len(jobs) :
                   Mine(jobs[k]) /\ jobs[k].at # "answered" => k = j
    /\ screen.runner = "running" =>
         screen.slot.kind = "none" /\ screen.ack = NoRun
    /\ ~screen.here => screen = Away
    /\ screen.here => screen.folder \in Folders

\* What is painted is of an answered job, and a question freezes its inputs.
SlotInv ==
    LET slot == screen.slot
        job == jobs[slot.job]
    IN  /\ screen.refused => slot.kind = "banner" /\ job.status = "output_folder_unusable"
        /\ slot.kind # "none" => slot.job \in 1 .. Len(jobs) /\ job.at = "answered"
        /\ slot.kind \in {"ack", "note"} => job.status = "needs_anomaly_ack"
        /\ slot.kind = "ack" =>
             screen.ack = job.who /\ job.who = Identity(screen.pick, screen.folder)
        /\ slot.kind = "error" => job.status \in Raised
        /\ slot.kind = "banner" =>
             /\ job.status \notin Raised \cup {"needs_anomaly_ack"}
             /\ job.kind = "convert" \/ job.run # 0 => screen.pick # Blank
        /\ slot.offer = "ready" =>
             /\ slot.kind = "banner" /\ Offerable(job)
             /\ job.who.district = DeliverDistrict(screen.pick)

\* A question about a delivery from a run's card is about that run.
DialogInv ==
    LET dialog == screen.dialog
    IN  /\ dialog.kind = "none" => dialog.run = 0
        /\ dialog.run # 0 =>
             /\ CanOffer(dialog.run)
             /\ dialog.district = jobs[dialog.run].who.district
             /\ dialog.district = screen.pick

Inv == JobsInv /\ FolderInv /\ RunnerInv /\ SlotInv /\ DialogInv

-----------------------------------------------------------------------------
(* The values the actions build.                                           *)

\* What no step of a job changes.
SameRequest(old, new) ==
    /\ new.kind = old.kind /\ new.who = old.who /\ new.ack = old.ack /\ new.run = old.run
    /\ new.visit = old.visit /\ new.view = old.view

SameHistory(old, new) ==
    /\ new.wrote = old.wrote /\ new.shrank = old.shrank /\ new.raced = old.raced
    /\ new.late = old.late

SameDelivery(old, new) ==
    new.sent = old.sent /\ new.foreign = old.foreign /\ new.stuck = old.stuck

Over(new, status, record) ==
    /\ new.at = "over" /\ new.status = status /\ new.record = record
    /\ new.rows = 0 /\ new.emit = {} /\ ~new.dirty

LEMMA EndsJob ==
    ASSUME NEW job \in Jobs, NEW status \in Statuses, NEW record \in Records
    PROVE  /\ Ends(job, status, record) \in Jobs
           /\ SameRequest(job, Ends(job, status, record))
           /\ SameHistory(job, Ends(job, status, record))
           /\ SameDelivery(job, Ends(job, status, record))
           /\ Over(Ends(job, status, record), status, record)
           /\ Ends(job, status, record).outcomes = job.outcomes
  BY DEF Ends, Jobs, SameRequest, SameHistory, SameDelivery, Over, Places

LEMMA RecordType ==
    ASSUME NEW job \in Jobs, NEW status \in {"success", "failed"},
           NEW attempted \in BOOLEAN, NEW ok \in BOOLEAN
    PROVE  /\ Record(job, status, attempted, ok) \in Records
           /\ [Record(job, status, attempted, ok) EXCEPT !.dirty = FALSE] \in Records
<1> DEFINE alone == job.kind = "deliver"
           row == [source |-> "manual", status |-> status, attempted |-> attempted, ok |-> ok,
                   outcomes |-> job.outcomes, odd |-> FALSE, dirty |-> job.dirty,
                   deliveryOnly |-> alone, district |-> job.who.district, at |-> 0]
           rows == [source : {"manual"}, status : {"success", "failed"}, attempted : BOOLEAN,
                    ok : BOOLEAN, outcomes : SUBSET OutcomeRows, odd : {FALSE},
                    dirty : BOOLEAN, deliveryOnly : BOOLEAN, district : Picks, at : {0}]
<1>1. alone \in BOOLEAN
  OBVIOUS
<1>2. job.outcomes \in SUBSET OutcomeRows /\ job.dirty \in BOOLEAN /\ job.who.district \in Picks
  BY DEF Jobs, Whos
<1> HIDE DEF alone
<1>3. row \in rows /\ [row EXCEPT !.dirty = FALSE] \in rows
  BY <1>1, <1>2
<1>4. rows \subseteq Records
  BY DEF Records
<1>5. Record(job, status, attempted, ok) = row
  BY DEF Record, alone
<1> HIDE DEF row, rows
<1> QED BY <1>3, <1>4, <1>5

LEMMA NoRecordType == NoRecord \in Records
  BY DEF Records

-----------------------------------------------------------------------------
(* Steps of the list of jobs.                                              *)

LEMMA GoesStep ==
    ASSUME jobs \in Seq(Jobs), NEW j \in 1 .. Len(jobs), NEW job \in Jobs, Goes(j, job)
    PROVE  /\ jobs' \in Seq(Jobs) /\ Len(jobs') = Len(jobs)
           /\ jobs'[j] = job
           /\ \A k \in 1 .. Len(jobs) : k # j => jobs'[k] = jobs[k]
  BY DEF Goes

LEMMA AppendStep ==
    ASSUME jobs \in Seq(Jobs), NEW job \in Jobs, jobs' = Append(jobs, job)
    PROVE  /\ jobs' \in Seq(Jobs) /\ Len(jobs') = Len(jobs) + 1
           /\ jobs'[Len(jobs) + 1] = job
           /\ \A k \in 1 .. Len(jobs) : jobs'[k] = jobs[k]
  OBVIOUS

Overtake(job) == [job EXCEPT !.raced = @ \/ job.at = "write"]

LEMMA OvertakenType == \A job \in Jobs : Overtake(job) \in Jobs
  BY DEF Overtake, Jobs

LEMMA FunctionIsSeq ==
    ASSUME NEW S, NEW n \in Nat, NEW f \in [1 .. n -> S]
    PROVE  f \in Seq(S) /\ Len(f) = n
  OBVIOUS

LEMMA OvertakenStep ==
    ASSUME NEW js \in Seq(Jobs)
    PROVE  /\ Overtaken(js) \in Seq(Jobs) /\ Len(Overtaken(js)) = Len(js)
           /\ \A k \in 1 .. Len(js) : Overtaken(js)[k] = Overtake(js[k])
<1>1. ASSUME NEW i \in 1 .. Len(js) PROVE Overtake(js[i]) \in Jobs
  <2>1. js[i] \in Jobs
    OBVIOUS
  <2> QED BY <2>1, OvertakenType
<1>2. Overtaken(js) = [i \in 1 .. Len(js) |-> Overtake(js[i])]
  BY DEF Overtaken, Overtake
<1>3. Overtaken(js) \in [1 .. Len(js) -> Jobs]
  BY <1>1, <1>2
<1>4. Overtaken(js) \in Seq(Jobs) /\ Len(Overtaken(js)) = Len(js)
  BY <1>3, FunctionIsSeq
<1> QED BY <1>2, <1>4

-----------------------------------------------------------------------------
(* The screen's values.                                                    *)

LEMMA RefreshedIs ==
    ASSUME NEW s
    PROVE  /\ s.slot.kind = "banner" =>
                Refreshed(s) = [s EXCEPT !.slot.offer = ResultOffer(jobs[s.slot.job], s.pick)]
           /\ s.slot.kind = "none" => Refreshed(s) = [s EXCEPT !.standalone = Standalone(s.pick)]
           /\ s.slot.kind \notin {"banner", "none"} => Refreshed(s) = s
<1>1. ASSUME s.slot.kind = "banner"
      PROVE  Refreshed(s) = [s EXCEPT !.slot.offer = ResultOffer(jobs[s.slot.job], s.pick)]
  BY <1>1, Zenon DEF Refreshed
<1>2. ASSUME s.slot.kind = "none"
      PROVE  Refreshed(s) = [s EXCEPT !.standalone = Standalone(s.pick)]
  BY <1>2, Zenon DEF Refreshed
<1>3. ASSUME s.slot.kind # "banner", s.slot.kind # "none" PROVE Refreshed(s) = s
  BY <1>3, Zenon DEF Refreshed
<1> QED BY <1>1, <1>2, <1>3

LEMMA OfferTypes ==
    /\ \A pick : Standalone(pick) \in Offers
    /\ \A job, pick : ResultOffer(job, pick) \in Offers
  BY DEF Standalone, StandaloneDeliver, ResultOffer, ResultDeliver, Offers

LEMMA ScreenTypes ==
    /\ Away \in Screens
    /\ \A s \in Screens :
         /\ s.slot \in Slots /\ s.dialog \in Dialogs
         /\ \A pick \in Picks : [s EXCEPT !.pick = pick] \in Screens
         /\ \A x \in Folders : [s EXCEPT !.folder = x] \in Screens
         /\ \A d \in Dialogs : [s EXCEPT !.dialog = d] \in Screens
         /\ \A o \in Offers : [s EXCEPT !.standalone = o] \in Screens
         /\ \A slot \in Slots : [s EXCEPT !.slot = slot] \in Screens
    /\ \A slot \in Slots :
         /\ \A o \in Offers : [slot EXCEPT !.offer = o] \in Slots
         /\ [slot EXCEPT !.kind = "note"] \in Slots
    /\ NoSlot \in Slots /\ NoDialog \in Dialogs /\ NoRun \in Whos
<1>1. NoSlot \in Slots /\ NoDialog \in Dialogs /\ NoRun \in Whos
  BY DEF NoSlot, Slots, NoDialog, Dialogs, NoRun, Identity, Whos, Picks, Offers
<1>2. Away \in Screens
  BY <1>1 DEF Away, Screens, Picks, Offers
<1>3. ASSUME NEW s \in Screens
      PROVE  /\ s.slot \in Slots /\ s.dialog \in Dialogs
             /\ \A pick \in Picks : [s EXCEPT !.pick = pick] \in Screens
             /\ \A x \in Folders : [s EXCEPT !.folder = x] \in Screens
             /\ \A d \in Dialogs : [s EXCEPT !.dialog = d] \in Screens
             /\ \A o \in Offers : [s EXCEPT !.standalone = o] \in Screens
             /\ \A slot \in Slots : [s EXCEPT !.slot = slot] \in Screens
  BY DEF Screens
<1>4. ASSUME NEW slot \in Slots
      PROVE  /\ \A o \in Offers : [slot EXCEPT !.offer = o] \in Slots
             /\ [slot EXCEPT !.kind = "note"] \in Slots
  BY DEF Slots
<1> QED BY <1>1, <1>2, <1>3, <1>4

LEMMA RefreshedType == \A s \in Screens : Refreshed(s) \in Screens
<1> SUFFICES ASSUME NEW s \in Screens PROVE Refreshed(s) \in Screens
  OBVIOUS
<1>1. CASE s.slot.kind = "banner"
  <2> DEFINE o == ResultOffer(jobs[s.slot.job], s.pick)
  <2>1. o \in Offers
    BY OfferTypes
  <2> HIDE DEF o
  <2>2. [s EXCEPT !.slot = [s.slot EXCEPT !.offer = o]] \in Screens
    BY <2>1, ScreenTypes
  <2>3. Refreshed(s) = [s EXCEPT !.slot.offer = o]
    BY <1>1, RefreshedIs DEF o
  <2> QED BY <2>2, <2>3
<1>2. CASE s.slot.kind = "none"
  BY <1>2, RefreshedIs, OfferTypes, ScreenTypes
<1>3. CASE s.slot.kind \notin {"banner", "none"}
  BY <1>3, RefreshedIs
<1> QED BY <1>1, <1>2, <1>3

LEMMA NewJobIs ==
    ASSUME TypeOK, NEW kind \in {"convert", "deliver"}, NEW who \in Whos, NEW ack \in Whos,
           NEW run \in Nat, NEW job, job = NewJob(kind, who, ack, run)
    PROVE  /\ job \in Jobs
           /\ job.kind = kind /\ job.who = who /\ job.ack = ack /\ job.run = run
           /\ job.visit = budget.visits
           /\ job.view = Identity(screen.pick, screen.folder)
           /\ job.at = IF kind = "convert" THEN "prepare" ELSE "resolve"
           /\ job.status = "none" /\ ~job.dirty /\ job.outcomes = {} /\ ~job.wrote
           /\ ~job.shrank /\ job.sent = {} /\ ~job.late
<1>1. budget.visits \in Nat
  BY DEF TypeOK
<1>2. Identity(screen.pick, screen.folder) \in Whos
  BY DEF TypeOK, Screens, Identity, Whos
<1>3. NoRecord \in Records
  BY NoRecordType
<1>4. (IF kind = "convert" THEN "prepare" ELSE "resolve") \in Places
  BY DEF Places
<1>5. "none" \in Statuses
  BY DEF Statuses
<1> QED BY <1>1, <1>2, <1>3, <1>4, <1>5 DEF NewJob, Jobs

-----------------------------------------------------------------------------
(* The two verdicts: the card's and the record's.                          *)

LEMMA ReasonIs ==
    ASSUME NEW r, NEW b
    PROVE  /\ r.status # "success" => LatestReason(r, b) = "failed_etl"
           /\ r.status = "success" /\ r.attempted /\ ~r.ok =>
                LatestReason(r, b) = "failed_delivery"
           /\ r.status = "success" /\ (~r.attempted \/ r.ok) /\ ~r.odd =>
                LatestReason(r, b) =
                  IF LeftOutOutcomes(r, b) # {} THEN "partial"
                  ELSE IF r.dirty THEN "data_warnings" ELSE "clean"
<1>1. ASSUME r.status # "success" PROVE LatestReason(r, b) = "failed_etl"
  BY <1>1, Zenon DEF LatestReason
<1>2. ASSUME r.status = "success", r.attempted, ~r.ok
      PROVE  LatestReason(r, b) = "failed_delivery"
  BY <1>2, Zenon DEF LatestReason
<1>3. ASSUME r.status = "success", ~r.attempted \/ r.ok, ~r.odd
      PROVE  LatestReason(r, b) =
                  IF LeftOutOutcomes(r, b) # {} THEN "partial"
                  ELSE IF r.dirty THEN "data_warnings" ELSE "clean"
  BY <1>3, Zenon DEF LatestReason
<1> QED BY <1>1, <1>2, <1>3

LEMMA SummaryIs ==
    ASSUME NEW status, NEW outcomes
    PROVE  /\ status \in FailedStatuses \cup {"built_not_delivered"} =>
                Summarize(status, outcomes) = "FAILED"
           /\ status = "delivered" =>
                Summarize(status, outcomes) =
                  IF WarningOutcomes(outcomes) # {} THEN "WARNING" ELSE "HEALTHY"
           /\ status = "built_with_data_errors" => Summarize(status, outcomes) = "WARNING"
           /\ status \in {"nothing_to_send", "delivered_from_disk"} =>
                Summarize(status, outcomes) = "HEALTHY"
<1>1. ASSUME status \in FailedStatuses \cup {"built_not_delivered"}
      PROVE  Summarize(status, outcomes) = "FAILED"
  <2>1. status \notin SuccessShaped
    BY <1>1 DEF FailedStatuses, SuccessShaped
  <2>2. status # "built_with_data_errors" /\ status # "needs_anomaly_ack"
    BY <1>1 DEF FailedStatuses
  <2> QED BY <1>1, <2>1, <2>2, Zenon DEF Summarize
<1>2. ASSUME status = "delivered", WarningOutcomes(outcomes) # {}
      PROVE  Summarize(status, outcomes) = "WARNING"
  BY <1>2, Zenon DEF Summarize, SuccessShaped, FailedStatuses
<1>3. ASSUME status = "delivered", WarningOutcomes(outcomes) = {}
      PROVE  Summarize(status, outcomes) = "HEALTHY"
  BY <1>3, Zenon DEF Summarize, SuccessShaped, FailedStatuses
<1>4. ASSUME status = "built_with_data_errors"
      PROVE  Summarize(status, outcomes) = "WARNING"
  <2>1. CASE WarningOutcomes(outcomes) # {}
    BY <1>4, <2>1, Zenon DEF Summarize, SuccessShaped, FailedStatuses
  <2>2. CASE WarningOutcomes(outcomes) = {}
    BY <1>4, <2>2, Zenon DEF Summarize, SuccessShaped, FailedStatuses
  <2> QED BY <2>1, <2>2
<1>5. ASSUME status = "nothing_to_send" \/ status = "delivered_from_disk"
      PROVE  Summarize(status, outcomes) = "HEALTHY"
  BY <1>5, Zenon DEF Summarize, SuccessShaped, FailedStatuses
<1> QED BY <1>1, <1>2, <1>3, <1>4, <1>5

\* A night with nothing to send left nothing out.
LEMMA NothingIsNoWarning ==
    ASSUME NEW outcomes,
           \A o \in outcomes : /\ o.kind = "empty" /\ o.notes = {}
                               /\ EmptyIsExpected(o.entity, o.reason)
    PROVE  WarningOutcomes(outcomes) = {}
<1>1. ASSUME NEW o \in outcomes PROVE OutcomeTier(o) = "HEALTHY"
  <2>1. KindTier(o) = "HEALTHY"
    BY Zenon DEF KindTier
  <2>2. ~ \E n \in o.notes : NoteTier[n] = "WARNING"
    OBVIOUS
  <2> QED BY <2>1, <2>2 DEF OutcomeTier
<1> QED BY <1>1 DEF WarningOutcomes

-----------------------------------------------------------------------------
(* How a job ends.                                                         *)

LEMMA EndsSound ==
    ASSUME NEW job \in Jobs, Sound(job), job.at \notin {"over", "answered"},
           NEW status \in Statuses \ {"none"}, NEW record \in Records,
           status = "needs_anomaly_ack" => job.kind = "convert" /\ ~job.wrote,
           status \in Raised => ~job.wrote \/ job.late,
           status \notin Raised \cup {"needs_anomaly_ack"} =>
             IF status \in WroteOutput /\ job.kind = "convert" THEN job.wrote ELSE ~job.wrote,
           status = "delivered_from_disk" => job.sent # {},
           job.kind = "convert" => status # "built_not_delivered",
           job.kind = "deliver" => status \notin SuccessShaped,
           IF status \in NotRecorded THEN record = NoRecord
           ELSE /\ record # NoRecord
                /\ VerdictForReason[LatestReason(record, NoBuild)] =
                     IF status = "raised" THEN "FAILED" ELSE Summarize(status, job.outcomes)
    PROVE  /\ Ends(job, status, record) \in Jobs
           /\ SameRequest(job, Ends(job, status, record))
           /\ SameDelivery(job, Ends(job, status, record))
           /\ Ends(job, status, record).at = "over"
           /\ Ends(job, status, record).status = status
           /\ Sound(Ends(job, status, record))
<1>0. status \in Statuses
  OBVIOUS
<1> DEFINE new == Ends(job, status, record)
<1>1. /\ new \in Jobs /\ SameRequest(job, new) /\ SameHistory(job, new)
      /\ SameDelivery(job, new) /\ Over(new, status, record)
      /\ new.outcomes = job.outcomes
  BY <1>0, EndsJob
<1> HIDE DEF new
<1>2. AskedFor(new) /\ Shrunk(new)
  BY <1>1 DEF Sound, AskedFor, Shrunk, SameRequest, SameHistory
<1>3. InPlace(new)
  BY <1>1 DEF Sound, InPlace, SameRequest, SameHistory, Over
<1>4. Truthful(new)
  BY <1>1 DEF Truthful, SameRequest, SameHistory, SameDelivery, Over
<1>5. Agreed(new)
  BY <1>1 DEF Agreed, Over
<1> QED BY <1>1, <1>2, <1>3, <1>4, <1>5 DEF Sound, Over, new

\* A job the person has to do something about is told and not recorded.
LEMMA EndsUntold ==
    ASSUME NEW job \in Jobs, Sound(job), job.at \notin {"over", "answered"}, ~job.wrote,
           NEW status \in {"no_input", "needs_anomaly_ack", "output_folder_unusable", "unset"},
           status = "needs_anomaly_ack" => job.kind = "convert"
    PROVE  LET new == Ends(job, status, NoRecord)
           IN  /\ new \in Jobs /\ SameRequest(job, new) /\ SameDelivery(job, new)
               /\ new.at = "over" /\ new.status = status /\ Sound(new)
<1>1. status \in Statuses \ {"none"} /\ status \in NotRecorded
  BY DEF Statuses, NotRecorded, FailedStatuses, Raised
<1>2. status \notin WroteOutput /\ status \notin SuccessShaped
      /\ status # "delivered_from_disk" /\ status # "built_not_delivered"
  BY DEF WroteOutput, SuccessShaped
<1> QED BY <1>1, <1>2, NoRecordType, EndsSound

\* A failure that is recorded is a failure on both.
LEMMA EndsFailed ==
    ASSUME NEW job \in Jobs, Sound(job), job.at \notin {"over", "answered"},
           NEW status \in {"no_output", "incomplete_roster", "raised"},
           ~job.wrote \/ (status = "raised" /\ job.late),
           NEW record \in Records, record.status = "failed"
    PROVE  LET new == Ends(job, status, record)
           IN  /\ new \in Jobs /\ SameRequest(job, new) /\ SameDelivery(job, new)
               /\ new.at = "over" /\ new.status = status /\ Sound(new)
<1>1. status \in Statuses \ {"none"} /\ status \notin NotRecorded
  BY DEF Statuses, NotRecorded, FailedStatuses, Raised
<1>2. status \notin WroteOutput /\ status \notin SuccessShaped
      /\ status # "delivered_from_disk" /\ status # "built_not_delivered"
      /\ status # "needs_anomaly_ack"
  BY DEF WroteOutput, SuccessShaped
<1>3. record # NoRecord
  BY DEF NoRecord
<1>4. VerdictForReason[LatestReason(record, NoBuild)] = "FAILED"
  BY ReasonIs DEF VerdictForReason
<1>5. status # "raised" => Summarize(status, job.outcomes) = "FAILED"
  BY SummaryIs DEF FailedStatuses
<1>6. status \in Raised <=> status = "raised"
  BY DEF Raised
<1> QED BY <1>1, <1>2, <1>3, <1>4, <1>5, <1>6, EndsSound

-----------------------------------------------------------------------------
(* The steps of a job.                                                     *)

\* The job's next state, whichever step it takes.
Follows(old, new) ==
    /\ new \in Jobs /\ SameRequest(old, new) /\ Sound(new)
    /\ new.at \notin {"prepare", "resolve"}

\* A job that takes no step, whoever else does.
Kept(old, new) ==
    /\ new \in Jobs /\ SameRequest(old, new) /\ SameDelivery(old, new) /\ Sound(new)
    /\ new.at = old.at /\ new.status = old.status /\ new.emit = old.emit

LEMMA AnsweredFollows ==
    ASSUME NEW job \in Jobs, Sound(job), job.at = "over"
    PROVE  /\ Follows(job, Answered(job)) /\ SameDelivery(job, Answered(job))
           /\ Answered(job).at = "answered" /\ Answered(job).status = job.status
<1> DEFINE new == Answered(job)
<1>1. new \in Jobs
  BY DEF Answered, Jobs, Places, Records
<1>2. /\ SameRequest(job, new) /\ SameDelivery(job, new)
      /\ new.at = "answered" /\ new.status = job.status
      /\ new.dirty = job.dirty /\ new.outcomes = {}
      /\ new.wrote = job.wrote /\ new.late = job.late
      /\ ~new.shrank
  BY DEF Answered, Jobs, SameRequest, SameDelivery
<1> HIDE DEF new
<1>3. AskedFor(new) /\ Shrunk(new) /\ InPlace(new) /\ Agreed(new)
  BY <1>2 DEF Sound, AskedFor, Shrunk, InPlace, Agreed, SameRequest
<1>4. Truthful(new)
  BY <1>2 DEF Sound, Truthful, SameRequest, SameDelivery
<1> QED BY <1>1, <1>2, <1>3, <1>4 DEF Sound, Follows, new

\* Another writer's files are in the folder a job has looked at.
LEMMA OvertakenFollows ==
    ASSUME NEW job \in Jobs, Sound(job)
    PROVE  /\ Kept(job, Overtake(job))
           /\ Overtake(job).at = "write" => Overtake(job).raced
<1> DEFINE new == Overtake(job)
<1>1. new \in Jobs
  BY OvertakenType
<1>2. /\ SameRequest(job, new) /\ SameDelivery(job, new)
      /\ new.at = job.at /\ new.status = job.status /\ new.emit = job.emit
      /\ new.dirty = job.dirty /\ new.outcomes = job.outcomes
      /\ new.wrote = job.wrote /\ new.late = job.late /\ new.record = job.record
      /\ new.shrank = job.shrank
  BY DEF Jobs, Overtake, SameRequest, SameDelivery
<1>3. (job.raced => new.raced) /\ (new.at = "write" => new.raced)
  BY DEF Jobs, Overtake
<1> HIDE DEF new
<1>4. AskedFor(new) /\ Shrunk(new) /\ InPlace(new) /\ Agreed(new)
  BY <1>2, <1>3 DEF Sound, AskedFor, Shrunk, InPlace, Agreed, SameRequest
<1>5. Truthful(new)
  BY <1>2 DEF Sound, Truthful, SameRequest, SameDelivery
<1> QED BY <1>1, <1>2, <1>3, <1>4, <1>5 DEF Sound, Kept, new

LEMMA AdvanceFollows ==
    ASSUME NEW job \in Jobs, Sound(job), NEW place \in {"build", "write", "upload"},
           job.kind = (IF place = "upload" THEN "deliver" ELSE "convert"),
           job.at \in {"prepare", "build", "resolve"},
           NEW new, new = [job EXCEPT !.at = place]
    PROVE  /\ Follows(job, new) /\ SameDelivery(job, new)
           /\ new.at = place /\ new.status = "none"
           /\ new.emit = job.emit /\ new.rows = job.rows
<1>1. new \in Jobs
  BY DEF Jobs, Places
<1>2. /\ SameRequest(job, new) /\ SameDelivery(job, new)
      /\ new.at = place /\ new.status = job.status
      /\ new.emit = job.emit /\ new.rows = job.rows
      /\ new.dirty = job.dirty /\ new.outcomes = job.outcomes
      /\ new.wrote = job.wrote /\ new.shrank = job.shrank /\ new.raced = job.raced
  BY DEF Jobs, SameRequest, SameDelivery
<1>3. job.status = "none"
  BY DEF Sound, InPlace
<1>4. ~job.wrote
  BY DEF Sound, InPlace
<1>5. AskedFor(new) /\ Shrunk(new) /\ Truthful(new) /\ Agreed(new)
  BY <1>2 DEF Sound, AskedFor, Shrunk, Truthful, Agreed, SameRequest
<1>6. InPlace(new)
  BY <1>2, <1>3, <1>4 DEF Sound, InPlace, SameRequest
<1> QED BY <1>1, <1>2, <1>3, <1>5, <1>6 DEF Sound, Follows

LEMMA PrepareSteps ==
    ASSUME TypeOK, NEW j \in 1 .. Len(jobs), Sound(jobs[j]), Prepare(j) \/ PrepareFails(j)
    PROVE  \E new : /\ Goes(j, new) /\ Follows(jobs[j], new) /\ SameDelivery(jobs[j], new)
                    /\ new.at \in {"build", "over"} /\ new.status \notin SuccessShaped
<1> DEFINE job == jobs[j]
<1>1. job \in Jobs /\ job.kind = "convert" /\ job.at = "prepare" /\ ~job.wrote
  BY DEF TypeOK, Prepare, PrepareFails, AtStep, Sound, InPlace
<1>2. \/ Goes(j, [job EXCEPT !.at = "build"])
      \/ Goes(j, Ends(job, "unset", NoRecord))
      \/ Goes(j, Raises(job))
      \/ Goes(j, Ends(job, "output_folder_unusable", NoRecord))
  BY DEF Prepare, PrepareFails
<1> HIDE DEF job
<1>3. CASE Goes(j, [job EXCEPT !.at = "build"])
  BY <1>1, <1>3, AdvanceFollows DEF SuccessShaped, job
<1>4. ASSUME NEW status \in {"unset", "output_folder_unusable"},
             Goes(j, Ends(job, status, NoRecord))
      PROVE  \E new : /\ Goes(j, new) /\ Follows(job, new) /\ SameDelivery(job, new)
                      /\ new.at \in {"build", "over"} /\ new.status \notin SuccessShaped
  BY <1>1, <1>4, EndsUntold DEF Follows, SuccessShaped, job
<1>5. CASE Goes(j, Raises(job))
  <2> DEFINE record == [Record(job, "failed", FALSE, FALSE) EXCEPT !.dirty = FALSE]
  <2>1. record \in Records /\ record.status = "failed"
    BY <1>1, RecordType DEF Record
  <2>2. Raises(job) = Ends(job, "raised", record)
    BY DEF Raises
  <2> HIDE DEF record
  <2> QED BY <1>1, <1>5, <2>1, <2>2, EndsFailed DEF Follows, SuccessShaped, job
<1> QED BY <1>2, <1>3, <1>4, <1>5 DEF job

-----------------------------------------------------------------------------
(* What the record of a success says.                                      *)

LEMMA BuiltVerdict ==
    ASSUME NEW job \in Jobs, job.kind = "convert"
    PROVE  VerdictForReason[LatestReason(Record(job, "success", FALSE, FALSE), NoBuild)] =
             IF WarningOutcomes(job.outcomes) # {} \/ job.dirty THEN "WARNING" ELSE "HEALTHY"
<1> DEFINE r == Record(job, "success", FALSE, FALSE)
<1>1. /\ r.status = "success" /\ ~r.attempted /\ ~r.odd /\ r.dirty = job.dirty
      /\ r.outcomes = job.outcomes /\ ~r.deliveryOnly
  BY DEF Record
<1> HIDE DEF r
<1>2. LeftOutOutcomes(r, NoBuild) = WarningOutcomes(job.outcomes)
  BY <1>1 DEF LeftOutOutcomes
<1>3. LatestReason(r, NoBuild) =
        IF WarningOutcomes(job.outcomes) # {} THEN "partial"
        ELSE IF r.dirty THEN "data_warnings" ELSE "clean"
  BY <1>1, <1>2, ReasonIs
<1>4. LatestReason(r, NoBuild) \in {"partial", "data_warnings"} =>
        VerdictForReason[LatestReason(r, NoBuild)] = "WARNING"
  BY DEF VerdictForReason
<1>5. LatestReason(r, NoBuild) = "clean" => VerdictForReason[LatestReason(r, NoBuild)] = "HEALTHY"
  BY DEF VerdictForReason
<1> QED BY <1>1, <1>3, <1>4, <1>5 DEF r

LEMMA DeliveredVerdict ==
    ASSUME NEW job \in Jobs, job.kind = "deliver", ~job.dirty, NEW ok \in BOOLEAN
    PROVE  VerdictForReason[LatestReason(Record(job, "success", TRUE, ok), NoBuild)] =
             IF ok THEN "HEALTHY" ELSE "FAILED"
<1> DEFINE r == Record(job, "success", TRUE, ok)
<1>1. r.status = "success" /\ r.attempted /\ r.ok = ok /\ ~r.odd /\ r.dirty = job.dirty
      /\ r.deliveryOnly
  BY DEF Record
<1> HIDE DEF r
<1>2. LeftOutOutcomes(r, NoBuild) = {}
  BY <1>1 DEF LeftOutOutcomes, NoBuild, WarningOutcomes
<1>3. LatestReason(r, NoBuild) = IF ok THEN "clean" ELSE "failed_delivery"
  BY <1>1, <1>2, ReasonIs
<1>4. VerdictForReason["clean"] = "HEALTHY" /\ VerdictForReason["failed_delivery"] = "FAILED"
  BY DEF VerdictForReason
<1> QED BY <1>3, <1>4 DEF r

-----------------------------------------------------------------------------
(* What the transform makes.                                               *)

LEMMA BuildsTypes ==
    ASSUME NEW d \in Districts, NEW b \in Builds(d)
    PROVE  /\ b.emit \subseteq Entities /\ b.outcomes \subseteq OutcomeRows
           /\ b.dirty \in BOOLEAN
           /\ b.emit = {} => ~b.dirty /\ WarningOutcomes(b.outcomes) = {}
<1> DEFINE whole == Configured[d]
           part == whole \ Isolatable
           without == {Out(e, "failed", "transform_error") : e \in whole \cap Isolatable}
           nothing == {Out(e, "empty", "source_files_empty") : e \in whole}
<1>1. whole \subseteq Entities
  BY ConfiguredAssumption
<1>2. whole # {}
  BY DEF Builds
<1>3. \/ b = Made(whole, AllBuilt(whole), FALSE)
      \/ b = Made(whole, AllBuilt(whole), TRUE)
      \/ EveryEntityMayBeEmpty(whole) /\ b = Made({}, nothing, FALSE)
      \/ part # {} /\ b = Made(part, AllBuilt(part) \cup without, FALSE)
  BY DEF Builds
<1>4. \A e \in Entities : /\ Out(e, "built", "none") \in OutcomeRows
                          /\ Out(e, "failed", "transform_error") \in OutcomeRows
                          /\ Out(e, "empty", "source_files_empty") \in OutcomeRows
  BY DEF Out, OutcomeRows
<1>5. /\ \A emit \in SUBSET Entities : AllBuilt(emit) \subseteq OutcomeRows
      /\ without \subseteq OutcomeRows /\ nothing \subseteq OutcomeRows
  BY <1>1, <1>4 DEF AllBuilt
<1>6. EveryEntityMayBeEmpty(whole) => WarningOutcomes(nothing) = {}
  <2> SUFFICES ASSUME EveryEntityMayBeEmpty(whole) PROVE WarningOutcomes(nothing) = {}
    OBVIOUS
  <2>1. ASSUME NEW o \in nothing
        PROVE  o.kind = "empty" /\ o.notes = {} /\ EmptyIsExpected(o.entity, o.reason)
    <3>1. PICK e \in whole : o = Out(e, "empty", "source_files_empty")
      OBVIOUS
    <3>2. o.kind = "empty" /\ o.notes = {} /\ o.entity = e /\ o.reason = "source_files_empty"
      BY <3>1 DEF Out
    <3>3. e \in MayBeEmpty
      BY DEF EveryEntityMayBeEmpty
    <3> QED BY <3>2, <3>3 DEF EmptyIsExpected, NothingToSendReasons
  <2> HIDE DEF nothing
  <2> QED BY <2>1, NothingIsNoWarning
<1> HIDE DEF whole, part, without, nothing
<1>7. part \subseteq Entities
  BY <1>1 DEF part
<1>8. ASSUME NEW dirty \in BOOLEAN, b = Made(whole, AllBuilt(whole), dirty)
      PROVE  b.emit \subseteq Entities /\ b.outcomes \subseteq OutcomeRows
             /\ b.dirty \in BOOLEAN /\ b.emit # {}
  <2>1. b.emit = whole /\ b.outcomes = AllBuilt(whole) /\ b.dirty = dirty
    BY <1>8 DEF Made
  <2> QED BY <1>1, <1>2, <1>5, <2>1
<1>9. CASE EveryEntityMayBeEmpty(whole) /\ b = Made({}, nothing, FALSE)
  <2>1. b.emit = {} /\ b.outcomes = nothing /\ b.dirty = FALSE
    BY <1>9 DEF Made
  <2> QED BY <1>5, <1>6, <1>9, <2>1
<1>10. CASE part # {} /\ b = Made(part, AllBuilt(part) \cup without, FALSE)
  <2>1. b.emit = part /\ b.outcomes = AllBuilt(part) \cup without /\ b.dirty = FALSE
    BY <1>10 DEF Made
  <2> QED BY <1>5, <1>7, <1>10, <2>1
<1> QED BY <1>3, <1>8, <1>9, <1>10

-----------------------------------------------------------------------------
(* The build.                                                              *)

LEMMA SameTwice ==
    ASSUME NEW a, NEW b, NEW c, SameRequest(a, b), SameRequest(b, c),
           SameDelivery(a, b), SameDelivery(b, c)
    PROVE  SameRequest(a, c) /\ SameDelivery(a, c)
  BY DEF SameRequest, SameDelivery

With(job, rows, emit, outcomes, dirty) ==
    [job EXCEPT !.rows = rows, !.emit = emit, !.outcomes = outcomes, !.dirty = dirty]

LEMMA BuiltSound ==
    ASSUME NEW job \in Jobs, Sound(job), job.at = "build",
           NEW rows \in Nat, NEW emit \in SUBSET Entities,
           NEW outcomes \in SUBSET OutcomeRows, NEW dirty \in BOOLEAN,
           NEW new, new = With(job, rows, emit, outcomes, dirty)
    PROVE  /\ new \in Jobs /\ SameRequest(job, new) /\ SameDelivery(job, new) /\ Sound(new)
           /\ new.kind = "convert" /\ new.at = "build" /\ ~new.wrote
           /\ new.rows = rows /\ new.emit = emit /\ new.outcomes = outcomes
           /\ ~dirty => ~new.dirty
<1>1. new \in Jobs
  BY DEF Jobs, With
<1>2. /\ SameRequest(job, new) /\ SameDelivery(job, new) /\ SameHistory(job, new)
      /\ new.at = "build" /\ new.status = job.status
      /\ new.rows = rows /\ new.emit = emit /\ new.outcomes = outcomes
  BY DEF Jobs, With, SameRequest, SameDelivery, SameHistory
<1>3. ~dirty => ~new.dirty
  BY DEF Jobs, With
<1>4. job.kind = "convert" /\ ~job.wrote /\ job.status = "none"
  BY DEF Sound, InPlace
<1>5. new.kind = "convert" /\ ~new.wrote
  BY <1>2, <1>4 DEF SameRequest, SameHistory
<1>6. AskedFor(new) /\ Shrunk(new)
  BY <1>2 DEF Sound, AskedFor, Shrunk, SameRequest, SameHistory
<1>7. InPlace(new) /\ Truthful(new) /\ Agreed(new)
  BY <1>2, <1>4, <1>5 DEF InPlace, Truthful, Agreed
<1> QED BY <1>1, <1>2, <1>3, <1>5, <1>6, <1>7 DEF Sound

\* The anomaly gate lets a run through unasked only when nothing shrinks.
LEMMA LookedFollows ==
    ASSUME output \in [Entities -> Cells], NEW job \in Jobs, Sound(job),
           job.at = "build", job.kind = "convert", ~job.wrote
    PROVE  /\ Follows(job, Looked(job)) /\ SameDelivery(job, Looked(job))
           /\ Looked(job).at \in {"write", "over"} /\ LookHolds(Looked(job))
<1>1. CASE Looked(job) = Ends(job, "needs_anomaly_ack", NoRecord)
  BY <1>1, EndsUntold DEF Follows, LookHolds
<1>2. CASE Looked(job) # Ends(job, "needs_anomaly_ack", NoRecord)
  <2> DEFINE new == [job EXCEPT !.at = "write"]
  <2>1. Looked(job) = new
    BY <1>2 DEF Looked
  <2>2. /\ Follows(job, new) /\ SameDelivery(job, new) /\ new.at = "write"
        /\ new.emit = job.emit /\ new.rows = job.rows
    BY AdvanceFollows
  <2> HIDE DEF new
  <2>3. ~Anomalous(job.emit, job.rows, Configured[job.who.district], output)
          \/ AckAuthorizes(job.ack, job.who)
    BY <1>2 DEF Looked
  <2>4. LookHolds(new)
    <3> SUFFICES ASSUME new.ack = NoRun, NEW e \in new.emit
                 PROVE  ~DropsSharply(new.rows, output[e].rows)
      BY DEF LookHolds
    <3>1. ~AckAuthorizes(job.ack, job.who)
      BY <2>2 DEF AckAuthorizes, Follows, SameRequest
    <3>2. ~DropsSharply(job.rows, output[e].rows)
      BY <2>2, <2>3, <3>1 DEF Anomalous
    <3> QED BY <2>2, <3>2
  <2> QED BY <2>1, <2>2, <2>4
<1> QED BY <1>1, <1>2

LEMMA BuildSteps ==
    ASSUME TypeOK, NEW j \in 1 .. Len(jobs), Sound(jobs[j]), Build(j)
    PROVE  \E new : /\ Goes(j, new) /\ Follows(jobs[j], new) /\ SameDelivery(jobs[j], new)
                    /\ new.at \in {"write", "over"} /\ LookHolds(new)
<1> DEFINE job == jobs[j]
<1>1. job \in Jobs /\ job.kind = "convert" /\ job.at = "build"
  BY DEF TypeOK, Build, AtStep
<1>2. job.who.district \in Districts /\ job.who.folder \in Folders
  BY <1>1 DEF Sound, AskedFor
<1>3. extract[job.who.folder] \in Nat /\ output \in [Entities -> Cells]
  BY <1>2 DEF TypeOK
<1>4. PICK b \in Builds(job.who.district) :
        LET built == [job EXCEPT !.rows = extract[job.who.folder],
                          !.emit = b.emit, !.outcomes = b.outcomes, !.dirty = b.dirty]
        IN  Goes(j, IF b.emit = {}
                      THEN Ends(built, "nothing_to_send", Record(built, "success", FALSE, FALSE))
                      ELSE Looked(built))
  BY DEF Build
<1> DEFINE built == [job EXCEPT !.rows = extract[job.who.folder],
                         !.emit = b.emit, !.outcomes = b.outcomes, !.dirty = b.dirty]
<1>5. /\ b.emit \in SUBSET Entities /\ b.outcomes \in SUBSET OutcomeRows
      /\ b.dirty \in BOOLEAN
      /\ b.emit = {} => ~b.dirty /\ WarningOutcomes(b.outcomes) = {}
  BY <1>2, BuildsTypes
<1>6. Goes(j, IF b.emit = {}
                THEN Ends(built, "nothing_to_send", Record(built, "success", FALSE, FALSE))
                ELSE Looked(built))
  BY <1>4
<1>7. Sound(job)
  OBVIOUS
<1> HIDE DEF job
<1>8. /\ built \in Jobs /\ SameRequest(job, built) /\ SameDelivery(job, built) /\ Sound(built)
      /\ built.kind = "convert" /\ built.at = "build" /\ ~built.wrote
      /\ built.outcomes = b.outcomes
      /\ ~b.dirty => ~built.dirty
  <2> SUFFICES ASSUME NEW new, new = built
               PROVE  /\ new \in Jobs /\ SameRequest(job, new) /\ SameDelivery(job, new)
                      /\ Sound(new) /\ new.kind = "convert" /\ new.at = "build"
                      /\ ~new.wrote /\ new.outcomes = b.outcomes /\ (~b.dirty => ~new.dirty)
    BY Zenon
  <2>1. new = With(job, extract[job.who.folder], b.emit, b.outcomes, b.dirty)
    BY Zenon DEF With
  <2> HIDE DEF built
  <2> QED BY <1>1, <1>3, <1>5, <1>7, <2>1, BuiltSound
<1> HIDE DEF built
<1>9. CASE b.emit = {}
  <2> DEFINE record == Record(built, "success", FALSE, FALSE)
             new == Ends(built, "nothing_to_send", record)
  <2>1. record \in Records
    BY <1>8, RecordType
  <2>2. record # NoRecord
    BY DEF Record, NoRecord
  <2>3. VerdictForReason[LatestReason(record, NoBuild)] = "HEALTHY"
    BY <1>5, <1>8, <1>9, BuiltVerdict
  <2> HIDE DEF record
  <2>4. Summarize("nothing_to_send", built.outcomes) = "HEALTHY"
    BY SummaryIs
  <2>5. /\ "nothing_to_send" \in Statuses \ {"none"}
        /\ "nothing_to_send" \notin Raised \cup NotRecorded \cup WroteOutput \cup SuccessShaped
    BY DEF Statuses, Raised, NotRecorded, WroteOutput, SuccessShaped
  <2>6. /\ new \in Jobs /\ SameRequest(built, new) /\ SameDelivery(built, new)
        /\ new.at = "over" /\ Sound(new)
    BY <1>8, <2>1, <2>2, <2>3, <2>4, <2>5, EndsSound
  <2>7. Goes(j, new)
    BY <1>6, <1>9 DEF record
  <2> HIDE DEF new
  <2>8. SameRequest(job, new) /\ SameDelivery(job, new)
    BY <1>8, <2>6, SameTwice
  <2>9. LookHolds(new)
    BY <2>6 DEF LookHolds
  <2> QED BY <2>6, <2>7, <2>8, <2>9 DEF Follows, job
<1>10. CASE b.emit # {}
  <2> DEFINE new == Looked(built)
  <2>1. /\ Follows(built, new) /\ SameDelivery(built, new)
        /\ new.at \in {"write", "over"} /\ LookHolds(new)
    BY <1>3, <1>8, LookedFollows
  <2>2. Goes(j, new)
    BY <1>6, <1>10
  <2> HIDE DEF new
  <2>3. SameRequest(job, new) /\ SameDelivery(job, new)
    BY <1>8, <2>1, SameTwice DEF Follows
  <2> QED BY <2>1, <2>2, <2>3 DEF Follows, job
<1> QED BY <1>9, <1>10

-----------------------------------------------------------------------------
(* The other steps.                                                        *)

LEMMA RaisesFollows ==
    ASSUME NEW job \in Jobs, Sound(job), job.at \notin {"over", "answered"},
           ~job.wrote \/ job.late
    PROVE  /\ Follows(job, Raises(job)) /\ SameDelivery(job, Raises(job))
           /\ Raises(job).at = "over" /\ Raises(job).status = "raised"
<1> DEFINE record == [Record(job, "failed", FALSE, FALSE) EXCEPT !.dirty = FALSE]
<1>1. record \in Records /\ record.status = "failed"
  BY RecordType DEF Record
<1>2. Raises(job) = Ends(job, "raised", record)
  BY DEF Raises
<1> HIDE DEF record
<1> QED BY <1>1, <1>2, EndsFailed DEF Follows

LEMMA BuildStopsSteps ==
    ASSUME TypeOK, NEW j \in 1 .. Len(jobs), Sound(jobs[j]), BuildStops(j)
    PROVE  \E new : /\ Goes(j, new) /\ Follows(jobs[j], new) /\ SameDelivery(jobs[j], new)
                    /\ new.at = "over"
<1> DEFINE job == jobs[j]
<1>1. job \in Jobs /\ job.kind = "convert" /\ job.at = "build" /\ ~job.wrote
  BY DEF TypeOK, BuildStops, AtStep, Sound, InPlace
<1>2. \/ Goes(j, Ends(job, "no_input", NoRecord))
      \/ \E status \in {"no_output", "incomplete_roster"} :
            Goes(j, Ends(job, status, Record(job, "failed", FALSE, FALSE)))
      \/ Goes(j, Raises(job))
  BY DEF BuildStops
<1>3. Sound(job)
  OBVIOUS
<1> HIDE DEF job
<1>4. CASE Goes(j, Ends(job, "no_input", NoRecord))
  BY <1>1, <1>3, <1>4, EndsUntold DEF Follows, job
<1>5. ASSUME NEW status \in {"no_output", "incomplete_roster"},
             Goes(j, Ends(job, status, Record(job, "failed", FALSE, FALSE)))
      PROVE  \E new : /\ Goes(j, new) /\ Follows(job, new) /\ SameDelivery(job, new)
                      /\ new.at = "over"
  <2> DEFINE record == Record(job, "failed", FALSE, FALSE)
  <2>1. record \in Records /\ record.status = "failed"
    BY <1>1, RecordType DEF Record
  <2>2. Goes(j, Ends(job, status, record))
    BY <1>5
  <2> HIDE DEF record
  <2> QED BY <1>1, <1>3, <2>1, <2>2, EndsFailed DEF Follows
<1>6. CASE Goes(j, Raises(job))
  BY <1>1, <1>3, <1>6, RaisesFollows DEF job
<1> QED BY <1>2, <1>4, <1>5, <1>6 DEF job

LEMMA WriteFailsSteps ==
    ASSUME TypeOK, NEW j \in 1 .. Len(jobs), Sound(jobs[j]), WriteFails(j)
    PROVE  \E new : /\ Goes(j, new) /\ Follows(jobs[j], new) /\ SameDelivery(jobs[j], new)
                    /\ new.at = "over"
<1> DEFINE job == jobs[j]
<1>1. job \in Jobs /\ job.kind = "convert" /\ job.at = "write" /\ ~job.wrote
  BY DEF TypeOK, WriteFails, AtStep, Sound, InPlace
<1>2. \/ Goes(j, Ends(job, "output_folder_unusable", NoRecord))
      \/ Goes(j, Raises(job))
  BY DEF WriteFails
<1>3. Sound(job)
  OBVIOUS
<1> HIDE DEF job
<1>4. CASE Goes(j, Ends(job, "output_folder_unusable", NoRecord))
  BY <1>1, <1>3, <1>4, EndsUntold DEF Follows, job
<1>5. CASE Goes(j, Raises(job))
  BY <1>1, <1>3, <1>5, RaisesFollows DEF job
<1> QED BY <1>2, <1>4, <1>5

Late(job) == [job EXCEPT !.late = TRUE]

LEMMA LateSound ==
    ASSUME NEW job \in Jobs, Sound(job), job.at = "finish"
    PROVE  /\ Late(job) \in Jobs /\ SameRequest(job, Late(job)) /\ SameDelivery(job, Late(job))
           /\ Sound(Late(job)) /\ Late(job).at = "finish" /\ Late(job).late
<1> DEFINE new == Late(job)
<1>1. new \in Jobs
  BY DEF Jobs, Late
<1>2. /\ SameRequest(job, new) /\ SameDelivery(job, new)
      /\ new.at = "finish" /\ new.status = job.status
      /\ new.dirty = job.dirty /\ new.outcomes = job.outcomes
      /\ new.wrote = job.wrote /\ new.shrank = job.shrank /\ new.raced = job.raced
  BY DEF Jobs, Late, SameRequest, SameDelivery
<1>3. new.late
  BY DEF Jobs, Late
<1> HIDE DEF new
<1>4. AskedFor(new) /\ Shrunk(new) /\ Truthful(new) /\ Agreed(new)
  BY <1>2 DEF Sound, AskedFor, Shrunk, Truthful, Agreed, SameRequest
<1>5. InPlace(new)
  BY <1>2 DEF Sound, InPlace, SameRequest
<1> QED BY <1>1, <1>2, <1>3, <1>4, <1>5 DEF Sound, new

LEMMA FinishFailsSteps ==
    ASSUME TypeOK, NEW j \in 1 .. Len(jobs), Sound(jobs[j]), FinishFails(j)
    PROVE  \E new : /\ Goes(j, new) /\ Follows(jobs[j], new) /\ SameDelivery(jobs[j], new)
                    /\ new.at = "over" /\ new.status \notin SuccessShaped
<1> DEFINE job == jobs[j]
           late == Late(job)
           new == Raises(late)
<1>1. job \in Jobs /\ job.at = "finish"
  BY DEF TypeOK, FinishFails, AtStep
<1>2. Goes(j, new)
  BY DEF FinishFails, Late
<1>3. Sound(job)
  OBVIOUS
<1> HIDE DEF job
<1>4. /\ late \in Jobs /\ SameRequest(job, late) /\ SameDelivery(job, late) /\ Sound(late)
      /\ late.at = "finish" /\ late.late
  BY <1>1, <1>3, LateSound
<1> HIDE DEF late
<1>5. /\ Follows(late, new) /\ SameDelivery(late, new)
      /\ new.at = "over" /\ new.status = "raised"
  BY <1>4, RaisesFollows
<1> HIDE DEF new
<1>6. SameRequest(job, new) /\ SameDelivery(job, new)
  BY <1>4, <1>5, SameTwice DEF Follows
<1> QED BY <1>2, <1>5, <1>6 DEF Follows, SuccessShaped, job

Stuck(job, some) == [job EXCEPT !.stuck = some]

LEMMA StuckSound ==
    ASSUME NEW job \in Jobs, Sound(job), job.at = "finish", NEW some \in BOOLEAN
    PROVE  LET new == Stuck(job, some)
           IN  /\ new \in Jobs /\ SameRequest(job, new)
               /\ Sound(new) /\ new.at = "finish" /\ new.wrote /\ new.kind = "convert"
               /\ some => new.stuck
<1> DEFINE new == Stuck(job, some)
<1>1. new \in Jobs
  BY DEF Jobs, Stuck
<1>2. /\ SameRequest(job, new)
      /\ new.at = "finish" /\ new.status = job.status
      /\ new.dirty = job.dirty /\ new.outcomes = job.outcomes
      /\ new.wrote = job.wrote /\ new.shrank = job.shrank /\ new.raced = job.raced
  BY DEF Jobs, Stuck, SameRequest
<1>3. some => new.stuck
  BY DEF Jobs, Stuck
<1> HIDE DEF new
<1>4. AskedFor(new) /\ Shrunk(new) /\ Truthful(new) /\ Agreed(new)
  BY <1>2 DEF Sound, AskedFor, Shrunk, Truthful, Agreed, SameRequest
<1>5. InPlace(new) /\ new.wrote /\ new.kind = "convert"
  BY <1>2 DEF Sound, InPlace, SameRequest
<1> QED BY <1>1, <1>2, <1>3, <1>4, <1>5 DEF Sound, new

\* A run that ends well is recorded as it is told.
LEMMA EndsBuilt ==
    ASSUME NEW job \in Jobs, Sound(job), job.at = "finish", job.kind = "convert", job.wrote,
           NEW status, status = IF job.dirty THEN "built_with_data_errors" ELSE "delivered"
    PROVE  LET new == Ends(job, status, Record(job, "success", FALSE, FALSE))
           IN  /\ Follows(job, new) /\ SameDelivery(job, new)
               /\ new.at = "over" /\ new.status \in SuccessShaped
<1> DEFINE record == Record(job, "success", FALSE, FALSE)
<1>1. record \in Records
  BY RecordType
<1>2. record # NoRecord
  BY DEF Record, NoRecord
<1>3. VerdictForReason[LatestReason(record, NoBuild)] =
        IF WarningOutcomes(job.outcomes) # {} \/ job.dirty THEN "WARNING" ELSE "HEALTHY"
  BY BuiltVerdict
<1> HIDE DEF record
<1>4. Summarize(status, job.outcomes) =
        IF WarningOutcomes(job.outcomes) # {} \/ job.dirty THEN "WARNING" ELSE "HEALTHY"
  <2>1. CASE job.dirty
    BY <2>1, SummaryIs
  <2>2. CASE ~job.dirty
    BY <2>2, SummaryIs
  <2> QED BY <2>1, <2>2
<1>5. status \in SuccessShaped
  BY DEF SuccessShaped
<1>6. /\ SuccessShaped \subseteq Statuses \ {"none"} /\ SuccessShaped \subseteq WroteOutput
      /\ \A x \in SuccessShaped : x \notin Raised \cup NotRecorded /\ x \notin
           {"raised", "needs_anomaly_ack", "delivered_from_disk", "built_not_delivered"}
  BY DEF SuccessShaped, Statuses, WroteOutput, Raised, NotRecorded, FailedStatuses
<1> DEFINE new == Ends(job, status, record)
<1>7. /\ new \in Jobs /\ SameRequest(job, new) /\ SameDelivery(job, new)
      /\ new.at = "over" /\ new.status = status /\ Sound(new)
  BY <1>1, <1>2, <1>3, <1>4, <1>5, <1>6, EndsSound
<1> QED BY <1>5, <1>7 DEF Follows, record

LEMMA FinishSteps ==
    ASSUME TypeOK, NEW j \in 1 .. Len(jobs), Sound(jobs[j]), Finish(j)
    PROVE  \E new : \E kept \in SUBSET Stale(jobs[j].emit) :
             /\ Goes(j, new) /\ Follows(jobs[j], new)
             /\ new.at = "over" /\ (~new.stuck => kept = {})
             /\ output' = [e \in Entities |->
                    IF e \in Stale(jobs[j].emit) \ kept THEN Absent ELSE output[e]]
<1> DEFINE job == jobs[j]
<1>1. job \in Jobs /\ job.at = "finish"
  BY DEF TypeOK, Finish, AtStep
<1>2. PICK kept \in SUBSET Stale(job.emit) :
        /\ output' = [e \in Entities |->
                IF e \in Stale(job.emit) \ kept THEN Absent ELSE output[e]]
        /\ LET stuck == [job EXCEPT !.stuck = kept # {}]
           IN  Goes(j, Ends(stuck,
                            IF stuck.dirty THEN "built_with_data_errors" ELSE "delivered",
                            Record(stuck, "success", FALSE, FALSE)))
  BY DEF Finish
<1> DEFINE some == kept # {}
           late == Stuck(job, some)
           status == IF late.dirty THEN "built_with_data_errors" ELSE "delivered"
           new == Ends(late, status, Record(late, "success", FALSE, FALSE))
<1>3. Goes(j, new)
  BY <1>2 DEF Stuck
<1>4. Sound(job) /\ some \in BOOLEAN
  OBVIOUS
<1>5. some <=> kept # {}
  OBVIOUS
<1> HIDE DEF job, some
<1>6. /\ late \in Jobs /\ SameRequest(job, late)
      /\ Sound(late) /\ late.at = "finish" /\ late.wrote /\ late.kind = "convert"
      /\ some => late.stuck
  BY <1>1, <1>4, StuckSound
<1> HIDE DEF late
<1>7. /\ Follows(late, new) /\ SameDelivery(late, new)
      /\ new.at = "over" /\ new.status \in SuccessShaped
  BY <1>6, EndsBuilt
<1> HIDE DEF new
<1>8. SameRequest(job, new)
  BY <1>6, <1>7 DEF Follows, SameRequest
<1>9. Follows(job, new) /\ (~new.stuck => kept = {})
  BY <1>5, <1>6, <1>7, <1>8 DEF Follows, SameDelivery
<1> QED BY <1>2, <1>3, <1>7, <1>9 DEF job

LEMMA ResolveSteps ==
    ASSUME TypeOK, NEW j \in 1 .. Len(jobs), Sound(jobs[j]), Resolve(j)
    PROVE  \E new : /\ Goes(j, new) /\ Follows(jobs[j], new) /\ SameDelivery(jobs[j], new)
                    /\ new.at \in {"upload", "over"}
<1> DEFINE job == jobs[j]
<1>1. job \in Jobs /\ job.kind = "deliver" /\ job.at = "resolve"
  BY DEF TypeOK, Resolve, AtStep
<1>2. Goes(j, [job EXCEPT !.at = "upload"]) \/ Goes(j, Ends(job, "unset", NoRecord))
  BY DEF Resolve
<1>3. Sound(job) /\ ~job.wrote
  BY <1>1 DEF Sound, InPlace
<1> HIDE DEF job
<1>4. CASE Goes(j, [job EXCEPT !.at = "upload"])
  BY <1>1, <1>3, <1>4, AdvanceFollows DEF job
<1>5. CASE Goes(j, Ends(job, "unset", NoRecord))
  BY <1>1, <1>3, <1>5, EndsUntold DEF Follows, job
<1> QED BY <1>2, <1>4, <1>5

Sent(job, by, foreign) == [job EXCEPT !.sent = by, !.foreign = foreign]

LEMMA SentSound ==
    ASSUME NEW job \in Jobs, Sound(job), job.at = "upload",
           NEW by \in SUBSET (Districts \cup {Absent.by}), NEW foreign \in BOOLEAN
    PROVE  LET new == Sent(job, by, foreign)
           IN  /\ new \in Jobs /\ SameRequest(job, new) /\ Sound(new)
               /\ new.at = "upload" /\ ~new.wrote /\ new.kind = "deliver" /\ ~new.dirty
               /\ new.outcomes = {} /\ new.sent = by
               /\ foreign => new.foreign
<1> DEFINE new == Sent(job, by, foreign)
<1>1. new \in Jobs
  BY DEF Jobs, Sent
<1>2. /\ SameRequest(job, new)
      /\ new.at = "upload" /\ new.status = job.status
      /\ new.dirty = job.dirty /\ new.outcomes = job.outcomes
      /\ new.wrote = job.wrote /\ new.shrank = job.shrank /\ new.raced = job.raced
      /\ new.sent = by
  BY DEF Jobs, Sent, SameRequest
<1>3. foreign => new.foreign
  BY DEF Jobs, Sent
<1> HIDE DEF new
<1>4. AskedFor(new) /\ Shrunk(new) /\ Truthful(new) /\ Agreed(new)
  BY <1>2 DEF Sound, AskedFor, Shrunk, Truthful, Agreed, SameRequest
<1>5. InPlace(new) /\ ~new.wrote /\ new.kind = "deliver" /\ ~new.dirty /\ new.outcomes = {}
  BY <1>2 DEF Sound, InPlace, SameRequest
<1> QED BY <1>1, <1>2, <1>3, <1>4, <1>5 DEF Sound, new

\* A delivery is recorded as it is told, whether it was accepted or not.
LEMMA EndsDelivery ==
    ASSUME NEW job \in Jobs, Sound(job), job.at = "upload", job.kind = "deliver",
           ~job.wrote, ~job.dirty, NEW ok \in BOOLEAN, ok => job.sent # {},
           NEW status, status = IF ok THEN "delivered_from_disk" ELSE "built_not_delivered"
    PROVE  LET new == Ends(job, status, Record(job, "success", TRUE, ok))
           IN  Follows(job, new) /\ SameDelivery(job, new) /\ new.at = "over"
<1> DEFINE record == Record(job, "success", TRUE, ok)
<1>1. record \in Records
  BY RecordType
<1>2. record # NoRecord
  BY DEF Record, NoRecord
<1>3. VerdictForReason[LatestReason(record, NoBuild)] = IF ok THEN "HEALTHY" ELSE "FAILED"
  BY DeliveredVerdict
<1> HIDE DEF record
<1>4. Summarize(status, job.outcomes) = IF ok THEN "HEALTHY" ELSE "FAILED"
  BY SummaryIs
<1>5. status \in {"delivered_from_disk", "built_not_delivered"} /\ (~ok => status = "built_not_delivered")
  OBVIOUS
<1>6. \A x \in {"delivered_from_disk", "built_not_delivered"} :
        /\ x \in Statuses \ {"none"}
        /\ x \notin Raised \cup NotRecorded \cup SuccessShaped \cup {"raised", "needs_anomaly_ack"}
  BY DEF SuccessShaped, Statuses, WroteOutput, Raised, NotRecorded, FailedStatuses
<1>7. status = "delivered_from_disk" => job.sent # {}
  OBVIOUS
<1> DEFINE new == Ends(job, status, record)
<1>8. /\ new \in Jobs /\ SameRequest(job, new) /\ SameDelivery(job, new)
      /\ new.at = "over" /\ Sound(new)
  BY <1>1, <1>2, <1>3, <1>4, <1>5, <1>6, <1>7, EndsSound
<1> QED BY <1>8 DEF Follows, record

\* An upload sends what is in the folder under its own name: all of it when it
\* arrives, some of it when it does not.
LEMMA UploadSteps ==
    ASSUME TypeOK, NEW j \in 1 .. Len(jobs), Sound(jobs[j]), Upload(j)
    PROVE  \E new :
             /\ Goes(j, new) /\ Follows(jobs[j], new) /\ new.at = "over"
             /\ new.sent \subseteq {output[e].by :
                                    e \in Deliverable(jobs[j].who.district, output)}
             /\ writer # jobs[j].run => new.foreign
<1> DEFINE job == jobs[j]
           files == Deliverable(job.who.district, output)
           all == {output[e].by : e \in files}
           foreign == writer # job.run
<1>1. job \in Jobs /\ job.kind = "deliver" /\ job.at = "upload"
  <2>1. AtStep(j, "deliver", "upload")
    BY DEF Upload
  <2> QED BY <2>1 DEF TypeOK, AtStep
<1>2. Sound(job) /\ ~job.wrote /\ ~job.dirty
  BY <1>1 DEF Sound, InPlace
<1>3. \E arrived \in SUBSET files, ok \in BOOLEAN :
        /\ ok => arrived # {}
        /\ Goes(j, Ends(Sent(job, {output[e].by : e \in arrived}, foreign),
                       IF ok THEN "delivered_from_disk" ELSE "built_not_delivered",
                       Record(job, "success", TRUE, ok)))
  <2>1. CASE /\ files # {}
             /\ Goes(j, Ends(Sent(job, {output[e].by : e \in files}, foreign),
                            "delivered_from_disk", Record(job, "success", TRUE, TRUE)))
    <3> HIDE DEF files, job, foreign
    <3> WITNESS files \in SUBSET files, TRUE \in BOOLEAN
    <3> QED BY <2>1
  <2>2. CASE \E arrived \in SUBSET files :
                Goes(j, Ends(Sent(job, {output[e].by : e \in arrived}, foreign),
                             "built_not_delivered", Record(job, "success", TRUE, FALSE)))
    <3> HIDE DEF files, job, foreign
    <3>1. PICK arrived \in SUBSET files :
             Goes(j, Ends(Sent(job, {output[e].by : e \in arrived}, foreign),
                          "built_not_delivered", Record(job, "success", TRUE, FALSE)))
      BY <2>2
    <3> WITNESS arrived \in SUBSET files, FALSE \in BOOLEAN
    <3> QED BY <3>1
  <2> QED BY <2>1, <2>2 DEF Upload, Sent
<1>4. all \in SUBSET (Districts \cup {Absent.by})
  <2>1. files \subseteq Entities
    BY DEF Deliverable, PresentIn
  <2> HIDE DEF files
  <2> QED BY <2>1 DEF TypeOK, Cells
<1>5. foreign \in BOOLEAN /\ (foreign <=> writer # job.run)
  OBVIOUS
<1>6. all = {output[e].by : e \in Deliverable(job.who.district, output)}
  OBVIOUS
<1>7. \A arrived \in SUBSET files : {output[e].by : e \in arrived} \subseteq all
  OBVIOUS
<1>8. \A arrived \in SUBSET files : arrived # {} => {output[e].by : e \in arrived} # {}
  OBVIOUS
<1> HIDE DEF job, files, all, foreign
<1>9. PICK arrived \in SUBSET files, ok \in BOOLEAN :
        /\ ok => arrived # {}
        /\ Goes(j, Ends(Sent(job, {output[e].by : e \in arrived}, foreign),
                       IF ok THEN "delivered_from_disk" ELSE "built_not_delivered",
                       Record(job, "success", TRUE, ok)))
  BY <1>3
<1> DEFINE by == {output[e].by : e \in arrived}
           status == IF ok THEN "delivered_from_disk" ELSE "built_not_delivered"
           sent == Sent(job, by, foreign)
           new == Ends(sent, status, Record(sent, "success", TRUE, ok))
<1>10. by \subseteq all /\ by \in SUBSET (Districts \cup {Absent.by}) /\ (ok => by # {})
  BY <1>4, <1>7, <1>8, <1>9
<1>11. Goes(j, Ends(sent, status, Record(job, "success", TRUE, ok)))
  BY <1>9
<1>12. status = IF ok THEN "delivered_from_disk" ELSE "built_not_delivered"
  OBVIOUS
<1> HIDE DEF by, status
<1>13. Record(job, "success", TRUE, ok) = Record(sent, "success", TRUE, ok)
  BY <1>1, <1>2 DEF Record, Sent, Jobs
<1>14. sent.sent = by /\ (foreign => sent.foreign)
  BY <1>1 DEF Sent, Jobs
<1>15. sent \in Jobs /\ SameRequest(job, sent) /\ Sound(sent)
  BY <1>1, <1>2, <1>5, <1>10, SentSound DEF sent
<1>16. sent.at = "upload" /\ ~sent.wrote /\ sent.kind = "deliver" /\ ~sent.dirty
  BY <1>1, <1>2, <1>5, <1>10, SentSound DEF sent
<1> HIDE DEF sent
<1>17. Goes(j, new)
  BY <1>11, <1>13
<1>18. Follows(sent, new) /\ SameDelivery(sent, new) /\ new.at = "over"
  BY <1>10, <1>12, <1>14, <1>15, <1>16, EndsDelivery
<1> HIDE DEF new
<1>19. SameRequest(job, new)
  BY <1>15, <1>18 DEF Follows, SameRequest
<1>20. new.sent = by /\ (writer # job.run => new.foreign)
  BY <1>5, <1>14, <1>18 DEF SameDelivery
<1> QED BY <1>6, <1>10, <1>17, <1>18, <1>19, <1>20 DEF Follows, job

Wrote(job, some) == [job EXCEPT !.at = "finish", !.wrote = TRUE, !.shrank = some]

LEMMA WroteFollows ==
    ASSUME NEW job \in Jobs, Sound(job), job.at = "write", NEW some \in BOOLEAN,
           some => job.ack # NoRun \/ job.raced
    PROVE  /\ Follows(job, Wrote(job, some)) /\ SameDelivery(job, Wrote(job, some))
           /\ Wrote(job, some).at = "finish" /\ Wrote(job, some).status = "none"
           /\ Wrote(job, some).emit = job.emit
<1> DEFINE new == Wrote(job, some)
<1>1. new \in Jobs
  BY DEF Jobs, Places, Wrote
<1>2. /\ SameRequest(job, new) /\ SameDelivery(job, new)
      /\ new.at = "finish" /\ new.status = job.status /\ new.emit = job.emit
      /\ new.raced = job.raced
  BY DEF Jobs, Wrote, SameRequest, SameDelivery
<1>3. new.wrote /\ (new.shrank => some)
  BY DEF Jobs, Wrote
<1>4. job.kind = "convert" /\ job.status = "none"
  BY DEF Sound, InPlace
<1> HIDE DEF new
<1>5. AskedFor(new) /\ Shrunk(new) /\ Truthful(new) /\ Agreed(new)
  BY <1>2, <1>3 DEF Sound, AskedFor, Shrunk, Truthful, Agreed, SameRequest
<1>6. InPlace(new)
  BY <1>2, <1>3, <1>4 DEF InPlace, SameRequest
<1> QED BY <1>1, <1>2, <1>4, <1>5, <1>6 DEF Sound, Follows, new

\* A conversion replaces its files, and overtakes every other that has looked.
LEMMA WriteSteps ==
    ASSUME TypeOK, NEW j \in 1 .. Len(jobs), \A k \in 1 .. Len(jobs) : Sound(jobs[k]),
           LookHolds(jobs[j]), Write(j)
    PROVE  /\ jobs' \in Seq(Jobs) /\ Len(jobs') = Len(jobs)
           /\ Follows(jobs[j], jobs'[j]) /\ SameDelivery(jobs[j], jobs'[j])
           /\ jobs'[j].at = "finish" /\ jobs'[j].status = "none"
           /\ jobs'[j].emit = jobs[j].emit
           /\ \A k \in 1 .. Len(jobs) : k # j =>
                /\ Kept(jobs[k], jobs'[k])
                /\ jobs'[k].at = "write" => jobs'[k].raced
<1> DEFINE job == jobs[j]
           some == \E e \in job.emit : DropsSharply(job.rows, output[e].rows)
           new == Wrote(job, some)
           js == [jobs EXCEPT ![j] = new]
<1>1. job \in Jobs /\ job.kind = "convert" /\ job.at = "write" /\ Sound(job)
  BY DEF TypeOK, Write, AtStep
<1>2. jobs' = Overtaken(js)
  BY DEF Write, Wrote
<1>3. some => job.ack # NoRun \/ job.raced
  BY <1>1 DEF LookHolds
<1>4. some \in BOOLEAN
  OBVIOUS
<1> HIDE DEF some, job
<1>5. /\ Follows(job, new) /\ SameDelivery(job, new)
      /\ new.at = "finish" /\ new.status = "none" /\ new.emit = job.emit
  BY <1>1, <1>3, <1>4, WroteFollows
<1> HIDE DEF new
<1>6. js \in Seq(Jobs) /\ Len(js) = Len(jobs) /\ js[j] = new
      /\ \A k \in 1 .. Len(jobs) : k # j => js[k] = jobs[k]
  BY <1>5 DEF TypeOK, Follows
<1> HIDE DEF js
<1>7. /\ jobs' \in Seq(Jobs) /\ Len(jobs') = Len(jobs)
      /\ \A k \in 1 .. Len(jobs) : jobs'[k] = Overtake(js[k])
  BY <1>2, <1>6, OvertakenStep
<1>8. /\ Follows(job, jobs'[j]) /\ SameDelivery(job, jobs'[j])
      /\ jobs'[j].at = "finish" /\ jobs'[j].status = "none" /\ jobs'[j].emit = job.emit
  <2>1. jobs'[j] = Overtake(new)
    BY <1>6, <1>7
  <2>2. Kept(new, Overtake(new))
    BY <1>5, OvertakenFollows DEF Follows
  <2> HIDE DEF new
  <2>3. SameRequest(job, Overtake(new)) /\ SameDelivery(job, Overtake(new))
    BY <1>5, <2>2, SameTwice DEF Follows, Kept
  <2> QED BY <1>5, <2>1, <2>2, <2>3 DEF Follows, Kept
<1>9. ASSUME NEW k \in 1 .. Len(jobs), k # j
      PROVE  Kept(jobs[k], jobs'[k]) /\ (jobs'[k].at = "write" => jobs'[k].raced)
  <2>1. jobs[k] \in Jobs /\ jobs'[k] = Overtake(jobs[k])
    BY <1>6, <1>7, <1>9 DEF TypeOK
  <2> QED BY <2>1, OvertakenFollows
<1> QED BY <1>7, <1>8, <1>9 DEF job

-----------------------------------------------------------------------------
(* A step of jobs, the others kept.                                        *)

Moves ==
    /\ Len(jobs') = Len(jobs)
    /\ \A k \in 1 .. Len(jobs) :
         \/ Kept(jobs[k], jobs'[k])
         \/ jobs[k].at # "answered" /\ Follows(jobs[k], jobs'[k])

LEMMA MovesSound ==
    ASSUME jobs \in Seq(Jobs), Moves
    PROVE  \A k \in 1 .. Len(jobs) :
             /\ Sound(jobs'[k]) /\ SameRequest(jobs[k], jobs'[k])
             /\ jobs[k].at = "answered" =>
                  /\ jobs'[k].at = "answered" /\ jobs'[k].status = jobs[k].status
                  /\ SameDelivery(jobs[k], jobs'[k])
  BY DEF Moves, Follows, Kept

LEMMA MovesOffer ==
    ASSUME jobs \in Seq(Jobs), Moves, NEW r, CanOffer(r)
    PROVE  CanOffer(r)' /\ SameRequest(jobs[r], jobs'[r]) /\ SameDelivery(jobs[r], jobs'[r])
  BY DEF CanOffer, Moves, Kept, SameRequest

LEMMA MovesOfItsRun ==
    ASSUME jobs \in Seq(Jobs), Moves,
           NEW k \in 1 .. Len(jobs), OfItsRun(jobs[k]), SameDelivery(jobs[k], jobs'[k])
    PROVE  OfItsRun(jobs[k])'
<1>1. SameRequest(jobs[k], jobs'[k])
  BY MovesSound
<1> SUFFICES ASSUME jobs[k].kind = "deliver", NEW r, r = jobs[k].run, r # 0
             PROVE  /\ CanOffer(r)'
                    /\ jobs[k].who.district = jobs[k].view.district
                    /\ jobs[k].who.district = jobs'[r].who.district
                    /\ \/ jobs[k].sent \subseteq {jobs[k].who.district} \/ jobs[k].foreign
                       \/ jobs'[r].stuck
  BY <1>1 DEF OfItsRun, CanOffer, SameRequest, SameDelivery
<1>2. CanOffer(r)
  BY DEF OfItsRun
<1>3. CanOffer(r)' /\ SameRequest(jobs[r], jobs'[r]) /\ SameDelivery(jobs[r], jobs'[r])
  BY <1>2, MovesOffer
<1> QED BY <1>3 DEF OfItsRun, SameRequest, SameDelivery

\* The screen is of answered jobs, and a job that goes on is of its visit.
LEMMA MovesScreen ==
    ASSUME TypeOK, RunnerInv, SlotInv, DialogInv, Moves,
           saved' = saved, screen' = screen, budget'.visits = budget.visits
    PROVE  RunnerInv' /\ SlotInv' /\ DialogInv'
<1>0. jobs \in Seq(Jobs) /\ Len(jobs') = Len(jobs)
  BY DEF TypeOK, Moves
<1>1. RunnerInv'
  <2>1. \A k \in 1 .. Len(jobs) :
          /\ jobs'[k].visit = jobs[k].visit /\ jobs'[k].view = jobs[k].view
          /\ jobs[k].at = "answered" => jobs'[k].at = "answered"
    BY <1>0, MovesSound DEF SameRequest
  <2> QED BY <1>0, <2>1 DEF RunnerInv, Mine
<1>2. SlotInv'
  <2> DEFINE s == screen.slot.job
  <2>1. screen.slot.kind # "none" => s \in 1 .. Len(jobs) /\ jobs[s].at = "answered"
    BY DEF SlotInv
  <2>2. screen.slot.kind # "none" =>
          /\ SameRequest(jobs[s], jobs'[s]) /\ jobs'[s].status = jobs[s].status
          /\ jobs'[s].at = "answered"
    BY <1>0, <2>1, MovesSound
  <2>3. screen.refused \/ screen.slot.offer = "ready" => screen.slot.kind # "none"
    BY DEF SlotInv
  <2> HIDE DEF s
  <2>4. Offerable(jobs[s]) /\ screen.slot.kind # "none" => Offerable(jobs'[s])
    BY <2>2 DEF Offerable, SameRequest
  <2> QED BY <1>0, <2>1, <2>2, <2>3, <2>4 DEF SlotInv, SameRequest, DeliverDistrict, s
<1>3. DialogInv'
  <2> SUFFICES ASSUME screen.dialog.run # 0
               PROVE  /\ CanOffer(screen.dialog.run)'
                      /\ screen.dialog.district = jobs'[screen.dialog.run].who.district
                      /\ screen.dialog.district = screen.pick
    BY DEF DialogInv
  <2>1. CanOffer(screen.dialog.run)
    BY DEF DialogInv
  <2> QED BY <1>0, <2>1, MovesOffer DEF DialogInv, SameRequest
<1> QED BY <1>1, <1>2, <1>3

-----------------------------------------------------------------------------
(* The steps that leave the folder alone.                                  *)

LEMMA SpendsType ==
    ASSUME TypeOK, NEW what \in {"jobs", "visits", "faults", "events"}, Spends(what)
    PROVE  /\ budget' \in [{"jobs", "visits", "faults", "events"} -> Nat]
           /\ what # "visits" => budget'.visits = budget.visits
           /\ what = "visits" => budget'.visits = budget.visits - 1 /\ budget.visits > 0
  BY DEF TypeOK, Spends

LEMMA QuietStep ==
    ASSUME TypeOK, Inv, NEW j \in 1 .. Len(jobs), NEW new,
           Goes(j, new), Follows(jobs[j], new),
           jobs[j].at \notin {"over", "answered"}, new.at # "answered",
           LookHolds(new), OfItsRun(new),
           jobs[j].at = "finish" => new.at = "over" /\ new.status \notin SuccessShaped,
           UNCHANGED <<saved, extract, screen, output, writer>>,
           budget' = budget \/ Spends("faults")
    PROVE  TypeOK' /\ Inv'
<1>0. jobs \in Seq(Jobs) /\ new \in Jobs
  BY DEF TypeOK, Follows
<1>1. /\ jobs' \in Seq(Jobs) /\ Len(jobs') = Len(jobs) /\ jobs'[j] = new
      /\ \A k \in 1 .. Len(jobs) : k # j => jobs'[k] = jobs[k]
  BY <1>0, GoesStep
<1>2. /\ budget' \in [{"jobs", "visits", "faults", "events"} -> Nat]
      /\ budget'.visits = budget.visits
  BY SpendsType DEF TypeOK
<1>3. TypeOK'
  BY <1>1, <1>2 DEF TypeOK
<1>4. Moves
  <2>1. ASSUME NEW k \in 1 .. Len(jobs), k # j PROVE Kept(jobs[k], jobs'[k])
    <3>1. jobs'[k] = jobs[k] /\ jobs[k] \in Jobs /\ Sound(jobs[k])
      BY <1>0, <1>1, <2>1 DEF Inv, JobsInv
    <3> QED BY <3>1 DEF Kept, SameRequest, SameDelivery
  <2> QED BY <1>1, <2>1 DEF Moves
<1>5. RunnerInv' /\ SlotInv' /\ DialogInv'
  BY <1>2, <1>4, MovesScreen DEF Inv
<1>6. JobsInv'
  <2>1. \A k \in 1 .. Len(jobs) : Sound(jobs'[k])
    BY <1>0, <1>4, MovesSound
  <2>2. ASSUME NEW k \in 1 .. Len(jobs) PROVE LookHolds(jobs[k])'
    <3>1. LookHolds(jobs'[k])
      BY <1>1 DEF Inv, JobsInv
    <3> QED BY <3>1 DEF LookHolds
  <2>3. ASSUME NEW k \in 1 .. Len(jobs) PROVE OfItsRun(jobs[k])'
    <3>1. CASE k # j
      <4>1. OfItsRun(jobs[k]) /\ SameDelivery(jobs[k], jobs'[k])
        BY <1>1, <3>1 DEF Inv, JobsInv, SameDelivery
      <4> QED BY <1>0, <1>4, <4>1, MovesOfItsRun
    <3>2. CASE k = j
      <4> SUFFICES ASSUME new.kind = "deliver", new.run # 0
                   PROVE  /\ CanOffer(new.run)' /\ new.who.district = new.view.district
                          /\ new.who.district = jobs'[new.run].who.district
                          /\ \/ new.sent \subseteq {new.who.district} \/ new.foreign
                             \/ jobs'[new.run].stuck
        BY <1>1, <3>2 DEF OfItsRun
      <4>1. CanOffer(new.run)
        BY DEF OfItsRun
      <4>2. CanOffer(new.run)' /\ new.run # j
        BY <1>0, <1>4, <4>1, MovesOffer DEF CanOffer
      <4>3. jobs'[new.run] = jobs[new.run]
        BY <1>1, <4>1, <4>2 DEF CanOffer
      <4> QED BY <4>2, <4>3 DEF OfItsRun
    <3> QED BY <3>1, <3>2
  <2> QED BY <1>1, <2>1, <2>2, <2>3 DEF JobsInv
<1>7. FolderInv'
  <2> SUFFICES ASSUME writer > 0
               PROVE  LET job == jobs'[writer]
                      IN  /\ job.kind = "convert" /\ job.at \in {"finish", "over", "answered"}
                          /\ job.at = "finish" => OnlyBy(job.who.district, job.emit)
                          /\ job.status \in SuccessShaped /\ ~job.stuck =>
                               OnlyBy(job.who.district, Entities)
    BY DEF FolderInv, OnlyBy
  <2>1. writer \in 1 .. Len(jobs) /\ FolderInv
    BY DEF TypeOK, Inv
  <2>2. CASE writer # j
    BY <1>1, <2>1, <2>2 DEF FolderInv
  <2>3. CASE writer = j
    <3>1. jobs[j].kind = "convert" /\ jobs[j].at = "finish"
      BY <2>1, <2>3 DEF FolderInv
    <3>2. new.kind = "convert" /\ new.at = "over" /\ new.status \notin SuccessShaped
      BY <3>1 DEF Follows, SameRequest
    <3> QED BY <1>1, <2>3, <3>1, <3>2
  <2> QED BY <2>2, <2>3
<1> QED BY <1>3, <1>5, <1>6, <1>7 DEF Inv

LEMMA OfItsRunKept ==
    ASSUME NEW old, NEW new, OfItsRun(old), SameRequest(old, new), SameDelivery(old, new)
    PROVE  OfItsRun(new)
  BY DEF OfItsRun, SameRequest, SameDelivery

LEMMA QuietSteps ==
    ASSUME TypeOK, Inv, NEW j \in 1 .. Len(jobs),
           \/ Prepare(j) \/ PrepareFails(j) \/ Build(j) \/ BuildStops(j) \/ WriteFails(j)
           \/ FinishFails(j) \/ Resolve(j) \/ Upload(j)
    PROVE  TypeOK' /\ Inv'
<1>1. /\ UNCHANGED <<saved, extract, screen, output, writer>>
      /\ budget' = budget \/ Spends("faults")
  BY DEF Prepare, PrepareFails, Build, BuildStops, WriteFails, FinishFails, Resolve, Upload,
         Still, Fault
<1>2. jobs[j].at \notin {"over", "answered"}
  BY DEF Prepare, PrepareFails, Build, BuildStops, WriteFails, FinishFails, Resolve, Upload,
         AtStep
<1>3. Sound(jobs[j]) /\ OfItsRun(jobs[j])
  BY DEF Inv, JobsInv
<1>4. ASSUME NEW new, Goes(j, new), Follows(jobs[j], new), SameDelivery(jobs[j], new),
             new.at # "answered", LookHolds(new), jobs[j].at # "finish"
      PROVE  TypeOK' /\ Inv'
  <2>1. OfItsRun(new)
    BY <1>3, <1>4, OfItsRunKept DEF Follows
  <2> QED BY <1>1, <1>2, <1>4, <2>1, QuietStep
<1>5. \A new : new.at # "write" => LookHolds(new)
  BY DEF LookHolds
<1>6. CASE Prepare(j) \/ PrepareFails(j)
  <2>1. jobs[j].at # "finish"
    BY <1>6 DEF Prepare, PrepareFails, AtStep
  <2> QED BY <1>3, <1>4, <1>5, <1>6, <2>1, PrepareSteps
<1>7. CASE Build(j)
  <2>1. jobs[j].at # "finish"
    BY <1>7 DEF Build, AtStep
  <2> QED BY <1>3, <1>4, <1>7, <2>1, BuildSteps
<1>8. CASE BuildStops(j)
  <2>1. jobs[j].at # "finish"
    BY <1>8 DEF BuildStops, AtStep
  <2> QED BY <1>3, <1>4, <1>5, <1>8, <2>1, BuildStopsSteps
<1>9. CASE WriteFails(j)
  <2>1. jobs[j].at # "finish"
    BY <1>9 DEF WriteFails, AtStep
  <2> QED BY <1>3, <1>4, <1>5, <1>9, <2>1, WriteFailsSteps
<1>10. CASE Resolve(j)
  <2>1. jobs[j].at # "finish"
    BY <1>10 DEF Resolve, AtStep
  <2> QED BY <1>3, <1>4, <1>5, <1>10, <2>1, ResolveSteps
<1>11. CASE FinishFails(j)
  <2>1. PICK new : /\ Goes(j, new) /\ Follows(jobs[j], new) /\ SameDelivery(jobs[j], new)
                   /\ new.at = "over" /\ new.status \notin SuccessShaped
    BY <1>3, <1>11, FinishFailsSteps
  <2>2. OfItsRun(new)
    BY <1>3, <2>1, OfItsRunKept DEF Follows
  <2> QED BY <1>1, <1>2, <1>5, <2>1, <2>2, QuietStep
<1>12. CASE Upload(j)
  <2>0. jobs[j].at # "finish"
    BY <1>12 DEF Upload, AtStep
  <2>1. PICK new :
             /\ Goes(j, new) /\ Follows(jobs[j], new) /\ new.at = "over"
             /\ new.sent \subseteq {output[e].by :
                                    e \in Deliverable(jobs[j].who.district, output)}
             /\ writer # jobs[j].run => new.foreign
    BY <1>3, <1>12, UploadSteps
  <2>2. OfItsRun(new)
    <3> SUFFICES ASSUME new.kind = "deliver", new.run # 0
                 PROVE  /\ CanOffer(new.run)
                        /\ new.who.district = new.view.district
                        /\ new.who.district = jobs[new.run].who.district
                        /\ \/ new.sent \subseteq {new.who.district} \/ new.foreign
                           \/ jobs[new.run].stuck
      BY DEF OfItsRun
    <3>1. SameRequest(jobs[j], new)
      BY <2>1 DEF Follows
    <3>2. /\ CanOffer(new.run) /\ new.who.district = new.view.district
          /\ new.who.district = jobs[new.run].who.district
      BY <1>3, <3>1 DEF OfItsRun, SameRequest
    <3>3. ASSUME ~new.foreign, ~jobs[new.run].stuck
          PROVE  new.sent \subseteq {new.who.district}
      <4>1. writer = new.run /\ writer > 0
        BY <2>1, <3>1, <3>2, <3>3 DEF SameRequest, CanOffer
      <4>2. OnlyBy(new.who.district, Entities)
        BY <3>2, <3>3, <4>1 DEF Inv, FolderInv, CanOffer
      <4>3. \A e \in Deliverable(jobs[j].who.district, output) :
              e \in Entities /\ output[e] # Absent
        BY DEF Deliverable, PresentIn
      <4> QED BY <2>1, <3>1, <4>2, <4>3 DEF OnlyBy, SameRequest
    <3> QED BY <3>2, <3>3
  <2> QED BY <1>1, <1>2, <1>5, <2>0, <2>1, <2>2, QuietStep
<1> QED BY <1>6, <1>7, <1>8, <1>9, <1>10, <1>11, <1>12

-----------------------------------------------------------------------------
(* The two steps of a conversion that change the folder.                   *)

LEMMA WriteStep ==
    ASSUME TypeOK, Inv, NEW j \in 1 .. Len(jobs), Write(j)
    PROVE  TypeOK' /\ Inv'
<1>1. \A k \in 1 .. Len(jobs) : Sound(jobs[k]) /\ LookHolds(jobs[k]) /\ OfItsRun(jobs[k])
  BY DEF Inv, JobsInv
<1>2. /\ UNCHANGED <<saved, extract, screen, budget>> /\ writer' = j
      /\ output' = Replaced(jobs[j].emit, jobs[j].rows, jobs[j].who.district)
      /\ jobs[j].at = "write" /\ jobs[j].kind = "convert"
  BY DEF Write, Still, AtStep
<1>3. /\ jobs' \in Seq(Jobs) /\ Len(jobs') = Len(jobs)
      /\ Follows(jobs[j], jobs'[j]) /\ SameDelivery(jobs[j], jobs'[j])
      /\ jobs'[j].at = "finish" /\ jobs'[j].status = "none"
      /\ jobs'[j].emit = jobs[j].emit
      /\ \A k \in 1 .. Len(jobs) : k # j =>
           /\ Kept(jobs[k], jobs'[k])
           /\ jobs'[k].at = "write" => jobs'[k].raced
  BY <1>1, WriteSteps
<1>4. jobs \in Seq(Jobs) /\ jobs[j] \in Jobs /\ jobs[j].who.district \in Districts
  BY <1>1, <1>2 DEF TypeOK, Sound, AskedFor
<1>5. TypeOK'
  <2>1. output' \in [Entities -> Cells]
    <3>1. jobs[j].rows \in Nat
      BY <1>4 DEF Jobs
    <3> QED BY <1>2, <1>4, <3>1 DEF TypeOK, Replaced, Cells
  <2>2. writer' \in {-1} \cup 0 .. Len(jobs')
    BY <1>2, <1>3, <1>4
  <2> QED BY <1>2, <1>3, <2>1, <2>2 DEF TypeOK
<1>6. Moves
  BY <1>2, <1>3 DEF Moves
<1>7. RunnerInv' /\ SlotInv' /\ DialogInv'
  BY <1>2, <1>6, MovesScreen DEF Inv
<1>8. JobsInv'
  <2>1. ASSUME NEW k \in 1 .. Len(jobs) PROVE LookHolds(jobs[k])'
    BY <1>3 DEF LookHolds
  <2>2. ASSUME NEW k \in 1 .. Len(jobs) PROVE OfItsRun(jobs[k])'
    <3>1. SameDelivery(jobs[k], jobs'[k])
      BY <1>3 DEF Kept
    <3> QED BY <1>1, <1>4, <1>6, <3>1, MovesOfItsRun
  <2>3. \A k \in 1 .. Len(jobs) : Sound(jobs'[k])
    BY <1>4, <1>6, MovesSound
  <2> QED BY <1>3, <2>1, <2>2, <2>3 DEF JobsInv
<1>9. FolderInv'
  <2>1. jobs'[j].kind = "convert" /\ jobs'[j].who = jobs[j].who
    BY <1>2, <1>3 DEF Follows, SameRequest
  <2>2. \A e \in jobs[j].emit : output'[e].by = jobs[j].who.district
    <3>1. jobs[j].emit \subseteq Entities
      BY <1>4 DEF Jobs
    <3> QED BY <1>2, <3>1 DEF Replaced
  <2>3. jobs'[j].status \notin SuccessShaped
    BY <1>3 DEF SuccessShaped
  <2> QED BY <1>2, <1>3, <2>1, <2>2, <2>3 DEF FolderInv, OnlyBy
<1> QED BY <1>5, <1>7, <1>8, <1>9 DEF Inv

LEMMA FinishStep ==
    ASSUME TypeOK, Inv, NEW j \in 1 .. Len(jobs), Finish(j)
    PROVE  TypeOK' /\ Inv'
<1>1. \A k \in 1 .. Len(jobs) : Sound(jobs[k]) /\ LookHolds(jobs[k]) /\ OfItsRun(jobs[k])
  BY DEF Inv, JobsInv
<1>2. /\ UNCHANGED <<saved, extract, screen, writer>>
      /\ budget' = budget \/ Spends("faults")
      /\ jobs[j].at = "finish" /\ jobs[j].kind = "convert"
  BY DEF Finish, Still, AtStep, Fault
<1>3. PICK new : \E kept \in SUBSET Stale(jobs[j].emit) :
             /\ Goes(j, new) /\ Follows(jobs[j], new)
             /\ new.at = "over" /\ (~new.stuck => kept = {})
             /\ output' = [e \in Entities |->
                    IF e \in Stale(jobs[j].emit) \ kept THEN Absent ELSE output[e]]
  BY <1>1, FinishSteps
<1>4. PICK kept \in SUBSET Stale(jobs[j].emit) :
             /\ Goes(j, new) /\ Follows(jobs[j], new)
             /\ new.at = "over" /\ (~new.stuck => kept = {})
             /\ output' = [e \in Entities |->
                    IF e \in Stale(jobs[j].emit) \ kept THEN Absent ELSE output[e]]
  BY <1>3
<1>5. jobs \in Seq(Jobs) /\ new \in Jobs
  BY <1>4 DEF TypeOK, Follows
<1>6. /\ jobs' \in Seq(Jobs) /\ Len(jobs') = Len(jobs) /\ jobs'[j] = new
      /\ \A k \in 1 .. Len(jobs) : k # j => jobs'[k] = jobs[k]
  BY <1>4, <1>5, GoesStep
<1>7. /\ budget' \in [{"jobs", "visits", "faults", "events"} -> Nat]
      /\ budget'.visits = budget.visits
  BY <1>2, SpendsType DEF TypeOK
<1>8. /\ output' \in [Entities -> Cells]
      /\ \A e \in Entities : output'[e] = output[e] \/ output'[e] = Absent
      /\ \A e \in Entities : output'[e].rows <= output[e].rows
  BY <1>4 DEF TypeOK, Cells, Absent
<1>9. TypeOK'
  BY <1>2, <1>6, <1>7, <1>8 DEF TypeOK
<1>10. Moves
  <2>1. ASSUME NEW k \in 1 .. Len(jobs), k # j PROVE Kept(jobs[k], jobs'[k])
    <3>1. jobs'[k] = jobs[k] /\ jobs[k] \in Jobs /\ Sound(jobs[k])
      BY <1>1, <1>5, <1>6, <2>1
    <3> QED BY <3>1 DEF Kept, SameRequest, SameDelivery
  <2> QED BY <1>2, <1>4, <1>6, <2>1 DEF Moves
<1>11. RunnerInv' /\ SlotInv' /\ DialogInv'
  BY <1>2, <1>7, <1>10, MovesScreen DEF Inv
<1>12. JobsInv'
  <2>1. ASSUME NEW k \in 1 .. Len(jobs) PROVE LookHolds(jobs[k])'
    <3>1. CASE k = j
      BY <1>4, <1>6, <3>1 DEF LookHolds
    <3>2. CASE k # j
      <4>1. jobs'[k] = jobs[k] /\ jobs[k] \in Jobs
        BY <1>5, <1>6, <3>2
      <4>2. jobs[k].rows \in Nat /\ jobs[k].emit \subseteq Entities
        BY <4>1 DEF Jobs
      <4>3. \A e \in Entities : output[e].rows \in Nat /\ output'[e].rows \in Nat
        BY <1>8 DEF TypeOK, Cells
      <4>4. ASSUME NEW e \in jobs[k].emit, ~DropsSharply(jobs[k].rows, output[e].rows)
            PROVE  ~DropsSharply(jobs[k].rows, output'[e].rows)
        BY <1>8, <4>2, <4>3, <4>4 DEF DropsSharply
      <4> QED BY <1>1, <4>1, <4>4 DEF LookHolds
    <3> QED BY <3>1, <3>2
  <2>2. ASSUME NEW k \in 1 .. Len(jobs) PROVE OfItsRun(jobs[k])'
    <3>1. CASE k = j
      <4>1. jobs'[k].kind = "convert"
        BY <1>2, <1>4, <1>6, <3>1 DEF Follows, SameRequest
      <4> QED BY <4>1 DEF OfItsRun
    <3>2. CASE k # j
      <4>1. SameDelivery(jobs[k], jobs'[k])
        BY <1>6, <3>2 DEF SameDelivery
      <4> QED BY <1>1, <1>5, <1>10, <4>1, MovesOfItsRun
    <3> QED BY <3>1, <3>2
  <2>3. \A k \in 1 .. Len(jobs) : Sound(jobs'[k])
    BY <1>5, <1>10, MovesSound
  <2> QED BY <1>6, <2>1, <2>2, <2>3 DEF JobsInv
<1>13. FolderInv'
  <2>2. CASE writer # j
    <3> SUFFICES ASSUME writer > 0 PROVE FolderInv'
      BY <1>2 DEF FolderInv
    <3>1. writer \in 1 .. Len(jobs) /\ jobs'[writer] = jobs[writer]
      BY <1>6, <2>2 DEF TypeOK
    <3>2. jobs[writer] \in Jobs
      BY <1>5, <3>1
    <3>3. jobs[writer].emit \subseteq Entities
      BY <3>2 DEF Jobs
    <3>4. FolderInv
      BY DEF Inv
    <3> QED BY <1>2, <1>8, <3>1, <3>3, <3>4 DEF FolderInv, OnlyBy
  <2>3. CASE writer = j
    <3>1. new.kind = "convert" /\ new.who = jobs[j].who
      BY <1>2, <1>4 DEF Follows, SameRequest
    <3>2. OnlyBy(jobs[j].who.district, jobs[j].emit)
      BY <1>2, <2>3 DEF Inv, FolderInv
    <3>3. ASSUME ~new.stuck, NEW e \in Entities, output'[e] # Absent
          PROVE  output'[e].by = jobs[j].who.district
      <4>1. e \notin Stale(jobs[j].emit) /\ output'[e] = output[e]
        BY <1>4, <3>3
      <4>2. e \in jobs[j].emit
        BY <3>3, <4>1 DEF Stale, PresentIn
      <4> QED BY <3>2, <3>3, <4>1, <4>2 DEF OnlyBy
    <3> QED BY <1>2, <1>4, <1>6, <2>3, <3>1, <3>3 DEF FolderInv, OnlyBy
  <2> QED BY <2>2, <2>3
<1> QED BY <1>9, <1>11, <1>12, <1>13 DEF Inv

-----------------------------------------------------------------------------
(* The answer.                                                             *)

Shown(s, runner, ack, refused, slot) ==
    [s EXCEPT !.runner = runner, !.ack = ack, !.refused = refused, !.slot = slot]

LEMMA ShownType ==
    ASSUME NEW s \in Screens, NEW runner \in {"idle", "running", "done", "error"},
           NEW ack \in Whos, NEW refused \in BOOLEAN, NEW slot \in Slots
    PROVE  LET new == Shown(s, runner, ack, refused, slot)
           IN  /\ new \in Screens
               /\ new.runner = runner /\ new.ack = ack /\ new.slot = slot
               /\ new.here = s.here /\ new.pick = s.pick /\ new.folder = s.folder
               /\ new.dialog = s.dialog
               /\ new.refused => refused
  BY DEF Shown, Screens

Painted(j, kind) ==
    \E runner \in {"done", "error"}, refused \in BOOLEAN, offer \in Offers :
        /\ screen' = Shown(screen, runner,
                      IF kind = "ack" THEN jobs[j].who ELSE screen.ack, refused,
                      [kind |-> kind, job |-> j, offer |-> offer])
        /\ refused => jobs[j].status = "output_folder_unusable"
        /\ offer = "ready" =>
             /\ kind = "banner"
             /\ ResultOffer(jobs[j], screen.pick) = "ready"

\* What the screen is painted with: a job of this visit is the one that runs.
LEMMA AnswerPaints ==
    ASSUME TypeOK, Inv, NEW j \in 1 .. Len(jobs), jobs[j].at = "over", Answer(j),
           screen.here, jobs[j].visit = budget.visits,
           NEW kind, kind = (IF jobs[j].status \in Raised THEN "error"
                             ELSE IF jobs[j].status = "needs_anomaly_ack" THEN "ack"
                             ELSE "banner")
    PROVE  Painted(j, kind)
<1>1. screen.runner = "running"
  BY DEF Inv, RunnerInv, Mine
<1>2. screen' = IF jobs[j].status \in Raised THEN ErrorShown(screen, j) ELSE Rendered(screen, j)
  BY DEF Answer
<1>3. CASE jobs[j].status \in Raised
  <2>1. screen' = Shown(screen, "error", screen.ack, FALSE,
                        [kind |-> "error", job |-> j, offer |-> "hidden"])
    BY <1>1, <1>2, <1>3 DEF ErrorShown, Finished, Shown, TypeOK, Screens
  <2>2. kind = "error"
    BY <1>3
  <2> QED BY <2>1, <2>2 DEF Offers, Painted
<1>4. CASE jobs[j].status \notin Raised
  <2> DEFINE offer == IF kind = "ack" THEN "hidden" ELSE ResultOffer(jobs[j], screen.pick)
             refused == jobs[j].status = "output_folder_unusable"
             ack == IF kind = "ack" THEN jobs[j].who ELSE screen.ack
             slot == [kind |-> kind, job |-> j, offer |-> offer]
  <2>1. kind = IF jobs[j].status = "needs_anomaly_ack" THEN "ack" ELSE "banner"
    BY <1>4
  <2>2. screen' = Shown(screen, "done", ack, refused, slot)
    BY <1>1, <1>2, <1>4, <2>1 DEF Rendered, Finished, Shown
  <2>3. offer \in Offers /\ refused \in BOOLEAN
    BY OfferTypes DEF Offers
  <2>4. offer = "ready" => kind = "banner" /\ ResultOffer(jobs[j], screen.pick) = "ready"
    BY <2>1
  <2>5. refused => jobs[j].status = "output_folder_unusable"
    OBVIOUS
  <2> HIDE DEF offer, refused
  <2> QED BY <2>2, <2>3, <2>4, <2>5 DEF Painted
<1> QED BY <1>3, <1>4

\* Only a job whose district can be picked is offered for delivery.
LEMMA OfferedIs ==
    ASSUME NEW job, NEW pick, ResultOffer(job, pick) = "ready"
    PROVE  Offerable(job) /\ job.who.district = DeliverDistrict(pick)
  BY DEF ResultOffer, ResultDeliver

\* A conversion, and a delivery from the card of one, is of a district.
LEMMA RunHasADistrict ==
    ASSUME TypeOK, JobsInv, NEW j \in 1 .. Len(jobs), jobs[j].kind = "convert" \/ jobs[j].run # 0
    PROVE  jobs[j].view.district \in Districts /\ jobs[j].who.district = jobs[j].view.district
<1>1. Sound(jobs[j]) /\ OfItsRun(jobs[j]) /\ jobs[j] \in Jobs
  BY DEF JobsInv, TypeOK
<1>2. CASE jobs[j].kind = "convert"
  BY <1>1, <1>2 DEF Sound, AskedFor
<1>3. CASE jobs[j].kind # "convert"
  <2>1. /\ CanOffer(jobs[j].run) /\ jobs[j].who.district = jobs[j].view.district
        /\ jobs[j].who.district = jobs[jobs[j].run].who.district
    BY <1>1, <1>3 DEF OfItsRun, Jobs
  <2>2. Sound(jobs[jobs[j].run])
    BY <2>1 DEF JobsInv, CanOffer
  <2> QED BY <2>1, <2>2 DEF Sound, AskedFor, CanOffer
<1> QED BY <1>2, <1>3

LEMMA AnswerStep ==
    ASSUME TypeOK, Inv, NEW j \in 1 .. Len(jobs), Answer(j)
    PROVE  TypeOK' /\ Inv'
<1>1. \A k \in 1 .. Len(jobs) : Sound(jobs[k]) /\ LookHolds(jobs[k]) /\ OfItsRun(jobs[k])
  BY DEF Inv, JobsInv
<1>2. /\ UNCHANGED <<saved, extract, output, writer, budget>>
      /\ jobs[j].at = "over" /\ Goes(j, Answered(jobs[j]))
  BY DEF Answer, world
<1> DEFINE new == Answered(jobs[j])
<1>3. jobs \in Seq(Jobs) /\ jobs[j] \in Jobs
  BY DEF TypeOK
<1>4. /\ Follows(jobs[j], new) /\ SameDelivery(jobs[j], new)
      /\ new.at = "answered" /\ new.status = jobs[j].status
  BY <1>1, <1>2, <1>3, AnsweredFollows
<1> HIDE DEF new
<1>5. /\ jobs' \in Seq(Jobs) /\ Len(jobs') = Len(jobs) /\ jobs'[j] = new
      /\ \A k \in 1 .. Len(jobs) : k # j => jobs'[k] = jobs[k]
  BY <1>2, <1>3, <1>4, GoesStep DEF Follows, new
<1>6. \A k \in 1 .. Len(jobs) :
        /\ SameRequest(jobs[k], jobs'[k]) /\ SameDelivery(jobs[k], jobs'[k])
        /\ jobs'[k].status = jobs[k].status
        /\ k # j => jobs'[k] = jobs[k]
  BY <1>4, <1>5 DEF Follows, SameRequest, SameDelivery
<1>7. Moves
  <2>1. ASSUME NEW k \in 1 .. Len(jobs), k # j PROVE Kept(jobs[k], jobs'[k])
    <3>1. jobs'[k] = jobs[k] /\ jobs[k] \in Jobs /\ Sound(jobs[k])
      BY <1>1, <1>3, <1>5, <2>1
    <3> QED BY <3>1 DEF Kept, SameRequest, SameDelivery
  <2> QED BY <1>2, <1>4, <1>5, <2>1 DEF Moves
<1>8. JobsInv'
  <2>1. \A k \in 1 .. Len(jobs) : Sound(jobs'[k])
    BY <1>3, <1>7, MovesSound
  <2>2. ASSUME NEW k \in 1 .. Len(jobs) PROVE LookHolds(jobs[k])'
    BY <1>1, <1>2, <1>4, <1>5 DEF LookHolds
  <2>3. ASSUME NEW k \in 1 .. Len(jobs) PROVE OfItsRun(jobs[k])'
    BY <1>1, <1>3, <1>6, <1>7, MovesOfItsRun
  <2> QED BY <1>5, <2>1, <2>2, <2>3 DEF JobsInv
<1>9. FolderInv'
  <2> SUFFICES ASSUME writer > 0 PROVE FolderInv'
    BY <1>2 DEF FolderInv
  <2>1. writer \in 1 .. Len(jobs) /\ FolderInv
    BY DEF TypeOK, Inv
  <2>2. CASE writer # j
    BY <1>2, <1>5, <2>1, <2>2 DEF FolderInv, OnlyBy
  <2>3. CASE writer = j
    <3>1. jobs'[j].kind = jobs[j].kind /\ jobs'[j].who = jobs[j].who
          /\ jobs'[j].stuck = jobs[j].stuck
      BY <1>6 DEF SameRequest, SameDelivery
    <3> QED BY <1>2, <1>4, <1>5, <2>1, <2>3, <3>1 DEF FolderInv, OnlyBy
  <2> QED BY <2>2, <2>3
<1>10. CASE ~(screen.here /\ jobs[j].visit = budget.visits)
  <2>1. screen' = screen
    BY <1>10 DEF Answer
  <2>2. RunnerInv' /\ SlotInv' /\ DialogInv'
    BY <1>2, <1>7, <2>1, MovesScreen DEF Inv
  <2>3. TypeOK'
    BY <1>2, <1>5, <2>1 DEF TypeOK
  <2> QED BY <1>8, <1>9, <2>2, <2>3 DEF Inv
<1>11. CASE screen.here /\ jobs[j].visit = budget.visits
  <2> DEFINE kind == IF jobs[j].status \in Raised THEN "error"
                     ELSE IF jobs[j].status = "needs_anomaly_ack" THEN "ack" ELSE "banner"
  <2>2. /\ kind = "error" <=> jobs[j].status \in Raised
        /\ kind = "ack" => jobs[j].status = "needs_anomaly_ack"
        /\ kind = "banner" => jobs[j].status \notin Raised \cup {"needs_anomaly_ack"}
        /\ jobs[j].status = "output_folder_unusable" => kind = "banner"
        /\ kind \in {"error", "ack", "banner"}
    BY DEF Raised
  <2>0. kind = IF jobs[j].status \in Raised THEN "error"
               ELSE IF jobs[j].status = "needs_anomaly_ack" THEN "ack" ELSE "banner"
    OBVIOUS
  <2> HIDE DEF kind
  <2>13. Painted(j, kind)
    BY <1>2, <1>11, <2>0, AnswerPaints
  <2>1. PICK runner \in {"done", "error"}, refused \in BOOLEAN, offer \in Offers :
             /\ screen' = Shown(screen, runner,
                                IF kind = "ack" THEN jobs[j].who ELSE screen.ack, refused,
                                [kind |-> kind, job |-> j, offer |-> offer])
             /\ refused => jobs[j].status = "output_folder_unusable"
             /\ offer = "ready" =>
                  /\ kind = "banner"
                  /\ ResultOffer(jobs[j], screen.pick) = "ready"
    BY <2>13 DEF Painted
  <2> DEFINE slot == [kind |-> kind, job |-> j, offer |-> offer]
             ack == IF kind = "ack" THEN jobs[j].who ELSE screen.ack
  <2>3. slot \in Slots /\ slot.kind = kind /\ slot.job = j /\ slot.offer = offer
    BY <1>3, <2>1, <2>2 DEF Slots
  <2>4. ack \in Whos /\ screen \in Screens
    BY <1>3 DEF TypeOK, Jobs, Screens
  <2>5. screen' = Shown(screen, runner, ack, refused, slot)
    BY <2>1
  <2>6. (kind = "ack" => ack = jobs[j].who)
    OBVIOUS
  <2> HIDE DEF slot, ack
  <2>7. /\ screen' \in Screens
        /\ screen'.runner = runner /\ screen'.ack = ack /\ screen'.slot = slot
        /\ screen'.here = screen.here /\ screen'.pick = screen.pick
        /\ screen'.folder = screen.folder /\ screen'.dialog = screen.dialog
        /\ screen'.refused => refused
    BY <2>3, <2>4, <2>5, ShownType
  <2>8. TypeOK'
    BY <1>2, <1>5, <2>7 DEF TypeOK
  <2>9. jobs[j].view = Identity(screen.pick, screen.folder)
        /\ \A k \in 1 .. Len(jobs) : jobs[k].visit = budget.visits /\ jobs[k].at # "answered" => k = j
    BY <1>2, <1>11 DEF Inv, RunnerInv, Mine
  <2>10. RunnerInv'
    <3>1. \A k \in 1 .. Len(jobs) : jobs'[k].visit = jobs[k].visit /\ jobs[k].visit >= budget.visits
      BY <1>6 DEF SameRequest, Inv, RunnerInv
    <3>2. \A k \in 1 .. Len(jobs) : jobs'[k].visit = budget.visits => jobs'[k].at = "answered"
      BY <1>4, <1>5, <1>6, <2>9 DEF SameRequest
    <3>3. screen.folder \in Folders
      BY <1>11 DEF Inv, RunnerInv
    <3> QED BY <1>2, <1>5, <1>11, <2>1, <2>7, <3>1, <3>2, <3>3 DEF RunnerInv, Mine
  <2>11. SlotInv'
    <3>1. /\ jobs'[j].at = "answered" /\ jobs'[j].status = jobs[j].status
          /\ jobs'[j].kind = jobs[j].kind /\ jobs'[j].who = jobs[j].who
          /\ jobs'[j].run = jobs[j].run
      BY <1>4, <1>5, <1>6 DEF SameRequest
    <3>2. kind = "ack" => jobs[j].who = Identity(screen.pick, screen.folder)
      BY <1>1, <1>2, <2>2, <2>9 DEF Sound, Truthful, AskedFor
    <3>3. kind = "banner" /\ (jobs[j].kind = "convert" \/ jobs[j].run # 0) => screen.pick # Blank
      BY <2>9, RunHasADistrict, ConfiguredAssumption DEF Inv, Identity
    <3>4. offer = "ready" => /\ kind = "banner" /\ Offerable(jobs'[j])
                             /\ jobs[j].who.district = DeliverDistrict(screen.pick)
      BY <2>1, <3>1, OfferedIs DEF Offerable
    <3>5. DeliverDistrict(screen.pick)' = DeliverDistrict(screen.pick)
      BY <1>2, <2>7 DEF DeliverDistrict
    <3>6. /\ screen'.refused => kind = "banner" /\ jobs'[j].status = "output_folder_unusable"
          /\ jobs'[j].at = "answered"
          /\ kind \in {"ack", "note"} => jobs'[j].status = "needs_anomaly_ack"
          /\ kind = "ack" => /\ screen'.ack = jobs'[j].who
                             /\ jobs'[j].who = Identity(screen'.pick, screen'.folder)
          /\ kind = "error" => jobs'[j].status \in Raised
          /\ kind = "banner" =>
               /\ jobs'[j].status \notin Raised \cup {"needs_anomaly_ack"}
               /\ jobs'[j].kind = "convert" \/ jobs'[j].run # 0 => screen'.pick # Blank
      BY <2>1, <2>2, <2>6, <2>7, <3>1, <3>2, <3>3
    <3>7. offer = "ready" => /\ kind = "banner" /\ Offerable(jobs'[j])
                             /\ jobs'[j].who.district = DeliverDistrict(screen.pick)'
      BY <3>1, <3>4, <3>5
    <3> QED BY <1>5, <2>3, <2>7, <3>6, <3>7 DEF SlotInv
  <2>12. DialogInv'
    <3>1. screen'.dialog = screen.dialog /\ screen'.pick = screen.pick
      BY <2>7
    <3>2. \A r : CanOffer(r) => CanOffer(r)' /\ jobs'[r].who = jobs[r].who
      BY <1>3, <1>7, MovesOffer DEF SameRequest
    <3> QED BY <3>1, <3>2 DEF Inv, DialogInv
  <2> QED BY <1>8, <1>9, <2>8, <2>10, <2>11, <2>12 DEF Inv
<1> QED BY <1>10, <1>11

-----------------------------------------------------------------------------
(* The person at the screen.                                               *)

LEMMA JobsStay ==
    ASSUME JobsInv, FolderInv, UNCHANGED <<jobs, output, writer>>
    PROVE  JobsInv' /\ FolderInv'
  BY DEF JobsInv, FolderInv, LookHolds, OfItsRun, CanOffer, OnlyBy

\* Nothing of this visit runs under a screen that does not.
LEMMA NothingRuns ==
    ASSUME RunnerInv, screen.runner # "running"
    PROVE  \A k \in 1 .. Len(jobs) : Mine(jobs[k]) => jobs[k].at = "answered"
  BY DEF RunnerInv

\* A question on the screen is of a conversion, whose district has a name.
LEMMA QuestionIs ==
    ASSUME TypeOK, Inv, screen.slot.kind = "ack"
    PROVE  LET job == jobs[screen.slot.job]
           IN  /\ screen.slot.job \in 1 .. Len(jobs)
               /\ job.who = Identity(screen.pick, screen.folder)
               /\ job.who.district \in Districts /\ job.who.folder \in Folders
               /\ screen.ack = job.who /\ screen.ack # NoRun /\ screen.runner # "running"
<1> DEFINE job == jobs[screen.slot.job]
<1>1. /\ screen.slot.job \in 1 .. Len(jobs) /\ job.at = "answered"
      /\ job.status = "needs_anomaly_ack"
      /\ job.who = Identity(screen.pick, screen.folder) /\ screen.ack = job.who
  BY DEF Inv, SlotInv
<1>2. Sound(job)
  BY <1>1 DEF Inv, JobsInv
<1>3. job.who.district \in Districts /\ job.who.folder \in Folders
  BY <1>1, <1>2 DEF Sound, Truthful, AskedFor
<1>4. job.who # NoRun
  BY <1>3, ConfiguredAssumption DEF NoRun, Identity
<1>5. screen.runner # "running"
  BY DEF Inv, RunnerInv
<1> QED BY <1>1, <1>3, <1>4, <1>5

LEMMA BeginsStep ==
    ASSUME TypeOK, Inv, NEW job \in Jobs, Begins(job), screen.here,
           Sound(job), OfItsRun(job), job.at \in {"prepare", "resolve"},
           job.visit = budget.visits, job.view = Identity(screen.pick, screen.folder)
    PROVE  TypeOK' /\ Inv'
<1> DEFINE n == Len(jobs) + 1
<1>1. /\ jobs' = Append(jobs, job) /\ Spends("jobs") /\ screen.runner # "running"
      /\ UNCHANGED <<saved, extract, output, writer>>
  BY DEF Begins, CanStart, world
<1>2. screen' = [screen EXCEPT !.runner = "running", !.ack = NoRun, !.slot = NoSlot,
                               !.standalone = "hidden", !.refused = FALSE,
                               !.dialog = NoDialog]
  BY DEF Begins
<1>3. /\ jobs \in Seq(Jobs) /\ jobs' \in Seq(Jobs) /\ Len(jobs') = n /\ jobs'[n] = job
      /\ \A k \in 1 .. Len(jobs) : jobs'[k] = jobs[k]
  BY <1>1, AppendStep DEF TypeOK
<1>4. /\ budget' \in [{"jobs", "visits", "faults", "events"} -> Nat]
      /\ budget'.visits = budget.visits
  BY <1>1, SpendsType
<1>5. screen' \in Screens /\ screen'.here = screen.here /\ screen'.runner = "running"
      /\ screen'.ack = NoRun /\ screen'.slot = NoSlot /\ screen'.refused = FALSE
      /\ screen'.dialog = NoDialog /\ screen'.pick = screen.pick
      /\ screen'.folder = screen.folder
  <2>1. screen \in Screens
    BY DEF TypeOK
  <2>2. "hidden" \in Offers
    BY DEF Offers
  <2> QED BY <1>2, <2>1, <2>2, ScreenTypes DEF Screens
<1>6. TypeOK'
  BY <1>1, <1>3, <1>4, <1>5 DEF TypeOK
<1>7. \A k \in 1 .. n : k = n \/ k \in 1 .. Len(jobs)
  BY <1>3
<1>8. \A r : CanOffer(r) => CanOffer(r)' /\ jobs'[r] = jobs[r]
  BY <1>3 DEF CanOffer
<1>9. JobsInv'
  <2>1. ASSUME NEW k \in 1 .. n
        PROVE  Sound(jobs'[k]) /\ LookHolds(jobs[k])' /\ OfItsRun(jobs[k])'
    <3>1. Sound(jobs'[k]) /\ LookHolds(jobs'[k]) /\ OfItsRun(jobs'[k])
      BY <1>3, <1>7 DEF Inv, JobsInv, LookHolds
    <3>2. LookHolds(jobs[k])'
      BY <1>1, <3>1 DEF LookHolds
    <3>3. OfItsRun(jobs[k])'
      <4> SUFFICES ASSUME jobs'[k].kind = "deliver", NEW r, r = jobs'[k].run, r # 0
                   PROVE  /\ CanOffer(r)'
                          /\ jobs'[k].who.district = jobs'[k].view.district
                          /\ jobs'[k].who.district = jobs'[r].who.district
                          /\ \/ jobs'[k].sent \subseteq {jobs'[k].who.district}
                             \/ jobs'[k].foreign \/ jobs'[r].stuck
        BY DEF OfItsRun, CanOffer
      <4>1. CanOffer(r)
        BY <3>1 DEF OfItsRun
      <4> QED BY <1>8, <3>1, <4>1 DEF OfItsRun
    <3> QED BY <3>1, <3>2, <3>3
  <2> QED BY <1>3, <2>1 DEF JobsInv
<1>10. FolderInv'
  <2>1. writer > 0 => writer \in 1 .. Len(jobs)
    BY DEF TypeOK
  <2> QED BY <1>1, <1>3, <2>1 DEF Inv, FolderInv, OnlyBy
<1>11. RunnerInv'
  <2>1. \A k \in 1 .. Len(jobs) : jobs[k].visit = budget.visits => jobs[k].at = "answered"
    BY <1>1, NothingRuns DEF Inv, Mine
  <2>2. \A k \in 1 .. Len(jobs) : jobs[k].visit >= budget.visits
    BY DEF Inv, RunnerInv
  <2>3. budget.visits \in Nat
    BY DEF TypeOK
  <2>4. screen.folder \in Folders
    BY DEF Inv, RunnerInv
  <2> QED BY <1>3, <1>4, <1>5, <1>7, <2>1, <2>2, <2>3, <2>4 DEF RunnerInv, Mine, NoSlot
<1>12. SlotInv' /\ DialogInv'
  BY <1>5 DEF SlotInv, DialogInv, NoSlot, NoDialog
<1> QED BY <1>6, <1>9, <1>10, <1>11, <1>12 DEF Inv

\* A conversion is started for the run the screen shows.
LEMMA ConvertBegins ==
    ASSUME TypeOK, Inv, screen.here, screen.pick \in Districts,
           NEW who, who = Identity(screen.pick, screen.folder),
           NEW ack \in {NoRun, who}, Begins(NewJob("convert", who, ack, 0))
    PROVE  TypeOK' /\ Inv'
<1> DEFINE job == NewJob("convert", who, ack, 0)
<1>1. screen.folder \in Folders
  BY DEF Inv, RunnerInv
<1>2. who \in Whos /\ who.district = screen.pick /\ who.folder = screen.folder
  BY <1>1 DEF Identity, Whos, Picks
<1>3. ack \in Whos
  BY <1>2, ScreenTypes
<1>4. /\ job \in Jobs
      /\ job.kind = "convert" /\ job.who = who /\ job.ack = ack /\ job.run = 0
      /\ job.visit = budget.visits /\ job.view = who /\ job.at = "prepare"
      /\ job.status = "none" /\ ~job.wrote /\ ~job.shrank
  BY <1>2, <1>3, NewJobIs
<1> HIDE DEF job
<1>5. AskedFor(job) /\ InPlace(job) /\ Shrunk(job) /\ Truthful(job) /\ Agreed(job)
  BY <1>1, <1>2, <1>4 DEF AskedFor, InPlace, Shrunk, Truthful, Agreed
<1>6. OfItsRun(job)
  BY <1>4 DEF OfItsRun
<1>7. Begins(job)
  BY DEF job
<1> QED BY <1>4, <1>5, <1>6, <1>7, BeginsStep DEF Sound

LEMMA StartsStep ==
    ASSUME TypeOK, Inv, StartConvert \/ Acknowledge \/ StartDeliver
    PROVE  TypeOK' /\ Inv'
<1>1. CASE StartConvert
  <2>1. screen.here /\ screen.pick # Blank
    BY <1>1 DEF StartConvert, Shows, Enabled, Interaction, CanRunConvert
  <2>2. screen.pick \in Districts
    BY <2>1 DEF TypeOK, Screens, Picks
  <2>3. Begins(NewJob("convert", Identity(screen.pick, screen.folder), NoRun, 0))
    BY <1>1 DEF StartConvert
  <2> QED BY <2>1, <2>2, <2>3, ConvertBegins
<1>2. CASE Acknowledge
  <2> DEFINE who == Identity(screen.pick, screen.folder)
  <2>1. screen.here /\ screen.slot.kind = "ack"
    BY <1>2 DEF Acknowledge, Shows
  <2>2. /\ jobs[screen.slot.job].who = who /\ who.district \in Districts
    BY <2>1, QuestionIs
  <2>3. screen.pick \in Districts
    BY <2>2 DEF Identity
  <2>4. Begins(NewJob("convert", who, who, 0))
    BY <1>2, <2>2 DEF Acknowledge
  <2> HIDE DEF who
  <2> QED BY <2>1, <2>3, <2>4, ConvertBegins DEF who
<1>3. CASE StartDeliver
  <2> DEFINE d == screen.dialog.district
             run == screen.dialog.run
             who == Identity(d, screen.folder)
             job == NewJob("deliver", who, NoRun, run)
  <2>1. Begins(job) /\ screen.dialog.kind = "deliver"
    BY <1>3 DEF StartDeliver
  <2>2. screen.here
    BY <2>1 DEF Inv, RunnerInv, Away, NoDialog
  <2>3. d \in Picks /\ run \in Nat /\ screen.folder \in Folders
    BY <2>2 DEF TypeOK, Screens, Dialogs, Inv, RunnerInv
  <2>4. who \in Whos /\ who.district = d
    BY <2>3 DEF Whos, Identity
  <2>5. run # 0 => /\ CanOffer(run) /\ d = jobs[run].who.district /\ d = screen.pick
    BY DEF Inv, DialogInv
  <2> HIDE DEF d, run, who
  <2>6. /\ job \in Jobs
        /\ job.kind = "deliver" /\ job.who = who /\ job.ack = NoRun /\ job.run = run
        /\ job.visit = budget.visits
        /\ job.view = Identity(screen.pick, screen.folder) /\ job.at = "resolve"
        /\ job.status = "none" /\ ~job.dirty /\ job.outcomes = {} /\ ~job.wrote
        /\ ~job.shrank /\ job.sent = {}
    BY <2>3, <2>4, ScreenTypes, NewJobIs
  <2> HIDE DEF job
  <2>7. AskedFor(job) /\ InPlace(job) /\ Shrunk(job) /\ Truthful(job) /\ Agreed(job)
    BY <2>6 DEF AskedFor, InPlace, Shrunk, Truthful, Agreed
  <2>8. OfItsRun(job)
    BY <2>4, <2>5, <2>6 DEF OfItsRun, Identity
  <2> QED BY <2>1, <2>2, <2>6, <2>7, <2>8, BeginsStep DEF Sound
<1> QED BY <1>1, <1>2, <1>3

\* Opening the screen anew, or leaving it, drops what was painted.
LEMMA VisitStep ==
    ASSUME TypeOK, Inv, Open \/ Leave
    PROVE  TypeOK' /\ Inv'
<1>1. UNCHANGED <<saved, extract, output, writer, jobs>>
  BY DEF Open, Leave, world
<1>2. JobsInv' /\ FolderInv'
  BY <1>1, JobsStay DEF Inv
<1>3. CASE Open
  <2> DEFINE s == [Away EXCEPT !.here = TRUE, !.outputSet = saved.output,
                               !.pick = saved.district, !.folder = saved.folder]
  <2>1. saved.district \in Picks /\ saved.folder \in Folders /\ saved.output \in BOOLEAN
    BY DEF TypeOK
  <2>2. /\ s \in Screens /\ s.here /\ s.slot = NoSlot /\ s.dialog = NoDialog /\ ~s.refused
        /\ s.runner = "idle" /\ s.folder = saved.folder
    <3>1. Away \in Screens
      BY ScreenTypes
    <3> QED BY <2>1, <3>1 DEF Screens, Away
  <2>3. screen' = Refreshed(s) /\ Spends("visits")
    BY <1>3 DEF Open
  <2> HIDE DEF s
  <2>4. screen' = [s EXCEPT !.standalone = Standalone(s.pick)]
    BY <2>2, <2>3, RefreshedIs DEF NoSlot
  <2>5. /\ screen' \in Screens /\ screen'.here /\ screen'.slot = NoSlot
        /\ screen'.dialog = NoDialog /\ ~screen'.refused
        /\ screen'.runner = "idle" /\ screen'.folder \in Folders
    BY <2>1, <2>2, <2>4, OfferTypes, ScreenTypes DEF Screens
  <2>6. /\ budget' \in [{"jobs", "visits", "faults", "events"} -> Nat]
        /\ budget'.visits = budget.visits - 1 /\ budget.visits \in Nat
    BY <2>3, SpendsType DEF TypeOK
  <2>7. TypeOK'
    BY <1>1, <2>5, <2>6 DEF TypeOK
  <2>8. RunnerInv'
    <3>1. ASSUME NEW k \in 1 .. Len(jobs)
          PROVE  jobs[k].visit >= budget.visits /\ jobs[k].visit \in Nat
      <4>1. jobs[k] \in Jobs
        BY DEF TypeOK
      <4> QED BY <4>1 DEF Inv, RunnerInv, Jobs
    <3> QED BY <1>1, <2>5, <2>6, <3>1 DEF RunnerInv, Mine
  <2>9. SlotInv' /\ DialogInv'
    BY <2>5 DEF SlotInv, DialogInv, NoSlot, NoDialog
  <2> QED BY <1>2, <2>7, <2>8, <2>9 DEF Inv
<1>4. CASE Leave
  <2>1. screen' = Away /\ budget' = budget
    BY <1>4 DEF Leave
  <2>2. TypeOK'
    BY <1>1, <2>1, ScreenTypes DEF TypeOK
  <2>3. RunnerInv'
    BY <1>1, <2>1 DEF Inv, RunnerInv, Mine, Away
  <2>4. SlotInv' /\ DialogInv'
    BY <2>1 DEF SlotInv, DialogInv, Away, NoSlot, NoDialog
  <2> QED BY <1>2, <2>2, <2>3, <2>4 DEF Inv
<1> QED BY <1>3, <1>4

\* The inputs of a question and of a running job are frozen.
LEMMA InputsAreFree ==
    ASSUME TypeOK, Inv, Shows, Enabled.inputs
    PROVE  /\ screen.runner # "running" /\ screen.slot.kind # "ack" /\ screen.here
           /\ screen.dialog.run = 0
<1>1. screen.runner # "running" /\ screen.ack = NoRun
  BY DEF Enabled, Interaction
<1>2. screen.slot.kind # "ack"
  BY <1>1, QuestionIs
<1> QED BY <1>1, <1>2 DEF Shows, Inv, DialogInv

LEMMA PickStep ==
    ASSUME TypeOK, Inv, PickDistrict \/ PickFolder
    PROVE  TypeOK' /\ Inv'
<1>1. UNCHANGED <<saved, extract, output, writer, jobs, budget>>
  BY DEF PickDistrict, PickFolder, world
<1>2. JobsInv' /\ FolderInv'
  BY <1>1, JobsStay DEF Inv
<1>3. /\ screen.runner # "running" /\ screen.slot.kind # "ack" /\ screen.here
      /\ screen.dialog.run = 0
  BY InputsAreFree DEF PickDistrict, PickFolder
<1>4. screen \in Screens /\ screen.folder \in Folders
  BY <1>3 DEF TypeOK, Inv, RunnerInv
<1>5. ASSUME screen' \in Screens, screen'.here = screen.here, screen'.runner = screen.runner,
             screen'.dialog = screen.dialog, screen'.folder \in Folders
      PROVE  TypeOK' /\ RunnerInv' /\ DialogInv'
  <2>1. TypeOK'
    BY <1>1, <1>5 DEF TypeOK
  <2>2. \A k \in 1 .. Len(jobs) : jobs[k].visit = budget.visits => jobs[k].at = "answered"
    BY <1>3, NothingRuns DEF Inv, Mine
  <2>3. \A k \in 1 .. Len(jobs) : jobs[k].visit >= budget.visits
    BY DEF Inv, RunnerInv
  <2>4. RunnerInv'
    BY <1>1, <1>3, <1>5, <2>2, <2>3 DEF RunnerInv, Mine
  <2>5. DialogInv'
    BY <1>3, <1>5 DEF DialogInv
  <2> QED BY <2>1, <2>4, <2>5
<1>6. CASE PickFolder
  <2>1. PICK x \in Folders : screen' = [screen EXCEPT !.folder = x]
    BY <1>6 DEF PickFolder
  <2>2. /\ screen' \in Screens /\ screen'.here = screen.here /\ screen'.runner = screen.runner
        /\ screen'.dialog = screen.dialog /\ screen'.folder \in Folders
        /\ screen'.slot = screen.slot /\ screen'.pick = screen.pick
        /\ screen'.refused = screen.refused
    BY <1>4, <2>1, ScreenTypes DEF Screens
  <2>3. SlotInv'
    BY <1>1, <1>3, <2>2 DEF Inv, SlotInv, DeliverDistrict
  <2> QED BY <1>2, <1>5, <2>2, <2>3 DEF Inv
<1>7. CASE PickDistrict
  <2>1. PICK d \in saved.listed : screen' = Refreshed([screen EXCEPT !.pick = d])
    BY <1>7 DEF PickDistrict
  <2> DEFINE s == [screen EXCEPT !.pick = d]
  <2>2. d \in Districts /\ d \in Picks /\ d # Blank
    BY ConfiguredAssumption DEF TypeOK, Picks
  <2>3. /\ s \in Screens /\ s.here = screen.here /\ s.runner = screen.runner
        /\ s.dialog = screen.dialog /\ s.folder = screen.folder
        /\ s.slot = screen.slot /\ s.pick = d /\ s.refused = screen.refused
    BY <1>4, <2>2, ScreenTypes DEF Screens
  <2>4. screen' = Refreshed(s)
    BY <2>1
  <2> HIDE DEF s
  <2> DEFINE offer == ResultOffer(jobs[s.slot.job], s.pick)
  <2>5. \/ /\ s.slot.kind = "banner"
           /\ screen' = [s EXCEPT !.slot = [s.slot EXCEPT !.offer = offer]]
        \/ s.slot.kind # "banner" /\ screen' = [s EXCEPT !.standalone = Standalone(s.pick)]
        \/ s.slot.kind # "banner" /\ screen' = s
    BY <2>4, RefreshedIs
  <2>6. offer \in Offers /\ Standalone(s.pick) \in Offers
    BY OfferTypes
  <2>7. offer = "ready" => /\ Offerable(jobs[s.slot.job])
                           /\ jobs[s.slot.job].who.district = DeliverDistrict(d)
    BY <2>3, OfferedIs
  <2> HIDE DEF offer
  <2>8. /\ screen' \in Screens /\ screen'.here = screen.here /\ screen'.runner = screen.runner
        /\ screen'.dialog = screen.dialog /\ screen'.folder = screen.folder
        /\ screen'.pick = d /\ screen'.refused = screen.refused
        /\ screen'.slot.kind = screen.slot.kind /\ screen'.slot.job = screen.slot.job
        /\ IF screen.slot.kind = "banner" THEN screen'.slot.offer = offer
           ELSE screen'.slot.offer = screen.slot.offer
    <3>1. s.slot \in Slots
      BY <2>3, ScreenTypes
    <3>2. [s.slot EXCEPT !.offer = offer] \in Slots
      BY <2>6, <3>1, ScreenTypes
    <3>3. CASE /\ s.slot.kind = "banner"
               /\ screen' = [s EXCEPT !.slot = [s.slot EXCEPT !.offer = offer]]
      <4> DEFINE slot == [s.slot EXCEPT !.offer = offer]
      <4>1. slot.kind = s.slot.kind /\ slot.job = s.slot.job /\ slot.offer = offer
        BY <3>1 DEF Slots
      <4>2. slot \in Slots /\ screen' = [s EXCEPT !.slot = slot]
        BY <3>2, <3>3
      <4> HIDE DEF slot
      <4>3. screen' \in Screens
        BY <2>3, <4>2, ScreenTypes
      <4> QED BY <2>3, <3>3, <4>1, <4>2, <4>3 DEF Screens
    <3>4. CASE s.slot.kind # "banner" /\ screen' = [s EXCEPT !.standalone = Standalone(s.pick)]
      BY <2>3, <2>6, <3>4, ScreenTypes DEF Screens
    <3>5. CASE s.slot.kind # "banner" /\ screen' = s
      BY <2>3, <3>5
    <3> QED BY <2>5, <3>3, <3>4, <3>5
  <2>9. SlotInv'
    <3>1. screen'.slot.offer = "ready" =>
            /\ screen.slot.kind = "banner" /\ Offerable(jobs[screen.slot.job])
            /\ jobs[screen.slot.job].who.district = DeliverDistrict(d)
      BY <2>3, <2>7, <2>8 DEF Inv, SlotInv
    <3>2. DeliverDistrict(d)' = DeliverDistrict(d)
      BY <1>1 DEF DeliverDistrict
    <3> QED BY <1>1, <1>3, <2>2, <2>8, <3>1, <3>2 DEF Inv, SlotInv, DeliverDistrict
  <2> QED BY <1>2, <1>4, <1>5, <2>8, <2>9 DEF Inv
<1> QED BY <1>6, <1>7 DEF PickDistrict, PickFolder

LEMMA DeclineStep ==
    ASSUME TypeOK, Inv, Decline
    PROVE  TypeOK' /\ Inv'
<1>1. UNCHANGED <<saved, extract, output, writer, jobs, budget>>
  BY DEF Decline, world
<1>2. JobsInv' /\ FolderInv'
  BY <1>1, JobsStay DEF Inv
<1>3. screen.slot.kind = "ack" /\ screen.here
  BY DEF Decline, Shows
<1>4. screen.runner # "running" /\ ~screen.refused /\ screen.slot.offer # "ready"
  BY <1>3, QuestionIs DEF Inv, SlotInv
<1> DEFINE slot == [screen.slot EXCEPT !.kind = "note"]
<1>5. screen \in Screens /\ screen.slot \in Slots
  BY ScreenTypes DEF TypeOK
<1>6. slot \in Slots /\ slot.kind = "note" /\ slot.job = screen.slot.job
      /\ slot.offer = screen.slot.offer
  BY <1>5, ScreenTypes DEF Slots
<1>7. screen' = Shown(screen, Reset(screen.runner), NoRun, FALSE, slot)
  <2>1. screen.refused = FALSE
    BY <1>4, <1>5 DEF Screens
  <2>2. screen' = [screen EXCEPT !.runner = Reset(@), !.ack = NoRun, !.slot.kind = "note"]
    BY DEF Decline
  <2> QED BY <1>5, <2>1, <2>2 DEF Shown, Screens
<1>8. Reset(screen.runner) \in {"idle", "done", "error"}
  BY <1>4, <1>5 DEF Reset, Screens
<1>9. NoRun \in Whos
  BY ScreenTypes
<1>15. PICK runner \in {"idle", "running", "done", "error"}, refused \in BOOLEAN :
         /\ runner # "running" /\ ~refused
         /\ screen' = Shown(screen, runner, NoRun, refused, slot)
  BY <1>7, <1>8
<1>10. /\ screen' \in Screens /\ screen'.runner # "running" /\ screen'.slot = slot
       /\ screen'.here = screen.here /\ screen'.pick = screen.pick
       /\ screen'.folder = screen.folder /\ screen'.dialog = screen.dialog
       /\ ~screen'.refused
  BY <1>5, <1>6, <1>9, <1>15, ShownType
<1>11. TypeOK'
  BY <1>1, <1>10 DEF TypeOK
<1>12. RunnerInv'
  <2>1. \A k \in 1 .. Len(jobs) : jobs[k].visit = budget.visits => jobs[k].at = "answered"
    BY <1>3, <1>4, NothingRuns DEF Inv, Mine
  <2> QED BY <1>1, <1>3, <1>10, <2>1 DEF Inv, RunnerInv, Mine
<1>13. SlotInv'
  BY <1>1, <1>3, <1>4, <1>6, <1>10 DEF Inv, SlotInv
<1>14. DialogInv'
  BY <1>1, <1>10 DEF Inv, DialogInv, CanOffer
<1> QED BY <1>2, <1>11, <1>12, <1>13, <1>14 DEF Inv

\* The question before a delivery.
LEMMA ConfirmStep ==
    ASSUME TypeOK, Inv, screen.here, NEW d \in Picks, NEW run \in Nat, Confirm(d, run),
           run # 0 => CanOffer(run) /\ d = jobs[run].who.district /\ d = screen.pick
    PROVE  TypeOK' /\ Inv'
<1>1. UNCHANGED <<saved, extract, output, writer, jobs, budget>>
  BY DEF Confirm, world
<1>2. JobsInv' /\ FolderInv'
  BY <1>1, JobsStay DEF Inv
<1>3. PICK kind \in {"nothing", "deliver"} :
        screen' = [screen EXCEPT !.dialog = [kind |-> kind, district |-> d, run |-> run]]
  BY DEF Confirm
<1> DEFINE dialog == [kind |-> kind, district |-> d, run |-> run]
<1>4. dialog \in Dialogs /\ dialog.kind # "none" /\ dialog.district = d /\ dialog.run = run
  BY DEF Dialogs
<1> HIDE DEF dialog
<1>5. /\ screen' \in Screens /\ screen'.dialog = dialog
      /\ screen'.here = screen.here /\ screen'.pick = screen.pick
      /\ screen'.folder = screen.folder /\ screen'.slot = screen.slot
      /\ screen'.runner = screen.runner /\ screen'.ack = screen.ack
      /\ screen'.refused = screen.refused
  <2>1. screen \in Screens /\ screen' = [screen EXCEPT !.dialog = dialog]
    BY <1>3 DEF TypeOK, dialog
  <2> QED BY <1>4, <2>1, ScreenTypes DEF Screens
<1>6. TypeOK'
  BY <1>1, <1>5 DEF TypeOK
<1>7. RunnerInv'
  BY <1>1, <1>5 DEF Inv, RunnerInv, Mine
<1>8. SlotInv'
  BY <1>1, <1>5 DEF Inv, SlotInv, DeliverDistrict
<1>9. DialogInv'
  BY <1>1, <1>4, <1>5 DEF DialogInv, CanOffer
<1> QED BY <1>2, <1>6, <1>7, <1>8, <1>9 DEF Inv

LEMMA DialogStep ==
    ASSUME TypeOK, Inv, DeliverResult \/ DeliverFolder \/ CloseDialog
    PROVE  TypeOK' /\ Inv'
<1>1. \A pick \in Picks : DeliverDistrict(pick) \in Picks
  BY DEF TypeOK, DeliverDistrict
<1>2. CASE DeliverResult
  <2> DEFINE r == screen.slot.job
             job == jobs[r]
             run == IF job.kind = "convert" THEN r ELSE job.run
             d == job.who.district
  <2>1. screen.here /\ screen.slot.offer = "ready" /\ Confirm(d, run)
    BY <1>2 DEF DeliverResult, Shows
  <2>2. /\ r \in 1 .. Len(jobs) /\ job.at = "answered" /\ Offerable(job)
        /\ job.who.district = DeliverDistrict(screen.pick)
        /\ job.kind = "convert" \/ job.run # 0 => screen.pick # Blank
    BY <2>1 DEF Inv, SlotInv
  <2>3. job \in Jobs /\ Sound(job) /\ OfItsRun(job)
    BY <2>2 DEF TypeOK, Inv, JobsInv
  <2>4. d \in Picks /\ run \in Nat
    BY <2>2, <2>3 DEF Jobs, Whos
  <2>5. run # 0 => CanOffer(run) /\ d = jobs[run].who.district /\ d = screen.pick
    <3> SUFFICES ASSUME run # 0
                 PROVE  CanOffer(run) /\ d = jobs[run].who.district /\ d = screen.pick
      OBVIOUS
    <3>1. CASE job.kind = "convert"
      <4>1. job.status \in SuccessShaped
        BY <2>2, <2>3, <3>1 DEF Offerable, Sound, Truthful
      <4> QED BY <2>2, <3>1, <4>1 DEF CanOffer, DeliverDistrict
    <3>2. CASE job.kind # "convert"
      <4>1. job.kind = "deliver" /\ job.run # 0
        BY <2>3, <3>2 DEF Jobs
      <4> QED BY <2>2, <2>3, <3>2, <4>1 DEF OfItsRun, DeliverDistrict
    <3> QED BY <3>1, <3>2
  <2> HIDE DEF run, d
  <2> QED BY <2>1, <2>4, <2>5, ConfirmStep
<1>3. CASE DeliverFolder
  <2> DEFINE d == DeliverDistrict(screen.pick)
  <2>1. screen.here /\ Confirm(d, 0)
    BY <1>3 DEF DeliverFolder, Shows
  <2>2. d \in Picks
    BY <1>1 DEF TypeOK, Screens
  <2> HIDE DEF d
  <2> QED BY <2>1, <2>2, ConfirmStep
<1>4. CASE CloseDialog
  <2>1. UNCHANGED <<saved, extract, output, writer, jobs, budget>>
    BY <1>4 DEF CloseDialog, world
  <2>2. JobsInv' /\ FolderInv'
    BY <2>1, JobsStay DEF Inv
  <2>3. /\ screen' \in Screens /\ screen'.dialog = NoDialog
        /\ screen'.here = screen.here /\ screen'.pick = screen.pick
        /\ screen'.folder = screen.folder /\ screen'.slot = screen.slot
        /\ screen'.runner = screen.runner /\ screen'.ack = screen.ack
        /\ screen'.refused = screen.refused
    <3>1. screen \in Screens /\ screen' = [screen EXCEPT !.dialog = NoDialog]
      BY <1>4 DEF TypeOK, CloseDialog
    <3> QED BY <3>1, ScreenTypes DEF Screens
  <2>4. TypeOK'
    BY <2>1, <2>3 DEF TypeOK
  <2>5. screen.here
    BY <1>4 DEF CloseDialog, Inv, RunnerInv, Away, NoDialog
  <2>6. RunnerInv'
    BY <2>1, <2>3, <2>5 DEF Inv, RunnerInv, Mine
  <2>7. SlotInv'
    BY <2>1, <2>3 DEF Inv, SlotInv, DeliverDistrict
  <2>8. DialogInv'
    BY <2>3 DEF DialogInv, NoDialog
  <2> QED BY <2>2, <2>4, <2>6, <2>7, <2>8 DEF Inv
<1> QED BY <1>2, <1>3, <1>4

-----------------------------------------------------------------------------
(* Meanwhile.                                                              *)

LEMMA OutsideStep ==
    ASSUME TypeOK, Inv, Settle \/ Export
    PROVE  TypeOK' /\ Inv'
<1>1. UNCHANGED <<output, writer, jobs, screen>> /\ Spends("events")
  BY DEF Settle, Export
<1>2. JobsInv' /\ FolderInv'
  BY <1>1, JobsStay DEF Inv
<1>3. /\ budget' \in [{"jobs", "visits", "faults", "events"} -> Nat]
      /\ budget'.visits = budget.visits
  BY <1>1, SpendsType
<1>4. RunnerInv' /\ DialogInv'
  BY <1>1, <1>3 DEF Inv, RunnerInv, Mine, DialogInv, CanOffer
<1>5. CASE Settle
  <2>1. ~screen.here /\ extract' = extract
    BY <1>5 DEF Settle
  <2>2. screen = Away
    BY <2>1 DEF Inv, RunnerInv
  <2>3. SlotInv'
    BY <1>1, <2>2 DEF SlotInv, Away, NoSlot
  <2>4. saved' \in [district : Picks, listed : SUBSET Districts, folder : Folders,
                    output : BOOLEAN, sftp : BOOLEAN, credential : BOOLEAN]
    <3>1. \/ saved' = [saved EXCEPT !.output = ~@]
          \/ saved' = [saved EXCEPT !.sftp = ~@]
          \/ saved' = [saved EXCEPT !.credential = ~@]
          \/ \E d \in saved.listed : saved' = [saved EXCEPT !.district = d]
      BY <1>5 DEF Settle
    <3>2. \A d \in saved.listed : d \in Picks
      BY DEF TypeOK, Picks
    <3> QED BY <3>1, <3>2 DEF TypeOK
  <2> QED BY <1>1, <1>2, <1>3, <1>4, <2>1, <2>3, <2>4 DEF TypeOK, Inv
<1>6. CASE Export
  <2>1. saved' = saved
    BY <1>6 DEF Export
  <2>2. extract' \in [Folders -> Nat]
    BY <1>6, StartsAssumption DEF Export, TypeOK
  <2>3. SlotInv'
    BY <1>1, <2>1 DEF Inv, SlotInv, DeliverDistrict
  <2> QED BY <1>1, <1>2, <1>3, <1>4, <2>1, <2>2, <2>3 DEF TypeOK, Inv
<1> QED BY <1>5, <1>6

LEMMA NightStep ==
    ASSUME TypeOK, Inv, Night
    PROVE  TypeOK' /\ Inv'
<1>1. /\ UNCHANGED <<saved, extract, screen>> /\ Spends("events") /\ writer' = -1
      /\ jobs' = Overtaken(jobs)
  BY DEF Night
<1>2. jobs \in Seq(Jobs)
  BY DEF TypeOK
<1>3. /\ jobs' \in Seq(Jobs) /\ Len(jobs') = Len(jobs)
      /\ \A k \in 1 .. Len(jobs) : jobs'[k] = Overtake(jobs[k])
  BY <1>1, <1>2, OvertakenStep
<1>4. \A k \in 1 .. Len(jobs) :
        /\ Kept(jobs[k], jobs'[k])
        /\ jobs'[k].at = "write" => jobs'[k].raced
  BY <1>2, <1>3, OvertakenFollows DEF Inv, JobsInv
<1>5. Moves
  BY <1>3, <1>4 DEF Moves
<1>6. /\ budget' \in [{"jobs", "visits", "faults", "events"} -> Nat]
      /\ budget'.visits = budget.visits
  BY <1>1, SpendsType
<1>7. TypeOK'
  <2>1. output' \in [Entities -> Cells]
    <3>1. saved.district \in Districts /\ extract[saved.folder] \in Nat
      BY DEF Night, TypeOK, Picks
    <3> DEFINE cell == [by |-> saved.district, rows |-> extract[saved.folder]]
    <3>2. cell \in Cells /\ Absent \in Cells
      BY <3>1 DEF Cells, Absent
    <3>3. output' = [e \in Entities |->
                        IF e \in Configured[saved.district] THEN cell ELSE Absent]
      BY DEF Night
    <3> HIDE DEF cell
    <3> QED BY <3>2, <3>3
  <2>2. writer' \in {-1} \cup 0 .. Len(jobs')
    BY <1>1
  <2> QED BY <1>1, <1>3, <1>6, <2>1, <2>2 DEF TypeOK
<1>8. RunnerInv' /\ SlotInv' /\ DialogInv'
  BY <1>1, <1>5, <1>6, MovesScreen DEF Inv
<1>9. JobsInv'
  <2>1. \A k \in 1 .. Len(jobs) : Sound(jobs'[k])
    BY <1>4 DEF Kept
  <2>2. ASSUME NEW k \in 1 .. Len(jobs) PROVE LookHolds(jobs[k])'
    BY <1>4 DEF LookHolds
  <2>3. ASSUME NEW k \in 1 .. Len(jobs) PROVE OfItsRun(jobs[k])'
    BY <1>2, <1>4, <1>5, MovesOfItsRun DEF Inv, JobsInv, Kept
  <2> QED BY <1>3, <2>1, <2>2, <2>3 DEF JobsInv
<1>10. FolderInv'
  BY <1>1 DEF FolderInv
<1> QED BY <1>7, <1>8, <1>9, <1>10 DEF Inv

-----------------------------------------------------------------------------
(* The theorems.                                                           *)

LEMMA InitHolds == Init => TypeOK /\ Inv
<1> SUFFICES ASSUME Init PROVE TypeOK /\ Inv
  OBVIOUS
<1>1. jobs = <<>> /\ Len(jobs) = 0 /\ writer = 0 /\ screen = Away
  BY DEF Init
<1>2. PICK s \in Starts :
        saved = s.saved /\ extract = s.extract /\ output = s.output /\ budget = s.budget
  BY DEF Init
<1>3. TypeOK
  BY <1>1, <1>2, StartsAssumption, ScreenTypes DEF TypeOK, Picks, Cells
<1>4. JobsInv /\ FolderInv
  BY <1>1 DEF JobsInv, FolderInv
<1>5. RunnerInv /\ SlotInv /\ DialogInv
  BY <1>1 DEF RunnerInv, SlotInv, DialogInv, Away, NoSlot, NoDialog
<1> QED BY <1>3, <1>4, <1>5 DEF Inv

LEMMA StepHolds == TypeOK /\ Inv /\ [Next]_vars => TypeOK' /\ Inv'
<1> SUFFICES ASSUME TypeOK, Inv, [Next]_vars PROVE TypeOK' /\ Inv'
  OBVIOUS
<1>1. CASE Open \/ Leave
  BY <1>1, VisitStep
<1>2. CASE PickDistrict \/ PickFolder
  BY <1>2, PickStep
<1>3. CASE StartConvert \/ Acknowledge \/ StartDeliver
  BY <1>3, StartsStep
<1>4. CASE Decline
  BY <1>4, DeclineStep
<1>5. CASE DeliverResult \/ DeliverFolder \/ CloseDialog
  BY <1>5, DialogStep
<1>6. ASSUME NEW j \in 1 .. Len(jobs), Runs(j) PROVE TypeOK' /\ Inv'
  <2>1. CASE \/ Prepare(j) \/ PrepareFails(j) \/ Build(j) \/ BuildStops(j) \/ WriteFails(j)
             \/ FinishFails(j) \/ Resolve(j) \/ Upload(j)
    BY <2>1, QuietSteps
  <2>2. CASE Write(j)
    BY <2>2, WriteStep
  <2>3. CASE Finish(j)
    BY <2>3, FinishStep
  <2>4. CASE Answer(j)
    BY <2>4, AnswerStep
  <2> QED BY <1>6, <2>1, <2>2, <2>3, <2>4 DEF Runs
<1>7. CASE Settle \/ Export
  BY <1>7, OutsideStep
<1>8. CASE Night
  BY <1>8, NightStep
<1>9. CASE UNCHANGED vars
  BY <1>9 DEF vars, TypeOK, Inv, JobsInv, FolderInv, RunnerInv, SlotInv, DialogInv,
              LookHolds, OfItsRun, CanOffer, OnlyBy, Mine, DeliverDistrict
<1> QED BY <1>1, <1>2, <1>3, <1>4, <1>5, <1>6, <1>7, <1>8, <1>9 DEF Next

LEMMA Invariant == Spec => [](TypeOK /\ Inv)
  BY InitHolds, StepHolds, PTL DEF Spec

\* Whatever a person, a thread, another screen or a nightly does, every variable
\* keeps its type, and the job list only holds jobs the screen can start.
THEOREM ConvertTypes == Spec => []TypeOK
  BY Invariant, PTL

\* ConsentIsForTheRun, for any number of jobs, visits, folders and districts: an
\* approval is spent on the run it was given for, and a run that nobody approved
\* takes more than a fifth of a file's rows only when another writer replaced the
\* file since the anomaly gate looked.
THEOREM Consents == Spec => []ConsentIsForTheRun
<1>1. TypeOK /\ Inv => ConsentIsForTheRun
  <2> SUFFICES ASSUME TypeOK, Inv, NEW j \in 1 .. Len(jobs)
               PROVE  /\ jobs[j].ack # NoRun => /\ jobs[j].view = jobs[j].ack
                                                /\ jobs[j].who = jobs[j].ack
                      /\ jobs[j].shrank /\ jobs[j].ack = NoRun => jobs[j].raced
    BY DEF ConsentIsForTheRun, TypeOK
  <2> QED BY DEF Inv, JobsInv, Sound, AskedFor, Shrunk
<1> QED BY <1>1, Invariant, PTL

\* CardSendsItsOwnRun, in general: the card of a run delivers under that run's
\* district, which is the one picked, and sends the files of that district alone,
\* unless somebody wrote the folder since or one of its files resisted archiving.
THEOREM CardsSendTheirOwn == Spec => []CardSendsItsOwnRun
<1>1. TypeOK /\ Inv => CardSendsItsOwnRun
  <2> SUFFICES ASSUME TypeOK, Inv, NEW j \in 1 .. Len(jobs)
               PROVE  LET job == jobs[j]
                      IN  job.kind = "deliver" /\ job.run # 0 =>
                            /\ job.who.district = job.view.district
                            /\ job.who.district = jobs[job.run].who.district
                            /\ \/ job.sent \subseteq {job.who.district} \/ job.foreign
                               \/ jobs[job.run].stuck
    BY DEF CardSendsItsOwnRun, TypeOK
  <2> QED BY DEF Inv, JobsInv, OfItsRun
<1> QED BY <1>1, Invariant, PTL

\* ToldIsTrue, in general: what the screen says of the job it shows is what that
\* job did to the folder, also when the person left and came back in between.
THEOREM TellsTheTruth == Spec => []ToldIsTrue
<1>1. TypeOK /\ Inv => ToldIsTrue
  <2> SUFFICES ASSUME TypeOK, Inv PROVE ToldIsTrue
    OBVIOUS
  <2> DEFINE slot == screen.slot
             job == jobs[slot.job]
  <2>1. screen.refused => slot.kind = "banner" /\ job.status = "output_folder_unusable"
    BY DEF Inv, SlotInv
  <2>2. ASSUME slot.kind # "none"
        PROVE  /\ slot.kind \in {"ack", "note"} => ~job.wrote
               /\ slot.kind = "error" => ~job.wrote \/ job.late
               /\ slot.kind = "banner" =>
                    IF job.status \in WroteOutput /\ job.kind = "convert"
                      THEN job.wrote ELSE ~job.wrote
               /\ job.status = "delivered_from_disk" => job.sent # {}
    <3>1. slot.job \in 1 .. Len(jobs) /\ job.at = "answered"
      BY <2>2 DEF Inv, SlotInv
    <3>2. Truthful(job)
      BY <3>1 DEF Inv, JobsInv, Sound
    <3>3. /\ slot.kind \in {"ack", "note"} => job.status = "needs_anomaly_ack"
          /\ slot.kind = "error" => job.status \in Raised
          /\ slot.kind = "banner" => job.status \notin Raised \cup {"needs_anomaly_ack"}
      BY DEF Inv, SlotInv
    <3> QED BY <3>1, <3>2, <3>3 DEF Truthful
  <2> QED BY <2>1, <2>2 DEF ToldIsTrue
<1> QED BY <1>1, Invariant, PTL

\* HistoryAgrees, in general: a job that is over left the one record its verdict
\* calls for, and Home's reading of that record is the screen's verdict.
THEOREM HistoriesAgree == Spec => []HistoryAgrees
<1>1. TypeOK /\ Inv => HistoryAgrees
  <2> SUFFICES ASSUME TypeOK, Inv, NEW j \in 1 .. Len(jobs) PROVE Agreed(jobs[j])
    BY DEF HistoryAgrees, Agreed, TypeOK
  <2> QED BY DEF Inv, JobsInv, Sound
<1> QED BY <1>1, Invariant, PTL

=============================================================================
