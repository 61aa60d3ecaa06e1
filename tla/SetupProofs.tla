----------------------------- MODULE SetupProofs -----------------------------
(***************************************************************************)
(* Proofs about Setup, for any mappings, folders, cards and documents to   *)
(* start from, and any number of jobs, mounts and races.                   *)
(*                                                                         *)
(*   SetupTypes      what every variable ranges over;                      *)
(*   RecordHolds     the record is the task Windows has (RecordIsTheTask); *)
(*   DriftSaid       settings the task does not have were said not to be   *)
(*                   in it (DriftIsTold);                                  *)
(*   AskedFirst      a task that runs signed out is not replaced in        *)
(*                   passing by one that does not (NoSilentDowngrade);     *)
(*   LastPageHolds   the last page of the wizard promises no delivery that *)
(*                   the task does not make (FinishIsTrue).                *)
(***************************************************************************)
EXTENDS Setup, FiniteSetTheorems, TLAPS

Cards == [account : Accounts, kind : Kinds, time : Times \cup {"none"}, wake : BOOLEAN]

Tasks == [there : BOOLEAN, args : Args, account : Accounts, kind : Kinds, wake : BOOLEAN]

DialogKinds == {"none", "scope"} \cup DowngradeDialogs

\* Only a card that is not to run with the session's own rights is asked
\* whether its account may read the shared settings; what the other dialogs
\* ask for, a save has not asked for by itself.
Dialogs ==
    {d \in [kind : DialogKinds, typed : Cards,
            asked : {"none", "button", "choice", "save"}] :
        IF d.kind = "scope" THEN d.typed.kind # "token" ELSE d.asked # "save"}

\* A delivery that the wizard calls stored is one that the settings have, and
\* its dialogs open on the schedule step.
Mounts ==
    {m \in [cfg : Documents, wizard : BOOLEAN, step : Steps \ {"files"},
            district : Districts \cup {"none"}, folders : Folders \cup {"none"},
            skipped : BOOLEAN, status : {"none", "live"},
            windowValid : BOOLEAN, busy : BOOLEAN,
            delivery : {"none", "stored", "tested_ok", "skipped"}, card : Nat,
            flight : BOOLEAN, dialog : Dialogs] :
        /\ m.delivery = "stored" => m.cfg.delivery
        /\ m.wizard /\ m.dialog.kind # "none" => m.step = "schedule"}

\* A job that waits for its answer has the arguments of the click; a save
\* never removes a task.
Jobs ==
    {b \in [mount : Nat, card : Nat, op : {"register", "unregister"}, typed : Cards,
            asked : {"none", "button", "choice", "save"}, args : Args, sent : Args,
            phase : {"queued", "working", "done", "answered"}, late : BOOLEAN,
            ok : BOOLEAN] :
        /\ b.phase # "answered" => b.mount > 0 /\ b.args.time = b.typed.time
        /\ b.op = "unregister" => b.asked = "button"
        /\ b.op = "register" /\ b.phase # "answered" => b.args # NoArgs}

TypeOK ==
    /\ doc \in Documents
    /\ task \in Tasks
    /\ mounts \in Seq(Mounts)
    /\ live \in 0 .. Len(mounts)
    /\ jobs \in Seq(Jobs)
    /\ \A j \in DOMAIN jobs : jobs[j].mount <= Len(mounts)
    /\ told \in {"nothing", "left_out", "saved", "updating"}

Flights == {j \in DOMAIN jobs : jobs[j].phase # "answered"}

Here1 == mounts[live]

Calm == Without({"left", "resubmitted", "misread", "unconfirmed", "late"})
Straight == Calm /\ Without({"undercut"})
Forthright == Straight /\ Without({"backtracked", "unsaid"})

\* The job that is under way is the only one, and of the mount on show: in
\* Settings its card is shut, in the wizard its footer is.
Flying(j) ==
    /\ live # 0 /\ jobs[j].mount = live
    /\ \A k \in Flights : k = j
    /\ ~Here1.wizard => Here1.flight /\ Here1.card = jobs[j].card
    /\ Here1.wizard => Here1.busy /\ Here1.step # "finish"

\* The record and the task are of one kind.
Kin ==
    /\ doc.registered = task.there
    /\ (doc.registered /\ doc.args # NoArgs) => task.kind = doc.kind

\* A job that succeeded has done what it was asked for.
Landed(j) ==
    IF jobs[j].op = "register"
      THEN task.there /\ task.kind = jobs[j].typed.kind
      ELSE task = NoTask

Asks(j) ==
    (/\ jobs[j].op = "register" /\ jobs[j].asked = "save" /\ jobs[j].typed.kind = "token"
     /\ jobs[j].phase \in {"queued", "working"})
        => ~(task.there /\ Unattended(task.kind))

Succeeded(j) == jobs[j].phase = "done" /\ jobs[j].ok

CalmInv ==
    /\ live # 0 => Here1.cfg = doc
    /\ \A j \in DOMAIN jobs : ~jobs[j].late
    /\ \A j \in Flights : /\ Flying(j) /\ Asks(j)
                          /\ IF Succeeded(j) THEN Landed(j) ELSE Kin
    /\ Flights = {} => Kin

Full ==
    (doc.registered /\ doc.args # NoArgs)
        => task = [there |-> TRUE, args |-> doc.args, account |-> doc.account,
                   kind |-> doc.kind, wake |-> doc.wake]

\* Windows gets the arguments of the click.
OnItsWay(j) ==
    IF jobs[j].phase = "queued" THEN TaskArgs(doc, jobs[j].typed.time) = jobs[j].args
    ELSE jobs[j].sent = jobs[j].args

StraightInv ==
    /\ \A j \in Flights : /\ OnItsWay(j)
                          /\ IF Succeeded(j) THEN jobs[j].op = "register" => task = Replaced(j)
                             ELSE Full
    /\ Flights = {} => Full

InStep == task.there => told = "left_out" \/ task.args \in {TaskArgs(doc, doc.time), NoArgs}

\* In the wizard nothing is saved that a task under way does not carry.
ToldInv ==
    /\ \A j \in Flights : Here1.wizard =>
          /\ TaskArgs(doc, jobs[j].typed.time) = jobs[j].args
          /\ ~Succeeded(j) => InStep
    /\ Flights = {} => InStep

SetupInv ==
    /\ TypeOK
    /\ Calm => CalmInv
    /\ Straight => StraightInv
    /\ Forthright => ToldInv

\* A record that cannot be read is of a setup that is complete.
Known(d) == d.registered /\ d.args = NoArgs => d.completed

KnownMount(m) == Known(m.cfg) /\ (m.wizard => ~(m.cfg.registered /\ m.cfg.args = NoArgs))

KnownInv == Known(doc) /\ \A i \in DOMAIN mounts : KnownMount(mounts[i])

StartsKnown == \A d \in Starts : Known(d)

-----------------------------------------------------------------------------
(* What the operators of the screen return                                  *)

LEMMA ATyped == (CHOOSE t \in Typed : TRUE) \in Typed
  BY TypedAssumption

LEMMA TypedTypes == ASSUME NEW t \in Typed PROVE t \in Cards
  BY TypedAssumption DEF Cards

LEMMA NoDialogType == NoDialog \in Dialogs /\ NoDialog.kind = "none"
  BY ATyped, TypedTypes DEF NoDialog, Dialogs, DialogKinds

LEMMA TaskArgsType ==
  ASSUME NEW d \in Documents, NEW time \in Times \cup {"none"}
  PROVE  /\ TaskArgs(d, time) \in Args
         /\ TaskArgs(d, time).time = time
         /\ Complete(d) => TaskArgs(d, time) # NoArgs
<1>1. /\ d.district \in Districts \cup {"none"} /\ d.folders \in Folders \cup {"none"}
      /\ d.delivery \in BOOLEAN
  BY DEF Documents
<1>2. TaskArgs(d, time) = [district |-> d.district, folders |-> d.folders,
                           delivery |-> d.delivery, time |-> time]
  BY DEF TaskArgs
<1>3. TaskArgs(d, time) \in Args
  BY <1>1, <1>2 DEF Args
<1>4. Complete(d) => TaskArgs(d, time).district # NoArgs.district
  BY <1>2 DEF Complete, NoArgs
<1> QED BY <1>2, <1>3, <1>4

LEMMA NoArgsType == NoArgs \in Args
BY DEF NoArgs, Args

LEMMA NoTaskType == NoTask \in Tasks
  BY OwnAssumption, NoArgsType DEF NoTask, Tasks, Kinds

LEMMA StepNumbers ==
  /\ StepOrder("standard") = <<"district", "folders", "delivery", "schedule", "finish">>
  /\ StepNumber("district", "standard") = 1
  /\ StepNumber("folders", "standard") = 2
  /\ StepNumber("delivery", "standard") = 3
  /\ StepNumber("schedule", "standard") = 4
  /\ StepNumber("finish", "standard") = 5
<1> DEFINE order == <<"district", "folders", "delivery", "schedule", "finish">>
<1>1. StepOrder("standard") = order
  BY DEF StepOrder
<1>2. /\ DOMAIN order = 1 .. 5
      /\ order[1] = "district" /\ order[2] = "folders" /\ order[3] = "delivery"
      /\ order[4] = "schedule" /\ order[5] = "finish"
  OBVIOUS
<1> HIDE DEF order
<1>3. ASSUME NEW n \in 1 .. 5 PROVE StepNumber(order[n], "standard") = n
  <2>1. \A i \in 1 .. 5 : order[i] = order[n] => i = n
    BY <1>2
  <2>2. StepNumber(order[n], "standard") = CHOOSE i \in 1 .. 5 : order[i] = order[n]
    BY <1>1, <1>2 DEF StepNumber
  <2> QED BY <2>1, <2>2
<1> QED BY <1>1, <1>2, <1>3 DEF order

LEMMA NextSteps ==
  /\ NextStep("district", "standard") = "folders"
  /\ NextStep("folders", "standard") = "delivery"
  /\ NextStep("delivery", "standard") = "schedule"
  /\ NextStep("schedule", "standard") = "finish"
BY StepNumbers DEF NextStep

LEMMA PrevSteps ==
  ASSUME NEW s \in Steps \ {"files"}
  PROVE  PrevStep(s, "standard") \in {"none", "district", "folders", "delivery", "schedule"}
<1>1. s \in {"district", "folders", "delivery", "schedule", "finish"}
  BY DEF Steps
<1> QED BY <1>1, StepNumbers DEF PrevStep

\* What is recorded of the task stands, and nothing is taken back.
SameRecord(d, e) ==
    /\ e.registered = d.registered /\ e.args = d.args /\ e.unattended = d.unattended
    /\ e.account = d.account /\ e.kind = d.kind /\ e.wake = d.wake
    /\ d.delivery => e.delivery
    /\ d.completed => e.completed

LEMMA DocumentEdits ==
  ASSUME NEW d \in Documents
  PROVE  /\ SameRecord(d, d)
         /\ \A x \in Districts \cup {"none"} :
               LET e == [d EXCEPT !.district = x]
               IN  e \in Documents /\ SameRecord(d, e) /\ e.time = d.time /\ e.district = x
         /\ \A x \in Folders \cup {"none"} :
               LET e == [d EXCEPT !.folders = x]
               IN  e \in Documents /\ SameRecord(d, e) /\ e.time = d.time
         /\ LET e == [d EXCEPT !.delivery = TRUE]
            IN  e \in Documents /\ SameRecord(d, e) /\ e.time = d.time /\ e.delivery
         /\ LET e == [d EXCEPT !.completed = TRUE]
            IN  e \in Documents /\ SameRecord(d, e) /\ e.time = d.time /\ e.completed
                /\ TaskArgs(e, e.time) = TaskArgs(d, d.time)
         /\ \A x \in Times \cup {"none"} :
               LET e == [d EXCEPT !.time = x]
               IN  ~d.registered => e \in Documents /\ SameRecord(d, e)
BY DEF Documents, SameRecord, TaskArgs

LEMMA RecordedType ==
  ASSUME NEW d \in Documents, NEW b \in Jobs, b.phase # "answered"
  PROVE  LET e == Recorded(d, b) IN
         /\ e \in Documents /\ e.delivery = d.delivery /\ e.completed = d.completed
         /\ b.op = "register" =>
               /\ e.registered /\ e.args = b.args /\ e.kind = b.typed.kind
               /\ e.account = b.typed.account /\ e.wake = b.typed.wake
               /\ e.time = b.typed.time
               /\ TaskArgs(e, e.time) = TaskArgs(d, b.typed.time)
               /\ TaskArgs(e, b.typed.time) = TaskArgs(d, b.typed.time)
         /\ b.op # "register" => ~e.registered
<1>1. b.typed \in Cards /\ b.args \in Args /\ b.args.time = b.typed.time
  BY DEF Jobs
<1>2. CASE b.op = "register"
  <2>1. Recorded(d, b) =
          [d EXCEPT !.time = b.typed.time, !.registered = TRUE, !.args = b.args,
              !.unattended = Unattended(b.typed.kind), !.account = b.typed.account,
              !.kind = b.typed.kind, !.wake = b.typed.wake]
    BY <1>2 DEF Recorded
  <2>2. Unattended(b.typed.kind) \in BOOLEAN
    BY DEF Unattended
  <2>3. /\ b.typed.time \in Times \cup {"none"} /\ b.typed.kind \in Kinds
        /\ b.typed.account \in Accounts /\ b.typed.wake \in BOOLEAN
    BY <1>1 DEF Cards
  <2> DEFINE e == Recorded(d, b)
  <2>4. /\ e.registered /\ e.args = b.args /\ e.kind = b.typed.kind
        /\ e.account = b.typed.account /\ e.wake = b.typed.wake /\ e.time = b.typed.time
        /\ e.unattended = Unattended(b.typed.kind)
        /\ e.district = d.district /\ e.folders = d.folders
        /\ e.delivery = d.delivery /\ e.completed = d.completed
    BY <2>1 DEF Documents
  <2>5. e \in Documents
    BY <1>1, <2>1, <2>2, <2>3, <2>4 DEF Documents
  <2> QED BY <1>2, <2>4, <2>5 DEF TaskArgs
<1>3. CASE b.op # "register"
  <2>1. Recorded(d, b) =
          [d EXCEPT !.registered = FALSE, !.args = NoArgs, !.unattended = FALSE,
              !.account = Own, !.kind = "token", !.wake = FALSE]
    BY <1>3 DEF Recorded
  <2>2. "token" \in Kinds
    BY DEF Kinds
  <2> QED BY <1>3, <2>1, <2>2, NoArgsType, OwnAssumption DEF Documents
<1> QED BY <1>2, <1>3

LEMMA MountType ==
  ASSUME NEW d \in Documents
  PROVE  /\ Mount(d, "none") \in Mounts
         /\ d.delivery => Mount(d, "stored") \in Mounts
<1>1. /\ d.district \in Districts \cup {"none"} /\ d.folders \in Folders \cup {"none"}
      /\ d.completed \in BOOLEAN
  BY DEF Documents
<1>2. "district" \in Steps \ {"files"}
  BY DEF Steps
<1> QED BY <1>1, <1>2, NoDialogType DEF Mount, Mounts

LEMMA ResumeStepType ==
  ASSUME NEW m \in Mounts
  PROVE  ResumeStep(Inputs(m)) \in Steps \ {"files"}
<1>1. Inputs(m).mode = "standard"
  BY DEF Inputs
<1> DEFINE open == PreFinishSteps("standard") \ SatisfiedSteps(Inputs(m))
<1>2. CASE open = {}
  BY <1>1, <1>2 DEF ResumeStep, Steps
<1>3. CASE open # {}
  <2>1. open \subseteq {"district", "folders", "delivery", "schedule"}
    <3>1. ToSet(StepOrder("standard")) = {"district", "folders", "delivery", "schedule", "finish"}
      BY StepNumbers DEF ToSet
    <3> QED BY <3>1 DEF PreFinishSteps
  <2> HIDE DEF open
  <2>2. \A s \in open : StepNumber(s, "standard") \in 1 .. 4
    BY <2>1, StepNumbers
  <2>3. \E s \in open : \A t \in open : StepNumber(s, "standard") <= StepNumber(t, "standard")
    <3>2. CASE "district" \in open
      <4>1. \A t \in open : StepNumber("district", "standard") <= StepNumber(t, "standard")
        BY <2>2, StepNumbers
      <4> QED BY <3>2, <4>1
    <3>3. CASE "district" \notin open /\ "folders" \in open
      <4>1. \A t \in open : StepNumber("folders", "standard") <= StepNumber(t, "standard")
        BY <2>1, <3>3, StepNumbers
      <4> QED BY <3>3, <4>1
    <3>4. CASE "district" \notin open /\ "folders" \notin open /\ "delivery" \in open
      <4>1. \A t \in open : StepNumber("delivery", "standard") <= StepNumber(t, "standard")
        BY <2>1, <3>4, StepNumbers
      <4> QED BY <3>4, <4>1
    <3>5. CASE open = {"schedule"}
      <4>1. \A t \in open : StepNumber("schedule", "standard") <= StepNumber(t, "standard")
        BY <3>5, StepNumbers
      <4> QED BY <3>5, <4>1
    <3> QED BY <1>3, <2>1, <3>2, <3>3, <3>4, <3>5
  <2>4. ResumeStep(Inputs(m)) =
          CHOOSE s \in open : \A t \in open : StepNumber(s, "standard") <= StepNumber(t, "standard")
    BY <1>1, <1>3 DEF ResumeStep, open
  <2>5. ResumeStep(Inputs(m)) \in open
    BY <2>3, <2>4
  <2> QED BY <2>1, <2>5 DEF Steps
<1> QED BY <1>2, <1>3

LEMMA AutoSelectedType == AutoSelectedDistrict(Districts) \in Districts \cup {"none"}
<1>1. CASE Cardinality(Districts) = 1
  <2>1. Districts # {}
    BY <1>1, FS_EmptySet
  <2> QED BY <1>1, <2>1 DEF AutoSelectedDistrict
<1>2. CASE Cardinality(Districts) # 1
  BY <1>2 DEF AutoSelectedDistrict
<1> QED BY <1>1, <1>2

LEMMA RememberedType ==
  ASSUME NEW ms \in Seq(Mounts), NEW on, NEW js
  PROVE  /\ Remembered(ms, on, js) \in Seq(Mounts)
         /\ Len(Remembered(ms, on, js)) = Len(ms)
         /\ \A i \in DOMAIN ms : i = on \/ Awaited(i, js) => Remembered(ms, on, js)[i] = ms[i]
<1>1. Mount(CHOOSE start \in Starts : TRUE, "none") \in Mounts
  BY StartsAssumption, MountType
<1> DEFINE qs == Remembered(ms, on, js)
           Blank == Mount(CHOOSE start \in Starts : TRUE, "none")
<1>2. /\ DOMAIN ms = 1 .. Len(ms) /\ Len(ms) \in Nat
      /\ \A i \in DOMAIN ms : ms[i] \in Mounts
  OBVIOUS
<1>3. qs = [i \in 1 .. Len(ms) |-> IF i = on \/ Awaited(i, js) THEN ms[i] ELSE Blank]
  BY <1>2 DEF Remembered
<1> HIDE DEF qs, Blank
<1>4. qs \in [1 .. Len(ms) -> Mounts]
  BY <1>1, <1>2, <1>3 DEF Blank
<1>5. qs \in Seq(Mounts) /\ Len(qs) = Len(ms)
  BY <1>2, <1>4
<1>6. \A i \in DOMAIN ms : i = on \/ Awaited(i, js) => qs[i] = ms[i]
  BY <1>2, <1>3
<1> QED BY <1>5, <1>6 DEF qs

-----------------------------------------------------------------------------
(* What an action does to a mount                                           *)

\* The mount m as its wizard, its window or a declined dialog leaves it.
Edit(m, n) ==
    /\ n.wizard = m.wizard /\ n.busy = m.busy
    /\ SameRecord(m.cfg, n.cfg)
    /\ ~m.wizard => n.flight = m.flight /\ n.card = m.card /\ n.cfg = m.cfg
    /\ n.step = "finish" => m.step = "finish" \/ ~m.busy

LEMMA ShownType ==
  ASSUME NEW m \in Mounts, m.dialog.kind = "none", jobs \in Seq(Jobs),
         NEW s \in Steps \ {"files"}
  PROVE  /\ Shown(m, s) \in Mounts
         /\ Shown(m, s).cfg = m.cfg /\ Shown(m, s).wizard = m.wizard
         /\ Shown(m, s).busy = m.busy /\ Shown(m, s).step = s
<1>1. NewCard \in Nat
  BY DEF NewCard
<1>2. CASE s = "schedule"
  <2>1. Shown(m, s) = [m EXCEPT !.step = s, !.card = NewCard, !.flight = FALSE,
                                !.windowValid = TRUE]
    BY <1>2 DEF Shown
  <2> QED BY <1>1, <2>1 DEF Mounts
<1>3. CASE s # "schedule"
  <2>1. Shown(m, s) = [m EXCEPT !.step = s]
    BY <1>3 DEF Shown
  <2> QED BY <2>1 DEF Mounts
<1> QED BY <1>2, <1>3

LEMMA BusyType ==
  ASSUME NEW m \in Mounts, NEW on \in BOOLEAN
  PROVE  LET n == Busy(m, on) IN
         /\ n \in Mounts /\ n.cfg = m.cfg /\ n.wizard = m.wizard /\ n.step = m.step
         /\ n.card = m.card /\ n.dialog = m.dialog /\ n.busy = on /\ n.flight = on
BY DEF Busy, Mounts

LEMMA DialogType ==
  ASSUME NEW m \in Mounts, m.wizard => m.step = "schedule", NEW d \in Dialogs
  PROVE  LET n == [m EXCEPT !.dialog = d] IN
         /\ n \in Mounts /\ n.cfg = m.cfg /\ n.wizard = m.wizard /\ n.step = m.step
         /\ n.card = m.card /\ n.busy = m.busy /\ n.flight = m.flight /\ n.dialog = d
BY DEF Mounts

LEMMA JobType ==
  ASSUME NEW m \in Mounts, live \in Nat \ {0}, NEW typed \in Cards,
         NEW op \in {"register", "unregister"},
         NEW asked \in {"none", "button", "choice", "save"},
         op = "register" => Complete(m.cfg), op = "unregister" => asked = "button"
  PROVE  LET b == Job(op, m, typed, asked) IN
         /\ b \in Jobs /\ b.mount = live /\ b.card = m.card /\ b.op = op /\ b.typed = typed
         /\ b.asked = asked /\ b.args = TaskArgs(m.cfg, typed.time) /\ b.phase = "queued"
         /\ ~b.late /\ ~b.ok
<1>1. typed.time \in Times \cup {"none"} /\ m.cfg \in Documents /\ m.card \in Nat
  BY DEF Cards, Mounts
<1>2. /\ TaskArgs(m.cfg, typed.time) \in Args
      /\ TaskArgs(m.cfg, typed.time).time = typed.time
      /\ op = "register" => TaskArgs(m.cfg, typed.time) # NoArgs
  BY <1>1, TaskArgsType
<1> QED BY <1>1, <1>2, NoArgsType DEF Job, Jobs

\* A request for a registration went no further than a dialog, or is under way.
Stopped(m, r) ==
    /\ r.outcome \notin {"none", "dispatched"} /\ r.jobs = jobs
    /\ r.m = m \/ \E d \in Dialogs : r.m = [m EXCEPT !.dialog = d]

Dispatched(m, typed, asked, r) ==
    /\ r.outcome = "dispatched" /\ r.m = Busy(m, TRUE)
    /\ r.jobs = Append(jobs, Job("register", m, typed, asked))
    /\ Complete(m.cfg)

LEMMA StoppedAt ==
  ASSUME NEW m, NEW outcome, outcome \notin {"none", "dispatched"}
  PROVE  /\ Stopped(m, [m |-> m, outcome |-> outcome, jobs |-> jobs])
         /\ \A d \in Dialogs :
               Stopped(m, [m |-> [m EXCEPT !.dialog = d], outcome |-> outcome, jobs |-> jobs])
BY DEF Stopped

LEMMA RegisterDoes ==
  ASSUME NEW m \in Mounts, NEW typed \in Cards,
         NEW asked \in {"none", "button", "choice", "save"}, NEW unreadable, NEW confirmed
  PROVE  \/ Stopped(m, Register(m, typed, asked, unreadable, confirmed))
         \/ Dispatched(m, typed, asked, Register(m, typed, asked, unreadable, confirmed))
<1> DEFINE r == Register(m, typed, asked, unreadable, confirmed)
           refused == ~CanRegisterSchedule(m.cfg, typed, Complete(m.cfg), unreadable)
                        \/ typed.time = "bad"
<1>1. CASE refused
  <2>1. r = [m |-> m, outcome |-> "blocked", jobs |-> jobs]
    BY <1>1 DEF Register
  <2> QED BY <2>1, StoppedAt
<1>2. CASE ~refused
  <2>1. RegisterBlock(m.cfg, typed, Complete(m.cfg), unreadable) = "none"
    BY <1>2 DEF CanRegisterSchedule
  <2>2. Complete(m.cfg)
    BY <2>1 DEF RegisterBlock
  <2>3. WillProvision(typed) => typed.kind # "token"
    BY <2>1, <2>2 DEF RegisterBlock, WillProvision
  <2>4. CASE WillProvision(typed) /\ ~confirmed
    <3> DEFINE d == [kind |-> "scope", typed |-> typed, asked |-> asked]
    <3>1. r = [m |-> [m EXCEPT !.dialog = d], outcome |-> "blocked", jobs |-> jobs]
      BY <1>2, <2>4 DEF Register
    <3>2. d \in Dialogs
      BY <2>3, <2>4 DEF Dialogs, DialogKinds
    <3> QED BY <3>1, <3>2, StoppedAt
  <2>5. CASE ~(WillProvision(typed) /\ ~confirmed)
    <3>1. r = [m |-> Busy(m, TRUE), outcome |-> "dispatched",
               jobs |-> Append(jobs, Job("register", m, typed, asked))]
      BY <1>2, <2>5 DEF Register
    <3> QED BY <2>2, <3>1 DEF Dispatched
  <2> QED BY <2>4, <2>5
<1> QED BY <1>1, <1>2

\* A save takes nothing away: what it asks for is what the person typed, or
\* the record says that the task runs signed in as it is.
LEMMA TriggerDoes ==
  ASSUME NEW m \in Mounts, m.cfg.registered, NEW typed \in Cards, NEW unreadable
  PROVE  \/ Stopped(m, Trigger(m, typed, unreadable))
         \/ /\ Dispatched(m, typed, "save", Trigger(m, typed, unreadable))
            /\ typed.kind = "token" => m.cfg.args # NoArgs /\ ~Unattended(m.cfg.kind)
<1> DEFINE r == Trigger(m, typed, unreadable)
           record == RegisteredSchedule(m.cfg)
           block == RegisterBlock(m.cfg, typed, Complete(m.cfg), unreadable)
           dialog == DowngradeInterrupt(record, typed.kind = "password")
           says(outcome) == [m |-> m, outcome |-> outcome, jobs |-> jobs]
           d == [kind |-> dialog, typed |-> typed, asked |-> "choice"]
<1>1. r = IF block = "account_switch_needs_remove" THEN says("blocked_account_switch")
          ELSE IF block = "account_shape" THEN says("blocked_account")
          ELSE IF dialog # "none"
            THEN [m |-> [m EXCEPT !.dialog = d], outcome |-> "interrupted", jobs |-> jobs]
          ELSE IF block = "delivery_secret_unreadable" THEN says("blocked_delivery_secret")
          ELSE IF block = "account_needs_password" THEN says("blocked_account")
          ELSE Register(m, typed, "save", unreadable, FALSE)
  BY DEF Trigger
<1>2. dialog \in {"none"} \cup DowngradeDialogs
  BY Zenon DEF DowngradeInterrupt, DowngradeDialogs
<1>3. typed.kind = "token" /\ dialog = "none" => m.cfg.args # NoArgs /\ ~Unattended(m.cfg.kind)
  <2>1. SUFFICES ASSUME typed.kind = "token", dialog = "none"
                 PROVE  m.cfg.args # NoArgs /\ ~Unattended(m.cfg.kind)
    OBVIOUS
  <2>2. record.unattended = "no"
    BY <2>1 DEF DowngradeInterrupt, RegisteredSchedule
  <2>3. m.cfg.args # NoArgs /\ ~m.cfg.unattended
    BY <2>2 DEF RegisteredSchedule
  <2>4. m.cfg.unattended = Unattended(m.cfg.kind)
    BY <2>3 DEF Mounts, Documents
  <2> QED BY <2>3, <2>4
<1>4. dialog # "none" => Stopped(m, [m |-> [m EXCEPT !.dialog = d],
                                     outcome |-> "interrupted", jobs |-> jobs])
  <2>1. SUFFICES ASSUME dialog # "none" PROVE d \in Dialogs
    BY StoppedAt
  <2>2. dialog \in DowngradeDialogs
    BY <1>2, <2>1
  <2> HIDE DEF dialog
  <2> QED BY <2>2 DEF Dialogs, DialogKinds, DowngradeDialogs
<1>5. /\ Stopped(m, says("blocked_account_switch"))
      /\ Stopped(m, says("blocked_account"))
      /\ Stopped(m, says("blocked_delivery_secret"))
  BY StoppedAt
<1>6. \/ Stopped(m, Register(m, typed, "save", unreadable, FALSE))
      \/ Dispatched(m, typed, "save", Register(m, typed, "save", unreadable, FALSE))
  BY RegisterDoes
<1> HIDE DEF block, dialog, d, says
<1> QED BY <1>1, <1>3, <1>4, <1>5, <1>6

\* What a save comes to: it waits for a job under way, asks for a new task,
\* leaves the settings out of the task there is, or finds nothing to do.
Waits(m, r) == m.flight /\ r.m = m /\ r.jobs = jobs /\ SaveNote(r.outcome) = "left_out"

AsksAnew(m, typed, r) ==
    /\ ~m.flight /\ m.cfg.registered
    /\ Dispatched(m, typed, "save", r)
    /\ typed.kind = "token" => m.cfg.args # NoArgs /\ ~Unattended(m.cfg.kind)
    /\ SaveNote(r.outcome) = "updating"

LeavesOut(m, r) == ~m.flight /\ Stopped(m, r) /\ SaveNote(r.outcome) = "left_out"

Settled(m, typed, r) ==
    /\ ~m.flight /\ r.jobs = jobs /\ SaveNote(r.outcome) = "saved"
    /\ \/ r.m = m /\ ~m.cfg.registered
       \/ r.m = [m EXCEPT !.cfg.time = typed.time] /\ ~m.cfg.registered
       \/ r.m = m /\ m.cfg.args # NoArgs /\ m.cfg.args = TaskArgs(m.cfg, m.cfg.time)

LEMMA ReconcileDoes ==
  ASSUME NEW m \in Mounts, NEW typed \in Cards, NEW unreadable
  PROVE  LET r == Reconcile(m, typed, unreadable) IN
         Waits(m, r) \/ AsksAnew(m, typed, r) \/ LeavesOut(m, r) \/ Settled(m, typed, r)
<1> DEFINE r == Reconcile(m, typed, unreadable)
           pending == TaskArgs(m.cfg, typed.time)
           action == ScheduleReconcile(m.cfg, pending, typed.account, typed.wake)
           time == RunTimeSaveDecision(m.cfg.time, typed.time)
<1>1. /\ SaveNote("none") = "saved"
      /\ SaveNote("dispatched") = "updating"
      /\ \A o : o \notin {"none", "dispatched"} => SaveNote(o) = "left_out"
  BY Zenon DEF SaveNote
<1>2. CASE m.flight
  <2>1. r = [m |-> m, outcome |-> "in_flight", jobs |-> jobs]
    BY <1>2 DEF Reconcile, MayDecide
  <2> QED BY <1>1, <1>2, <2>1 DEF Waits
<1>3. CASE ~m.flight /\ action = "reregister"
  <2>1. m.cfg.registered
    BY <1>3 DEF ScheduleReconcile
  <2>2. r = Trigger(m, typed, unreadable)
    BY <1>3 DEF Reconcile, MayDecide
  <2>3. CASE Stopped(m, r)
    <3> HIDE DEF r
    <3>1. LeavesOut(m, r)
      BY <1>1, <1>3, <2>3 DEF LeavesOut, Stopped
    <3> QED BY <3>1 DEF r
  <2>4. CASE Dispatched(m, typed, "save", r)
             /\ (typed.kind = "token" => m.cfg.args # NoArgs /\ ~Unattended(m.cfg.kind))
    <3> HIDE DEF r
    <3>1. AsksAnew(m, typed, r)
      BY <1>1, <1>3, <2>1, <2>4 DEF AsksAnew, Dispatched
    <3> QED BY <3>1 DEF r
  <2> QED BY <2>1, <2>2, <2>3, <2>4, TriggerDoes
<1>4. CASE ~m.flight /\ action # "reregister"
  <2>1. r = [m |-> IF action = "no_task" /\ time.persist
                     THEN [m EXCEPT !.cfg.time = typed.time] ELSE m,
             outcome |-> "none", jobs |-> jobs]
    BY <1>4 DEF Reconcile, MayDecide
  <2>2. action = "no_task" => ~m.cfg.registered
    BY DEF ScheduleReconcile
  <2>3. action # "no_task" => m.cfg.args # NoArgs /\ m.cfg.args = TaskArgs(m.cfg, m.cfg.time)
    <3>1. SUFFICES ASSUME action # "no_task"
                   PROVE  m.cfg.args # NoArgs /\ m.cfg.args = TaskArgs(m.cfg, m.cfg.time)
      OBVIOUS
    <3>2. /\ m.cfg.registered
          /\ RegisteredSchedule(m.cfg).args # NoArgs
          /\ RegisteredSchedule(m.cfg).args = pending
      BY <1>4, <3>1 DEF ScheduleReconcile, TaskArgsChanged
    <3>3. m.cfg.args # NoArgs /\ m.cfg.args = pending
      BY <3>2 DEF RegisteredSchedule
    <3>4. m.cfg.args.time = m.cfg.time
      BY <3>2, <3>3 DEF Mounts, Documents
    <3>5. pending.time = typed.time
      BY DEF TaskArgs
    <3> QED BY <3>3, <3>4, <3>5
  <2> HIDE DEF r, action, time
  <2>4. r.m = m \/ (r.m = [m EXCEPT !.cfg.time = typed.time] /\ action = "no_task")
    BY <2>1
  <2>5. r.jobs = jobs /\ SaveNote(r.outcome) = "saved"
    BY <1>1, <2>1
  <2>6. Settled(m, typed, r)
    BY <1>4, <2>2, <2>3, <2>4, <2>5 DEF Settled
  <2> QED BY <2>6 DEF r
<1> QED BY <1>2, <1>3, <1>4

LEMMA CfgEdits ==
  ASSUME NEW m \in Mounts, NEW e \in Documents, SameRecord(m.cfg, e)
  PROVE  LET n == [m EXCEPT !.cfg = e] IN
         /\ n \in Mounts /\ n.cfg = e /\ n.wizard = m.wizard /\ n.step = m.step
         /\ n.card = m.card /\ n.busy = m.busy /\ n.flight = m.flight /\ n.dialog = m.dialog
BY DEF Mounts, SameRecord

\* The step that edits the mount on show into n.
EditedTo(n) ==
    /\ live # 0 /\ n \in Mounts /\ Edit(Here1, n)
    /\ mounts' = [mounts EXCEPT ![live] = n]
    /\ doc' = n.cfg \/ (doc' = doc /\ n.cfg = Here1.cfg)
    /\ UNCHANGED <<task, live, jobs>>
    /\ told' = told \/ told' = "left_out"
    /\ races \subseteq races'
    /\ n.cfg # Here1.cfg =>
          /\ Undercuts(n.cfg) \subseteq races'
          /\ task.there \/ InFlight(live) => {"undercut", "backtracked"} \cap races' # {}

LEMMA LiveMount ==
  ASSUME TypeOK, live # 0
  PROVE  /\ live \in DOMAIN mounts /\ live \in Nat \ {0} /\ Here1 \in Mounts
         /\ Here1.cfg \in Documents
BY DEF TypeOK, Here1, Mounts

LEMMA BacktracksRace ==
  ASSUME NEW cfg, Race(Backtracks(cfg))
  PROVE  /\ races \subseteq races'
         /\ cfg # Here1.cfg =>
              /\ Undercuts(cfg) \subseteq races'
              /\ task.there \/ InFlight(live) => {"undercut", "backtracked"} \cap races' # {}
<1>1. races' = races \cup Backtracks(cfg)
  BY DEF Race
<1>2. Undercuts(cfg) \in {{}, {"undercut"}}
  BY DEF Undercuts
<1>3. CASE Undercuts(cfg) # {}
  BY <1>1, <1>2, <1>3 DEF Backtracks
<1>4. CASE Undercuts(cfg) = {} /\ cfg # Here1.cfg /\ (task.there \/ InFlight(live))
  <2>1. Backtracks(cfg) = {"backtracked"}
    BY <1>4 DEF Backtracks, Here1
  <2> QED BY <1>1, <1>4, <2>1
<1>5. CASE Undercuts(cfg) = {} /\ ~(cfg # Here1.cfg /\ (task.there \/ InFlight(live)))
  BY <1>1, <1>5
<1> QED BY <1>3, <1>4, <1>5

LEMMA EditSteps ==
  ASSUME TypeOK,
         \/ Back \/ Decline \/ ForwardSkippable
         \/ \E district \in Districts : ForwardDistrict(district)
         \/ \E folders \in Folders : ForwardFolders(folders)
         \/ \E yes \in BOOLEAN : EditWindow(yes) \/ TestDelivery(yes) \/ ProbeAnswers(yes)
         \/ \E typed \in Typed, unreadable \in BOOLEAN :
               SaveDelivery(typed, unreadable) /\ Here1.wizard
  PROVE  \E n : EditedTo(n)
<1> USE DEF Here1
<1> DEFINE m == Here1
<1>0. SameRecord(m.cfg, m.cfg)
  BY DEF SameRecord
<1>1. jobs \in Seq(Jobs)
  BY DEF TypeOK
<1>2. CASE Back
  <2>1. live # 0 /\ m.dialog.kind = "none" /\ m.wizard
    BY <1>2 DEF Back, Here
  <2>2. m \in Mounts
    BY <2>1, LiveMount
  <2> DEFINE s == PrevStep(m.step, "standard")
             n == Shown(m, s)
  <2>3. s \in {"district", "folders", "delivery", "schedule"}
    <3>1. m.step \in Steps \ {"files"}
      BY <2>2 DEF Mounts
    <3> QED BY <1>2, <3>1, PrevSteps DEF Back
  <2>4. n \in Mounts /\ n.cfg = m.cfg /\ n.wizard = m.wizard /\ n.busy = m.busy /\ n.step = s
    <3>1. s \in Steps \ {"files"}
      BY <2>3 DEF Steps
    <3> QED BY <1>1, <2>1, <2>2, <3>1, ShownType
  <2>5. /\ mounts' = [mounts EXCEPT ![live] = n]
        /\ doc' = doc /\ UNCHANGED <<task, live, jobs>> /\ told' = told /\ races' = races
    BY <1>2 DEF Back
  <2> HIDE DEF n, s
  <2>6. EditedTo(n)
    BY <1>0, <2>1, <2>3, <2>4, <2>5 DEF EditedTo, Edit
  <2> QED BY <2>6
<1>3. CASE Decline
  <2>1. live # 0
    BY <1>3 DEF Decline, InDialog
  <2>2. m \in Mounts /\ (m.wizard => m.step = "schedule" \/ m.dialog.kind = "none")
    BY <2>1, LiveMount DEF Mounts
  <2>3. m.dialog.kind # "none"
    BY <1>3 DEF Decline, InDialog, DowngradeDialogs
  <2> DEFINE n == [m EXCEPT !.dialog = NoDialog]
  <2>4. /\ n \in Mounts /\ n.cfg = m.cfg /\ n.wizard = m.wizard /\ n.step = m.step
        /\ n.card = m.card /\ n.busy = m.busy /\ n.flight = m.flight
    BY <2>2, <2>3, NoDialogType, DialogType
  <2>5. /\ mounts' = [mounts EXCEPT ![live] = n]
        /\ doc' = doc /\ UNCHANGED <<task, live, jobs>> /\ races' = races
        /\ told' = told \/ told' = "left_out"
    BY <1>3 DEF Decline, LiveMount
  <2> HIDE DEF n
  <2>6. EditedTo(n)
    BY <1>0, <2>1, <2>4, <2>5 DEF EditedTo, Edit
  <2> QED BY <2>6
<1>4. CASE ForwardSkippable
  <2>1. live # 0 /\ m.dialog.kind = "none" /\ m.wizard /\ m.step \in Skippable
        /\ CanAdvance(m.step, Inputs(m))
    BY <1>4 DEF ForwardSkippable, InWizard, Here
  <2>2. m \in Mounts
    BY <2>1, LiveMount
  <2> DEFINE k == IF StepAddressed(m) THEN m
                  ELSE IF m.step = "schedule" THEN [m EXCEPT !.skipped = TRUE]
                  ELSE [m EXCEPT !.delivery = "skipped"]
             n == Forward(k)
  <2>3. k \in Mounts /\ k.cfg = m.cfg /\ k.wizard = m.wizard /\ k.step = m.step
        /\ k.busy = m.busy /\ k.dialog.kind = "none"
    BY <2>1, <2>2 DEF Mounts
  <2>4. m.step = "schedule" \/ m.step = "delivery"
    BY <2>1 DEF Skippable
  <2>5. m.step = "schedule" => ~m.busy
    BY <2>1 DEF CanAdvance, Inputs
  <2> HIDE DEF k
  <2> DEFINE s == NextStep(k.step, "standard")
  <2>6. s \in Steps \ {"files"} /\ (s = "finish" => m.step = "schedule")
    BY <2>3, <2>4, NextSteps DEF Steps
  <2>7. n = Shown(k, s)
    BY DEF Forward
  <2>8. n \in Mounts /\ n.cfg = m.cfg /\ n.wizard = m.wizard /\ n.busy = m.busy /\ n.step = s
    BY <1>1, <2>3, <2>6, <2>7, ShownType
  <2>9. /\ mounts' = [mounts EXCEPT ![live] = n]
        /\ doc' = doc /\ UNCHANGED <<task, live, jobs>> /\ told' = told /\ races' = races
    BY <1>4 DEF ForwardSkippable, k
  <2> HIDE DEF n, s
  <2>10. EditedTo(n)
    BY <1>0, <2>1, <2>5, <2>6, <2>8, <2>9 DEF EditedTo, Edit
  <2> QED BY <2>10
<1>5. ASSUME NEW district \in Districts, ForwardDistrict(district) PROVE \E n : EditedTo(n)
  <2>1. live # 0 /\ m.dialog.kind = "none" /\ m.wizard /\ m.step = "district"
    BY <1>5 DEF ForwardDistrict, InWizard, Here
  <2>2. m \in Mounts /\ m.cfg \in Documents
    BY <2>1, LiveMount
  <2> DEFINE picked == [m EXCEPT !.district = district]
             e == [m.cfg EXCEPT !.district = district]
             kept == [picked EXCEPT !.cfg.district = district]
             n == Forward(kept)
  <2>3. picked \in Mounts /\ picked.cfg = m.cfg /\ picked.wizard = m.wizard
        /\ picked.step = m.step /\ picked.busy = m.busy /\ picked.dialog = m.dialog
    BY <2>2 DEF Mounts
  <2>4. e \in Documents /\ SameRecord(m.cfg, e)
    BY <2>2, DocumentEdits
  <2>5. kept = [picked EXCEPT !.cfg = e]
    BY <2>2, <2>3 DEF Mounts
  <2> HIDE DEF e, picked, kept
  <2>6. kept \in Mounts /\ kept.cfg = e /\ kept.wizard = m.wizard /\ kept.step = m.step
        /\ kept.busy = m.busy /\ kept.dialog = m.dialog
    BY <2>3, <2>4, <2>5, CfgEdits
  <2>6a. kept.dialog.kind = "none"
    BY <2>1, <2>6
  <2>7. CASE district \in Tested
    <3>1. n = Shown(kept, "folders") /\ "folders" \in Steps \ {"files"}
      BY <2>1, <2>6, NextSteps DEF Forward, Steps
    <3>2. n \in Mounts /\ n.cfg = e /\ n.wizard = m.wizard /\ n.busy = m.busy
          /\ n.step = "folders"
      BY <1>1, <2>6, <2>6a, <3>1, ShownType
    <3>3. /\ Saved(n) /\ Race(Backtracks(kept.cfg))
          /\ UNCHANGED <<task, live, jobs, told>>
      BY <1>5, <2>7 DEF ForwardDistrict, kept, picked
    <3> HIDE DEF n
    <3>4. EditedTo(n)
      BY <2>1, <2>4, <2>6, <3>2, <3>3, BacktracksRace DEF EditedTo, Edit, Saved
    <3> QED BY <3>4
  <2>8. CASE district \notin Tested
    <3>1. /\ mounts' = [mounts EXCEPT ![live] = picked]
          /\ UNCHANGED <<doc, races, task, live, jobs, told>>
      BY <1>5, <2>8 DEF ForwardDistrict, picked
    <3>2. EditedTo(picked)
      BY <1>0, <2>1, <2>3, <3>1 DEF EditedTo, Edit
    <3> QED BY <3>2
  <2> QED BY <2>7, <2>8
<1>6. ASSUME NEW folders \in Folders, ForwardFolders(folders) PROVE \E n : EditedTo(n)
  <2>1. live # 0 /\ m.dialog.kind = "none" /\ m.wizard /\ m.step = "folders"
    BY <1>6 DEF ForwardFolders, InWizard, Here
  <2>2. m \in Mounts /\ m.cfg \in Documents
    BY <2>1, LiveMount
  <2> DEFINE picked == [m EXCEPT !.folders = folders]
             e == [m.cfg EXCEPT !.folders = folders]
             kept == [picked EXCEPT !.cfg.folders = folders]
             n == Forward(kept)
  <2>3. picked \in Mounts /\ picked.cfg = m.cfg /\ picked.wizard = m.wizard
        /\ picked.step = m.step /\ picked.busy = m.busy /\ picked.dialog = m.dialog
    BY <2>2 DEF Mounts
  <2>4. e \in Documents /\ SameRecord(m.cfg, e)
    BY <2>2, DocumentEdits
  <2>5. kept = [picked EXCEPT !.cfg = e]
    BY <2>2, <2>3 DEF Mounts
  <2> HIDE DEF e, picked, kept
  <2>6. kept \in Mounts /\ kept.cfg = e /\ kept.wizard = m.wizard /\ kept.step = m.step
        /\ kept.busy = m.busy /\ kept.dialog = m.dialog
    BY <2>3, <2>4, <2>5, CfgEdits
  <2>6a. kept.dialog.kind = "none"
    BY <2>1, <2>6
  <2>7. n = Shown(kept, "delivery") /\ "delivery" \in Steps \ {"files"}
    BY <2>1, <2>6, NextSteps DEF Forward, Steps
  <2>8. n \in Mounts /\ n.cfg = e /\ n.wizard = m.wizard /\ n.busy = m.busy
        /\ n.step = "delivery"
    BY <1>1, <2>6, <2>6a, <2>7, ShownType
  <2>9. Saved(n) /\ Race(Backtracks(kept.cfg)) /\ UNCHANGED <<task, live, jobs, told>>
    BY <1>6 DEF ForwardFolders, kept, picked
  <2> HIDE DEF n
  <2>10. EditedTo(n)
    BY <2>1, <2>4, <2>6, <2>8, <2>9, BacktracksRace DEF EditedTo, Edit, Saved
  <2> QED BY <2>10
<1>7. ASSUME NEW yes \in BOOLEAN, EditWindow(yes) PROVE \E n : EditedTo(n)
  <2>1. live # 0
    BY <1>7 DEF EditWindow, ScheduleCard, Here
  <2>2. m \in Mounts
    BY <2>1, LiveMount
  <2> DEFINE n == [m EXCEPT !.windowValid = yes]
  <2>3. n \in Mounts /\ n.cfg = m.cfg /\ n.wizard = m.wizard /\ n.step = m.step
        /\ n.busy = m.busy /\ n.flight = m.flight /\ n.card = m.card
    BY <2>2 DEF Mounts
  <2>4. /\ mounts' = [mounts EXCEPT ![live] = n]
        /\ doc' = n.cfg \/ doc' = doc
        /\ UNCHANGED <<task, live, jobs, told, races>>
    <3>1. CASE yes
      BY <1>7, <3>1 DEF EditWindow, Saved
    <3>2. CASE ~yes
      <4>1. yes = FALSE
        BY <1>7, <3>2
      <4> QED BY <1>7, <4>1 DEF EditWindow
    <3> QED BY <3>1, <3>2
  <2> HIDE DEF n
  <2>5. EditedTo(n)
    BY <1>0, <2>1, <2>3, <2>4 DEF EditedTo, Edit
  <2> QED BY <2>5
<1>8. ASSUME NEW yes \in BOOLEAN, TestDelivery(yes) PROVE \E n : EditedTo(n)
  <2>1. live # 0
    BY <1>8 DEF TestDelivery, DeliveryCard, Here
  <2>2. m \in Mounts
    BY <2>1, LiveMount
  <2> DEFINE n == [m EXCEPT !.delivery = IF yes THEN "tested_ok" ELSE "none"]
  <2>3. n \in Mounts /\ n.cfg = m.cfg /\ n.wizard = m.wizard /\ n.step = m.step
        /\ n.busy = m.busy /\ n.flight = m.flight /\ n.card = m.card
    BY <2>2 DEF Mounts
  <2>4. mounts' = [mounts EXCEPT ![live] = n] /\ UNCHANGED <<doc, task, live, jobs, told, races>>
    BY <1>8 DEF TestDelivery
  <2> HIDE DEF n
  <2>5. EditedTo(n)
    BY <1>0, <2>1, <2>3, <2>4 DEF EditedTo, Edit
  <2> QED BY <2>5
<1>9. ASSUME NEW yes \in BOOLEAN, ProbeAnswers(yes) PROVE \E n : EditedTo(n)
  <2>1. live # 0
    BY <1>9 DEF ProbeAnswers, ScheduleCard, Here
  <2>2. m \in Mounts
    BY <2>1, LiveMount
  <2> DEFINE status == IF yes /\ task.there THEN "live" ELSE "none"
             skipped == IF status = "live" THEN FALSE ELSE m.skipped
             n == [m EXCEPT !.status = status, !.skipped = skipped]
  <2>3. n \in Mounts /\ n.cfg = m.cfg /\ n.wizard = m.wizard /\ n.step = m.step
        /\ n.busy = m.busy /\ n.flight = m.flight /\ n.card = m.card
    <3>1. status \in {"none", "live"} /\ skipped \in BOOLEAN
      BY <2>2 DEF Mounts
    <3> HIDE DEF status, skipped
    <3> QED BY <2>2, <3>1 DEF Mounts
  <2>4. mounts' = [mounts EXCEPT ![live] = n] /\ UNCHANGED <<doc, task, live, jobs, told, races>>
    BY <1>9, <2>1, <2>2, LiveMount DEF ProbeAnswers
  <2> HIDE DEF n
  <2>5. EditedTo(n)
    BY <1>0, <2>1, <2>3, <2>4 DEF EditedTo, Edit
  <2> QED BY <2>5
<1>10. ASSUME NEW typed \in Typed, NEW unreadable \in BOOLEAN, SaveDelivery(typed, unreadable),
              m.wizard
       PROVE  \E n : EditedTo(n)
  <2>1. live # 0
    BY <1>10 DEF SaveDelivery, DeliveryCard, Here
  <2>2. m \in Mounts /\ m.cfg \in Documents
    BY <2>1, LiveMount
  <2> DEFINE e == [m.cfg EXCEPT !.delivery = TRUE]
             n == [m EXCEPT !.cfg.delivery = TRUE, !.delivery = "stored"]
  <2>3. e \in Documents /\ SameRecord(m.cfg, e) /\ e.delivery
    BY <2>2, DocumentEdits
  <2>4. n = [m EXCEPT !.cfg = e, !.delivery = "stored"]
    BY <2>2 DEF Mounts
  <2> HIDE DEF e, n
  <2>5. n \in Mounts /\ n.cfg = e /\ n.wizard = m.wizard /\ n.step = m.step
        /\ n.busy = m.busy /\ n.flight = m.flight /\ n.card = m.card
    BY <2>2, <2>3, <2>4 DEF Mounts
  <2>6. Saved(n) /\ Race(Backtracks(n.cfg)) /\ UNCHANGED <<task, live, jobs, told>>
    BY <1>10, <2>5 DEF SaveDelivery, n
  <2>7. EditedTo(n)
    BY <1>10, <2>1, <2>3, <2>5, <2>6, BacktracksRace DEF EditedTo, Edit, Saved
  <2> QED BY <2>7
<1> QED BY <1>2, <1>3, <1>4, <1>5, <1>6, <1>7, <1>8, <1>9, <1>10

\* The step that asks for the job b from the mount on show, and leaves it as n.
StartedBy(n, b) ==
    /\ live # 0 /\ n \in Mounts /\ b \in Jobs
    /\ n.wizard = Here1.wizard /\ SameRecord(Here1.cfg, n.cfg)
    /\ n.busy /\ n.flight /\ n.card = b.card
    /\ n.wizard => n.step # "finish"
    /\ b.mount = live /\ b.phase = "queued" /\ ~b.late
    /\ b.args = TaskArgs(n.cfg, b.typed.time)
    /\ b.op = "register" /\ b.asked = "save" /\ b.typed.kind = "token" =>
          n.cfg.registered /\ n.cfg.args # NoArgs /\ ~Unattended(n.cfg.kind)
    /\ mounts' = [mounts EXCEPT ![live] = n] /\ jobs' = Append(jobs, b)
    /\ UNCHANGED <<task, live>>
    /\ races \subseteq races'
    /\ \/ /\ n.cfg = Here1.cfg /\ doc' = doc /\ told' = told
          /\ InFlight(live) => "resubmitted" \in races'
       \/ /\ ~n.wizard /\ ~Here1.flight /\ doc' = n.cfg /\ told' = "updating"

\* The step that saves n in Settings, and asks for nothing.
SavedAs(n) ==
    /\ live # 0 /\ n \in Mounts
    /\ ~n.wizard /\ ~Here1.wizard /\ SameRecord(Here1.cfg, n.cfg)
    /\ n.card = Here1.card /\ n.flight = Here1.flight
    /\ mounts' = [mounts EXCEPT ![live] = n] /\ doc' = n.cfg
    /\ UNCHANGED <<task, live, jobs>>
    /\ races \cup Undercuts(n.cfg) \subseteq races'
    /\ \/ told' = "left_out"
       \/ /\ told' = "saved" /\ ~n.flight
          /\ \/ ~n.cfg.registered
             \/ n.cfg.args # NoArgs /\ n.cfg.args = TaskArgs(n.cfg, n.cfg.time)

LEMMA StoppedType ==
  ASSUME NEW m \in Mounts, m.wizard => m.step = "schedule", NEW r, Stopped(m, r)
  PROVE  /\ r.m \in Mounts /\ r.m.cfg = m.cfg /\ r.m.wizard = m.wizard /\ r.m.step = m.step
         /\ r.m.card = m.card /\ r.m.busy = m.busy /\ r.m.flight = m.flight
<1>1. CASE r.m = m
  BY <1>1
<1>2. ASSUME NEW d \in Dialogs, r.m = [m EXCEPT !.dialog = d]
      PROVE  /\ r.m \in Mounts /\ r.m.cfg = m.cfg /\ r.m.wizard = m.wizard
             /\ r.m.step = m.step /\ r.m.card = m.card /\ r.m.busy = m.busy
             /\ r.m.flight = m.flight
  BY <1>2, DialogType
<1> QED BY <1>1, <1>2 DEF Stopped

LEMMA Appended ==
  ASSUME NEW b, jobs \in Seq(Jobs)
  PROVE  Append(jobs, b) # jobs
OBVIOUS

LEMMA RegisterPressedSteps ==
  ASSUME TypeOK, NEW typed \in Typed, NEW unreadable \in BOOLEAN,
         RegisterPressed(typed, unreadable)
  PROVE  (\E n : EditedTo(n)) \/ (\E n, b : StartedBy(n, b))
<1> USE DEF Here1
<1> DEFINE m == Here1
           r == Register(m, typed, "button", unreadable, FALSE)
<1>1. /\ live # 0 /\ m.dialog.kind = "none" /\ (m.wizard => m.step = "schedule")
      /\ mounts' = [mounts EXCEPT ![live] = r.m] /\ jobs' = r.jobs
      /\ races \subseteq races'
      /\ jobs' # jobs /\ InFlight(live) => "resubmitted" \in races'
      /\ UNCHANGED <<doc, task, live, told>>
  BY DEF RegisterPressed, ScheduleCard, Here, Race
<1>2. m \in Mounts /\ live \in Nat \ {0} /\ SameRecord(m.cfg, m.cfg) /\ jobs \in Seq(Jobs)
  BY <1>1, LiveMount DEF SameRecord, TypeOK
<1>3. typed \in Cards
  BY TypedTypes
<1> HIDE DEF r
<1>4. CASE Stopped(m, r)
  <2> DEFINE n == r.m
  <2>1. /\ n \in Mounts /\ n.cfg = m.cfg /\ n.wizard = m.wizard /\ n.step = m.step
        /\ n.card = m.card /\ n.busy = m.busy /\ n.flight = m.flight
    BY <1>1, <1>2, <1>4, StoppedType
  <2>2. r.jobs = jobs
    BY <1>4 DEF Stopped
  <2>3. EditedTo(n)
    BY <1>1, <1>2, <2>1, <2>2 DEF EditedTo, Edit
  <2> QED BY <2>3
<1>5. CASE Dispatched(m, typed, "button", r)
  <2> DEFINE n == r.m
             b == Job("register", m, typed, "button")
  <2>1. n = Busy(m, TRUE) /\ r.jobs = Append(jobs, b) /\ Complete(m.cfg)
    BY <1>5 DEF Dispatched
  <2>2. /\ n \in Mounts /\ n.cfg = m.cfg /\ n.wizard = m.wizard /\ n.step = m.step
        /\ n.card = m.card /\ n.busy /\ n.flight
    BY <1>2, <2>1, BusyType
  <2>3. /\ b \in Jobs /\ b.mount = live /\ b.card = m.card /\ b.op = "register"
        /\ b.typed = typed /\ b.asked = "button"
        /\ b.args = TaskArgs(m.cfg, typed.time) /\ b.phase = "queued" /\ ~b.late
    BY <1>2, <1>3, <2>1, JobType
  <2>4. jobs' = Append(jobs, b) /\ jobs' # jobs
    BY <1>1, <1>2, <2>1, Appended
  <2> HIDE DEF n, b
  <2>5. mounts' = [mounts EXCEPT ![live] = n]
    BY <1>1 DEF n
  <2>6. StartedBy(n, b)
    BY <1>1, <1>2, <2>2, <2>3, <2>4, <2>5 DEF StartedBy
  <2> QED BY <2>6
<1> QED BY <1>2, <1>3, <1>4, <1>5, RegisterDoes DEF r

LEMMA AgreeSteps ==
  ASSUME TypeOK, NEW unreadable \in BOOLEAN, Agree(unreadable)
  PROVE  (\E n : EditedTo(n)) \/ (\E n, b : StartedBy(n, b))
<1> USE DEF Here1
<1> DEFINE d == Here1.dialog
           typed == IF d.kind = "scope" THEN d.typed ELSE [d.typed EXCEPT !.kind = "token"]
           m == [Here1 EXCEPT !.dialog = NoDialog]
           r == Register(m, typed, d.asked, unreadable, d.kind = "scope")
<1>1. /\ live # 0 /\ d.kind # "none"
      /\ mounts' = [mounts EXCEPT ![live] = r.m] /\ jobs' = r.jobs
      /\ races \subseteq races'
      /\ jobs' # jobs /\ InFlight(live) => "resubmitted" \in races'
      /\ UNCHANGED <<doc, task, live, told>>
  BY DEF Agree, InDialog, DowngradeDialogs, Race
<1>2. Here1 \in Mounts /\ live \in Nat \ {0} /\ jobs \in Seq(Jobs)
  BY <1>1, LiveMount DEF TypeOK
<1>3. d \in Dialogs /\ (Here1.wizard => Here1.step = "schedule")
  BY <1>1, <1>2 DEF Mounts
<1>4. /\ m \in Mounts /\ m.cfg = Here1.cfg /\ m.wizard = Here1.wizard /\ m.step = Here1.step
      /\ m.card = Here1.card /\ m.busy = Here1.busy /\ m.flight = Here1.flight
  BY <1>2, <1>3, NoDialogType, DialogType
<1>5. /\ typed \in Cards /\ d.asked \in {"none", "button", "choice", "save"}
      /\ typed.kind = "token" => d.asked # "save"
  <2>1. d.typed \in Cards /\ d.asked \in {"none", "button", "choice", "save"}
        /\ (IF d.kind = "scope" THEN d.typed.kind # "token" ELSE d.asked # "save")
    BY <1>3 DEF Dialogs
  <2>2. [d.typed EXCEPT !.kind = "token"] \in Cards
    BY <2>1 DEF Cards, Kinds
  <2> QED BY <2>1, <2>2
<1>6. SameRecord(Here1.cfg, Here1.cfg)
  BY DEF SameRecord
<1> HIDE DEF r, m, typed
<1>7. CASE Stopped(m, r)
  <2> DEFINE n == r.m
  <2>1. /\ n \in Mounts /\ n.cfg = m.cfg /\ n.wizard = m.wizard /\ n.step = m.step
        /\ n.card = m.card /\ n.busy = m.busy /\ n.flight = m.flight
    BY <1>3, <1>4, <1>7, StoppedType
  <2>2. r.jobs = jobs
    BY <1>7 DEF Stopped
  <2>3. EditedTo(n)
    BY <1>1, <1>4, <1>6, <2>1, <2>2 DEF EditedTo, Edit
  <2> QED BY <2>3
<1>8. CASE Dispatched(m, typed, d.asked, r)
  <2> DEFINE n == r.m
             b == Job("register", m, typed, d.asked)
  <2>1. n = Busy(m, TRUE) /\ r.jobs = Append(jobs, b) /\ Complete(m.cfg)
    BY <1>8 DEF Dispatched
  <2>2. /\ n \in Mounts /\ n.cfg = m.cfg /\ n.wizard = m.wizard /\ n.step = m.step
        /\ n.card = m.card /\ n.busy /\ n.flight
    BY <1>4, <2>1, BusyType
  <2>3. /\ b \in Jobs /\ b.mount = live /\ b.card = m.card /\ b.op = "register"
        /\ b.typed = typed /\ b.asked = d.asked
        /\ b.args = TaskArgs(m.cfg, typed.time) /\ b.phase = "queued" /\ ~b.late
    BY <1>2, <1>4, <1>5, <2>1, JobType
  <2>4. jobs' = Append(jobs, b) /\ jobs' # jobs
    BY <1>1, <1>2, <2>1, Appended
  <2> HIDE DEF n, b
  <2>5. mounts' = [mounts EXCEPT ![live] = n]
    BY <1>1 DEF n
  <2>6. StartedBy(n, b)
    BY <1>1, <1>3, <1>4, <1>5, <1>6, <2>2, <2>3, <2>4, <2>5 DEF StartedBy
  <2> QED BY <2>6
<1> QED BY <1>4, <1>5, <1>7, <1>8, RegisterDoes DEF r

LEMMA UnregisterSteps ==
  ASSUME TypeOK, UnregisterPressed
  PROVE  \E n, b : StartedBy(n, b)
<1> USE DEF Here1
<1> DEFINE m == Here1
           typed == CHOOSE t \in Typed : TRUE
           n == Busy(m, TRUE)
           b == Job("unregister", m, typed, "button")
<1>1. /\ live # 0 /\ (m.wizard => m.step = "schedule")
      /\ mounts' = [mounts EXCEPT ![live] = n] /\ jobs' = Append(jobs, b)
      /\ races \subseteq races'
      /\ InFlight(live) => "resubmitted" \in races'
      /\ UNCHANGED <<doc, task, live, told>>
  BY DEF UnregisterPressed, ScheduleCard, Here, Race
<1>2. m \in Mounts /\ live \in Nat \ {0} /\ SameRecord(m.cfg, m.cfg)
  BY <1>1, LiveMount DEF SameRecord
<1>3. /\ n \in Mounts /\ n.cfg = m.cfg /\ n.wizard = m.wizard /\ n.step = m.step
      /\ n.card = m.card /\ n.busy /\ n.flight
  BY <1>2, BusyType
<1>4. typed \in Cards
  BY ATyped, TypedTypes
<1>5. /\ b \in Jobs /\ b.mount = live /\ b.card = m.card /\ b.op = "unregister"
      /\ b.typed = typed /\ b.args = TaskArgs(m.cfg, typed.time) /\ b.phase = "queued" /\ ~b.late
  BY <1>2, <1>4, JobType
<1> HIDE DEF n, b, typed
<1>6. StartedBy(n, b)
  BY <1>1, <1>2, <1>3, <1>5 DEF StartedBy
<1> QED BY <1>6

\* A save in Settings, of the instance m that the save has changed.
LEMMA ReconcileSteps ==
  ASSUME TypeOK, live # 0, ~Here1.wizard,
         NEW m \in Mounts, SameRecord(Here1.cfg, m.cfg), m.wizard = Here1.wizard,
         m.step = Here1.step, m.card = Here1.card, m.busy = Here1.busy,
         m.flight = Here1.flight,
         NEW typed \in Typed, NEW unreadable \in BOOLEAN,
         SaveAndReconcile(m, typed, unreadable)
  PROVE  (\E n : SavedAs(n)) \/ (\E n, b : StartedBy(n, b))
<1> DEFINE r == Reconcile(m, typed, unreadable)
<1>1. /\ mounts' = [mounts EXCEPT ![live] = r.m] /\ doc' = r.m.cfg /\ jobs' = r.jobs
      /\ races \cup Undercuts(r.m.cfg) \subseteq races'
      /\ told' = SaveNote(r.outcome)
      /\ UNCHANGED <<task, live>>
  BY DEF SaveAndReconcile, Saved, Race
<1>2. live \in Nat \ {0} /\ jobs \in Seq(Jobs) /\ typed \in Cards /\ m.cfg \in Documents
  BY LiveMount, TypedTypes DEF TypeOK, Mounts
<1>3. Waits(m, r) \/ AsksAnew(m, typed, r) \/ LeavesOut(m, r) \/ Settled(m, typed, r)
  BY <1>2, ReconcileDoes
<1> HIDE DEF r
<1> DEFINE n == r.m
<1>4. CASE Waits(m, r)
  <2>1. SavedAs(n)
    BY <1>1, <1>4 DEF SavedAs, Waits
  <2> QED BY <2>1
<1>5. CASE LeavesOut(m, r)
  <2>1. /\ n \in Mounts /\ n.cfg = m.cfg /\ n.wizard = m.wizard /\ n.step = m.step
        /\ n.card = m.card /\ n.busy = m.busy /\ n.flight = m.flight
    BY <1>5, StoppedType DEF LeavesOut
  <2>2. r.jobs = jobs /\ SaveNote(r.outcome) = "left_out"
    BY <1>5 DEF LeavesOut, Stopped
  <2>3. SavedAs(n)
    BY <1>1, <2>1, <2>2 DEF SavedAs
  <2> QED BY <2>3
<1>6. CASE Settled(m, typed, r)
  <2>1. ~m.flight /\ r.jobs = jobs /\ SaveNote(r.outcome) = "saved"
    BY <1>6 DEF Settled
  <2>2. CASE /\ n = m
             /\ \/ ~m.cfg.registered
                \/ m.cfg.args # NoArgs /\ m.cfg.args = TaskArgs(m.cfg, m.cfg.time)
    <3>1. SavedAs(n)
      BY <1>1, <2>1, <2>2 DEF SavedAs
    <3> QED BY <3>1
  <2>3. CASE n = [m EXCEPT !.cfg.time = typed.time] /\ ~m.cfg.registered
    <3> DEFINE e == [m.cfg EXCEPT !.time = typed.time]
    <3>1. typed.time \in Times \cup {"none"}
      BY <1>2 DEF Cards
    <3>2. e \in Documents /\ SameRecord(m.cfg, e)
      BY <1>2, <2>3, <3>1, DocumentEdits
    <3>3. n = [m EXCEPT !.cfg = e]
      BY <2>3 DEF Mounts
    <3> HIDE DEF e, n
    <3>4. /\ n \in Mounts /\ n.cfg = e /\ n.wizard = m.wizard /\ n.step = m.step
          /\ n.card = m.card /\ n.busy = m.busy /\ n.flight = m.flight
      BY <3>2, <3>3, CfgEdits
    <3>5. SameRecord(Here1.cfg, n.cfg) /\ ~n.cfg.registered
      BY <2>3, <3>2, <3>4 DEF SameRecord
    <3>6. SavedAs(n)
      BY <1>1, <2>1, <3>4, <3>5 DEF SavedAs, n
    <3> QED BY <3>6
  <2> QED BY <1>6, <2>2, <2>3 DEF Settled
<1>7. CASE AsksAnew(m, typed, r)
  <2> DEFINE b == Job("register", m, typed, "save")
  <2>1. /\ n = Busy(m, TRUE) /\ r.jobs = Append(jobs, b) /\ Complete(m.cfg)
        /\ ~m.flight /\ m.cfg.registered /\ SaveNote(r.outcome) = "updating"
        /\ typed.kind = "token" => m.cfg.args # NoArgs /\ ~Unattended(m.cfg.kind)
    BY <1>7 DEF AsksAnew, Dispatched
  <2>2. /\ n \in Mounts /\ n.cfg = m.cfg /\ n.wizard = m.wizard /\ n.step = m.step
        /\ n.card = m.card /\ n.busy /\ n.flight
    BY <2>1, BusyType
  <2>3. /\ b \in Jobs /\ b.mount = live /\ b.card = m.card /\ b.op = "register"
        /\ b.typed = typed /\ b.asked = "save"
        /\ b.args = TaskArgs(m.cfg, typed.time) /\ b.phase = "queued" /\ ~b.late
    BY <1>2, <2>1, JobType
  <2> HIDE DEF b
  <2>4. StartedBy(n, b)
    BY <1>1, <2>1, <2>2, <2>3 DEF StartedBy
  <2> QED BY <2>4
<1> QED BY <1>3, <1>4, <1>5, <1>6, <1>7

LEMMA SaveSteps ==
  ASSUME TypeOK, NEW typed \in Typed, NEW unreadable \in BOOLEAN,
         \/ SaveDelivery(typed, unreadable) /\ ~Here1.wizard
         \/ \E district \in Districts, folders \in Folders :
               SaveFolders(district, folders, typed, unreadable)
  PROVE  (\E n : SavedAs(n)) \/ (\E n, b : StartedBy(n, b))
<1>1. CASE SaveDelivery(typed, unreadable) /\ ~Here1.wizard
  <2>1. live # 0
    BY <1>1 DEF SaveDelivery, DeliveryCard, Here
  <2>2. Here1 \in Mounts /\ Here1.cfg \in Documents
    BY <2>1, LiveMount
  <2> DEFINE e == [Here1.cfg EXCEPT !.delivery = TRUE]
             m == [Here1 EXCEPT !.cfg.delivery = TRUE, !.delivery = "stored"]
  <2>3. e \in Documents /\ SameRecord(Here1.cfg, e) /\ e.delivery
    BY <2>2, DocumentEdits
  <2>4. m = [Here1 EXCEPT !.cfg = e, !.delivery = "stored"]
    BY <2>2 DEF Mounts
  <2> HIDE DEF e, m
  <2>5. m \in Mounts /\ m.cfg = e /\ m.wizard = Here1.wizard /\ m.step = Here1.step
        /\ m.busy = Here1.busy /\ m.flight = Here1.flight /\ m.card = Here1.card
    BY <2>2, <2>3, <2>4 DEF Mounts
  <2>6. SaveAndReconcile(m, typed, unreadable)
    BY <1>1, <2>5 DEF SaveDelivery, m, Here1
  <2> QED BY <1>1, <2>1, <2>3, <2>5, <2>6, ReconcileSteps
<1>2. ASSUME NEW district \in Districts, NEW folders \in Folders,
             SaveFolders(district, folders, typed, unreadable)
      PROVE  (\E n : SavedAs(n)) \/ (\E n, b : StartedBy(n, b))
  <2>1. live # 0 /\ ~Here1.wizard
    BY <1>2 DEF SaveFolders, InSettings, Here, Here1
  <2>2. Here1 \in Mounts /\ Here1.cfg \in Documents
    BY <2>1, LiveMount
  <2> DEFINE c == [Here1.cfg EXCEPT !.district = district]
             e == [c EXCEPT !.folders = folders]
             m == [Here1 EXCEPT !.cfg.district = district, !.cfg.folders = folders]
  <2>3. c \in Documents /\ SameRecord(Here1.cfg, c)
    BY <2>2, DocumentEdits
  <2>4. e \in Documents /\ SameRecord(c, e)
    <3> HIDE DEF c
    <3> QED BY <2>3, DocumentEdits
  <2>5. SameRecord(Here1.cfg, e)
    BY <2>3, <2>4 DEF SameRecord
  <2>6. m = [Here1 EXCEPT !.cfg = e]
    BY <2>2 DEF Mounts
  <2> HIDE DEF c, e, m
  <2>7. m \in Mounts /\ m.cfg = e /\ m.wizard = Here1.wizard /\ m.step = Here1.step
        /\ m.busy = Here1.busy /\ m.flight = Here1.flight /\ m.card = Here1.card
    BY <2>2, <2>4, <2>5, <2>6, CfgEdits
  <2>8. SaveAndReconcile(m, typed, unreadable)
    BY <1>2 DEF SaveFolders, m, Here1
  <2> QED BY <2>1, <2>5, <2>7, <2>8, ReconcileSteps
<1> QED BY <1>1, <1>2

\* Every step is one of these.
LEMMA StepKinds ==
  ASSUME TypeOK, Next
  PROVE  \/ \E n : EditedTo(n) \/ SavedAs(n)
         \/ \E n, b : StartedBy(n, b)
         \/ Open \/ Leave
         \/ \E district \in Districts : MappingApply(district)
         \/ \E yes \in BOOLEAN : Finish(yes)
         \/ \E j \in DOMAIN jobs :
               \/ WorkerReads(j) \/ LateEffect(j)
               \/ \E way, effect, readable : WorkerEnds(j, way, effect, readable)
               \/ \E handover : Answer(j, handover)
<1>1. CASE Back \/ Decline \/ ForwardSkippable
  BY <1>1, EditSteps
<1>2. CASE \E district \in Districts : ForwardDistrict(district)
  BY <1>2, EditSteps
<1>3. CASE \E folders \in Folders : ForwardFolders(folders)
  BY <1>3, EditSteps
<1>4. CASE \E yes \in BOOLEAN : EditWindow(yes) \/ TestDelivery(yes) \/ ProbeAnswers(yes)
  BY <1>4, EditSteps
<1>5. CASE UnregisterPressed
  BY <1>5, UnregisterSteps
<1>6. ASSUME NEW unreadable \in BOOLEAN, Agree(unreadable)
      PROVE  (\E n : EditedTo(n)) \/ (\E n, b : StartedBy(n, b))
  BY <1>6, AgreeSteps
<1>7. ASSUME NEW unreadable \in BOOLEAN, NEW typed \in Typed, RegisterPressed(typed, unreadable)
      PROVE  (\E n : EditedTo(n)) \/ (\E n, b : StartedBy(n, b))
  BY <1>7, RegisterPressedSteps
<1>8. ASSUME NEW unreadable \in BOOLEAN, NEW typed \in Typed, SaveDelivery(typed, unreadable)
      PROVE  (\E n : EditedTo(n) \/ SavedAs(n)) \/ (\E n, b : StartedBy(n, b))
  <2>1. CASE Here1.wizard
    BY <1>8, <2>1, EditSteps
  <2>2. CASE ~Here1.wizard
    BY <1>8, <2>2, SaveSteps
  <2> QED BY <2>1, <2>2
<1>9. ASSUME NEW unreadable \in BOOLEAN, NEW typed \in Typed,
             \E district \in Districts, folders \in Folders :
                SaveFolders(district, folders, typed, unreadable)
      PROVE  (\E n : SavedAs(n)) \/ (\E n, b : StartedBy(n, b))
  BY <1>9, SaveSteps
<1> QED BY <1>1, <1>2, <1>3, <1>4, <1>5, <1>6, <1>7, <1>8, <1>9 DEF Next

-----------------------------------------------------------------------------
(* Types                                                                    *)

LEMMA MountPut ==
  ASSUME TypeOK, NEW i \in DOMAIN mounts, NEW n \in Mounts
  PROVE  LET ms == [mounts EXCEPT ![i] = n] IN
         /\ ms \in Seq(Mounts) /\ Len(ms) = Len(mounts) /\ ms[i] = n
         /\ DOMAIN ms = DOMAIN mounts
         /\ \A k \in DOMAIN mounts : k # i => ms[k] = mounts[k]
BY DEF TypeOK

LEMMA JobPut ==
  ASSUME TypeOK, NEW j \in DOMAIN jobs, NEW b \in Jobs, b.mount <= Len(mounts)
  PROVE  LET js == [jobs EXCEPT ![j] = b] IN
         /\ js \in Seq(Jobs) /\ DOMAIN js = DOMAIN jobs /\ js[j] = b
         /\ \A k \in DOMAIN jobs : k # j => js[k] = jobs[k]
         /\ \A k \in DOMAIN js : js[k].mount <= Len(mounts)
BY DEF TypeOK

LEMMA JobFields ==
  ASSUME TypeOK, NEW j \in DOMAIN jobs
  PROVE  /\ jobs[j] \in Jobs /\ jobs[j].mount <= Len(mounts)
         /\ jobs[j].phase # "answered" =>
               /\ jobs[j].mount \in DOMAIN mounts
               /\ mounts[jobs[j].mount] \in Mounts
               /\ mounts[jobs[j].mount].cfg \in Documents
<1>1. jobs[j] \in Jobs /\ jobs[j].mount <= Len(mounts)
  BY DEF TypeOK
<1>2. ASSUME jobs[j].phase # "answered"
      PROVE  jobs[j].mount \in DOMAIN mounts
  <2>1. jobs[j].mount \in Nat /\ jobs[j].mount > 0
    BY <1>1, <1>2 DEF Jobs
  <2>2. mounts \in Seq(Mounts)
    BY DEF TypeOK
  <2> QED BY <1>1, <2>1, <2>2
<1>3. \A i \in DOMAIN mounts : mounts[i] \in Mounts /\ mounts[i].cfg \in Documents
  BY DEF TypeOK, Mounts
<1> QED BY <1>1, <1>2, <1>3

\* The thread has read the instance of its mount.
LEMMA ReadsDo ==
  ASSUME TypeOK, NEW j \in DOMAIN jobs, WorkerReads(j)
  PROVE  \E b \in Jobs :
            /\ jobs' = [jobs EXCEPT ![j] = b] /\ jobs[j].phase = "queued"
            /\ b.mount = jobs[j].mount /\ b.card = jobs[j].card /\ b.op = jobs[j].op
            /\ b.typed = jobs[j].typed /\ b.asked = jobs[j].asked /\ b.args = jobs[j].args
            /\ b.late = jobs[j].late /\ b.ok = jobs[j].ok /\ b.phase = "working"
            /\ b.sent = TaskArgs(mounts[jobs[j].mount].cfg, jobs[j].typed.time)
<1> DEFINE a == jobs[j]
           sent == TaskArgs(mounts[a.mount].cfg, a.typed.time)
           b == [a EXCEPT !.phase = "working", !.sent = sent]
<1>1. a \in Jobs /\ a.phase = "queued" /\ mounts[a.mount].cfg \in Documents
  BY JobFields DEF WorkerReads
<1>2. sent \in Args
  <2>1. a.typed.time \in Times \cup {"none"}
    BY <1>1 DEF Jobs, Cards
  <2> QED BY <1>1, <2>1, TaskArgsType
<1>3. jobs' = [jobs EXCEPT ![j] = b]
  BY <1>1 DEF WorkerReads
<1> HIDE DEF sent
<1>4. b \in Jobs
  BY <1>1, <1>2 DEF Jobs
<1>5. /\ b.mount = a.mount /\ b.card = a.card /\ b.op = a.op
      /\ b.typed = a.typed /\ b.asked = a.asked /\ b.args = a.args
      /\ b.late = a.late /\ b.ok = a.ok /\ b.phase = "working" /\ b.sent = sent
  BY <1>1 DEF Jobs
<1> QED BY <1>1, <1>3, <1>4, <1>5 DEF sent

LEMMA ReplacedType ==
  ASSUME TypeOK, NEW j \in DOMAIN jobs
  PROVE  Replaced(j) \in Tasks
<1>1. jobs[j] \in Jobs
  BY JobFields
<1>2. jobs[j].sent \in Args /\ jobs[j].typed \in Cards
  BY <1>1 DEF Jobs
<1> QED BY <1>2 DEF Replaced, Tasks, Cards

\* What the job j leaves when it has its way.
Done(j) == IF jobs[j].op = "register" THEN Replaced(j) ELSE NoTask

\* The thread has an answer; out of the usual order Windows did something else.
LEMMA EndsDo ==
  ASSUME TypeOK, NEW j \in DOMAIN jobs, NEW way, NEW effect, NEW readable,
         WorkerEnds(j, way, effect, readable)
  PROVE  /\ task' \in {task, Done(j)}
         /\ races \subseteq races'
         /\ \E b \in Jobs :
               /\ jobs' = [jobs EXCEPT ![j] = b] /\ jobs[j].phase = "working"
               /\ b.mount = jobs[j].mount /\ b.card = jobs[j].card /\ b.op = jobs[j].op
               /\ b.typed = jobs[j].typed /\ b.asked = jobs[j].asked /\ b.args = jobs[j].args
               /\ b.sent = jobs[j].sent /\ b.phase = "done"
               /\ \/ {"late", "misread", "unconfirmed"} \cap races' # {}
                  \/ ~b.late /\ task' = IF b.ok THEN Done(j) ELSE task
<1> DEFINE a == jobs[j]
           new == Done(j)
           readback == Readback(task'.there, readable)
           ok == IF a.op = "register" /\ WillProvision(a.typed) THEN ProvisionSucceeded(way)
                 ELSE IF a.op = "register" THEN RegistrationSucceeded(way, readback)
                                           ELSE RemovalSucceeded(way, readback)
           late == effect = "late"
           b == [a EXCEPT !.phase = "done", !.ok = ok, !.late = late]
<1>1. a \in Jobs /\ a.phase = "working"
  BY JobFields DEF WorkerEnds
<1>2. ok \in BOOLEAN /\ late \in BOOLEAN
  BY DEF ProvisionSucceeded, RegistrationSucceeded, RemovalSucceeded
<1>3. /\ jobs' = [jobs EXCEPT ![j] = b]
      /\ task' = IF effect = "now" THEN new ELSE task
      /\ Race(IF late THEN {"late"}
              ELSE IF ok /\ task' # new THEN {"misread"}
              ELSE IF ~ok /\ task' # task THEN {"unconfirmed"} ELSE {})
  BY <1>1 DEF WorkerEnds, Done
<1> HIDE DEF ok, late, new
<1>4. b \in Jobs
  BY <1>1, <1>2 DEF Jobs
<1>5. /\ b.mount = a.mount /\ b.card = a.card /\ b.op = a.op
      /\ b.typed = a.typed /\ b.asked = a.asked /\ b.args = a.args
      /\ b.late = late /\ b.ok = ok /\ b.phase = "done" /\ b.sent = a.sent
  BY <1>1 DEF Jobs
<1>6. races' = races \cup (IF late THEN {"late"}
              ELSE IF ok /\ task' # new THEN {"misread"}
              ELSE IF ~ok /\ task' # task THEN {"unconfirmed"} ELSE {})
  BY <1>3 DEF Race
<1>7. {"late", "misread", "unconfirmed"} \cap races' # {}
        \/ (~late /\ task' = IF ok THEN new ELSE task)
  BY <1>2, <1>6
<1>8. task' \in {task, new} /\ races \subseteq races'
  BY <1>3, <1>6
<1> HIDE DEF b
<1> QED BY <1>1, <1>3, <1>4, <1>5, <1>7, <1>8 DEF new

\* An answer that says that all is well is of a job that was recorded, and
\* of settings that have not moved on: or it is one of the known exceptions.
Says(a, n, kept) ==
    /\ told' \in {"nothing", "left_out"}
    /\ told' = "nothing" =>
          /\ kept
          /\ \/ {"undercut", "backtracked", "unsaid"} \cap races' # {}
             \/ a.op = "register" => a.args = TaskArgs(n.cfg, a.typed.time)

\* The answer to the job j reaches the mount that asked, which it leaves as n.
AnsweredBy(j, n, b, kept) ==
    LET a == jobs[j]
        i == jobs[j].mount
    IN  /\ a.phase = "done" /\ i \in DOMAIN mounts
        /\ n \in Mounts /\ n.wizard = mounts[i].wizard
        /\ n.cfg = IF kept THEN Recorded(mounts[i].cfg, a) ELSE mounts[i].cfg
        /\ b \in Jobs /\ b.mount <= Len(mounts) /\ b.phase = "answered" /\ b.late = a.late
        /\ jobs' = [jobs EXCEPT ![j] = b]
        /\ live' \in {0, live}
        /\ mounts' = Remembered([mounts EXCEPT ![i] = n], live', jobs')
        /\ doc' = IF kept THEN n.cfg ELSE doc
        /\ task' = task
        /\ races \subseteq races'
        /\ kept => a.ok
        /\ a.ok /\ ~kept => "unconfirmed" \in races'
        /\ \/ Says(a, n, kept)
           \/ told' = told /\ ~(live = i /\ mounts[i].card = a.card)

LEMMA AnswerDoes ==
  ASSUME TypeOK, NEW j \in DOMAIN jobs, NEW handover, Answer(j, handover)
  PROVE  \E n, b : \E kept \in BOOLEAN : AnsweredBy(j, n, b, kept)
<1> DEFINE a == jobs[j]
           i == a.mount
           asking == mounts[i].card = a.card
           m == [mounts[i] EXCEPT !.busy = FALSE, !.flight = @ /\ ~asking]
           kept == a.ok /\ handover # "refused"
           cfg == Recorded(m.cfg, a)
           n == IF kept THEN [m EXCEPT !.cfg = cfg] ELSE m
           b == IF a.late THEN [a EXCEPT !.phase = "answered"] ELSE Answered
           moved == a.op = "register" /\ TaskArgsChanged(a.args, TaskArgs(cfg, a.typed.time))
           unsaid == kept /\ moved /\ handover # "none"
<1>1. /\ a \in Jobs /\ i <= Len(mounts) /\ a.phase = "done" /\ i \in DOMAIN mounts
      /\ mounts[i] \in Mounts /\ mounts[i].cfg \in Documents
  BY JobFields DEF Answer
<1>2. /\ m \in Mounts /\ m.cfg = mounts[i].cfg /\ m.wizard = mounts[i].wizard
  BY <1>1 DEF Mounts
<1>3. cfg \in Documents /\ cfg.delivery = m.cfg.delivery
  BY <1>1, <1>2, RecordedType
<1>4. kept \in BOOLEAN
  BY <1>1 DEF Jobs
<1>5. /\ jobs' = [jobs EXCEPT ![j] = b]
      /\ live' = IF handover \in {"done", "refused"} THEN 0 ELSE live
      /\ mounts' = Remembered([mounts EXCEPT ![i] = n], live', jobs')
      /\ doc' = IF kept THEN cfg ELSE doc
      /\ told' = IF ~(handover = "done" \/ (live = i /\ asking)) THEN told
                 ELSE IF kept /\ (moved => unsaid) THEN "nothing" ELSE "left_out"
      /\ Race(IF a.ok /\ ~kept THEN {"unconfirmed"}
              ELSE IF unsaid /\ Without({"undercut", "backtracked"}) THEN {"unsaid"} ELSE {})
      /\ task' = task
  BY DEF Answer
<1> HIDE DEF kept, cfg, m
<1>6. /\ n \in Mounts /\ n.wizard = mounts[i].wizard
      /\ n.cfg = IF kept THEN cfg ELSE mounts[i].cfg
  <2>1. CASE kept
    BY <1>2, <1>3, <2>1 DEF Mounts
  <2>2. CASE ~kept
    BY <1>2, <2>2
  <2> QED BY <2>1, <2>2
<1>7. b \in Jobs /\ b.mount <= Len(mounts) /\ b.phase = "answered" /\ b.late = a.late
  <2>1. CASE a.late
    BY <1>1, <2>1 DEF Jobs
  <2>2. CASE ~a.late
    <3>1. (CHOOSE t \in Typed : TRUE) \in Cards
      BY ATyped, TypedTypes
    <3>2. Answered \in Jobs
      BY <3>1, NoArgsType DEF Answered, Jobs
    <3>3. Answered.mount = 0 /\ Answered.phase = "answered" /\ Answered.late = FALSE
      BY DEF Answered
    <3>4. a.late = FALSE /\ Len(mounts) \in Nat
      BY <1>1, <2>2 DEF Jobs, TypeOK
    <3>5. b = Answered
      BY <2>2
    <3>6. Answered.mount <= Len(mounts)
      BY <3>3, <3>4
    <3> HIDE DEF b
    <3> QED BY <3>2, <3>3, <3>4, <3>5, <3>6
  <2> QED BY <2>1, <2>2
<1>8. kept => a.ok
  BY DEF kept
<1>9. races \subseteq races' /\ (a.ok /\ ~kept => "unconfirmed" \in races')
  BY <1>5 DEF Race
<1>10. kept /\ ~moved => (a.op = "register" => a.args = TaskArgs(n.cfg, a.typed.time))
  BY <1>6 DEF TaskArgsChanged
<1>11. cfg = Recorded(mounts[i].cfg, a)
  BY <1>2 DEF cfg
<1> HIDE DEF n, b, moved
<1>12. doc' = IF kept THEN n.cfg ELSE doc
  BY <1>5, <1>6
<1>13. live' \in {0, live}
  BY <1>5
<1>14. unsaid => {"undercut", "backtracked", "unsaid"} \cap races' # {}
  BY <1>5 DEF Race, Without
<1>15. Says(a, n, kept) \/ (told' = told /\ ~(live = i /\ mounts[i].card = a.card))
  <2>1. CASE handover = "done" \/ (live = i /\ asking)
    <3>1. told' = IF kept /\ (moved => unsaid) THEN "nothing" ELSE "left_out"
      BY <1>5, <2>1
    <3>2. told' = "nothing" => kept /\ (moved => unsaid)
      BY <3>1
    <3> QED BY <1>10, <1>14, <3>1, <3>2 DEF Says
  <2>2. CASE ~(handover = "done" \/ (live = i /\ asking))
    BY <1>5, <2>2
  <2> QED BY <2>1, <2>2
<1> HIDE DEF unsaid
<1>16. AnsweredBy(j, n, b, kept)
  BY <1>1, <1>5, <1>6, <1>7, <1>8, <1>9, <1>11, <1>12, <1>13, <1>15 DEF AnsweredBy
<1> QED BY <1>4, <1>16

\* A mount opens with the settings as they are, at a step of the wizard.
LEMMA OpenDoes ==
  ASSUME TypeOK, Open
  PROVE  \E n \in Mounts :
            /\ mounts' = Append(mounts, n) /\ live' = Len(mounts) + 1 /\ live = 0
            /\ n.cfg = doc /\ n.wizard = ~doc.completed
            /\ UNCHANGED <<doc, task, jobs, told, races>>
<1> DEFINE fresh == Mount(doc, IF doc.delivery THEN "stored" ELSE "none")
           step == ResumeStep(Inputs(fresh))
           district == IF fresh.district = "none" THEN AutoSelectedDistrict(Districts)
                       ELSE fresh.district
           n == [fresh EXCEPT !.step = step, !.district = district]
<1>1. doc \in Documents
  BY DEF TypeOK
<1>2. fresh \in Mounts
  BY <1>1, MountType
<1>3. /\ fresh.cfg = doc /\ fresh.wizard = ~doc.completed /\ fresh.dialog.kind = "none"
  BY NoDialogType DEF Mount
<1>4. /\ mounts' = Append(mounts, n) /\ live' = Len(mounts) + 1 /\ live = 0
      /\ UNCHANGED <<doc, task, jobs, told, races>>
  BY <1>2 DEF Open, Mounts
<1>5. step \in Steps \ {"files"} /\ district \in Districts \cup {"none"}
  <2> HIDE DEF fresh
  <2> QED BY <1>2, ResumeStepType, AutoSelectedType DEF Mounts
<1> HIDE DEF fresh, step, district
<1>6. n \in Mounts /\ n.cfg = doc /\ n.wizard = ~doc.completed
  BY <1>2, <1>3, <1>5 DEF Mounts
<1> QED BY <1>4, <1>6

LEMMA TypeInit == Init => TypeOK
<1>1. SUFFICES ASSUME Init PROVE TypeOK
  OBVIOUS
<1>2. doc \in Documents
  BY <1>1, StartsAssumption DEF Init
<1>3. task \in Tasks
  <2>1. CASE doc.registered
    <3>1. task = [there |-> TRUE, args |-> doc.args, account |-> doc.account,
                  kind |-> doc.kind, wake |-> doc.wake]
      BY <1>1, <2>1 DEF Init
    <3>2. /\ doc.args \in Args /\ doc.account \in Accounts /\ doc.kind \in Kinds
          /\ doc.wake \in BOOLEAN
      BY <1>2 DEF Documents
    <3> QED BY <3>1, <3>2 DEF Tasks
  <2>2. CASE ~doc.registered
    BY <1>1, <2>2, NoTaskType DEF Init
  <2> QED BY <2>1, <2>2
<1>4. mounts = <<>> /\ jobs = <<>> /\ live = 0 /\ told \in {"nothing", "left_out"}
  BY <1>1 DEF Init
<1> QED BY <1>2, <1>3, <1>4 DEF TypeOK

LEMMA TypeStep == TypeOK /\ [Next]_vars => TypeOK'
<1>1. SUFFICES ASSUME TypeOK, [Next]_vars PROVE TypeOK'
  OBVIOUS
<1>2. /\ doc \in Documents /\ task \in Tasks /\ mounts \in Seq(Mounts)
      /\ live \in 0 .. Len(mounts) /\ jobs \in Seq(Jobs)
      /\ \A j \in DOMAIN jobs : jobs[j].mount <= Len(mounts)
      /\ told \in {"nothing", "left_out", "saved", "updating"}
      /\ Len(mounts) \in Nat
  BY <1>1 DEF TypeOK
<1>3. ASSUME NEW n, EditedTo(n) PROVE TypeOK'
  <2>1. /\ n \in Mounts /\ live # 0 /\ mounts' = [mounts EXCEPT ![live] = n]
        /\ doc' = n.cfg \/ doc' = doc
        /\ task' = task /\ live' = live /\ jobs' = jobs
        /\ told' = told \/ told' = "left_out"
    BY <1>3 DEF EditedTo
  <2>2. n.cfg \in Documents
    BY <2>1 DEF Mounts
  <2>3. mounts' \in Seq(Mounts) /\ Len(mounts') = Len(mounts)
    BY <1>1, <2>1, LiveMount, MountPut
  <2> QED BY <1>2, <2>1, <2>2, <2>3 DEF TypeOK
<1>4. ASSUME NEW n, SavedAs(n) PROVE TypeOK'
  <2>1. /\ n \in Mounts /\ live # 0 /\ mounts' = [mounts EXCEPT ![live] = n]
        /\ doc' = n.cfg /\ task' = task /\ live' = live /\ jobs' = jobs
        /\ told' = "saved" \/ told' = "left_out"
    BY <1>4 DEF SavedAs
  <2>2. n.cfg \in Documents
    BY <2>1 DEF Mounts
  <2>3. mounts' \in Seq(Mounts) /\ Len(mounts') = Len(mounts)
    BY <1>1, <2>1, LiveMount, MountPut
  <2> QED BY <1>2, <2>1, <2>2, <2>3 DEF TypeOK
<1>5. ASSUME NEW n, NEW b, StartedBy(n, b) PROVE TypeOK'
  <2>1. /\ n \in Mounts /\ live # 0 /\ mounts' = [mounts EXCEPT ![live] = n]
        /\ doc' = n.cfg \/ doc' = doc
        /\ task' = task /\ live' = live
        /\ b \in Jobs /\ b.mount = live /\ jobs' = Append(jobs, b)
        /\ told' = told \/ told' = "updating"
    BY <1>5 DEF StartedBy
  <2>2. n.cfg \in Documents
    BY <2>1 DEF Mounts
  <2>3. mounts' \in Seq(Mounts) /\ Len(mounts') = Len(mounts)
    BY <1>1, <2>1, LiveMount, MountPut
  <2>4. /\ jobs' \in Seq(Jobs)
        /\ \A j \in DOMAIN jobs' : (j \in DOMAIN jobs /\ jobs'[j] = jobs[j]) \/ jobs'[j] = b
    BY <1>2, <2>1
  <2>5. \A j \in DOMAIN jobs' : jobs'[j].mount <= Len(mounts')
    BY <1>2, <2>1, <2>3, <2>4
  <2> QED BY <1>2, <2>1, <2>2, <2>3, <2>4, <2>5 DEF TypeOK
<1>6. CASE Open
  <2>1. PICK n \in Mounts :
            /\ mounts' = Append(mounts, n) /\ live' = Len(mounts) + 1
            /\ UNCHANGED <<doc, task, jobs, told>>
    BY <1>1, <1>6, OpenDoes
  <2>2. mounts' \in Seq(Mounts) /\ Len(mounts') = Len(mounts) + 1
    BY <1>2, <2>1
  <2>3. \A j \in DOMAIN jobs : jobs[j].mount \in Nat
    BY <1>2 DEF Jobs
  <2>4. \A j \in DOMAIN jobs' : jobs'[j].mount <= Len(mounts')
    BY <1>2, <2>1, <2>2, <2>3
  <2>5. live' \in 0 .. Len(mounts')
    BY <1>2, <2>1, <2>2
  <2> QED BY <1>2, <2>1, <2>2, <2>4, <2>5 DEF TypeOK
<1>7. CASE Leave
  <2>1. live' = 0 /\ mounts' = Remembered(mounts, 0, jobs) /\ UNCHANGED <<doc, task, jobs, told>>
    BY <1>7 DEF Leave
  <2>2. mounts' \in Seq(Mounts) /\ Len(mounts') = Len(mounts)
    BY <1>2, <2>1, RememberedType
  <2> QED BY <1>2, <2>1, <2>2 DEF TypeOK
<1>8. ASSUME NEW district \in Districts, MappingApply(district) PROVE TypeOK'
  <2>1. doc' = [doc EXCEPT !.district = district] /\ UNCHANGED <<task, mounts, live, jobs>>
        /\ told' \in {told, "left_out"}
    BY <1>8 DEF MappingApply
  <2>2. doc' \in Documents
    BY <1>2, <2>1, DocumentEdits
  <2> QED BY <1>2, <2>1, <2>2 DEF TypeOK
<1>9. ASSUME NEW yes \in BOOLEAN, Finish(yes) PROVE TypeOK'
  <2>1. UNCHANGED <<task, jobs, told>> /\ live # 0
    BY <1>9 DEF Finish, InWizard, Here
  <2>2. CASE yes
    <3> DEFINE e == [Here1.cfg EXCEPT !.completed = TRUE]
               n == [Here1 EXCEPT !.cfg.completed = TRUE]
               ms == [mounts EXCEPT ![live] = n]
    <3>1. Here1 \in Mounts /\ Here1.cfg \in Documents /\ live \in DOMAIN mounts
      BY <1>1, <2>1, LiveMount
    <3>2. e \in Documents /\ SameRecord(Here1.cfg, e)
      BY <3>1, DocumentEdits
    <3>3. n = [Here1 EXCEPT !.cfg = e]
      BY <3>1 DEF Mounts
    <3>4. doc' = n.cfg /\ mounts' = Remembered(ms, 0, jobs) /\ live' = 0
      BY <1>9, <2>2 DEF Finish, Here1
    <3> HIDE DEF e, n
    <3>5. n \in Mounts /\ n.cfg = e
      BY <3>1, <3>2, <3>3, CfgEdits
    <3>6. ms \in Seq(Mounts) /\ Len(ms) = Len(mounts)
      BY <1>1, <3>1, <3>5, MountPut
    <3> HIDE DEF ms
    <3>7. mounts' \in Seq(Mounts) /\ Len(mounts') = Len(mounts)
      BY <3>4, <3>6, RememberedType
    <3> QED BY <1>2, <2>1, <3>2, <3>4, <3>5, <3>7 DEF TypeOK
  <2>3. CASE ~yes
    <3>1. yes = FALSE
      BY <1>9, <2>3
    <3>2. UNCHANGED <<doc, mounts, live>>
      BY <1>9, <3>1 DEF Finish
    <3> QED BY <1>2, <2>1, <3>2 DEF TypeOK
  <2> QED BY <2>2, <2>3
<1>10. ASSUME NEW j \in DOMAIN jobs, WorkerReads(j) PROVE TypeOK'
  <2>1. PICK b \in Jobs : jobs' = [jobs EXCEPT ![j] = b] /\ b.mount = jobs[j].mount
    BY <1>1, <1>10, ReadsDo
  <2>2. jobs' \in Seq(Jobs) /\ \A k \in DOMAIN jobs' : jobs'[k].mount <= Len(mounts)
    BY <1>1, <1>2, <2>1, JobPut
  <2>3. UNCHANGED <<doc, task, mounts, live, told>>
    BY <1>10 DEF WorkerReads
  <2> QED BY <1>2, <2>2, <2>3 DEF TypeOK
<1>11. ASSUME NEW j \in DOMAIN jobs, NEW way, NEW effect, NEW readable,
              WorkerEnds(j, way, effect, readable)
       PROVE  TypeOK'
  <2>1. task' \in {task, Done(j)}
    BY <1>1, <1>11, EndsDo
  <2>2. Done(j) \in Tasks
    BY <1>1, NoTaskType, ReplacedType DEF Done
  <2>3. PICK b \in Jobs : jobs' = [jobs EXCEPT ![j] = b] /\ b.mount = jobs[j].mount
    BY <1>1, <1>11, EndsDo
  <2>4. jobs' \in Seq(Jobs) /\ \A k \in DOMAIN jobs' : jobs'[k].mount <= Len(mounts)
    BY <1>1, <1>2, <2>3, JobPut
  <2>5. UNCHANGED <<doc, mounts, live, told>>
    BY <1>11 DEF WorkerEnds
  <2> QED BY <1>2, <2>1, <2>2, <2>4, <2>5 DEF TypeOK
<1>12. ASSUME NEW j \in DOMAIN jobs, LateEffect(j) PROVE TypeOK'
  <2> DEFINE b == [jobs[j] EXCEPT !.late = FALSE]
  <2>1. task' \in {Replaced(j), NoTask} /\ jobs' = [jobs EXCEPT ![j] = b]
        /\ UNCHANGED <<doc, mounts, live, told>>
    BY <1>12 DEF LateEffect
  <2>2. b \in Jobs /\ b.mount <= Len(mounts)
    <3>1. jobs[j] \in Jobs /\ jobs[j].mount <= Len(mounts)
      BY <1>1, JobFields
    <3> QED BY <3>1 DEF Jobs
  <2> HIDE DEF b
  <2>3. jobs' \in Seq(Jobs) /\ \A k \in DOMAIN jobs' : jobs'[k].mount <= Len(mounts)
    BY <1>1, <2>1, <2>2, JobPut
  <2>4. task' \in Tasks
    BY <1>1, <2>1, NoTaskType, ReplacedType
  <2> QED BY <1>2, <2>1, <2>3, <2>4 DEF TypeOK
<1>13. ASSUME NEW j \in DOMAIN jobs, NEW handover, Answer(j, handover) PROVE TypeOK'
  <2>1. PICK n, b : \E kept \in BOOLEAN : AnsweredBy(j, n, b, kept)
    BY <1>1, <1>13, AnswerDoes
  <2>2. PICK kept \in BOOLEAN : AnsweredBy(j, n, b, kept)
    BY <2>1
  <2> DEFINE i == jobs[j].mount
             ms == [mounts EXCEPT ![i] = n]
  <2>3. /\ i \in DOMAIN mounts /\ n \in Mounts /\ b \in Jobs /\ b.mount <= Len(mounts)
        /\ jobs' = [jobs EXCEPT ![j] = b] /\ live' \in {0, live}
        /\ mounts' = Remembered(ms, live', jobs')
        /\ doc' \in {n.cfg, doc} /\ task' = task
        /\ told' \in {told, "nothing", "left_out"}
    BY <2>2 DEF AnsweredBy, Says
  <2>4. jobs' \in Seq(Jobs) /\ \A k \in DOMAIN jobs' : jobs'[k].mount <= Len(mounts)
    BY <1>1, <2>3, JobPut
  <2>5. ms \in Seq(Mounts) /\ Len(ms) = Len(mounts)
    BY <1>1, <2>3, MountPut
  <2>6. n.cfg \in Documents
    BY <2>3 DEF Mounts
  <2> HIDE DEF ms, i
  <2>7. mounts' \in Seq(Mounts) /\ Len(mounts') = Len(mounts)
    BY <2>3, <2>5, RememberedType
  <2>8. doc' \in Documents /\ told' \in {"nothing", "left_out", "saved", "updating"}
    BY <1>2, <2>3, <2>6
  <2>9. live' \in 0 .. Len(mounts') /\ task' \in Tasks
    BY <1>2, <2>3, <2>7
  <2>10. \A k \in DOMAIN jobs' : jobs'[k].mount <= Len(mounts')
    BY <2>4, <2>7
  <2> QED BY <2>4, <2>7, <2>8, <2>9, <2>10 DEF TypeOK
<1>14. CASE UNCHANGED vars
  BY <1>2, <1>14 DEF vars, TypeOK
<1> QED BY <1>1, <1>3, <1>4, <1>5, <1>6, <1>7, <1>8, <1>9, <1>10, <1>11, <1>12, <1>13, <1>14,
           StepKinds

\* What the variables range over, whatever the settings found at the start
\* and however long the screen is used.
THEOREM SetupTypes == Spec => []TypeOK
<1>1. Init => TypeOK
  BY TypeInit
<1>2. TypeOK /\ [Next]_vars => TypeOK'
  BY TypeStep
<1> QED BY <1>1, <1>2, PTL DEF Spec

-----------------------------------------------------------------------------
(* The record and the task                                                  *)

LEMMA RacesGrow ==
  ASSUME races \subseteq races'
  PROVE  (Calm' => Calm) /\ (Straight' => Straight) /\ (Forthright' => Forthright)
BY DEF Calm, Straight, Forthright, Without

\* Nothing is under way where the screen lets something else begin.
LEMMA Idle ==
  ASSUME TypeOK, CalmInv,
         \/ live = 0
         \/ ~InFlight(live)
         \/ ~Here1.wizard /\ ~Here1.flight
         \/ Here1.wizard /\ Here1.step = "finish"
  PROVE  Flights = {} /\ Kin
<1>1. ASSUME NEW j \in Flights PROVE FALSE
  <2>1. Flying(j)
    BY <1>1 DEF CalmInv
  <2>2. InFlight(live)
    BY <1>1, <2>1 DEF Flying, Flights, InFlight, Awaited
  <2> QED BY <2>1, <2>2 DEF Flying
<1>2. Flights = {}
  BY <1>1
<1> QED BY <1>2 DEF CalmInv

LEMMA SameFlights ==
  ASSUME jobs' = jobs
  PROVE  Flights' = Flights
BY DEF Flights

LEMMA FlightPut ==
  ASSUME TypeOK, NEW j \in DOMAIN jobs, NEW b \in Jobs, b.mount <= Len(mounts),
         jobs' = [jobs EXCEPT ![j] = b], jobs[j].phase # "answered"
  PROVE  /\ j \in Flights /\ jobs'[j] = b
         /\ \A k \in DOMAIN jobs : k # j => jobs'[k] = jobs[k]
         /\ DOMAIN jobs' = DOMAIN jobs
         /\ Flights' = IF b.phase = "answered" THEN Flights \ {j} ELSE Flights
BY JobPut DEF Flights

LEMMA FlightAdded ==
  ASSUME TypeOK, NEW b \in Jobs, jobs' = Append(jobs, b), b.phase = "queued", Flights = {}
  PROVE  /\ Flights' = {Len(jobs) + 1} /\ jobs'[Len(jobs) + 1] = b
         /\ DOMAIN jobs' = DOMAIN jobs \cup {Len(jobs) + 1}
         /\ \A k \in DOMAIN jobs : jobs'[k] = jobs[k]
<1>1. jobs \in Seq(Jobs)
  BY DEF TypeOK
<1>2. /\ jobs'[Len(jobs) + 1] = b
      /\ DOMAIN jobs' = DOMAIN jobs \cup {Len(jobs) + 1}
      /\ \A k \in DOMAIN jobs : jobs'[k] = jobs[k]
  BY <1>1
<1> QED BY <1>2 DEF Flights

LEMMA KinKept ==
  ASSUME Kin, SameRecord(doc, doc'), task' = task
  PROVE  Kin'
BY DEF Kin, SameRecord

LEMMA CalmInit == Init => CalmInv
<1>1. SUFFICES ASSUME Init PROVE CalmInv
  OBVIOUS
<1>2. live = 0 /\ jobs = <<>>
  BY <1>1 DEF Init
<1>3. Flights = {}
  BY <1>2 DEF Flights
<1>4. Kin
  <2>1. doc.registered \in BOOLEAN
    BY <1>1, StartsAssumption DEF Init, Documents
  <2>2. CASE doc.registered
    <3>1. task.there /\ task.kind = doc.kind
      BY <1>1, <2>2 DEF Init
    <3>2. task.there = TRUE
      BY <1>1, <2>2 DEF Init
    <3> QED BY <2>1, <2>2, <3>1, <3>2 DEF Kin
  <2>3. CASE ~doc.registered
    <3>1. task.there = FALSE
      BY <1>1, <2>3 DEF Init, NoTask
    <3> QED BY <2>1, <2>3, <3>1 DEF Kin
  <2> QED BY <2>2, <2>3
<1> QED BY <1>2, <1>3, <1>4 DEF CalmInv

LEMMA CalmStep ==
  ASSUME TypeOK, TypeOK', Calm => CalmInv, [Next]_vars, Calm'
  PROVE  Calm /\ CalmInv /\ CalmInv'
<1> DEFINE Goal == Calm /\ CalmInv /\ CalmInv'
<1>1. ASSUME NEW n, EditedTo(n) PROVE Goal
  <2>1. /\ live # 0 /\ n \in Mounts /\ Edit(Here1, n)
        /\ mounts' = [mounts EXCEPT ![live] = n]
        /\ doc' = n.cfg \/ (doc' = doc /\ n.cfg = Here1.cfg)
        /\ task' = task /\ live' = live /\ jobs' = jobs
        /\ races \subseteq races'
    BY <1>1 DEF EditedTo
  <2>2. Calm /\ CalmInv
    BY <2>1, RacesGrow
  <2>3. Here1' = n
    BY <2>1, LiveMount, MountPut DEF Here1
  <2>4. Here1.cfg = doc
    BY <2>1, <2>2 DEF CalmInv
  <2>5. Here1'.cfg = doc' /\ SameRecord(doc, doc')
    BY <2>1, <2>3, <2>4 DEF Edit
  <2>6. ASSUME NEW j \in Flights PROVE Flying(j)'
    <3>1. Flying(j)
      BY <2>2 DEF CalmInv
    <3> QED BY <2>1, <2>3, <3>1, SameFlights DEF Flying, Edit
  <2>7. Kin => Kin'
    BY <2>1, <2>5, KinKept
  <2> QED BY <2>1, <2>2, <2>5, <2>6, <2>7, SameFlights DEF CalmInv, Asks, Succeeded, Landed
<1>2. ASSUME NEW n, SavedAs(n) PROVE Goal
  <2>1. /\ live # 0 /\ n \in Mounts /\ SameRecord(Here1.cfg, n.cfg)
        /\ ~n.wizard /\ ~Here1.wizard /\ n.card = Here1.card /\ n.flight = Here1.flight
        /\ mounts' = [mounts EXCEPT ![live] = n] /\ doc' = n.cfg
        /\ task' = task /\ live' = live /\ jobs' = jobs
        /\ races \subseteq races'
    BY <1>2 DEF SavedAs
  <2>2. Calm /\ CalmInv
    BY <2>1, RacesGrow
  <2>3. Here1' = n
    BY <2>1, LiveMount, MountPut DEF Here1
  <2>4. Here1.cfg = doc
    BY <2>1, <2>2 DEF CalmInv
  <2>5. Here1'.cfg = doc' /\ SameRecord(doc, doc')
    BY <2>1, <2>3, <2>4
  <2>6. ASSUME NEW j \in Flights PROVE Flying(j)'
    <3>1. Flying(j)
      BY <2>2 DEF CalmInv
    <3> QED BY <2>1, <2>3, <3>1, SameFlights DEF Flying
  <2>7. Kin => Kin'
    BY <2>1, <2>5, KinKept
  <2> QED BY <2>1, <2>2, <2>5, <2>6, <2>7, SameFlights DEF CalmInv, Asks, Succeeded, Landed
<1>3. ASSUME NEW n, NEW b, StartedBy(n, b) PROVE Goal
  <2>1. /\ live # 0 /\ n \in Mounts /\ b \in Jobs
        /\ n.wizard = Here1.wizard /\ SameRecord(Here1.cfg, n.cfg)
        /\ n.busy /\ n.flight /\ n.card = b.card
        /\ n.wizard => n.step # "finish"
        /\ b.mount = live /\ b.phase = "queued" /\ ~b.late
        /\ b.op = "register" /\ b.asked = "save" /\ b.typed.kind = "token" =>
              n.cfg.registered /\ n.cfg.args # NoArgs /\ ~Unattended(n.cfg.kind)
        /\ mounts' = [mounts EXCEPT ![live] = n] /\ jobs' = Append(jobs, b)
        /\ task' = task /\ live' = live
        /\ races \subseteq races'
        /\ \/ n.cfg = Here1.cfg /\ doc' = doc /\ (InFlight(live) => "resubmitted" \in races')
           \/ ~n.wizard /\ ~Here1.flight /\ doc' = n.cfg
    BY <1>3 DEF StartedBy
  <2>2. Calm /\ CalmInv
    BY <2>1, RacesGrow
  <2>3. Here1' = n
    BY <2>1, LiveMount, MountPut DEF Here1
  <2>4. Here1.cfg = doc
    BY <2>1, <2>2 DEF CalmInv
  <2>5. Here1'.cfg = doc' /\ SameRecord(doc, doc')
    BY <2>1, <2>3, <2>4
  <2>6. "resubmitted" \notin races'
    BY DEF Calm, Without
  <2>7. Flights = {} /\ Kin
    BY <2>1, <2>2, <2>6, Idle
  <2>7a. PICK j : j = Len(jobs) + 1
    OBVIOUS
  <2>8. /\ Flights' = {j} /\ jobs'[j] = b /\ DOMAIN jobs' = DOMAIN jobs \cup {j}
        /\ \A k \in DOMAIN jobs : jobs'[k] = jobs[k]
    BY <2>1, <2>7, <2>7a, FlightAdded
  <2>9. Kin'
    BY <2>1, <2>5, <2>7, KinKept
  <2>10. Flying(j)'
    BY <2>1, <2>3, <2>8 DEF Flying
  <2>11. Asks(j)'
    <3>1. SUFFICES ASSUME b.op = "register", b.asked = "save", b.typed.kind = "token"
                   PROVE  ~(task.there /\ Unattended(task.kind))
      BY <2>1, <2>8 DEF Asks
    <3>2. doc.registered /\ doc.args # NoArgs /\ ~Unattended(doc.kind)
      BY <2>1, <2>4, <3>1 DEF SameRecord
    <3> QED BY <2>7, <3>2 DEF Kin
  <2>12. ~Succeeded(j)'
    BY <2>1, <2>8 DEF Succeeded
  <2>13. \A k \in DOMAIN jobs' : ~jobs'[k].late
    BY <2>1, <2>2, <2>8 DEF CalmInv
  <2> QED BY <2>2, <2>5, <2>8, <2>9, <2>10, <2>11, <2>12, <2>13 DEF CalmInv
<1>4. CASE Open
  <2>1. PICK n \in Mounts :
            /\ mounts' = Append(mounts, n) /\ live' = Len(mounts) + 1 /\ live = 0
            /\ n.cfg = doc /\ UNCHANGED <<doc, task, jobs, races>>
    BY <1>4, OpenDoes
  <2>2. Calm /\ CalmInv
    BY <2>1, RacesGrow
  <2>3. Flights = {} /\ Kin
    BY <2>1, <2>2, Idle
  <2>4. Here1' = n
    BY <2>1 DEF Here1, TypeOK
  <2>5. Kin'
    BY <2>1, <2>3 DEF Kin
  <2> QED BY <2>1, <2>2, <2>3, <2>4, <2>5, SameFlights DEF CalmInv
<1>5. CASE Leave
  <2>1. /\ live' = 0 /\ UNCHANGED <<doc, task, jobs>>
        /\ Race(IF InFlight(live) THEN {"left"} ELSE {})
    BY <1>5 DEF Leave
  <2>2. "left" \notin races'
    BY DEF Calm, Without
  <2>3. ~InFlight(live) /\ races \subseteq races'
    BY <2>1, <2>2 DEF Race
  <2>4. Calm /\ CalmInv
    BY <2>3, RacesGrow
  <2>5. Flights = {} /\ Kin
    BY <2>3, <2>4, Idle
  <2>6. Kin'
    BY <2>1, <2>5 DEF Kin
  <2> QED BY <2>1, <2>4, <2>5, <2>6, SameFlights DEF CalmInv
<1>6. ASSUME NEW district \in Districts, MappingApply(district) PROVE Goal
  <2>1. /\ live = 0 /\ UNCHANGED <<task, mounts, live, jobs, races>>
        /\ doc' = [doc EXCEPT !.district = district]
    BY <1>6 DEF MappingApply
  <2>2. Calm /\ CalmInv
    BY <2>1, RacesGrow
  <2>3. Flights = {} /\ Kin
    BY <2>1, <2>2, Idle
  <2>4. SameRecord(doc, doc')
    BY <2>1, DocumentEdits DEF TypeOK
  <2>5. Kin'
    BY <2>1, <2>3, <2>4, KinKept
  <2> QED BY <2>1, <2>2, <2>3, <2>5, SameFlights DEF CalmInv
<1>7. ASSUME NEW yes \in BOOLEAN, Finish(yes) PROVE Goal
  <2>1. /\ live # 0 /\ Here1.wizard /\ Here1.step = "finish"
        /\ UNCHANGED <<task, jobs, told, races>>
    BY <1>7 DEF Finish, InWizard, Here, Here1
  <2>2. Calm /\ CalmInv
    BY <2>1, RacesGrow
  <2>3. Flights = {} /\ Kin
    BY <2>1, <2>2, Idle
  <2>4. CASE yes
    <3>1. doc' = [Here1.cfg EXCEPT !.completed = TRUE] /\ live' = 0
      BY <1>7, <2>1, <2>4, LiveMount DEF Finish, Here1, Mounts
    <3>2. Here1.cfg = doc /\ doc \in Documents
      BY <2>1, <2>2 DEF CalmInv, TypeOK
    <3>3. SameRecord(doc, doc')
      BY <3>1, <3>2, DocumentEdits
    <3>4. Kin'
      BY <2>1, <2>3, <3>3, KinKept
    <3> QED BY <2>1, <2>2, <2>3, <3>1, <3>4, SameFlights DEF CalmInv
  <2>5. CASE ~yes
    <3>1. yes = FALSE
      BY <1>7, <2>5
    <3>2. UNCHANGED <<doc, mounts, live>>
      BY <1>7, <3>1 DEF Finish
    <3>3. Kin' /\ Here1' = Here1
      BY <2>1, <2>3, <3>2 DEF Kin, Here1
    <3> QED BY <2>1, <2>2, <2>3, <3>2, <3>3, SameFlights DEF CalmInv
  <2> QED BY <2>4, <2>5
<1>8. ASSUME NEW j \in DOMAIN jobs, WorkerReads(j) PROVE Goal
  <2>1. PICK b \in Jobs :
            /\ jobs' = [jobs EXCEPT ![j] = b] /\ jobs[j].phase = "queued"
            /\ b.mount = jobs[j].mount /\ b.card = jobs[j].card /\ b.op = jobs[j].op
            /\ b.typed = jobs[j].typed /\ b.asked = jobs[j].asked
            /\ b.late = jobs[j].late /\ b.ok = jobs[j].ok /\ b.phase = "working"
    BY <1>8, ReadsDo
  <2>2. UNCHANGED <<doc, task, mounts, live, told, races>>
    BY <1>8 DEF WorkerReads
  <2>3. Calm /\ CalmInv
    BY <2>2, RacesGrow
  <2>4. /\ j \in Flights /\ jobs'[j] = b /\ Flights' = Flights /\ DOMAIN jobs' = DOMAIN jobs
        /\ \A k \in DOMAIN jobs : k # j => jobs'[k] = jobs[k]
    <3>1. b.mount <= Len(mounts)
      BY <2>1, JobFields
    <3> QED BY <2>1, <3>1, FlightPut
  <2>5. Flying(j) /\ Asks(j) /\ ~Succeeded(j)
    BY <2>1, <2>3, <2>4 DEF CalmInv, Succeeded
  <2>6. Flights = {j} /\ Kin
    BY <2>3, <2>4, <2>5 DEF CalmInv, Flying
  <2>7. Flying(j)' /\ Asks(j)' /\ ~Succeeded(j)'
    BY <2>1, <2>2, <2>4, <2>5 DEF Flying, Asks, Succeeded, Here1
  <2>8. Kin' /\ Here1' = Here1
    BY <2>2, <2>6 DEF Kin, Here1
  <2>9. \A k \in DOMAIN jobs' : ~jobs'[k].late
    BY <2>1, <2>3, <2>4 DEF CalmInv
  <2> QED BY <2>2, <2>3, <2>4, <2>6, <2>7, <2>8, <2>9 DEF CalmInv
<1>9. ASSUME NEW j \in DOMAIN jobs, NEW way, NEW effect, NEW readable,
             WorkerEnds(j, way, effect, readable)
      PROVE  Goal
  <2>1. races \subseteq races' /\ UNCHANGED <<doc, mounts, live, told>>
    BY <1>9, EndsDo DEF WorkerEnds
  <2>2. {"late", "misread", "unconfirmed"} \cap races' = {}
    BY DEF Calm, Without
  <2>3. PICK b \in Jobs :
            /\ jobs' = [jobs EXCEPT ![j] = b] /\ jobs[j].phase = "working"
            /\ b.mount = jobs[j].mount /\ b.card = jobs[j].card /\ b.op = jobs[j].op
            /\ b.typed = jobs[j].typed /\ b.phase = "done"
            /\ ~b.late /\ task' = IF b.ok THEN Done(j) ELSE task
    BY <1>9, <2>2, EndsDo
  <2>4. Calm /\ CalmInv
    BY <2>1, RacesGrow
  <2>5. /\ j \in Flights /\ jobs'[j] = b /\ Flights' = Flights /\ DOMAIN jobs' = DOMAIN jobs
        /\ \A k \in DOMAIN jobs : k # j => jobs'[k] = jobs[k]
    <3>1. b.mount <= Len(mounts)
      BY <2>3, JobFields
    <3> QED BY <2>3, <3>1, FlightPut
  <2>6. Flying(j) /\ ~Succeeded(j)
    BY <2>3, <2>4, <2>5 DEF CalmInv, Succeeded
  <2>7. Flights = {j} /\ Kin
    BY <2>4, <2>5, <2>6 DEF CalmInv, Flying
  <2>8. Flying(j)' /\ Asks(j)'
    BY <2>1, <2>3, <2>5, <2>6 DEF Flying, Asks, Here1
  <2>9. IF Succeeded(j)' THEN Landed(j)' ELSE Kin'
    <3>1. CASE b.ok
      <4>1. Succeeded(j)' /\ task' = Done(j)
        BY <2>3, <2>5, <3>1 DEF Succeeded
      <4>2. Landed(j)'
        BY <2>3, <2>5, <4>1 DEF Landed, Done, Replaced
      <4> QED BY <4>1, <4>2
    <3>2. CASE ~b.ok
      <4>1. ~Succeeded(j)' /\ task' = task
        BY <2>3, <2>5, <3>2 DEF Succeeded
      <4>2. Kin'
        BY <2>1, <2>7, <4>1 DEF Kin
      <4> QED BY <4>1, <4>2
    <3> QED BY <3>1, <3>2
  <2>10. Here1' = Here1 /\ \A k \in DOMAIN jobs' : ~jobs'[k].late
    BY <2>1, <2>3, <2>4, <2>5 DEF CalmInv, Here1
  <2> QED BY <2>1, <2>4, <2>5, <2>7, <2>8, <2>9, <2>10 DEF CalmInv
<1>10. ASSUME NEW j \in DOMAIN jobs, LateEffect(j) PROVE Goal
  <2>1. jobs[j].late /\ races' = races
    BY <1>10 DEF LateEffect
  <2>2. CalmInv
    BY <2>1, RacesGrow
  <2> QED BY <2>1, <2>2 DEF CalmInv
<1>11. ASSUME NEW j \in DOMAIN jobs, NEW handover, Answer(j, handover) PROVE Goal
  <2>1. PICK n, b : \E kept \in BOOLEAN : AnsweredBy(j, n, b, kept)
    BY <1>11, AnswerDoes
  <2>2. PICK kept \in BOOLEAN : AnsweredBy(j, n, b, kept)
    BY <2>1
  <2> DEFINE a == jobs[j]
             i == jobs[j].mount
             ms == [mounts EXCEPT ![i] = n]
  <2>3. /\ a.phase = "done" /\ i \in DOMAIN mounts /\ n \in Mounts
        /\ n.cfg = IF kept THEN Recorded(mounts[i].cfg, a) ELSE mounts[i].cfg
        /\ b \in Jobs /\ b.mount <= Len(mounts) /\ b.phase = "answered" /\ b.late = a.late
        /\ jobs' = [jobs EXCEPT ![j] = b]
        /\ live' \in {0, live}
        /\ mounts' = Remembered(ms, live', jobs')
        /\ doc' = IF kept THEN n.cfg ELSE doc
        /\ task' = task
        /\ races \subseteq races'
        /\ kept => a.ok
        /\ a.ok /\ ~kept => "unconfirmed" \in races'
    BY <2>2 DEF AnsweredBy
  <2>4. Calm /\ CalmInv
    BY <2>3, RacesGrow
  <2>5. /\ j \in Flights /\ jobs'[j] = b /\ Flights' = Flights \ {j}
        /\ DOMAIN jobs' = DOMAIN jobs
        /\ \A k \in DOMAIN jobs : k # j => jobs'[k] = jobs[k]
    BY <2>3, FlightPut
  <2>6. Flying(j) /\ IF Succeeded(j) THEN Landed(j) ELSE Kin
    BY <2>4, <2>5 DEF CalmInv
  <2>7. Flights' = {} /\ live # 0 /\ i = live /\ mounts[i].cfg = doc /\ doc \in Documents
    BY <2>4, <2>5, <2>6 DEF CalmInv, Flying, Here1, TypeOK
  <2>8. kept <=> a.ok
    <3>1. "unconfirmed" \notin races'
      BY DEF Calm, Without
    <3> QED BY <2>3, <3>1
  <2>9. live' # 0 => Here1'.cfg = doc'
    <3>1. SUFFICES ASSUME live' # 0 PROVE Here1'.cfg = doc'
      OBVIOUS
    <3>2. live' = i /\ i \in DOMAIN mounts
      BY <2>3, <2>7, <3>1
    <3>3. ms \in Seq(Mounts) /\ ms[i] = n /\ i \in DOMAIN ms
      BY <2>3, MountPut
    <3> HIDE DEF ms, i
    <3>4. mounts'[live'] = n
      BY <2>3, <3>2, <3>3, RememberedType
    <3> QED BY <2>3, <2>7, <3>4 DEF Here1
  <2>10. \A k \in DOMAIN jobs' : ~jobs'[k].late
    BY <2>3, <2>4, <2>5 DEF CalmInv
  <2>11. Kin'
    <3>1. CASE kept
      <4>1. Landed(j)
        BY <2>3, <2>6, <3>1 DEF Succeeded
      <4>2. a \in Jobs /\ doc' = Recorded(doc, a)
        BY <2>3, <2>7, <3>1, JobFields
      <4>3. CASE a.op = "register"
        <5>1. doc'.registered /\ doc'.kind = a.typed.kind
          BY <2>3, <2>7, <4>2, <4>3, RecordedType
        <5> QED BY <2>3, <4>1, <4>3, <5>1 DEF Kin, Landed
      <4>4. CASE a.op # "register"
        <5>1. ~doc'.registered /\ doc' \in Documents
          BY <2>3, <2>7, <4>2, <4>4, RecordedType
        <5>2. doc'.registered = FALSE
          BY <5>1 DEF Documents
        <5>3. task'.there = FALSE
          BY <2>3, <4>1, <4>4 DEF Landed, NoTask
        <5> QED BY <5>2, <5>3 DEF Kin
      <4> QED BY <4>3, <4>4
    <3>2. CASE ~kept
      <4>1. ~Succeeded(j) /\ doc' = doc
        BY <2>3, <2>8, <3>2 DEF Succeeded
      <4> QED BY <2>3, <2>6, <4>1 DEF Kin
    <3> QED BY <3>1, <3>2
  <2> QED BY <2>4, <2>7, <2>9, <2>10, <2>11 DEF CalmInv
<1>12. CASE UNCHANGED vars
  <2>1. Calm /\ CalmInv
    BY <1>12, RacesGrow DEF vars
  <2> QED BY <1>12, <2>1 DEF vars, CalmInv, Flights, Flying, Asks, Succeeded, Landed, Kin, Here1
<1> QED BY <1>1, <1>2, <1>3, <1>4, <1>5, <1>6, <1>7, <1>8, <1>9, <1>10, <1>11, <1>12, StepKinds

LEMMA FullKept ==
  ASSUME Full, SameRecord(doc, doc'), task' = task
  PROVE  Full'
BY DEF Full, SameRecord

LEMMA StraightInit == Init => StraightInv
<1>1. SUFFICES ASSUME Init PROVE StraightInv
  OBVIOUS
<1>2. Flights = {}
  BY <1>1 DEF Flights, Init
<1>3. Full
  BY <1>1 DEF Init, Full
<1> QED BY <1>2, <1>3 DEF StraightInv

LEMMA StraightStep ==
  ASSUME TypeOK, TypeOK', Calm => CalmInv, Straight => StraightInv, [Next]_vars, Straight'
  PROVE  Straight /\ StraightInv /\ StraightInv'
<1> DEFINE Goal == Straight /\ StraightInv /\ StraightInv'
<1>0. Calm /\ CalmInv /\ CalmInv'
  BY CalmStep DEF Straight
<1>0a. "undercut" \notin races'
  BY DEF Straight, Without
<1>1. ASSUME NEW n, EditedTo(n) PROVE Goal
  <2>1. /\ live # 0 /\ Edit(Here1, n)
        /\ doc' = n.cfg \/ (doc' = doc /\ n.cfg = Here1.cfg)
        /\ task' = task /\ live' = live /\ jobs' = jobs
        /\ races \subseteq races'
        /\ n.cfg # Here1.cfg => Undercuts(n.cfg) \subseteq races'
    BY <1>1 DEF EditedTo
  <2>2. Straight /\ StraightInv
    BY <2>1, RacesGrow
  <2>3. Here1.cfg = doc
    BY <1>0, <2>1 DEF CalmInv
  <2>4. SameRecord(doc, doc')
    BY <2>1, <2>3 DEF Edit
  <2>5. ASSUME NEW j \in Flights PROVE OnItsWay(j)'
    <3>1. OnItsWay(j) /\ jobs[j].mount = live /\ j \in DOMAIN jobs
      BY <1>0, <2>2 DEF StraightInv, CalmInv, Flying, Flights
    <3>2. CASE n.cfg = Here1.cfg
      BY <2>1, <2>3, <3>1, <3>2 DEF OnItsWay
    <3>3. CASE n.cfg # Here1.cfg
      <4>1. Undercuts(n.cfg) = {}
        BY <1>0a, <2>1, <3>3 DEF Undercuts
      <4>2. jobs[j].phase = "queued" => TaskArgs(n.cfg, jobs[j].typed.time) = jobs[j].args
        BY <3>1, <4>1 DEF Undercuts
      <4> QED BY <2>1, <3>1, <3>3, <4>2 DEF OnItsWay
    <3> QED BY <3>2, <3>3
  <2>6. Full => Full'
    BY <2>1, <2>4, FullKept
  <2> QED BY <2>1, <2>2, <2>5, <2>6, SameFlights DEF StraightInv, Succeeded, Replaced
<1>2. ASSUME NEW n, SavedAs(n) PROVE Goal
  <2>1. /\ live # 0 /\ SameRecord(Here1.cfg, n.cfg)
        /\ doc' = n.cfg /\ task' = task /\ live' = live /\ jobs' = jobs
        /\ races \subseteq races' /\ Undercuts(n.cfg) \subseteq races'
    BY <1>2 DEF SavedAs
  <2>2. Straight /\ StraightInv
    BY <2>1, RacesGrow
  <2>3. Here1.cfg = doc
    BY <1>0, <2>1 DEF CalmInv
  <2>4. SameRecord(doc, doc')
    BY <2>1, <2>3
  <2>5. ASSUME NEW j \in Flights PROVE OnItsWay(j)'
    <3>1. OnItsWay(j) /\ jobs[j].mount = live /\ j \in DOMAIN jobs
      BY <1>0, <2>2 DEF StraightInv, CalmInv, Flying, Flights
    <3>2. Undercuts(n.cfg) = {}
      BY <1>0a, <2>1 DEF Undercuts
    <3>3. jobs[j].phase = "queued" => TaskArgs(n.cfg, jobs[j].typed.time) = jobs[j].args
      BY <3>1, <3>2 DEF Undercuts
    <3> QED BY <2>1, <3>1, <3>3 DEF OnItsWay
  <2>6. Full => Full'
    BY <2>1, <2>4, FullKept
  <2> QED BY <2>1, <2>2, <2>5, <2>6, SameFlights DEF StraightInv, Succeeded, Replaced
<1>3. ASSUME NEW n, NEW b, StartedBy(n, b) PROVE Goal
  <2>1. /\ live # 0 /\ b \in Jobs /\ n.wizard = Here1.wizard /\ SameRecord(Here1.cfg, n.cfg)
        /\ b.phase = "queued" /\ b.args = TaskArgs(n.cfg, b.typed.time)
        /\ jobs' = Append(jobs, b) /\ task' = task
        /\ races \subseteq races'
        /\ \/ n.cfg = Here1.cfg /\ doc' = doc /\ (InFlight(live) => "resubmitted" \in races')
           \/ ~n.wizard /\ ~Here1.flight /\ doc' = n.cfg
    BY <1>3 DEF StartedBy
  <2>2. Straight /\ StraightInv
    BY <2>1, RacesGrow
  <2>3. Here1.cfg = doc
    BY <1>0, <2>1 DEF CalmInv
  <2>4. doc' = n.cfg /\ SameRecord(doc, doc')
    BY <2>1, <2>3
  <2>5. "resubmitted" \notin races'
    BY DEF Straight, Calm, Without
  <2>6. Flights = {}
    BY <1>0, <2>1, <2>5, Idle
  <2>7. Full'
    BY <2>1, <2>2, <2>4, <2>6, FullKept DEF StraightInv
  <2>8. PICK j : j = Len(jobs) + 1
    OBVIOUS
  <2>9. Flights' = {j} /\ jobs'[j] = b
    BY <2>1, <2>6, <2>8, FlightAdded
  <2>10. OnItsWay(j)' /\ ~Succeeded(j)'
    BY <2>1, <2>4, <2>9 DEF OnItsWay, Succeeded
  <2> QED BY <2>2, <2>7, <2>9, <2>10 DEF StraightInv
<1>4. ASSUME Flights = {}, jobs' = jobs, SameRecord(doc, doc'), task' = task, races \subseteq races'
      PROVE  Goal
  <2>1. Straight /\ StraightInv
    BY <1>4, RacesGrow
  <2>2. Full'
    BY <1>4, <2>1, FullKept DEF StraightInv
  <2> QED BY <1>4, <2>1, <2>2, SameFlights DEF StraightInv
<1>5. SameRecord(doc, doc)
  BY DEF SameRecord
<1>6. CASE Open
  <2>1. live = 0 /\ UNCHANGED <<doc, task, jobs, races>>
    BY <1>6 DEF Open
  <2>2. Flights = {}
    BY <1>0, <2>1, Idle
  <2> QED BY <1>4, <1>5, <2>1, <2>2
<1>7. CASE Leave
  <2>1. UNCHANGED <<doc, task, jobs>> /\ Race(IF InFlight(live) THEN {"left"} ELSE {})
    BY <1>7 DEF Leave
  <2>2. "left" \notin races'
    BY DEF Straight, Calm, Without
  <2>3. ~InFlight(live) /\ races \subseteq races'
    BY <2>1, <2>2 DEF Race
  <2>4. Flights = {}
    BY <1>0, <2>3, Idle
  <2> QED BY <1>4, <1>5, <2>1, <2>3, <2>4
<1>8. ASSUME NEW district \in Districts, MappingApply(district) PROVE Goal
  <2>1. /\ live = 0 /\ UNCHANGED <<task, jobs, races>>
        /\ doc' = [doc EXCEPT !.district = district]
    BY <1>8 DEF MappingApply
  <2>2. Flights = {}
    BY <1>0, <2>1, Idle
  <2>3. SameRecord(doc, doc')
    BY <2>1, DocumentEdits DEF TypeOK
  <2> QED BY <1>4, <2>1, <2>2, <2>3
<1>9. ASSUME NEW yes \in BOOLEAN, Finish(yes) PROVE Goal
  <2>1. /\ live # 0 /\ Here1.wizard /\ Here1.step = "finish"
        /\ UNCHANGED <<task, jobs, races>>
    BY <1>9 DEF Finish, InWizard, Here, Here1
  <2>2. Flights = {} /\ Here1.cfg = doc /\ doc \in Documents
    BY <1>0, <2>1, Idle DEF CalmInv, TypeOK
  <2>3. SameRecord(doc, doc')
    <3>1. CASE yes
      <4>1. doc' = [Here1.cfg EXCEPT !.completed = TRUE]
        BY <1>9, <2>1, <3>1, LiveMount DEF Finish, Here1, Mounts
      <4> QED BY <2>2, <4>1, DocumentEdits
    <3>2. CASE ~yes
      <4>1. yes = FALSE
        BY <1>9, <3>2
      <4> QED BY <1>5, <1>9, <4>1 DEF Finish
    <3> QED BY <3>1, <3>2
  <2> QED BY <1>4, <2>1, <2>2, <2>3
<1>10. ASSUME NEW j \in DOMAIN jobs, WorkerReads(j) PROVE Goal
  <2>1. PICK b \in Jobs :
            /\ jobs' = [jobs EXCEPT ![j] = b] /\ jobs[j].phase = "queued"
            /\ b.mount = jobs[j].mount /\ b.typed = jobs[j].typed /\ b.args = jobs[j].args
            /\ b.phase = "working"
            /\ b.sent = TaskArgs(mounts[jobs[j].mount].cfg, jobs[j].typed.time)
    BY <1>10, ReadsDo
  <2>2. UNCHANGED <<doc, task, races>>
    BY <1>10 DEF WorkerReads
  <2>3. Straight /\ StraightInv
    BY <2>2, RacesGrow
  <2>4. j \in Flights /\ jobs'[j] = b /\ Flights' = Flights
    <3>1. b.mount <= Len(mounts)
      BY <2>1, JobFields
    <3> QED BY <2>1, <3>1, FlightPut
  <2>5. Flights = {j} /\ Full /\ jobs[j].args = TaskArgs(doc, jobs[j].typed.time)
    BY <1>0, <2>1, <2>3, <2>4 DEF CalmInv, Flying, StraightInv, OnItsWay, Succeeded
  <2>6. jobs[j].mount = live /\ live # 0 /\ Here1.cfg = doc
    BY <1>0, <2>4 DEF CalmInv, Flying
  <2>7. OnItsWay(j)' /\ ~Succeeded(j)'
    BY <2>1, <2>4, <2>5, <2>6 DEF OnItsWay, Succeeded, Here1
  <2>8. Full'
    BY <2>2, <2>5 DEF Full
  <2> QED BY <2>3, <2>4, <2>5, <2>7, <2>8 DEF StraightInv
<1>11. ASSUME NEW j \in DOMAIN jobs, NEW way, NEW effect, NEW readable,
              WorkerEnds(j, way, effect, readable)
       PROVE  Goal
  <2>1. races \subseteq races' /\ doc' = doc
    BY <1>11, EndsDo DEF WorkerEnds
  <2>2. {"late", "misread", "unconfirmed"} \cap races' = {}
    BY DEF Straight, Calm, Without
  <2>3. PICK b \in Jobs :
            /\ jobs' = [jobs EXCEPT ![j] = b] /\ jobs[j].phase = "working"
            /\ b.mount = jobs[j].mount /\ b.op = jobs[j].op
            /\ b.typed = jobs[j].typed /\ b.args = jobs[j].args /\ b.sent = jobs[j].sent
            /\ b.phase = "done" /\ task' = IF b.ok THEN Done(j) ELSE task
    BY <1>11, <2>2, EndsDo
  <2>4. Straight /\ StraightInv
    BY <2>1, RacesGrow
  <2>5. j \in Flights /\ jobs'[j] = b /\ Flights' = Flights
    <3>1. b.mount <= Len(mounts)
      BY <2>3, JobFields
    <3> QED BY <2>3, <3>1, FlightPut
  <2>6. Flights = {j} /\ Full /\ OnItsWay(j)
    BY <1>0, <2>3, <2>4, <2>5 DEF CalmInv, Flying, StraightInv, Succeeded
  <2>7. OnItsWay(j)'
    BY <2>3, <2>5, <2>6 DEF OnItsWay
  <2>8. IF Succeeded(j)' THEN jobs'[j].op = "register" => task' = Replaced(j)' ELSE Full'
    <3>1. CASE b.ok
      <4>1. Succeeded(j)' /\ task' = Done(j)
        BY <2>3, <2>5, <3>1 DEF Succeeded
      <4>2. Replaced(j)' = Replaced(j)
        BY <2>3, <2>5 DEF Replaced
      <4> QED BY <2>3, <2>5, <4>1, <4>2 DEF Done
    <3>2. CASE ~b.ok
      <4>1. ~Succeeded(j)' /\ task' = task
        BY <2>3, <2>5, <3>2 DEF Succeeded
      <4>2. Full'
        BY <2>1, <2>6, <4>1 DEF Full
      <4> QED BY <4>1, <4>2
    <3> QED BY <3>1, <3>2
  <2> QED BY <2>4, <2>5, <2>6, <2>7, <2>8 DEF StraightInv
<1>12. ASSUME NEW j \in DOMAIN jobs, LateEffect(j) PROVE Goal
  BY <1>0, <1>12 DEF LateEffect, CalmInv
<1>13. ASSUME NEW j \in DOMAIN jobs, NEW handover, Answer(j, handover) PROVE Goal
  <2>1. PICK n, b : \E kept \in BOOLEAN : AnsweredBy(j, n, b, kept)
    BY <1>13, AnswerDoes
  <2>2. PICK kept \in BOOLEAN : AnsweredBy(j, n, b, kept)
    BY <2>1
  <2> DEFINE a == jobs[j]
             i == jobs[j].mount
  <2>3. /\ a.phase = "done"
        /\ n.cfg = IF kept THEN Recorded(mounts[i].cfg, a) ELSE mounts[i].cfg
        /\ b \in Jobs /\ b.mount <= Len(mounts) /\ b.phase = "answered"
        /\ jobs' = [jobs EXCEPT ![j] = b]
        /\ doc' = IF kept THEN n.cfg ELSE doc
        /\ task' = task
        /\ races \subseteq races'
        /\ kept => a.ok
        /\ a.ok /\ ~kept => "unconfirmed" \in races'
    BY <2>2 DEF AnsweredBy
  <2>4. Straight /\ StraightInv
    BY <2>3, RacesGrow
  <2>5. j \in Flights /\ Flights' = Flights \ {j}
    BY <2>3, FlightPut
  <2>6. Flights' = {} /\ mounts[i].cfg = doc /\ doc \in Documents
    BY <1>0, <2>5 DEF CalmInv, Flying, Here1, TypeOK
  <2>7. kept <=> a.ok
    <3>1. "unconfirmed" \notin races'
      BY DEF Straight, Calm, Without
    <3> QED BY <2>3, <3>1
  <2>8. a.sent = a.args
    BY <2>3, <2>4, <2>5 DEF StraightInv, OnItsWay
  <2>9. Full'
    <3>1. CASE kept
      <4>1. a \in Jobs /\ doc' = Recorded(doc, a)
        BY <2>3, <2>6, <3>1, JobFields
      <4>2. CASE a.op = "register"
        <5>1. task = Replaced(j)
          BY <2>3, <2>4, <2>5, <3>1, <4>2 DEF StraightInv, Succeeded
        <5>2. /\ doc'.args = a.args /\ doc'.kind = a.typed.kind
              /\ doc'.account = a.typed.account /\ doc'.wake = a.typed.wake
          BY <2>3, <2>6, <4>1, <4>2, RecordedType
        <5> QED BY <2>3, <2>8, <5>1, <5>2 DEF Full, Replaced
      <4>3. CASE a.op # "register"
        <5>1. ~doc'.registered
          BY <2>3, <2>6, <4>1, <4>3, RecordedType
        <5> QED BY <5>1 DEF Full
      <4> QED BY <4>2, <4>3
    <3>2. CASE ~kept
      <4>1. ~Succeeded(j) /\ doc' = doc
        BY <2>3, <2>7, <3>2 DEF Succeeded
      <4> QED BY <2>3, <2>4, <2>5, <4>1 DEF Full, StraightInv
    <3> QED BY <3>1, <3>2
  <2> QED BY <2>4, <2>6, <2>9 DEF StraightInv
<1>14. CASE UNCHANGED vars
  <2>1. Straight /\ StraightInv
    BY <1>14, RacesGrow DEF vars
  <2> QED BY <1>14, <2>1 DEF vars, StraightInv, Flights, OnItsWay, Succeeded, Replaced, Full
<1> QED BY <1>1, <1>2, <1>3, <1>6, <1>7, <1>8, <1>9, <1>10, <1>11, <1>12, <1>13, <1>14, StepKinds

-----------------------------------------------------------------------------
(* What the person was told                                                 *)

LEMMA ToldInit == Init => ToldInv
<1>1. SUFFICES ASSUME Init PROVE ToldInv
  OBVIOUS
<1>2. Flights = {}
  BY <1>1 DEF Flights, Init
<1>3. InStep
  <2>1. CASE doc.registered
    BY <1>1, <2>1 DEF Init, InStep
  <2>2. CASE ~doc.registered
    BY <1>1, <2>2 DEF Init, InStep, NoTask
  <2> QED BY <2>1, <2>2
<1> QED BY <1>2, <1>3 DEF ToldInv

LEMMA ToldStep ==
  ASSUME TypeOK, TypeOK', Calm => CalmInv, Straight => StraightInv, Forthright => ToldInv,
         [Next]_vars, Forthright'
  PROVE  ToldInv'
<1>1. Calm /\ CalmInv /\ CalmInv' /\ Straight /\ StraightInv /\ StraightInv'
  BY CalmStep, StraightStep DEF Straight, Forthright
<1>2. {"undercut", "backtracked"} \cap races' = {}
  BY DEF Forthright, Straight, Without
<1>3. doc \in Documents
  BY DEF TypeOK
<1>4. ASSUME races \subseteq races' PROVE ToldInv
  BY <1>4, RacesGrow
<1>5. ASSUME Flights = {}, jobs' = jobs, doc' = doc, task' = task, told' = told,
             races \subseteq races'
      PROVE  ToldInv'
  BY <1>4, <1>5, SameFlights DEF ToldInv, InStep
<1>6. ASSUME NEW n, EditedTo(n) PROVE ToldInv'
  <2>1. /\ live # 0 /\ n \in Mounts /\ Edit(Here1, n)
        /\ mounts' = [mounts EXCEPT ![live] = n]
        /\ doc' = n.cfg \/ (doc' = doc /\ n.cfg = Here1.cfg)
        /\ task' = task /\ live' = live /\ jobs' = jobs
        /\ races \subseteq races'
        /\ told' = told \/ told' = "left_out"
        /\ n.cfg # Here1.cfg /\ (task.there \/ InFlight(live)) =>
              {"undercut", "backtracked"} \cap races' # {}
    BY <1>6 DEF EditedTo
  <2>2. Here1' = n /\ Here1.cfg = doc /\ n.wizard = Here1.wizard
    BY <1>1, <2>1, LiveMount, MountPut DEF Here1, CalmInv, Edit
  <2>3. ToldInv
    BY <1>4, <2>1
  <2>4. CASE n.cfg = Here1.cfg
    <3>1. doc' = doc
      BY <2>1, <2>2, <2>4
    <3>2. InStep => InStep'
      BY <2>1, <3>1 DEF InStep
    <3> QED BY <2>1, <2>2, <2>3, <3>1, <3>2, SameFlights DEF ToldInv, Succeeded
  <2>5. CASE n.cfg # Here1.cfg
    <3>1. ~task.there /\ ~InFlight(live)
      BY <1>2, <2>1, <2>5
    <3>2. Flights' = {}
      BY <1>1, <2>1, <3>1, Idle, SameFlights
    <3> QED BY <2>1, <3>1, <3>2 DEF ToldInv, InStep
  <2> QED BY <2>4, <2>5
<1>7. ASSUME NEW n, SavedAs(n) PROVE ToldInv'
  <2>1. /\ live # 0 /\ n \in Mounts /\ SameRecord(Here1.cfg, n.cfg)
        /\ ~n.wizard /\ ~Here1.wizard /\ n.flight = Here1.flight
        /\ mounts' = [mounts EXCEPT ![live] = n] /\ doc' = n.cfg
        /\ task' = task /\ live' = live /\ jobs' = jobs
        /\ races \subseteq races'
        /\ \/ told' = "left_out"
           \/ /\ ~n.flight
              /\ \/ ~n.cfg.registered
                 \/ n.cfg.args # NoArgs /\ n.cfg.args = TaskArgs(n.cfg, n.cfg.time)
    BY <1>7 DEF SavedAs
  <2>2. ~Here1'.wizard /\ Here1.cfg = doc
    BY <1>1, <2>1, LiveMount, MountPut DEF Here1, CalmInv
  <2>3. CASE told' = "left_out"
    BY <2>2, <2>3 DEF ToldInv, InStep
  <2>4. CASE ~n.flight /\ ~n.cfg.registered
    <3>1. Flights = {} /\ Kin
      BY <1>1, <2>1, <2>4, Idle
    <3>2. ~task.there
      BY <2>1, <2>2, <2>4, <3>1 DEF Kin, SameRecord
    <3> QED BY <2>1, <2>2, <3>2 DEF ToldInv, InStep
  <2>5. CASE ~n.flight /\ n.cfg.args # NoArgs /\ n.cfg.args = TaskArgs(n.cfg, n.cfg.time)
    <3>1. Flights = {} /\ Kin
      BY <1>1, <2>1, <2>5, Idle
    <3>2. Full
      BY <1>1, <3>1 DEF StraightInv
    <3>3. task.there => task.args = doc.args
      BY <2>1, <2>2, <2>5, <3>1, <3>2 DEF Kin, Full, SameRecord
    <3>4. doc.args = TaskArgs(doc', doc'.time)
      BY <2>1, <2>2, <2>5 DEF SameRecord
    <3> QED BY <2>1, <2>2, <3>3, <3>4 DEF ToldInv, InStep
  <2> QED BY <2>1, <2>3, <2>4, <2>5
<1>8. ASSUME NEW n, NEW b, StartedBy(n, b) PROVE ToldInv'
  <2>1. /\ live # 0 /\ n \in Mounts /\ b \in Jobs /\ n.wizard = Here1.wizard
        /\ b.phase = "queued" /\ b.args = TaskArgs(n.cfg, b.typed.time)
        /\ mounts' = [mounts EXCEPT ![live] = n] /\ jobs' = Append(jobs, b)
        /\ task' = task /\ live' = live
        /\ races \subseteq races'
        /\ \/ /\ n.cfg = Here1.cfg /\ doc' = doc /\ told' = told
              /\ InFlight(live) => "resubmitted" \in races'
           \/ ~n.wizard /\ ~Here1.flight
    BY <1>8 DEF StartedBy
  <2>2. Here1' = n /\ Here1.cfg = doc
    BY <1>1, <2>1, LiveMount, MountPut DEF Here1, CalmInv
  <2>3. "resubmitted" \notin races'
    BY DEF Forthright, Straight, Calm, Without
  <2>4. Flights = {}
    BY <1>1, <2>1, <2>3, Idle
  <2>5. PICK j : j = Len(jobs) + 1
    OBVIOUS
  <2>6. Flights' = {j} /\ jobs'[j] = b
    BY <2>1, <2>4, <2>5, FlightAdded
  <2>7. ASSUME n.wizard
        PROVE  TaskArgs(doc', jobs'[j].typed.time) = jobs'[j].args /\ InStep'
    <3>1. n.cfg = doc /\ doc' = doc /\ told' = told
      BY <2>1, <2>2, <2>7
    <3>2. InStep
      BY <1>4, <2>1, <2>4 DEF ToldInv
    <3> QED BY <2>1, <2>6, <3>1, <3>2 DEF InStep
  <2> QED BY <2>2, <2>6, <2>7 DEF ToldInv
<1>9. CASE Open
  <2>1. live = 0 /\ UNCHANGED <<doc, task, jobs, told, races>>
    BY <1>9 DEF Open
  <2> QED BY <1>1, <1>5, <2>1, Idle
<1>10. CASE Leave
  <2>1. UNCHANGED <<doc, task, jobs, told>> /\ Race(IF InFlight(live) THEN {"left"} ELSE {})
    BY <1>10 DEF Leave
  <2>2. "left" \notin races'
    BY DEF Forthright, Straight, Calm, Without
  <2>3. ~InFlight(live) /\ races \subseteq races'
    BY <2>1, <2>2 DEF Race
  <2> QED BY <1>1, <1>5, <2>1, <2>3, Idle
<1>11. ASSUME NEW district \in Districts, MappingApply(district) PROVE ToldInv'
  <2>1. /\ live = 0 /\ UNCHANGED <<task, jobs, races>>
        /\ told' = IF task.there THEN "left_out" ELSE told
    BY <1>11 DEF MappingApply
  <2>2. Flights' = {}
    BY <1>1, <2>1, Idle, SameFlights
  <2> QED BY <2>1, <2>2 DEF ToldInv, InStep
<1>12. ASSUME NEW yes \in BOOLEAN, Finish(yes) PROVE ToldInv'
  <2>1. /\ live # 0 /\ Here1.wizard /\ Here1.step = "finish"
        /\ UNCHANGED <<task, jobs, told, races>>
    BY <1>12 DEF Finish, InWizard, Here, Here1
  <2>2. Flights = {} /\ Here1.cfg = doc
    BY <1>1, <2>1, Idle DEF CalmInv
  <2>3. TaskArgs(doc', doc'.time) = TaskArgs(doc, doc.time)
    <3>1. CASE yes
      <4>1. doc' = [Here1.cfg EXCEPT !.completed = TRUE]
        BY <1>12, <2>1, <3>1, LiveMount DEF Finish, Here1, Mounts
      <4> QED BY <1>3, <2>2, <4>1, DocumentEdits
    <3>2. CASE ~yes
      <4>1. yes = FALSE
        BY <1>12, <3>2
      <4> QED BY <1>12, <4>1 DEF Finish
    <3> QED BY <3>1, <3>2
  <2>4. InStep
    BY <1>4, <2>1, <2>2 DEF ToldInv
  <2> QED BY <2>1, <2>2, <2>3, <2>4, SameFlights DEF ToldInv, InStep
<1>13. ASSUME NEW j \in DOMAIN jobs, WorkerReads(j) PROVE ToldInv'
  <2>1. PICK b \in Jobs :
            /\ jobs' = [jobs EXCEPT ![j] = b] /\ jobs[j].phase = "queued"
            /\ b.mount = jobs[j].mount /\ b.typed = jobs[j].typed /\ b.args = jobs[j].args
            /\ b.phase = "working"
    BY <1>13, ReadsDo
  <2>2. UNCHANGED <<doc, task, mounts, live, told, races>>
    BY <1>13 DEF WorkerReads
  <2>3. j \in Flights /\ jobs'[j] = b /\ Flights' = Flights
    <3>1. b.mount <= Len(mounts)
      BY <2>1, JobFields
    <3> QED BY <2>1, <3>1, FlightPut
  <2>4. Flights = {j} /\ ToldInv /\ ~Succeeded(j)
    BY <1>1, <1>4, <2>1, <2>2, <2>3 DEF CalmInv, Flying, Succeeded
  <2> QED BY <2>1, <2>2, <2>3, <2>4 DEF ToldInv, InStep, Here1
<1>14. ASSUME NEW j \in DOMAIN jobs, NEW way, NEW effect, NEW readable,
              WorkerEnds(j, way, effect, readable)
       PROVE  ToldInv'
  <2>1. races \subseteq races' /\ UNCHANGED <<doc, mounts, live, told>>
    BY <1>14, EndsDo DEF WorkerEnds
  <2>2. {"late", "misread", "unconfirmed"} \cap races' = {}
    BY DEF Forthright, Straight, Calm, Without
  <2>3. PICK b \in Jobs :
            /\ jobs' = [jobs EXCEPT ![j] = b] /\ jobs[j].phase = "working"
            /\ b.mount = jobs[j].mount /\ b.typed = jobs[j].typed /\ b.args = jobs[j].args
            /\ b.phase = "done" /\ task' = IF b.ok THEN Done(j) ELSE task
    BY <1>14, <2>2, EndsDo
  <2>4. j \in Flights /\ jobs'[j] = b /\ Flights' = Flights
    <3>1. b.mount <= Len(mounts)
      BY <2>3, JobFields
    <3> QED BY <2>3, <3>1, FlightPut
  <2>5. Flights = {j} /\ ToldInv /\ ~Succeeded(j)
    BY <1>1, <1>4, <2>1, <2>3, <2>4 DEF CalmInv, Flying, Succeeded
  <2>6. ~Succeeded(j)' => task' = task
    BY <2>3, <2>4 DEF Succeeded
  <2>7. Here1' = Here1
    BY <2>1 DEF Here1
  <2> QED BY <2>1, <2>3, <2>4, <2>5, <2>6, <2>7 DEF ToldInv, InStep
<1>15. ASSUME NEW j \in DOMAIN jobs, LateEffect(j) PROVE ToldInv'
  BY <1>1, <1>15 DEF LateEffect, CalmInv
<1>16. ASSUME NEW j \in DOMAIN jobs, NEW handover, Answer(j, handover) PROVE ToldInv'
  <2>1. PICK n, b : \E kept \in BOOLEAN : AnsweredBy(j, n, b, kept)
    BY <1>16, AnswerDoes
  <2>2. PICK kept \in BOOLEAN : AnsweredBy(j, n, b, kept)
    BY <2>1
  <2> DEFINE a == jobs[j]
             i == jobs[j].mount
  <2>3. /\ a.phase = "done"
        /\ n.cfg = IF kept THEN Recorded(mounts[i].cfg, a) ELSE mounts[i].cfg
        /\ b \in Jobs /\ b.mount <= Len(mounts) /\ b.phase = "answered"
        /\ jobs' = [jobs EXCEPT ![j] = b]
        /\ doc' = IF kept THEN n.cfg ELSE doc
        /\ task' = task
        /\ races \subseteq races'
        /\ kept => a.ok
        /\ a.ok /\ ~kept => "unconfirmed" \in races'
        /\ \/ Says(a, n, kept)
           \/ told' = told /\ ~(live = i /\ mounts[i].card = a.card)
    BY <2>2 DEF AnsweredBy
  <2>4. ToldInv
    BY <1>4, <2>3
  <2>5. j \in Flights /\ Flights' = Flights \ {j}
    BY <2>3, FlightPut
  <2>6. Flying(j)
    BY <1>1, <2>5 DEF CalmInv
  <2>7. Flights' = {} /\ i = live /\ mounts[i] = Here1 /\ Here1.cfg = doc
    BY <1>1, <2>5, <2>6 DEF CalmInv, Flying, Here1
  <2>8. kept <=> a.ok
    <3>1. "unconfirmed" \notin races'
      BY DEF Forthright, Straight, Calm, Without
    <3> QED BY <2>3, <3>1
  <2>9. a.sent = a.args
    BY <1>1, <2>3, <2>5 DEF StraightInv, OnItsWay
  <2>10. CASE told' = "left_out"
    BY <2>7, <2>10 DEF ToldInv, InStep
  <2>11. CASE kept /\ told' # "left_out"
    <3>1. a \in Jobs /\ doc' = Recorded(doc, a) /\ Succeeded(j)
      BY <2>3, <2>7, <2>11, JobFields DEF Succeeded
    <3>2. CASE a.op = "register"
      <4>1. task = Replaced(j)
        BY <1>1, <2>5, <3>1, <3>2 DEF StraightInv
      <4>2. a.args = TaskArgs(doc, a.typed.time)
        <5>1. /\ TaskArgs(doc', a.typed.time) = TaskArgs(doc, a.typed.time)
          BY <1>3, <2>3, <3>1, <3>2, RecordedType
        <5>2. CASE mounts[i].card = a.card
          <6>1. Says(a, n, kept) /\ told' = "nothing"
            BY <2>3, <2>7, <2>11, <5>2 DEF Says
          <6>2. {"undercut", "backtracked", "unsaid"} \cap races' = {}
            BY DEF Forthright, Straight, Calm, Without
          <6>3. n.cfg = doc'
            BY <2>3, <2>11
          <6> QED BY <3>2, <5>1, <6>1, <6>2, <6>3 DEF Says
        <5>3. CASE mounts[i].card # a.card
          BY <2>4, <2>5, <2>6, <2>7, <5>3 DEF Flying, ToldInv
        <5> QED BY <5>2, <5>3
      <4>3. TaskArgs(doc', doc'.time) = TaskArgs(doc, a.typed.time)
        BY <1>3, <2>3, <3>1, <3>2, RecordedType
      <4> QED BY <2>3, <2>7, <2>9, <4>1, <4>2, <4>3 DEF ToldInv, InStep, Replaced
    <3>3. CASE a.op # "register"
      <4>1. task = NoTask
        BY <1>1, <2>5, <3>1, <3>3 DEF CalmInv, Landed
      <4> QED BY <2>3, <2>7, <4>1 DEF ToldInv, InStep, NoTask
    <3> QED BY <3>2, <3>3
  <2>12. CASE ~kept /\ told' # "left_out"
    <3>1. mounts[i].card # a.card /\ told' = told /\ doc' = doc
      BY <2>3, <2>7, <2>12 DEF Says
    <3>2. ~Succeeded(j) /\ Here1.wizard
      BY <2>3, <2>6, <2>7, <2>8, <2>12, <3>1 DEF Flying, Succeeded
    <3>3. InStep
      BY <2>4, <2>5, <3>2 DEF ToldInv
    <3> QED BY <2>3, <2>7, <3>1, <3>3 DEF ToldInv, InStep
  <2> QED BY <2>10, <2>11, <2>12
<1>17. CASE UNCHANGED vars
  <2>1. ToldInv
    BY <1>4, <1>17 DEF vars
  <2> QED BY <1>17, <2>1 DEF vars, ToldInv, Flights, Succeeded, InStep, Here1
<1> QED BY <1>6, <1>7, <1>8, <1>9, <1>10, <1>11, <1>12, <1>13, <1>14, <1>15, <1>16, <1>17,
           StepKinds

-----------------------------------------------------------------------------
(* A record that cannot be read                                             *)

LEMMA KnownEdit ==
  ASSUME NEW m, NEW n, KnownMount(m), SameRecord(m.cfg, n.cfg), n.wizard = m.wizard
  PROVE  KnownMount(n)
BY DEF KnownMount, Known, SameRecord

LEMMA KnownRemembered ==
  ASSUME StartsKnown, NEW ms \in Seq(Mounts), \A i \in DOMAIN ms : KnownMount(ms[i]),
         NEW on, NEW js
  PROVE  \A i \in DOMAIN Remembered(ms, on, js) : KnownMount(Remembered(ms, on, js)[i])
<1> DEFINE start == CHOOSE d \in Starts : TRUE
           blank == Mount(start, "none")
<1>1. Known(start)
  BY StartsAssumption DEF StartsKnown
<1>2. KnownMount(blank)
  <2>1. blank.cfg = start /\ blank.wizard = ~start.completed
    BY DEF Mount
  <2> QED BY <1>1, <2>1 DEF KnownMount, Known
<1> HIDE DEF blank
<1>3. Remembered(ms, on, js) =
        [i \in DOMAIN ms |-> IF i = on \/ Awaited(i, js) THEN ms[i] ELSE blank]
  BY DEF Remembered, blank
<1> QED BY <1>2, <1>3

LEMMA KnownPut ==
  ASSUME TypeOK, KnownInv, NEW i \in DOMAIN mounts, NEW n \in Mounts, KnownMount(n)
  PROVE  LET ms == [mounts EXCEPT ![i] = n]
         IN  ms \in Seq(Mounts) /\ \A k \in DOMAIN ms : KnownMount(ms[k])
BY MountPut DEF KnownInv

LEMMA KnownInit == StartsKnown /\ Init => KnownInv
BY DEF StartsKnown, Init, KnownInv

LEMMA KnownStep ==
  ASSUME StartsKnown, TypeOK, KnownInv, [Next]_vars
  PROVE  KnownInv'
<1>1. ASSUME NEW n \in Mounts, live # 0, SameRecord(Here1.cfg, n.cfg), n.wizard = Here1.wizard,
             mounts' = [mounts EXCEPT ![live] = n], doc' \in {doc, n.cfg}
      PROVE  KnownInv'
  <2>1. live \in DOMAIN mounts /\ KnownMount(Here1)
    BY <1>1, LiveMount DEF KnownInv, Here1
  <2>2. KnownMount(n)
    BY <1>1, <2>1, KnownEdit
  <2>3. \A k \in DOMAIN mounts' : KnownMount(mounts'[k])
    BY <1>1, <2>1, <2>2, KnownPut
  <2>4. Known(doc')
    BY <1>1, <2>2 DEF KnownInv, KnownMount
  <2> QED BY <2>3, <2>4 DEF KnownInv
<1>2. ASSUME NEW n, EditedTo(n) PROVE KnownInv'
  <2>1. /\ live # 0 /\ n \in Mounts /\ Edit(Here1, n)
        /\ mounts' = [mounts EXCEPT ![live] = n] /\ doc' \in {doc, n.cfg}
    BY <1>2 DEF EditedTo
  <2> QED BY <1>1, <2>1 DEF Edit
<1>3. ASSUME NEW n, SavedAs(n) PROVE KnownInv'
  <2>1. /\ live # 0 /\ n \in Mounts /\ SameRecord(Here1.cfg, n.cfg)
        /\ ~n.wizard /\ ~Here1.wizard
        /\ mounts' = [mounts EXCEPT ![live] = n] /\ doc' \in {doc, n.cfg}
    BY <1>3 DEF SavedAs
  <2>2. n.wizard = Here1.wizard
    BY <2>1, LiveMount DEF Mounts
  <2> QED BY <1>1, <2>1, <2>2
<1>4. ASSUME NEW n, NEW b, StartedBy(n, b) PROVE KnownInv'
  <2>1. /\ live # 0 /\ n \in Mounts /\ SameRecord(Here1.cfg, n.cfg)
        /\ n.wizard = Here1.wizard
        /\ mounts' = [mounts EXCEPT ![live] = n] /\ doc' \in {doc, n.cfg}
    BY <1>4 DEF StartedBy
  <2> QED BY <1>1, <2>1
<1>5. CASE Open
  <2>1. PICK n \in Mounts :
            /\ mounts' = Append(mounts, n) /\ n.cfg = doc /\ n.wizard = ~doc.completed
            /\ doc' = doc
    BY <1>5, OpenDoes
  <2>2. KnownMount(n)
    BY <2>1 DEF KnownInv, KnownMount, Known
  <2>3. \A i \in DOMAIN mounts' : (i \in DOMAIN mounts /\ mounts'[i] = mounts[i]) \/ mounts'[i] = n
    BY <2>1 DEF TypeOK
  <2> QED BY <2>1, <2>2, <2>3 DEF KnownInv
<1>6. CASE Leave
  <2>1. mounts' = Remembered(mounts, 0, jobs) /\ doc' = doc
    BY <1>6 DEF Leave
  <2>2. mounts \in Seq(Mounts)
    BY DEF TypeOK
  <2> QED BY <2>1, <2>2, KnownRemembered DEF KnownInv
<1>7. ASSUME NEW district \in Districts, MappingApply(district) PROVE KnownInv'
  <2>1. doc' = [doc EXCEPT !.district = district] /\ mounts' = mounts
    BY <1>7 DEF MappingApply
  <2>2. SameRecord(doc, doc')
    BY <2>1, DocumentEdits DEF TypeOK
  <2> QED BY <2>1, <2>2 DEF KnownInv, Known, SameRecord
<1>8. ASSUME NEW yes \in BOOLEAN, Finish(yes) PROVE KnownInv'
  <2>1. live # 0
    BY <1>8 DEF Finish, InWizard, Here
  <2>2. Here1 \in Mounts /\ Here1.cfg \in Documents /\ live \in DOMAIN mounts /\ KnownMount(Here1)
    BY <2>1, LiveMount DEF KnownInv, Here1
  <2>3. CASE yes
    <3> DEFINE e == [Here1.cfg EXCEPT !.completed = TRUE]
               n == [Here1 EXCEPT !.cfg.completed = TRUE]
               ms == [mounts EXCEPT ![live] = n]
    <3>1. e \in Documents /\ SameRecord(Here1.cfg, e)
      BY <2>2, DocumentEdits
    <3>2. n = [Here1 EXCEPT !.cfg = e]
      BY <2>2 DEF Mounts
    <3>3. doc' = n.cfg /\ mounts' = Remembered(ms, 0, jobs)
      BY <1>8, <2>3 DEF Finish, Here1
    <3> HIDE DEF e, n
    <3>4. n \in Mounts /\ n.cfg = e /\ n.wizard = Here1.wizard
      BY <2>2, <3>1, <3>2, CfgEdits
    <3>5. KnownMount(n)
      BY <2>2, <3>1, <3>4, KnownEdit
    <3>6. ms \in Seq(Mounts) /\ \A k \in DOMAIN ms : KnownMount(ms[k])
      BY <2>2, <3>4, <3>5, KnownPut
    <3> HIDE DEF ms
    <3>7. \A k \in DOMAIN mounts' : KnownMount(mounts'[k])
      BY <3>3, <3>6, KnownRemembered
    <3> QED BY <3>3, <3>5, <3>7 DEF KnownInv, KnownMount
  <2>4. CASE ~yes
    <3>1. yes = FALSE
      BY <1>8, <2>4
    <3>2. UNCHANGED <<doc, mounts>>
      BY <1>8, <3>1 DEF Finish
    <3> QED BY <3>2 DEF KnownInv
  <2> QED BY <2>3, <2>4
<1>9. ASSUME NEW j \in DOMAIN jobs, NEW handover, Answer(j, handover) PROVE KnownInv'
  <2>1. PICK n, b : \E kept \in BOOLEAN : AnsweredBy(j, n, b, kept)
    BY <1>9, AnswerDoes
  <2>2. PICK kept \in BOOLEAN : AnsweredBy(j, n, b, kept)
    BY <2>1
  <2> DEFINE a == jobs[j]
             i == jobs[j].mount
             ms == [mounts EXCEPT ![i] = n]
  <2>3. /\ a.phase = "done" /\ i \in DOMAIN mounts /\ n \in Mounts
        /\ n.wizard = mounts[i].wizard
        /\ n.cfg = IF kept THEN Recorded(mounts[i].cfg, a) ELSE mounts[i].cfg
        /\ mounts' = Remembered(ms, live', jobs')
        /\ doc' = IF kept THEN n.cfg ELSE doc
    BY <2>2 DEF AnsweredBy
  <2>4. a \in Jobs /\ mounts[i].cfg \in Documents /\ KnownMount(mounts[i])
    BY <2>3, JobFields DEF KnownInv
  <2>5. KnownMount(n)
    <3>1. CASE kept
      <4>1. CASE a.op = "register"
        <5>1. n.cfg.args = a.args
          BY <2>3, <2>4, <3>1, <4>1, RecordedType
        <5>2. a.args # NoArgs
          BY <2>3, <2>4, <4>1 DEF Jobs
        <5> QED BY <5>1, <5>2 DEF KnownMount, Known
      <4>2. CASE a.op # "register"
        <5>1. ~n.cfg.registered
          BY <2>3, <2>4, <3>1, <4>2, RecordedType
        <5> QED BY <5>1 DEF KnownMount, Known
      <4> QED BY <4>1, <4>2
    <3>2. CASE ~kept
      BY <2>3, <2>4, <3>2 DEF KnownMount
    <3> QED BY <3>1, <3>2
  <2>6. ms \in Seq(Mounts) /\ \A k \in DOMAIN ms : KnownMount(ms[k])
    BY <2>3, <2>5, KnownPut
  <2> HIDE DEF ms, i
  <2>7. \A k \in DOMAIN mounts' : KnownMount(mounts'[k])
    BY <2>3, <2>6, KnownRemembered
  <2>8. Known(doc')
    BY <2>3, <2>5 DEF KnownInv, KnownMount
  <2> QED BY <2>7, <2>8 DEF KnownInv
<1>10. CASE UNCHANGED <<doc, mounts>>
  BY <1>10 DEF KnownInv
<1>11. ASSUME NEW j \in DOMAIN jobs, NEW way, NEW effect, NEW readable,
              WorkerReads(j) \/ LateEffect(j) \/ WorkerEnds(j, way, effect, readable)
       PROVE  UNCHANGED <<doc, mounts>>
  BY <1>11 DEF WorkerReads, LateEffect, WorkerEnds
<1> QED BY <1>2, <1>3, <1>4, <1>5, <1>6, <1>7, <1>8, <1>9, <1>10, <1>11, StepKinds DEF vars

-----------------------------------------------------------------------------
(* What the screen promises                                                 *)

LEMMA SetupStep == SetupInv /\ [Next]_vars => SetupInv'
<1>1. SUFFICES ASSUME SetupInv, [Next]_vars PROVE SetupInv'
  OBVIOUS
<1>2. TypeOK /\ TypeOK'
  BY <1>1, TypeStep DEF SetupInv
<1>3. Calm' => CalmInv'
  BY <1>1, <1>2, CalmStep DEF SetupInv
<1>4. Straight' => StraightInv'
  BY <1>1, <1>2, StraightStep DEF SetupInv
<1>5. Forthright' => ToldInv'
  BY <1>1, <1>2, ToldStep DEF SetupInv
<1> QED BY <1>2, <1>3, <1>4, <1>5 DEF SetupInv

LEMMA SetupHolds == Spec => []SetupInv
<1>1. Init => SetupInv
  BY TypeInit, CalmInit, StraightInit, ToldInit DEF SetupInv
<1> QED BY <1>1, SetupStep, PTL DEF Spec

\* What the settings record of the task is the task that Windows has, whenever
\* nothing is under way (_persist_registered_record, _on_registered): however
\* many saves, registrations and removals there have been.
THEOREM RecordHolds == Spec => []RecordIsTheTask
<1>1. SetupInv => RecordIsTheTask
  <2>1. SUFFICES ASSUME SetupInv, Quiet,
                        Without({"left", "resubmitted", "undercut", "misread",
                                 "unconfirmed", "late"})
                 PROVE  /\ doc.registered = task.there
                        /\ (doc.registered /\ doc.args # NoArgs)
                              => task = [there |-> TRUE, args |-> doc.args, account |-> doc.account,
                                         kind |-> doc.kind, wake |-> doc.wake]
    BY DEF RecordIsTheTask
  <2>2. Straight /\ Calm
    BY <2>1 DEF Straight, Calm, Without
  <2>3. Flights = {}
    BY <2>1 DEF Quiet, Flights
  <2> QED BY <2>1, <2>2, <2>3 DEF SetupInv, CalmInv, StraightInv, Kin, Full
<1> QED BY <1>1, SetupHolds, PTL

\* Settings that the task does not have yet were said not to be in it, by the
\* last word the person read (_save_note, _reconcile, the answer's drift check).
THEOREM DriftSaid == Spec => []DriftIsTold
<1>1. SetupInv => DriftIsTold
  <2>1. SUFFICES ASSUME SetupInv, Quiet, task.there,
                        Without({"left", "resubmitted", "undercut", "misread",
                                 "unconfirmed", "late", "backtracked", "unsaid"})
                 PROVE  \/ told = "left_out"
                        \/ task.args \in {TaskArgs(doc, doc.time), NoArgs}
    BY DEF DriftIsTold
  <2>2. Forthright
    BY <2>1 DEF Forthright, Straight, Calm, Without
  <2>3. Flights = {}
    BY <2>1 DEF Quiet, Flights
  <2> QED BY <2>1, <2>2, <2>3 DEF SetupInv, ToldInv, InStep
<1> QED BY <1>1, SetupHolds, PTL

\* A save never replaces a task that runs signed out by one that does not
\* (downgrade_interrupt): somebody asked for just that.
THEOREM AskedFirst == Spec => NoSilentDowngrade
<1> DEFINE Silent ==
      (task.there /\ task'.there /\ Unattended(task.kind) /\ ~Unattended(task'.kind))
         => \/ \E j \in DOMAIN jobs : /\ jobs'[j].phase # jobs[j].phase
                                      /\ jobs[j].asked # "save"
            \/ ~Without({"left", "resubmitted", "misread", "unconfirmed", "late"})
<1>1. SetupInv /\ [Next]_vars => [Silent]_vars
  <2>1. SUFFICES ASSUME SetupInv, Next, Calm,
                        task.there, task'.there, Unattended(task.kind), ~Unattended(task'.kind)
                 PROVE  \E j \in DOMAIN jobs : /\ jobs'[j].phase # jobs[j].phase
                                               /\ jobs[j].asked # "save"
    BY DEF Calm, vars
  <2>2. TypeOK /\ CalmInv
    BY <2>1 DEF SetupInv
  <2>3. task' # task
    BY <2>1
  <2>4. ASSUME NEW j \in DOMAIN jobs, NEW way, NEW effect, NEW readable,
               WorkerEnds(j, way, effect, readable)
        PROVE  jobs'[j].phase # jobs[j].phase /\ jobs[j].asked # "save"
    <3>1. task' = Done(j)
      BY <2>2, <2>3, <2>4, EndsDo
    <3>2. PICK b \in Jobs :
            jobs' = [jobs EXCEPT ![j] = b] /\ jobs[j].phase = "working" /\ b.phase = "done"
      BY <2>2, <2>4, EndsDo
    <3>3. jobs[j].op = "register" /\ task' = Replaced(j)
      BY <2>1, <3>1 DEF Done, NoTask
    <3>4. jobs[j].typed.kind = "token"
      BY <2>1, <3>3 DEF Replaced, Unattended
    <3>5. Asks(j)
      BY <2>2, <3>2 DEF CalmInv, Flights
    <3>6. jobs[j].asked # "save"
      BY <2>1, <3>2, <3>3, <3>4, <3>5 DEF Asks
    <3>7. jobs'[j].phase = "done"
      BY <2>2, <3>2 DEF TypeOK
    <3> QED BY <3>2, <3>6, <3>7
  <2>5. \E j \in DOMAIN jobs : \E way, effect, readable : WorkerEnds(j, way, effect, readable)
    <3>1. \A n, b : ~EditedTo(n) /\ ~SavedAs(n) /\ ~StartedBy(n, b)
      BY <2>3 DEF EditedTo, SavedAs, StartedBy
    <3>2. ~Open /\ ~Leave /\ \A district : ~MappingApply(district)
      BY <2>3 DEF Open, Leave, MappingApply
    <3>3. \A yes : ~Finish(yes) /\ \A j : ~Answer(j, yes) /\ ~WorkerReads(j)
      BY <2>3 DEF Finish, Answer, WorkerReads
    <3>4. \A j \in DOMAIN jobs : ~LateEffect(j)
      BY <2>2 DEF LateEffect, CalmInv
    <3> QED BY <2>1, <2>2, <3>1, <3>2, <3>3, <3>4, StepKinds
  <2> QED BY <2>4, <2>5
<1>2. NoSilentDowngrade <=> [][Silent]_vars
  BY PTL DEF NoSilentDowngrade
<1> QED BY <1>1, <1>2, SetupHolds, PTL DEF Spec

\* The last page of the wizard promises no delivery that the task does not
\* make (finish_copy, finish_summary_rows), where a record that cannot be read
\* is of a setup that was completed.
THEOREM LastPageHolds == ASSUME StartsKnown PROVE Spec => []FinishIsTrue
<1>1. SetupInv /\ KnownInv => FinishIsTrue
  <2>1. SUFFICES ASSUME SetupInv, KnownInv, OnFinish,
                        Without({"left", "resubmitted", "undercut", "misread",
                                 "unconfirmed", "late"})
                 PROVE  /\ ~InFlight(live)
                        /\ (task.there /\ FinishPage.delivers) => task.args.delivery
                        /\ (task.there /\ doc.delivery /\ ~FinishRows.notYet
                             /\ {"Delivery", "Schedule"} \subseteq FinishRows.done)
                               => task.args.delivery
                        /\ FinishPage.warns => FinishRows.notYet
    BY DEF FinishIsTrue
  <2>2. Straight /\ Calm /\ TypeOK /\ CalmInv /\ StraightInv
    BY <2>1 DEF Straight, Calm, Without, SetupInv
  <2>3. live # 0 /\ Here1.wizard /\ Here1.step = "finish"
    BY <2>1 DEF OnFinish, Here1
  <2>4. Flights = {} /\ Kin /\ Full /\ Here1.cfg = doc
    BY <2>2, <2>3, Idle DEF StraightInv, CalmInv
  <2>5. ~InFlight(live)
    BY <2>4 DEF InFlight, Awaited, Flights
  <2>6. Here1 \in Mounts /\ KnownMount(Here1)
    BY <2>1, <2>2, <2>3, LiveMount DEF KnownInv, Here1
  <2>7. task.there => doc.args # NoArgs /\ task.args = doc.args
    <3>1. SUFFICES ASSUME task.there PROVE doc.args # NoArgs /\ task.args = doc.args
      OBVIOUS
    <3>2. doc.registered
      BY <2>4, <3>1 DEF Kin
    <3>3. doc.args # NoArgs
      BY <2>3, <2>4, <2>6, <3>2 DEF KnownMount
    <3> QED BY <2>4, <3>2, <3>3 DEF Full
  <2> DEFINE desync == Desync(Here1)
  <2>8. task.there /\ Here1.status = "live" /\ doc.delivery /\ ~desync => task.args.delivery
    BY <2>4, <2>7 DEF Desync, ScheduleDeliveryDesync
  <2>9. FinishPage.delivers =>
           Here1.status = "live" /\ Here1.delivery = "stored" /\ ~desync
    BY DEF FinishPage, FinishCopy, FinishNeedsAttention, DeliveryConfigured, Here1
  <2>10. FinishRows.notYet <=> Here1.status = "live" /\ desync
    BY DEF FinishRows, FinishSummaryRows, Here1
  <2>11. "Schedule" \in FinishRows.done => Here1.status = "live"
    BY DEF FinishRows, FinishSummaryRows, Here1
  <2>12. FinishPage.warns => Here1.status = "live" /\ desync
    BY DEF FinishPage, FinishCopy, FinishNeedsAttention, Here1
  <2>13. Here1.delivery = "stored" => doc.delivery
    BY <2>4, <2>6 DEF Mounts
  <2> HIDE DEF desync
  <2> QED BY <2>5, <2>8, <2>9, <2>10, <2>11, <2>12, <2>13
<1>2. Init => KnownInv
  BY KnownInit
<1>3. SetupInv /\ KnownInv /\ [Next]_vars => KnownInv'
  BY KnownStep DEF SetupInv
<1> QED BY <1>1, <1>2, <1>3, SetupHolds, PTL DEF Spec

=============================================================================
