---------------------------- MODULE WatchProofs ----------------------------
(***************************************************************************)
(* Proofs about Watch, for any length of the year, any season, thresholds, *)
(* number of runs and of records kept, any ways a run ends that leave the  *)
(* records the pipeline writes, and any accounts and settings.             *)
(*                                                                         *)
(*   WatchTypes     what every variable ranges over;                       *)
(*   SurfacesHold   Home, Run History, the dot on the rail and the wizard  *)
(*                  agree over the same facts (SurfacesAgree);             *)
(*   GreenEarned    a green Home over a task that answers is earned        *)
(*                  (GreenIsEarned).                                       *)
(*                                                                         *)
(* What VerdictRecords returns, which recurses over the records, is proved *)
(* by the least index at which it would be something else.                 *)
(***************************************************************************)
EXTENDS Watch, SequenceTheorems, WellFoundedInduction, TLAPS

\* A half day, or none.
Stamps == Nat \cup {Never}

Codes == {"has_not_run", "zero", "one", "three", "running", "terminated"}

Tasks == [there : BOOLEAN, lastRun : Stamps, result : Codes,
          how : {"none", "skipped", "recorded", "silent"}]

Statuses ==
    [state : {"unprobed", "live", "missing", "unknown"}, expected : BOOLEAN,
     contradiction : BOOLEAN, attention : BOOLEAN, next : BOOLEAN, foreign : BOOLEAN,
     shared : BOOLEAN, moved : BOOLEAN,
     result : CalmResults \cup {"failed", "delivery_failed", "unrecognised"}]

Views ==
    [screen : {"none", "home", "run_history", "rail", "wizard"}, readable : BOOLEAN,
     records : Seq(RunRecords), created : Stamps, phase : {"idle", "asked", "answered"},
     status : Statuses, how : {"none", "skipped", "recorded", "silent"}, ran : Stamps]

\* The records a store that was created at born can hold.
HeldSince(born) ==
    {r \in RunRecords : /\ born # Never /\ born <= r.at
                        /\ r.ok => r.status = "success"}

TypeOK ==
    /\ clock \in Nat
    /\ place \in Places
    /\ hint \in Stamps
    /\ task \in Tasks
    /\ ledger \in [created : Stamps, records : Seq(RunRecords)]
    /\ view \in Views
    /\ runs \in Nat

\* Every record the store holds was written since the store was created, by now.
LedgerInv ==
    /\ ledger.created <= clock
    /\ ledger.records \in Seq(HeldSince(ledger.created))

TaskInv == task.how = "silent" => task.result = "terminated"

\* A screen holds records as the store has them; the task it shows is this place's,
\* and a live one without a contradiction ran no later than the newest record.
ViewInv ==
    /\ view.screen = "home" => view.records \in Seq(HeldSince(view.created))
    /\ view.status.attention => view.status.state \in {"live", "missing"}
    /\ view.status.state \in {"live", "missing"} =>
         view.status.foreign = place.foreign /\ view.status.shared = place.shared
    /\ view.status.state = "live" =>
         /\ view.status.attention =
              (view.status.contradiction
                 \/ (view.status.foreign /\ ReportedAProblem(view.status.result)))
         /\ view.how = "silent" /\ ~Elsewhere /\ ~view.status.contradiction =>
              \/ view.ran = Never \/ VerdictLatestTimestamp(view.records) = Never
              \/ view.ran <= VerdictLatestTimestamp(view.records)

Inv == TypeOK /\ LedgerInv /\ TaskInv /\ ViewInv

-----------------------------------------------------------------------------
(* The records that count are among the records.                           *)

LEMMA Least ==
    ASSUME NEW T \in SUBSET Nat, T # {}
    PROVE  \E m \in T : \A k \in T : m <= k
<1>1. PICK m \in T : \A k \in T : <<k, m>> \notin OpToRel(<, Nat)
  BY NatLessThanWellFounded, WFMin
<1>2. \A k \in T : ~(k < m)
  BY <1>1 DEF OpToRel
<1> QED BY <1>2

\* VerdictRecords after i records.
Count(s, g, i) ==
    IF i = 0 THEN <<>>
    ELSE IF IsFailedManualAttempt(s[i]) THEN g[i - 1]
    ELSE Append(g[i - 1], s[i])

\* Its recursion has a solution, by the least prefix for which it had none.
LEMMA CountExists ==
    ASSUME NEW s, NEW n \in Nat
    PROVE  \E g : g = [i \in 0 .. n |-> Count(s, g, i)]
<1> DEFINE Good(k) == \E g : g = [i \in 0 .. k |-> Count(s, g, i)]
           T == {k \in Nat : ~Good(k)}
<1> SUFFICES ASSUME T # {} PROVE FALSE
  OBVIOUS
<1>1. PICK m \in T : \A k \in T : m <= k
  <2>1. T \in SUBSET Nat
    OBVIOUS
  <2> HIDE DEF T
  <2> QED BY <2>1, Least
<1>2. m # 0
  <2> DEFINE z == [i \in 0 .. 0 |-> <<>>]
  <2>1. \A i \in 0 .. 0 : z[i] = Count(s, z, i)
    BY DEF Count
  <2>2. z = [i \in 0 .. 0 |-> Count(s, z, i)]
    BY <2>1
  <2>3. Good(0)
    BY <2>2
  <2> QED BY <2>3
<1>3. m \in Nat \ {0} /\ m - 1 \in Nat
  BY <1>2
<1>4. m - 1 \notin T
  <2> HIDE DEF T
  <2> QED BY <1>1, <1>3
<1>5. PICK g : g = [i \in 0 .. m - 1 |-> Count(s, g, i)]
  BY <1>3, <1>4
<1> DEFINE h == [i \in 0 .. m |-> IF i = m THEN Count(s, g, m) ELSE g[i]]
<1> HIDE DEF T, Good
<1>6. \A i \in 0 .. m : h[i] = Count(s, h, i)
  <2>1. ASSUME NEW i \in 0 .. m - 1 PROVE h[i] = g[i] /\ g[i] = Count(s, g, i)
    <3>1. i \in 0 .. m /\ i # m
      BY <1>3
    <3>2. g[i] = Count(s, g, i)
      BY <1>5
    <3> QED BY <3>1, <3>2
  <2>2. h[m] = Count(s, g, m) /\ h[m - 1] = g[m - 1]
    BY <1>3, <1>5
  <2>3. h[m] = Count(s, h, m)
    BY <1>3, <2>2 DEF Count
  <2>4. ASSUME NEW i \in 0 .. m - 1 PROVE Count(s, g, i) = Count(s, h, i)
    BY <1>3, <2>1 DEF Count
  <2> HIDE DEF h
  <2> QED BY <2>1, <2>3, <2>4, <1>3
<1>7. h = [i \in 0 .. m |-> Count(s, h, i)]
  BY <1>6
<1>8. Good(m)
  BY <1>7 DEF Good
<1> QED BY <1>1, <1>8 DEF T

LEMMA VerdictRecordsFacts ==
    ASSUME NEW S, NEW s \in Seq(S)
    PROVE  VerdictRecords(s) \in Seq({r \in S : ~IsFailedManualAttempt(r)})
<1> DEFINE F == CHOOSE g : g = [i \in 0 .. Len(s) |-> Count(s, g, i)]
<1>1. VerdictRecords(s) = F[Len(s)]
  BY DEF VerdictRecords, Count
<1>2. \E g : g = [i \in 0 .. Len(s) |-> Count(s, g, i)]
  <2>1. Len(s) \in Nat
    OBVIOUS
  <2> QED BY <2>1, CountExists
<1>3. F = [i \in 0 .. Len(s) |-> Count(s, F, i)]
  BY <1>2
<1> HIDE DEF F
<1> DEFINE Out == {r \in S : ~IsFailedManualAttempt(r)}
           T == {k \in 0 .. Len(s) : F[k] \notin Seq(Out)}
<1>4. ASSUME T # {} PROVE FALSE
  <2>1. PICK m \in T : \A k \in T : m <= k
    <3>1. T \in SUBSET Nat
      OBVIOUS
    <3> HIDE DEF T
    <3> QED BY <1>4, <3>1, Least
  <2>2. m \in 0 .. Len(s) /\ F[m] = Count(s, F, m) /\ F[m] \notin Seq(Out)
    BY <1>3
  <2>3. m # 0
    BY <2>2 DEF Count
  <2>4. m - 1 \in 0 .. Len(s) /\ m - 1 < m /\ s[m] \in S
    BY <2>2, <2>3
  <2>5. F[m - 1] \in Seq(Out)
    BY <2>1, <2>4
  <2> HIDE DEF T
  <2> QED BY <2>2, <2>3, <2>4, <2>5 DEF Count
<1>5. Len(s) \in 0 .. Len(s)
  OBVIOUS
<1> QED BY <1>1, <1>4, <1>5

-----------------------------------------------------------------------------
(* What a record says, and what the two surfaces make of it.               *)

Failing == {"failed_etl", "failed_delivery"}
Reasons == Failing \cup {"partial", "anomaly", "data_warnings", "clean"}

LEMMA ReasonFacts ==
    ASSUME NEW r, NEW prior
    PROVE  /\ LatestReason(r, prior) \in Reasons
           /\ LatestReason(r, prior) = "failed_delivery" => ~r.ok
           /\ LatestReason(r, prior) = "failed_etl" => r.status # "success"
           /\ LatestReason(r, prior) = "clean" =>
                /\ r.status = "success"
                /\ r.attempted => r.ok
                /\ LeftOutOutcomes(r, prior) = {}
  BY DEF LatestReason, Reasons, Failing

LEMMA VerdictFacts ==
    \A reason \in Reasons :
        /\ VerdictForReason[reason] \in {"HEALTHY", "WARNING", "FAILED"}
        /\ VerdictForReason[reason] = "FAILED" <=> reason \in Failing
        /\ VerdictForReason[reason] = "HEALTHY" <=> reason = "clean"
  BY DEF Reasons, Failing, VerdictForReason

\* Over a record that counts, Home and Run History draw the same conclusion.
Agree(home, table, paused, elsewhere, missed, stale, reason) ==
    /\ home.verdict = "FAILED" <=> reason \in Failing
    /\ table.verdict = "FAILED" <=> reason \in Failing
    /\ home.verdict = "HEALTHY" => table.verdict = "HEALTHY"
    /\ home.verdict = "HEALTHY" /\ paused => home.why = "paused"
    /\ home.why = "healthy" =>
         reason = "clean" /\ ~paused /\ ~elsewhere /\ ~missed /\ ~stale
    /\ home.why # "schedule"

ForeignTable(status) == [verdict |-> ForeignRecordsStatus(status).verdict, why |-> "foreign"]

LEMMA OverRecords ==
    ASSUME NEW latest, NEW paused \in BOOLEAN, NEW elsewhere \in BOOLEAN,
           NEW missed \in BOOLEAN, NEW now, NEW status, NEW reason \in Reasons
    PROVE  Agree(HomeOverRecords(latest, paused, elsewhere, missed, now, status, reason),
                 HistoryOverRecords(latest, paused, elsewhere, ForeignTable(status), now, reason),
                 paused, elsewhere, missed, IsStale(latest.at, now, StaleAfter), reason)
  BY VerdictFacts
  DEF HomeOverRecords, HistoryOverRecords, ForeignRecordsStatus, ForeignTable, Home, Failing,
      Reasons, Agree

-----------------------------------------------------------------------------
(* Every step keeps the invariant.                                         *)

LEMMA TaskFacts ==
    /\ NoTask \in Tasks /\ NoTask.how = "none"
    /\ \A there \in BOOLEAN : /\ [NoTask EXCEPT !.there = there] \in Tasks
                              /\ [NoTask EXCEPT !.there = there].how = "none"
<1>1. NoTask \in Tasks /\ NoTask.how = "none"
  BY DEF NoTask, Tasks, Stamps, Codes
<1>2. \A there \in BOOLEAN : /\ [NoTask EXCEPT !.there = there] \in Tasks
                             /\ [NoTask EXCEPT !.there = there].how = "none"
  BY <1>1 DEF Tasks
<1> QED BY <1>1, <1>2

LEMMA InitInv == Init => Inv
<1> SUFFICES ASSUME Init PROVE Inv
  OBVIOUS
<1>1. task \in Tasks /\ task.how = "none" /\ hint \in Stamps
  <2>1. hint \in Stamps /\ (hint # Never) \in BOOLEAN
    BY DEF Init, Stamps
  <2> QED BY <2>1, TaskFacts DEF Init
<1>2. NoStatus \in Statuses /\ NoView \in Views
  BY DEF NoStatus, Statuses, NoView, Views, CalmResults, Stamps, Never
<1>3. TypeOK
  BY <1>1, <1>2 DEF Init, TypeOK, Stamps, Never
<1>4. LedgerInv
  BY DEF Init, LedgerInv, Never
<1> QED BY <1>1, <1>3, <1>4 DEF Inv, TaskInv, ViewInv, Init, NoView, NoStatus

LEMMA HeldFacts ==
    /\ \A born : HeldSince(born) \subseteq RunRecords
    /\ HeldSince(Never) = {}
  BY DEF HeldSince

LEMMA ResultFacts ==
    ASSUME NEW r \in Results, NEW source \in {"scheduled", "manual"}, NEW at \in Nat
    PROVE  /\ [r EXCEPT !.source = source, !.at = at] \in RunRecords
           /\ \A born \in Nat : born <= at =>
                [r EXCEPT !.source = source, !.at = at] \in HeldSince(born)
<1> DEFINE written == [r EXCEPT !.source = source, !.at = at]
<1>1. r \in RunRecords /\ (r.ok => r.status = "success")
  BY ResultsAssumption
<1>2. written \in RunRecords /\ written.at = at /\ written.ok = r.ok /\ written.status = r.status
  BY <1>1 DEF RunRecords
<1> HIDE DEF written
<1>3. \A born \in Nat : born <= at => written \in HeldSince(born)
  BY <1>1, <1>2 DEF HeldSince, Never
<1> QED BY <1>2, <1>3 DEF written

\* A record that is written goes to the head of the ledger.
LEMMA RecordedFacts ==
    ASSUME TypeOK, LedgerInv, NEW r \in Results, NEW source \in {"scheduled", "manual"},
           Recorded([r EXCEPT !.source = source, !.at = clock])
    PROVE  /\ ledger' \in [created : Stamps, records : Seq(RunRecords)]
           /\ ledger'.created <= clock
           /\ ledger'.records \in Seq(HeldSince(ledger'.created))
<1> DEFINE written == [r EXCEPT !.source = source, !.at = clock]
           born == IF ledger.created = Never THEN clock ELSE ledger.created
           all == <<written>> \o ledger.records
           n == IF Len(ledger.records) < Kept THEN Len(ledger.records) + 1 ELSE Kept
<1>1. clock \in Nat /\ ledger.created \in Stamps /\ ledger.created <= clock
      /\ ledger.records \in Seq(HeldSince(ledger.created))
  BY DEF TypeOK, LedgerInv
<1>2. born \in Nat /\ born <= clock
  BY <1>1 DEF Stamps, Never
<1>3. ledger.records \in Seq(HeldSince(born))
  <2>1. CASE ledger.created = Never
    <3>1. ledger.records = <<>>
      BY <1>1, <2>1, HeldFacts
    <3> QED BY <3>1
  <2>2. CASE ledger.created # Never
    BY <1>1, <2>2
  <2> QED BY <2>1, <2>2
<1>4. written \in HeldSince(born)
  BY <1>1, <1>2, ResultFacts
<1>5. ledger' = [created |-> born, records |-> SubSeq(all, 1, n)]
  BY DEF Recorded
<1> HIDE DEF written, born
<1>6. all \in Seq(HeldSince(born)) /\ Len(all) = Len(ledger.records) + 1
  BY <1>3, <1>4
<1>7. n \in 0 .. Len(all)
  BY <1>3, <1>6, BoundsAssumption
<1> HIDE DEF all, n
<1>8. SubSeq(all, 1, n) \in Seq(HeldSince(born))
  BY <1>6, <1>7, SubSeqProperties
<1>9. Seq(HeldSince(born)) \subseteq Seq(RunRecords)
  BY HeldFacts
<1> QED BY <1>2, <1>5, <1>8, <1>9 DEF Stamps

\* Everything but the surfaces moves; what they hold does not change.
LEMMA WorldStep ==
    ASSUME Inv, view' = view, place' = place, clock' \in Nat, runs' \in Nat, hint' \in Stamps,
           task' \in Tasks, task'.how = "silent" => task'.result = "terminated",
           ledger' \in [created : Stamps, records : Seq(RunRecords)],
           ledger'.created <= clock', ledger'.records \in Seq(HeldSince(ledger'.created))
    PROVE  Inv'
  BY DEF Inv, TypeOK, LedgerInv, TaskInv, ViewInv, Elsewhere

LEMMA WorldSteps ==
    ASSUME Inv, \/ Tick \/ NightSkips \/ NightStarts \/ NightIsKilled
                \/ \E r \in Results : NightEnds(r) \/ Manual(r)
                \/ TaskVanishes \/ Register \/ Unregister
    PROVE  Inv'
<1>1. /\ clock \in Nat /\ runs \in Nat /\ hint \in Stamps /\ task \in Tasks
      /\ task.how = "silent" => task.result = "terminated"
      /\ ledger \in [created : Stamps, records : Seq(RunRecords)]
      /\ ledger.created <= clock /\ ledger.records \in Seq(HeldSince(ledger.created))
      /\ clock \in Stamps /\ Never \in Stamps
  BY DEF Inv, TypeOK, LedgerInv, TaskInv, Stamps
<1>2. CASE Tick
  <2>1. clock' = clock + 1 /\ UNCHANGED <<place, hint, task, ledger, view, runs>>
    BY <1>2 DEF Tick
  <2>2. clock' \in Nat /\ ledger.created <= clock'
    BY <1>1, <2>1 DEF Stamps, Never
  <2> QED BY <1>1, <2>1, <2>2, WorldStep
<1>3. CASE NightSkips
  <2>1. /\ task' = [task EXCEPT !.lastRun = clock, !.result = "zero", !.how = "skipped"]
        /\ UNCHANGED <<clock, place, hint, ledger, view, runs>>
    BY <1>3 DEF NightSkips
  <2>2. task' \in Tasks /\ task'.how = "skipped"
    BY <1>1, <2>1 DEF Tasks, Codes
  <2> QED BY <1>1, <2>1, <2>2, WorldStep
<1>4. CASE NightStarts
  <2>1. /\ task' = [task EXCEPT !.lastRun = clock, !.result = "running", !.how = "none"]
        /\ runs' = runs + 1
        /\ UNCHANGED <<clock, place, hint, ledger, view>>
    BY <1>4 DEF NightStarts
  <2>2. task' \in Tasks /\ task'.how = "none"
    BY <1>1, <2>1 DEF Tasks, Codes
  <2>3. runs' \in Nat
    BY <1>1, <2>1
  <2> QED BY <1>1, <2>1, <2>2, <2>3, WorldStep
<1>5. CASE NightIsKilled
  <2>1. /\ task' = [task EXCEPT !.result = "terminated", !.how = "silent"]
        /\ UNCHANGED <<clock, place, hint, ledger, view, runs>>
    BY <1>5 DEF NightIsKilled
  <2>2. task' \in Tasks /\ task'.result = "terminated"
    BY <1>1, <2>1 DEF Tasks, Codes
  <2> QED BY <1>1, <2>1, <2>2, WorldStep
<1>6. ASSUME NEW r \in Results, NightEnds(r) PROVE Inv'
  <2>1. /\ task' = [task EXCEPT !.result = ExitCode(r), !.how = "recorded"]
        /\ \/ UNCHANGED ledger
           \/ Recorded([r EXCEPT !.source = "scheduled", !.at = clock])
        /\ UNCHANGED <<clock, place, hint, view, runs>>
    BY <1>6 DEF NightEnds
  <2>2. ExitCode(r) \in Codes
    BY DEF ExitCode, Codes
  <2>3. task' \in Tasks /\ task'.how = "recorded"
    BY <1>1, <2>1, <2>2 DEF Tasks
  <2>4. /\ ledger' \in [created : Stamps, records : Seq(RunRecords)]
        /\ ledger'.created <= clock /\ ledger'.records \in Seq(HeldSince(ledger'.created))
    BY <1>1, <2>1, RecordedFacts DEF Inv
  <2> QED BY <1>1, <2>1, <2>3, <2>4, WorldStep
<1>7. ASSUME NEW r \in Results, Manual(r) PROVE Inv'
  <2>1. /\ runs' = runs + 1
        /\ Recorded([r EXCEPT !.source = "manual", !.at = clock])
        /\ UNCHANGED <<clock, place, hint, task, view>>
    BY <1>7 DEF Manual
  <2>2. /\ ledger' \in [created : Stamps, records : Seq(RunRecords)]
        /\ ledger'.created <= clock /\ ledger'.records \in Seq(HeldSince(ledger'.created))
    BY <2>1, RecordedFacts DEF Inv
  <2> QED BY <1>1, <2>1, <2>2, WorldStep
<1>8. CASE TaskVanishes
  <2>1. task' = NoTask /\ UNCHANGED <<clock, place, hint, ledger, view, runs>>
    BY <1>8 DEF TaskVanishes
  <2> QED BY <1>1, <2>1, TaskFacts, WorldStep
<1>9. CASE Register
  <2>1. /\ hint' = clock /\ task' = [NoTask EXCEPT !.there = TRUE]
        /\ UNCHANGED <<clock, place, ledger, view, runs>>
    BY <1>9 DEF Register
  <2> QED BY <1>1, <2>1, TaskFacts, WorldStep
<1>10. CASE Unregister
  <2>1. hint' = Never /\ task' = NoTask /\ UNCHANGED <<clock, place, ledger, view, runs>>
    BY <1>10 DEF Unregister
  <2> QED BY <1>1, <2>1, TaskFacts, WorldStep
<1> QED BY <1>2, <1>3, <1>4, <1>5, <1>6, <1>7, <1>8, <1>9, <1>10

LEMMA ViewTypes == NoStatus \in Statuses /\ NoView \in Views
<1>1. NoStatus \in Statuses
  BY DEF NoStatus, Statuses, CalmResults
<1> QED BY <1>1 DEF NoView, Views, Stamps

\* What a status says of the reading of the task and the newest record.
StatusSays(status, readback, latest, foreign, shared) ==
    /\ status \in Statuses
    /\ status.attention => status.state \in {"live", "missing"}
    /\ status.state \in {"live", "missing"} =>
         status.foreign = foreign /\ status.shared = shared
    /\ status.state = "live" =>
         /\ status.attention = (status.contradiction
                                  \/ (status.foreign /\ ReportedAProblem(status.result)))
         /\ RunResultVerdict(readback.result) # "running" /\ ~status.contradiction
              => ~IsContradiction(readback, latest, foreign, shared)

LEMMA StatusFacts ==
    ASSUME NEW readback, NEW expected \in BOOLEAN, NEW latest, NEW foreign \in BOOLEAN,
           NEW shared \in BOOLEAN, readback.next \in BOOLEAN
    PROVE  StatusSays(DeriveScheduleStatus(readback, expected, latest, foreign, shared, FALSE),
                      readback, latest, foreign, shared)
<1> DEFINE status == DeriveScheduleStatus(readback, expected, latest, foreign, shared, FALSE)
           result == RunResultVerdict(readback.result)
           gap == result # "running" /\ IsContradiction(readback, latest, foreign, shared)
           attention == gap \/ (foreign /\ ReportedAProblem(result))
           next == ~gap /\ readback.next
<1>1. CASE readback.found = "yes"
  <2>1. result \in CalmResults \cup {"failed", "delivery_failed", "unrecognised"}
    BY DEF RunResultVerdict, CalmResults
  <2>2. gap \in BOOLEAN /\ attention \in BOOLEAN /\ next \in BOOLEAN
    BY DEF ReportedAProblem
  <2>3. status = [state |-> "live", expected |-> expected, contradiction |-> gap,
                  attention |-> attention, next |-> next, foreign |-> foreign,
                  shared |-> shared, result |-> result, moved |-> FALSE]
    BY <1>1 DEF DeriveScheduleStatus, LiveStatus
  <2>4. attention = (gap \/ (foreign /\ ReportedAProblem(result)))
    OBVIOUS
  <2>5. result # "running" /\ ~gap => ~IsContradiction(readback, latest, foreign, shared)
    OBVIOUS
  <2> HIDE DEF status, result, gap, attention, next
  <2>6. /\ status.state = "live" /\ status.foreign = foreign /\ status.shared = shared
        /\ status.result = result /\ status.contradiction = gap /\ status.attention = attention
    BY <2>3
  <2>7. status \in Statuses
    BY <2>1, <2>2, <2>3 DEF Statuses
  <2> QED BY <2>4, <2>5, <2>6, <2>7 DEF result, status, StatusSays
<1>2. CASE readback.found # "yes"
  <2>1. status \in {MissingStatus(expected, foreign, shared),
                    UnknownStatus(expected, foreign, shared)}
    BY <1>2 DEF DeriveScheduleStatus
  <2> HIDE DEF status
  <2>2. status \in Statuses
    BY <2>1, ViewTypes DEF MissingStatus, UnknownStatus, Statuses
  <2>3. /\ status.state \in {"missing", "unknown"}
        /\ status.attention => status.state = "missing"
        /\ status.state = "missing" => status.foreign = foreign /\ status.shared = shared
    BY <2>1 DEF MissingStatus, UnknownStatus, NoStatus
  <2> QED BY <2>2, <2>3 DEF status, StatusSays
<1> QED BY <1>1, <1>2

LEMMA OpenSteps ==
    ASSUME Inv, NEW screen \in {"home", "run_history", "rail"}, NEW readable \in BOOLEAN,
           Open(screen, readable)
    PROVE  Inv'
<1> DEFINE records == IF readable THEN ledger.records ELSE <<>>
           created == IF ~readable \/ (screen = "run_history" /\ records # <<>>)
                        THEN Never ELSE ledger.created
           wizard == screen = "home" /\ ~place.complete
<1>1. /\ view' = [NoView EXCEPT !.screen = IF wizard THEN "wizard" ELSE screen,
                    !.readable = readable, !.records = records, !.created = created,
                    !.phase = IF wizard THEN "idle" ELSE "asked"]
      /\ UNCHANGED world
  BY DEF Open
<1>2. records \in Seq(RunRecords) /\ created \in Stamps
  BY DEF Inv, TypeOK, Stamps
<1>3. screen = "home" => records \in Seq(HeldSince(created))
  <2>1. CASE readable
    BY <2>1 DEF Inv, LedgerInv
  <2>2. CASE ~readable
    <3>1. records = <<>> /\ <<>> \in Seq(HeldSince(created))
      BY <2>2
    <3> HIDE DEF records, created
    <3> QED BY <3>1
  <2> QED BY <2>1, <2>2
<1> HIDE DEF records, created, wizard
<1>4. view' \in Views
  BY <1>1, <1>2, ViewTypes DEF Views
<1>5. view'.screen = "home" => screen = "home"
  BY <1>1, ViewTypes DEF Views
<1>6. view'.records = records /\ view'.created = created /\ view'.status = NoStatus
  BY <1>1 DEF NoView
<1>7. ViewInv'
  BY <1>3, <1>5, <1>6 DEF ViewInv, NoStatus
<1>8. TypeOK' /\ LedgerInv' /\ TaskInv'
  BY <1>1, <1>4 DEF Inv, TypeOK, LedgerInv, TaskInv, world
<1> QED BY <1>7, <1>8 DEF Inv

LEMMA ProbeSteps ==
    ASSUME Inv, NEW answered \in BOOLEAN, ProbeReads(answered)
    PROVE  Inv'
<1> DEFINE readback == Readback(answered)
           latest == VerdictLatestTimestamp(view.records)
           status == DeriveScheduleStatus(readback, hint # Never, latest, place.foreign,
                                          place.shared, FALSE)
<1>1. /\ view' = [view EXCEPT !.phase = "answered", !.status = status,
                              !.how = task.how, !.ran = task.lastRun]
      /\ UNCHANGED world
  BY DEF ProbeReads
<1>2. place.foreign \in BOOLEAN /\ place.shared \in BOOLEAN
  BY PlacesAssumption DEF Inv, TypeOK
<1>3. readback.next \in BOOLEAN /\ readback.lastRun = task.lastRun
      /\ readback.result = task.result
  BY DEF Readback, Inv, TypeOK, Tasks
<1>4. (hint # Never) \in BOOLEAN
  OBVIOUS
<1>5. StatusSays(status, readback, latest, place.foreign, place.shared)
  <2> HIDE DEF readback, latest
  <2> QED BY <1>2, <1>3, <1>4, StatusFacts
<1>6. ASSUME status.state = "live", task.how = "silent", ~Elsewhere, ~status.contradiction
      PROVE  task.lastRun = Never \/ latest = Never \/ task.lastRun <= latest
  <2>1. RunResultVerdict(readback.result) = "unrecognised"
    BY <1>3, <1>6 DEF Inv, TaskInv, RunResultVerdict
  <2>2. ~IsContradiction(readback, latest, place.foreign, place.shared)
    BY <1>5, <1>6, <2>1 DEF StatusSays
  <2>3. task.lastRun = Never \/ latest = Never \/ ~(task.lastRun > latest)
    BY <1>3, <1>6, <2>2 DEF IsContradiction, Elsewhere
  <2>4. task.lastRun \in Int
    BY DEF Inv, TypeOK, Tasks, Stamps, Never
  <2>5. latest \in Int
    <3>1. VerdictRecords(view.records) \in Seq({r \in RunRecords : ~IsFailedManualAttempt(r)})
      BY VerdictRecordsFacts DEF Inv, TypeOK, Views
    <3>2. VerdictRecords(view.records) # <<>> => VerdictRecords(view.records)[1] \in RunRecords
      BY <3>1
    <3> QED BY <3>2 DEF VerdictLatestTimestamp, RunRecords, Never
  <2> QED BY <2>3, <2>4, <2>5
<1> HIDE DEF status, readback, latest
<1>7. view' \in Views /\ view'.screen = view.screen /\ view'.records = view.records
      /\ view'.created = view.created /\ view'.status = status /\ view'.how = task.how
      /\ view'.ran = task.lastRun
  BY <1>1, <1>5 DEF Inv, TypeOK, Views, Tasks, StatusSays
<1>8. ViewInv'
  BY <1>1, <1>5, <1>6, <1>7 DEF Inv, ViewInv, world, Elsewhere, latest, StatusSays
<1>9. TypeOK' /\ LedgerInv' /\ TaskInv'
  BY <1>1, <1>7 DEF Inv, TypeOK, LedgerInv, TaskInv, world
<1> QED BY <1>8, <1>9 DEF Inv

LEMMA Invariant == Spec => []Inv
<1>1. Inv /\ [Next]_vars => Inv'
  <2> SUFFICES ASSUME Inv, [Next]_vars PROVE Inv'
    OBVIOUS
  <2>1. CASE Leave
    <3>1. view' = NoView /\ UNCHANGED world
      BY <2>1 DEF Leave
    <3>2. TypeOK' /\ LedgerInv' /\ TaskInv'
      BY <3>1, ViewTypes DEF Inv, TypeOK, LedgerInv, TaskInv, world
    <3> QED BY <3>1, <3>2 DEF Inv, ViewInv, NoView, NoStatus
  <2>2. CASE UNCHANGED vars
    BY <2>2 DEF vars, Inv, TypeOK, LedgerInv, TaskInv, ViewInv, Elsewhere
  <2>3. CASE Next
    BY <2>1, <2>3, WorldSteps, OpenSteps, ProbeSteps DEF Next
  <2> QED BY <2>2, <2>3
<1> QED BY InitInv, <1>1, PTL DEF Spec

-----------------------------------------------------------------------------
(* What Home and Run History conclude from the same facts.                 *)

ReasonOf(records) == LatestReason(records[1], BuildRecordFor(records, 1))

Resting(cfg, today, status) ==
    SyncWindowPaused(cfg, today, status.foreign, status.shared) /\ ~ConfirmedMissing(status)

Missed(records, cfg, now, created, status) ==
    IsMissedRun(records, now, IF created # Never THEN created ELSE cfg.registeredAt, status)

\* The schedule wants attention, and neither a failure nor the season owns the band.
Alarmed(records, cfg, today, status) ==
    /\ status.attention
    /\ ~LatestIsFailure(records)
    /\ ~(Resting(cfg, today, status) /\ status.state = "live")

LEMMA FailureIsReason ==
    ASSUME NEW records
    PROVE  LatestIsFailure(records) <=> records # <<>> /\ ReasonOf(records) \in Failing
<1>1. ReasonOf(records) \in Reasons
  BY ReasonFacts DEF ReasonOf
<1> QED BY <1>1, VerdictFacts DEF LatestIsFailure, ReasonOf

\* Home and Run History, over the records that count.
HomeSays(home, records, readable, cfg, now, today, created, status) ==
    LET paused == Resting(cfg, today, status)
        elsewhere == ForeignRecordsElsewhere(records, now, status)
        missed == Missed(records, cfg, now, created, status)
        alarmed == Alarmed(records, cfg, today, status)
    IN  /\ ~readable => home = Home("WARNING", "unavailable", "run_history")
        /\ readable /\ alarmed => home = Home("WARNING", "schedule", "setup")
        /\ readable /\ ~alarmed /\ records = <<>> =>
             /\ paused => home = Home("HEALTHY", "paused", "none")
             /\ ~paused /\ elsewhere => home = ForeignRecordsStatus(status)
             /\ ~paused /\ ~elsewhere => home.verdict = "WARNING" /\ home.why # "healthy"
        /\ readable /\ ~alarmed /\ records # <<>> =>
             home = HomeOverRecords(records[1], paused, elsewhere, missed, now, status,
                                    ReasonOf(records))

TableSays(table, records, readable, cfg, now, today, status) ==
    LET paused == Resting(cfg, today, status)
        elsewhere == ForeignRecordsElsewhere(records, now, status)
    IN  /\ ~readable => table.verdict = "WARNING"
        /\ readable /\ records = <<>> =>
             /\ paused => table.verdict = "HEALTHY"
             /\ ~paused /\ elsewhere => table = ForeignTable(status)
             /\ ~paused /\ ~elsewhere => table.verdict = "WARNING"
        /\ readable /\ records # <<>> =>
             table = HistoryOverRecords(records[1], paused, elsewhere, ForeignTable(status),
                                        now, ReasonOf(records))

LEMMA HomeCases ==
    ASSUME NEW all, NEW readable, NEW cfg, NEW now, NEW today, NEW created, NEW status
    PROVE  HomeSays(DeriveHomeStatus(all, readable, cfg, now, today, created, status),
                    VerdictRecords(all), readable, cfg, now, today, created, status)
<1> DEFINE home == DeriveHomeStatus(all, readable, cfg, now, today, created, status)
           records == VerdictRecords(all)
           paused == Resting(cfg, today, status)
           elsewhere == ForeignRecordsElsewhere(records, now, status)
           missed == Missed(records, cfg, now, created, status)
           headline == EmptyHeadline(created, all # <<>> /\ records = <<>>)
<1>1. home =
        IF ~readable THEN Home("WARNING", "unavailable", "run_history")
        ELSE IF Alarmed(records, cfg, today, status) THEN Home("WARNING", "schedule", "setup")
        ELSE IF records = <<>> THEN
            CASE paused -> Home("HEALTHY", "paused", "none")
              [] ~paused /\ elsewhere -> ForeignRecordsStatus(status)
              [] ~paused /\ ~elsewhere /\ missed -> Home("WARNING", "missed", "run_history")
              [] OTHER -> Home("WARNING", headline, "none")
        ELSE HomeOverRecords(records[1], paused, elsewhere, missed, now, status,
                             ReasonOf(records))
  BY DEF DeriveHomeStatus, Alarmed, Resting, Missed, ReasonOf
<1>2. headline \in {"no_completed_runs", "fresh_start", "no_runs"}
  BY DEF EmptyHeadline
<1>3. \A verdict, why, fix : Home(verdict, why, fix).verdict = verdict
                             /\ Home(verdict, why, fix).why = why
  BY DEF Home
<1> HIDE DEF home, records, paused, elsewhere, missed, headline
<1>4. ~readable => home = Home("WARNING", "unavailable", "run_history")
  BY <1>1
<1>5. readable /\ Alarmed(records, cfg, today, status) =>
        home = Home("WARNING", "schedule", "setup")
  BY <1>1
<1>6. ASSUME readable, ~Alarmed(records, cfg, today, status), records = <<>>
      PROVE  /\ paused => home = Home("HEALTHY", "paused", "none")
             /\ ~paused /\ elsewhere => home = ForeignRecordsStatus(status)
             /\ ~paused /\ ~elsewhere => home.verdict = "WARNING" /\ home.why # "healthy"
  BY <1>1, <1>2, <1>3, <1>6
<1>7. readable /\ ~Alarmed(records, cfg, today, status) /\ records # <<>> =>
        home = HomeOverRecords(records[1], paused, elsewhere, missed, now, status,
                               ReasonOf(records))
  BY <1>1
<1> QED BY <1>4, <1>5, <1>6, <1>7 DEF home, records, paused, elsewhere, missed, HomeSays

LEMMA TableCases ==
    ASSUME NEW all, NEW readable, NEW cfg, NEW now, NEW today, NEW created, NEW status
    PROVE  TableSays(DeriveHistoryBanner(all, readable, cfg, now, today, created, status),
                     VerdictRecords(all), readable, cfg, now, today, status)
  BY DEF DeriveHistoryBanner, Resting, ReasonOf, TableSays, ForeignTable

\* How the two then stand to each other.
Together(home, table, records, readable, cfg, now, today, created, status) ==
    LET failing == readable /\ records # <<>> /\ ReasonOf(records) \in Failing
    IN  /\ home.verdict = "FAILED" <=> failing
        /\ table.verdict = "FAILED" <=> failing
        /\ home.verdict = "HEALTHY" => table.verdict = "HEALTHY"
        /\ home.verdict = "HEALTHY" /\ status.attention =>
             Resting(cfg, today, status) /\ status.state = "live" /\ home.why = "paused"
        /\ readable /\ ConfirmedGone(status) =>
             home.why = "schedule" \/ WithScheduleNote(home, status)
        /\ home.why = "healthy" =>
             /\ readable /\ records # <<>> /\ ReasonOf(records) = "clean"
             /\ ~status.attention
             /\ ~ForeignRecordsElsewhere(records, now, status)
             /\ ~Missed(records, cfg, now, created, status)

LEMMA TwoSurfaces ==
    ASSUME NEW home, NEW table, NEW records, NEW readable \in BOOLEAN, NEW cfg, NEW now,
           NEW today, NEW created, NEW status, status.attention \in BOOLEAN,
           HomeSays(home, records, readable, cfg, now, today, created, status),
           TableSays(table, records, readable, cfg, now, today, status)
    PROVE  Together(home, table, records, readable, cfg, now, today, created, status)
<1> DEFINE paused == Resting(cfg, today, status)
           elsewhere == ForeignRecordsElsewhere(records, now, status)
           missed == Missed(records, cfg, now, created, status)
           alarmed == Alarmed(records, cfg, today, status)
           reason == ReasonOf(records)
           failing == readable /\ records # <<>> /\ reason \in Failing
<1>0. \A verdict, why, fix : Home(verdict, why, fix).verdict = verdict
                             /\ Home(verdict, why, fix).why = why
  BY DEF Home
<1>1. /\ ForeignRecordsStatus(status).verdict \in {"HEALTHY", "WARNING"}
      /\ ForeignRecordsStatus(status).why = "foreign"
      /\ ForeignTable(status).verdict = ForeignRecordsStatus(status).verdict
      /\ status.attention => ForeignRecordsStatus(status).verdict = "WARNING"
  BY <1>0 DEF ForeignRecordsStatus, ForeignTable
<1>2. paused \in BOOLEAN /\ elsewhere \in BOOLEAN /\ missed \in BOOLEAN
  BY DEF Resting, ForeignRecordsElsewhere, Missed, IsMissedRun
<1>3. reason \in Reasons
  BY ReasonFacts DEF ReasonOf
<1>4. alarmed <=> /\ status.attention
                  /\ ~(records # <<>> /\ reason \in Failing)
                  /\ ~(paused /\ status.state = "live")
  BY FailureIsReason DEF Alarmed
<1>5. ConfirmedGone(status) => status.attention /\ status.state = "missing"
  BY DEF ConfirmedGone
<1>6. WithScheduleNote(home, status) <=> home.verdict = "FAILED" /\ ConfirmedGone(status)
  BY DEF WithScheduleNote
<1>7. "clean" \notin Failing
  BY DEF Failing
<1>8. /\ ~readable => home = Home("WARNING", "unavailable", "run_history")
      /\ readable /\ alarmed => home = Home("WARNING", "schedule", "setup")
      /\ readable /\ ~alarmed /\ records = <<>> =>
           /\ paused => home = Home("HEALTHY", "paused", "none")
           /\ ~paused /\ elsewhere => home = ForeignRecordsStatus(status)
           /\ ~paused /\ ~elsewhere => home.verdict = "WARNING" /\ home.why # "healthy"
      /\ readable /\ ~alarmed /\ records # <<>> =>
           home = HomeOverRecords(records[1], paused, elsewhere, missed, now, status, reason)
  BY DEF HomeSays
<1>9. /\ ~readable => table.verdict = "WARNING"
      /\ readable /\ records = <<>> =>
           /\ paused => table.verdict = "HEALTHY"
           /\ ~paused /\ elsewhere => table = ForeignTable(status)
           /\ ~paused /\ ~elsewhere => table.verdict = "WARNING"
      /\ readable /\ records # <<>> =>
           table = HistoryOverRecords(records[1], paused, elsewhere, ForeignTable(status),
                                      now, reason)
  BY DEF TableSays
<1>10. Agree(HomeOverRecords(records[1], paused, elsewhere, missed, now, status, reason),
             HistoryOverRecords(records[1], paused, elsewhere, ForeignTable(status), now, reason),
             paused, elsewhere, missed, IsStale(records[1].at, now, StaleAfter), reason)
  <2> HIDE DEF paused, elsewhere, missed, reason
  <2> QED BY <1>2, <1>3, OverRecords
<1> SUFFICES /\ home.verdict = "FAILED" <=> failing
             /\ table.verdict = "FAILED" <=> failing
             /\ home.verdict = "HEALTHY" => table.verdict = "HEALTHY"
             /\ home.verdict = "HEALTHY" /\ status.attention =>
                  paused /\ status.state = "live" /\ home.why = "paused"
             /\ readable /\ ConfirmedGone(status) =>
                  home.why = "schedule" \/ WithScheduleNote(home, status)
             /\ home.why = "healthy" =>
                  /\ readable /\ records # <<>> /\ reason = "clean"
                  /\ ~status.attention /\ ~elsewhere /\ ~missed
  BY DEF Together
<1> HIDE DEF paused, elsewhere, missed, alarmed, reason
<1>11. CASE ~readable
  BY <1>0, <1>8, <1>9, <1>11
<1>12. CASE readable /\ records = <<>>
  <2>1. CASE alarmed
    <3>1. home.verdict = "WARNING" /\ home.why = "schedule" /\ table.verdict # "FAILED"
      BY <1>0, <1>1, <1>2, <1>8, <1>9, <1>12, <2>1
    <3> QED BY <1>12, <3>1
  <2>2. CASE ~alarmed
    <3>1. paused \/ ~status.attention
      BY <1>4, <1>12, <2>2
    <3>2. status.attention => status.state = "live"
      BY <1>4, <1>12, <2>2
    <3>3. ~ConfirmedGone(status)
      BY <1>5, <3>2
    <3>4. CASE paused
      BY <1>0, <1>8, <1>9, <1>12, <2>2, <3>2, <3>3, <3>4
    <3>5. CASE ~paused /\ elsewhere
      BY <1>1, <1>8, <1>9, <1>12, <2>2, <3>1, <3>3, <3>5
    <3>6. CASE ~paused /\ ~elsewhere
      BY <1>8, <1>9, <1>12, <2>2, <3>3, <3>6
    <3> QED BY <1>2, <3>4, <3>5, <3>6
  <2> QED BY <2>1, <2>2
<1>13. CASE readable /\ records # <<>>
  <2>1. CASE alarmed
    <3>1. home.verdict = "WARNING" /\ home.why = "schedule" /\ reason \notin Failing
          /\ table.verdict # "FAILED"
      BY <1>0, <1>4, <1>8, <1>9, <1>10, <1>13, <2>1 DEF Agree
    <3> QED BY <1>13, <3>1
  <2>2. CASE ~alarmed
    <3>1. Agree(home, table, paused, elsewhere, missed,
                IsStale(records[1].at, now, StaleAfter), reason)
      BY <1>8, <1>9, <1>10, <1>13, <2>2
    <3>2. status.attention => reason \in Failing \/ (paused /\ status.state = "live")
      BY <1>4, <1>13, <2>2
    <3> QED BY <1>5, <1>6, <1>7, <1>13, <3>1, <3>2 DEF Agree
  <2> QED BY <2>1, <2>2
<1> QED BY <1>11, <1>12, <1>13

\* The newest record that counts, on a Home that holds records of this place.
LEMMA NewestFacts ==
    ASSUME Inv, view.screen = "home", VerdictRecords(view.records) # <<>>
    PROVE  VerdictRecords(view.records)[1] \in HeldSince(view.created)
<1>1. view.records \in Seq(HeldSince(view.created))
  BY DEF Inv, ViewInv
<1>2. VerdictRecords(view.records)
        \in Seq({r \in HeldSince(view.created) : ~IsFailedManualAttempt(r)})
  BY <1>1, VerdictRecordsFacts
<1> QED BY <1>2

LEMMA ShownTogether ==
    ASSUME Inv
    PROVE  Together(ShownHome, ShownHistory, VerdictRecords(view.records), view.readable, Cfg,
                    clock, Today, view.created, view.status)
<1>1. view.readable \in BOOLEAN /\ view.status.attention \in BOOLEAN
  BY DEF Inv, TypeOK, Views, Statuses
<1>2. /\ HomeSays(ShownHome, VerdictRecords(view.records), view.readable, Cfg, clock, Today,
                  view.created, view.status)
      /\ TableSays(ShownHistory, VerdictRecords(view.records), view.readable, Cfg, clock, Today,
                   view.status)
  BY HomeCases, TableCases DEF ShownHome, ShownHistory
<1> QED BY <1>1, <1>2, TwoSurfaces

\* A lit dot beside a green Home is another account's task over a season at rest.
LEMMA DotFacts ==
    ASSUME Inv, ShownDot, ShownHome.verdict = "HEALTHY"
    PROVE  ShownHome.why = "paused" /\ view.status.foreign /\ ReportedAProblem(view.status.result)
<1>1. /\ view.status.attention
      /\ ~(SyncWindowPaused(Cfg, Today, place.foreign, place.shared)
             /\ view.status.contradiction)
  BY DEF ShownDot, NeedsSetupBadge
<1>2. /\ Resting(Cfg, Today, view.status) /\ view.status.state = "live"
      /\ ShownHome.why = "paused"
  BY <1>1, ShownTogether DEF Together
<1>3. /\ view.status.foreign = place.foreign /\ view.status.shared = place.shared
      /\ view.status.attention =
           (view.status.contradiction
              \/ (view.status.foreign /\ ReportedAProblem(view.status.result)))
  BY <1>2 DEF Inv, ViewInv
<1>4. SyncWindowPaused(Cfg, Today, place.foreign, place.shared)
  BY <1>2, <1>3 DEF Resting
<1> QED BY <1>1, <1>2, <1>3, <1>4

\* The row of the newest run that counts.
LEMMA RowFacts ==
    ASSUME NEW records, records[1].ok => records[1].status = "success"
    PROVE  LET row == RunRow(records, 1)
           IN  /\ row.verdict = "FAILED" <=> ReasonOf(records) \in Failing
               /\ row.verdict = "FAILED" => row.label \notin {"completed", "delivered"}
               /\ row.sftp = "delivered" => row.verdict # "FAILED"
<1> DEFINE row == RunRow(records, 1)
           reason == ReasonOf(records)
<1>1. /\ reason \in Reasons
      /\ reason = "failed_delivery" => ~records[1].ok
      /\ reason = "failed_etl" => records[1].status # "success"
  BY ReasonFacts DEF ReasonOf
<1>2. /\ row.verdict = VerdictForReason[reason]
      /\ reason = "failed_etl" => row.label = "failed"
      /\ reason = "failed_delivery" => row.label \in {"delivery_failed", "built_not_delivered"}
      /\ row.sftp = "delivered" => records[1].ok
  BY DEF RunRow, ReasonOf, SftpDelivery
<1> HIDE DEF row, reason
<1>3. row.verdict = "FAILED" <=> reason \in Failing
  BY <1>1, <1>2, VerdictFacts
<1>4. reason \in Failing <=> reason = "failed_etl" \/ reason = "failed_delivery"
  BY DEF Failing
<1> QED BY <1>1, <1>2, <1>3, <1>4 DEF row, reason

LEMMA AgreementHolds == Inv => SurfacesAgree
<1> SUFFICES ASSUME Inv PROVE SurfacesAgree
  OBVIOUS
<1> DEFINE counted == VerdictRecords(view.records)
<1>1. /\ view.readable \in BOOLEAN /\ ShownDot \in BOOLEAN
      /\ Together(ShownHome, ShownHistory, counted, view.readable, Cfg, clock, Today,
                  view.created, view.status)
  BY ShownTogether DEF Inv, TypeOK, Views, ShownDot, NeedsSetupBadge
<1>2. ASSUME view.screen = "home", view.readable, counted # <<>>
      PROVE  LET row == RunRow(counted, 1)
             IN  /\ (row.verdict = "FAILED") = (ShownHome.verdict = "FAILED")
                 /\ row.verdict = "FAILED" => row.label \notin {"completed", "delivered"}
                 /\ row.sftp = "delivered" => row.verdict # "FAILED"
  <2>1. counted[1].ok => counted[1].status = "success"
    BY <1>2, NewestFacts DEF HeldSince
  <2>2. ShownHome.verdict = "FAILED" <=> ReasonOf(counted) \in Failing
    BY <1>1, <1>2 DEF Together
  <2> HIDE DEF counted
  <2> QED BY <2>1, <2>2, RowFacts
<1>3. LET home == EmptyDetail(Cfg, view.records, view.created, view.status)
          table == HistoryEmptyDetail(Cfg, view.records, view.created, view.status)
      IN  home = table \/ {home, table} \subseteq {"scheduled", "first_sync",
                                                  "no_runs_yet", "first_run"}
  BY DEF EmptyDetail, HistoryEmptyDetail
<1>4. ShownBand = "fresh" => view.readable /\ view.records = <<>>
  BY <1>1 DEF ShownBand, WelcomeBand
<1>5. /\ (ShownHome.verdict = "FAILED") = (ShownHistory.verdict = "FAILED")
      /\ ShownHome.verdict = "HEALTHY" => ShownHistory.verdict = "HEALTHY"
      /\ (view.readable /\ ConfirmedGone(view.status)) =>
            ShownHome.why = "schedule" \/ WithScheduleNote(ShownHome, view.status)
  BY <1>1 DEF Together
<1>6. ShownDot => \/ ShownHome.verdict # "HEALTHY"
                  \/ /\ ShownHome.why = "paused" /\ view.status.foreign
                     /\ ReportedAProblem(view.status.result)
  BY DotFacts
<1> HIDE DEF counted
<1> QED BY <1>2, <1>3, <1>4, <1>5, <1>6 DEF SurfacesAgree, counted

LEMMA GreenHolds == Inv => GreenIsEarned
<1> DEFINE counted == VerdictRecords(view.records)
           newest == counted[1]
<1> SUFFICES ASSUME Inv, view.screen = "home", view.status.state = "live", ~Elsewhere,
                    ShownHome.why = "healthy"
             PROVE  /\ Whole(counted)
                    /\ clock - newest.at <= MissedAfter
                    /\ view.how = "silent" => view.ran <= newest.at
  BY DEF GreenIsEarned, Latest
<1>1. /\ counted # <<>> /\ ReasonOf(counted) = "clean" /\ ~view.status.attention
      /\ ~Missed(counted, Cfg, clock, view.created, view.status)
  BY ShownTogether DEF Together
<1>2. /\ newest \in RunRecords /\ view.created # Never /\ view.created <= newest.at
  BY <1>1, NewestFacts DEF HeldSince
<1>3. /\ newest.at \in Nat /\ newest.at # Never /\ view.created \in Nat /\ clock \in Nat
      /\ view.ran \in Stamps
  BY <1>2 DEF RunRecords, Never, Inv, TypeOK, Views, Stamps
<1>4. Whole(counted)
  <2>1. /\ newest.status = "success" /\ (newest.attempted => newest.ok)
        /\ LeftOutOutcomes(newest, BuildRecordFor(counted, 1)) = {}
    BY <1>1, ReasonFacts DEF ReasonOf
  <2>2. ~newest.deliveryOnly => BuildRecordFor(counted, 1) = newest
    BY DEF BuildRecordFor
  <2>3. WarningOutcomes(BuildRecordFor(counted, 1).outcomes) = {}
    BY <2>1, <2>2 DEF LeftOutOutcomes
  <2> HIDE DEF counted
  <2> QED BY <1>1, <2>1, <2>3 DEF Whole
<1>5. view.status.foreign = place.foreign /\ view.status.shared = place.shared
      /\ view.status.attention =
           (view.status.contradiction
              \/ (view.status.foreign /\ ReportedAProblem(view.status.result)))
  BY DEF Inv, ViewInv
<1>6. clock - newest.at <= MissedAfter
  <2>1. ~(/\ IsStale(view.created, clock, MissedAfter)
          /\ IsStale(newest.at, clock, MissedAfter))
    BY <1>1, <1>2, <1>5 DEF Missed, IsMissedRun, Elsewhere
  <2> HIDE DEF newest
  <2> QED BY <1>2, <1>3, <2>1, ThresholdsAssumption DEF IsStale
<1>7. view.how = "silent" => view.ran <= newest.at
  <2>1. ~view.status.contradiction
    BY <1>1, <1>5
  <2>2. VerdictLatestTimestamp(view.records) = newest.at
    BY <1>1 DEF VerdictLatestTimestamp
  <2>3. view.how = "silent" => view.ran = Never \/ view.ran <= newest.at
    BY <1>3, <2>1, <2>2 DEF Inv, ViewInv
  <2> HIDE DEF newest
  <2> QED BY <1>3, <2>3 DEF Never
<1> QED BY <1>4, <1>6, <1>7

\* What the clock, the task, the history and a screen range over.
THEOREM WatchTypes == Spec => []TypeOK
<1>1. Inv => TypeOK
  BY DEF Inv
<1> QED BY Invariant, <1>1, PTL

\* Home and Run History are red together, a green Home is over no Run History that
\* warns, a lit dot stands beside a green Home only where that one rests and another
\* account's task reported a problem, the newest row says what the banner says, and
\* a schedule that is gone is told (home_status.py, run_history.py, shell.py).
THEOREM SurfacesHold == Spec => []SurfacesAgree
  BY Invariant, AgreementHolds, PTL

\* A green Home over a task that answers means that the newest run that counts ended
\* whole, within the missed-run window, and that the task did not start again after
\* it and die without a record (_is_contradiction, _is_missed_run).
THEOREM GreenEarned == Spec => []GreenIsEarned
  BY Invariant, GreenHolds, PTL
=============================================================================
