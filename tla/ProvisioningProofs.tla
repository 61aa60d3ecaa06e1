------------------------- MODULE ProvisioningProofs -------------------------
(***************************************************************************)
(* Proofs about Provisioning, for any accounts and any number of faults    *)
(* and edits.                                                              *)
(*                                                                         *)
(*   ProvisioningTypes       what every variable ranges over;              *)
(*   ProfileBehindTheSwitch  a switch that is on has its shared profile    *)
(*                           (SwitchMeansProfile);                         *)
(*   RevocationIsReal        access told as revoked is gone                *)
(*                           (RevokedMeansRevoked);                        *)
(*   LiveSettingsStay        settings in service never go back             *)
(*                           (LiveSettingsNeverRegress).                   *)
(***************************************************************************)
EXTENDS Provisioning, TLAPS

\* How far a provisioning child has come, and what it may rely on there.
HasRoot   == {"createRuns", "ensureRuns", "grantRoot", "grantRuns", "stage", "promoteConfig",
              "promoteHistory", "seed", "verify", "commit"}
HasRuns   == HasRoot \ {"createRuns", "ensureRuns"}
HasConfig == {"promoteHistory", "seed", "verify", "commit"}
HasSecret == {"verify", "commit"}

ProgressInv ==
  /\ child.pc \in HasRoot   => shared.root = "trusted"
  /\ child.pc \in HasRuns   => shared.runs
  /\ child.pc = "promoteConfig" => shared.config # None \/ child.staged.config # None
  /\ child.pc \in HasConfig => shared.config # None
  /\ child.pc \in HasSecret => shared.secret

\* A folder this attempt creates, or would roll back, is not in service yet.
FreshInv ==
  /\ child.pc \in {"createRoot", "createRuns"} => ~switch
  /\ child.created /\ child.pc \notin {"register", "report"} => ~switch
  /\ child.pc = "rollback" => child.created

\* The settings stand in the own profile until the switch is on.
SourceInv ==
  /\ ~switch => own.config # None
  /\ window.pc = "aside" => switch

Inv == TypeOK /\ SwitchMeansProfile /\ ProgressInv /\ FreshInv /\ SourceInv

-----------------------------------------------------------------------------

LEMMA PCs ==
  ChildPCs = {"begin", "createRoot", "createRuns", "ensureRuns", "grantRoot", "grantRuns", "stage",
              "promoteConfig", "promoteHistory", "seed", "verify", "commit", "trust", "delete",
              "confirmGone", "pruneRoot", "pruneRuns", "idle", "consent", "register", "rollback",
              "report"}
BY DEF ChildPCs, FailsWith

LEMMA RefusalNames ==
  /\ {"pre_existing", "task", "verify", "delete"} \subseteq Refusals
  /\ \A pc \in DOMAIN FailsWith : FailsWith[pc] \in Refusals
<1>1. FailsWith["verify"] = "verify" /\ FailsWith["delete"] = "delete"
  BY DEF FailsWith
<1>2. "verify" \in DOMAIN FailsWith /\ "delete" \in DOMAIN FailsWith
  BY DEF FailsWith
<1> QED BY <1>1, <1>2 DEF Refusals

LEMMA NoChildTyped == NoChild \in Children
BY PCs DEF NoChild, Children, Copies, Records

LEMMA Moves ==
  ASSUME child \in Children, NEW pc \in ChildPCs, Goto(pc)
  PROVE  /\ child' \in Children
         /\ child'.pc = pc /\ child'.created = child.created /\ child'.staged = child.staged
BY DEF Goto, Children

LEMMA Refuses ==
  ASSUME child \in Children, NEW step \in Refusals, Refuse(step)
  PROVE  /\ child' \in Children
         /\ child'.pc = IF child.created THEN "rollback" ELSE "report"
         /\ child'.created = child.created
BY PCs DEF Refuse, Children

LEMMA Answers ==
  ASSUME TypeOK, NEW outcome \in Refusals \cup {"ok", "declined", "unconfirmed"}, Answer(outcome)
  PROVE  /\ child' = NoChild /\ window' \in Windows
         /\ window'.pc = "aside" => window.pc = "aside"
<1>1. After(window.op, outcome) \in {"repin", "idle", "confirm", "fallback"}
  BY DEF After
<1>2. outcome \in Outcomes
  BY DEF Outcomes
<1>3. window \in Windows
  BY DEF TypeOK
<1>4. child' = NoChild
  BY DEF Answer
<1>5. CASE window.pc = "asked"
  <2>1. window' = [window EXCEPT !.outcome = outcome, !.pc = After(window.op, outcome)]
    BY <1>5 DEF Answer
  <2> QED BY <1>1, <1>2, <1>3, <1>4, <2>1 DEF Windows
<1>6. CASE window.pc # "asked"
  BY <1>3, <1>4, <1>6 DEF Answer
<1> QED BY <1>5, <1>6

LEMMA Launches ==
  ASSUME TypeOK, NEW op \in {"provision", "remove"}, NEW who \in Records, Launch(op, who)
  PROVE  /\ child' \in Children /\ child'.pc = "consent" /\ ~child'.created
         /\ window' \in Windows /\ window'.pc = "asked"
<1>1. child' = [NoChild EXCEPT !.pc = "consent", !.op = op, !.who = who]
  BY DEF Launch
<1>2. child' \in Children /\ child'.pc = "consent" /\ ~child'.created
  BY <1>1, PCs, NoChildTyped DEF Children, NoChild
<1>3. window' = [window EXCEPT !.pc = "asked", !.op = op, !.who = who, !.outcome = "none"]
  BY DEF Launch
<1>4. window' \in Windows /\ window'.pc = "asked"
  BY <1>3 DEF TypeOK, Windows, Outcomes
<1> QED BY <1>2, <1>4

LEMMA Saves ==
  ASSUME TypeOK, NEW cfg \in Settings, Save(cfg)
  PROVE  /\ shared' \in Folders /\ own' \in Profiles
         /\ shared'.root = shared.root /\ shared'.runs = shared.runs
         /\ shared'.secret = shared.secret
         /\ shared'.config \in {shared.config, cfg}
         /\ own'.config \in {own.config, cfg}
<1>1. shared \in Folders /\ own \in Profiles
  BY DEF TypeOK
<1>2. shared' = shared \/ shared' = [shared EXCEPT !.config = cfg]
  BY DEF Save
<1>3. own' = own \/ own' = [own EXCEPT !.config = cfg]
  BY DEF Save
<1>4. /\ shared' \in Folders
      /\ shared'.root = shared.root /\ shared'.runs = shared.runs
      /\ shared'.secret = shared.secret /\ shared'.config \in {shared.config, cfg}
  BY <1>1, <1>2 DEF Folders
<1>5. own' \in Profiles /\ own'.config \in {own.config, cfg}
  BY <1>1, <1>3 DEF Profiles
<1> QED BY <1>4, <1>5

LEMMA Faults ==
  ASSUME TypeOK, Fault
  PROVE  faults' \in 0..MaxFaults
BY ProvisioningAssumption DEF TypeOK, Fault

LEMMA SavesOrRaises ==
  ASSUME TypeOK, NEW cfg \in Settings, SaveOrRaise(cfg)
  PROVE  /\ shared' \in Folders /\ own' \in Profiles /\ faults' \in 0..MaxFaults
         /\ shared'.root = shared.root /\ shared'.runs = shared.runs
         /\ shared'.secret = shared.secret
         /\ shared'.config \in {shared.config, cfg}
         /\ own'.config \in {own.config, cfg}
BY Saves, Faults DEF SaveOrRaise, TypeOK

LEMMA LoadedTyped ==
  ASSUME NEW file \in Settings \cup {None}
  PROVE  Loaded(file) \in Settings
BY ProvisioningAssumption DEF Loaded, Blank, Settings, Records

LEMMA SettingsAreFiles ==
  ASSUME NEW cfg \in Settings
  PROVE  cfg # None
BY ProvisioningAssumption

-----------------------------------------------------------------------------

LEMMA InitHolds == Init => Inv
<1> SUFFICES ASSUME Init PROVE Inv
  OBVIOUS
<1>1. task \in Records
  BY ProvisioningAssumption DEF Init, Records
<1>2. [edits |-> 0, record |-> task] \in Settings
  BY <1>1, ProvisioningAssumption DEF Settings
<1>3. own \in Profiles /\ own.config \in Settings
  BY <1>2 DEF Init, Profiles
<1>4. shared \in Folders
  <2>1. NoFolder \in Folders
    BY DEF Folders, NoFolder
  <2>2. [NoFolder EXCEPT !.root = "foreign"] \in Folders
    BY <2>1 DEF Folders
  <2> QED BY <2>1, <2>2 DEF Init
<1>5. window \in Windows /\ window.pc = "idle"
  BY <1>3 DEF Init, Windows, Outcomes, Records
<1>6. TypeOK
  <2>0. faults = MaxFaults /\ switch = FALSE
    BY DEF Init
  <2>a. MaxFaults \in Nat
    BY ProvisioningAssumption
  <2>1. faults \in 0..MaxFaults
    BY <2>0, <2>a
  <2>b. switch \in BOOLEAN
    BY <2>0
  <2>2. child \in Children
    BY NoChildTyped DEF Init
  <2> QED BY <1>1, <1>3, <1>4, <1>5, <2>1, <2>2, <2>b DEF TypeOK
<1>7. own.config # None
  BY <1>3, SettingsAreFiles
<1> QED
  BY <1>5, <1>6, <1>7
     DEF Init, Inv, SwitchMeansProfile, ProgressInv, FreshInv, SourceInv, NoChild,
         HasRoot, HasRuns, HasConfig, HasSecret

\* A child that only moves on to a step that relies on no more, or on what it has.
LEMMA ProvisionStep ==
  ASSUME Inv,
         \/ Begin \/ CreateRoot \/ CreateRuns \/ EnsureRuns \/ GrantRoot \/ GrantRuns \/ Stage
         \/ PromoteConfig \/ PromoteHistory \/ SeedSecret \/ Verify \/ Commit
  PROVE  Inv'
<1> USE DEF Inv
<1>t. /\ shared \in Folders /\ own \in Profiles /\ switch \in BOOLEAN /\ task \in Records
      /\ child \in Children /\ window \in Windows /\ faults \in 0..MaxFaults
      /\ child.who \in Records /\ child.staged \in Copies
  BY DEF TypeOK, Children
<1>2. CASE CreateRoot
  <2>1. child.pc = "createRoot" /\ UNCHANGED <<own, switch, task, window, faults>>
    BY <1>2 DEF CreateRoot
  <2>2. shared' = shared \/ shared' = [shared EXCEPT !.root = "trusted", !.rootAces = {child.who}]
    BY <1>2 DEF CreateRoot
  <2>3. shared' \in Folders
    <3>1. [shared EXCEPT !.root = "trusted"] \in Folders
      BY <1>t DEF Folders
    <3>2. [[shared EXCEPT !.root = "trusted"] EXCEPT !.rootAces = {child.who}] \in Folders
      BY <1>t, <3>1 DEF Folders
    <3> QED BY <1>t, <2>2, <3>2
  <2>4. Goto("createRuns")
    BY <1>2 DEF CreateRoot
  <2>5. child' \in Children /\ child'.pc = "createRuns" /\ child'.created = child.created
    BY <1>t, <2>4, Moves, PCs
  <2>6. TypeOK'
    BY <1>t, <2>1, <2>3, <2>5 DEF TypeOK
  <2> QED
    BY <1>2, <1>t, <2>1, <2>2, <2>3, <2>5, <2>6, SettingsAreFiles
    DEF CreateRoot, SwitchMeansProfile, ProgressInv, FreshInv, SourceInv, Folders, Copies,
        HasRoot, HasRuns, HasConfig, HasSecret
<1>3. CASE CreateRuns
  <2>1. child.pc = "createRuns" /\ UNCHANGED <<own, switch, task, window, faults>>
    BY <1>3 DEF CreateRuns
  <2>2. shared' = [shared EXCEPT !.runs = TRUE, !.runsAces = {child.who}]
    BY <1>3 DEF CreateRuns
  <2>3. shared' \in Folders
    <3>1. [shared EXCEPT !.runs = TRUE] \in Folders
      BY <1>t DEF Folders
    <3>2. [[shared EXCEPT !.runs = TRUE] EXCEPT !.runsAces = {child.who}] \in Folders
      BY <1>t, <3>1 DEF Folders
    <3> QED BY <1>t, <2>2, <3>2
  <2>4. child' = [child EXCEPT !.pc = "stage", !.created = TRUE]
    BY <1>3 DEF CreateRuns
  <2>5. child' \in Children /\ child'.pc = "stage"
    BY <1>t, <2>4, PCs DEF Children
  <2>6. TypeOK'
    BY <1>t, <2>1, <2>3, <2>5 DEF TypeOK
  <2> QED
    BY <1>t, <2>1, <2>2, <2>5, <2>6
    DEF SwitchMeansProfile, ProgressInv, FreshInv, SourceInv, Folders,
        HasRoot, HasRuns, HasConfig, HasSecret
<1>4. CASE EnsureRuns
  <2>1. child.pc = "ensureRuns" /\ UNCHANGED <<own, switch, task, window, faults>>
    BY <1>4 DEF EnsureRuns
  <2>2. shared' = shared \/ shared' = [shared EXCEPT !.runs = TRUE, !.runsAces = {child.who}]
    BY <1>4 DEF EnsureRuns
  <2>3. shared' \in Folders
    <3>1. [shared EXCEPT !.runs = TRUE] \in Folders
      BY <1>t DEF Folders
    <3>2. [[shared EXCEPT !.runs = TRUE] EXCEPT !.runsAces = {child.who}] \in Folders
      BY <1>t, <3>1 DEF Folders
    <3> QED BY <1>t, <2>2, <3>2
  <2>4. Goto("grantRoot")
    BY <1>4 DEF EnsureRuns
  <2>5. child' \in Children /\ child'.pc = "grantRoot" /\ child'.created = child.created
    BY <1>t, <2>4, Moves, PCs
  <2>6. TypeOK'
    BY <1>t, <2>1, <2>3, <2>5 DEF TypeOK
  <2> QED
    BY <1>4, <1>t, <2>1, <2>2, <2>3, <2>5, <2>6, SettingsAreFiles
    DEF EnsureRuns, SwitchMeansProfile, ProgressInv, FreshInv, SourceInv, Folders, Copies,
        HasRoot, HasRuns, HasConfig, HasSecret
<1>5. CASE GrantRoot
  <2>1. child.pc = "grantRoot" /\ UNCHANGED <<own, switch, task, window, faults>>
    BY <1>5 DEF GrantRoot
  <2>2. shared' = shared \/ shared' = [shared EXCEPT !.rootAces = @ \cup {child.who}]
    BY <1>5 DEF GrantRoot
  <2>3. shared' \in Folders
    BY <1>t, <2>2 DEF Folders
  <2>4. Goto("grantRuns")
    BY <1>5 DEF GrantRoot
  <2>5. child' \in Children /\ child'.pc = "grantRuns" /\ child'.created = child.created
    BY <1>t, <2>4, Moves, PCs
  <2>6. TypeOK'
    BY <1>t, <2>1, <2>3, <2>5 DEF TypeOK
  <2> QED
    BY <1>5, <1>t, <2>1, <2>2, <2>3, <2>5, <2>6, SettingsAreFiles
    DEF GrantRoot, SwitchMeansProfile, ProgressInv, FreshInv, SourceInv, Folders, Copies,
        HasRoot, HasRuns, HasConfig, HasSecret
<1>6. CASE GrantRuns
  <2>1. child.pc = "grantRuns" /\ UNCHANGED <<own, switch, task, window, faults>>
    BY <1>6 DEF GrantRuns
  <2>2. shared' = shared \/ shared' = [shared EXCEPT !.runsAces = @ \cup {child.who}]
    BY <1>6 DEF GrantRuns
  <2>3. shared' \in Folders
    BY <1>t, <2>2 DEF Folders
  <2>4. Goto("stage")
    BY <1>6 DEF GrantRuns
  <2>5. child' \in Children /\ child'.pc = "stage" /\ child'.created = child.created
    BY <1>t, <2>4, Moves, PCs
  <2>6. TypeOK'
    BY <1>t, <2>1, <2>3, <2>5 DEF TypeOK
  <2> QED
    BY <1>6, <1>t, <2>1, <2>2, <2>3, <2>5, <2>6, SettingsAreFiles
    DEF GrantRuns, SwitchMeansProfile, ProgressInv, FreshInv, SourceInv, Folders, Copies,
        HasRoot, HasRuns, HasConfig, HasSecret
<1>8. CASE PromoteConfig
  <2>1. child.pc = "promoteConfig" /\ UNCHANGED <<own, switch, task, window, faults>>
    BY <1>8 DEF PromoteConfig
  <2>2. shared' = shared \/ shared' = [shared EXCEPT !.config = child.staged.config]
    BY <1>8 DEF PromoteConfig
  <2>3. shared' \in Folders
    BY <1>t, <2>2 DEF Folders, Copies
  <2>4. Goto("promoteHistory")
    BY <1>8 DEF PromoteConfig
  <2>5. child' \in Children /\ child'.pc = "promoteHistory" /\ child'.created = child.created
    BY <1>t, <2>4, Moves, PCs
  <2>6. TypeOK'
    BY <1>t, <2>1, <2>3, <2>5 DEF TypeOK
  <2> QED
    BY <1>8, <1>t, <2>1, <2>2, <2>3, <2>5, <2>6, SettingsAreFiles
    DEF PromoteConfig, SwitchMeansProfile, ProgressInv, FreshInv, SourceInv, Folders, Copies,
        HasRoot, HasRuns, HasConfig, HasSecret
<1>9. CASE PromoteHistory
  <2>1. child.pc = "promoteHistory" /\ UNCHANGED <<own, switch, task, window, faults>>
    BY <1>9 DEF PromoteHistory
  <2>2. shared' = shared \/ shared' = [shared EXCEPT !.history = @ \/ child.staged.history]
    BY <1>9 DEF PromoteHistory
  <2>3. shared' \in Folders
    BY <1>t, <2>2 DEF Folders, Copies
  <2>4. Goto("seed")
    BY <1>9 DEF PromoteHistory
  <2>5. child' \in Children /\ child'.pc = "seed" /\ child'.created = child.created
    BY <1>t, <2>4, Moves, PCs
  <2>6. TypeOK'
    BY <1>t, <2>1, <2>3, <2>5 DEF TypeOK
  <2> QED
    BY <1>9, <1>t, <2>1, <2>2, <2>3, <2>5, <2>6, SettingsAreFiles
    DEF PromoteHistory, SwitchMeansProfile, ProgressInv, FreshInv, SourceInv, Folders, Copies,
        HasRoot, HasRuns, HasConfig, HasSecret
<1>10. CASE SeedSecret
  <2>1. child.pc = "seed" /\ UNCHANGED <<own, switch, task, window, faults>>
    BY <1>10 DEF SeedSecret
  <2>2. shared' = shared \/ shared' = [shared EXCEPT !.secret = TRUE]
    BY <1>10 DEF SeedSecret
  <2>3. shared' \in Folders
    BY <1>t, <2>2 DEF Folders
  <2>4. Goto("verify")
    BY <1>10 DEF SeedSecret
  <2>5. child' \in Children /\ child'.pc = "verify" /\ child'.created = child.created
    BY <1>t, <2>4, Moves, PCs
  <2>6. TypeOK'
    BY <1>t, <2>1, <2>3, <2>5 DEF TypeOK
  <2> QED
    BY <1>10, <1>t, <2>1, <2>2, <2>3, <2>5, <2>6, SettingsAreFiles
    DEF SeedSecret, SwitchMeansProfile, ProgressInv, FreshInv, SourceInv, Folders, Copies,
        HasRoot, HasRuns, HasConfig, HasSecret
<1>1. CASE Begin
  <2>1. child.pc = "begin" /\ UNCHANGED <<shared, own, switch, task, window, faults>>
    BY <1>1 DEF Begin
  <2>2. CASE shared.root = "absent"
    <3>1. Goto("createRoot")
      BY <1>1, <2>2 DEF Begin
    <3>2. child' \in Children /\ child'.pc = "createRoot" /\ child'.created = child.created
      BY <1>t, <3>1, Moves, PCs
    <3> QED
      BY <1>t, <2>1, <2>2, <3>2
      DEF TypeOK, SwitchMeansProfile, ProgressInv, FreshInv, SourceInv,
          HasRoot, HasRuns, HasConfig, HasSecret
  <2>3. CASE shared.root = "trusted"
    <3>1. Goto("ensureRuns")
      BY <1>1, <2>3 DEF Begin
    <3>2. child' \in Children /\ child'.pc = "ensureRuns" /\ child'.created = child.created
      BY <1>t, <3>1, Moves, PCs
    <3> QED
      BY <1>t, <2>1, <2>3, <3>2
      DEF TypeOK, SwitchMeansProfile, ProgressInv, FreshInv, SourceInv,
          HasRoot, HasRuns, HasConfig, HasSecret
  <2>4. CASE shared.root \notin {"absent", "trusted"}
    <3>1. Refuse("pre_existing")
      BY <1>1, <2>4 DEF Begin
    <3>2. /\ child' \in Children /\ child'.created = child.created
          /\ child'.pc = IF child.created THEN "rollback" ELSE "report"
      BY <1>t, <3>1, Refuses, RefusalNames
    <3> QED
      BY <1>t, <2>1, <3>2
      DEF TypeOK, SwitchMeansProfile, ProgressInv, FreshInv, SourceInv,
          HasRoot, HasRuns, HasConfig, HasSecret
  <2> QED BY <2>2, <2>3, <2>4
<1>7. CASE Stage
  <2>1. child.pc = "stage" /\ UNCHANGED <<shared, own, switch, task, window, faults>>
    BY <1>7 DEF Stage
  <2>2. StagedNow \in Copies
    BY <1>t DEF StagedNow, Copies, Folders, Profiles
  <2>3. child' = [child EXCEPT !.pc = "promoteConfig", !.staged = StagedNow]
    BY <1>7 DEF Stage
  <2>4. /\ child' \in Children /\ child'.pc = "promoteConfig"
        /\ child'.created = child.created /\ child'.staged = StagedNow
    BY <1>t, <2>2, <2>3, PCs DEF Children
  <2>5. shared.config # None \/ StagedNow.config # None
    BY DEF StagedNow, SourceInv, SwitchMeansProfile
  <2>6. TypeOK'
    BY <1>t, <2>1, <2>4 DEF TypeOK
  <2> QED
    BY <1>t, <2>1, <2>4, <2>5, <2>6
    DEF SwitchMeansProfile, ProgressInv, FreshInv, SourceInv,
        HasRoot, HasRuns, HasConfig, HasSecret
<1>11. CASE Verify
  <2>1. child.pc = "verify" /\ UNCHANGED <<shared, own, switch, task, window, faults>>
    BY <1>11 DEF Verify
  <2>2. CASE Goto("commit")
    <3>1. child' \in Children /\ child'.pc = "commit" /\ child'.created = child.created
      BY <1>t, <2>2, Moves, PCs
    <3> QED
      BY <1>t, <2>1, <3>1
      DEF TypeOK, SwitchMeansProfile, ProgressInv, FreshInv, SourceInv,
          HasRoot, HasRuns, HasConfig, HasSecret
  <2>3. CASE Refuse("verify")
    <3>1. /\ child' \in Children /\ child'.created = child.created
          /\ child'.pc = IF child.created THEN "rollback" ELSE "report"
      BY <1>t, <2>3, Refuses, RefusalNames
    <3> QED
      BY <1>t, <2>1, <3>1
      DEF TypeOK, SwitchMeansProfile, ProgressInv, FreshInv, SourceInv,
          HasRoot, HasRuns, HasConfig, HasSecret
  <2> QED BY <1>11, <2>2, <2>3 DEF Verify
<1>12. CASE Commit
  <2>1. /\ child.pc = "commit" /\ switch' = TRUE
        /\ UNCHANGED <<shared, own, task, window, faults>> /\ Goto("register")
    BY <1>12 DEF Commit
  <2>2. child' \in Children /\ child'.pc = "register"
    BY <1>t, <2>1, Moves, PCs
  <2> QED
    BY <1>t, <2>1, <2>2
    DEF TypeOK, SwitchMeansProfile, ProgressInv, FreshInv, SourceInv,
        HasRoot, HasRuns, HasConfig, HasSecret
<1> QED
  BY <1>1, <1>2, <1>3, <1>4, <1>5, <1>6, <1>7, <1>8, <1>9, <1>10, <1>11, <1>12

-----------------------------------------------------------------------------

\* What a folder in service consists of stays as it is.
KeepsProfile ==
  /\ shared'.root = shared.root /\ shared'.runs = shared.runs
  /\ shared'.secret = shared.secret /\ shared'.config = shared.config

\* The child leaves the steps of a provisioning, or never was in them.
LEMMA ChildRests ==
  ASSUME Inv,
         UNCHANGED <<own, switch>>, shared' \in Folders, task' \in Records,
         window' \in Windows, window'.pc = "aside" => window.pc = "aside",
         child' \in Children, faults' \in 0..MaxFaults,
         child'.pc \notin HasRoot \cup {"createRoot"},
         child'.created => child'.pc \in {"register", "report"} \/ child.created,
         child'.pc = "rollback" => child'.created,
         child.pc \notin {"register", "report"},
         switch => KeepsProfile
  PROVE  Inv'
BY DEF Inv, TypeOK, SwitchMeansProfile, ProgressInv, FreshInv, SourceInv, KeepsProfile, HasRoot,
       HasRuns, HasConfig, HasSecret

\* The child has ended its work: registered, reported or answered.
LEMMA ChildEnds ==
  ASSUME Inv,
         UNCHANGED <<own, switch>>, shared' \in Folders, task' \in Records,
         window' \in Windows, window'.pc = "aside" => window.pc = "aside",
         child' \in Children, faults' \in 0..MaxFaults,
         child'.pc = "report" \/ (child'.pc \in {"idle", "consent"} /\ ~child'.created),
         switch => KeepsProfile
  PROVE  Inv'
BY DEF Inv, TypeOK, SwitchMeansProfile, ProgressInv, FreshInv, SourceInv, KeepsProfile, HasRoot,
       HasRuns, HasConfig, HasSecret

\* The window acts while the child stands still: it may save settings, it never
\* takes a file of the shared folder away, nor its own file before the switch.
LEMMA WindowActs ==
  ASSUME Inv,
         UNCHANGED <<switch, child>>, task' \in Records, window' \in Windows,
         window'.pc = "aside" => window.pc = "aside" \/ switch,
         shared' \in Folders, own' \in Profiles, faults' \in 0..MaxFaults,
         shared'.root = shared.root, shared'.runs = shared.runs, shared'.secret = shared.secret,
         shared'.config = shared.config \/ shared'.config # None,
         own'.config = own.config \/ own'.config # None \/ switch
  PROVE  Inv'
BY DEF Inv, TypeOK, SwitchMeansProfile, ProgressInv, FreshInv, SourceInv, HasRoot,
       HasRuns, HasConfig, HasSecret

LEMMA SharedUnchangedKeeps ==
  ASSUME UNCHANGED shared
  PROVE  KeepsProfile
BY DEF KeepsProfile

LEMMA RegistrationStep ==
  ASSUME Inv, Register \/ RegisterFails \/ Rollback \/ RollbackFails
  PROVE  Inv'
<1>t. /\ shared \in Folders /\ own \in Profiles /\ switch \in BOOLEAN /\ task \in Records
      /\ child \in Children /\ window \in Windows /\ faults \in 0..MaxFaults
      /\ child.who \in Records
  BY DEF Inv, TypeOK, Children
<1>1. CASE Register
  <2>1. /\ child' \in Children /\ child'.pc = "report"
    BY <1>1, <1>t, PCs, Moves DEF Register
  <2>2. task' \in Records /\ UNCHANGED <<shared, own, switch, window, faults>>
    BY <1>1, <1>t DEF Register
  <2> QED BY <1>t, <2>1, <2>2, ChildEnds, SharedUnchangedKeeps
<1>2. CASE RegisterFails
  <2>1. child' = [child EXCEPT !.pc = "report", !.step = "task"]
    BY <1>2 DEF RegisterFails
  <2>2. child' \in Children /\ child'.pc = "report"
    BY <1>t, <2>1, PCs, RefusalNames DEF Children
  <2>3. UNCHANGED <<shared, own, switch, task, window>> /\ faults' \in 0..MaxFaults
    BY <1>2, Faults DEF RegisterFails, Inv
  <2> QED BY <1>t, <2>2, <2>3, ChildEnds, SharedUnchangedKeeps
<1>3. CASE Rollback
  <2>1. /\ child' \in Children /\ child'.pc = "report"
    BY <1>3, <1>t, PCs, Moves DEF Rollback
  <2>2. shared' \in Folders
    BY <1>3 DEF Rollback, NoFolder, Folders
  <2>3. ~switch
    BY <1>3 DEF Rollback, Inv, FreshInv
  <2>4. UNCHANGED <<own, switch, task, window, faults>>
    BY <1>3 DEF Rollback
  <2> QED BY <1>t, <2>1, <2>2, <2>3, <2>4, ChildEnds
<1>4. CASE RollbackFails
  <2>1. /\ child' \in Children /\ child'.pc = "report"
    BY <1>4, <1>t, PCs, Moves DEF RollbackFails
  <2>2. shared' \in Folders
    <3>1. PICK runs \in BOOLEAN, config \in BOOLEAN, history \in BOOLEAN, secret \in BOOLEAN :
            shared' = Remains(runs, config, history, secret)
      BY <1>4 DEF RollbackFails
    <3>2. /\ shared.root \in {"absent", "trusted", "foreign"}
          /\ shared.rootAces \in SUBSET Records /\ shared.runsAces \in SUBSET Records
          /\ shared.config \in Settings \cup {None}
      BY <1>t DEF Folders
    <3>3. Remains(runs, config, history, secret) \in Folders
      BY <3>2 DEF Remains, Folders
    <3> QED BY <3>1, <3>3
  <2>3. ~switch
    BY <1>4 DEF RollbackFails, Inv, FreshInv
  <2>4. UNCHANGED <<own, switch, task, window>> /\ faults' \in 0..MaxFaults
    BY <1>4, Faults DEF RollbackFails, Inv
  <2> QED BY <1>t, <2>1, <2>2, <2>3, <2>4, ChildEnds
<1> QED BY <1>1, <1>2, <1>3, <1>4

LEMMA RemovalStep ==
  ASSUME Inv,
         TrustFolder \/ DeleteTask \/ ConfirmGone \/ PruneRoot \/ PruneRuns \/ Consent
  PROVE  Inv'
<1>t. /\ shared \in Folders /\ own \in Profiles /\ switch \in BOOLEAN /\ task \in Records
      /\ child \in Children /\ window \in Windows /\ faults \in 0..MaxFaults
      /\ child.who \in Records
  BY DEF Inv, TypeOK, Children
<1>r. ASSUME NEW pc \in {"delete", "confirmGone", "pruneRoot", "pruneRuns", "report", "begin", "trust"},
             Goto(pc)
      PROVE  child' \in Children /\ child'.pc = pc /\ child'.created = child.created
  BY <1>r, <1>t, PCs, Moves
<1>1. CASE TrustFolder
  <2>1. /\ child.pc = "trust" /\ UNCHANGED <<shared, own, switch, task, window, faults>>
        /\ Goto("delete") \/ Refuse("pre_existing")
    BY <1>1 DEF TrustFolder
  <2>2. CASE Goto("delete")
    BY <1>t, <1>r, <2>1, <2>2, ChildRests, SharedUnchangedKeeps DEF HasRoot
  <2>3. CASE Refuse("pre_existing")
    <3>1. /\ child' \in Children /\ child'.created = child.created
          /\ child'.pc = IF child.created THEN "rollback" ELSE "report"
      BY <1>t, <2>3, Refuses, RefusalNames
    <3> QED BY <1>t, <2>1, <3>1, ChildRests, SharedUnchangedKeeps DEF HasRoot
  <2> QED BY <2>1, <2>2, <2>3
<1>2. CASE DeleteTask
  <2>1. /\ child.pc = "delete" /\ UNCHANGED <<shared, own, switch, window, faults>>
        /\ Goto("confirmGone") /\ task' \in Records
    BY <1>2 DEF DeleteTask, Records
  <2> QED BY <1>t, <1>r, <2>1, ChildRests, SharedUnchangedKeeps DEF HasRoot
<1>3. CASE ConfirmGone
  <2>1. /\ child.pc = "confirmGone" /\ UNCHANGED <<shared, own, switch, task, window, faults>>
        /\ Goto("pruneRoot") \/ Refuse("delete")
    BY <1>3 DEF ConfirmGone
  <2>2. CASE Goto("pruneRoot")
    BY <1>t, <1>r, <2>1, <2>2, ChildRests, SharedUnchangedKeeps DEF HasRoot
  <2>3. CASE Refuse("delete")
    <3>1. /\ child' \in Children /\ child'.created = child.created
          /\ child'.pc = IF child.created THEN "rollback" ELSE "report"
      BY <1>t, <2>3, Refuses, RefusalNames
    <3> QED BY <1>t, <2>1, <3>1, ChildRests, SharedUnchangedKeeps DEF HasRoot
  <2> QED BY <2>1, <2>2, <2>3
<1>4. CASE PruneRoot
  <2>1. /\ child.pc = "pruneRoot" /\ UNCHANGED <<own, switch, task, window, faults>>
        /\ Goto("pruneRuns") /\ shared' = [shared EXCEPT !.rootAces = @ \ {child.who}]
    BY <1>4 DEF PruneRoot
  <2>2. shared' \in Folders /\ KeepsProfile
    BY <1>t, <2>1 DEF Folders, KeepsProfile
  <2> QED BY <1>t, <1>r, <2>1, <2>2, ChildRests DEF HasRoot
<1>5. CASE PruneRuns
  <2>1. /\ child.pc = "pruneRuns" /\ UNCHANGED <<own, switch, task, window, faults>>
        /\ Goto("report") /\ shared' = [shared EXCEPT !.runsAces = @ \ {child.who}]
    BY <1>5 DEF PruneRuns
  <2>2. shared' \in Folders /\ KeepsProfile
    BY <1>t, <2>1 DEF Folders, KeepsProfile
  <2> QED BY <1>t, <1>r, <2>1, <2>2, ChildEnds
<1>6. CASE Consent
  <2>1. /\ child.pc = "consent" /\ UNCHANGED <<shared, own, switch, task, window, faults>>
        /\ Goto("begin") \/ Goto("trust")
    BY <1>6 DEF Consent
  <2>2. CASE Goto("begin")
    BY <1>t, <1>r, <2>1, <2>2, ChildRests, SharedUnchangedKeeps DEF HasRoot
  <2>3. CASE Goto("trust")
    BY <1>t, <1>r, <2>1, <2>3, ChildRests, SharedUnchangedKeeps DEF HasRoot
  <2> QED BY <2>1, <2>2, <2>3
<1> QED BY <1>1, <1>2, <1>3, <1>4, <1>5, <1>6

\* A failing call, an answer, a declined prompt or a kill.
LEMMA EndingStep ==
  ASSUME Inv, StepFails \/ Report \/ Decline \/ TimeOut
  PROVE  Inv'
<1>t. /\ shared \in Folders /\ own \in Profiles /\ switch \in BOOLEAN /\ task \in Records
      /\ child \in Children /\ window \in Windows /\ faults \in 0..MaxFaults
      /\ child.step \in Refusals \cup {"ok"} /\ TypeOK
  BY DEF Inv, TypeOK, Children
<1>a. ASSUME NEW outcome \in Refusals \cup {"ok", "declined", "unconfirmed"}, Answer(outcome),
             UNCHANGED <<shared, own, switch, task>>, faults' \in 0..MaxFaults
      PROVE  Inv'
  <2>0. child' = NoChild
    BY <1>a, <1>t, Answers
  <2>1. child' \in Children /\ child'.pc = "idle" /\ ~child'.created
    BY <2>0, NoChildTyped DEF NoChild
  <2>2. window' \in Windows /\ window'.pc = "aside" => window.pc = "aside"
    BY <1>a, <1>t, Answers
  <2>3. window' \in Windows
    BY <1>a, <1>t, Answers
  <2> QED BY <1>a, <1>t, <2>1, <2>2, <2>3, ChildEnds, SharedUnchangedKeeps
<1>1. CASE StepFails
  <2>1. /\ child.pc \in DOMAIN FailsWith /\ Fault /\ Refuse(FailsWith[child.pc])
        /\ UNCHANGED <<shared, own, switch, task, window>>
    BY <1>1 DEF StepFails
  <2>2. faults' \in 0..MaxFaults
    BY <1>t, <2>1, Faults
  <2>3. child.pc \notin {"register", "report"}
    BY <2>1 DEF FailsWith
  <2>4. /\ child' \in Children /\ child'.created = child.created
        /\ child'.pc = IF child.created THEN "rollback" ELSE "report"
    BY <1>t, <2>1, Refuses, RefusalNames
  <2> QED BY <1>t, <2>1, <2>2, <2>3, <2>4, ChildRests, SharedUnchangedKeeps DEF HasRoot
<1>2. CASE Report
  BY <1>2, <1>a, <1>t DEF Report
<1>3. CASE Decline
  BY <1>3, <1>a, <1>t DEF Decline
<1>4. CASE TimeOut
  BY <1>4, <1>a, <1>t, Faults DEF TimeOut
<1> QED BY <1>1, <1>2, <1>3, <1>4

-----------------------------------------------------------------------------

\* Asking for the elevated child, from either handler.
LEMMA AskStep ==
  ASSUME Inv, (\E account \in Accounts : AskProvision(account)) \/ AskRemove
  PROVE  Inv'
<1>t. /\ shared \in Folders /\ own \in Profiles /\ switch \in BOOLEAN /\ task \in Records
      /\ child \in Children /\ window \in Windows /\ faults \in 0..MaxFaults /\ TypeOK
      /\ window.cfg \in Settings
  BY DEF Inv, TypeOK, Windows
<1>l. ASSUME NEW op \in {"provision", "remove"}, NEW who \in Records, Launch(op, who),
             UNCHANGED <<shared, own, switch, task, faults>>
      PROVE  Inv'
  <2>1. /\ child' \in Children /\ child'.pc = "consent" /\ ~child'.created
        /\ window' \in Windows /\ window'.pc = "asked"
    BY <1>l, <1>t, Launches
  <2> QED BY <1>l, <1>t, <2>1, ChildEnds, SharedUnchangedKeeps
<1>1. CASE \E account \in Accounts : AskProvision(account)
  <2>1. PICK account \in Accounts : AskProvision(account)
    BY <1>1
  <2>2. account \in Records
    BY DEF Records
  <2> QED BY <2>1, <2>2, <1>l DEF AskProvision
<1>2. CASE AskRemove
  <2>1. window.cfg.record \in Records
    BY <1>t DEF Settings
  <2>2. CASE Launch("remove", window.cfg.record)
    BY <2>1, <2>2, <1>l, <1>2 DEF AskRemove
  <2>3. CASE /\ window' = [window EXCEPT !.pc = "fallback", !.op = "remove",
                                         !.who = window.cfg.record, !.outcome = "none"]
             /\ UNCHANGED child
    <3>1. window' \in Windows /\ window'.pc = "fallback"
      BY <1>t, <2>1, <2>3 DEF Windows, Outcomes
    <3> QED BY <1>t, <1>2, <2>3, <3>1, WindowActs DEF AskRemove
  <2> QED BY <1>2, <2>2, <2>3 DEF AskRemove
<1> QED BY <1>1, <1>2

\* The handlers that may save the configuration.
LEMMA SavingStep ==
  ASSUME Inv,
         RegisterAsAdmin \/ ConfirmRemoval \/ OrdinaryDelete \/ Persist \/ EditSettings
  PROVE  Inv'
<1>t. /\ shared \in Folders /\ own \in Profiles /\ switch \in BOOLEAN /\ task \in Records
      /\ child \in Children /\ window \in Windows /\ faults \in 0..MaxFaults /\ TypeOK
      /\ window.cfg \in Settings /\ window.who \in Records /\ window.outcome \in Outcomes
  BY DEF Inv, TypeOK, Windows
<1>r. Admin \in Records /\ None \in Records
  BY DEF Records
<1>c. ASSUME NEW record \in Records
      PROVE  [window.cfg EXCEPT !.record = record] \in Settings
  BY <1>t DEF Settings
<1>s. ASSUME NEW cfg \in Settings, (Save(cfg) /\ faults' \in 0..MaxFaults) \/ SaveOrRaise(cfg),
             UNCHANGED <<switch, child>>, task' \in Records,
             window' \in Windows, window'.pc = "aside" => window.pc = "aside"
      PROVE  Inv'
  <2>1. /\ shared' \in Folders /\ own' \in Profiles /\ faults' \in 0..MaxFaults
        /\ shared'.root = shared.root /\ shared'.runs = shared.runs
        /\ shared'.secret = shared.secret
        /\ shared'.config \in {shared.config, cfg} /\ own'.config \in {own.config, cfg}
    BY <1>s, <1>t, Saves, SavesOrRaises
  <2> QED BY <1>s, <2>1, SettingsAreFiles, WindowActs
<1>k. ASSUME Kept, UNCHANGED <<shared, own, switch, child>>, task' \in Records,
             faults' \in 0..MaxFaults
      PROVE  Inv'
  <2>1. window' \in Windows /\ window'.pc # "aside"
    BY <1>k, <1>t DEF Kept, Outcomes, Windows
  <2> QED BY <1>k, <1>t, <2>1, WindowActs
<1>d. ASSUME NEW outcome \in {"revoked", "removed"}, Removed(outcome),
             UNCHANGED <<switch, child>>, task' \in Records
      PROVE  Inv'
  <2> DEFINE cfg == [window.cfg EXCEPT !.record = None]
  <2>1. cfg \in Settings
    BY <1>c, <1>r
  <2>2. SaveOrRaise(cfg) /\ window' = [window EXCEPT !.pc = "idle", !.cfg = cfg, !.outcome = outcome]
    BY <1>d DEF Removed
  <2> HIDE DEF cfg
  <2>3. window' \in Windows /\ window'.pc # "aside"
    BY <1>t, <2>1, <2>2 DEF Windows, Outcomes
  <2> QED BY <1>d, <1>s, <2>1, <2>2, <2>3
<1>1. CASE RegisterAsAdmin
  <2> DEFINE cfg == [window.cfg EXCEPT !.record = Admin]
  <2>1. cfg \in Settings
    BY <1>c, <1>r
  <2>2. /\ SaveOrRaise(cfg) /\ window' = [window EXCEPT !.cfg = cfg, !.outcome = "none"]
        /\ UNCHANGED <<switch, child>> /\ task' = Admin /\ window.pc = "idle"
    BY <1>1 DEF RegisterAsAdmin, Idle
  <2> HIDE DEF cfg
  <2>3. window' \in Windows /\ window'.pc # "aside"
    BY <1>t, <2>1, <2>2 DEF Windows, Outcomes
  <2> QED BY <1>r, <1>s, <2>1, <2>2, <2>3
<1>2. CASE ConfirmRemoval
  <2>1. CASE Removed("revoked") \/ Removed("removed")
    BY <1>2, <2>1, <1>t, <1>d DEF ConfirmRemoval
  <2>2. CASE Kept /\ UNCHANGED <<shared, own>> /\ (Fault \/ UNCHANGED faults)
    BY <1>2, <2>2, <1>t, <1>k, Faults DEF ConfirmRemoval
  <2> QED BY <1>2, <2>1, <2>2 DEF ConfirmRemoval
<1>3. CASE OrdinaryDelete
  <2>1. CASE Removed("removed")
    BY <1>3, <2>1, <1>t, <1>r, <1>d DEF OrdinaryDelete
  <2>2. CASE Kept /\ UNCHANGED <<shared, own>> /\ Fault
    BY <1>3, <2>2, <1>t, <1>r, <1>k, Faults DEF OrdinaryDelete
  <2> QED BY <1>3, <2>1, <2>2 DEF OrdinaryDelete
<1>4. CASE Persist
  <2> DEFINE cfg == [window.cfg EXCEPT !.record = window.who]
  <2>1. cfg \in Settings
    BY <1>c, <1>t
  <2>2. CASE SaveOrRaise(cfg) /\ window' = [window EXCEPT !.pc = "idle", !.cfg = cfg]
    <3>1. UNCHANGED <<switch, task, child>>
      BY <1>4 DEF Persist
    <3> HIDE DEF cfg
    <3>2. window' \in Windows /\ window'.pc # "aside"
      BY <1>t, <2>1, <2>2 DEF Windows
    <3> QED BY <1>t, <1>s, <2>1, <2>2, <3>1, <3>2
  <2>3. CASE /\ window' = [window EXCEPT !.pc = "idle", !.cfg = IF window.pin = "machine"
                                                     THEN Loaded(shared.config) ELSE @]
             /\ UNCHANGED <<shared, own, faults>>
    <3>1. Loaded(shared.config) \in Settings
      BY <1>t, LoadedTyped DEF Folders
    <3>2. UNCHANGED <<switch, task, child>>
      BY <1>4 DEF Persist
    <3>4. window' \in Windows /\ window'.pc # "aside"
      <4> HIDE DEF Loaded
      <4> QED BY <1>t, <2>3, <3>1 DEF Windows
    <3> QED BY <1>t, <2>3, <3>2, <3>4, WindowActs
  <2> QED BY <1>4, <2>2, <2>3 DEF Persist
<1>5. CASE EditSettings
  <2> DEFINE cfg == [window.cfg EXCEPT !.edits = @ + 1]
  <2>1. cfg \in Settings
    BY <1>t, <1>5, ProvisioningAssumption DEF EditSettings, Settings
  <2>2. /\ Save(cfg) /\ window' = [window EXCEPT !.cfg = cfg] /\ window.pc # "aside"
        /\ UNCHANGED <<switch, task, child, faults>>
    BY <1>5 DEF EditSettings
  <2> HIDE DEF cfg
  <2>3. window' \in Windows /\ window'.pc # "aside"
    BY <1>t, <2>1, <2>2 DEF Windows
  <2> QED BY <1>t, <1>s, <2>1, <2>2, <2>3
<1> QED BY <1>1, <1>2, <1>3, <1>4, <1>5

\* The handover, a restart and a run of the old profile.
LEMMA HandoverStep ==
  ASSUME Inv, Repin \/ SetAside \/ Restart \/ OwnRun
  PROVE  Inv'
<1>t. /\ shared \in Folders /\ own \in Profiles /\ switch \in BOOLEAN /\ task \in Records
      /\ child \in Children /\ window \in Windows /\ faults \in 0..MaxFaults /\ TypeOK
      /\ window.cfg \in Settings
  BY DEF Inv, TypeOK, Windows
<1>p. PinNow \in {"own", "machine", "refused"}
  BY DEF PinNow
<1>1. CASE Repin
  <2>1. UNCHANGED <<shared, own, switch, task, child>> /\ faults' \in 0..MaxFaults
    BY <1>1, <1>t, Faults DEF Repin
  <2>2. CASE window' = [window EXCEPT !.pc = "persist"]
    <3>1. window' \in Windows /\ window'.pc # "aside"
      BY <1>t, <2>2 DEF Windows
    <3> QED BY <1>t, <2>1, <3>1, WindowActs
  <2>3. CASE /\ switch
             /\ window' = [window EXCEPT !.pin = PinNow,
                                         !.pc = IF PinNow = "machine" THEN "aside" ELSE "idle"]
    <3> HIDE DEF PinNow
    <3>1. window' \in Windows
      BY <1>p, <1>t, <2>3 DEF Windows
    <3> QED BY <1>t, <2>1, <2>3, <3>1, WindowActs
  <2> QED BY <1>1, <2>2, <2>3 DEF Repin
<1>2. CASE SetAside
  <2>1. window.pc = "aside" /\ UNCHANGED <<shared, switch, task, child>> /\ faults' \in 0..MaxFaults
    BY <1>2, <1>t, Faults DEF SetAside
  <2>2. switch
    BY <2>1 DEF Inv, SourceInv
  <2>3. own' \in Profiles
    <3>1. own.config \in Settings \cup {None} /\ own.history \in BOOLEAN /\ own.moved \in BOOLEAN
      BY <1>t DEF Profiles
    <3>2. CASE own' = [config |-> None, history |-> FALSE, moved |-> TRUE]
      BY <3>2 DEF Profiles
    <3>3. CASE own' \in {[config |-> c, history |-> h, moved |-> m] :
                        c \in {None, own.config}, h \in {FALSE, own.history},
                        m \in {TRUE, own.moved}}
      <4>1. PICK c \in {None, own.config}, h \in {FALSE, own.history}, m \in {TRUE, own.moved} :
              own' = [config |-> c, history |-> h, moved |-> m]
        BY <3>3
      <4>2. c \in Settings \cup {None} /\ h \in BOOLEAN /\ m \in BOOLEAN
        BY <3>1
      <4> QED BY <4>1, <4>2 DEF Profiles
    <3> QED BY <1>2, <3>2, <3>3 DEF SetAside
  <2>4. window' \in Windows
    BY <1>2, <1>t DEF SetAside, Windows
  <2> QED BY <1>t, <2>1, <2>2, <2>3, <2>4, WindowActs
<1>3. CASE Restart
  <2>1. FileOf(PinNow) \in Settings \cup {None}
    BY <1>t DEF FileOf, Folders, Profiles
  <2>2. Loaded(FileOf(PinNow)) \in Settings
    BY <2>1, LoadedTyped
  <2>3. window' \in Windows /\ window'.pc = "idle"
    BY <1>3, <1>p, <2>2 DEF Restart, Windows, Outcomes, Records
  <2> QED BY <1>3, <1>t, <2>3, WindowActs DEF Restart
<1>4. CASE OwnRun
  <2>1. own' \in Profiles /\ own'.config = own.config
    BY <1>4, <1>t DEF OwnRun, Profiles
  <2> QED BY <1>4, <1>t, <2>1, WindowActs DEF OwnRun, Inv, SourceInv
<1> QED BY <1>1, <1>2, <1>3, <1>4

-----------------------------------------------------------------------------

LEMMA InvHolds == Spec => []Inv
<1>1. Inv /\ [Next]_vars => Inv'
  <2> SUFFICES ASSUME Inv, [Next]_vars PROVE Inv'
    OBVIOUS
  <2>1. CASE UNCHANGED vars
    BY <2>1 DEF vars, Inv, TypeOK, SwitchMeansProfile, ProgressInv, FreshInv, SourceInv
  <2>2. CASE ChildStep
    BY <2>2, ProvisionStep, RegistrationStep, RemovalStep, EndingStep DEF ChildStep
  <2>3. CASE Consent \/ Decline \/ TimeOut
    BY <2>3, RemovalStep, EndingStep
  <2>4. CASE (\E account \in Accounts : AskProvision(account)) \/ AskRemove
    BY <2>4, AskStep
  <2>5. CASE RegisterAsAdmin \/ ConfirmRemoval \/ OrdinaryDelete \/ Persist \/ EditSettings
    BY <2>5, SavingStep
  <2>6. CASE Repin \/ SetAside \/ Restart \/ OwnRun
    BY <2>6, HandoverStep
  <2> QED BY <2>1, <2>2, <2>3, <2>4, <2>5, <2>6 DEF Next
<1> QED BY InitHolds, <1>1, PTL DEF Spec

\* Every state of both processes and of the folders is of its type.
THEOREM ProvisioningTypes == Spec => []TypeOK
<1>1. Inv => TypeOK
  BY DEF Inv
<1> QED BY <1>1, InvHolds, PTL

\* For any accounts and any number of kills, failing calls, retries, rollbacks and
\* settings saves: a computer whose switch is on has its trusted shared folder with
\* the runs folder, the settings and the delivery password.
THEOREM ProfileBehindTheSwitch == Spec => []SwitchMeansProfile
<1>1. Inv => SwitchMeansProfile
  BY DEF Inv
<1> QED BY <1>1, InvHolds, PTL

-----------------------------------------------------------------------------
(* The removal: who has launched what, and what the child has taken away.  *)

Provides == {"begin", "createRoot", "createRuns", "ensureRuns", "grantRoot", "grantRuns",
             "stage", "promoteConfig", "promoteHistory", "seed", "verify", "commit",
             "register", "rollback"}
Removes == {"trust", "delete", "confirmGone", "pruneRoot", "pruneRuns"}

Access == shared.rootAces \cup shared.runsAces

\* A child that reports a removal has taken the access from both folders.
TakenInv ==
  /\ child.pc \in Provides \/ child.created => child.op = "provision"
  /\ child.pc \in Removes => child.op = "remove"
  /\ child.pc = "consent" => child.op # "none"
  /\ child.pc = "pruneRuns" => child.who \notin shared.rootAces
  /\ child.pc = "report" /\ child.op = "remove" /\ child.step = "ok" =>
       child.who \notin Access

\* The window waits for the child it has launched, and hears of that one.
AskedInv ==
  /\ window.pc = "asked" =>
       child.pc # "idle" /\ child.op = window.op /\ child.who = window.who
  /\ window.pc = "confirm" =>
       child.pc = "idle" /\ (window.outcome = "ok" => window.who \notin Access)
  /\ window.outcome = "revoked" =>
       /\ window.pc = "idle" /\ child.pc = "idle"
       /\ task = None /\ window.who \notin Access

RemovalInv == TakenInv /\ AskedInv

-----------------------------------------------------------------------------
(* The edits: which profile the window's settings are the latest of.       *)

NotAfter(file, cfg) == file # None => file.edits <= cfg.edits

\* A window of the own profile holds what stands there, and nothing in the
\* shared folder, or on its way there, is later.
OwnInv ==
  window.pin = "own" =>
    /\ ~own.moved /\ own.config # None /\ own.config.edits = window.cfg.edits
    /\ child.pc = "promoteConfig" => NotAfter(child.staged.config, window.cfg)

\* Once the switch is on no copy is under way; no window has been pinned to a
\* profile that is not in service.
PinInv ==
  /\ window.pin = "own" \/ (window.pin = "machine" /\ switch)
  /\ window.pc = "aside" => window.pin = "machine"
  /\ child.pc = "promoteConfig" /\ switch => child.staged.config = None

EditsInv == NotAfter(shared.config, window.cfg) /\ OwnInv /\ PinInv

-----------------------------------------------------------------------------

LEMMA StepNames ==
  /\ "ok" \notin Refusals /\ "revoked" \notin Refusals
  /\ "pre_existing" \in Refusals /\ "delete" \in Refusals
<1>1. \A pc \in DOMAIN FailsWith : FailsWith[pc] \notin {"ok", "revoked"}
  BY DEF FailsWith
<1> QED BY <1>1, RefusalNames DEF Refusals

\* What a child that goes on keeps of itself.
LEMMA MovesOn ==
  ASSUME child \in Children, NEW pc \in ChildPCs, Goto(pc)
  PROVE  /\ child'.pc = pc /\ child'.created = child.created /\ child'.staged = child.staged
         /\ child'.op = child.op /\ child'.who = child.who /\ child'.step = child.step
BY DEF Goto, Children

LEMMA RefusesOn ==
  ASSUME child \in Children, NEW step \in Refusals, Refuse(step)
  PROVE  /\ child'.pc = IF child.created THEN "rollback" ELSE "report"
         /\ child'.created = child.created /\ child'.op = child.op /\ child'.who = child.who
         /\ child'.step # "ok"
BY StepNames DEF Refuse, Children

\* A step of the child, to the window, is none.
LEMMA ChildActs ==
  ASSUME RemovalInv, child.pc # "idle", child'.pc # "idle",
         child'.op = child.op, child'.who = child.who, window' = window, TakenInv'
  PROVE  RemovalInv'
BY DEF RemovalInv, AskedInv

\* The window hears the answer of the child it has launched.
LEMMA AnswersOn ==
  ASSUME TypeOK, RemovalInv, shared' = shared, task' = task, child.pc # "idle",
         NEW outcome \in Refusals \cup {"ok", "declined", "unconfirmed"}, Answer(outcome),
         outcome = "ok" => child.pc = "report" /\ child.step = "ok"
  PROVE  RemovalInv'
<1>1. child' = NoChild /\ child'.pc = "idle" /\ ~child'.created
  BY DEF Answer, NoChild
<1>2. TakenInv'
  BY <1>1 DEF TakenInv, Provides, Removes
<1>3. outcome # "revoked"
  BY StepNames
<1>4. CASE window.pc = "asked"
  <2>1. window' = [window EXCEPT !.outcome = outcome, !.pc = After(window.op, outcome)]
    BY <1>4 DEF Answer
  <2>2. /\ window'.outcome = outcome /\ window'.pc = After(window.op, outcome)
        /\ window'.who = window.who
    <3> HIDE DEF After
    <3> QED BY <2>1 DEF TypeOK, Windows
  <2>3. window'.pc # "asked" /\ (window'.pc = "confirm" => window.op = "remove")
    BY <2>2 DEF After
  <2>4. child.op = window.op /\ child.who = window.who
    BY <1>4 DEF RemovalInv, AskedInv
  <2>5. window'.pc = "confirm" /\ outcome = "ok" => window.who \notin Access
    BY <2>3, <2>4 DEF RemovalInv, TakenInv
  <2> QED BY <1>1, <1>2, <1>3, <2>2, <2>3, <2>5 DEF RemovalInv, AskedInv, Access
<1>5. CASE window.pc # "asked"
  <2>1. window' = window
    BY <1>5 DEF Answer
  <2> QED BY <1>1, <1>2, <1>5, <2>1 DEF RemovalInv, AskedInv, Access
<1> QED BY <1>4, <1>5

\* A step of the window to a place where it neither waits nor reports.
LEMMA WindowActsOn ==
  ASSUME RemovalInv, child' = child, shared'.rootAces = shared.rootAces,
         shared'.runsAces = shared.runsAces,
         window'.pc \notin {"asked", "confirm"}, window'.outcome # "revoked"
  PROVE  RemovalInv'
BY DEF RemovalInv, TakenInv, AskedInv, Access

LEMMA RemovalInit == Init => RemovalInv
BY DEF Init, RemovalInv, TakenInv, AskedInv, NoChild, Provides, Removes

\* The steps of a provisioning child: none of them takes access away, and no
\* window relies on what they give.
LEMMA RemovalProvides ==
  ASSUME Inv, RemovalInv,
         \/ Begin \/ CreateRoot \/ CreateRuns \/ EnsureRuns \/ GrantRoot \/ GrantRuns \/ Stage
         \/ PromoteConfig \/ PromoteHistory \/ SeedSecret \/ Verify \/ Commit
         \/ Register \/ RegisterFails \/ Rollback \/ RollbackFails
  PROVE  RemovalInv'
<1>t. child \in Children
  BY DEF Inv, TypeOK
<1>1. child.pc \in Provides
  BY DEF Begin, CreateRoot, CreateRuns, EnsureRuns, GrantRoot, GrantRuns, Stage, PromoteConfig,
         PromoteHistory, SeedSecret, Verify, Commit, Register, RegisterFails, Rollback,
         RollbackFails, Provides
<1>2. window' = window
  BY DEF Begin, CreateRoot, CreateRuns, EnsureRuns, GrantRoot, GrantRuns, Stage, PromoteConfig,
         PromoteHistory, SeedSecret, Verify, Commit, Register, RegisterFails, Rollback,
         RollbackFails
<1>3. \/ \E pc \in Provides \cup {"report"} : Goto(pc)
      \/ Refuse("pre_existing") \/ Refuse("verify")
      \/ child' = [child EXCEPT !.pc = "stage", !.created = TRUE]
      \/ child' = [child EXCEPT !.pc = "promoteConfig", !.staged = StagedNow]
      \/ child' = [child EXCEPT !.pc = "report", !.step = "task"]
  BY DEF Begin, CreateRoot, CreateRuns, EnsureRuns, GrantRoot, GrantRuns, Stage, PromoteConfig,
         PromoteHistory, SeedSecret, Verify, Commit, Register, RegisterFails, Rollback,
         RollbackFails, Provides
<1>4. Provides \cup {"report"} \subseteq ChildPCs /\ "idle" \notin Provides
  BY PCs DEF Provides
<1>5. /\ child'.pc \in Provides \cup {"report"}
      /\ child'.op = child.op /\ child'.who = child.who
  <2>1. CASE \E pc \in Provides \cup {"report"} : Goto(pc)
    BY <1>t, <1>4, <2>1, MovesOn
  <2>2. CASE Refuse("pre_existing") \/ Refuse("verify")
    BY <1>t, <2>2, RefusesOn, RefusalNames DEF Provides
  <2>3. CASE child' = [child EXCEPT !.pc = "stage", !.created = TRUE]
    BY <1>t, <2>3 DEF Children, Provides
  <2>4. CASE child' = [child EXCEPT !.pc = "promoteConfig", !.staged = StagedNow]
    BY <1>t, <2>4 DEF Children, Provides
  <2>5. CASE child' = [child EXCEPT !.pc = "report", !.step = "task"]
    BY <1>t, <2>5 DEF Children, Provides
  <2> QED BY <1>3, <2>1, <2>2, <2>3, <2>4, <2>5
<1>6. child.op = "provision"
  BY <1>1 DEF RemovalInv, TakenInv
<1>7. TakenInv'
  BY <1>5, <1>6 DEF TakenInv, Provides, Removes
<1> QED BY <1>1, <1>2, <1>4, <1>5, <1>7, ChildActs

\* The steps of a removing child.
LEMMA RemovalRemoves ==
  ASSUME Inv, RemovalInv,
         TrustFolder \/ DeleteTask \/ ConfirmGone \/ PruneRoot \/ PruneRuns \/ Consent
  PROVE  RemovalInv'
<1>t. child \in Children /\ shared \in Folders
  BY DEF Inv, TypeOK
<1>p. {"delete", "confirmGone", "pruneRoot", "pruneRuns", "report", "begin", "trust"} \subseteq ChildPCs
  BY PCs
<1>1. child.pc \in Removes \cup {"consent"} /\ child.pc # "idle" /\ window' = window
  BY DEF TrustFolder, DeleteTask, ConfirmGone, PruneRoot, PruneRuns, Consent, Removes
<1>2. child.pc \in Removes => child.op = "remove" /\ ~child.created
  BY DEF RemovalInv, TakenInv
<1>3. ASSUME Refuse("pre_existing") \/ Refuse("delete"), child.pc \in Removes
      PROVE  RemovalInv'
  <2>1. /\ child'.pc = "report" /\ ~child'.created /\ child'.op = child.op
        /\ child'.who = child.who /\ child'.step # "ok"
    BY <1>t, <1>2, <1>3, StepNames, RefusesOn
  <2>2. TakenInv'
    BY <2>1 DEF TakenInv, Provides, Removes
  <2> QED BY <1>1, <2>1, <2>2, ChildActs
<1>4. ASSUME NEW pc \in {"delete", "confirmGone", "pruneRoot"}, Goto(pc), child.pc \in Removes
      PROVE  RemovalInv'
  <2>1. /\ child'.pc = pc /\ ~child'.created /\ child'.op = child.op
        /\ child'.who = child.who
    BY <1>t, <1>p, <1>2, <1>4, MovesOn
  <2>2. TakenInv'
    BY <2>1, <1>2, <1>4 DEF TakenInv, Provides, Removes
  <2> QED BY <1>1, <2>1, <2>2, ChildActs
<1>5. CASE TrustFolder
  BY <1>3, <1>4, <1>5 DEF TrustFolder, Removes
<1>6. CASE DeleteTask
  BY <1>4, <1>6 DEF DeleteTask, Removes
<1>7. CASE ConfirmGone
  BY <1>3, <1>4, <1>7 DEF ConfirmGone, Removes
<1>8. CASE PruneRoot
  <2>1. child.pc \in Removes /\ Goto("pruneRuns")
        /\ shared' = [shared EXCEPT !.rootAces = @ \ {child.who}]
    BY <1>8 DEF PruneRoot, Removes
  <2>2. /\ child'.pc = "pruneRuns" /\ ~child'.created /\ child'.op = child.op
        /\ child'.who = child.who
    BY <1>t, <1>p, <1>2, <2>1, MovesOn
  <2>3. shared'.rootAces = shared.rootAces \ {child.who}
    BY <1>t, <2>1 DEF Folders
  <2>4. TakenInv'
    BY <2>1, <2>2, <2>3, <1>2 DEF TakenInv, Provides, Removes
  <2> QED BY <1>1, <2>2, <2>4, ChildActs
<1>9. CASE PruneRuns
  <2>1. child.pc = "pruneRuns" /\ child.pc \in Removes /\ Goto("report")
        /\ shared' = [shared EXCEPT !.runsAces = @ \ {child.who}]
    BY <1>9 DEF PruneRuns, Removes
  <2>2. /\ child'.pc = "report" /\ ~child'.created /\ child'.op = child.op
        /\ child'.who = child.who
    BY <1>t, <1>p, <1>2, <2>1, MovesOn
  <2>3. /\ shared'.runsAces = shared.runsAces \ {child.who}
        /\ shared'.rootAces = shared.rootAces /\ child.who \notin shared.rootAces
    BY <1>t, <2>1 DEF Folders, RemovalInv, TakenInv
  <2>4. TakenInv'
    BY <2>2, <2>3 DEF TakenInv, Provides, Removes, Access
  <2> QED BY <1>1, <2>2, <2>4, ChildActs
<1>10. CASE Consent
  <2>1. child.pc = "consent" /\ \/ child.op = "provision" /\ Goto("begin")
                                \/ child.op # "provision" /\ Goto("trust")
    BY <1>10 DEF Consent
  <2>3. child.created => child.op = "provision"
    BY DEF RemovalInv, TakenInv
  <2>4. CASE child.op = "provision" /\ Goto("begin")
    <3>1. /\ child'.pc = "begin" /\ child'.op = child.op /\ child'.who = child.who
          /\ child'.created = child.created
      BY <1>t, <1>p, <2>4, MovesOn
    <3>2. TakenInv'
      BY <2>4, <3>1 DEF TakenInv, Provides, Removes
    <3> QED BY <1>1, <3>1, <3>2, ChildActs
  <2>5. CASE child.op # "provision" /\ Goto("trust")
    <3>1. /\ child'.pc = "trust" /\ child'.op = child.op /\ child'.who = child.who
          /\ child'.created = child.created
      BY <1>t, <1>p, <2>5, MovesOn
    <3>2. child.op = "remove"
      BY <1>t, <2>1, <2>5 DEF Children, RemovalInv, TakenInv
    <3>3. TakenInv'
      BY <2>3, <2>5, <3>1, <3>2 DEF TakenInv, Provides, Removes
    <3> QED BY <1>1, <3>1, <3>3, ChildActs
  <2> QED BY <2>1, <2>4, <2>5
<1> QED BY <1>5, <1>6, <1>7, <1>8, <1>9, <1>10

\* A failing call, an answer, a declined prompt or a kill.
LEMMA RemovalEnds ==
  ASSUME Inv, RemovalInv, StepFails \/ Report \/ Decline \/ TimeOut
  PROVE  RemovalInv'
<1>t. child \in Children /\ TypeOK /\ child.step \in Refusals \cup {"ok"}
  BY DEF Inv, TypeOK, Children
<1>1. CASE StepFails
  <2>1. /\ child.pc \in DOMAIN FailsWith /\ Refuse(FailsWith[child.pc]) /\ window' = window
    BY <1>1 DEF StepFails
  <2>2. child.pc # "idle" /\ child.pc \in Provides \cup Removes
    BY <2>1 DEF FailsWith, Provides, Removes
  <2>3. /\ child'.pc = IF child.created THEN "rollback" ELSE "report"
        /\ child'.created = child.created /\ child'.op = child.op /\ child'.who = child.who
        /\ child'.step # "ok"
    BY <1>t, <2>1, RefusesOn, RefusalNames
  <2>4. TakenInv'
    BY <2>3 DEF RemovalInv, TakenInv, Provides, Removes
  <2> QED BY <2>1, <2>2, <2>3, <2>4, ChildActs
<1>2. CASE Report
  <2>1. Answer(child.step) /\ child.pc = "report" /\ shared' = shared /\ task' = task
    BY <1>2 DEF Report
  <2> QED BY <1>t, <2>1, AnswersOn
<1>3. CASE Decline
  <2>1. Answer("declined") /\ child.pc = "consent" /\ shared' = shared /\ task' = task
    BY <1>3 DEF Decline
  <2> QED BY <1>t, <2>1, AnswersOn
<1>4. CASE TimeOut
  <2>1. Answer("unconfirmed") /\ child.pc # "idle" /\ shared' = shared /\ task' = task
    BY <1>4 DEF TimeOut
  <2> QED BY <1>t, <2>1, AnswersOn
<1> QED BY <1>1, <1>2, <1>3, <1>4

LEMMA SavesAces ==
  ASSUME TypeOK, NEW cfg \in Settings, Save(cfg) \/ SaveOrRaise(cfg)
  PROVE  shared'.rootAces = shared.rootAces /\ shared'.runsAces = shared.runsAces
BY DEF TypeOK, Save, SaveOrRaise, Folders

\* The window's own steps.
LEMMA RemovalWindow ==
  ASSUME Inv, RemovalInv,
         \/ (\E account \in Accounts : AskProvision(account)) \/ AskRemove
         \/ RegisterAsAdmin \/ ConfirmRemoval \/ OrdinaryDelete \/ Persist \/ EditSettings
         \/ Repin \/ SetAside \/ Restart \/ OwnRun
  PROVE  RemovalInv'
<1>t. /\ shared \in Folders /\ child \in Children /\ window \in Windows /\ TypeOK
      /\ window.cfg \in Settings /\ window.who \in Records
  BY DEF Inv, TypeOK, Windows
<1>c. \A record \in Records : [window.cfg EXCEPT !.record = record] \in Settings
  BY <1>t DEF Settings
<1>r. Admin \in Records /\ None \in Records
  BY DEF Records
<1>v. window.outcome = "revoked" => window.pc = "idle"
  BY DEF RemovalInv, AskedInv
<1>l. ASSUME NEW op \in {"provision", "remove"}, NEW who, Launch(op, who)
      PROVE  RemovalInv'
  <2>1. /\ child' = [NoChild EXCEPT !.pc = "consent", !.op = op, !.who = who]
        /\ window' = [window EXCEPT !.pc = "asked", !.op = op, !.who = who, !.outcome = "none"]
    BY <1>l DEF Launch
  <2>2. /\ child'.pc = "consent" /\ child'.op = op /\ child'.who = who /\ ~child'.created
    BY <2>1 DEF NoChild
  <2>3. /\ window'.pc = "asked" /\ window'.op = op /\ window'.who = who
        /\ window'.outcome = "none"
    BY <1>t, <2>1 DEF Windows
  <2> QED BY <2>2, <2>3 DEF RemovalInv, TakenInv, AskedInv, Provides, Removes
<1>1. CASE \E account \in Accounts : AskProvision(account)
  BY <1>1, <1>l DEF AskProvision
<1>2. CASE AskRemove
  <2>1. CASE Launch("remove", window.cfg.record)
    BY <1>l, <2>1
  <2>2. CASE /\ window' = [window EXCEPT !.pc = "fallback", !.op = "remove",
                                         !.who = window.cfg.record, !.outcome = "none"]
             /\ UNCHANGED child
    <3>1. window'.pc = "fallback" /\ window'.outcome = "none" /\ shared' = shared
      BY <1>t, <1>2, <2>2 DEF Windows, AskRemove
    <3> QED BY <2>2, <3>1, WindowActsOn
  <2> QED BY <1>2, <2>1, <2>2 DEF AskRemove
<1>3. CASE RegisterAsAdmin
  <2> DEFINE cfg == [window.cfg EXCEPT !.record = Admin]
  <2>1. /\ SaveOrRaise(cfg) /\ window' = [window EXCEPT !.cfg = cfg, !.outcome = "none"]
        /\ child' = child /\ window.pc = "idle"
    BY <1>3 DEF RegisterAsAdmin, Idle
  <2>2. cfg \in Settings
    BY <1>c, <1>r
  <2> HIDE DEF cfg
  <2>3. window'.pc = "idle" /\ window'.outcome = "none"
    BY <1>t, <2>1 DEF Windows
  <2> QED BY <1>t, <2>1, <2>2, <2>3, SavesAces, WindowActsOn
<1>4. ASSUME NEW outcome \in {"revoked", "removed"}, Removed(outcome), child' = child
      PROVE  /\ shared'.rootAces = shared.rootAces /\ shared'.runsAces = shared.runsAces
             /\ window'.pc = "idle" /\ window'.outcome = outcome /\ window'.who = window.who
  <2> DEFINE cfg == [window.cfg EXCEPT !.record = None]
  <2>1. SaveOrRaise(cfg) /\ window' = [window EXCEPT !.pc = "idle", !.cfg = cfg, !.outcome = outcome]
    BY <1>4 DEF Removed
  <2>2. cfg \in Settings
    BY <1>c, <1>r
  <2> HIDE DEF cfg
  <2> QED BY <1>t, <2>1, <2>2, SavesAces DEF Windows
<1>5. ASSUME Kept, child' = child, shared' = shared
      PROVE  RemovalInv'
  <2>1. window'.pc = "idle" /\ window'.outcome = "kept"
    BY <1>t, <1>5 DEF Kept, Windows
  <2> QED BY <1>5, <2>1, WindowActsOn
<1>6. CASE ConfirmRemoval
  <2>1. CASE task = None /\ Removed("revoked") /\ window.outcome = "ok"
    <3>1. window.pc = "confirm" /\ child' = child /\ task' = None
      BY <1>6, <2>1 DEF ConfirmRemoval
    <3>2. child.pc = "idle" /\ window.who \notin Access
      BY <2>1, <3>1 DEF RemovalInv, AskedInv
    <3>3. /\ shared'.rootAces = shared.rootAces /\ shared'.runsAces = shared.runsAces
          /\ window'.pc = "idle" /\ window'.outcome = "revoked" /\ window'.who = window.who
      BY <1>4, <2>1, <3>1
    <3> QED BY <3>1, <3>2, <3>3 DEF RemovalInv, TakenInv, AskedInv, Access
  <2>2. CASE Removed("removed")
    <3>1. child' = child
      BY <1>6 DEF ConfirmRemoval
    <3>2. /\ shared'.rootAces = shared.rootAces /\ shared'.runsAces = shared.runsAces
          /\ window'.pc = "idle" /\ window'.outcome = "removed"
      BY <1>4, <2>2, <3>1
    <3> QED BY <3>1, <3>2, WindowActsOn
  <2>3. CASE Kept /\ shared' = shared
    BY <1>5, <1>6, <2>3 DEF ConfirmRemoval
  <2> QED BY <1>6, <2>1, <2>2, <2>3 DEF ConfirmRemoval
<1>7. CASE OrdinaryDelete
  <2>1. CASE Removed("removed")
    <3>1. child' = child
      BY <1>7 DEF OrdinaryDelete
    <3>2. /\ shared'.rootAces = shared.rootAces /\ shared'.runsAces = shared.runsAces
          /\ window'.pc = "idle" /\ window'.outcome = "removed"
      BY <1>4, <2>1, <3>1
    <3> QED BY <3>1, <3>2, WindowActsOn
  <2>2. CASE Kept /\ shared' = shared
    BY <1>5, <1>7, <2>2 DEF OrdinaryDelete
  <2> QED BY <1>7, <2>1, <2>2 DEF OrdinaryDelete
<1>8. CASE Persist
  <2> DEFINE cfg == [window.cfg EXCEPT !.record = window.who]
  <2>1. child' = child /\ window.pc = "persist"
    BY <1>8 DEF Persist
  <2>2. cfg \in Settings
    BY <1>c, <1>t
  <2>3. shared'.rootAces = shared.rootAces /\ shared'.runsAces = shared.runsAces
    <3>1. SaveOrRaise(cfg) \/ shared' = shared
      BY <1>8 DEF Persist
    <3> HIDE DEF cfg
    <3> QED BY <1>t, <2>2, <3>1, SavesAces
  <2>4. window'.pc = "idle" /\ window'.outcome = window.outcome
    <3> HIDE DEF Loaded
    <3> QED BY <1>t, <1>8 DEF Persist, Windows
  <2> QED BY <1>v, <2>1, <2>3, <2>4, WindowActsOn
<1>9. CASE EditSettings
  <2> DEFINE cfg == [window.cfg EXCEPT !.edits = @ + 1]
  <2>1. /\ Save(cfg) /\ window' = [window EXCEPT !.cfg = cfg]
        /\ task' = task /\ child' = child
    BY <1>9 DEF EditSettings
  <2>2. cfg \in Settings
    BY <1>t, <1>9, ProvisioningAssumption DEF EditSettings, Settings
  <2> HIDE DEF cfg
  <2>3. /\ window'.pc = window.pc /\ window'.op = window.op /\ window'.who = window.who
        /\ window'.outcome = window.outcome
    BY <1>t, <2>1 DEF Windows
  <2>4. shared'.rootAces = shared.rootAces /\ shared'.runsAces = shared.runsAces
    BY <1>t, <2>1, <2>2, SavesAces
  <2> QED BY <2>1, <2>3, <2>4 DEF RemovalInv, TakenInv, AskedInv, Access
<1>10. CASE Repin
  <2>1. /\ child' = child /\ shared' = shared /\ window.pc = "repin"
    BY <1>10 DEF Repin
  <2>2. window'.pc \in {"persist", "aside", "idle"} /\ window'.outcome = window.outcome
    <3>1. \/ window' = [window EXCEPT !.pc = "persist"]
          \/ window' = [window EXCEPT !.pin = PinNow,
                                      !.pc = IF PinNow = "machine" THEN "aside" ELSE "idle"]
      BY <1>10 DEF Repin
    <3> HIDE DEF PinNow
    <3> QED BY <1>t, <3>1 DEF Windows
  <2> QED BY <1>v, <2>1, <2>2, WindowActsOn
<1>11. CASE SetAside
  <2>1. /\ child' = child /\ shared' = shared /\ window.pc = "aside"
        /\ window' = [window EXCEPT !.pc = "persist"]
    BY <1>11 DEF SetAside
  <2>2. window'.pc = "persist" /\ window'.outcome = window.outcome
    BY <1>t, <2>1 DEF Windows
  <2> QED BY <1>v, <2>1, <2>2, WindowActsOn
<1>12. CASE Restart
  <2>1. child' = child /\ shared' = shared /\ window'.pc = "idle" /\ window'.outcome = "none"
    BY <1>12 DEF Restart
  <2> QED BY <2>1, WindowActsOn
<1>13. CASE OwnRun
  BY <1>13 DEF OwnRun, RemovalInv, TakenInv, AskedInv, Access
<1> QED
  BY <1>1, <1>2, <1>3, <1>6, <1>7, <1>8, <1>9, <1>10, <1>11, <1>12, <1>13

LEMMA RemovalKept == Inv /\ RemovalInv /\ [Next]_vars => RemovalInv'
<1> SUFFICES ASSUME Inv, RemovalInv, [Next]_vars PROVE RemovalInv'
  OBVIOUS
<1>1. CASE UNCHANGED vars
  BY <1>1 DEF vars, RemovalInv, TakenInv, AskedInv, Access
<1>2. CASE ChildStep \/ Consent \/ Decline \/ TimeOut
  BY <1>2, RemovalProvides, RemovalRemoves, RemovalEnds DEF ChildStep
<1> QED BY <1>1, <1>2, RemovalWindow DEF Next

\* "Access revoked" is told only when it is: whatever was killed, retried or
\* declined before, and however many accounts there are, the task is gone and
\* the account stands on neither folder.
THEOREM RevocationIsReal == Spec => []RevokedMeansRevoked
<1>1. RemovalInv => RevokedMeansRevoked
  BY DEF RemovalInv, AskedInv, Access, RevokedMeansRevoked
<1> QED BY <1>1, InvHolds, RemovalInit, RemovalKept, PTL DEF Spec

-----------------------------------------------------------------------------

\* A save puts the window's settings where it is pinned to.
LEMMA SavesWhere ==
  ASSUME TypeOK, NEW cfg \in Settings, Save(cfg)
  PROVE  \/ /\ window.pin = "machine"
            /\ shared'.config = cfg /\ own' = own
         \/ /\ window.pin = "own"
            /\ shared' = shared /\ own'.config = cfg /\ own'.moved = own.moved
BY DEF TypeOK, Save, Writable, Folders, Profiles

\* What the settings do not depend on.
LEMMA EditsRest ==
  ASSUME EditsInv, switch => switch', window'.pin = window.pin, window'.cfg = window.cfg,
         shared'.config \in {shared.config, None},
         own'.config = own.config, own'.moved = own.moved,
         window'.pc = "aside" => window.pc = "aside",
         child'.pc = "promoteConfig" =>
            switch' = switch /\ child.pc = "promoteConfig" /\ child'.staged = child.staged
  PROVE  EditsInv'
BY DEF EditsInv, NotAfter, OwnInv, PinInv

\* A window whose settings are as late as they were, or later.
LEMMA EditsSaved ==
  ASSUME TypeOK, EditsInv, switch' = switch, child' = child, window.pc # "aside",
         window'.pin = window.pin, window'.pc # "aside",
         NEW cfg \in Settings, cfg.edits >= window.cfg.edits, window'.cfg = cfg,
         \/ Save(cfg)
         \/ cfg.edits = window.cfg.edits /\ UNCHANGED <<shared, own>>
  PROVE  /\ EditsInv'
         /\ shared.config # None => shared'.config # None /\ shared'.config.edits >= shared.config.edits
<1>1. /\ shared.config \in Settings \cup {None} /\ own.config \in Settings \cup {None}
      /\ window.cfg \in Settings /\ child.staged.config \in Settings \cup {None}
      /\ cfg.edits \in Nat /\ window.cfg.edits \in Nat
      /\ \A file \in Settings : file.edits \in Nat
  BY ProvisioningAssumption DEF TypeOK, Folders, Profiles, Windows, Children, Copies, Settings
<1>2. cfg # None
  BY SettingsAreFiles
<1>3. NotAfter(shared.config, window.cfg) /\ OwnInv /\ PinInv
  BY DEF EditsInv
<1>4. NotAfter(shared.config, cfg)
  BY <1>1, <1>3 DEF NotAfter
<1>5. child.pc = "promoteConfig" /\ NotAfter(child.staged.config, window.cfg) =>
        NotAfter(child.staged.config, cfg)
  BY <1>1 DEF NotAfter
<1>6. CASE window.pin = "machine" /\ shared'.config = cfg /\ own' = own
  <2>1. NotAfter(shared'.config, cfg)
    BY <1>1, <1>6 DEF NotAfter
  <2>2. shared.config # None => shared'.config # None /\ shared'.config.edits >= shared.config.edits
    BY <1>2, <1>4, <1>6 DEF NotAfter
  <2> QED BY <1>3, <1>6, <2>1, <2>2 DEF EditsInv, OwnInv, PinInv, NotAfter
<1>7. CASE /\ window.pin = "own"
           /\ shared' = shared /\ own'.config = cfg /\ own'.moved = own.moved
  <2>1. shared.config # None => shared'.config # None /\ shared'.config.edits >= shared.config.edits
    BY <1>1, <1>7
  <2> QED BY <1>2, <1>3, <1>4, <1>5, <1>7, <2>1 DEF EditsInv, OwnInv, PinInv, NotAfter
<1>8. CASE cfg.edits = window.cfg.edits /\ UNCHANGED <<shared, own>>
  <2>1. shared.config # None => shared'.config # None /\ shared'.config.edits >= shared.config.edits
    BY <1>1, <1>8
  <2> QED BY <1>3, <1>4, <1>5, <1>8, <2>1 DEF EditsInv, OwnInv, PinInv, NotAfter
<1> QED BY <1>6, <1>7, <1>8, SavesWhere

LEMMA EditsInit == Init => EditsInv
<1> SUFFICES ASSUME Init PROVE EditsInv
  OBVIOUS
<1>1. own.config # None /\ own.moved = FALSE /\ window.cfg = own.config
  <2>1. task \in Records
    BY ProvisioningAssumption DEF Init, Records
  <2>2. [edits |-> 0, record |-> task] \in Settings
    BY <2>1, ProvisioningAssumption DEF Settings
  <2> QED BY <2>2, SettingsAreFiles DEF Init
<1>2. shared.config = None /\ switch = FALSE /\ child.pc = "idle" /\ window.pin = "own"
        /\ window.pc = "idle"
  BY DEF Init, NoFolder, NoChild
<1> QED BY <1>1, <1>2 DEF EditsInv, NotAfter, OwnInv, PinInv

\* Never, from a state where the switch is on, is what stands in the shared
\* folder taken away or made older.
Regresses == switch /\ ~(shared'.config # None /\ shared'.config.edits >= shared.config.edits)

LEMMA SameIsNoRegress ==
  ASSUME Inv, shared'.config = shared.config
  PROVE  ~Regresses
<1>1. shared.config \in Settings \cup {None} /\ \A file \in Settings : file.edits \in Nat
  BY DEF Inv, TypeOK, Folders, Settings
<1>2. switch => shared.config # None
  BY DEF Inv, SwitchMeansProfile
<1> QED BY <1>1, <1>2 DEF Regresses

\* The steps of the child that leave the settings alone.
LEMMA EditsChild ==
  ASSUME Inv, EditsInv,
         \/ Begin \/ CreateRoot \/ CreateRuns \/ EnsureRuns \/ GrantRoot \/ GrantRuns
         \/ PromoteHistory \/ SeedSecret \/ Verify \/ Commit
         \/ Register \/ RegisterFails \/ TrustFolder \/ DeleteTask \/ ConfirmGone
         \/ PruneRoot \/ PruneRuns \/ Consent \/ StepFails \/ Report \/ Decline \/ TimeOut
  PROVE  EditsInv' /\ ~Regresses
<1>t. shared \in Folders /\ child \in Children /\ window \in Windows
  BY DEF Inv, TypeOK
<1>1. own' = own /\ (switch => switch')
  BY DEF Begin, CreateRoot, CreateRuns, EnsureRuns, GrantRoot, GrantRuns, PromoteHistory,
         SeedSecret, Verify, Commit, Register, RegisterFails, TrustFolder, DeleteTask,
         ConfirmGone, PruneRoot, PruneRuns, Consent, StepFails, Report, Decline, TimeOut
<1>2. shared'.config = shared.config
  BY <1>t DEF Begin, CreateRoot, CreateRuns, EnsureRuns, GrantRoot, GrantRuns, PromoteHistory,
         SeedSecret, Verify, Commit, Register, RegisterFails, TrustFolder, DeleteTask,
         ConfirmGone, PruneRoot, PruneRuns, Consent, StepFails, Report, Decline, TimeOut, Folders
<1>3. \/ \E outcome : Answer(outcome)
      \/ window' = window /\ child'.pc # "promoteConfig"
  <2>1. CASE Report \/ Decline \/ TimeOut
    BY <2>1 DEF Report, Decline, TimeOut
  <2>2. CASE StepFails
    <3>1. Refuse(FailsWith[child.pc]) /\ window' = window
      BY <2>2 DEF StepFails
    <3>2. child'.pc # "promoteConfig"
      BY <1>t, <3>1 DEF Refuse, Children
    <3> QED BY <3>1, <3>2
  <2>3. CASE \/ Begin \/ CreateRoot \/ CreateRuns \/ EnsureRuns \/ GrantRoot \/ GrantRuns
             \/ PromoteHistory \/ SeedSecret \/ Verify \/ Commit
             \/ Register \/ RegisterFails \/ TrustFolder \/ DeleteTask \/ ConfirmGone
             \/ PruneRoot \/ PruneRuns \/ Consent
    <3>1. window' = window
      BY <2>3 DEF Begin, CreateRoot, CreateRuns, EnsureRuns, GrantRoot, GrantRuns, PromoteHistory,
         SeedSecret, Verify, Commit, Register, RegisterFails, TrustFolder, DeleteTask,
         ConfirmGone, PruneRoot, PruneRuns, Consent
    <3>2. child'.pc # "promoteConfig"
      BY <1>t, <2>3 DEF Begin, CreateRoot, CreateRuns, EnsureRuns, GrantRoot, GrantRuns,
         PromoteHistory, SeedSecret, Verify, Commit, Register, RegisterFails, TrustFolder,
         DeleteTask, ConfirmGone, PruneRoot, PruneRuns, Consent, Goto, Refuse, Children
    <3> QED BY <3>1, <3>2
  <2> QED BY <2>1, <2>2, <2>3
<1>4. CASE window' = window /\ child'.pc # "promoteConfig"
  BY <1>1, <1>2, <1>4, EditsRest, SameIsNoRegress
<1>5. CASE \E outcome : Answer(outcome)
  <2>1. PICK outcome : Answer(outcome)
    BY <1>5
  <2>2. child'.pc # "promoteConfig"
    BY <2>1 DEF Answer, NoChild
  <2>3. /\ window'.pin = window.pin /\ window'.cfg = window.cfg
        /\ window'.pc = "aside" => window.pc = "aside"
    <3>1. After(window.op, outcome) # "aside"
      BY DEF After
    <3> HIDE DEF After
    <3> QED BY <1>t, <2>1, <3>1 DEF Answer, Windows
  <2> QED BY <1>1, <1>2, <2>2, <2>3, EditsRest, SameIsNoRegress
<1> QED BY <1>3, <1>4, <1>5

\* The copy of the settings, and the rollback of an attempt.
LEMMA EditsCopy ==
  ASSUME Inv, EditsInv, Stage \/ PromoteConfig \/ Rollback \/ RollbackFails
  PROVE  EditsInv' /\ ~Regresses
<1>t. /\ shared \in Folders /\ child \in Children /\ window \in Windows /\ own \in Profiles
      /\ child.staged \in Copies
  BY DEF Inv, TypeOK, Children
<1>n. /\ \A file \in Settings : file.edits \in Nat
      /\ shared.config \in Settings \cup {None} /\ own.config \in Settings \cup {None}
  BY <1>t DEF Settings, Folders, Profiles
<1>1. CASE Stage
  <2>1. /\ UNCHANGED <<shared, own, switch, window>>
        /\ child' = [child EXCEPT !.pc = "promoteConfig", !.staged = StagedNow]
    BY <1>1 DEF Stage
  <2>2. child'.pc = "promoteConfig" /\ child'.staged = StagedNow
    <3> HIDE DEF StagedNow
    <3> QED BY <1>t, <2>1 DEF Children
  <2>3. child'.staged.config = IF shared.config = None THEN own.config ELSE None
    BY <2>2 DEF StagedNow
  <2>4. switch => shared.config # None
    BY DEF Inv, SwitchMeansProfile
  <2>5. PinInv'
    BY <2>1, <2>3, <2>4 DEF EditsInv, PinInv
  <2>6. OwnInv'
    <3>1. window.pin = "own" => NotAfter(child'.staged.config, window.cfg)
      BY <1>n, <2>3 DEF EditsInv, OwnInv, NotAfter
    <3> QED BY <2>1, <2>2, <3>1 DEF EditsInv, OwnInv
  <2> QED BY <2>1, <2>5, <2>6, SameIsNoRegress DEF EditsInv
<1>2. CASE PromoteConfig
  <2>1. /\ child.pc = "promoteConfig" /\ UNCHANGED <<own, switch, window>>
        /\ shared' = IF child.staged.config = None THEN shared
                     ELSE [shared EXCEPT !.config = child.staged.config]
        /\ Goto("promoteHistory")
    BY <1>2 DEF PromoteConfig
  <2>2. child'.pc = "promoteHistory"
    BY <1>t, <2>1 DEF Goto, Children
  <2>3. CASE child.staged.config = None
    <3>1. shared' = shared
      BY <2>1, <2>3
    <3> QED BY <2>1, <2>2, <3>1, EditsRest, SameIsNoRegress
  <2>4. CASE child.staged.config # None
    <3>1. ~switch /\ window.pin = "own" /\ NotAfter(child.staged.config, window.cfg)
      BY <2>1, <2>4 DEF EditsInv, PinInv, OwnInv
    <3>2. shared'.config = child.staged.config
      BY <1>t, <2>1, <2>4 DEF Folders
    <3> QED BY <2>1, <2>2, <3>1, <3>2 DEF EditsInv, OwnInv, PinInv, Regresses
  <2> QED BY <2>3, <2>4
<1>3. CASE Rollback \/ RollbackFails
  <2>1. child.pc = "rollback" /\ UNCHANGED <<own, switch, window>> /\ Goto("report")
    BY <1>3 DEF Rollback, RollbackFails
  <2>2. shared'.config \in {shared.config, None}
    BY <1>3 DEF Rollback, RollbackFails, NoFolder, Remains
  <2>3. child'.pc = "report"
    BY <1>t, <2>1 DEF Goto, Children
  <2>4. ~switch
    BY <2>1 DEF Inv, FreshInv
  <2> QED BY <2>1, <2>2, <2>3, <2>4, EditsRest DEF Regresses
<1> QED BY <1>1, <1>2, <1>3

\* The window: what it saves is the latest there is.
LEMMA EditsWindow ==
  ASSUME Inv, EditsInv,
         RegisterAsAdmin \/ ConfirmRemoval \/ OrdinaryDelete \/ Persist \/ EditSettings
  PROVE  EditsInv' /\ ~Regresses
<1>t. /\ TypeOK /\ window \in Windows /\ window.cfg \in Settings /\ window.who \in Records
      /\ window.cfg.edits \in Nat
  BY DEF Inv, TypeOK, Windows, Settings
<1>c. \A record \in Records : /\ [window.cfg EXCEPT !.record = record] \in Settings
                              /\ [window.cfg EXCEPT !.record = record].edits = window.cfg.edits
  BY <1>t DEF Settings
<1>r. Admin \in Records /\ None \in Records
  BY DEF Records
<1>s. switch => shared.config # None
  BY DEF Inv, SwitchMeansProfile
<1>a. ASSUME NEW record \in Records, SaveOrRaise([window.cfg EXCEPT !.record = record]),
             switch' = switch, child' = child, window.pc # "aside",
             window'.cfg = [window.cfg EXCEPT !.record = record],
             window'.pin = window.pin, window'.pc # "aside"
      PROVE  EditsInv' /\ ~Regresses
  <2> DEFINE cfg == [window.cfg EXCEPT !.record = record]
  <2>1. cfg \in Settings /\ cfg.edits = window.cfg.edits
    BY <1>c
  <2>2. window'.cfg = cfg /\ (Save(cfg) \/ UNCHANGED <<shared, own>>)
    BY <1>a DEF SaveOrRaise
  <2> HIDE DEF cfg
  <2>3. cfg.edits >= window.cfg.edits
    BY <1>t, <2>1
  <2> QED BY <1>a, <1>s, <1>t, <2>1, <2>2, <2>3, EditsSaved DEF Regresses
<1>k. ASSUME Kept, UNCHANGED <<shared, own, switch, child>>
      PROVE  EditsInv' /\ ~Regresses
  <2>1. window'.pin = window.pin /\ window'.cfg = window.cfg /\ window'.pc = "idle"
    BY <1>t, <1>k DEF Kept, Windows
  <2> QED BY <1>k, <2>1, EditsRest, SameIsNoRegress
<1>d. ASSUME NEW outcome, Removed(outcome), switch' = switch, child' = child,
             window.pc # "aside"
      PROVE  EditsInv' /\ ~Regresses
  <2>1. /\ SaveOrRaise([window.cfg EXCEPT !.record = None])
        /\ window' = [window EXCEPT !.pc = "idle", !.cfg = [window.cfg EXCEPT !.record = None],
                                    !.outcome = outcome]
    BY <1>d DEF Removed
  <2>2. /\ window'.cfg = [window.cfg EXCEPT !.record = None] /\ window'.pin = window.pin
        /\ window'.pc = "idle"
    BY <1>t, <2>1 DEF Windows
  <2> QED BY <1>a, <1>d, <1>r, <2>1, <2>2
<1>1. CASE RegisterAsAdmin
  <2>1. /\ SaveOrRaise([window.cfg EXCEPT !.record = Admin])
        /\ window' = [window EXCEPT !.cfg = [window.cfg EXCEPT !.record = Admin],
                                    !.outcome = "none"]
        /\ UNCHANGED <<switch, child>> /\ window.pc = "idle"
    BY <1>1 DEF RegisterAsAdmin, Idle
  <2>2. /\ window'.cfg = [window.cfg EXCEPT !.record = Admin] /\ window'.pin = window.pin
        /\ window'.pc = "idle"
    BY <1>t, <2>1 DEF Windows
  <2> QED BY <1>a, <1>r, <2>1, <2>2
<1>2. CASE ConfirmRemoval
  <2>1. UNCHANGED <<switch, child>> /\ window.pc = "confirm"
    BY <1>2 DEF ConfirmRemoval
  <2>2. (\E outcome : Removed(outcome)) \/ (Kept /\ UNCHANGED <<shared, own>>)
    BY <1>2 DEF ConfirmRemoval
  <2> QED BY <1>d, <1>k, <2>1, <2>2
<1>3. CASE OrdinaryDelete
  <2>1. UNCHANGED <<switch, child>> /\ window.pc = "fallback"
    BY <1>3 DEF OrdinaryDelete
  <2>2. (\E outcome : Removed(outcome)) \/ (Kept /\ UNCHANGED <<shared, own>>)
    BY <1>3 DEF OrdinaryDelete
  <2> QED BY <1>d, <1>k, <2>1, <2>2
<1>4. CASE Persist
  <2>1. UNCHANGED <<switch, task, child>> /\ window.pc = "persist"
    BY <1>4 DEF Persist
  <2>2. CASE /\ SaveOrRaise([window.cfg EXCEPT !.record = window.who])
             /\ window' = [window EXCEPT !.pc = "idle",
                                         !.cfg = [window.cfg EXCEPT !.record = window.who]]
    <3>1. /\ window'.cfg = [window.cfg EXCEPT !.record = window.who] /\ window'.pin = window.pin
          /\ window'.pc = "idle"
      BY <1>t, <2>2 DEF Windows
    <3> QED BY <1>a, <1>t, <2>1, <2>2, <3>1
  <2>3. CASE /\ window' = [window EXCEPT !.pc = "idle", !.cfg = IF window.pin = "machine"
                                                     THEN Loaded(shared.config) ELSE @]
             /\ UNCHANGED <<shared, own, faults>>
    <3>1. window'.pin = window.pin /\ window'.pc = "idle"
            /\ window'.cfg = IF window.pin = "machine" THEN Loaded(shared.config) ELSE window.cfg
      <4> HIDE DEF Loaded
      <4> QED BY <1>t, <2>3 DEF Windows
    <3>2. CASE window.pin = "machine"
      <4>1. switch /\ shared.config # None
        BY <1>s, <3>2 DEF EditsInv, PinInv
      <4>2. window'.cfg = shared.config
        BY <3>1, <3>2, <4>1 DEF Loaded
      <4>3. NotAfter(shared.config, shared.config)
        <5>1. shared.config \in Settings
          BY <1>t, <4>1 DEF TypeOK, Folders
        <5>2. shared.config.edits \in Nat
          BY <5>1 DEF Settings
        <5> QED BY <5>2 DEF NotAfter
      <4> QED
        BY <2>1, <2>3, <3>1, <3>2, <4>2, <4>3, SameIsNoRegress DEF EditsInv, OwnInv, PinInv
    <3>3. CASE window.pin # "machine"
      BY <2>1, <2>3, <3>1, <3>3, EditsRest, SameIsNoRegress
    <3> QED BY <3>2, <3>3
  <2> QED BY <1>4, <2>2, <2>3 DEF Persist
<1>5. CASE EditSettings
  <2> DEFINE cfg == [window.cfg EXCEPT !.edits = @ + 1]
  <2>1. /\ Save(cfg) /\ window' = [window EXCEPT !.cfg = cfg] /\ window.pc # "aside"
        /\ UNCHANGED <<switch, task, child, faults>>
    BY <1>5 DEF EditSettings
  <2>2. cfg \in Settings /\ cfg.edits = window.cfg.edits + 1
    BY <1>t, <1>5, ProvisioningAssumption DEF EditSettings, Settings
  <2> HIDE DEF cfg
  <2>3. window'.pin = window.pin /\ window'.cfg = cfg /\ window'.pc # "aside"
    BY <1>t, <2>1 DEF Windows
  <2>4. cfg.edits >= window.cfg.edits
    BY <1>t, <2>2
  <2> QED BY <1>s, <1>t, <2>1, <2>2, <2>3, <2>4, EditsSaved DEF Regresses
<1> QED BY <1>1, <1>2, <1>3, <1>4, <1>5

\* The handover, a restart, a run of the old profile, and the two questions.
LEMMA EditsHandover ==
  ASSUME Inv, EditsInv,
         \/ (\E account \in Accounts : AskProvision(account)) \/ AskRemove
         \/ Repin \/ SetAside \/ Restart \/ OwnRun
  PROVE  EditsInv' /\ ~Regresses
<1>t. /\ window \in Windows /\ own \in Profiles /\ shared \in Folders
  BY DEF Inv, TypeOK
<1>s. switch => shared.config # None /\ shared.root = "trusted"
  BY DEF Inv, SwitchMeansProfile
<1>1. CASE (\E account \in Accounts : AskProvision(account)) \/ AskRemove
  <2>1. UNCHANGED <<shared, own, switch>>
    BY <1>1 DEF AskProvision, AskRemove
  <2>2. /\ window'.pin = window.pin /\ window'.cfg = window.cfg /\ window'.pc # "aside"
    BY <1>1, <1>t DEF AskProvision, AskRemove, Launch, Windows
  <2>3. child'.pc = "promoteConfig" => child' = child
    BY <1>1 DEF AskProvision, AskRemove, Launch, NoChild
  <2> QED BY <2>1, <2>2, <2>3, EditsRest, SameIsNoRegress
<1>2. CASE Repin
  <2>1. UNCHANGED <<shared, own, switch, child>>
    BY <1>2 DEF Repin
  <2>2. CASE window' = [window EXCEPT !.pc = "persist"]
    <3>1. window'.pin = window.pin /\ window'.cfg = window.cfg /\ window'.pc = "persist"
      BY <1>t, <2>2 DEF Windows
    <3> QED BY <2>1, <3>1, EditsRest, SameIsNoRegress
  <2>3. CASE /\ switch
             /\ window' = [window EXCEPT !.pin = PinNow,
                                         !.pc = IF PinNow = "machine" THEN "aside" ELSE "idle"]
    <3>1. PinNow = "machine"
      BY <1>s, <2>3 DEF PinNow
    <3>2. window' = [window EXCEPT !.pin = "machine", !.pc = "aside"]
      BY <2>3, <3>1
    <3>3. window'.pin = "machine" /\ window'.cfg = window.cfg /\ window'.pc = "aside"
      BY <1>t, <3>2 DEF Windows
    <3> QED BY <2>1, <2>3, <3>3, SameIsNoRegress DEF EditsInv, OwnInv, PinInv
  <2> QED BY <1>2, <2>2, <2>3 DEF Repin
<1>3. CASE SetAside
  <2>1. /\ UNCHANGED <<shared, switch, child>> /\ window.pc = "aside"
        /\ window' = [window EXCEPT !.pc = "persist"]
    BY <1>3 DEF SetAside
  <2>2. window'.pin = window.pin /\ window'.cfg = window.cfg /\ window'.pc = "persist"
    BY <1>t, <2>1 DEF Windows
  <2>3. window.pin = "machine"
    BY <2>1 DEF EditsInv, PinInv
  <2> QED BY <2>1, <2>2, <2>3, SameIsNoRegress DEF EditsInv, OwnInv, PinInv
<1>4. CASE Restart
  <2>1. /\ UNCHANGED <<shared, own, switch, child>>
        /\ window'.pin = PinNow /\ window'.cfg = Loaded(FileOf(PinNow)) /\ window'.pc = "idle"
    BY <1>4 DEF Restart
  <2>2. CASE switch
    <3>1. PinNow = "machine" /\ FileOf(PinNow) = shared.config
      BY <1>s, <2>2 DEF PinNow, FileOf
    <3>2. window'.cfg = shared.config
      BY <1>s, <2>1, <2>2, <3>1 DEF Loaded
    <3>3. NotAfter(shared.config, shared.config)
      <4>1. shared.config \in Settings
        BY <1>s, <1>t, <2>2 DEF Folders
      <4>2. shared.config.edits \in Nat
        BY <4>1 DEF Settings
      <4> QED BY <4>2 DEF NotAfter
    <3> QED BY <2>1, <2>2, <3>1, <3>2, <3>3, SameIsNoRegress DEF EditsInv, OwnInv, PinInv
  <2>3. CASE ~switch
    <3>1. PinNow = "own" /\ FileOf(PinNow) = own.config
      BY <2>3 DEF PinNow, FileOf
    <3>2. window.pin = "own" /\ own.config # None /\ own.config.edits = window.cfg.edits
      BY <2>3 DEF EditsInv, PinInv, OwnInv
    <3>3. window'.cfg = own.config
      BY <2>1, <3>1, <3>2 DEF Loaded
    <3> QED
      BY <2>1, <2>3, <3>1, <3>2, <3>3, SameIsNoRegress DEF EditsInv, OwnInv, PinInv, NotAfter
  <2> QED BY <2>2, <2>3
<1>5. CASE OwnRun
  <2>1. /\ UNCHANGED <<shared, switch, child, window>>
        /\ own'.config = own.config /\ own'.moved = own.moved
    BY <1>5, <1>t DEF OwnRun, Profiles
  <2> QED BY <2>1, EditsRest, SameIsNoRegress
<1> QED BY <1>1, <1>2, <1>3, <1>4, <1>5

LEMMA EditsKept == Inv /\ EditsInv /\ [Next]_vars => EditsInv' /\ ~Regresses
<1> SUFFICES ASSUME Inv, EditsInv, [Next]_vars PROVE EditsInv' /\ ~Regresses
  OBVIOUS
<1>1. CASE UNCHANGED vars
  <2>1. UNCHANGED <<shared, own, switch, child, window>>
    BY <1>1 DEF vars
  <2> QED BY <2>1, SameIsNoRegress DEF EditsInv, NotAfter, OwnInv, PinInv
<1>2. CASE ChildStep \/ Consent \/ Decline \/ TimeOut
  BY <1>2, EditsChild, EditsCopy DEF ChildStep
<1> QED BY <1>1, <1>2, EditsWindow, EditsHandover DEF Next

\* Once the computer is shared its live settings are never lost and never go
\* back to older ones: not by a copy of a resumed attempt, not by a rollback,
\* not by a window that was opened before the switch was turned on, and not
\* when the old file could not be set aside.
THEOREM LiveSettingsStay == Spec => LiveSettingsNeverRegress
<1>1. Inv /\ EditsInv /\ [Next]_vars =>
        [switch => shared'.config # None /\ shared'.config.edits >= shared.config.edits]_vars
  BY EditsKept DEF Regresses
<1> QED BY <1>1, InvHolds, EditsInit, EditsKept, PTL DEF Spec, LiveSettingsNeverRegress

=============================================================================
