# DistrictSync: a TLA+ verification project

DistrictSync (`src/`) turns a school district's student-information exports into the
roster files SpacesEDU takes, and delivers them by SFTP. One program is started in
several ways: a nightly scheduled task, a command line, and a Flet window that runs the
same pipeline by hand. They share files and take no lock between them. Nothing here is a
long-running server; what is hard is that separate processes meet in the same folder, the
same history database, the same settings and the same Windows profile, that any of them can
be killed at any step, and that each layer promises something ("all succeed or none are
committed", "never downgrades", "delivery ships what was vouched for") about what is left.

The project holds TLA+ modules translated from the Python source, TLC configurations that
check them on small instances, and proofs for every instance.

Paths below are relative to `src/`, whose Python code is itself under `src/src/`; `loader.py`
means `src/src/etl/loader.py`, and so on.

## 1. Inventory

### Output folder — `etl/loader.py`
* State: the CSV files in the output folder; per run a staging directory `.tmp_<stamp>` and
  a backup directory `.bak_<stamp>`; the archives `archive_*/`. All of it is on disk, so it
  outlives a process.
* Operations: `_reconcile_output_dir` (adopt what a dead run left), `save_all` (stage, back
  up and promote file by file, roll back, clean up), `archive_stale_outputs`.
* Interacts with: the pipeline (its only caller), the delivery (reads the folder later), and
  any other run into the same folder.
* Hard: a kill between two renames, a rollback one of whose restores fails, a second run
  whose reconciliation meets the first one's live directories.
* Correct when: a run publishes all its files or none; bytes are lost only when a complete run
  superseded them; a live run's directories are never swept; what a dead run moved aside is
  still somewhere.

### Pipeline, gates and outcome ledger — `etl/pipeline.py`, `etl/outcomes.py`, `etl/errors.py`
* State: the `OutcomeLedger` (one outcome per configured entity), the exception in flight, the
  run record and the exit code.
* Operations: read configuration, pre-flight the output target, load, gate the input,
  transform entity by entity behind a bulkhead, gate the output, save, archive, deliver,
  record, or fall into one of several failure sinks.
* Interacts with: every other component; it is the one place they are sequenced.
* Hard: five gates, far apart, decide together whether anything is written or sent; an
  isolated failure must neither hide nor become a vaguer one.
* Correct when: only a whole night leaves; a refusal touches nothing; the ledger accounts for
  every entity; exit code, record and disk agree.

### SFTP delivery — `sftp/uploader.py`
* State: the manifest, the zip in a temporary directory, the retry counter and clock, what the
  server has received.
* Operations: check the manifest, zip, connect (host key, password), put the zip, put each
  standalone feed, retry a transient failure within a budget.
* Interacts with: the output folder (reads it at delivery time), the server, `known_hosts`.
* Hard: a put that fails after it replaced the remote file, a retry across midnight, a server
  that changes between attempts, another run rewriting the files meanwhile.
* Correct when: success means every vouched-for file is whole on the pinned server; nothing else
  is sent, nothing to anyone else; retries end within the budget.

### Run history — `history/store.py`
* State: `history.db` with its schema stamp, its columns and rows; the quarantined files; the
  breadcrumb that fences a superseded profile.
* Operations: `write_run_record` (fence, open, create, migrate, insert, quarantine and retry
  once), `read_run_records` and `store_meta`.
* Interacts with: two processes, possibly of two versions of the program; the handover to a
  machine-wide profile, which renames the file.
* Hard: the version is read, the tables made and the stamp set in separate transactions; a
  damaged file is renamed by name after it was opened; reads must not create the file.
* Correct when: a stamp implies its columns, versions never go down, a written row stays
  readable, a write always returns.

### Provisioning and handover — `scheduler/provisioning.py`, `scheduler/provision_session.py`, `scheduler/elevated_apply.py`, `scheduler/elevation.py`
* State: the shared machine directory with its access list, the artefacts migrated into it, the
  machine switch in the registry, the scheduled task, the per-user profile set aside.
* Operations: create or resume the directory, migrate, seed the secret, verify, commit the
  switch, register the task; roll back; prune a principal; in the window, wait for the
  elevated child with a time limit and hand over by what the switch says.
* Hard: the elevated child is terminated on a timeout at any step; its parent decides from the
  switch alone; a retry resumes a half-made directory.
* Correct when: the switch is on only over a verified directory; the live task's principal has
  access; a killed attempt can be resumed; nothing saved per user is lost in the handover.

### Scheduled task and schedule check — `scheduler/windows.py`, `scheduler/task_com.py`, `scheduler/linux.py`, `scheduler/schedule_check.py`
* State: the registered task, read back after it was made; the settings' idea of it.
* Correct when: a verdict never says "scheduled" of a task that is absent or belongs to another
  profile.

### Settings and data folder — `config/app_config.py`, `utils/paths.py`, `sftp/secret_store.py`
* State: `config.json`, one `AppConfig` instance per process and per screen, the preserved unreadable
  predecessors, the pinned data directory and the machine switch, the password store.
* Operations: load, save, guarded field writes, identity save and clear, creator save, window
  placement, purge of preserved copies.
* Hard: every save writes the whole document, from fields read earlier; an unreadable file is
  preserved and replaced; a refused or failed write must be taken back in memory as well; an
  erasure has to reach the copies set aside before it.
* Correct when: only accepted edits reach the disk; an unreadable file survives the save that
  replaces it; what a person was told is erased is nowhere.

### Mapping configuration and authoring — `config/loader.py`, `config/authoring.py`, `ui_flet/config_editor.py`, `ui_flet/screens/creator.py`, `ui_flet/screens/mapping.py`
* State: bundled mappings and the overlay files written here, one of which is active
  (`sis_type`); the draft token in the settings; the digests of the districts that passed a test.
* Operations: answer the questions, name the files, run the test conversion, confirm (activate),
  discard, apply another mapping, each also from a resumed draft.
* Hard: three settings instances are alive at once and each writes the whole document; a test is of
  a file's content at one moment and the confirmation comes later; a name is shown once per file
  and stored in several places.
* Correct when: the names shown are the names that convert; the mapping that is made active was
  tested as it reads; the screen shows the district that is saved.

### Extraction, preflight and transformers — `etl/extractor.py`, `etl/preflight.py`, `etl/transformer.py`, `etl/transformers/*`
* State: the context the transformers hand on (active students, staff and classes left out, class
  artifacts, notes); the frames built so far.
* Operations: one build per entity in `entity_order`, each behind the bulkhead of the pipeline.
* Hard: what one file leaves out decides what another may name, under rules stated in different
  modules; blends take class ids away before the enrolments name them.
* Correct when: no row names something the delivery does not hold; who is delivered is placed;
  a retake and a double absence are decided by the whole export, not by its order.

### Home and Run History — `ui_flet/home_status.py`, `ui_flet/run_history.py`, `ui_flet/schedule_status.py`, `ui_flet/schedule_probe.py`, `etl/sync_window.py`
* State: the run records, one reading of the scheduled task, the settings' season and schedule
  hint; what a screen read when it was built.
* Operations: pure derivations of a verdict by four surfaces (Home, Run History, the dot on the
  rail, the wizard's greeting); the thread that asks Windows.
* Hard: a task that ran and left no record, a night the season skipped and a run that is still
  going look alike.
* Correct when: the surfaces agree, and a green Home was earned.

### Setup wizard and Settings screen — `ui_flet/setup_flow.py`, `ui_flet/setup_gates.py`, `ui_flet/screens/setup.py`
* State: a mount's `AppConfig`, its answers and its in-flight flag; the record of the task in the
  settings; registrations and removals on their threads; the open dialog.
* Operations: the steps, back and forward; the saves that find out whether the task has to be made
  again; register, remove, read back, answer; the Finish page.
* Hard: a registration waits for a person's permission while the screen goes on; its answer is
  applied to the mount that asked, possibly after it was left; calls given up still take effect.
* Correct when: the record is the task; a drift is told; no save takes away the right to run
  unattended; the last page is true.

### Convert screen and job runner — `ui_flet/screens/convert.py`, `ui_flet/convert_output.py`, `ui_flet/convert_result.py`, `ui_flet/job_runner.py`
* State: the pick, the cards (result, question, delivery), the jobs, the output folder it shares
  with the nightly, the run records.
* Operations: convert, acknowledge or decline a shrinking roster, deliver from a card or from the
  folder, leave, open again.
* Hard: consent is given on a card that stays while the pick, the folder and the files can change;
  a job outlives the screen that started it.
* Correct when: consent, card, result and record are about one and the same run; every job is
  answered.

### Left out
The quality report, layout, wording, logging, string validators and formatting keep no state of
their own. pandas, paramiko, sqlite, DPAPI, icacls and the Task Scheduler are external: they
are modelled only as far as the calls to them show.

`PROJECT.json` lists the same components with the modules that cover each, and the hazards at
their lines with the properties that would catch them.

## 2. Modules

| module | what it is |
|---|---|
| `OutputFolder` | the output folder and the runs that write into it, one file-system call per step |
| `AtomicOutput` | abstract specification: a run publishes all of its files or abandons all |
| `OutputFolderRefinement` | the refinement mapping between the two |
| `OutputFolderProofs` | its types, the safety of backups, all-or-nothing and the refinement, proved |
| `Outcomes` | the rules and tables of `outcomes.py` |
| `Pipeline` | one run of `run_pipeline` up to the exit code (extends `Outcomes`) |
| `PipelineProofs` | its types and its three promises, those of `Delivery`, the five properties of `Roster` and its refinement of `Pipeline`'s entity loop, proved |
| `Delivery` | one `upload_csvs` |
| `RunStore` | `history.db` under concurrent writers and readers of several versions |
| `RunStoreProofs` | its types, the ladder's two promises and that a row stays, proved |
| `Provisioning` | one computer moved to a shared profile: the window, its elevated children, the handover, the removal |
| `ProvisioningProofs` | its types and its three safety properties, proved |
| `Settings` | `config.json` under several processes, each with an instance of it |
| `SettingsProofs` | its types and its three promises, and those of `Creator`, proved |
| `SyncWindow` | the season: the days a nightly runs, and the window the setup screen fills in |
| `HomeStatus` | what Home, Run History, the rail and the wizard's greeting conclude (extends `Outcomes`, `SyncWindow`) |
| `Watch` | nights that go by, and a screen opened at any moment (extends `HomeStatus`) |
| `WatchProofs` | its types and its two properties, proved |
| `Scheduler` | the ways a call to the Task Scheduler can go, direct or elevated, and what it leaves |
| `SetupFlow` | the decisions of the wizard and of the Settings screen (extends `SyncWindow`) |
| `Setup` | that screen with its mounts, registrations and answers (extends `SetupFlow`, `Scheduler`) |
| `SetupProofs` | its types and its four properties, proved |
| `FrameRows` | a frame as the sequence of its rows, with boolean indexing and `drop_duplicates` |
| `Blended` | the detection of blended classes (extends `FrameRows`) |
| `Transcript` | course history, course selection and the two absence exports (extends `FrameRows`) |
| `Roster` | the transformers in the pipeline's order (extends `Outcomes`, `Blended`, `Transcript`) |
| `RosterRefinement` | the mapping under which `Roster` implements the entity loop of `Pipeline` (extends `Roster`) |
| `ConvertGates` | what the Convert screen may offer and say, and the single-flight machine (extends `HomeStatus`) |
| `Convert` | that screen with its jobs, and a nightly over the same folder (extends `ConvertGates`) |
| `ConvertProofs` | its types and its four safety properties, proved |
| `Creator` | the Mapping screen and the panel that authors a mapping |
| `MC*` | the definitions TLC needs for a small instance |

### OutputFolder
`top` is what each CSV name holds; `tmpDir`/`staged` and `bakDir`/`bak` are the two scratch
directories of each run with their contents; `archive` the archived bytes. Bytes are abstracted to
the run that wrote them, `Original` for what was there before; `Folders` are the folders a run may
find. Per run, `pc` is the place in
`save_all` and `applied`/`backed` are its list of `(dest, backup)` pairs. `before`, `spoiled` and
`alone` are history variables (what the run found; whose restore failed; which runs no other has
overlapped so far); no guard reads them. `AtomicOutput` says the same with `met`: once two runs have met,
nothing more is promised of the folder.

`Reconcile`, `MakeStaging`, `StageFile`, `ListStaged` are `save_all` up to the commit; `Look`,
`MoveAside`, `MoveAsideFails`, `Promote` are the loop of `_commit_staged`; `Unlink`, `Restore`,
`RollbackDone` its except block; `CleanTmp`, `CleanBak` the finally block; `ArchiveStale` and
`ArchiveEnds` are `archive_stale_outputs`. Any call may raise `OSError`, `Kill` may come between any
two, `Interrupt` is Ctrl-C, which the except block does not catch and the finally block does not
escape. `Age` moves a run's directories past the two age gates of the reconciliation; it only
applies to runs that are over, because the gates (an hour, a week) are far longer than a run.

### Pipeline and Outcomes
The rows are abstracted to whether a file is absent, has no rows or has rows, and what a transform
does to a choice among everything `run_transform` tells apart. `stage` is the place in
`run_pipeline`; `outcome` is the ledger; `raised`/`raisedAt` the exception in flight and where it
came from; `logged`, `stored`, `exit` what the run told. `save_all`, `archive_stale_outputs` and
the delivery are single steps here, with the outcomes the other modules show them to have. A delivery puts
the zip and then each standalone file (`Feeds`), so one that does not complete (`sftpOk`) may have left none, the
rostering files and some feeds, or all of them on the server (`uploader.py:739-757`).

### Delivery
`local` holds which run's bytes are under each name, so that another run may replace them
(`OtherRunWrites`) while the delivery goes on; `zip` is what was read when a file was added;
`remote` is each server's folder, a put being possibly broken after any part of its effect.
Time is counted in whole units; `elapsed` grows by an attempt's duration and the wait after it.

### RunStore
A file is an identity of its own (`file[n]`), and `live`, `quarantined` and `aside` say which name
it bears, because a connection keeps the file it opened when another process renames it. The
`-wal` and `-shm` files are folded into the file they belong to. Each transaction is a step. `set`
is the computer: the versions of the programs on it, who reads, whether the store was established
before, whether writers overlap, how often it is damaged and whether it is handed over. `met` is the store whose
error a writer saw last; a writer renames whatever bears the name by then (`Renames`), and `mistaken`, history, keeps the
stores renamed by one that had met another. A migration that fails on the retry after a
quarantine ends the call as an exception (`MigrationEnds`, result `raised`), any other as `migrationFailed`.
`SCHEMA_VERSION` is 1 today and the migration ladder is empty, so the instances with `Newest > 1`
check what the ladder's code promises about the next versions rather than something that can
happen now.

### Provisioning
`shared` is the machine folder (its trust, its `runs/`, the accounts on either access list, the copied
artefacts, the sealed password), `own` the administrator's own profile with its `MOVED.txt` fence, `switch`
the value in `HKLM`, `task` the account the live task runs as. `child.pc` is the place of the elevated process
in `apply_provision` or `apply_prune_principal`, one call per step; `window.pc` the place of the window
between asking and the record, `window.pin` the profile it is pinned to and `window.cfg` its `AppConfig` in
memory. A settings document is abstracted to a count of the administrator's edits and the account on
record.

`Begin` is `_resume_or_refuse`; `CreateRoot`, `CreateRuns`, `EnsureRuns`, `GrantRoot`, `GrantRuns` are steps 3
and 3b; `Stage`, `PromoteConfig`, `PromoteHistory` are `migrate_profile`; then `SeedSecret`, `Verify`, `Commit`
and `Register`. `StepFails` is the `ProvisionRefused` each of them may raise, with `Refuse` deciding on the
rollback; `TrustFolder` to `PruneRuns` are the removal. `TimeOut` is the bounded wait of `run_elevated`: the
child ends wherever it stands. `Restart` closes and reopens the window at any point; its child runs on.
`Repin`, `SetAside` and `Persist` are `complete_handover` with the window's callbacks.

Assumed: a delivery is configured (otherwise no password is sealed and nothing is claimed about one); the
administrator has a saved configuration before scheduling, as the gate demands; one elevated child at a time;
`TerminateProcess` ends the child (its result is not checked, `elevation.py:363`). `known_hosts` and the mapping
files follow the rule of `config.json` and are not told apart from it.

### Settings
`file` is `config.json` (its bytes and whether it opens), `copies` the predecessors by the second in
their name, `staged`/`litter` the temporary files, `mem` each holder's instance, `flow` the save it is in.
The fields are grouped by who may write them: chosen settings, identity, creator token, tested
digests, window placement. `Load` is `AppConfig.load`; `Begin` takes one of the field writes up to the first
call on the file; `Save` is the rest, call by call: the fence (`CheckFence`), the
unreadable predecessor read, created under its second and filled (`Inspect`, `SetAside`, `Fill`), the staging file (`Stage`),
the replacement (`Promote`), the roll-back in memory (`Failed`), and after an erasure the listing of the copies and their
removal one by one (`List`, `Unlink`, `Purged`). `Crash`, `Damage`, `Lock`, `Unlock`, `Supersede` and the steps of the
other processes may come between any two. `accepted`, `erased` and `late` (the copies begun since a folder was listed) are
history variables.

### HomeStatus, SyncWindow and Watch
`HomeStatus` is operators only: each function of the derivation modules under its own name, with wording
abstracted to which sentence it is. `Watch` moves the world: `Tick` is half a day, `NightStarts`/`NightEnds`/
`NightIsKilled`/`NightSkips` the task's night, `Manual` a conversion in the window, `Register`/`Unregister`/
`TaskVanishes` the task itself. `Open` builds a screen from what it reads then, `ProbeReads` is the answer of
the thread that asked Windows, `Leave` goes away. `place` holds what never moves in a behaviour: whose account the
task has, where its records go, the season and whether setup is complete.

### Scheduler, SetupFlow and Setup
`doc` is the settings document, `task` the task as Windows has it, `mounts` the builds of the screen with
their instances, `jobs` the registrations and removals on their threads. `RegisterPressed`, `SaveFolders`,
`SaveDelivery`, `Agree`, `Decline` and `UnregisterPressed` are the handlers; `WorkerReads`, `WorkerEnds`, `LateEffect`
and `Answer` are a job: the thread reads the settings when it starts, the call goes one of the `Ways` of
`Scheduler` with one of its `Effects`, and the answer is applied to the mount that asked. `ForwardDistrict` to
`Finish` are the wizard. `told` is the last word the person had.

A registration for another account goes through `request_provision`: it always asks for permission, only the child's own
report counts as success, and nothing is read back (`ProvisionSucceeded`). Its answer is `complete_handover`
(`Handovers`): with the switch off or unreadable, or the shared folder taken over, what was provisioned is saved; with a
shared folder that is refused there is nowhere to save to. A window that has taken over is built again at Home. Which
profile is meant and what becomes of the other one is `Provisioning`'s; here one document follows it. An answer that
arrives after a refused shared folder is left out.

`races` names steps the screen lets happen that break what it says: a screen left while a registration
runs, a second one asked for by Enter, a save between the click and its thread, a read-back that finds an
older task or none. Each property names the ones after which it does not hold; in every other order it
does. `MaxRaces` bounds the kinds in one behaviour, not how often one happens.

### FrameRows, Blended, Transcript and Roster
Frames are sequences of rows, because `drop_duplicates` and the course history depend on the order; `FrameRows` says
what pandas returns, for every module that reads exports. A row keeps its keys, its grade and whether the remaining
required values are there; names, dates and addresses are left out. `context` is the `TransformContext`, `loop` and
`position` the entity loop of `run_transform`, `output` the frames built so far. There is one action per entity
(`BuildStudents`, `BuildStaff`, ...), taken in the configured order; an entity may also have nothing to read
(`SourcesEmpty`) or raise (`EntityRaises`; `BuildEnrollments` does when no classes were published,
`BuildStudentAttendance` for an absence code without a category), and is then contained or stops the night, as `Outcomes`
says. The properties are stated over what is delivered, with reference definitions that do not use the code's own maps.

The order names an entity once (`configured_entity_order`) and runs it after those it depends on (`DEPENDS_ON`); every
bundled configuration does, which the repository pins (`tests/test_required_values.py`). An order written by hand that
leaves out what an entity depends on is among the cases, one that runs them the wrong way round is not: there `Enrollments`
raises without published classes, and a file built before the roster is not filtered by it.

### ConvertGates and Convert
`jobs` are the conversions and deliveries with what each has captured; `screen` the controls, the card and the
dialog of the live screen, or `Away`. `Runs` is a job's next step on its thread: `Prepare` (gates and question), `Build`,
`Write` (save and archive), `Resolve` and `Upload` of a delivery, `Finish` (the record), `Answer` (the card), most with a
way to fail while the budget of faults lasts; an upload that fails may have sent some of its files. `DropsSharply` is the
question's threshold, less than four fifths of the rows of the output on disk. A previous output that cannot be
read, which is asked about too, is left out. `Settle` is another screen of the window saving a setting, `Export`
a new extract in the input folder and `Night` the nightly writing the same output. `writer` is history. The inside of
a save and of an upload are `OutputFolder` and `Delivery`; here each is one step. `convert_job`'s
`sftp_requested` leg has no caller and is left out.

### Creator
`overlay` are the mapping files authored here, their content standing for their digest; `disk` the settings; `mount` the
Mapping screen with the instance it read when it was opened; `panel` the creator inside it. `Continue`,
`Name`, `SaveNames`, `RunGate`/`GateReads`/`GateEnds`, `Activate`, `Discard`/`DiscardConfirmed` and `PanelBack` are its handlers,
`Pick`/`Apply` the screen's own. `EditedElsewhere` and `SwitchedElsewhere` are another window or a person with an
editor. A site is a place where a mapping names a file; two entities and the school year are enough
for one file to be named in two ways. A mapping edited by hand may name a file in a way the filename boundary
refuses; the form then shows the standard name (`Taken`). `passed`, `touched` and `others` are history variables.

## 3. Runs

Every `CHECK_DEADLOCK FALSE` is there because runs, deliveries, writes, people and threads come to an end in
these models and nothing else happens afterwards.

| run | question | bounds |
|---|---|---|
| `OutputFolder_runs` | Whatever overlaps, fails, dies or is interrupted: is a moved original kept (`MovedAsideIsKept`), a live run left alone (`LiveDirsUntouched`), a run that met no other all-or-nothing (`AllOrNothing`), and the whole an implementation of the abstract publication (`ImplementsAtomicOutput`)? | 2 runs at any overlap, 2 files, symmetric in the runs, two folders to start from; 8.5 million states |
| `Pipeline_run` | Do gates, ledger, record, disk and exit code agree (`OnlyAWholeNightLeaves`, `LedgerIsComplete`, `ExitCodeContract`)? | 5 entities, one of each kind the rules tell apart; 4 source files; 6 configurations; every input folder; deliveries that stop after none, some or all of the files |
| `Delivery_run` | Is a reported success whole (`SuccessMeansWhole`), on the pinned server only (`UnverifiedServerGetsNothing`), of the envelope only (`OnlyTheEnvelope`), within the budget (`RetriesStayInBudget`)? | 3 files, up to 3 attempts of 0 or 3 units of a budget of 6, midnight early or never, another run that rewrites the folder; 1.6 million states |
| `RunStore_writes` | Does the migration ladder keep its promises (`MigrationErrorIsReal`, `NeverDowngraded`), does a written row stay (`WrittenIsRead`) and every write end (`EveryWriteEnds`)? | four computers: three programs of versions 1 and 3 at once over an established store; two of version 1 at once over one that is damaged; versions 1 and 2 in turn over a store damaged again as soon as it is repaired, and, with a reader, over one damaged once and handed over. 3 files; 345 thousand states |
| `Provisioning_attempts` | Do switch, folder, task, access and settings keep their promises (`SwitchMeansProfile`, `RevokedMeansRevoked`, `LiveSettingsNeverRegress`) through failed, killed and repeated attempts and removals, and does a retry recover (`RetryRecovers`)? | one managed and one password account, 2 faults, 1 settings edit, any number of restarts, attempts and removals; 1.9 million states |
| `Watch_nights` | Do the surfaces agree (`SurfacesAgree`), and was a green Home earned (`GreenIsEarned`)? | 4 days, the middle two the school year; 2 runs of 5 kinds of result, 2 records kept; 5 kinds of installation; 8.0 million states |
| `Settings_saves` | Does only accepted data reach the disk (`OnlyAcceptedIsWritten`), is what could not be read kept (`UnreadIsPreserved`), and is an erased identity gone (`ToldGoneIsGone`)? | 2 processes, 2 people, 1 district, 2 saves, 1 damage or lock, 2 seconds; 3.3 million states |
| `Setup_screen` | Is the record the task (`RecordIsTheTask`), a drift told (`DriftIsTold`), the right to run unattended never lost in passing (`NoSilentDowngrade`), the last page true (`FinishIsTrue`)? | 4 documents to start from, 2 jobs, 2 acts in the wizard and 3 in the settings, at most one kind of race; 509 thousand states |
| `Roster_folders` | Do the files fit together (`ReferencesResolve`, `WhoShipsIsPlaced`, `OneLessonOneClass`, `RetakeFollowsTheWholeHistory`, `DayIsCountedOnce`)? | families of folders that vary one or two exports at a time around two students and two teachers, under full, scoped, unblended and partial configurations; 142 thousand states |
| `Convert_screen` | Are consent, card, result and record about one run (`ConsentIsForTheRun`, `CardSendsItsOwnRun`, `ToldIsTrue`, `HistoryAgrees`), and is every job answered (`EveryJobIsAnswered`)? | three budgets: 2 jobs, 2 visits, 1 event outside; 3 jobs, 1 visit, 1 fault; a district that may have nothing to send, with a fault and an event. Extracts of 3 and 4 rows over an output of 5, so that one is asked about and one is not; 370 thousand states |
| `Creator_mapping` | Are the names shown those that convert (`RowsAreWhatConverts`), and was what is confirmed tested as it reads (`ConfirmedWasTested`)? | 2 districts, symmetric; three budgets: authoring alone, with a failing write or delete, with somebody else editing; hand edits with names of their own, divergent ones and refused ones; 1.5 million states |
| `Creator_switch` | Does the screen show the district that is saved (`ShownIsSaved`)? **violated** | the first of those budgets |

`MCWatch` also checks two facts of `SyncWindow` as assumptions over every day of a year: the window filled in from
any first day of school is a season that has begun by then and pauses for a summer of five weeks, wherever the
new year falls (`PrefillIsASeason`), and the day a pause is said to end on is the first on which the nightly runs
(`ResumeIsTheFirstOpenDay`).

Why these bounds. Two runs are enough for one to meet what the other left or holds, and two files are the fewest
for a commit to be half done; the proofs remove both. The pipeline's entities are one of each class of
`ENTITY_CRITICALITY` and `MAY_BE_EMPTY`, with the roster anchor and an optional listing. Three files let a delivery
fail between two feeds. With three store files a quarantined store is recreated and damaged again. Two faults cut an
attempt short and fail its rollback or its successor as well. Four days have both edges of a season and a night
on either side of each; two records are a verdict and the build before it. Two saves are a save and the
one that carries its leftovers along. Two jobs are a registration and what meets it; a third act is the save
that has to find out. A roster property needs two rows that disagree, so the folders vary pairs of exports and keep
the rest. Two convert jobs are a run and the one that overtakes it, a third delivers.

What the violation shows. In `Creator_switch` a computer has an active district and an unfinished draft of another. A
person opens the Mapping screen, applies a third mapping there, then resumes the draft and discards it. `_on_apply` saves through a fresh `AppConfig`, but asking
for a draft to resume (`mapping.py:1035`) uses the instance the screen was mounted with; that draft's file is
gone, so the token is cleared through `creator_save`, which writes the whole old document. The saved district
goes back to the one before the switch while the screen shows the new one. `mapping.py:407-409` promises the contrary.

### What the models reach and no property forbids

Where a property sets an outcome apart, this is what it is.

* Output folder: Ctrl-C during the commit skips the rollback (`except Exception`) but not the finally block, which
  deletes the backups (`loader.py:323`); a restore that fails in the rollback is logged, and the finally
  block deletes its backup too (`loader.py:216-218` says that never happens). `archive_dir.mkdir` stands
  outside the per-file guard (`loader.py:505`), so a folder that refuses a new directory fails a run whose files are
  committed, and its delivery is skipped. Two runs that commit at the same time can both succeed over a mixture.
* Delivery: it may ship the bytes of another run that rewrote the folder since the manifest was made.
* Run history: of two writers that met the same damaged file, the slower renames the healthy store the faster has
  recreated (`store.py:288`), and with it the rows written there (`WrittenIsRead` sets just those apart); a migration that
  fails on the retry after a quarantine leaves `write_run_record` as an exception, though it is "STRICTLY NON-FATAL: never raises"
  (`store.py:125`), because the retry catches `sqlite3.Error` and `OSError` only (`store.py:290-296`): both callers catch it
  (`pipeline.py:1146-1150`, `convert.py:814-822`), and with an empty ladder it cannot happen yet; a read can create an empty history when the store is moved between its two calls; a
  write that passed the fence before a handover makes a new store in the superseded profile; on a store that is
  just being created an older program can lower a newer one's stamp (latent while there is one version).
* Settings: a copy of the old settings that another process makes after an erasure has listed the folder survives an erasure
  that says it is complete (`app_config.py:1197-1209`). The last document saved wins, whole.
* Provisioning: the gate against moving a live task trusts the record (`setup_gates.py:255`), which is written
  only for an attempt whose answer arrived, so the next ordinary registration re-points that task in place. A `runs/` that
  cannot be made leaves the root behind; a copy promoted by an attempt that never committed stays; with an
  unreadable switch the record is written into the own profile while the computer is already shared. Two
  elevated children at once, which the model excludes and two windows allow, could have the one roll back the
  folder the other is resuming.
* Home: the night the season skipped is shown as a task that left no record on the morning the season opens
  (`home_status.py:860`). Where another account's task writes into a shared profile, a problem it reported still lights the
  rail's dot in the summer (`schedule_status.py:588`), next to a Home that says the nightly is paused and all is
  well: `needs_setup_badge` suppresses the contradiction only, because "the two ``attention`` sources are mutually
  exclusive" (`home_status.py:715-723`), which they are for an account's own task alone. `SurfacesAgree` sets that case apart.
* Setup: the races named in `Setup`. One of them, `unsaid`: a provisioning's success never says that settings saved meanwhile
  are not in the task, as an ordinary registration's does (`setup.py:3239-3255`, against `3468-3486`). The Finish page ticks a delivery that was tested and never saved, while its
  text says to save it (`setup_flow.py:1349`). Over a live task whose record was made without its arguments the screen says
  nothing of a drift (`setup_flow.py:753`); should the wizard be left unfinished over such a record, a way in the code
  only an old installation opens, its Finish page could promise a delivery that task does not make (`StartsKnown`).
* Convert: a shrinking file is written without a question when another writer filled the folder between the
  look and the save (`raced`, against `convert.py:36`); the failure card says nothing new was saved of a run that failed after its commit (`late`, `failure_copy.py:1228`);
  a delivery is said not to have reached SpacesEDU though some of its files arrived;
  consent names the run, not the bytes, so a new extract is covered by it; a file that could not be archived goes out
  with the next card (`stuck`); attempts that end on missing input, on the question or on an unusable folder leave no
  record; the comment at `convert.py:186` speaks of a single job in flight, but each build of the screen has a job runner of its own.
* Roster: under a portion rule written by hand, a day may count for more rows than a whole day, or for none
  (`student_attendance.py:606-622` checks no number). A blank Master Timetable id becomes the class id `nan_<year>` (`base.py:694`); a section in two sessions
  belongs to the later one. Of two teachers of one homeroom `drop_duplicates` keeps the first, and the other is not enrolled
  in it (`RoomIsShared`; the difference is reported of Classes).
* Creator: a name edited by hand that the filename boundary refuses is shown as the standard name with nothing unsaved, while
  `load_config` accepts it and the conversion uses it (`creator.py:458-464`, logged only); a renumbering deletes the overlay the active mapping names (`creator.py:1059`); a discard whose delete
  failed says nothing was kept; `_activate` records the digest of the file at the press, not of the tested
  one; saving names of the active mapping changes what the nightly converts before any test; an existing
  district's mapping is replaced without a question (`overwrite=True`).

### Fairness
Three specifications state fairness, each only for steps nobody has to take. `RunStore!FairSpec`: each writer's own
steps, because sqlite's busy timeout bounds every call. `Provisioning!FairSpec`: the steps of an elevated child, a
process that runs to its end by itself; every step of the window is a person's. `Convert!Spec`: the steps of each job on its
thread, its answer included. None assumes a call to succeed or a process not to be killed.

## 4. Proofs

`tlapm` checks all of the eight `*Proofs` modules: for any finite or infinite set of runs, of accounts, of people, of districts, any
number of files, programs, saves, jobs, faults and visits, any schedule, any entities and any settings to start from, under
the assumptions the modules name beside their constants (`ASSUME ...Assumption`), which TLC evaluates on every run. Each
theorem follows the same argument: an invariant that the initial states satisfy and every action keeps, from
which the property follows at once. What those invariants add to the properties is the content of the proofs:

**Output folder** (`OutputFolderProofs`)
* `BackupsAreSafe`, `LiveDirsAreSafe`: `MovedAsideIsKept` and `LiveDirsUntouched` with any overlap. `DirsInv` says, for each
  run: how far its commit is, in file order (`InOrder`); that its directories are young until it is over
  (`Young`), the fact the age gates rest on; that the originals it has moved aside and not restored are in its backup
  directory or archived (`Owed`); and that its directories still hold what it has yet to use (`Untouched`).
  `MovedAsideIsKept` alone is not inductive: without `Young` a reconciliation could sweep a live run.
* `SaveIsAllOrNothing`: `AllOrNothing`, for every run that no other overlapped, whatever the others do to each other.
  `AloneInv` adds to `DirsInv` that a live run in `alone` is the only live one and, for it, an account (`Ledger`) of the
  folder in terms of `before`: the promoted prefix holds its bytes, the rest is what it found, and undoing the
  applied list gives back `before`.
* `ImplementsAtomic`: the refinement of `AtomicOutput` under the mapping of `OutputFolderRefinement`, step by step.
  `ApartInv` adds to `AloneInv`, while no two runs have met, what the abstract status is read from (`Tale`): a run has
  declared its files once it is out of `idle`, runs until its verdict, and has touched only its own files before.
  Declaring, deciding and dying are the abstract steps; staging, moving aside, promoting and
  cleaning are stutters, because the abstract folder is the one found until the decision.

**Pipeline** (`PipelineProofs`). `WholeNights`, `CompleteLedgers`, `ExitCodes`: `LoopInv` says that every entity the loop has passed
is one a run may go on after (`Passed`), `DiskInv` that files exist and travel only at the stages after it and are
those that were built, `RecordInv` that nothing is told before the end.

**Roster** (`PipelineProofs` too). `RosterReferences`, `RosterPlaces`, `RosterLessons`, `RosterRetakes`, `RosterDays`: its five
properties, for exports of any size that disagree in any way, and any order as above (`CasesAssumption`). None of them is
inductive, because what a later entity does is right only for what an earlier one has published. `RosterInvariant` says
that, entity by entity:
* `PeopleInv`: the ids the later entities are filtered to are those of the students who ship, and nobody who ships is
  among the staff left out. `StudentFilesInv`: no student file names anybody else.
* `ClassesInv`: once Classes has published, its turn is over; every homeroom and blend, and the class of every row of the
  timetable, ships or was left out (`HomeroomsInv`, `TimetableInv`), and the sections of one lesson have one class and some
  pupil (`LessonsInv`). The last needs that a section belongs to the greatest of the sessions that claim it
  (`OwnerFacts`).
* `EnrollmentsInv`: each row refers to what is delivered (`Resolved`), and each row of the timetable and of the homerooms is
  placed with its teacher (a homeroom's co-teachers too), and each teacher Class Information lists for a blend in that blend, or a
  note says why (`Placed`), whichever of several equal rows `drop_duplicates` kept; the second teacher of a shared homeroom
  (`RoomIsShared`) apart.
* `CoursesInv`: a plan is delivered exactly when the set of attempts allows it. `LookupFacts` is the fold of the
  course history: the entry of a course says of its attempts what one reading them all at once would (`Says`), whatever
  their order.
* `AttendanceInv`: what is delivered is what was made of the two exports. `RosterDays` counts it exactly, with lemmas about the
  number of rows in a frame (`Tally`) and what joining and indexing make of it, for any portion rule that counts in whole numbers.

A fold over rows is beyond the induction theorems. What `FlattenSeq` and the course history compute is proved from their
recursion, each first shown to have a solution (`JoinedExists`, `LookedExists`): if some prefix did not satisfy the claim there would be
a least one (`Least`), and its predecessor shows there is none.

`RosterImplementsTransform`: `Pipeline` lets a transform return rows, return none or raise as it likes; `Roster` works out
which from the exports, and each of its steps is a step of `Pipeline`'s loop (`TransformSpec`, from the school year to the
delivery-integrity gate). The mapping (`RosterRefinement`) reads Pipeline's state off the ledger: `isolated` is the
category of the first failed entity behind the loop (`Contained`, which only grows at its end: `IsolatedGoesOn`), `raised`
that of what the loop stopped at (`StoppedBy`), and a file has rows when its frame has. So `WholeNights`, `CompleteLedgers`
and `ExitCodes`, proved for any choice, cover the outcomes the transformers produce. It needs of Roster only where the loop
is (`TurnsInv`) and that every entity has its ledger entry (`LedgerInv`). No run repeats it: TLC confirms
`ImplementsTransform` on the instance of `Roster_folders`, extended by `RosterRefinement`, in a few minutes, which is too long to
do with each of that run's questions.

**Delivery** (`PipelineProofs` too). `FailsClosed`, `BudgetHolds`, `EnvelopeHolds`, `DeliveredIsWhole`:
`UploadInv` ties a connection to its server
(`ServerInv`), the names on the servers to the manifest (`EnvelopeInv`), the zip to the files it was made from
(`ZipInv`) and the feeds already put to those still to put (`PutInv`).

**Run history** (`RunStoreProofs`)
* `NoVersionLost`, `ErrorsAreReal`: `NeverDowngraded` and `MigrationErrorIsReal`, for every computer on which programs that overlap
  do so over an established store that nobody damages or hands over (`Calm`); calls that follow one another may
  meet any of it. `Ladder` says that a store has only rungs up to its stamp, that who takes a store for brand-new is right
  (`Fresh`), and that the store overlapping calls share stays the one it was (`Steady`). The condition is
  the code's: two programs that create one store at once both read version 0 before either stamps (`store.py:242-249`),
  and a quarantine renames whatever bears the name by then (`store.py:288`). All computers of `RunStore_writes` but the
  second meet it, and that one has one version; with two over a brand-new or damaged store the older program can lower the newer
  one's stamp.
* `RowsStay`: `WrittenIsRead`, on every computer. `Kept` says that a file with rows is the one that is read, or damaged, handed
  over or, among overlapping calls, renamed by mistake; that a call holds the file that is read or one of those; that one about
  to quarantine has met a damaged file (`Met`); and that calls that follow one another move no other (`Doomed`).

**Provisioning** (`ProvisioningProofs`)
* `ProfileBehindTheSwitch`: `SwitchMeansProfile`. `Inv` adds what the child may rely on at each step (`ProgressInv`), that a folder
  which would be rolled back is not in service (`FreshInv`, the reason the commit comes last and `created` is the
  child's own), and that the settings stand in the own profile until the switch is on (`SourceInv`).
* `RevocationIsReal`: `RevokedMeansRevoked`. `TakenInv` says which accesses a removal has taken away at each step and that a
  child does what it was launched for; `AskedInv` that the window hears of the child it waits for, so an answer
  about one account never stands for another.
* `LiveSettingsStay`: `LiveSettingsNeverRegress`. `EditsInv` says that nothing in the shared folder is later than the window's
  settings (`NotAfter`), nor on its way there while the window is on its own profile (`OwnInv`), and that once the
  switch is on no copy is under way (`PinInv`).

**Settings** (`SettingsProofs`)
* `AcceptedOnly`: an unaccepted address in memory belongs to a write under way that can still be taken back, and the document
  it would go back to is accepted (`AcceptedInv`).
* `UnreadIsKept`: past the attempt to preserve, the copy was made if it had to be and is still there (`PreservedInv`). The
  property sets four cases apart, as the code does: the file could not be read for copying or the copy failed, its name was
  taken within the second, another process changed the file meanwhile, an erasure has removed the copy since.
* `ErasedEverywhere`: `ToldGoneIsGone`, with any number of processes between the listing and the removals. `Cleared` says of an
  erasure that nothing has stopped so far that each copy is gone, still on its list, or was begun after the listing (`late`).

**Mapping screen** (`SettingsProofs` too, because its screens write the same document)
* `RowsHold`: `RowsAreWhatConverts`. `RowsInv` says that a panel knows which files its mapping names in two ways and that its form
  gives every other file the one name its places have, or the standard one where that name is refused, until somebody else
  writes the mapping. `FirstSeenFacts` is the reading
  of a mapping into a form (`renames_from_resolved`): where no file has two names, every place has the name that is found first.
* `TestedFirst`: `ConfirmedWasTested`. `TestInv` says that what a test has read is what the mapping still says, unless it was
  written elsewhere since; that a new surface forgets its predecessor's test is what keeps it.
* The one assumption is that a hand edit leaves a mapping file or none (`EditsAssumption`).

**Setup screen** (`SetupProofs`). `RecordHolds`, `DriftSaid`, `AskedFirst`: `RecordIsTheTask`, `DriftIsTold` and `NoSilentDowngrade` for any number
of mounts, jobs and saves. `SetupInv` is layered as the races are: without the races that overlap jobs at most one
job is under way, of the mount on show, and a save's job takes no right to run unattended away (`CalmInv`);
without a save in between either, Windows gets the arguments of the click and the record is the task field by field
(`StraightInv`); without going back in the wizard, what the task lacks was said (`ToldInv`). Every action is first
reduced to one of a few kinds of step (`StepKinds`). `LastPageHolds`: `FinishIsTrue`, provided a record without arguments is of a
setup that was completed (`StartsKnown`). Nothing in the code can violate that on a new installation, because every registration records its
arguments (`_persist_registered_record`); `setup_flow.py:753-777` knows "pre-record installs" and says nothing of a drift for
them.

**Convert screen** (`ConvertProofs`). `Consents`, `CardsSendTheirOwn`, `TellsTheTruth`, `HistoriesAgree`: `Inv` says what is so of each job
alone (`Sound`), that the anomaly look holds until somebody else writes (`LookHolds`), whose files the folder holds
(`FolderInv`), that one job of a visit runs at a time and over the inputs on show (`RunnerInv`), and that what is painted
and asked is of an answered job (`SlotInv`, `DialogInv`).

**Home and Run History** (`WatchProofs`). Both properties are about what a surface shows of records, settings and a reading of
the task that it took at different moments, while the world moved on.
* `SurfacesHold`: `SurfacesAgree`. The derivations of the two screens are first brought to one form (`HomeSays`, `TableSays`), over
  the same reason, season, account and age; `TwoSurfaces` compares them case by case. What it needs of the state is in
  `ViewInv`: that the status a surface holds is of this place's task, and wants attention only for a contradiction, a
  problem of another account's task, or a task that is gone.
* `GreenEarned`: `GreenIsEarned`. `LedgerInv` says that every record a store holds was written since the store was created, which is why
  the missed-run rule, anchored on that birth, bounds the age of the newest record; `ViewInv` carries it to what Home read,
  and says that a task which died without a record ran no later than the newest record that counts, unless the reading contradicts it.
* What is assumed of the ways a run ends (`ResultsAssumption`) is that they leave the records of `build_run_record`, and that a
  delivery that succeeded is of a run that did. The second is so for the task and for the Convert screen, which ask for no
  step after the upload (`windows.py:375-397`); it is not for a command line typed with `--quality`, whose report can
  fail a run already delivered. Such runs are therefore outside `Watch` and its runs too.
* `VerdictRecords` recurses over the records. That it returns records among those given, without failed manual attempts, is
  proved without an induction theorem: if some prefix gave anything else there would be a least one (`Least`, from
  the well-foundedness of `<`), and its predecessor shows there is none.

Each module also proves its type invariant (`Types`, `PipelineTypes`, `DeliveryTypes`, `RunStoreTypes`, `ProvisioningTypes`, `SettingsTypes`,
`SetupTypes`, `ConvertTypes`, `WatchTypes`, and `CreatorTypes`); those are therefore not among the runs.

Only model-checked: liveness (`EveryWriteEnds`, `RetryRecovers`, `EveryJobIsAnswered`), because reasoning about fairness needs
`ENABLED`, which is beyond the prover; and the one property `Creator` violates. Every safety property of a passing run is proved.

`Delivery`, `Roster` and `Creator` name their specifications `DeliverySpec`, `RosterSpec` and `CreatorSpec`, so that their proofs
stand beside those of the component they belong to.

## 5. Not modelled

* `scheduler/schedule_check.py`: a one-off task that reports whether the saved facets of the nightly can work; it reads, and
  writes a report.
* `scheduler/linux.py` (crontab), the COM calls of `task_com.py` below a way and an effect, trigger details and messages.
* `config/models.py` and the merging of `_base` key by key: declarations of data; what a resolved mapping names is in
  `Creator` and `Roster`.
* `utils/paths.py`: the migration from the legacy folder, and path arithmetic.
* Extraction: the ladder of encodings and headers is pandas and keeps no state.
* Dates, names, addresses, e-mail and number formats in the transformers.
* `sftp/uploader.py`'s `test_connection`; the choice of secret store and the sealing.
* `output_target_problem`'s probe of the output folder; the anomaly diff and the quality report as text.
* `apply_grant_current_user` and `request_access`; validation of the elevated payload beyond accepted or refused.
* The wizard's own mapping walk, folder pickers, and the sign-in gate's checks of what was typed.
* Shell, layout, wording, diagnostics, validators, logging.

## 6. Plan

1. Left to model: the schedule check after a registration, the legacy migration, the second administrator's access.

Modules are written for both tools: parameters are constants with named assumptions, each operation is one action,
invariants are conjunctions of named parts, and recursion, where the rules need it, is a recursive function.
