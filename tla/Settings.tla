------------------------------ MODULE Settings ------------------------------
(***************************************************************************)
(* The settings document, config.json (src/config/app_config.py): who may  *)
(* replace it, what becomes of bytes nobody could read, what a refused     *)
(* write leaves behind in memory, and what an erasure really erases. A     *)
(* holder is one AppConfig instance of one process; several processes      *)
(* share the folder. The fields are grouped by who may write them.         *)
(***************************************************************************)
EXTENDS Naturals, Sequences, FiniteSets

CONSTANTS
    Holders,      \* the AppConfig instances, each of a process of its own
    Districts,    \* chosen districts, folders and delivery settings
    People,       \* who looks after this sync
    MaxSeconds,   \* bound on the clock that names a preserved copy
    MaxOps,       \* bound on the saves that are begun
    MaxDamage     \* bound on the times the file is damaged or locked

ASSUME BoundsAssumption == MaxSeconds \in Nat /\ MaxOps \in Nat /\ MaxDamage \in Nat

Nobody == "nobody"
NoDistrict == "none"

\* The groups of fields: chosen settings, identity_*, creator_*, the digests of
\* tested districts, window_*.
Defaults == [core |-> NoDistrict, identity |-> Nobody, pending |-> FALSE,
             tested |-> {}, placed |-> FALSE]

VARIABLES
    file,       \* config.json: what it holds and whether it can be opened
    copies,     \* second -> the bytes of config.corrupt-<second>.json
    staged,     \* holder -> its staging file, or none
    litter,     \* what the staging files of dead processes hold
    mem,        \* holder -> its instance
    flow,       \* holder -> the save it is in
    told,       \* holder -> what the last operation answered
    accepted,   \* the people some identity write was accepted for
    erased,     \* history: the copies an erasure has removed
    late,       \* history: those made since a holder's erasure listed the folder
    second, ops, damage

vars == <<file, copies, staged, litter, mem, flow, told, accepted, erased, late, second, ops,
          damage>>
history == <<erased, late>>
counters == <<second, ops, damage>>

Absent == [kind |-> "absent", doc |-> Defaults]
Good(doc) == [kind |-> "good", doc |-> doc]
Torn(doc) == [kind |-> "torn", doc |-> doc]    \* bytes that do not parse

Seconds == 0 .. MaxSeconds
NoCopy == Absent
Created(h) == [kind |-> "empty", doc |-> Defaults, by |-> h]   \* and not yet filled

Instance == [doc |-> Defaults, state |-> "ABSENT"]
Idle == [pc |-> "idle", op |-> "none", before |-> Defaults, copy |-> "none",
         seen |-> Absent, at |-> 0, list |-> {}, left |-> 0]
NotTold == [op |-> "none", ok |-> FALSE, remaining |-> 0, had |-> FALSE]

Init ==
    /\ \/ file = [bytes |-> Absent, locked |-> FALSE, superseded |-> FALSE]
       \/ \E d \in Districts, p \in People :
            file = [bytes |-> Good([Defaults EXCEPT !.core = d, !.identity = p]),
                    locked |-> FALSE, superseded |-> FALSE]
    /\ copies = [s \in Seconds |-> NoCopy]
    /\ staged = [h \in Holders |-> Absent]
    /\ litter = {}
    /\ mem = [h \in Holders |-> Instance]
    /\ flow = [h \in Holders |-> [Idle EXCEPT !.pc = "closed"]]
    /\ told = [h \in Holders |-> NotTold]
    /\ accepted = {file.bytes.doc.identity}
    /\ erased = {}
    /\ late = [h \in Holders |-> {}]
    /\ second = 0 /\ ops = 0 /\ damage = 0

-----------------------------------------------------------------------------
(* Reading.                                                                *)

\* AppConfig.load: an absent file, one that cannot be read or does not parse,
\* and one that does. setup_completed is part of core.
Loaded ==
    IF file.bytes.kind = "absent" THEN [doc |-> Defaults, state |-> "ABSENT"]
    ELSE IF file.bytes.kind = "good" /\ ~file.locked
      THEN [doc |-> file.bytes.doc, state |-> "LOADED"]
    ELSE [doc |-> Defaults, state |-> "UNREADABLE"]

Load(h) ==
    /\ flow[h].pc \in {"closed", "idle"}
    /\ mem' = [mem EXCEPT ![h] = Loaded]
    /\ flow' = [flow EXCEPT ![h] = Idle]
    /\ UNCHANGED <<file, copies, staged, litter, told, accepted, history, counters>>

CarriesChosenSettings(doc) ==
    [doc EXCEPT !.placed = FALSE] # Defaults

-----------------------------------------------------------------------------
(* Saving.                                                                 *)

\* What an operation changes, and whether it is refused over an unreadable file.
Guarded == {"identity", "clear", "creator", "activate"}
RefusesUnread == {"identity", "clear", "creator"}

\* _pruned_verified_configs: tested records whose mapping file is gone are dropped.
Pruned(tested, there) == tested \cap there

\* _guarded_field_write up to the save: the fields change in memory first.
BeginGuarded(h, op, updated) ==
    /\ flow[h].pc = "idle"
    /\ ops < MaxOps
    /\ ops' = ops + 1
    /\ IF op \in RefusesUnread /\ mem[h].state = "UNREADABLE"
         THEN /\ told' = [told EXCEPT ![h] = [NotTold EXCEPT !.op = op]]
              /\ UNCHANGED <<mem, flow>>
         ELSE /\ mem' = [mem EXCEPT ![h].doc = updated]
              /\ flow' = [flow EXCEPT ![h] = [Idle EXCEPT !.pc = "fence", !.op = op,
                            !.before = mem[h].doc]]
              /\ told' = [told EXCEPT ![h] = NotTold]
    /\ UNCHANGED <<file, copies, staged, litter, accepted, history, second, damage>>

IdentitySave(h, p) ==
    BeginGuarded(h, "identity", [mem[h].doc EXCEPT !.identity = p])

IdentityClear(h) ==
    BeginGuarded(h, "clear", [mem[h].doc EXCEPT !.identity = Nobody])

CreatorSave(h, pending, there) ==
    BeginGuarded(h, "creator", [mem[h].doc EXCEPT !.pending = pending,
        !.tested = Pruned(@, there)])

ActivateCreatorConfig(h, d, there) ==
    BeginGuarded(h, "activate", [mem[h].doc EXCEPT !.core = d, !.pending = FALSE,
        !.tested = Pruned(@, there) \cup {d}])

\* A screen sets what was chosen and saves; the window's place is saved on the
\* way out over an instance loaded for it. Neither takes its fields back.
BeginPlain(h, op, updated) ==
    /\ flow[h].pc = "idle"
    /\ ops < MaxOps
    /\ ops' = ops + 1
    /\ mem' = [mem EXCEPT ![h].doc = updated]
    /\ flow' = [flow EXCEPT ![h] = [Idle EXCEPT !.pc = "fence", !.op = op,
                  !.before = mem[h].doc]]
    /\ told' = [told EXCEPT ![h] = NotTold]
    /\ UNCHANGED <<file, copies, staged, litter, accepted, history, second, damage>>

Choose(h, d) == BeginPlain(h, "choose", [mem[h].doc EXCEPT !.core = d])

PersistWindowGeometry(h) ==
    /\ mem[h] = Loaded
    /\ BeginPlain(h, "place", [mem[h].doc EXCEPT !.placed = TRUE])

\* Mutant: a write that failed leaves its fields in memory.
FailedKeepsFields(h) ==
    /\ flow' = [flow EXCEPT ![h] = Idle]
    /\ told' = [told EXCEPT ![h] = [NotTold EXCEPT !.op = flow[h].op]]
    /\ UNCHANGED mem

\* A save that raised. _restore puts a guarded write's fields back.
Failed(h) ==
    /\ mem' = IF flow[h].op \in Guarded THEN [mem EXCEPT ![h].doc = flow[h].before]
              ELSE mem
    /\ flow' = [flow EXCEPT ![h] = Idle]
    /\ told' = [told EXCEPT ![h] = [NotTold EXCEPT !.op = flow[h].op]]

\* The fence, and the refusal to replace an unread file with defaults.
Refused(h) ==
    \/ file.superseded
    \/ mem[h].state = "UNREADABLE" /\ ~CarriesChosenSettings(mem[h].doc)

CheckFence(h) ==
    /\ flow[h].pc = "fence"
    /\ IF Refused(h) THEN Failed(h)
       ELSE /\ flow' = [flow EXCEPT ![h].pc = "preserve"]
            /\ UNCHANGED <<mem, told>>
    /\ UNCHANGED <<file, copies, staged, litter, accepted, history, counters>>

\* Mutant: the verdict is taken from the disk again.
UnreadNow(h) == file.bytes.kind = "torn"

\* Whether the bytes in place are to be kept: the load's verdict is final.
Unread(h) ==
    /\ file.bytes.kind # "absent"
    /\ mem[h].state = "UNREADABLE" \/ file.bytes.kind = "torn"

\* _preserve_unreadable_predecessor, in three steps. First what is in place is
\* read, which may fail, and judged.
Inspect(h) ==
    /\ flow[h].pc = "preserve"
    /\ flow' = [flow EXCEPT ![h].seen = file.bytes,
                    ![h].pc = IF ~file.locked /\ Unread(h) THEN "aside" ELSE "stage",
                    ![h].copy = IF file.locked THEN "locked" ELSE "none"]
    /\ UNCHANGED <<file, copies, staged, litter, mem, told, accepted, history, counters>>

\* O_EXCL: the second's name must be new.
SetAside(h, works) ==
    LET free == copies[second].kind = "absent"
    IN  /\ flow[h].pc = "aside"
        /\ IF free /\ works
             THEN /\ copies' = [copies EXCEPT ![second] = Created(h)]
                  /\ flow' = [flow EXCEPT ![h].pc = "fill", ![h].at = second]
                  /\ late' = [k \in Holders |-> IF flow[k].pc = "unlink"
                                                THEN late[k] \cup {second} ELSE late[k]]
             ELSE /\ flow' = [flow EXCEPT ![h].pc = "stage",
                                 ![h].copy = IF free THEN "fault" ELSE "clash"]
                  /\ UNCHANGED <<copies, late>>
        /\ UNCHANGED <<file, staged, litter, mem, told, accepted, erased, counters>>

\* The bytes read go into the file that was created, wherever it is by now; a
\* write that fails may leave a part of them there.
Fill(h, works) ==
    /\ flow[h].pc = "fill"
    /\ flow' = [flow EXCEPT ![h].pc = "stage",
                    ![h].copy = IF works THEN "kept" ELSE "fault"]
    /\ \E there \in IF copies[flow[h].at] # Created(h) THEN {copies[flow[h].at]}
                     ELSE IF works THEN {flow[h].seen}
                     ELSE {Created(h), Torn(flow[h].seen.doc)} :
          copies' = [copies EXCEPT ![flow[h].at] = there]
    /\ UNCHANGED <<file, staged, litter, mem, told, accepted, history, counters>>

\* _atomic_write_text: mkstemp, write, fsync; then os.replace.
Stage(h, works) ==
    /\ flow[h].pc = "stage"
    /\ IF works
         THEN /\ staged' = [staged EXCEPT ![h] = Good(mem[h].doc)]
              /\ flow' = [flow EXCEPT ![h].pc = "promote"]
              /\ UNCHANGED <<mem, told>>
         ELSE Failed(h) /\ UNCHANGED staged
    /\ UNCHANGED <<file, copies, litter, accepted, history, counters>>

Promote(h) ==
    /\ flow[h].pc = "promote"
    /\ file' = [file EXCEPT !.bytes = staged[h]]
    /\ staged' = [staged EXCEPT ![h] = Absent]
    /\ mem' = [mem EXCEPT ![h].state = "LOADED"]
    /\ accepted' = IF flow[h].op \in {"identity", "clear"}
                     THEN accepted \cup {mem[h].doc.identity} ELSE accepted
    /\ IF flow[h].op = "clear" /\ flow[h].before.identity # Nobody
         THEN /\ flow' = [flow EXCEPT ![h].pc = "purge"]
              /\ UNCHANGED told
         ELSE /\ flow' = [flow EXCEPT ![h] = Idle]
              /\ told' = [told EXCEPT ![h] = [NotTold EXCEPT !.op = flow[h].op, !.ok = TRUE]]
    /\ UNCHANGED <<copies, litter, history, counters>>

\* os.replace fails; the staging file goes with it.
PromoteFails(h) ==
    /\ flow[h].pc = "promote"
    /\ staged' = [staged EXCEPT ![h] = Absent]
    /\ Failed(h)
    /\ UNCHANGED <<file, copies, litter, accepted, history, counters>>

\* What an erasure answers.
Erased(h, remaining) ==
    /\ flow' = [flow EXCEPT ![h] = Idle]
    /\ told' = [told EXCEPT ![h] = [op |-> "clear", ok |-> TRUE, had |-> TRUE,
                  remaining |-> remaining]]
    /\ late' = [late EXCEPT ![h] = {}]

There == {s \in Seconds : copies[s].kind # "absent"}

\* Mutant: a folder that could not be listed holds no copies.
ListUncounted(h, works) ==
    /\ flow[h].pc = "purge"
    /\ IF works
         THEN /\ flow' = [flow EXCEPT ![h].pc = "unlink", ![h].list = There]
              /\ UNCHANGED <<told, late>>
         ELSE Erased(h, 0)
    /\ UNCHANGED <<file, copies, staged, litter, mem, accepted, erased, counters>>

\* _purge_quarantined_settings lists the copies; a folder that cannot be listed
\* counts as one that remains.
List(h, works) ==
    /\ flow[h].pc = "purge"
    /\ IF works
         THEN /\ flow' = [flow EXCEPT ![h].pc = "unlink", ![h].list = There]
              /\ UNCHANGED <<told, late>>
         ELSE Erased(h, 1)
    /\ UNCHANGED <<file, copies, staged, litter, mem, accepted, erased, counters>>

\* The listed copies go one by one, the oldest first; one that cannot be removed,
\* or that another erasure has removed before, is counted as remaining.
Unlink(h, works) ==
    \E s \in flow[h].list :
        /\ flow[h].pc = "unlink" /\ \A t \in flow[h].list : s <= t
        /\ IF works /\ s \in There
             THEN /\ copies' = [copies EXCEPT ![s] = NoCopy]
                  /\ erased' = erased \cup {s}
                  /\ flow' = [flow EXCEPT ![h].list = @ \ {s}]
             ELSE /\ flow' = [flow EXCEPT ![h].list = @ \ {s}, ![h].left = @ + 1]
                  /\ UNCHANGED <<copies, erased>>
        /\ UNCHANGED <<file, staged, litter, mem, told, accepted, late, counters>>

Purged(h) ==
    /\ flow[h].pc = "unlink" /\ flow[h].list = {}
    /\ Erased(h, flow[h].left)
    /\ UNCHANGED <<file, copies, staged, litter, mem, accepted, erased, counters>>

-----------------------------------------------------------------------------
(* What happens to the process and to the file.                            *)

\* The process dies; a staging file stays where it is, and a new one has
\* another name.
Crash(h) ==
    /\ flow[h].pc # "closed"
    /\ flow' = [flow EXCEPT ![h] = [Idle EXCEPT !.pc = "closed"]]
    /\ mem' = [mem EXCEPT ![h] = Instance]
    /\ told' = [told EXCEPT ![h] = NotTold]
    /\ litter' = IF staged[h] = Absent THEN litter ELSE litter \cup {staged[h].doc}
    /\ staged' = [staged EXCEPT ![h] = Absent]
    /\ late' = [late EXCEPT ![h] = {}]
    /\ UNCHANGED <<file, copies, accepted, erased, counters>>

\* A disk error or a hand edit leaves bytes that do not parse.
Damage ==
    /\ file.bytes.kind = "good" /\ damage < MaxDamage
    /\ damage' = damage + 1
    /\ file' = [file EXCEPT !.bytes = Torn(file.bytes.doc)]
    /\ UNCHANGED <<copies, staged, litter, mem, flow, told, accepted, history, second, ops>>

\* A scanner or a backup holds the file for a while.
Lock ==
    /\ ~file.locked /\ file.bytes.kind # "absent" /\ damage < MaxDamage
    /\ damage' = damage + 1
    /\ file' = [file EXCEPT !.locked = TRUE]
    /\ UNCHANGED <<copies, staged, litter, mem, flow, told, accepted, history, second, ops>>

Unlock ==
    /\ file.locked
    /\ file' = [file EXCEPT !.locked = FALSE]
    /\ UNCHANGED <<copies, staged, litter, mem, flow, told, accepted, history, counters>>

\* The handover leaves MOVED.txt in the folder.
Supersede ==
    /\ ~file.superseded
    /\ file' = [file EXCEPT !.superseded = TRUE]
    /\ UNCHANGED <<copies, staged, litter, mem, flow, told, accepted, history, counters>>

Tick ==
    /\ second < MaxSeconds
    /\ second' = second + 1
    /\ UNCHANGED <<file, copies, staged, litter, mem, flow, told, accepted, history, ops, damage>>

-----------------------------------------------------------------------------
Begin(h) ==
    \/ \E p \in People : IdentitySave(h, p)
    \/ IdentityClear(h)
    \/ \E pending \in BOOLEAN, there \in SUBSET Districts : CreatorSave(h, pending, there)
    \/ \E d \in Districts, there \in SUBSET Districts : ActivateCreatorConfig(h, d, there)
    \/ \E d \in Districts : Choose(h, d)
    \/ PersistWindowGeometry(h)

Save(h) ==
    \/ CheckFence(h)
    \/ Inspect(h)
    \/ \E works \in BOOLEAN : SetAside(h, works) \/ Fill(h, works) \/ Stage(h, works)
    \/ Promote(h) \/ PromoteFails(h)
    \/ \E works \in BOOLEAN : List(h, works) \/ Unlink(h, works)
    \/ Purged(h)

Next ==
    \/ \E h \in Holders : Load(h) \/ Begin(h) \/ Save(h) \/ Crash(h)
    \/ Damage \/ Lock \/ Unlock \/ Supersede \/ Tick

Spec == Init /\ [][Next]_vars

-----------------------------------------------------------------------------
(* Properties.                                                             *)

\* Bytes a save could not read are never replaced without a copy under a name of
\* its own: also when the file has become readable since it was loaded
\* (_preserve_unreadable_predecessor). Four things are set apart: the bytes could
\* not be read for copying, or the copy not be made ("locked", "fault"); its name
\* was taken within the second ("clash"); another process changed the file
\* between the copy and the replacement; an erasure removed the copy since.
UnreadIsPreserved ==
    [][\A h \in Holders :
        (/\ Promote(h) /\ flow[h].seen = file.bytes /\ file.bytes.kind # "absent"
         /\ mem[h].state = "UNREADABLE" \/ file.bytes.kind = "torn")
          => /\ flow[h].copy # "none"
             /\ flow[h].copy = "kept" =>
                    copies[flow[h].at] = file.bytes \/ flow[h].at \in erased]_vars

\* Only what somebody was told is saved gets onto the disk: an address whose
\* write was refused or failed is gone from memory too, and no later save of
\* another field carries it along (_guarded_field_write, _restore).
OnlyAcceptedIsWritten == file.bytes.doc.identity \in accepted \cup {Nobody}

\* An erasure that says it is complete left the address in no copy that anybody
\* had begun to set aside when it listed the folder, its own write's included
\* (identity_clear purges after the write, never before, and says what it could
\* not remove). A copy another process makes after the listing is not looked for,
\* and may hold the address still.
ToldGoneIsGone ==
    [][\A h \in Holders :
        (told'[h] # told[h] /\ told'[h].had /\ told'[h].remaining = 0)
          => \A s \in Seconds \ late[h] : copies'[s].doc.identity = Nobody]_vars

=============================================================================
