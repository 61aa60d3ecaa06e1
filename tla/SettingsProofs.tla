--------------------------- MODULE SettingsProofs ---------------------------
(***************************************************************************)
(* Proofs about Settings, for any number of processes, people, districts,  *)
(* saves and faults.                                                       *)
(*                                                                         *)
(*   SettingsTypes      what every variable ranges over;                   *)
(*   AcceptedOnly       only accepted addresses reach the disk             *)
(*                      (OnlyAcceptedIsWritten);                           *)
(*   UnreadIsKept       what a save could not read is kept                 *)
(*                      (UnreadIsPreserved);                               *)
(*   ErasedEverywhere   an erasure told as complete left the address in    *)
(*                      no copy it could have listed (ToldGoneIsGone).     *)
(*                                                                         *)
(* And, in its last part, about Creator, whose screens write the same      *)
(* document:                                                               *)
(*                                                                         *)
(*   CreatorTypes       what every variable ranges over;                   *)
(*   RowsHold           the names on the screen are those of the mapping   *)
(*                      (RowsAreWhatConverts);                             *)
(*   TestedFirst        what a confirmation switches to passed its test    *)
(*                      (ConfirmedWasTested).                              *)
(***************************************************************************)
EXTENDS Settings, Creator, TLAPS

Identities == People \cup {Nobody}

Docs == [core : Districts \cup {NoDistrict}, identity : Identities,
         pending : BOOLEAN, tested : SUBSET Districts, placed : BOOLEAN]

Bytes == [kind : {"absent", "good", "torn"}, doc : Docs]

Operations == Guarded \cup {"none", "choose", "place"}

CopyStates == {"none", "locked", "clash", "kept", "fault"}

Saving == {"fence", "preserve", "aside", "fill", "stage", "promote"}

\* A copy whose name is taken may be empty still.
Copies == Bytes \cup {Created(h) : h \in Holders}

SettingsFiles == [bytes : Bytes, locked : BOOLEAN, superseded : BOOLEAN]
Instances == [doc : Docs, state : {"ABSENT", "LOADED", "UNREADABLE"}]
Flows == [pc : {"closed", "idle", "purge", "unlink"} \cup Saving, op : Operations,
          before : Docs, copy : CopyStates, seen : Bytes, at : Seconds,
          list : SUBSET Seconds, left : Nat]
Answers == [op : Operations, ok : BOOLEAN, remaining : Nat, had : BOOLEAN]

TypeOK ==
    /\ file \in SettingsFiles
    /\ copies \in [Seconds -> Copies]
    /\ staged \in [Holders -> Bytes]
    /\ litter \subseteq Docs
    /\ mem \in [Holders -> Instances]
    /\ flow \in [Holders -> Flows]
    /\ told \in [Holders -> Answers]
    /\ accepted \subseteq Identities
    /\ erased \subseteq Seconds
    /\ late \in [Holders -> SUBSET Seconds]
    /\ second \in Seconds /\ ops \in Nat /\ damage \in Nat

-----------------------------------------------------------------------------
(* The values the actions build.                                           *)

LEMMA DocTypes ==
    /\ Defaults \in Docs
    /\ \A doc \in Docs :
         /\ \A p \in Identities : [doc EXCEPT !.identity = p] \in Docs
         /\ \A d \in Districts : [doc EXCEPT !.core = d] \in Docs
         /\ [doc EXCEPT !.placed = TRUE] \in Docs
         /\ \A d \in Districts, p \in People :
              [doc EXCEPT !.core = d, !.identity = p] \in Docs
         /\ \A pending \in BOOLEAN, there \in SUBSET Districts :
              [doc EXCEPT !.pending = pending, !.tested = Pruned(@, there)] \in Docs
         /\ \A d \in Districts, there \in SUBSET Districts :
              [doc EXCEPT !.core = d, !.pending = FALSE,
                          !.tested = Pruned(@, there) \cup {d}] \in Docs
<1>1. Defaults \in Docs
  BY DEF Defaults, Docs, Identities
<1>2. ASSUME NEW doc \in Docs PROVE
         /\ \A p \in Identities : [doc EXCEPT !.identity = p] \in Docs
         /\ \A d \in Districts : [doc EXCEPT !.core = d] \in Docs
         /\ [doc EXCEPT !.placed = TRUE] \in Docs
         /\ \A d \in Districts, p \in People :
              [doc EXCEPT !.core = d, !.identity = p] \in Docs
  BY DEF Docs, Identities
<1>3. ASSUME NEW doc \in Docs, NEW there \in SUBSET Districts
      PROVE /\ \A pending \in BOOLEAN :
              [doc EXCEPT !.pending = pending, !.tested = Pruned(@, there)] \in Docs
            /\ \A d \in Districts :
              [doc EXCEPT !.core = d, !.pending = FALSE,
                          !.tested = Pruned(@, there) \cup {d}] \in Docs
  BY DEF Docs, Pruned
<1> QED BY <1>1, <1>2, <1>3

LEMMA ByteTypes ==
    /\ Absent \in Bytes /\ NoCopy \in Bytes
    /\ \A doc \in Docs : Good(doc) \in Bytes /\ Torn(doc) \in Bytes
    /\ \A b \in Bytes : b.doc \in Docs
  BY DocTypes DEF Absent, NoCopy, Bytes, Good, Torn

LEMMA FileTypes ==
    /\ \A b \in Bytes, y, z \in BOOLEAN :
         [bytes |-> b, locked |-> y, superseded |-> z] \in SettingsFiles
    /\ \A f \in SettingsFiles :
         /\ f.bytes \in Bytes
         /\ \A b \in Bytes : [f EXCEPT !.bytes = b] \in SettingsFiles
         /\ \A b \in BOOLEAN : [f EXCEPT !.locked = b] \in SettingsFiles
                               /\ [f EXCEPT !.superseded = b] \in SettingsFiles
  BY DEF SettingsFiles

LEMMA InstanceTypes ==
    /\ Instance \in Instances
    /\ \A m \in Instances :
         /\ m.doc \in Docs
         /\ \A doc \in Docs : [m EXCEPT !.doc = doc] \in Instances
         /\ [m EXCEPT !.state = "LOADED"] \in Instances
  BY DocTypes DEF Instance, Instances

LEMMA AnswerTypes ==
    /\ NotTold \in Answers
    /\ \A op \in Operations :
         /\ [NotTold EXCEPT !.op = op] \in Answers
         /\ [NotTold EXCEPT !.op = op, !.ok = TRUE] \in Answers
    /\ \A n \in Nat : [op |-> "clear", ok |-> TRUE, had |-> TRUE, remaining |-> n] \in Answers
  BY DEF NotTold, Answers, Operations, Guarded

LEMMA FlowTypes ==
    /\ Idle \in Flows
    /\ [Idle EXCEPT !.pc = "closed"] \in Flows
    /\ \A op \in Operations, doc \in Docs :
         [Idle EXCEPT !.pc = "fence", !.op = op, !.before = doc] \in Flows
    /\ \A f \in Flows :
         /\ f.before \in Docs /\ f.op \in Operations
         /\ [f EXCEPT !.pc = "preserve"] \in Flows
         /\ [f EXCEPT !.pc = "promote"] \in Flows
         /\ [f EXCEPT !.pc = "purge"] \in Flows
         /\ \A c \in CopyStates : [f EXCEPT !.pc = "stage", !.copy = c] \in Flows
         /\ \A c \in CopyStates, b \in Bytes, pc \in {"aside", "stage"} :
              [f EXCEPT !.seen = b, !.pc = pc, !.copy = c] \in Flows
         /\ \A s \in Seconds : [f EXCEPT !.pc = "fill", !.at = s] \in Flows
         /\ \A l \in SUBSET Seconds :
              /\ [f EXCEPT !.pc = "unlink", !.list = l] \in Flows
              /\ [f EXCEPT !.list = l] \in Flows
              /\ [f EXCEPT !.list = l, !.left = f.left + 1] \in Flows
<1>1. 0 \in Seconds
  BY BoundsAssumption DEF Seconds
<1>2. Idle \in Flows
  BY <1>1, DocTypes, ByteTypes DEF Idle, Flows, Operations, Saving, CopyStates
<1>3. /\ [Idle EXCEPT !.pc = "closed"] \in Flows
      /\ \A op \in Operations, doc \in Docs :
           [Idle EXCEPT !.pc = "fence", !.op = op, !.before = doc] \in Flows
  BY <1>2 DEF Flows, Saving
<1>4. ASSUME NEW f \in Flows
      PROVE  /\ f.before \in Docs /\ f.op \in Operations
             /\ [f EXCEPT !.pc = "preserve"] \in Flows
             /\ [f EXCEPT !.pc = "promote"] \in Flows
             /\ [f EXCEPT !.pc = "purge"] \in Flows
             /\ \A c \in CopyStates : [f EXCEPT !.pc = "stage", !.copy = c] \in Flows
             /\ \A c \in CopyStates, b \in Bytes, pc \in {"aside", "stage"} :
                  [f EXCEPT !.seen = b, !.pc = pc, !.copy = c] \in Flows
             /\ \A s \in Seconds : [f EXCEPT !.pc = "fill", !.at = s] \in Flows
  BY <1>4 DEF Flows, Saving
<1>5. ASSUME NEW f \in Flows, NEW l \in SUBSET Seconds
      PROVE  /\ [f EXCEPT !.pc = "unlink", !.list = l] \in Flows
             /\ [f EXCEPT !.list = l] \in Flows
             /\ [f EXCEPT !.list = l, !.left = f.left + 1] \in Flows
  <2>1. f.left + 1 \in Nat
    BY <1>5 DEF Flows
  <2>2. \A n \in Nat : [f EXCEPT !.list = l, !.left = n] \in Flows
    BY <1>5 DEF Flows
  <2>3. [f EXCEPT !.list = l] \in Flows /\ [f EXCEPT !.pc = "unlink", !.list = l] \in Flows
    BY <1>5 DEF Flows
  <2> QED BY <2>1, <2>2, <2>3
<1> QED BY <1>2, <1>3, <1>4, <1>5

LEMMA CopyTypes ==
    /\ Bytes \subseteq Copies
    /\ \A h \in Holders : Created(h) \in Copies
    /\ \A h, k : Created(h) = Created(k) => h = k
    /\ \A h : Created(h).kind = "empty" /\ Created(h) \notin Bytes
<1>1. \A h, k : Created(h) = Created(k) => h = k
  <2>1. \A h : Created(h).by = h
    BY DEF Created
  <2> QED BY <2>1
<1>2. \A h : Created(h).kind = "empty"
  BY DEF Created
<1>3. \A b \in Bytes : b.kind # "empty"
  BY DEF Bytes
<1> QED BY <1>1, <1>2, <1>3 DEF Copies

LEMMA LoadedType == TypeOK => Loaded \in Instances
  BY DocTypes, ByteTypes DEF TypeOK, Loaded, SettingsFiles, Bytes, Instances

-----------------------------------------------------------------------------
(* Types.                                                                  *)

LEMMA InitTypes == Init => TypeOK
<1> SUFFICES ASSUME Init PROVE TypeOK
  OBVIOUS
<1>1. file \in SettingsFiles
  BY DocTypes, ByteTypes, FileTypes DEF Init
<1>2. accepted \subseteq Identities
  BY <1>1, FileTypes, ByteTypes DEF Init, Docs
<1>3. second \in Seconds
  <2>1. second = 0
    BY DEF Init
  <2> QED BY <2>1, BoundsAssumption DEF Seconds
<1>4. copies \in [Seconds -> Copies]
  BY ByteTypes, CopyTypes DEF Init
<1> QED
  BY <1>1, <1>2, <1>3, <1>4, ByteTypes, InstanceTypes, AnswerTypes, FlowTypes DEF Init, TypeOK

\* The parts of a save that are the same for every operation.
LEMMA BeginTypes ==
    ASSUME TypeOK, NEW h \in Holders, NEW op \in Operations,
           NEW updated \in Docs,
           BeginGuarded(h, op, updated) \/ BeginPlain(h, op, updated)
    PROVE  TypeOK'
<1> DEFINE begun == [Idle EXCEPT !.pc = "fence", !.op = op, !.before = mem[h].doc]
           kept == [mem[h] EXCEPT !.doc = updated]
<1>1. /\ begun \in Flows
      /\ kept \in Instances
      /\ NotTold \in Answers /\ [NotTold EXCEPT !.op = op] \in Answers
  BY FlowTypes, InstanceTypes, AnswerTypes DEF TypeOK
<1>2. /\ mem' = mem \/ mem' = [mem EXCEPT ![h] = kept]
      /\ flow' = flow \/ flow' = [flow EXCEPT ![h] = begun]
      /\ \/ told' = [told EXCEPT ![h] = NotTold]
         \/ told' = [told EXCEPT ![h] = [NotTold EXCEPT !.op = op]]
      /\ UNCHANGED <<file, copies, staged, litter, accepted, erased, late, second, damage>>
      /\ ops' = ops + 1
  BY DEF BeginGuarded, BeginPlain, history
<1> HIDE DEF begun, kept
<1> QED
  BY <1>1, <1>2 DEF TypeOK

LEMMA FailedTypes ==
    ASSUME TypeOK, NEW h \in Holders, Failed(h)
    PROVE  /\ mem' \in [Holders -> Instances]
           /\ flow' \in [Holders -> Flows]
           /\ told' \in [Holders -> Answers]
  BY InstanceTypes, FlowTypes, AnswerTypes DEF TypeOK, Failed

LEMMA BeginStepTypes == ASSUME TypeOK, NEW h \in Holders, Begin(h) PROVE TypeOK'
<1>0. mem[h].doc \in Docs
  BY InstanceTypes DEF TypeOK
<1>1. ASSUME NEW p \in People, IdentitySave(h, p) PROVE TypeOK'
  <2>1. [mem[h].doc EXCEPT !.identity = p] \in Docs
    BY <1>0, DocTypes DEF Identities
  <2> QED BY <1>1, <2>1, BeginTypes DEF IdentitySave, Operations, Guarded
<1>2. CASE IdentityClear(h)
  <2>1. [mem[h].doc EXCEPT !.identity = Nobody] \in Docs
    BY <1>0, DocTypes DEF Identities
  <2> QED BY <1>2, <2>1, BeginTypes DEF IdentityClear, Operations, Guarded
<1>3. ASSUME NEW pending \in BOOLEAN, NEW there \in SUBSET Districts,
             CreatorSave(h, pending, there)
      PROVE  TypeOK'
  <2>1. [mem[h].doc EXCEPT !.pending = pending, !.tested = Pruned(@, there)] \in Docs
    BY <1>0, DocTypes
  <2> QED BY <1>3, <2>1, BeginTypes DEF CreatorSave, Operations, Guarded
<1>4. ASSUME NEW d \in Districts, NEW there \in SUBSET Districts,
             ActivateCreatorConfig(h, d, there)
      PROVE  TypeOK'
  <2>1. [mem[h].doc EXCEPT !.core = d, !.pending = FALSE,
                           !.tested = Pruned(@, there) \cup {d}] \in Docs
    BY <1>0, DocTypes
  <2> QED BY <1>4, <2>1, BeginTypes DEF ActivateCreatorConfig, Operations, Guarded
<1>5. ASSUME NEW d \in Districts, Choose(h, d) PROVE TypeOK'
  <2>1. [mem[h].doc EXCEPT !.core = d] \in Docs
    BY <1>0, DocTypes
  <2> QED BY <1>5, <2>1, BeginTypes DEF Choose, Operations
<1>6. CASE PersistWindowGeometry(h)
  <2>1. [mem[h].doc EXCEPT !.placed = TRUE] \in Docs
    BY <1>0, DocTypes
  <2> QED BY <1>6, <2>1, BeginTypes DEF PersistWindowGeometry, Operations
<1> QED BY <1>1, <1>2, <1>3, <1>4, <1>5, <1>6 DEF Begin

LEMMA SaveStepTypes == ASSUME TypeOK, NEW h \in Holders, Save(h) PROVE TypeOK'
<1>0. mem[h] \in Instances /\ flow[h] \in Flows /\ mem[h].doc \in Docs /\ file.bytes \in Bytes
  BY InstanceTypes, FileTypes DEF TypeOK
<1>1. CASE CheckFence(h)
  <2>1. CASE Failed(h)
    BY <1>1, <2>1, FailedTypes DEF CheckFence, TypeOK, counters, history
  <2>2. CASE ~Failed(h)
    BY <1>1, <2>2, <1>0, FlowTypes DEF CheckFence, TypeOK, counters, history
  <2> QED BY <2>1, <2>2
<1>2. CASE Inspect(h)
  <2>1. PICK c \in CopyStates, pc \in {"aside", "stage"} :
          flow' = [flow EXCEPT ![h] =
                     [flow[h] EXCEPT !.seen = file.bytes, !.pc = pc, !.copy = c]]
    BY <1>2 DEF Inspect, CopyStates
  <2>2. flow' \in [Holders -> Flows]
    BY <2>1, <1>0, FlowTypes DEF TypeOK
  <2> QED BY <1>2, <2>2 DEF Inspect, TypeOK, counters, history
<1>7. ASSUME NEW works \in BOOLEAN, SetAside(h, works) PROVE TypeOK'
  <2>1. second \in Seconds /\ late \in [Holders -> SUBSET Seconds] /\ Created(h) \in Copies
    BY CopyTypes DEF TypeOK
  <2>2. flow' \in [Holders -> Flows]
    <3>1. PICK f : /\ \/ f = [flow[h] EXCEPT !.pc = "fill", !.at = second]
                      \/ f = [flow[h] EXCEPT !.pc = "stage", !.copy = "fault"]
                      \/ f = [flow[h] EXCEPT !.pc = "stage", !.copy = "clash"]
                   /\ flow' = [flow EXCEPT ![h] = f]
      BY <1>7 DEF SetAside
    <3>2. f \in Flows
      BY <3>1, <2>1, <1>0, FlowTypes DEF CopyStates
    <3> QED BY <3>1, <3>2 DEF TypeOK
  <2>3. copies' \in [Seconds -> Copies] /\ late' \in [Holders -> SUBSET Seconds]
    <3>1. \/ copies' = copies /\ late' = late
          \/ /\ copies' = [copies EXCEPT ![second] = Created(h)]
             /\ late' = [k \in Holders |-> IF flow[k].pc = "unlink"
                                           THEN late[k] \cup {second} ELSE late[k]]
      BY <1>7 DEF SetAside
    <3> QED BY <3>1, <2>1 DEF TypeOK
  <2> QED BY <1>7, <2>2, <2>3 DEF SetAside, TypeOK, counters
<1>8. ASSUME NEW works \in BOOLEAN, Fill(h, works) PROVE TypeOK'
  <2>1. PICK there : /\ there \in {copies[flow[h].at], flow[h].seen, Created(h),
                                   Torn(flow[h].seen.doc)}
                     /\ copies' = [copies EXCEPT ![flow[h].at] = there]
    BY <1>8 DEF Fill
  <2>2. there \in Copies
    <3>1. flow[h].at \in Seconds /\ flow[h].seen \in Bytes
      BY <1>0 DEF Flows
    <3>2. Torn(flow[h].seen.doc) \in Bytes
      BY <3>1, ByteTypes
    <3> QED BY <2>1, <3>1, <3>2, CopyTypes DEF TypeOK
  <2>3. copies' \in [Seconds -> Copies]
    BY <2>1, <2>2 DEF TypeOK
  <2>4. flow' \in [Holders -> Flows]
    <3>1. PICK c \in CopyStates :
            flow' = [flow EXCEPT ![h] = [flow[h] EXCEPT !.pc = "stage", !.copy = c]]
      BY <1>8 DEF Fill, CopyStates
    <3> QED BY <3>1, <1>0, FlowTypes DEF TypeOK
  <2> QED BY <1>8, <2>3, <2>4 DEF Fill, TypeOK, counters, history
<1>3. ASSUME NEW works \in BOOLEAN, Stage(h, works) PROVE TypeOK'
  <2>1. CASE works
    <3>1. Good(mem[h].doc) \in Bytes /\ [flow[h] EXCEPT !.pc = "promote"] \in Flows
      BY <1>0, ByteTypes, FlowTypes
    <3> QED BY <1>3, <2>1, <3>1 DEF Stage, TypeOK, counters, history
  <2>2. CASE ~works
    BY <1>3, <2>2, FailedTypes DEF Stage, TypeOK, counters, history
  <2> QED BY <2>1, <2>2
<1>4. CASE Promote(h)
  <2>1. /\ file' \in SettingsFiles
        /\ staged' \in [Holders -> Bytes]
        /\ mem' \in [Holders -> Instances]
    BY <1>4, <1>0, ByteTypes, FileTypes, InstanceTypes DEF Promote, TypeOK
  <2>2. accepted' \subseteq Identities
    BY <1>4, <1>0 DEF Promote, TypeOK, Docs
  <2>3. flow' \in [Holders -> Flows] /\ told' \in [Holders -> Answers]
    <3>1. /\ [flow[h] EXCEPT !.pc = "purge"] \in Flows /\ Idle \in Flows
          /\ [NotTold EXCEPT !.op = flow[h].op, !.ok = TRUE] \in Answers
      BY <1>0, FlowTypes, AnswerTypes
    <3> QED BY <1>4, <3>1 DEF Promote, TypeOK
  <2> QED BY <1>4, <2>1, <2>2, <2>3 DEF Promote, TypeOK, counters, history
<1>5. CASE PromoteFails(h)
  BY <1>5, FailedTypes, ByteTypes DEF PromoteFails, TypeOK, counters, history
<1>6. ASSUME NEW n \in Nat, Erased(h, n)
      PROVE  /\ flow' \in [Holders -> Flows] /\ told' \in [Holders -> Answers]
             /\ late' \in [Holders -> SUBSET Seconds]
  BY <1>6, FlowTypes, AnswerTypes DEF Erased, TypeOK
<1>9. There \in SUBSET Seconds
  BY DEF There
<1>10. ASSUME NEW works \in BOOLEAN, List(h, works) PROVE TypeOK'
  <2>1. CASE works
    <3>1. [flow[h] EXCEPT !.pc = "unlink", !.list = There] \in Flows
      BY <1>0, <1>9, FlowTypes
    <3> QED BY <1>10, <2>1, <3>1 DEF List, TypeOK, counters
  <2>2. CASE ~works
    BY <1>10, <2>2, <1>6 DEF List, TypeOK, counters
  <2> QED BY <2>1, <2>2
<1>11. ASSUME NEW works \in BOOLEAN, Unlink(h, works) PROVE TypeOK'
  <2>1. PICK s \in flow[h].list :
          \/ /\ copies' = [copies EXCEPT ![s] = NoCopy]
             /\ erased' = erased \cup {s}
             /\ flow' = [flow EXCEPT ![h] = [flow[h] EXCEPT !.list = flow[h].list \ {s}]]
          \/ /\ UNCHANGED <<copies, erased>>
             /\ flow' = [flow EXCEPT ![h] = [flow[h] EXCEPT !.list = flow[h].list \ {s},
                                                     !.left = flow[h].left + 1]]
    BY <1>11 DEF Unlink
  <2>2. s \in Seconds /\ flow[h].list \ {s} \in SUBSET Seconds
    BY <1>0 DEF Flows
  <2>3. flow' \in [Holders -> Flows]
    <3>1. /\ [flow[h] EXCEPT !.list = flow[h].list \ {s}] \in Flows
          /\ [flow[h] EXCEPT !.list = flow[h].list \ {s}, !.left = flow[h].left + 1]
               \in Flows
      BY <2>2, <1>0, FlowTypes
    <3> QED BY <2>1, <3>1 DEF TypeOK
  <2>4. copies' \in [Seconds -> Copies] /\ erased' \subseteq Seconds
    BY <2>1, <2>2, ByteTypes, CopyTypes DEF TypeOK
  <2> QED BY <1>11, <2>3, <2>4 DEF Unlink, TypeOK, counters
<1>12. CASE Purged(h)
  <2>1. flow[h].left \in Nat
    BY <1>0 DEF Flows
  <2> QED BY <1>12, <2>1, <1>6 DEF Purged, TypeOK, counters
<1> QED
  BY <1>1, <1>2, <1>3, <1>4, <1>5, <1>7, <1>8, <1>10, <1>11, <1>12 DEF Save

LEMMA NextTypes == TypeOK /\ [Next]_vars => TypeOK'
<1> SUFFICES ASSUME TypeOK, [Next]_vars PROVE TypeOK'
  OBVIOUS
<1>0. file \in SettingsFiles
  BY DEF TypeOK
<1>1. ASSUME NEW h \in Holders, Load(h) PROVE TypeOK'
  BY <1>1, LoadedType, FlowTypes DEF Load, TypeOK, counters, history
<1>2. ASSUME NEW h \in Holders, Begin(h) PROVE TypeOK'
  BY <1>2, BeginStepTypes
<1>3. ASSUME NEW h \in Holders, Save(h) PROVE TypeOK'
  BY <1>3, SaveStepTypes
<1>4. ASSUME NEW h \in Holders, Crash(h) PROVE TypeOK'
  <2>1. staged[h].doc \in Docs
    BY ByteTypes DEF TypeOK
  <2> QED
    BY <1>4, <2>1, ByteTypes, FlowTypes, InstanceTypes, AnswerTypes DEF Crash, TypeOK, counters
<1>5. CASE Damage
  <2>1. Torn(file.bytes.doc) \in Bytes
    BY <1>0, FileTypes, ByteTypes
  <2> QED BY <1>5, <1>0, <2>1, FileTypes DEF Damage, TypeOK, history
<1>6. CASE Lock
  <2>1. file' \in SettingsFiles
    BY <1>6, <1>0, FileTypes DEF Lock
  <2> QED BY <1>6, <2>1 DEF Lock, TypeOK, history
<1>7. CASE Unlock
  BY <1>7, <1>0, FileTypes DEF Unlock, TypeOK, counters, history
<1>8. CASE Supersede
  BY <1>8, <1>0, FileTypes DEF Supersede, TypeOK, counters, history
<1>9. CASE Tick
  <2>1. second' \in Seconds
    BY <1>9, BoundsAssumption DEF Tick, TypeOK, Seconds
  <2> QED BY <1>9, <2>1 DEF Tick, TypeOK, history
<1>10. CASE UNCHANGED vars
  BY <1>10 DEF vars, counters, history, TypeOK
<1> QED
  BY <1>1, <1>2, <1>3, <1>4, <1>5, <1>6, <1>7, <1>8, <1>9, <1>10 DEF Next

\* What every variable of the settings document's model ranges over
\* (src/config/app_config.py, AppConfig).
THEOREM SettingsTypes == Spec => []TypeOK
<1>1. Init => TypeOK
  BY InitTypes
<1>2. TypeOK /\ [Next]_vars => TypeOK'
  BY NextTypes
<1> QED BY <1>1, <1>2, PTL DEF Spec

-----------------------------------------------------------------------------
(* Only what was accepted is written.                                      *)

IsAccepted(doc) == doc.identity \in accepted \cup {Nobody}

\* An address in memory that was not accepted is that of an identity write which
\* is under way and can still be taken back.
Pending(h) == flow[h].pc \in Saving /\ flow[h].op \in {"identity", "clear"}

HeldInMemory(h) ==
    /\ ~Pending(h) => IsAccepted(mem[h].doc)
    /\ flow[h].pc \in Saving => IsAccepted(flow[h].before)
    /\ flow[h].pc = "promote" => staged[h].doc.identity = mem[h].doc.identity

AcceptedInv ==
    /\ IsAccepted(file.bytes.doc)
    /\ \A h \in Holders : HeldInMemory(h)

LEMMA InitAccepted == Init => AcceptedInv
<1> SUFFICES ASSUME Init PROVE AcceptedInv
  OBVIOUS
<1>1. Instance.doc.identity = Nobody
  BY DEF Instance, Defaults
<1>2. ASSUME NEW h \in Holders PROVE HeldInMemory(h)
  <2>1. flow[h].pc = "closed" /\ mem[h] = Instance
    BY DEF Init, Idle
  <2> QED BY <1>1, <2>1 DEF HeldInMemory, IsAccepted, Saving
<1> QED BY <1>2 DEF Init, AcceptedInv, IsAccepted

\* A step that leaves an instance and its save alone leaves what holds of them.
LEMMA AcceptedFrame ==
    ASSUME NEW k \in Holders, HeldInMemory(k), mem'[k] = mem[k], flow'[k] = flow[k],
           staged'[k] = staged[k], accepted \subseteq accepted'
    PROVE  HeldInMemory(k)'
  BY DEF HeldInMemory, Pending, IsAccepted

\* What BeginGuarded and BeginPlain leave, by what they were asked to change.
LEMMA BeginAccepted ==
    ASSUME TypeOK, AcceptedInv, NEW h \in Holders, NEW op \in Operations, NEW updated \in Docs,
           BeginGuarded(h, op, updated) \/ BeginPlain(h, op, updated),
           op \in {"identity", "clear"} \/ updated.identity = mem[h].doc.identity
    PROVE  AcceptedInv'
<1>1. flow[h].pc = "idle" /\ HeldInMemory(h)
  BY DEF BeginGuarded, BeginPlain, AcceptedInv
<1>2. IsAccepted(mem[h].doc)
  BY <1>1 DEF HeldInMemory, Pending, Saving
<1>3. UNCHANGED <<file, accepted, staged>>
  BY DEF BeginGuarded, BeginPlain
<1>4. HeldInMemory(h)'
  <2>1. CASE mem' = mem /\ flow' = flow
    BY <2>1, <1>1, <1>3, AcceptedFrame
  <2>2. CASE /\ mem' = [mem EXCEPT ![h].doc = updated]
             /\ flow' = [flow EXCEPT ![h] = [Idle EXCEPT !.pc = "fence", !.op = op,
                            !.before = mem[h].doc]]
    <3>1. mem'[h].doc = updated
      BY <2>2 DEF TypeOK, Instances
    <3>2. flow'[h].pc = "fence" /\ flow'[h].op = op /\ flow'[h].before = mem[h].doc
      BY <2>2 DEF TypeOK, Idle
    <3> QED BY <1>2, <1>3, <3>1, <3>2 DEF HeldInMemory, Pending, IsAccepted, Saving
  <2> QED BY <2>1, <2>2 DEF BeginGuarded, BeginPlain
<1>5. ASSUME NEW k \in Holders, k # h PROVE HeldInMemory(k)'
  <2>1. mem'[k] = mem[k] /\ flow'[k] = flow[k]
    BY <1>5 DEF BeginGuarded, BeginPlain, TypeOK
  <2> QED BY <2>1, <1>3, AcceptedFrame DEF AcceptedInv
<1> QED BY <1>3, <1>4, <1>5 DEF AcceptedInv, IsAccepted

\* _restore: what a save that failed leaves in memory was accepted before.
LEMMA FailedAccepted ==
    ASSUME TypeOK, AcceptedInv, NEW h \in Holders, flow[h].pc \in Saving, Failed(h),
           UNCHANGED accepted
    PROVE  HeldInMemory(h)'
<1>1. HeldInMemory(h)
  BY DEF AcceptedInv
<1>2. flow'[h].pc = "idle"
  BY DEF Failed, Idle, TypeOK
<1>3. mem'[h].doc.identity \in accepted \cup {Nobody}
  <2>1. CASE flow[h].op \in Guarded
    <3>1. mem'[h].doc = flow[h].before
      BY <2>1 DEF Failed, TypeOK, Instances
    <3> QED BY <1>1, <3>1 DEF HeldInMemory, IsAccepted
  <2>2. CASE flow[h].op \notin Guarded
    BY <2>2, <1>1 DEF Failed, HeldInMemory, Pending, Guarded, IsAccepted
  <2> QED BY <2>1, <2>2
<1> QED BY <1>2, <1>3 DEF HeldInMemory, Pending, IsAccepted, Saving

LEMMA BeginStepAccepted ==
    ASSUME TypeOK, AcceptedInv, NEW h \in Holders, Begin(h) PROVE AcceptedInv'
<1>0. mem[h].doc \in Docs
  BY InstanceTypes DEF TypeOK
<1>1. ASSUME NEW p \in People, IdentitySave(h, p) PROVE AcceptedInv'
  <2>1. [mem[h].doc EXCEPT !.identity = p] \in Docs
    BY <1>0, DocTypes DEF Identities
  <2> QED BY <1>1, <2>1, BeginAccepted DEF IdentitySave, Operations, Guarded
<1>2. CASE IdentityClear(h)
  <2>1. [mem[h].doc EXCEPT !.identity = Nobody] \in Docs
    BY <1>0, DocTypes DEF Identities
  <2> QED BY <1>2, <2>1, BeginAccepted DEF IdentityClear, Operations, Guarded
<1>3. ASSUME NEW pending \in BOOLEAN, NEW there \in SUBSET Districts,
             CreatorSave(h, pending, there)
      PROVE  AcceptedInv'
  <2> DEFINE doc == [mem[h].doc EXCEPT !.pending = pending, !.tested = Pruned(@, there)]
  <2>1. doc \in Docs
    BY <1>0, DocTypes
  <2>2. doc.identity = mem[h].doc.identity
    BY <1>0 DEF Docs
  <2> QED BY <1>3, <2>1, <2>2, BeginAccepted DEF CreatorSave, Operations, Guarded
<1>4. ASSUME NEW d \in Districts, NEW there \in SUBSET Districts,
             ActivateCreatorConfig(h, d, there)
      PROVE  AcceptedInv'
  <2> DEFINE doc == [mem[h].doc EXCEPT !.core = d, !.pending = FALSE,
                           !.tested = Pruned(@, there) \cup {d}]
  <2>1. doc \in Docs
    BY <1>0, DocTypes
  <2>2. doc.identity = mem[h].doc.identity
    BY <1>0 DEF Docs
  <2> QED BY <1>4, <2>1, <2>2, BeginAccepted DEF ActivateCreatorConfig, Operations, Guarded
<1>5. ASSUME NEW d \in Districts, Choose(h, d) PROVE AcceptedInv'
  <2> DEFINE doc == [mem[h].doc EXCEPT !.core = d]
  <2>1. doc \in Docs /\ doc.identity = mem[h].doc.identity
    BY <1>0, DocTypes DEF Docs
  <2> QED BY <1>5, <2>1, BeginAccepted DEF Choose, Operations
<1>6. CASE PersistWindowGeometry(h)
  <2> DEFINE doc == [mem[h].doc EXCEPT !.placed = TRUE]
  <2>1. doc \in Docs /\ doc.identity = mem[h].doc.identity
    BY <1>0, DocTypes DEF Docs
  <2> QED BY <1>6, <2>1, BeginAccepted DEF PersistWindowGeometry, Operations
<1> QED BY <1>1, <1>2, <1>3, <1>4, <1>5, <1>6 DEF Begin

\* A save's steps touch the instance, the staging file and the save of its own
\* process only.
LEMMA SaveIsOwn ==
    ASSUME TypeOK, NEW h \in Holders, Save(h), NEW k \in Holders, k # h
    PROVE  mem'[k] = mem[k] /\ flow'[k] = flow[k] /\ staged'[k] = staged[k]
<1>1. ASSUME Failed(h) PROVE mem'[k] = mem[k] /\ flow'[k] = flow[k]
  BY <1>1 DEF Failed, TypeOK
<1>2. CASE CheckFence(h)
  BY <1>1, <1>2 DEF CheckFence, TypeOK
<1>3. ASSUME NEW works \in BOOLEAN,
             Inspect(h) \/ SetAside(h, works) \/ Fill(h, works)
      PROVE  mem'[k] = mem[k] /\ flow'[k] = flow[k] /\ staged'[k] = staged[k]
  BY <1>3 DEF Inspect, SetAside, Fill, TypeOK
<1>4. ASSUME NEW works \in BOOLEAN, Stage(h, works)
      PROVE  mem'[k] = mem[k] /\ flow'[k] = flow[k] /\ staged'[k] = staged[k]
  BY <1>1, <1>4 DEF Stage, TypeOK
<1>5. CASE Promote(h)
  BY <1>5 DEF Promote, TypeOK
<1>6. CASE PromoteFails(h)
  BY <1>1, <1>6 DEF PromoteFails, TypeOK
<1>7. ASSUME NEW works \in BOOLEAN, List(h, works) \/ Unlink(h, works) \/ Purged(h)
      PROVE  mem'[k] = mem[k] /\ flow'[k] = flow[k] /\ staged'[k] = staged[k]
  BY <1>7 DEF List, Unlink, Purged, Erased, TypeOK
<1> QED BY <1>2, <1>3, <1>4, <1>5, <1>6, <1>7 DEF Save

LEMMA SaveStepAccepted ==
    ASSUME TypeOK, AcceptedInv, NEW h \in Holders, Save(h) PROVE AcceptedInv'
<1>0. HeldInMemory(h) /\ flow[h] \in Flows /\ mem[h] \in Instances
  BY DEF AcceptedInv, TypeOK
<1>1. accepted \subseteq accepted'
  BY DEF Save, CheckFence, Inspect, SetAside, Fill, Stage, Promote, PromoteFails, List,
         Unlink, Purged
<1>2. ASSUME HeldInMemory(h)', IsAccepted(file.bytes.doc)' PROVE AcceptedInv'
  <2>1. ASSUME NEW k \in Holders, k # h PROVE HeldInMemory(k)'
    BY <2>1, <1>1, SaveIsOwn, AcceptedFrame DEF AcceptedInv
  <2> QED BY <1>2, <2>1 DEF AcceptedInv
<1>3. ASSUME UNCHANGED <<file, accepted>> PROVE IsAccepted(file.bytes.doc)'
  BY <1>3 DEF AcceptedInv, IsAccepted
<1>4. CASE CheckFence(h)
  <2>1. CASE Failed(h)
    BY <1>2, <1>3, <1>4, <2>1, FailedAccepted DEF CheckFence, Saving
  <2>2. CASE /\ flow' = [flow EXCEPT ![h].pc = "preserve"]
             /\ UNCHANGED mem
    <3>1. flow'[h] = [flow[h] EXCEPT !.pc = "preserve"]
      BY <2>2 DEF TypeOK
    <3>2. HeldInMemory(h)'
      BY <1>0, <1>4, <2>2, <3>1 DEF CheckFence, HeldInMemory, Pending, IsAccepted, Saving, Flows
    <3> QED BY <1>2, <1>3, <1>4, <3>2 DEF CheckFence
  <2> QED BY <1>4, <2>1, <2>2 DEF CheckFence
<1>5. ASSUME NEW works \in BOOLEAN, Inspect(h) \/ SetAside(h, works) \/ Fill(h, works)
      PROVE  AcceptedInv'
  <2>1. /\ flow[h].pc \in {"preserve", "aside", "fill"}
        /\ flow'[h].pc \in {"aside", "fill", "stage"}
        /\ flow'[h].op = flow[h].op /\ flow'[h].before = flow[h].before
    <3>1. CASE Inspect(h)
      BY <1>0, <3>1 DEF Inspect, TypeOK, Flows
    <3>2. CASE SetAside(h, works)
      BY <1>0, <3>2 DEF SetAside, TypeOK, Flows
    <3>3. CASE Fill(h, works)
      BY <1>0, <3>3 DEF Fill, TypeOK, Flows
    <3> QED BY <1>5, <3>1, <3>2, <3>3
  <2>2. UNCHANGED <<mem, accepted, file>>
    BY <1>5 DEF Inspect, SetAside, Fill
  <2>3. HeldInMemory(h)'
    BY <1>0, <2>1, <2>2 DEF HeldInMemory, Pending, IsAccepted, Saving
  <2> QED BY <1>2, <1>3, <2>2, <2>3
<1>6. ASSUME NEW works \in BOOLEAN, Stage(h, works) PROVE AcceptedInv'
  <2>1. CASE works
    <3>1. /\ flow'[h] = [flow[h] EXCEPT !.pc = "promote"]
          /\ staged'[h] = Good(mem[h].doc)
          /\ UNCHANGED <<mem, accepted>>
      BY <1>6, <2>1 DEF Stage, TypeOK
    <3>2. HeldInMemory(h)'
      BY <1>0, <1>6, <3>1 DEF Stage, HeldInMemory, Pending, IsAccepted, Saving, Flows, Good
    <3> QED BY <1>2, <1>3, <1>6, <3>2 DEF Stage
  <2>2. CASE ~works
    BY <1>2, <1>3, <1>6, <2>2, FailedAccepted DEF Stage, Saving
  <2> QED BY <2>1, <2>2
<1>7. CASE Promote(h)
  <2>1. /\ file'.bytes = staged[h]
        /\ mem'[h].doc = mem[h].doc
        /\ flow[h].pc = "promote"
    BY <1>7 DEF Promote, TypeOK, SettingsFiles, Instances
  <2>2. IsAccepted(mem[h].doc)'
    BY <1>0, <1>7, <2>1 DEF Promote, HeldInMemory, Pending, IsAccepted
  <2>3. flow'[h].pc \notin Saving
    BY <1>7 DEF Promote, TypeOK, Saving, Flows, Idle
  <2>4. HeldInMemory(h)'
    BY <2>1, <2>2, <2>3 DEF HeldInMemory, IsAccepted, Saving
  <2>5. IsAccepted(file.bytes.doc)'
    BY <1>0, <2>1, <2>2 DEF HeldInMemory, IsAccepted
  <2> QED BY <1>2, <2>4, <2>5
<1>8. CASE PromoteFails(h)
  BY <1>2, <1>3, <1>8, FailedAccepted DEF PromoteFails, Saving
<1>9. ASSUME NEW works \in BOOLEAN, List(h, works) \/ Unlink(h, works) \/ Purged(h)
      PROVE  AcceptedInv'
  <2>1. flow[h].pc \in {"purge", "unlink"} /\ flow'[h].pc \in {"unlink", "idle"}
    <3>1. CASE List(h, works)
      BY <1>0, <3>1 DEF List, Erased, TypeOK, Flows, Idle
    <3>2. CASE Unlink(h, works)
      BY <1>0, <3>2 DEF Unlink, TypeOK, Flows
    <3>3. CASE Purged(h)
      BY <1>0, <3>3 DEF Purged, Erased, TypeOK, Idle
    <3> QED BY <1>9, <3>1, <3>2, <3>3
  <2>2. UNCHANGED <<mem, accepted, file>>
    BY <1>9 DEF List, Unlink, Purged
  <2>3. HeldInMemory(h)'
    BY <1>0, <2>1, <2>2 DEF HeldInMemory, Pending, IsAccepted, Saving
  <2> QED BY <1>2, <1>3, <2>2, <2>3
<1> QED BY <1>4, <1>5, <1>6, <1>7, <1>8, <1>9 DEF Save

LEMMA NextAccepted == TypeOK /\ AcceptedInv /\ [Next]_vars => AcceptedInv'
<1> SUFFICES ASSUME TypeOK, AcceptedInv, [Next]_vars PROVE AcceptedInv'
  OBVIOUS
<1>1. ASSUME NEW h \in Holders, Load(h) PROVE AcceptedInv'
  <2>1. flow'[h].pc = "idle" /\ mem'[h] = Loaded
    BY <1>1 DEF Load, TypeOK, Idle
  <2>2. Loaded.doc.identity \in accepted \cup {Nobody}
    BY DEF AcceptedInv, IsAccepted, Loaded, Defaults
  <2>3. HeldInMemory(h)'
    BY <1>1, <2>1, <2>2 DEF Load, HeldInMemory, IsAccepted, Saving
  <2>4. ASSUME NEW k \in Holders, k # h PROVE HeldInMemory(k)'
    <3>1. /\ mem'[k] = mem[k] /\ flow'[k] = flow[k] /\ staged'[k] = staged[k]
          /\ accepted' = accepted
      BY <1>1, <2>4 DEF Load, TypeOK
    <3> QED BY <3>1, AcceptedFrame DEF AcceptedInv
  <2> QED BY <1>1, <2>3, <2>4 DEF Load, AcceptedInv, IsAccepted
<1>2. ASSUME NEW h \in Holders, Begin(h) PROVE AcceptedInv'
  BY <1>2, BeginStepAccepted
<1>3. ASSUME NEW h \in Holders, Save(h) PROVE AcceptedInv'
  BY <1>3, SaveStepAccepted
<1>4. ASSUME NEW h \in Holders, Crash(h) PROVE AcceptedInv'
  <2>1. flow'[h].pc = "closed" /\ mem'[h].doc.identity = Nobody
    BY <1>4 DEF Crash, TypeOK, Idle, Instance, Defaults
  <2>2. HeldInMemory(h)'
    BY <2>1 DEF HeldInMemory, IsAccepted, Saving
  <2>3. ASSUME NEW k \in Holders, k # h PROVE HeldInMemory(k)'
    <3>1. mem'[k] = mem[k] /\ flow'[k] = flow[k] /\ staged'[k] = staged[k]
          /\ accepted' = accepted
      BY <1>4, <2>3 DEF Crash, TypeOK
    <3> QED BY <3>1, AcceptedFrame DEF AcceptedInv
  <2> QED BY <1>4, <2>2, <2>3 DEF Crash, AcceptedInv, IsAccepted
<1>5. ASSUME UNCHANGED <<staged, mem, flow, accepted>>,
             file'.bytes.doc = file.bytes.doc
      PROVE  AcceptedInv'
  BY <1>5, AcceptedFrame DEF AcceptedInv, IsAccepted
<1>6. CASE Damage
  <2>1. file'.bytes.doc = file.bytes.doc
    BY <1>6 DEF Damage, TypeOK, SettingsFiles, Torn
  <2> QED BY <1>5, <1>6, <2>1 DEF Damage
<1>7. CASE Lock
  BY <1>5, <1>7 DEF Lock, TypeOK, SettingsFiles
<1>8. CASE Unlock
  BY <1>5, <1>8 DEF Unlock, TypeOK, SettingsFiles
<1>9. CASE Supersede
  BY <1>5, <1>9 DEF Supersede, TypeOK, SettingsFiles
<1>10. CASE Tick
  BY <1>5, <1>10 DEF Tick
<1>11. CASE UNCHANGED vars
  BY <1>5, <1>11 DEF vars
<1> QED
  BY <1>1, <1>2, <1>3, <1>4, <1>6, <1>7, <1>8, <1>9, <1>10, <1>11 DEF Next

\* Only what somebody was told is saved gets onto the disk: an address whose write
\* was refused or failed is gone from memory too, and no later save of another
\* field carries it along (_guarded_field_write, _restore).
THEOREM AcceptedOnly == Spec => []OnlyAcceptedIsWritten
<1>1. Init => TypeOK /\ AcceptedInv
  BY InitTypes, InitAccepted
<1>2. TypeOK /\ AcceptedInv /\ [Next]_vars => TypeOK' /\ AcceptedInv'
  BY NextTypes, NextAccepted
<1>3. AcceptedInv => OnlyAcceptedIsWritten
  BY DEF AcceptedInv, IsAccepted, OnlyAcceptedIsWritten
<1> QED BY <1>1, <1>2, <1>3, PTL DEF Spec

-----------------------------------------------------------------------------
(* Bytes nobody could read.                                                *)

\* What a save knows of the bytes in place after it has looked at them: a copy
\* was made if it had to be, under a name nobody else has, and what it kept is
\* kept until an erasure.
Preserved(h) ==
    /\ flow[h].pc \in {"aside", "fill"} => flow[h].seen.kind # "absent"
    /\ flow[h].pc = "fill" =>
         copies[flow[h].at] = Created(h) \/ flow[h].at \in erased
    /\ flow[h].pc \in {"stage", "promote"} =>
         /\ (flow[h].seen.kind # "absent"
               /\ (mem[h].state = "UNREADABLE" \/ flow[h].seen.kind = "torn"))
              => flow[h].copy # "none"
         /\ flow[h].copy = "kept" =>
              /\ flow[h].seen.kind # "absent"
              /\ copies[flow[h].at] = flow[h].seen \/ flow[h].at \in erased

PreservedInv == \A h \in Holders : Preserved(h)

\* What h may do to the copies: it makes one, fills one of its own making, or
\* removes them in an erasure.
CopiesStay(h) ==
    /\ erased \subseteq erased'
    /\ \A s \in Seconds : \/ copies'[s] = copies[s]
                          \/ copies[s].kind = "absent"
                          \/ copies[s] = Created(h)
                          \/ s \in erased'

LEMMA PreservedFrame ==
    ASSUME TypeOK, NEW h, NEW k \in Holders, h # k, Preserved(k), CopiesStay(h),
           flow'[k] = flow[k], mem'[k] = mem[k]
    PROVE  Preserved(k)'
<1>0. flow[k].at \in Seconds /\ flow[k].seen \in Bytes /\ Created(k).kind = "empty"
  BY CopyTypes DEF TypeOK, Flows
<1>1. Created(k) # Created(h) /\ flow[k].seen # Created(h)
  BY <1>0, CopyTypes
<1>2. CASE flow[k].pc = "fill"
  <2>1. copies'[flow[k].at] = Created(k) \/ flow[k].at \in erased'
    BY <1>0, <1>1, <1>2 DEF Preserved, CopiesStay
  <2> QED BY <1>2, <2>1 DEF Preserved
<1>3. CASE flow[k].pc \in {"stage", "promote"}
  <2>1. ASSUME flow[k].copy = "kept"
        PROVE  flow[k].seen.kind # "absent"
               /\ (copies'[flow[k].at] = flow[k].seen \/ flow[k].at \in erased')
    BY <1>0, <1>1, <1>3, <2>1 DEF Preserved, CopiesStay
  <2> QED BY <1>3, <2>1 DEF Preserved
<1>4. CASE flow[k].pc \notin {"fill", "stage", "promote"}
  BY <1>4 DEF Preserved
<1> QED BY <1>2, <1>3, <1>4

\* What a save's steps do to the copies.
LEMMA SaveCopies == ASSUME TypeOK, NEW h \in Holders, Save(h) PROVE CopiesStay(h)
<1>1. ASSUME NEW works \in BOOLEAN, SetAside(h, works) PROVE CopiesStay(h)
  <2>1. \/ copies' = copies
        \/ copies[second].kind = "absent" /\ copies' = [copies EXCEPT ![second] = Created(h)]
    BY <1>1 DEF SetAside
  <2> QED BY <1>1, <2>1 DEF SetAside, CopiesStay, TypeOK
<1>2. ASSUME NEW works \in BOOLEAN, Fill(h, works) PROVE CopiesStay(h)
  <2>1. \/ copies' = [copies EXCEPT ![flow[h].at] = copies[flow[h].at]]
        \/ /\ copies[flow[h].at] = Created(h)
           /\ \E there : copies' = [copies EXCEPT ![flow[h].at] = there]
    BY <1>2 DEF Fill
  <2>2. \A s \in Seconds : copies'[s] = copies[s] \/ copies[s] = Created(h)
    BY <2>1 DEF TypeOK
  <2> QED BY <1>2, <2>2 DEF Fill, CopiesStay, history
<1>3. ASSUME NEW works \in BOOLEAN, Unlink(h, works) PROVE CopiesStay(h)
  BY <1>3 DEF Unlink, CopiesStay, TypeOK
<1>4. ASSUME UNCHANGED <<copies, erased>> PROVE CopiesStay(h)
  BY <1>4 DEF CopiesStay
<1>5. ASSUME NEW works \in BOOLEAN,
             \/ CheckFence(h) \/ Inspect(h) \/ Stage(h, works) \/ Promote(h)
             \/ PromoteFails(h) \/ List(h, works) \/ Purged(h)
      PROVE  UNCHANGED <<copies, erased>>
  BY <1>5 DEF CheckFence, Inspect, Stage, Promote, PromoteFails, List, Purged, history
<1> QED BY <1>1, <1>2, <1>3, <1>4, <1>5 DEF Save

\* Every other step leaves the copies alone.
LEMMA OtherCopies ==
    ASSUME Next, \A h \in Holders : ~Save(h)
    PROVE  UNCHANGED <<copies, erased>>
<1>1. ASSUME NEW h \in Holders, Begin(h) PROVE UNCHANGED <<copies, erased>>
  BY <1>1 DEF Begin, IdentitySave, IdentityClear, CreatorSave, ActivateCreatorConfig,
              Choose, PersistWindowGeometry, BeginGuarded, BeginPlain, history
<1>2. ASSUME NEW h \in Holders, Load(h) \/ Crash(h) PROVE UNCHANGED <<copies, erased>>
  BY <1>2 DEF Load, Crash, history
<1>3. ASSUME Damage \/ Lock \/ Unlock \/ Supersede \/ Tick PROVE UNCHANGED <<copies, erased>>
  BY <1>3 DEF Damage, Lock, Unlock, Supersede, Tick, history
<1> QED BY <1>1, <1>2, <1>3 DEF Next

\* A process's own step, which leaves the others' saves and memory alone.
LEMMA PreservedOwn ==
    ASSUME TypeOK, PreservedInv, NEW h \in Holders, Preserved(h)', CopiesStay(h),
           \A k \in Holders \ {h} : flow'[k] = flow[k] /\ mem'[k] = mem[k]
    PROVE  PreservedInv'
  BY PreservedFrame DEF PreservedInv

Watched == {"aside", "fill", "stage", "promote"}

LEMMA NothingToKeep ==
    ASSUME NEW h \in Holders, flow'[h].pc \notin Watched PROVE Preserved(h)'
  BY DEF Preserved, Watched

LEMMA SavePreserved ==
    ASSUME TypeOK, PreservedInv, NEW h \in Holders, Save(h) PROVE PreservedInv'
<1>0. /\ CopiesStay(h)
      /\ \A k \in Holders \ {h} : flow'[k] = flow[k] /\ mem'[k] = mem[k]
  BY SaveCopies, SaveIsOwn
<1>1. /\ Preserved(h) /\ flow[h] \in Flows /\ file.bytes \in Bytes
      /\ second \in Seconds /\ copies \in [Seconds -> Copies]
  BY FileTypes DEF TypeOK, PreservedInv
<1>2. ASSUME Failed(h) PROVE Preserved(h)'
  <2>1. flow'[h].pc \notin Watched
    BY <1>2 DEF Failed, TypeOK, Idle, Watched
  <2> QED BY <2>1, NothingToKeep
<1>3. ASSUME NEW n, Erased(h, n) PROVE Preserved(h)'
  <2>1. flow'[h].pc \notin Watched
    BY <1>3 DEF Erased, TypeOK, Idle, Watched
  <2> QED BY <2>1, NothingToKeep
<1>4. CASE CheckFence(h)
  <2>1. CASE flow' = [flow EXCEPT ![h].pc = "preserve"]
    <3>1. flow'[h].pc \notin Watched
      BY <1>1, <2>1 DEF TypeOK, Flows, Watched
    <3> QED BY <3>1, NothingToKeep, <1>0, PreservedOwn
  <2> QED BY <1>4, <2>1, <1>2, <1>0, PreservedOwn DEF CheckFence
<1>5. CASE Inspect(h)
  <2> DEFINE copy == IF file.locked THEN "locked" ELSE "none"
             aside == ~file.locked /\ Unread(h)
  <2>1. /\ flow'[h] = [flow[h] EXCEPT !.seen = file.bytes,
                          !.pc = IF aside THEN "aside" ELSE "stage", !.copy = copy]
        /\ mem' = mem
    BY <1>5 DEF Inspect, TypeOK
  <2>2. /\ flow'[h].seen = file.bytes /\ flow'[h].copy = copy
        /\ flow'[h].pc = IF aside THEN "aside" ELSE "stage"
    BY <1>1, <2>1 DEF Flows
  <2>3. Preserved(h)'
    BY <2>1, <2>2 DEF Preserved, Unread
  <2> QED BY <1>0, <2>3, PreservedOwn
<1>6. ASSUME NEW works \in BOOLEAN, SetAside(h, works) PROVE PreservedInv'
  <2>1. /\ mem' = mem /\ flow[h].seen.kind # "absent"
    BY <1>1, <1>6 DEF SetAside, Preserved
  <2>2. CASE copies[second].kind = "absent" /\ works
    <3>1. /\ flow'[h] = [flow[h] EXCEPT !.pc = "fill", !.at = second]
          /\ copies'[second] = Created(h)
      BY <1>1, <1>6, <2>2 DEF SetAside, TypeOK
    <3>2. flow'[h].pc = "fill" /\ flow'[h].at = second /\ flow'[h].seen = flow[h].seen
      BY <1>1, <3>1 DEF Flows
    <3>3. Preserved(h)'
      BY <2>1, <3>1, <3>2 DEF Preserved
    <3> QED BY <1>0, <3>3, PreservedOwn
  <2>3. CASE ~(copies[second].kind = "absent" /\ works)
    <3>1. PICK c \in {"fault", "clash"} :
            flow'[h] = [flow[h] EXCEPT !.pc = "stage", !.copy = c]
      BY <1>1, <1>6, <2>3 DEF SetAside, TypeOK
    <3>2. flow'[h].pc = "stage" /\ flow'[h].copy = c
      BY <1>1, <3>1 DEF Flows
    <3>3. Preserved(h)'
      BY <3>2 DEF Preserved
    <3> QED BY <1>0, <3>3, PreservedOwn
  <2> QED BY <2>2, <2>3
<1>7. ASSUME NEW works \in BOOLEAN, Fill(h, works) PROVE PreservedInv'
  <2> DEFINE c == IF works THEN "kept" ELSE "fault"
  <2>1. /\ flow[h].pc = "fill" /\ erased' = erased
        /\ flow'[h] = [flow[h] EXCEPT !.pc = "stage", !.copy = c]
    BY <1>7 DEF Fill, TypeOK, history
  <2>2. /\ flow'[h].pc = "stage" /\ flow'[h].copy = c
        /\ flow'[h].seen = flow[h].seen /\ flow'[h].at = flow[h].at /\ flow[h].at \in Seconds
    BY <1>1, <2>1 DEF Flows
  <2>3. ASSUME works, flow[h].at \notin erased
        PROVE  copies'[flow[h].at] = flow[h].seen
    <3>1. copies[flow[h].at] = Created(h)
      BY <1>1, <2>1, <2>3 DEF Preserved
    <3>2. copies' = [copies EXCEPT ![flow[h].at] = flow[h].seen]
      BY <1>7, <2>3, <3>1 DEF Fill
    <3> QED BY <1>1, <2>2, <3>2
  <2>4. flow[h].seen.kind # "absent"
    BY <1>1, <2>1 DEF Preserved
  <2>5. Preserved(h)'
    BY <2>1, <2>2, <2>3, <2>4 DEF Preserved
  <2> QED BY <1>0, <2>5, PreservedOwn
<1>8. ASSUME NEW works \in BOOLEAN, Stage(h, works) PROVE PreservedInv'
  <2>1. CASE works
    <3>1. /\ flow[h].pc = "stage" /\ mem' = mem /\ flow'[h].pc = "promote"
          /\ flow'[h].copy = flow[h].copy /\ flow'[h].seen = flow[h].seen
          /\ flow'[h].at = flow[h].at /\ copies' = copies /\ erased' = erased
      BY <1>1, <1>8, <2>1 DEF Stage, TypeOK, Flows, history
    <3>2. Preserved(h)'
      BY <1>1, <3>1 DEF Preserved
    <3> QED BY <1>0, <3>2, PreservedOwn
  <2>2. CASE ~works
    BY <1>0, <1>2, <1>8, <2>2, PreservedOwn DEF Stage
  <2> QED BY <2>1, <2>2
<1>9. CASE Promote(h)
  <2>1. flow'[h].pc \notin Watched
    BY <1>1, <1>9 DEF Promote, TypeOK, Flows, Idle, Watched
  <2> QED BY <2>1, NothingToKeep, <1>0, PreservedOwn
<1>10. CASE PromoteFails(h)
  BY <1>0, <1>2, <1>10, PreservedOwn DEF PromoteFails
<1>11. ASSUME NEW works \in BOOLEAN, List(h, works) PROVE PreservedInv'
  <2>1. CASE works
    <3>1. flow'[h].pc \notin Watched
      BY <1>1, <1>11, <2>1 DEF List, TypeOK, Flows, Watched
    <3> QED BY <3>1, NothingToKeep, <1>0, PreservedOwn
  <2>2. CASE ~works
    BY <1>0, <1>3, <1>11, <2>2, PreservedOwn DEF List
  <2> QED BY <2>1, <2>2
<1>12. ASSUME NEW works \in BOOLEAN, Unlink(h, works) PROVE PreservedInv'
  <2>1. flow'[h].pc \notin Watched
    BY <1>1, <1>12 DEF Unlink, TypeOK, Flows, Watched
  <2> QED BY <2>1, NothingToKeep, <1>0, PreservedOwn
<1>13. CASE Purged(h)
  BY <1>0, <1>3, <1>13, PreservedOwn DEF Purged
<1> QED
  BY <1>4, <1>5, <1>6, <1>7, <1>8, <1>9, <1>10, <1>11, <1>12, <1>13 DEF Save

LEMMA NextPreserved == TypeOK /\ PreservedInv /\ [Next]_vars => PreservedInv'
<1> SUFFICES ASSUME TypeOK, PreservedInv, [Next]_vars PROVE PreservedInv'
  OBVIOUS
<1>1. ASSUME NEW h \in Holders, Save(h) PROVE PreservedInv'
  BY <1>1, SavePreserved
<1>2. CASE UNCHANGED vars
  BY <1>2 DEF vars, PreservedInv, Preserved
<1>3. CASE Next /\ \A h \in Holders : ~Save(h)
  <2>1. UNCHANGED <<copies, erased>>
    BY <1>3, OtherCopies
  <2>2. \A h \in Holders : CopiesStay(h)
    BY <2>1 DEF CopiesStay
  <2>3. ASSUME NEW h \in Holders, flow'[h].pc \notin Watched,
               \A k \in Holders \ {h} : flow'[k] = flow[k] /\ mem'[k] = mem[k]
        PROVE  PreservedInv'
    BY <2>2, <2>3, NothingToKeep, PreservedOwn
  <2>4. ASSUME UNCHANGED <<flow, mem>> PROVE PreservedInv'
    BY <2>1, <2>4 DEF PreservedInv, Preserved
  <2>5. ASSUME NEW h \in Holders, Load(h) \/ Crash(h) PROVE PreservedInv'
    <3>1. flow'[h].pc \notin Watched
      BY <2>5 DEF Load, Crash, TypeOK, Idle, Watched
    <3>2. \A k \in Holders \ {h} : flow'[k] = flow[k] /\ mem'[k] = mem[k]
      BY <2>5 DEF Load, Crash, TypeOK
    <3> QED BY <2>3, <3>1, <3>2
  <2>6. ASSUME NEW h \in Holders, NEW op, NEW updated,
               BeginGuarded(h, op, updated) \/ BeginPlain(h, op, updated)
        PROVE  PreservedInv'
    <3>1. CASE UNCHANGED <<flow, mem>>
      BY <3>1, <2>4
    <3>2. CASE /\ mem' = [mem EXCEPT ![h].doc = updated]
               /\ flow' = [flow EXCEPT ![h] = [Idle EXCEPT !.pc = "fence", !.op = op,
                              !.before = mem[h].doc]]
      <4>1. flow'[h].pc = "fence"
        BY <3>2 DEF TypeOK, Idle
      <4>2. \A k \in Holders \ {h} : flow'[k] = flow[k] /\ mem'[k] = mem[k]
        BY <3>2 DEF TypeOK
      <4> QED BY <2>3, <4>1, <4>2 DEF Watched
    <3> QED BY <2>6, <3>1, <3>2 DEF BeginGuarded, BeginPlain
  <2>7. ASSUME NEW h \in Holders, Begin(h) PROVE PreservedInv'
    BY <2>6, <2>7 DEF Begin, IdentitySave, IdentityClear, CreatorSave, ActivateCreatorConfig,
                      Choose, PersistWindowGeometry
  <2>8. ASSUME Damage \/ Lock \/ Unlock \/ Supersede \/ Tick PROVE PreservedInv'
    BY <2>4, <2>8 DEF Damage, Lock, Unlock, Supersede, Tick
  <2> QED BY <1>3, <2>5, <2>7, <2>8 DEF Next
<1> QED BY <1>1, <1>2, <1>3

\* Bytes a save could not read are never replaced without a copy under a name of
\* its own (_preserve_unreadable_predecessor). Four things are set apart: the
\* bytes could not be read for copying, or the copy not be made; its name was
\* taken within the second; another process changed the file between the copy and
\* the replacement; an erasure removed the copy since.
THEOREM UnreadIsKept == Spec => UnreadIsPreserved
<1>1. Init => TypeOK /\ PreservedInv
  <2>1. ASSUME Init, NEW h \in Holders PROVE flow[h].pc = "closed"
    BY <2>1 DEF Init, Idle
  <2>2. Init => PreservedInv
    BY <2>1 DEF PreservedInv, Preserved
  <2> QED BY <2>2, InitTypes
<1>2. TypeOK /\ PreservedInv /\ [Next]_vars => TypeOK' /\ PreservedInv'
  BY NextTypes, NextPreserved
<1>3. ASSUME PreservedInv, NEW h \in Holders, Promote(h), flow[h].seen = file.bytes,
             file.bytes.kind # "absent",
             mem[h].state = "UNREADABLE" \/ file.bytes.kind = "torn"
      PROVE  /\ flow[h].copy # "none"
             /\ flow[h].copy = "kept" =>
                    copies[flow[h].at] = file.bytes \/ flow[h].at \in erased
  BY <1>3 DEF Promote, PreservedInv, Preserved
<1>4. TypeOK /\ PreservedInv /\ [Next]_vars =>
        [\A h \in Holders :
          (/\ Promote(h) /\ flow[h].seen = file.bytes /\ file.bytes.kind # "absent"
           /\ mem[h].state = "UNREADABLE" \/ file.bytes.kind = "torn")
            => /\ flow[h].copy # "none"
               /\ flow[h].copy = "kept" =>
                      copies[flow[h].at] = file.bytes \/ flow[h].at \in erased]_vars
  BY <1>3
<1> QED BY <1>1, <1>2, <1>4, PTL DEF Spec, UnreadIsPreserved

-----------------------------------------------------------------------------
(* An erasure.                                                             *)

\* A name nobody uses holds no address, and what is to be copied is there.
BlankInv == \A s \in Seconds : copies[s].kind = "absent" => copies[s].doc.identity = Nobody

\* What an erasure that nothing has stopped so far has left: the copies still on
\* its list, and those made since it listed the folder.
Cleared(h) ==
    (flow[h].pc = "unlink" /\ flow[h].left = 0) =>
        \A s \in Seconds \ late[h] : s \in flow[h].list \/ copies[s].kind = "absent"

ClearedInv == \A h \in Holders : Cleared(h)

\* No step makes a copy, except under a name that is then late for every erasure
\* that has listed the folder; and none is without its bytes' address.
LEMMA CopyMade ==
    ASSUME TypeOK, PreservedInv, BlankInv, Next
    PROVE  /\ BlankInv'
           /\ \A k \in Holders, s \in Seconds :
                (copies[s].kind = "absent" /\ copies'[s].kind # "absent"
                   /\ flow[k].pc = "unlink") => s \in late'[k]
<1> DEFINE Made == \A k \in Holders, s \in Seconds :
                (copies[s].kind = "absent" /\ copies'[s].kind # "absent"
                   /\ flow[k].pc = "unlink") => s \in late'[k]
<1>0. copies \in [Seconds -> Copies] /\ late \in [Holders -> SUBSET Seconds]
  BY DEF TypeOK
<1>1. ASSUME NEW h \in Holders, NEW works \in BOOLEAN, SetAside(h, works)
      PROVE  BlankInv' /\ Made
  <2>1. Created(h).kind # "absent"
    BY CopyTypes
  <2>2. CASE copies' = copies
    BY <2>2 DEF BlankInv
  <2>3. CASE /\ copies' = [copies EXCEPT ![second] = Created(h)]
             /\ late' = [k \in Holders |-> IF flow[k].pc = "unlink"
                                           THEN late[k] \cup {second} ELSE late[k]]
    BY <1>0, <2>1, <2>3 DEF BlankInv
  <2> QED BY <1>1, <2>2, <2>3 DEF SetAside
<1>2. ASSUME NEW h \in Holders, NEW works \in BOOLEAN, Fill(h, works)
      PROVE  BlankInv' /\ Made
  <2>1. flow[h].seen.kind # "absent" /\ Created(h).kind # "absent"
    BY <1>2, CopyTypes DEF Fill, PreservedInv, Preserved
  <2>2. PICK there : /\ \/ there = copies[flow[h].at]
                        \/ /\ copies[flow[h].at] = Created(h)
                           /\ there \in {flow[h].seen, Created(h), Torn(flow[h].seen.doc)}
                     /\ copies' = [copies EXCEPT ![flow[h].at] = there]
    BY <1>2 DEF Fill
  <2>3. Torn(flow[h].seen.doc).kind # "absent"
    BY DEF Torn
  <2>4. \A s \in Seconds : \/ copies'[s] = copies[s]
                           \/ copies[s].kind # "absent" /\ copies'[s].kind # "absent"
    BY <1>0, <2>1, <2>2, <2>3
  <2> QED BY <2>4 DEF BlankInv
<1>3. ASSUME NEW h \in Holders, NEW works \in BOOLEAN, Unlink(h, works)
      PROVE  BlankInv' /\ Made
  <2>1. NoCopy.kind = "absent" /\ NoCopy.doc.identity = Nobody
    BY DEF NoCopy, Absent, Defaults
  <2>2. \A s \in Seconds : copies'[s] = copies[s] \/ copies'[s] = NoCopy
    BY <1>0, <1>3 DEF Unlink
  <2> QED BY <2>1, <2>2 DEF BlankInv
<1>4. ASSUME copies' = copies PROVE BlankInv' /\ Made
  BY <1>4 DEF BlankInv
<1>5. ASSUME NEW h \in Holders, NEW works \in BOOLEAN,
             \/ CheckFence(h) \/ Inspect(h) \/ Stage(h, works) \/ Promote(h)
             \/ PromoteFails(h) \/ List(h, works) \/ Purged(h)
      PROVE  copies' = copies
  BY <1>5 DEF CheckFence, Inspect, Stage, Promote, PromoteFails, List, Purged
<1>6. ASSUME NEW h \in Holders, Save(h) PROVE BlankInv' /\ Made
  <2> HIDE DEF Made
  <2> QED BY <1>1, <1>2, <1>3, <1>4, <1>5, <1>6 DEF Save
<1>7. CASE \A h \in Holders : ~Save(h)
  BY <1>4, <1>7, OtherCopies
<1> QED BY <1>6, <1>7

\* A step that leaves an erasure's place and list alone.
LEMMA ClearedFrame ==
    ASSUME TypeOK, NEW k \in Holders, Cleared(k), flow'[k] = flow[k], late[k] \subseteq late'[k],
           \A s \in Seconds : (copies[s].kind = "absent" /\ copies'[s].kind # "absent"
                                 /\ flow[k].pc = "unlink") => s \in late'[k]
    PROVE  Cleared(k)'
  BY DEF Cleared

\* What is late stays so for those whose own step this is not.
LEMMA LateStays ==
    ASSUME TypeOK, NEW h \in Holders, Save(h), NEW k \in Holders, k # h
    PROVE  late[k] \subseteq late'[k]
<1>1. ASSUME NEW works \in BOOLEAN, SetAside(h, works) PROVE late[k] \subseteq late'[k]
  BY <1>1 DEF SetAside, TypeOK
<1>2. ASSUME NEW n, Erased(h, n) PROVE late[k] \subseteq late'[k]
  BY <1>2 DEF Erased, TypeOK
<1>3. ASSUME NEW works \in BOOLEAN, List(h, works) \/ Purged(h)
      PROVE  late[k] \subseteq late'[k]
  BY <1>2, <1>3 DEF List, Purged
<1>4. ASSUME NEW works \in BOOLEAN,
             \/ CheckFence(h) \/ Inspect(h) \/ Fill(h, works) \/ Stage(h, works)
             \/ Promote(h) \/ PromoteFails(h) \/ Unlink(h, works)
      PROVE  late' = late
  BY <1>4 DEF CheckFence, Inspect, Fill, Stage, Promote, PromoteFails, Unlink, history
<1> QED BY <1>1, <1>3, <1>4 DEF Save

LEMMA ClearedOwn ==
    ASSUME TypeOK, PreservedInv, BlankInv, ClearedInv, NEW h \in Holders, Save(h)
    PROVE  Cleared(h)'
<1>0. Cleared(h) /\ flow[h] \in Flows /\ copies \in [Seconds -> Copies]
  BY DEF ClearedInv, TypeOK
<1>1. ASSUME flow'[h].pc # "unlink" PROVE Cleared(h)'
  BY <1>1 DEF Cleared
<1>2. ASSUME Failed(h) PROVE Cleared(h)'
  BY <1>1, <1>2 DEF Failed, TypeOK, Idle
<1>3. ASSUME NEW n, Erased(h, n) PROVE Cleared(h)'
  BY <1>1, <1>3 DEF Erased, TypeOK, Idle
<1>4. CASE CheckFence(h)
  <2>1. CASE flow' = [flow EXCEPT ![h].pc = "preserve"]
    BY <1>0, <1>1, <2>1 DEF TypeOK, Flows
  <2> QED BY <1>2, <1>4, <2>1 DEF CheckFence
<1>5. CASE Inspect(h)
  BY <1>0, <1>1, <1>5 DEF Inspect, TypeOK, Flows
<1>6. ASSUME NEW works \in BOOLEAN, SetAside(h, works) PROVE Cleared(h)'
  BY <1>0, <1>1, <1>6 DEF SetAside, TypeOK, Flows
<1>7. ASSUME NEW works \in BOOLEAN, Fill(h, works) PROVE Cleared(h)'
  BY <1>0, <1>1, <1>7 DEF Fill, TypeOK, Flows
<1>8. ASSUME NEW works \in BOOLEAN, Stage(h, works) PROVE Cleared(h)'
  <2>1. CASE works
    BY <1>0, <1>1, <1>8, <2>1 DEF Stage, TypeOK, Flows
  <2> QED BY <1>2, <1>8, <2>1 DEF Stage
<1>9. CASE Promote(h)
  BY <1>0, <1>1, <1>9 DEF Promote, TypeOK, Flows, Idle
<1>10. CASE PromoteFails(h)
  BY <1>2, <1>10 DEF PromoteFails
<1>11. ASSUME NEW works \in BOOLEAN, List(h, works) PROVE Cleared(h)'
  <2>1. CASE works
    <3>1. flow'[h] = [flow[h] EXCEPT !.pc = "unlink", !.list = There] /\ copies' = copies
      BY <1>11, <2>1 DEF List, TypeOK
    <3>2. flow'[h].list = There
      BY <1>0, <3>1 DEF Flows
    <3> QED BY <3>1, <3>2 DEF Cleared, There
  <2> QED BY <1>3, <1>11, <2>1 DEF List
<1>12. ASSUME NEW works \in BOOLEAN, Unlink(h, works) PROVE Cleared(h)'
  <2>0. /\ flow[h].pc = "unlink" /\ late' = late /\ flow[h].left \in Nat
        /\ NoCopy.kind = "absent"
    BY <1>0, <1>12 DEF Unlink, Flows, NoCopy, Absent
  <2>1. PICK s \in flow[h].list :
          \/ /\ copies' = [copies EXCEPT ![s] = NoCopy]
             /\ flow' = [flow EXCEPT ![h] = [flow[h] EXCEPT !.list = flow[h].list \ {s}]]
          \/ /\ copies' = copies
             /\ flow' = [flow EXCEPT ![h] = [flow[h] EXCEPT !.list = flow[h].list \ {s},
                                                     !.left = flow[h].left + 1]]
    BY <1>12 DEF Unlink
  <2>2. CASE /\ copies' = [copies EXCEPT ![s] = NoCopy]
             /\ flow' = [flow EXCEPT ![h] = [flow[h] EXCEPT !.list = flow[h].list \ {s}]]
    <3>1. flow'[h].list = flow[h].list \ {s} /\ flow'[h].left = flow[h].left
      BY <1>0, <2>2 DEF Flows, TypeOK
    <3>2. \A z \in Seconds : copies'[z] = IF z = s THEN NoCopy ELSE copies[z]
      BY <1>0, <2>2
    <3> QED BY <1>0, <2>0, <3>1, <3>2 DEF Cleared
  <2>3. CASE flow' = [flow EXCEPT ![h] = [flow[h] EXCEPT !.list = flow[h].list \ {s},
                                                 !.left = flow[h].left + 1]]
    <3>1. flow'[h].left = flow[h].left + 1
      BY <1>0, <2>3 DEF Flows, TypeOK
    <3>2. flow'[h].left # 0
      BY <2>0, <3>1
    <3> QED BY <3>2 DEF Cleared
  <2> QED BY <2>1, <2>2, <2>3
<1>13. CASE Purged(h)
  BY <1>3, <1>13 DEF Purged
<1> QED
  BY <1>4, <1>5, <1>6, <1>7, <1>8, <1>9, <1>10, <1>11, <1>12, <1>13 DEF Save

GoneInv == BlankInv /\ ClearedInv

LEMMA NextGone == TypeOK /\ PreservedInv /\ GoneInv /\ [Next]_vars => GoneInv'
<1> SUFFICES ASSUME TypeOK, PreservedInv, GoneInv, [Next]_vars PROVE GoneInv'
  OBVIOUS
<1>1. CASE UNCHANGED vars
  BY <1>1 DEF vars, GoneInv, BlankInv, ClearedInv, Cleared
<1>2. CASE Next
  <2>0. BlankInv /\ ClearedInv
    BY DEF GoneInv
  <2>1. /\ BlankInv'
        /\ \A k \in Holders, s \in Seconds :
                (copies[s].kind = "absent" /\ copies'[s].kind # "absent"
                   /\ flow[k].pc = "unlink") => s \in late'[k]
    BY <1>2, <2>0, CopyMade
  <2>2. ASSUME NEW k \in Holders, flow'[k] = flow[k], late[k] \subseteq late'[k]
        PROVE  Cleared(k)'
    BY <2>0, <2>1, <2>2, ClearedFrame DEF ClearedInv
  <2>3. ASSUME NEW k \in Holders, flow'[k].pc # "unlink" PROVE Cleared(k)'
    BY <2>3 DEF Cleared
  <2>4. ASSUME NEW h \in Holders, Save(h) PROVE ClearedInv'
    <3>1. ASSUME NEW k \in Holders, k # h PROVE Cleared(k)'
      BY <2>2, <2>4, <3>1, SaveIsOwn, LateStays
    <3> QED BY <2>0, <2>4, <3>1, ClearedOwn DEF ClearedInv
  <2>5. ASSUME NEW h \in Holders, flow'[h].pc # "unlink",
               \A k \in Holders \ {h} : flow'[k] = flow[k] /\ late'[k] = late[k]
        PROVE  ClearedInv'
    BY <2>2, <2>3, <2>5 DEF ClearedInv
  <2>6. ASSUME UNCHANGED <<flow, late>> PROVE ClearedInv'
    BY <2>2, <2>6 DEF ClearedInv
  <2>7. ASSUME NEW h \in Holders, Load(h) \/ Crash(h) PROVE ClearedInv'
    <3>1. flow'[h].pc # "unlink"
      BY <2>7 DEF Load, Crash, TypeOK, Idle
    <3>2. \A k \in Holders \ {h} : flow'[k] = flow[k] /\ late'[k] = late[k]
      BY <2>7 DEF Load, Crash, TypeOK, history
    <3> QED BY <2>5, <3>1, <3>2
  <2>8. ASSUME NEW h \in Holders, NEW op, NEW updated,
               BeginGuarded(h, op, updated) \/ BeginPlain(h, op, updated)
        PROVE  ClearedInv'
    <3>0. late' = late
      BY <2>8 DEF BeginGuarded, BeginPlain, history
    <3>1. CASE UNCHANGED flow
      BY <3>0, <3>1, <2>6
    <3>2. CASE flow' = [flow EXCEPT ![h] = [Idle EXCEPT !.pc = "fence", !.op = op,
                              !.before = mem[h].doc]]
      <4>1. flow'[h].pc = "fence"
        BY <3>2 DEF TypeOK, Idle
      <4>2. \A k \in Holders \ {h} : flow'[k] = flow[k]
        BY <3>2 DEF TypeOK
      <4> QED BY <2>5, <3>0, <4>1, <4>2
    <3> QED BY <2>8, <3>1, <3>2 DEF BeginGuarded, BeginPlain
  <2>9. ASSUME NEW h \in Holders, Begin(h) PROVE ClearedInv'
    BY <2>8, <2>9 DEF Begin, IdentitySave, IdentityClear, CreatorSave, ActivateCreatorConfig,
                      Choose, PersistWindowGeometry
  <2>10. ASSUME Damage \/ Lock \/ Unlock \/ Supersede \/ Tick PROVE ClearedInv'
    BY <2>6, <2>10 DEF Damage, Lock, Unlock, Supersede, Tick, history
  <2>11. ClearedInv'
    BY <1>2, <2>4, <2>7, <2>9, <2>10 DEF Next
  <2> QED BY <2>1, <2>11 DEF GoneInv
<1> QED BY <1>1, <1>2

\* Only an erasure's end tells anybody that there was something to erase.
LEMMA OnlyErasedTellsGone ==
    ASSUME TypeOK, Next, NEW h \in Holders, told'[h] # told[h], told'[h].had,
           told'[h].remaining = 0
    PROVE  Purged(h)
<1>1. /\ ~NotTold.had
      /\ \A op : ~[NotTold EXCEPT !.op = op].had
      /\ \A op : ~[NotTold EXCEPT !.op = op, !.ok = TRUE].had
  BY DEF NotTold
<1>2. ASSUME NEW k \in Holders, Failed(k) PROVE FALSE
  BY <1>1, <1>2 DEF Failed, TypeOK
<1>3. ASSUME NEW k \in Holders, Begin(k) PROVE FALSE
  <2>1. ASSUME NEW op, NEW updated,
               BeginGuarded(k, op, updated) \/ BeginPlain(k, op, updated)
        PROVE  FALSE
    BY <1>1, <2>1 DEF BeginGuarded, BeginPlain, TypeOK
  <2> QED BY <1>3, <2>1 DEF Begin, IdentitySave, IdentityClear, CreatorSave,
                            ActivateCreatorConfig, Choose, PersistWindowGeometry
<1>4. ASSUME NEW k \in Holders, Save(k) PROVE Purged(h)
  <2>1. CASE CheckFence(k)
    BY <1>2, <2>1 DEF CheckFence
  <2>2. ASSUME NEW works \in BOOLEAN, Stage(k, works) PROVE FALSE
    BY <1>2, <2>2 DEF Stage
  <2>3. CASE Promote(k)
    <3>1. \/ told' = told
          \/ told' = [told EXCEPT ![k] = [NotTold EXCEPT !.op = flow[k].op, !.ok = TRUE]]
      BY <2>3 DEF Promote
    <3> QED BY <1>1, <3>1 DEF TypeOK
  <2>4. CASE PromoteFails(k)
    BY <1>2, <2>4 DEF PromoteFails
  <2>5. ASSUME NEW works \in BOOLEAN,
               Inspect(k) \/ SetAside(k, works) \/ Fill(k, works) \/ Unlink(k, works)
        PROVE  FALSE
    BY <2>5 DEF Inspect, SetAside, Fill, Unlink
  <2>6. ASSUME NEW works \in BOOLEAN, List(k, works) PROVE FALSE
    <3>1. told' = told \/ told'[h] = told[h] \/ told'[h].remaining = 1
      BY <2>6 DEF List, Erased, TypeOK
    <3> QED BY <3>1
  <2>7. CASE Purged(k)
    <3>1. k = h
      BY <2>7 DEF Purged, Erased, TypeOK
    <3> QED BY <2>7, <3>1
  <2> QED BY <1>4, <2>1, <2>2, <2>3, <2>4, <2>5, <2>6, <2>7 DEF Save
<1>5. ASSUME NEW k \in Holders, Load(k) \/ Crash(k) PROVE FALSE
  BY <1>1, <1>5 DEF Load, Crash, TypeOK
<1>6. ASSUME Damage \/ Lock \/ Unlock \/ Supersede \/ Tick PROVE FALSE
  BY <1>6 DEF Damage, Lock, Unlock, Supersede, Tick
<1> QED BY <1>3, <1>4, <1>5, <1>6 DEF Next

\* An erasure that says it is complete left the address in no copy that anybody
\* had begun to set aside when it listed the folder (identity_clear,
\* _purge_quarantined_settings); a copy made after the listing is not looked for.
THEOREM ErasedEverywhere == Spec => ToldGoneIsGone
<1>1. Init => TypeOK /\ PreservedInv /\ GoneInv
  <2>1. ASSUME Init, NEW h \in Holders PROVE flow[h].pc = "closed"
    BY <2>1 DEF Init, Idle
  <2>2. Init => PreservedInv /\ ClearedInv
    BY <2>1 DEF PreservedInv, Preserved, ClearedInv, Cleared
  <2>3. Init => BlankInv
    <3>1. NoCopy.doc.identity = Nobody
      BY DEF NoCopy, Absent, Defaults
    <3>2. ASSUME Init, NEW s \in Seconds PROVE copies[s] = NoCopy
      BY <3>2 DEF Init
    <3> QED BY <3>1, <3>2 DEF BlankInv
  <2> QED BY <2>2, <2>3, InitTypes DEF GoneInv
<1>2. TypeOK /\ PreservedInv /\ GoneInv /\ [Next]_vars
        => TypeOK' /\ PreservedInv' /\ GoneInv'
  BY NextTypes, NextPreserved, NextGone
<1>3. ASSUME TypeOK, GoneInv, Next, NEW h \in Holders,
             told'[h] # told[h], told'[h].had, told'[h].remaining = 0
      PROVE  \A s \in Seconds \ late[h] : copies'[s].doc.identity = Nobody
  <2>1. Purged(h)
    BY <1>3, OnlyErasedTellsGone
  <2>2. told'[h].remaining = flow[h].left
    BY <1>3, <2>1 DEF Purged, Erased, TypeOK
  <2>3. flow[h].pc = "unlink" /\ flow[h].list = {} /\ flow[h].left = 0 /\ copies' = copies
    BY <1>3, <2>1, <2>2 DEF Purged
  <2>4. \A s \in Seconds \ late[h] : copies[s].kind = "absent"
    BY <1>3, <2>3 DEF GoneInv, ClearedInv, Cleared
  <2> QED BY <1>3, <2>3, <2>4 DEF GoneInv, BlankInv
<1>4. TypeOK /\ GoneInv /\ [Next]_vars =>
        [\A h \in Holders :
          (told'[h] # told[h] /\ told'[h].had /\ told'[h].remaining = 0)
            => \A s \in Seconds \ late[h] : copies'[s].doc.identity = Nobody]_vars
  BY <1>3
<1> QED BY <1>1, <1>2, <1>4, PTL DEF Spec, ToldGoneIsGone

-----------------------------------------------------------------------------
(* The mapping's authoring, which writes the same settings (Creator).      *)

Drafts == Own \cup {NoSis}
Forms == [base : Bases \cup {"full"}, renames : [Files -> Names]]
Choices == [Files -> Names \cup {Unset, Keep}]
MappingDocs == [sis : Own \cup {Shipped}, pending : Drafts, verified : [Own -> Contents]]
Blanks == [sis : Own \cup {Shipped, NoSis}, pending : Drafts, verified : [Own -> Contents]]

Mounts == [doc : MappingDocs, shown : Own \cup {Shipped}, resume : Drafts,
           pick : Own \cup {Shipped}, refused : Own \cup {NoSis}, listed : SUBSET Own]

Panels ==
    [sis : Drafts, stage : {"forms", "files"}, form : Forms, rows : Choices, doc : Blanks,
     gate : {"not run", "running", "passed", "failed", "refused"},
     job : {"none", "started", "read"}, seen : Contents, divergent : SUBSET Files,
     already : BOOLEAN, armed : BOOLEAN, done : BOOLEAN]

MappingTypeOK ==
    /\ overlay \in [Own -> Contents]
    /\ disk \in MappingDocs
    /\ screen \in {"away", "view", "panel"}
    /\ mount \in Mounts
    /\ panel \in Panels
    /\ screen = "panel" => panel.doc \in MappingDocs
    /\ panel.stage = "files" => panel.sis \in Own
    /\ passed \subseteq Own \X Contents
    /\ touched \subseteq {"rows", "test"}
    /\ others \in BOOLEAN

\* What a test read is what the mapping says, unless it was written from
\* elsewhere since.
TestInv ==
    /\ panel.job # "none" => panel.stage = "files" /\ panel.gate = "running"
    /\ panel.gate = "passed" => <<panel.sis, panel.seen>> \in passed
    /\ panel.job = "read" \/ panel.gate = "passed" =>
         panel.seen = overlay[panel.sis] \/ "test" \in touched

\* The form gives a file the name every place of the mapping gives it, a refused
\* one apart.
Matches(content, form) ==
    \A s \in DOMAIN content.at : form.renames[FileOf[s]] = Taken(content.at[s], FileOf[s])

\* What a panel read of its mapping, and has not been written elsewhere since.
Read == IF panel.sis = NoSis THEN Gone ELSE overlay[panel.sis]

RowsInv ==
    panel.stage = "files" /\ "rows" \notin touched =>
        /\ panel.divergent = Divergent(Read)
        /\ panel.divergent = {} /\ overlay[panel.sis] # Gone =>
             Matches(overlay[panel.sis], panel.form)

MappingInv == MappingTypeOK /\ TestInv /\ RowsInv

-----------------------------------------------------------------------------

LEMMA SiteFacts ==
    /\ \A base : SitesOf(base) \subseteq Sites /\ FilesOf(base) \subseteq Files
    /\ FileOf \in [Sites -> Files]
    /\ \A s \in Sites : FileOf[s] = IF s = "students" THEN "demographics" ELSE "schedule"
  BY DEF SitesOf, Sites, FilesOf, Files, FileOf

LEMMA ContentFacts ==
    /\ Gone \in Contents
    /\ DOMAIN Gone.at = {}
    /\ \A base \in Bases \cup {"full"} : \A at :
         at \in [SitesOf(base) -> Names] => [base |-> base, at |-> at] \in Contents
    /\ \A content \in Contents : content # Gone =>
         /\ content.base \in Bases \cup {"full"}
         /\ content.at \in [SitesOf(content.base) -> Names]
<1>1. Gone \in Contents /\ DOMAIN Gone.at = {}
  BY DEF Contents, Gone
<1>2. ASSUME NEW base \in Bases \cup {"full"}, NEW at \in [SitesOf(base) -> Names]
      PROVE  [base |-> base, at |-> at] \in Contents
  <2>1. [base |-> base, at |-> at] \in [base : {base}, at : [SitesOf(base) -> Names]]
    OBVIOUS
  <2> QED BY <2>1 DEF Contents
<1>3. ASSUME NEW content \in Contents, content # Gone
      PROVE  /\ content.base \in Bases \cup {"full"}
             /\ content.at \in [SitesOf(content.base) -> Names]
  BY <1>3 DEF Contents
<1> QED BY <1>1, <1>2, <1>3

LEMMA FormFacts ==
    /\ NewForm \in Forms
    /\ \A form \in Forms :
         /\ BuildOverlay(form) \in Contents
         /\ Writable(form) => Matches(BuildOverlay(form), form)
         /\ RowsFor(form.renames) \in Choices
         /\ \A base \in Bases : [form EXCEPT !.base = base] \in Forms
    /\ RowsFor(Standard) \in Choices
<1>1. Standard \in [Files -> Names]
  BY DEF Standard, Names
<1>2. NewForm \in Forms /\ RowsFor(Standard) \in Choices
  BY <1>1 DEF NewForm, Forms, RowsFor, Choices
<1>3. ASSUME NEW form \in Forms
      PROVE  /\ BuildOverlay(form) \in Contents
             /\ Writable(form) => Matches(BuildOverlay(form), form)
  <2>1. /\ form.base \in Bases \cup {"full"}
        /\ form.renames \in [Files -> Names]
    BY DEF Forms
  <2>2. [s \in SitesOf(form.base) |-> form.renames[FileOf[s]]] \in [SitesOf(form.base) -> Names]
    BY <2>1, SiteFacts
  <2>3. BuildOverlay(form) \in Contents
    BY <2>1, <2>2, ContentFacts DEF BuildOverlay
  <2>4. ASSUME Writable(form) PROVE Matches(BuildOverlay(form), form)
    <3>1. \A f \in Files : form.renames[f] # f => form.renames[f] # Unusable
      BY <2>4 DEF Writable, Renames
    <3>2. \A f \in Files : f # Unusable
      BY DEF Files, Unusable
    <3>3. \A s \in SitesOf(form.base) : FileOf[s] \in Files
      BY SiteFacts
    <3> QED BY <3>1, <3>2, <3>3 DEF Matches, BuildOverlay, Taken
  <2> QED BY <2>3, <2>4
<1>4. ASSUME NEW form \in Forms
      PROVE  /\ RowsFor(form.renames) \in Choices
             /\ \A base \in Bases : [form EXCEPT !.base = base] \in Forms
  BY DEF Forms, RowsFor, Choices
<1> QED BY <1>2, <1>3, <1>4

\* A file that is named in one way is found under that name.
LEMMA FirstSeenFacts ==
    ASSUME NEW content \in Contents, content # Gone
    PROVE  /\ \A f \in Files : FirstSeen(content, f) \in Names
           /\ Divergent(content) = {} =>
                \A s \in DOMAIN content.at : content.at[s] = FirstSeen(content, FileOf[s])
<1> DEFINE dom == SitesOf(content.base)
<1>1. /\ content.at \in [dom -> Names] /\ dom = DOMAIN content.at
      /\ dom \in {Sites, {"students"}}
  BY ContentFacts DEF SitesOf
<1>2. \A f \in Files : NamesOf(content, f) = {content.at[s] : s \in {t \in dom : FileOf[t] = f}}
  BY <1>1 DEF NamesOf
<1>3. \A f \in Files : NamesOf(content, f) \subseteq Names
  BY <1>1, <1>2
<1>4. Files \subseteq Names
  BY DEF Names
<1>5. ASSUME NEW f \in Files PROVE FirstSeen(content, f) \in Names
  <2> DEFINE own == NamesOf(content, f) \ {f}
             site == IF f = "demographics" THEN "students" ELSE "classes"
  <2>1. CASE own = {}
    BY <2>1, <1>4 DEF FirstSeen
  <2>2. CASE own # {}
    <3>1. site \in dom
      <4>1. PICK s \in dom : FileOf[s] = f
        BY <2>2, <1>2
      <4> QED BY <4>1, <1>1, SiteFacts DEF Sites
    <3>2. content.at[site] \in Names
      BY <3>1, <1>1
    <3>3. (CHOOSE n \in own : TRUE) \in own
      BY <2>2
    <3>4. \/ FirstSeen(content, f) = content.at[site]
          \/ FirstSeen(content, f) = CHOOSE n \in own : TRUE
      BY <2>2 DEF FirstSeen
    <3> QED BY <3>2, <3>3, <3>4, <1>3
  <2> QED BY <2>1, <2>2
<1>6. ASSUME Divergent(content) = {}, NEW s \in dom
      PROVE  content.at[s] = FirstSeen(content, FileOf[s])
  <2> DEFINE f == FileOf[s]
             own == NamesOf(content, f) \ {f}
             site == IF f = "demographics" THEN "students" ELSE "classes"
  <2>1. f \in Files /\ content.at[s] \in NamesOf(content, f)
    BY <1>1, <1>2, SiteFacts
  <2>3. \A n \in NamesOf(content, f) : n = content.at[s]
    BY <2>1, <1>6 DEF Divergent
  <2>4. CASE content.at[s] = f
    BY <2>4, <2>3 DEF FirstSeen
  <2>5. CASE content.at[s] # f
    <3>1. own = {content.at[s]}
      BY <2>5, <2>1, <2>3
    <3>2. site \in dom /\ FileOf[site] = f
      BY <1>1, SiteFacts DEF Sites
    <3>3. content.at[site] \in NamesOf(content, f)
      BY <3>2, <2>1, <1>2
    <3> QED BY <3>1, <3>3, <2>3, <2>5 DEF FirstSeen
  <2> QED BY <2>4, <2>5
<1> QED BY <1>1, <1>5, <1>6

-----------------------------------------------------------------------------
(* The values the actions build.                                           *)

LEMMA DocFacts ==
    ASSUME NEW doc \in MappingDocs, NEW there \in [Own -> Contents]
    PROVE  /\ \A token \in Drafts : WithToken(doc, token, there) \in MappingDocs
           /\ \A d \in Own : Activated(doc, d, there) \in MappingDocs
<1>1. PrunedDigests(doc.verified, there) \in [Own -> Contents]
  BY ContentFacts DEF PrunedDigests, MappingDocs
<1>2. ASSUME NEW token \in Drafts PROVE WithToken(doc, token, there) \in MappingDocs
  BY <1>1 DEF WithToken, MappingDocs
<1>3. ASSUME NEW d \in Own PROVE Activated(doc, d, there) \in MappingDocs
  <2>1. [PrunedDigests(doc.verified, there) EXCEPT ![d] = there[d]] \in [Own -> Contents]
    BY <1>1
  <2> QED BY <2>1 DEF Activated, MappingDocs, Drafts
<1> QED BY <1>2, <1>3

LEMMA NoPanelFacts ==
    /\ NoPanel \in Panels
    /\ NoPanel.stage = "forms" /\ NoPanel.gate = "not run" /\ NoPanel.job = "none"
    /\ NoPanel.sis = NoSis /\ NoPanel.form = NewForm
<1>1. [sis |-> NoSis, pending |-> NoSis, verified |-> [d \in Own |-> Gone]] \in Blanks
  BY ContentFacts DEF Blanks, Drafts
<1> QED BY <1>1, FormFacts, ContentFacts DEF NoPanel, Panels, Drafts

LEMMA MountedFacts ==
    ASSUME NEW p \in Panels, NEW there \in [Own -> Contents]
    PROVE  /\ Mounted(p, there) \in Panels
           /\ Mounted(p, there).sis = p.sis /\ Mounted(p, there).stage = p.stage
           /\ Mounted(p, there).form = p.form /\ Mounted(p, there).doc = p.doc
           /\ Mounted(p, there).gate = "not run" /\ Mounted(p, there).job = "none"
           /\ Mounted(p, there).divergent =
                Divergent(IF p.sis = NoSis THEN Gone ELSE there[p.sis])
<1> DEFINE content == IF p.sis = NoSis THEN Gone ELSE there[p.sis]
           rows == IF p.rows = RowsFor(Standard) THEN RowsFor(p.form.renames) ELSE p.rows
           already == p.sis # NoSis /\ content # Gone
                      /\ p.doc.verified[p.sis] = content
           done == p.stage = "files" /\ already /\ Renamed(rows) = p.form.renames
<1>1. rows \in Choices
  BY FormFacts DEF Panels
<1>2. Divergent(content) \in SUBSET Files
  BY DEF Divergent
<1>3. already \in BOOLEAN /\ done \in BOOLEAN
  OBVIOUS
<1>4. Mounted(p, there) =
        [p EXCEPT !.rows = rows, !.gate = "not run", !.job = "none", !.seen = Gone,
                  !.divergent = Divergent(content), !.already = already, !.armed = FALSE,
                  !.done = done]
  BY DEF Mounted
<1> HIDE DEF rows, already, done, content
<1>5. /\ Mounted(p, there) \in Panels
      /\ Mounted(p, there).sis = p.sis /\ Mounted(p, there).stage = p.stage
      /\ Mounted(p, there).form = p.form /\ Mounted(p, there).doc = p.doc
      /\ Mounted(p, there).gate = "not run" /\ Mounted(p, there).job = "none"
      /\ Mounted(p, there).divergent = Divergent(content)
  BY <1>1, <1>2, <1>3, <1>4, ContentFacts DEF Panels
<1> QED BY <1>5 DEF content

\* The host shows the Mapping screen again, and the panel is gone.
LEMMA ViewFacts ==
    ASSUME NEW m \in Mounts, NEW written \in MappingDocs, NEW there \in [Own -> Contents],
           NEW works \in BOOLEAN, View(m, written, there, works)
    PROVE  /\ disk' \in MappingDocs /\ mount' \in Mounts /\ mount'.shown = m.shown
           /\ screen' = "view" /\ panel' = NoPanel /\ touched' = {}
<1> DEFINE healed == WithToken(m.doc, NoSis, there)
           stale == Orphaned(m.doc, there)
<1>1. healed \in MappingDocs /\ m.doc \in MappingDocs
  BY DocFacts DEF Mounts, Drafts
<1>2. disk' = (IF stale /\ works THEN healed ELSE written) /\ disk' \in MappingDocs
  BY <1>1 DEF View
<1>3. {d \in Own : there[d] # Gone} \in SUBSET Own
  OBVIOUS
<1>4. (IF stale THEN InMemory(m.doc, healed, works) ELSE m.doc) \in MappingDocs
  BY <1>1 DEF InMemory
<1>5. (IF stale THEN NoSis ELSE m.doc.pending) \in Drafts
  BY <1>1 DEF MappingDocs, Drafts
<1>6. mount' = [m EXCEPT !.doc = IF stale THEN InMemory(m.doc, healed, works) ELSE m.doc,
                   !.resume = IF stale THEN NoSis ELSE m.doc.pending,
                   !.pick = m.shown, !.refused = NoSis,
                   !.listed = {d \in Own : there[d] # Gone}]
  BY DEF View
<1> HIDE DEF healed, stale
<1>7. mount' \in Mounts /\ mount'.shown = m.shown
  BY <1>3, <1>4, <1>5, <1>6 DEF Mounts
<1> QED BY <1>2, <1>7 DEF View

-----------------------------------------------------------------------------
(* Every step keeps the invariant.                                         *)

LEMMA MappingInitInv == CreatorInit => MappingInv
<1> SUFFICES ASSUME CreatorInit PROVE MappingInv
  OBVIOUS
<1>0. PICK d \in Own, e \in Own, old \in BOOLEAN :
         /\ overlay = [c \in Own |-> IF old /\ c \in {d, e} THEN Fresh ELSE Gone]
         /\ disk = [sis |-> IF old THEN d ELSE Shipped,
                    pending |-> IF old THEN e ELSE NoSis,
                    verified |-> [c \in Own |-> IF old /\ c = d THEN Fresh ELSE Gone]]
         /\ passed = IF old THEN {<<d, Fresh>>} ELSE {}
  BY DEF CreatorInit
<1>1. Fresh \in Contents
  BY FormFacts DEF Fresh
<1>2. overlay \in [Own -> Contents] /\ passed \subseteq Own \X Contents
  BY <1>0, <1>1, ContentFacts
<1>3. disk \in MappingDocs
  BY <1>0, <1>1, ContentFacts DEF MappingDocs, Drafts
<1>4. mount \in Mounts
  BY <1>3 DEF CreatorInit, Mounts, MappingDocs, Drafts
<1> QED BY <1>2, <1>3, <1>4, NoPanelFacts
        DEF CreatorInit, MappingInv, MappingTypeOK, TestInv, RowsInv, Read

\* Where the panel is gone there is nothing to keep of it.
LEMMA PanelClosed ==
    ASSUME MappingTypeOK, panel' = NoPanel, screen' \in {"away", "view"},
           overlay' \in [Own -> Contents], disk' \in MappingDocs, mount' \in Mounts,
           passed' = passed, touched' = {}, others' \in BOOLEAN
    PROVE  MappingInv'
  BY NoPanelFacts DEF MappingInv, MappingTypeOK, TestInv, RowsInv, Read

LEMMA HostSteps ==
    ASSUME MappingInv, Leave \/ Apply \/ (\E works \in BOOLEAN : OpenMapping(works))
                \/ (\E d \in Own \cup {Shipped} : Pick(d))
    PROVE  MappingInv'
<1> USE DEF MappingInv
<1>1. ASSUME NEW works \in BOOLEAN, OpenMapping(works) PROVE MappingInv'
  <2>1. [mount EXCEPT !.doc = disk, !.shown = disk.sis] \in Mounts
    BY DEF MappingTypeOK, Mounts, MappingDocs
  <2>2. overlay \in [Own -> Contents] /\ disk \in MappingDocs
    BY DEF MappingTypeOK
  <2> QED BY <1>1, <2>1, <2>2, ViewFacts, PanelClosed DEF OpenMapping
<1>2. CASE Leave
  BY <1>2, PanelClosed DEF Leave, MappingTypeOK
<1>3. ASSUME NEW d \in Own \cup {Shipped}, Pick(d) PROVE MappingInv'
  <2>1. mount' \in Mounts
    BY <1>3 DEF Pick, MappingTypeOK, Mounts
  <2> QED BY <1>3, <2>1 DEF Pick, MappingTypeOK, TestInv, RowsInv, Read
<1>4. CASE Apply
  <2>1. mount.pick \in Own \cup {Shipped} /\ mount.refused \in Own \cup {NoSis}
    BY DEF MappingTypeOK, Mounts
  <2>2. disk' \in MappingDocs /\ mount' \in Mounts
    <3>1. CASE ActivationAllowed(disk, mount.pick)
      BY <1>4, <2>1, <3>1 DEF Apply, MappingTypeOK, MappingDocs, Mounts
    <3>2. CASE ~ActivationAllowed(disk, mount.pick)
      BY <1>4, <2>1, <3>2 DEF Apply, MappingTypeOK, MappingDocs, Mounts, ActivationAllowed
    <3> QED BY <3>1, <3>2
  <2> QED BY <1>4, <2>2 DEF Apply, MappingTypeOK, TestInv, RowsInv, Read
<1> QED BY <1>1, <1>2, <1>3, <1>4

LEMMA OpenSteps ==
    ASSUME MappingInv, NEW d \in Own \cup {NoSis}, NEW stage \in {"forms", "files"},
           OpenPanel(d, stage)
    PROVE  MappingInv'
<1> DEFINE content == IF d = NoSis THEN Gone ELSE overlay[d]
           p == [NoPanel EXCEPT !.sis = d, !.stage = stage, !.form = FormOf(content), !.doc = disk]
<1>1. content \in Contents /\ (d # NoSis => d \in Own /\ content = overlay[d])
  BY ContentFacts DEF MappingInv, MappingTypeOK
<1>2. stage = "files" => d # NoSis
  BY DEF OpenPanel, Door
<1>3. FormOf(content) \in Forms
  <2>1. CASE content = Gone
    BY <2>1, FormFacts DEF FormOf
  <2>2. CASE content # Gone
    <3>1. \A f \in Files : Taken(FirstSeen(content, f), f) \in Names
      BY <1>1, <2>2, FirstSeenFacts DEF Taken, Names
    <3> QED BY <1>1, <2>2, <3>1, ContentFacts DEF FormOf, Forms
  <2> QED BY <2>1, <2>2
<1>4. content # Gone /\ Divergent(content) = {} => Matches(content, FormOf(content))
  <2> SUFFICES ASSUME content # Gone, Divergent(content) = {}
               PROVE  Matches(content, FormOf(content))
    OBVIOUS
  <2>1. DOMAIN content.at \subseteq Sites
    BY <1>1, ContentFacts, SiteFacts
  <2>2. \A s \in DOMAIN content.at : content.at[s] = FirstSeen(content, FileOf[s])
    BY <1>1, FirstSeenFacts
  <2> QED BY <2>1, <2>2, SiteFacts DEF Matches, FormOf
<1>5. disk \in MappingDocs /\ MappingDocs \subseteq Blanks
  BY DEF MappingInv, MappingTypeOK, MappingDocs, Blanks
<1>6. p \in Panels /\ p.sis = d /\ p.stage = stage /\ p.form = FormOf(content) /\ p.doc = disk
  <2> HIDE DEF content
  <2> QED BY <1>3, <1>5, NoPanelFacts DEF Panels, Drafts
<1>7. panel' = Mounted(p, overlay) /\ touched' = {} /\ others' = FALSE /\ screen' = "panel"
      /\ UNCHANGED <<overlay, disk, mount, passed, left>>
  BY DEF OpenPanel
<1> HIDE DEF p, content
<1>8. /\ panel' \in Panels /\ panel'.sis = d /\ panel'.stage = stage
      /\ panel'.form = FormOf(content) /\ panel'.doc = disk
      /\ panel'.gate = "not run" /\ panel'.job = "none"
      /\ panel'.divergent = Divergent(IF d = NoSis THEN Gone ELSE overlay[d])
  BY <1>6, <1>7, MountedFacts DEF MappingInv, MappingTypeOK
<1>9. MappingTypeOK'
  BY <1>1, <1>2, <1>5, <1>7, <1>8 DEF MappingInv, MappingTypeOK
<1>10. TestInv'
  BY <1>8 DEF TestInv
<1>11. RowsInv'
  BY <1>1, <1>2, <1>4, <1>7, <1>8 DEF RowsInv, Read, content
<1> QED BY <1>9, <1>10, <1>11 DEF MappingInv

LEMMA BackSteps ==
    ASSUME MappingInv, NEW works \in BOOLEAN, PanelBack(works)
    PROVE  MappingInv'
<1> USE DEF MappingInv
<1>1. CASE panel.done /\ HasUnsavedRenames(panel)
  <2>1. panel' = Mounted(panel, overlay)
        /\ UNCHANGED <<screen, disk, mount, touched, overlay, passed, others>>
    BY <1>1 DEF PanelBack
  <2>2. /\ panel' \in Panels /\ panel'.sis = panel.sis /\ panel'.stage = panel.stage
        /\ panel'.form = panel.form /\ panel'.doc = panel.doc
        /\ panel'.gate = "not run" /\ panel'.job = "none"
        /\ panel'.divergent = Divergent(IF panel.sis = NoSis THEN Gone ELSE overlay[panel.sis])
    BY <2>1, MountedFacts DEF MappingTypeOK
  <2>3. MappingTypeOK' /\ TestInv'
    BY <2>1, <2>2 DEF MappingTypeOK, TestInv
  <2>4. RowsInv'
    BY <2>1, <2>2 DEF RowsInv, Read
  <2> QED BY <2>3, <2>4
<1>2. CASE ~(panel.done /\ HasUnsavedRenames(panel))
  <2>1. View(mount, disk, overlay, works) /\ UNCHANGED <<overlay, passed, others>>
    BY <1>2 DEF PanelBack
  <2> QED BY <2>1, ViewFacts, PanelClosed DEF MappingTypeOK
<1> QED BY <1>1, <1>2

LEMMA WriteSteps ==
    ASSUME MappingInv,
           (\E d \in Own, base \in Bases, tidied, works \in BOOLEAN :
               Continue(d, base, tidied, works)) \/ SaveNames
    PROVE  MappingInv'
<1>1. ASSUME NEW d \in Own, NEW base \in Bases, NEW tidied \in BOOLEAN, NEW works \in BOOLEAN,
             Continue(d, base, tidied, works)
      PROVE  MappingInv'
  <2> DEFINE form == [panel.form EXCEPT !.base = base]
             old == panel.sis
             there == [c \in Own |->
                CASE c = d -> BuildOverlay(form)
                  [] c # d /\ c = old /\ tidied -> Gone
                  [] OTHER -> overlay[c]]
             doc == WithToken(panel.doc, d, there)
             p == [panel EXCEPT !.sis = d, !.form = form, !.stage = "files",
                                !.doc = InMemory(panel.doc, doc, works)]
  <2>1. form \in Forms
    BY FormFacts DEF MappingInv, MappingTypeOK, Panels
  <2>2. there \in [Own -> Contents] /\ there[d] = BuildOverlay(form)
    BY <2>1, FormFacts, ContentFacts DEF MappingInv, MappingTypeOK
  <2>3. doc \in MappingDocs /\ panel.doc \in MappingDocs /\ MappingDocs \subseteq Blanks
    BY <1>1, <2>2, DocFacts DEF Continue, MappingInv, MappingTypeOK, Drafts, MappingDocs, Blanks
  <2>4. InMemory(panel.doc, doc, works) \in MappingDocs
    BY <2>3 DEF InMemory
  <2>5. /\ p \in Panels /\ p.sis = d /\ p.stage = "files" /\ p.form = form
        /\ p.doc = InMemory(panel.doc, doc, works)
    <3> HIDE DEF form, doc
    <3> QED BY <2>1, <2>3, <2>4 DEF MappingInv, MappingTypeOK, Panels, Drafts
  <2>6. /\ overlay' = there /\ disk' = (IF works THEN doc ELSE disk)
        /\ panel' = Mounted(p, there) /\ touched' = {}
        /\ UNCHANGED <<screen, mount, passed, others>> /\ screen = "panel"
    BY <1>1 DEF Continue
  <2>7. Matches(there[d], form)
    BY <1>1, <2>1, <2>2, FormFacts DEF Continue
  <2> HIDE DEF p, there, doc, form
  <2>8. /\ panel' \in Panels /\ panel'.sis = d /\ panel'.stage = "files"
        /\ panel'.form = form /\ panel'.doc \in MappingDocs
        /\ panel'.gate = "not run" /\ panel'.job = "none"
        /\ panel'.divergent = Divergent(IF d = NoSis THEN Gone ELSE there[d])
    BY <2>2, <2>4, <2>5, <2>6, MountedFacts
  <2>9. MappingTypeOK'
    BY <2>2, <2>3, <2>6, <2>8 DEF MappingInv, MappingTypeOK
  <2>10. TestInv' /\ RowsInv'
    BY <2>6, <2>7, <2>8 DEF TestInv, RowsInv, Read
  <2> QED BY <2>9, <2>10 DEF MappingInv
<1>2. CASE SaveNames
  <2> DEFINE form == [panel.form EXCEPT !.renames = Renamed(panel.rows)]
             there == [overlay EXCEPT ![panel.sis] = BuildOverlay(form)]
             p == [panel EXCEPT !.form = form, !.rows = RowsFor(form.renames)]
  <2>1. panel.sis \in Own /\ panel.stage = "files"
    BY <1>2 DEF SaveNames, MappingInv, MappingTypeOK
  <2>2. Renamed(panel.rows) \in [Files -> Names]
    BY DEF Renamed, MappingInv, MappingTypeOK, Panels, Choices, Names
  <2>3. form \in Forms
    BY <2>2 DEF MappingInv, MappingTypeOK, Panels, Forms
  <2>4. there \in [Own -> Contents] /\ there[panel.sis] = BuildOverlay(form)
    BY <2>1, <2>3, FormFacts DEF MappingInv, MappingTypeOK
  <2>5. p \in Panels /\ p.sis = panel.sis /\ p.stage = "files" /\ p.form = form /\ p.doc = panel.doc
    <3> HIDE DEF form
    <3> QED BY <2>1, <2>3, FormFacts DEF MappingInv, MappingTypeOK, Panels
  <2>6. /\ overlay' = there /\ panel' = Mounted(p, there) /\ touched' = {}
        /\ UNCHANGED <<disk, screen, mount, passed, others>>
    BY <1>2 DEF SaveNames
  <2>7. Matches(there[panel.sis], form)
    BY <1>2, <2>3, <2>4, FormFacts DEF SaveNames
  <2> HIDE DEF p, there, form
  <2>8. /\ panel' \in Panels /\ panel'.sis = panel.sis /\ panel'.stage = "files"
        /\ panel'.form = form /\ panel'.doc = panel.doc
        /\ panel'.gate = "not run" /\ panel'.job = "none"
        /\ panel'.divergent = Divergent(IF panel.sis = NoSis THEN Gone ELSE there[panel.sis])
    <3>1. panel' = Mounted(p, there)
      BY <2>6
    <3>2. p \in Panels /\ there \in [Own -> Contents]
      BY <2>4, <2>5
    <3>3. /\ Mounted(p, there) \in Panels
          /\ Mounted(p, there).sis = p.sis /\ Mounted(p, there).stage = p.stage
          /\ Mounted(p, there).form = p.form /\ Mounted(p, there).doc = p.doc
          /\ Mounted(p, there).gate = "not run" /\ Mounted(p, there).job = "none"
          /\ Mounted(p, there).divergent =
               Divergent(IF p.sis = NoSis THEN Gone ELSE there[p.sis])
      BY <3>2, MountedFacts
    <3> QED BY <3>1, <3>3, <2>5
  <2>9. MappingTypeOK'
    BY <2>1, <2>4, <2>6, <2>8 DEF MappingInv, MappingTypeOK
  <2>10. TestInv' /\ RowsInv'
    BY <2>6, <2>7, <2>8 DEF TestInv, RowsInv, Read
  <2> QED BY <2>9, <2>10 DEF MappingInv
<1> QED BY <1>1, <1>2

\* A step that leaves the mapping and its reading alone.
LEMMA PanelSteps ==
    ASSUME MappingInv,
           (\E f \in Files, name \in OwnNames \cup Files \cup {Keep, Unusable} : Name(f, name))
             \/ RunGate \/ GateReads \/ (\E outcome \in Outcomes : GateEnds(outcome))
             \/ Discard \/ DiscardCancelled
    PROVE  MappingInv'
<1> USE DEF MappingInv
<1>1. ASSUME NEW f \in Files, NEW name \in OwnNames \cup Files \cup {Keep, Unusable}, Name(f, name)
      PROVE  MappingInv'
  <2>1. [panel.rows EXCEPT ![f] = name] \in Choices
    BY DEF MappingTypeOK, Panels, Choices, Names
  <2>2. panel' = [panel EXCEPT !.rows = [panel.rows EXCEPT ![f] = name]]
    BY <1>1 DEF Name
  <2>3. panel' \in Panels /\ panel' = [panel EXCEPT !.rows = panel'.rows]
    BY <2>1, <2>2 DEF MappingTypeOK, Panels
  <2> QED BY <1>1, <2>3 DEF Name, MappingTypeOK, Panels, TestInv, RowsInv, Read
<1>2. CASE RunGate
  BY <1>2 DEF RunGate, MappingTypeOK, Panels, TestInv, RowsInv, Read
<1>3. CASE GateReads
  <2>1. panel.stage = "files" /\ panel.sis \in Own /\ overlay[panel.sis] \in Contents
    BY <1>3 DEF GateReads, MappingTypeOK, TestInv
  <2> QED BY <1>3, <2>1 DEF GateReads, MappingTypeOK, Panels, TestInv, RowsInv, Read
<1>4. ASSUME NEW outcome \in Outcomes, GateEnds(outcome) PROVE MappingInv'
  <2>1. panel.stage = "files" /\ panel.sis \in Own /\ panel.seen \in Contents
    BY <1>4 DEF GateEnds, MappingTypeOK, TestInv, Panels
  <2> DEFINE verdict == CASE outcome \in Passing -> "passed"
                          [] outcome = "no folder" -> "refused"
                          [] OTHER -> "failed"
  <2>2. panel' = [panel EXCEPT !.job = "none", !.gate = verdict]
    BY <1>4 DEF GateEnds
  <2>3. verdict \in {"passed", "refused", "failed"} /\ (verdict = "passed" => outcome \in Passing)
    OBVIOUS
  <2>4. passed' = IF outcome \in Passing THEN passed \cup {<<panel.sis, panel.seen>>} ELSE passed
    BY <1>4 DEF GateEnds
  <2> HIDE DEF verdict
  <2>5. panel' \in Panels /\ panel'.job = "none" /\ panel'.gate = verdict
        /\ panel'.sis = panel.sis /\ panel'.seen = panel.seen /\ panel'.stage = panel.stage
        /\ panel'.doc = panel.doc /\ panel'.form = panel.form /\ panel'.divergent = panel.divergent
    BY <2>2, <2>3 DEF MappingTypeOK, Panels
  <2>6. passed' \subseteq Own \X Contents
    BY <2>1, <2>4 DEF MappingTypeOK
  <2>7. MappingTypeOK'
    BY <1>4, <2>5, <2>6 DEF GateEnds, MappingTypeOK
  <2>8. TestInv' /\ RowsInv'
    BY <1>4, <2>3, <2>4, <2>5 DEF GateEnds, TestInv, RowsInv, Read
  <2> QED BY <2>7, <2>8
<1>5. CASE Discard
  BY <1>5 DEF Discard, MappingTypeOK, Panels, TestInv, RowsInv, Read
<1>6. CASE DiscardCancelled
  BY <1>6 DEF DiscardCancelled, MappingTypeOK, Panels, TestInv, RowsInv, Read
<1> QED BY <1>1, <1>2, <1>3, <1>4, <1>5, <1>6

LEMMA LastSteps ==
    ASSUME MappingInv,
           (\E works, heals \in BOOLEAN : Activate(works, heals))
             \/ \E deleted, works, heals \in BOOLEAN : DiscardConfirmed(deleted, works, heals)
    PROVE  MappingInv'
<1> USE DEF MappingInv
<1>1. ASSUME NEW works \in BOOLEAN, NEW heals \in BOOLEAN, Activate(works, heals) PROVE MappingInv'
  <2> DEFINE doc == Activated(panel.doc, panel.sis, overlay)
  <2>1. screen = "panel" /\ panel.sis \in Own /\ panel.doc \in MappingDocs
    <3>1. panel.gate = "passed" /\ <<panel.sis, panel.seen>> \in passed
      BY <1>1 DEF Activate, Confirmable, TestInv
    <3> QED BY <1>1, <3>1 DEF Activate, MappingTypeOK
  <2>2. doc \in MappingDocs
    BY <2>1, DocFacts DEF MappingTypeOK
  <2>3. CASE works
    <3>1. [mount EXCEPT !.shown = panel.sis] \in Mounts
      BY <2>1 DEF MappingTypeOK, Mounts
    <3>2. View([mount EXCEPT !.shown = panel.sis], doc, overlay, heals)
          /\ UNCHANGED <<overlay, passed, others>>
      BY <1>1, <2>3 DEF Activate
    <3> HIDE DEF doc
    <3> QED BY <2>2, <3>1, <3>2, ViewFacts, PanelClosed DEF MappingTypeOK
  <2>4. CASE ~works
    <3>1. panel' = [panel EXCEPT !.doc = panel.doc]
          /\ UNCHANGED <<overlay, disk, screen, mount, passed, touched, others>>
      BY <1>1, <2>4 DEF Activate, InMemory
    <3>2. panel' = panel
      BY <3>1 DEF MappingTypeOK, Panels
    <3> QED BY <3>1, <3>2 DEF MappingTypeOK, TestInv, RowsInv, Read
  <2> QED BY <2>3, <2>4
<1>2. ASSUME NEW deleted \in BOOLEAN, NEW works \in BOOLEAN, NEW heals \in BOOLEAN,
             DiscardConfirmed(deleted, works, heals)
      PROVE  MappingInv'
  <2> DEFINE there == IF panel.sis # NoSis /\ deleted
                        THEN [overlay EXCEPT ![panel.sis] = Gone] ELSE overlay
             doc == WithToken(panel.doc, NoSis, there)
  <2>1. there \in [Own -> Contents]
    BY ContentFacts DEF MappingTypeOK
  <2>2. doc \in MappingDocs
    BY <1>2, <2>1, DocFacts DEF DiscardConfirmed, MappingTypeOK, Drafts
  <2>3. (IF works THEN doc ELSE disk) \in MappingDocs /\ mount \in Mounts
    BY <2>2 DEF MappingTypeOK
  <2>4. View(mount, IF works THEN doc ELSE disk, there, heals) /\ overlay' = there
        /\ UNCHANGED <<passed, others>>
    BY <1>2 DEF DiscardConfirmed
  <2> HIDE DEF there, doc
  <2> QED BY <2>1, <2>3, <2>4, ViewFacts, PanelClosed DEF MappingTypeOK
<1> QED BY <1>1, <1>2

LEMMA OutsideSteps ==
    ASSUME MappingInv,
           (\E d \in Own, content \in HandEdits : EditedElsewhere(d, content))
             \/ \E d \in Own \cup {Shipped} : SwitchedElsewhere(d)
    PROVE  MappingInv'
<1> USE DEF MappingInv
<1>1. ASSUME NEW d \in Own, NEW content \in HandEdits, EditedElsewhere(d, content) PROVE MappingInv'
  <2>1. overlay' = [overlay EXCEPT ![d] = content] /\ overlay' \in [Own -> Contents]
    BY <1>1, EditsAssumption DEF EditedElsewhere, MappingTypeOK
  <2>2. UNCHANGED <<disk, screen, mount, panel, passed, others>>
    BY <1>1 DEF EditedElsewhere
  <2>3. CASE d = panel.sis
    BY <1>1, <2>1, <2>2, <2>3 DEF EditedElsewhere, MappingTypeOK, TestInv, RowsInv
  <2>4. CASE d # panel.sis
    <3>1. overlay'[panel.sis] = overlay[panel.sis] \/ panel.sis \notin Own
      BY <2>1, <2>4 DEF MappingTypeOK
    <3>2. touched' = touched
      BY <1>1, <2>4 DEF EditedElsewhere
    <3>3. panel.stage = "files" => panel.sis \in Own
      BY DEF MappingTypeOK
    <3>4. panel.job = "read" \/ panel.gate = "passed" => panel.sis \in Own
      BY <3>3 DEF TestInv, MappingTypeOK
    <3> QED BY <2>1, <2>2, <3>1, <3>2, <3>3, <3>4 DEF MappingTypeOK, TestInv, RowsInv, Read
  <2> QED BY <2>3, <2>4
<1>2. ASSUME NEW d \in Own \cup {Shipped}, SwitchedElsewhere(d) PROVE MappingInv'
  BY <1>2 DEF SwitchedElsewhere, MappingTypeOK, MappingDocs, TestInv, RowsInv, Read
<1> QED BY <1>1, <1>2

-----------------------------------------------------------------------------
(* The theorems.                                                           *)

LEMMA MappingInvariant == CreatorSpec => []MappingInv
<1>1. MappingInv /\ [CreatorNext]_creatorVars => MappingInv'
  <2> SUFFICES ASSUME MappingInv, [CreatorNext]_creatorVars PROVE MappingInv'
    OBVIOUS
  <2>1. CASE CreatorNext
    BY <2>1, HostSteps, OpenSteps, BackSteps, WriteSteps, PanelSteps, LastSteps, OutsideSteps
    DEF CreatorNext
  <2>2. CASE UNCHANGED creatorVars
    BY <2>2 DEF creatorVars, MappingInv, MappingTypeOK, TestInv, RowsInv, Read
  <2> QED BY <2>1, <2>2
<1> QED BY MappingInitInv, <1>1, PTL DEF CreatorSpec

\* What the screen, its panel, the mappings and the settings range over.
THEOREM CreatorTypes == CreatorSpec => []MappingTypeOK
<1>1. MappingInv => MappingTypeOK
  BY DEF MappingInv
<1> QED BY <1>1, MappingInvariant, PTL

\* A files step with nothing unsaved shows the names the mapping converts with, at
\* every place that names a file: for any districts, names and number of acts, and
\* whatever a person or another window wrote into the mapping before - but for a
\* hand-edited name the filename boundary refuses, whose row shows the standard one.
THEOREM RowsHold == CreatorSpec => []RowsAreWhatConverts
<1>1. MappingInv => RowsAreWhatConverts
  <2> SUFFICES ASSUME MappingInv, screen = "panel", panel.stage = "files", ~Unsaved(panel),
                      "rows" \notin touched, overlay[panel.sis] # Gone,
                      NEW s \in DOMAIN overlay[panel.sis].at
               PROVE  Renamed(panel.rows)[FileOf[s]] = Taken(overlay[panel.sis].at[s], FileOf[s])
    BY DEF RowsAreWhatConverts, Taken
  <2>1. panel.divergent = {} /\ Renamed(panel.rows) = panel.form.renames
    BY DEF Unsaved, HasUnsavedRenames
  <2> QED BY <2>1 DEF MappingInv, RowsInv, Matches
<1> QED BY <1>1, MappingInvariant, PTL

\* What a confirmation switches this computer to passed a test as it is now, unless
\* it was written from elsewhere after the test had read it (_activate).
THEOREM TestedFirst == CreatorSpec => ConfirmedWasTested
<1>1. MappingInv /\ [CreatorNext]_creatorVars
        => [(screen = "panel" /\ screen' = "view" /\ mount'.shown = panel.sis
             /\ mount.shown # panel.sis /\ panel.sis \in Own)
             => \/ <<panel.sis, overlay[panel.sis]>> \in passed
                \/ "test" \in touched]_creatorVars
  <2> DEFINE Tested == <<panel.sis, overlay[panel.sis]>> \in passed \/ "test" \in touched
  <2> SUFFICES ASSUME MappingInv, [CreatorNext]_creatorVars, screen = "panel", screen' = "view",
                      mount'.shown = panel.sis, mount.shown # panel.sis
               PROVE  Tested
    OBVIOUS
  <2>1. ASSUME NEW works \in BOOLEAN, NEW heals \in BOOLEAN, Activate(works, heals) PROVE Tested
    BY <2>1 DEF Activate, Confirmable, MappingInv, TestInv
  <2>2. ASSUME NEW m \in Mounts, NEW written \in MappingDocs, NEW there \in [Own -> Contents],
               NEW works \in BOOLEAN, View(m, written, there, works), m.shown = mount.shown
        PROVE  FALSE
    BY <2>2, ViewFacts
  <2>3. ASSUME NEW works \in BOOLEAN, PanelBack(works) PROVE FALSE
    BY <2>2, <2>3 DEF PanelBack, MappingInv, MappingTypeOK
  <2>4. ASSUME NEW deleted \in BOOLEAN, NEW works \in BOOLEAN, NEW heals \in BOOLEAN,
               DiscardConfirmed(deleted, works, heals)
        PROVE  FALSE
    <3> DEFINE there == IF panel.sis # NoSis /\ deleted
                          THEN [overlay EXCEPT ![panel.sis] = Gone] ELSE overlay
               doc == WithToken(panel.doc, NoSis, there)
    <3>1. there \in [Own -> Contents]
      BY ContentFacts DEF MappingInv, MappingTypeOK
    <3>2. doc \in MappingDocs
      BY <2>4, <3>1, DocFacts DEF DiscardConfirmed, MappingInv, MappingTypeOK, Drafts
    <3>3. (IF works THEN doc ELSE disk) \in MappingDocs /\ mount \in Mounts
      BY <3>2 DEF MappingInv, MappingTypeOK
    <3>4. View(mount, IF works THEN doc ELSE disk, there, heals)
      BY <2>4 DEF DiscardConfirmed
    <3> HIDE DEF there, doc
    <3> QED BY <2>2, <3>1, <3>3, <3>4
  <2>5. ASSUME UNCHANGED mount PROVE FALSE
    BY <2>5
  <2>6. ASSUME screen # "panel" \/ screen' = screen PROVE FALSE
    BY <2>6
  <2>7. CASE UNCHANGED creatorVars
    BY <2>7, <2>5 DEF creatorVars
  <2>8. CASE CreatorNext
    BY <2>8, <2>1, <2>3, <2>4, <2>5, <2>6
    DEF CreatorNext, OpenMapping, Leave, Apply, Pick, OpenPanel, Continue, Name, SaveNames, RunGate,
        GateReads, GateEnds, Discard, DiscardCancelled, EditedElsewhere, SwitchedElsewhere
  <2> QED BY <2>7, <2>8
<1> QED BY <1>1, MappingInvariant, PTL DEF CreatorSpec, ConfirmedWasTested

=============================================================================
