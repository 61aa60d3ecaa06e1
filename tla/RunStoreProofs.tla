--------------------------- MODULE RunStoreProofs ---------------------------
(***************************************************************************)
(* Proofs about RunStore, for any number of writers, readers, versions,    *)
(* files and faults.                                                       *)
(*                                                                         *)
(*   RunStoreTypes     what every variable ranges over;                    *)
(*   NoVersionLost     the version of a store never goes down              *)
(*                     (NeverDowngraded);                                  *)
(*   ErrorsAreReal     a migration fails only for a fault of its own       *)
(*                     (MigrationErrorIsReal);                             *)
(*   RowsStay          a written row is in the history, in a damaged file, *)
(*                     in one handed over, or in one that overlapping      *)
(*                     quarantines renamed by mistake (WrittenIsRead).     *)
(*                                                                         *)
(* NoVersionLost and ErrorsAreReal hold where the code's own locking       *)
(* reaches: two programs that make the store at the same time may both     *)
(* read version 0 before either has stamped it, and Calm leaves those out. *)
(* RowsStay holds of every behaviour.                                      *)
(***************************************************************************)
EXTENDS RunStore, TLAPS

Stores == [rotten : BOOLEAN, tables : BOOLEAN, stamp : 0 .. Newest,
           steps : SUBSET (2 .. Newest), rows : SUBSET Writers]

Places == {"idle", "open", "quarantine", "over"} \cup Working

Results == {"none", "fenced", "written", "failed", "migrationFailed", "raised",
            "killed"}

TypeOK ==
    /\ set \in Settings
    /\ file \in [1 .. NFiles -> Stores]
    /\ used \in 0 .. NFiles /\ live \in 0 .. used
    /\ quarantined \in [1 .. MaxSeconds -> 0 .. NFiles]
    /\ aside \subseteq 1 .. NFiles /\ fenced \in BOOLEAN
    /\ handover \in {"before", "aside", "done"}
    /\ now \in 1 .. MaxSeconds /\ rots \in Nat
    /\ pc \in [Writers -> Places]
    /\ conn \in [Writers -> 0 .. NFiles]
    /\ seen \in [Writers -> 0 .. Newest]
    /\ target \in [Writers -> 2 .. Newest + 1]
    /\ again \in [Writers -> BOOLEAN]
    /\ result \in [Writers -> Results]
    /\ met \in [Writers -> 0 .. NFiles]
    /\ faulted \subseteq Writers /\ mistaken \subseteq 1 .. NFiles
    /\ asking \in [Readers -> {"idle", "select", "over"}]
    /\ answer \in [Readers -> {"none", "empty", "unavailable", "rows"}]

-----------------------------------------------------------------------------
(* The inductive invariants.                                               *)

\* A call that is working has a file open, and no other call has.
Opened ==
    \A w \in Writers : IF pc[w] \in Working THEN conn[w] \in 1 .. used ELSE conn[w] = 0

\* Where calls do not overlap, at most one is under way.
Alone == ~set.overlap => \A v, w \in Writers : Busy(v) /\ Busy(w) => v = w

\* What no file has been made of is empty.
Unused == \A n \in 1 .. NFiles : n > used => file[n] = Blank

Base == TypeOK /\ Opened /\ Alone /\ Unused

\* Calls that overlap do so over a store that was there before them, and that
\* nobody damages or hands over.
Calm == set.overlap => set.established /\ set.damages = 0 /\ ~set.handOver

\* A store has only rungs up to its version.
Rungs == \A n \in 1 .. NFiles : \A t \in file[n].steps : t <= file[n].stamp

\* A call that takes the store for brand-new is right.
Fresh ==
    \A w \in Writers :
        /\ pc[w] \in {"tables", "stamp"} /\ seen[w] = 0 => file[conn[w]].stamp = 0
        /\ pc[w] = "stamp" => seen[w] = 0

\* The store that overlapping calls share stays the one it was.
Steady ==
    set.overlap =>
        /\ used = 1 /\ live = 1
        /\ file[1].stamp >= 1 /\ ~file[1].rotten
        /\ \A w \in Writers :
             /\ pc[w] # "quarantine" /\ pc[w] # "stamp"
             /\ pc[w] = "tables" => seen[w] >= 1

Ladder == Rungs /\ Fresh /\ Steady /\ MigrationErrorIsReal

\* A file whose rows are not read: damaged, handed over, or renamed by mistake
\* where calls overlap.
Lost(n) == file[n].rotten \/ n \in aside \/ (set.overlap /\ n \in mistaken)

\* Only such a file may have rows and not be read.
Reachable == \A n \in 1 .. NFiles : file[n].rows # {} => n = live \/ Lost(n)

\* A call writes into the file that is read, or into such a one.
Held == \A w \in Writers : pc[w] \in Working => conn[w] = live \/ Lost(conn[w])

\* A call that is about to quarantine has met damage in a file.
Met ==
    \A w \in Writers : pc[w] = "quarantine" =>
        met[w] \in 1 .. used /\ file[met[w]].rotten

\* By itself, a call holds the file that is read unless that one has no rows
\* yet; and what it moves aside is damaged, or has none.
Doomed ==
    ~set.overlap =>
        \A w \in Writers :
            /\ pc[w] \in Working =>
                 conn[w] = live \/ live = 0 \/ file[live].rows = {}
            /\ pc[w] = "quarantine" =>
                 live = 0 \/ file[live].rotten \/ file[live].rows = {}

Recorded ==
    \A w \in Writers : result[w] = "written" =>
        \E n \in 1 .. used : w \in file[n].rows

Kept == Reachable /\ Held /\ Met /\ Doomed /\ Recorded

-----------------------------------------------------------------------------
(* Constants and values.                                                   *)

LEMMA SettingTypes ==
    \A s \in Settings :
        /\ s.version \in [Writers -> 0 .. Newest]
        /\ s.readers \subseteq Readers
        /\ s.established \in BOOLEAN /\ s.overlap \in BOOLEAN /\ s.handOver \in BOOLEAN
        /\ s.damages \in Nat /\ s.seconds \in 1 .. MaxSeconds
  BY SettingsAssumption

LEMMA StoreTypes ==
    /\ Blank \in Stores
    /\ [Blank EXCEPT !.tables = TRUE, !.stamp = 1] \in Stores
    /\ \A f \in Stores :
         /\ f.stamp \in 0 .. Newest /\ f.steps \subseteq 2 .. Newest
         /\ f.rows \subseteq Writers /\ f.rotten \in BOOLEAN /\ f.tables \in BOOLEAN
<1>1. 0 \in 0 .. Newest /\ 1 \in 0 .. Newest
  BY BoundsAssumption
<1>2. Blank \in Stores /\ [Blank EXCEPT !.tables = TRUE, !.stamp = 1] \in Stores
  BY <1>1 DEF Blank, Stores
<1> QED BY <1>2 DEF Stores

\* The changes a step makes to a store.
Tabled(f) == [f EXCEPT !.tables = TRUE]
Stamped(f) == [f EXCEPT !.stamp = 1]
Climbed(f, t) == [f EXCEPT !.steps = @ \cup {t}, !.stamp = t]
Filled(f, w) == [f EXCEPT !.rows = @ \cup {w}]
Damaged(f) == [f EXCEPT !.rotten = TRUE]

LEMMA StoreChanges ==
    \A f \in Stores :
        /\ Tabled(f).stamp = f.stamp /\ Tabled(f).steps = f.steps
        /\ Tabled(f).rows = f.rows /\ Tabled(f).rotten = f.rotten
        /\ Stamped(f).stamp = 1 /\ Stamped(f).steps = f.steps
        /\ Stamped(f).rows = f.rows /\ Stamped(f).rotten = f.rotten
        /\ Damaged(f).stamp = f.stamp /\ Damaged(f).steps = f.steps
        /\ Damaged(f).rows = f.rows /\ Damaged(f).rotten
        /\ \A t \in 2 .. Newest :
             /\ Climbed(f, t).stamp = t /\ Climbed(f, t).steps = f.steps \cup {t}
             /\ Climbed(f, t).rows = f.rows /\ Climbed(f, t).rotten = f.rotten
        /\ \A w \in Writers :
             /\ Filled(f, w).stamp = f.stamp /\ Filled(f, w).steps = f.steps
             /\ Filled(f, w).rows = f.rows \cup {w} /\ Filled(f, w).rotten = f.rotten
  BY DEF Stores, Tabled, Stamped, Climbed, Filled, Damaged

LEMMA ChangeTypes ==
    \A f \in Stores :
        /\ Tabled(f) \in Stores /\ Stamped(f) \in Stores /\ Damaged(f) \in Stores
        /\ \A t \in 2 .. Newest : Climbed(f, t) \in Stores
        /\ \A w \in Writers : Filled(f, w) \in Stores
<1>1. 1 \in 0 .. Newest
  BY BoundsAssumption
<1>2. \A t \in 2 .. Newest : t \in 0 .. Newest
  BY BoundsAssumption
<1> SUFFICES ASSUME NEW f \in Stores
    PROVE  /\ Tabled(f) \in Stores /\ Stamped(f) \in Stores /\ Damaged(f) \in Stores
           /\ \A t \in 2 .. Newest : Climbed(f, t) \in Stores
           /\ \A w \in Writers : Filled(f, w) \in Stores
  OBVIOUS
<1>3. Tabled(f) \in Stores /\ Stamped(f) \in Stores /\ Damaged(f) \in Stores
  BY <1>1 DEF Stores, Tabled, Stamped, Damaged
<1>4. \A t \in 2 .. Newest : Climbed(f, t) \in Stores
  BY <1>2 DEF Stores, Climbed
<1>5. \A w \in Writers : Filled(f, w) \in Stores
  BY DEF Stores, Filled
<1> QED BY <1>3, <1>4, <1>5

LEMMA BlankIs ==
    /\ Blank.rows = {} /\ Blank.steps = {} /\ Blank.stamp = 0 /\ ~Blank.rotten
  BY DEF Blank

-----------------------------------------------------------------------------
(* Every step changes at most one file, in one of five ways.               *)

At(n, f) == file' = [file EXCEPT ![n] = f]

LEMMA FileSteps ==
    ASSUME TypeOK, Opened
    PROVE  /\ \A w \in Writers :
                /\ EnsureTables(w) => At(conn[w], Tabled(file[conn[w]]))
                /\ StampBaseline(w) => At(conn[w], Stamped(file[conn[w]]))
                /\ Insert(w) => At(conn[w], Filled(file[conn[w]], w))
                /\ Commits(w) => At(conn[w], Climbed(file[conn[w]], target[w]))
           /\ Rot => At(live, Damaged(file[live]))
<1>1. ASSUME NEW w \in Writers
      PROVE  /\ EnsureTables(w) => At(conn[w], Tabled(file[conn[w]]))
             /\ StampBaseline(w) => At(conn[w], Stamped(file[conn[w]]))
             /\ Insert(w) => At(conn[w], Filled(file[conn[w]], w))
             /\ Commits(w) => At(conn[w], Climbed(file[conn[w]], target[w]))
  <2>1. EnsureTables(w) => At(conn[w], Tabled(file[conn[w]]))
    BY DEF EnsureTables, At, Tabled
  <2>2. StampBaseline(w) => At(conn[w], Stamped(file[conn[w]]))
    BY DEF StampBaseline, At, Stamped
  <2>3. Insert(w) => At(conn[w], Filled(file[conn[w]], w))
    BY DEF Insert, At, Filled
  <2>4. Commits(w) => At(conn[w], Climbed(file[conn[w]], target[w]))
    BY DEF Commits, At, Climbed
  <2> QED BY <2>1, <2>2, <2>3, <2>4
<1>2. Rot => At(live, Damaged(file[live]))
  BY DEF Rot, At, Damaged
<1> QED BY <1>1, <1>2

-----------------------------------------------------------------------------
(* Types, and who has which file open.                                     *)

LEMMA BaseInit == Init => Base
<1> SUFFICES ASSUME Init PROVE Base
  OBVIOUS
<1>1. 1 \in 1 .. NFiles /\ 0 \in 0 .. NFiles /\ 1 \in 1 .. MaxSeconds
        /\ 2 \in 2 .. Newest + 1 /\ 0 \in 0 .. Newest /\ 1 \in 0 .. NFiles
  BY BoundsAssumption
<1>2. set \in Settings /\ set.established \in BOOLEAN
  BY SettingTypes DEF Init
<1>3. file \in [1 .. NFiles -> Stores]
  BY StoreTypes DEF Init
<1>4. used \in 0 .. NFiles /\ live \in 0 .. used
  BY <1>1, <1>2 DEF Init
<1>5. TypeOK
  BY <1>1, <1>2, <1>3, <1>4 DEF Init, TypeOK, Places, Results
<1>6. Opened /\ Alone
  BY DEF Init, Opened, Alone, Working, Busy
<1>7. Unused
  BY <1>2 DEF Init, Unused
<1> QED BY <1>5, <1>6, <1>7 DEF Base

\* sqlite3.connect leaves the file open as the live one.
LEMMA Connects ==
    ASSUME TypeOK, NEW n \in 1 .. NFiles, Connect(n)
    PROVE  /\ used' \in 0 .. NFiles /\ used' >= used /\ live' = n /\ n \in 1 .. used'
           /\ file' = file
           /\ live # 0 => n = live /\ used' = used
           /\ live = 0 => n = used + 1
  BY DEF Connect, TypeOK, store

\* A step of a call, told by what it leaves of pc and conn.
LEMMA AloneStays ==
    ASSUME Base, NEW w \in Writers, set' = set,
           Busy(w), \A v \in Writers : v # w => pc'[v] = pc[v]
    PROVE  Alone'
  BY DEF Base, Alone, Busy

LEMMA OpenedStays ==
    ASSUME Base, NEW w \in Writers, used' \in Nat, used' >= used,
           \A v \in Writers : v # w => pc'[v] = pc[v] /\ conn'[v] = conn[v],
           IF pc'[w] \in Working THEN conn'[w] \in 1 .. used' ELSE conn'[w] = 0
    PROVE  Opened'
<1>1. used \in Nat
  BY BoundsAssumption DEF Base, TypeOK
<1>2. \A v \in Writers : IF pc[v] \in Working THEN conn[v] \in 1 .. used ELSE conn[v] = 0
  BY DEF Base, Opened
<1>3. \A n \in 1 .. used : n \in 1 .. used'
  BY <1>1
<1> QED BY <1>2, <1>3 DEF Opened

\* A file in use is changed into another of the same kind.
LEMMA FileStays ==
    ASSUME Base, NEW n \in 1 .. used, NEW f \in Stores, At(n, f), used' = used
    PROVE  file' \in [1 .. NFiles -> Stores] /\ Unused'
<1>1. used \in Nat /\ NFiles \in Nat /\ used <= NFiles /\ n \in 1 .. NFiles /\ n <= used
  BY BoundsAssumption DEF Base, TypeOK
<1>2. file \in [1 .. NFiles -> Stores] /\ Unused
  BY DEF Base, TypeOK
<1> QED BY <1>1, <1>2 DEF At, Unused

LEMMA Returning ==
    ASSUME TypeOK, NEW w \in Writers, NEW what \in Results, Returns(w, what)
    PROVE  /\ pc' \in [Writers -> Places] /\ pc'[w] = "over"
           /\ conn' \in [Writers -> 0 .. NFiles] /\ conn'[w] = 0
           /\ result' \in [Writers -> Results] /\ result'[w] = what
           /\ \A v \in Writers : v # w =>
                pc'[v] = pc[v] /\ conn'[v] = conn[v] /\ result'[v] = result[v]
<1>1. "over" \in Places /\ 0 \in 0 .. NFiles
  BY BoundsAssumption DEF Places
<1>2. /\ pc \in [Writers -> Places] /\ conn \in [Writers -> 0 .. NFiles]
      /\ result \in [Writers -> Results]
  BY DEF TypeOK
<1> QED BY <1>1, <1>2 DEF Returns, Goto

LEMMA Going ==
    ASSUME TypeOK, NEW w \in Writers, NEW place \in Places, Goto(w, place)
    PROVE  /\ pc' \in [Writers -> Places] /\ pc'[w] = place
           /\ \A v \in Writers : v # w => pc'[v] = pc[v]
  BY DEF TypeOK, Goto

LEMMA Dropping ==
    ASSUME TypeOK, NEW w \in Writers, conn' = [conn EXCEPT ![w] = 0]
    PROVE  /\ conn' \in [Writers -> 0 .. NFiles] /\ conn'[w] = 0
           /\ \A v \in Writers : v # w => conn'[v] = conn[v]
<1>1. 0 \in 0 .. NFiles
  BY BoundsAssumption
<1> QED BY <1>1 DEF TypeOK

LEMMA PlacesAre ==
    /\ {"idle", "open", "quarantine", "over", "read", "tables", "stamp", "migrate",
        "insert"} \subseteq Places
    /\ "open" \notin Working /\ "over" \notin Working /\ "idle" \notin Working
    /\ "quarantine" \notin Working
  BY DEF Places, Working

LEMMA BaseWrite ==
    ASSUME Base, NEW w \in Writers, Write(w) \/ Kill(w)
    PROVE  Base'
<1> USE BoundsAssumption DEF Base
<1>1. /\ w \in DOMAIN pc /\ w \in DOMAIN conn /\ set \in Settings
      /\ set.version[w] \in 0 .. Newest
  BY SettingTypes DEF TypeOK
<1>2. pc[w] \in Working => file[conn[w]] \in Stores /\ conn[w] \in 1 .. used
  BY DEF Opened, TypeOK
<1>3. used \in Nat /\ Newest \in Nat
  BY BoundsAssumption DEF TypeOK
<1>4. CASE CheckFence(w)
  <2>1. /\ pc[w] = "idle" /\ UNCHANGED <<set, file, used, live, quarantined, aside, fenced,
                         handover, now, rots, seen, target, again, met, faulted, mistaken,
                         asking, answer>>
        /\ set.overlap \/ \A v \in Writers : ~Busy(v)
        /\ Returns(w, "fenced") \/ (Goto(w, "open") /\ UNCHANGED <<conn, result>>)
    BY <1>4 DEF CheckFence, Stays, store, world, reader, kept
  <2>2. /\ pc' \in [Writers -> Places] /\ conn' \in [Writers -> 0 .. NFiles]
        /\ result' \in [Writers -> Results]
        /\ pc'[w] \in {"open", "over"} /\ conn'[w] = 0
        /\ \A v \in Writers : v # w => pc'[v] = pc[v] /\ conn'[v] = conn[v]
    <3>1. CASE Returns(w, "fenced")
      <4>1. "fenced" \in Results
        BY DEF Results
      <4> QED BY <3>1, <4>1, Returning
    <3>2. CASE Goto(w, "open") /\ UNCHANGED <<conn, result>>
      <4>1. conn[w] = 0
        BY <2>1, PlacesAre DEF Opened
      <4>2. "open" \in Places
        BY PlacesAre
      <4> QED BY <3>2, <4>1, <4>2, Going DEF TypeOK
    <3> QED BY <2>1, <3>1, <3>2
  <2>3. TypeOK'
    BY <2>1, <2>2 DEF TypeOK
  <2>4. Alone'
    BY <2>1, <2>2 DEF Alone, Busy
  <2>5. Opened' /\ Unused'
    BY <1>3, <2>1, <2>2, PlacesAre, OpenedStays DEF Unused
  <2> QED BY <2>3, <2>4, <2>5
<1>5. CASE Open(w)
  <2>1. PICK n \in 1 .. NFiles : Connect(n) /\ conn' = [conn EXCEPT ![w] = n]
    BY <1>5 DEF Open
  <2>6. /\ pc' \in [Writers -> Places] /\ pc'[w] = "read"
        /\ \A v \in Writers : v # w => pc'[v] = pc[v]
    BY <1>5, PlacesAre, Going DEF Open
  <2>7. /\ used' \in 0 .. NFiles /\ used' >= used /\ live' = n /\ n \in 1 .. used'
        /\ file' = file
    BY <2>1, Connects
  <2>8. conn' \in [Writers -> 0 .. NFiles] /\ conn'[w] = n
          /\ \A v \in Writers : v # w => conn'[v] = conn[v]
    BY <2>1, <2>7 DEF TypeOK
  <2>2. TypeOK'
    <3>1. live' \in 0 .. used'
      BY <2>7
    <3> QED BY <1>5, <2>6, <2>7, <2>8, <3>1 DEF Open, TypeOK, world, reader, kept
  <2>3. Alone'
    BY <1>1, <1>5, AloneStays DEF Open, Goto, world, Busy, TypeOK
  <2>4. Opened'
    <3>1. "read" \in Working /\ used' \in Nat
      BY <2>7 DEF Working
    <3> QED BY <2>6, <2>7, <2>8, <3>1, OpenedStays
  <2>5. Unused'
    BY <2>1, <1>3, Connects DEF Unused
  <2> QED BY <2>2, <2>3, <2>4, <2>5
<1>6. CASE ReadVersion(w)
  <2>1. TypeOK'
    BY <1>1, <1>2, <1>6, StoreTypes DEF ReadVersion, TypeOK, Goto, world, store, reader, kept, Places, Working, Mine
  <2>2. Alone'
    BY <1>1, <1>6, AloneStays DEF ReadVersion, Goto, world, Busy, TypeOK
  <2>3. Opened' /\ Unused'
    <3>1. /\ pc[w] \in Working /\ UNCHANGED <<file, used, conn>>
          /\ pc'[w] \in {"tables"}
          /\ \A v \in Writers : v # w => pc'[v] = pc[v]
      BY <1>6, PlacesAre, Going DEF ReadVersion, store, Working
    <3>2. pc'[w] \in Working
      BY <3>1 DEF Working
    <3> QED BY <1>2, <1>3, <3>1, <3>2, OpenedStays DEF Unused
  <2> QED BY <2>1, <2>2, <2>3
<1>7. CASE EnsureTables(w)
  <2>1. file' \in [1 .. NFiles -> Stores] /\ Unused'
    <3>1. conn[w] \in 1 .. used /\ At(conn[w], Tabled(file[conn[w]])) /\ used' = used
      BY <1>2, <1>7, FileSteps DEF EnsureTables, Working
    <3> QED BY <1>2, <1>7, <3>1, FileStays, ChangeTypes DEF EnsureTables, Working
  <2>2. TypeOK'
    BY <1>1, <1>7, <2>1 DEF EnsureTables, TypeOK, Goto, world, reader, kept, Places, Working
  <2>3. Alone'
    BY <1>1, <1>7, AloneStays DEF EnsureTables, Goto, world, Busy, TypeOK
  <2>4. Opened'
    <3>1. /\ pc[w] \in Working /\ UNCHANGED <<used, conn>>
          /\ pc'[w] \in {"stamp", "migrate"}
          /\ \A v \in Writers : v # w => pc'[v] = pc[v]
      BY <1>7, PlacesAre, Going DEF EnsureTables, Working
    <3>2. pc'[w] \in Working
      BY <3>1 DEF Working
    <3> QED BY <1>2, <1>3, <3>1, <3>2, OpenedStays
  <2> QED BY <2>1, <2>2, <2>3, <2>4
<1>8. CASE StampBaseline(w)
  <2>1. file' \in [1 .. NFiles -> Stores] /\ Unused'
    <3>1. conn[w] \in 1 .. used /\ At(conn[w], Stamped(file[conn[w]])) /\ used' = used
      BY <1>2, <1>8, FileSteps DEF StampBaseline, Working
    <3> QED BY <1>2, <1>8, <3>1, FileStays, ChangeTypes DEF StampBaseline, Working
  <2>2. TypeOK'
    <3>1. pc' \in [Writers -> Places]
      BY <1>8, PlacesAre, Going DEF StampBaseline
    <3>2. seen' \in [Writers -> 0 .. Newest]
      <4>1. 1 \in 0 .. Newest
        BY BoundsAssumption
      <4> QED BY <1>8, <4>1 DEF StampBaseline, TypeOK
    <3> QED BY <1>8, <2>1, <3>1, <3>2 DEF StampBaseline, TypeOK, world, reader, kept
  <2>3. Alone'
    BY <1>1, <1>8, AloneStays DEF StampBaseline, Goto, world, Busy, TypeOK
  <2>4. Opened'
    <3>1. /\ pc[w] \in Working /\ UNCHANGED <<used, conn>>
          /\ pc'[w] \in {"migrate"}
          /\ \A v \in Writers : v # w => pc'[v] = pc[v]
      BY <1>8, PlacesAre, Going DEF StampBaseline, Working
    <3>2. pc'[w] \in Working
      BY <3>1 DEF Working
    <3> QED BY <1>2, <1>3, <3>1, <3>2, OpenedStays
  <2> QED BY <2>1, <2>2, <2>3, <2>4
<1>9. CASE MigrateStep(w)
  <2>1. pc[w] = "migrate" /\ target[w] \in 2 .. Newest
    BY <1>1, <1>3, <1>9 DEF MigrateStep, Migrating, TypeOK
  <2>2. /\ set' = set /\ used' = used /\ UNCHANGED world
        /\ UNCHANGED <<live, seen, again, met, faulted, mistaken, asking, answer>>
    BY <1>9 DEF MigrateStep, world, reader, kept
  <2>3. \/ /\ Commits(w) \/ UNCHANGED file
           /\ target' = [target EXCEPT ![w] = @ + 1] /\ UNCHANGED <<pc, conn, result>>
        \/ Returns(w, MigrationEnds(w)) /\ UNCHANGED <<file, target>>
    BY <1>9 DEF MigrateStep, Climb, NextRung, Stays
  <2>4. file' \in [1 .. NFiles -> Stores] /\ Unused'
    <3>1. CASE Commits(w)
      <4>1. conn[w] \in 1 .. used /\ At(conn[w], Climbed(file[conn[w]], target[w]))
        BY <1>2, <2>1, <3>1, FileSteps DEF Working
      <4>2. Climbed(file[conn[w]], target[w]) \in Stores
        BY <1>2, <2>1, ChangeTypes DEF Working
      <4> QED BY <2>2, <4>1, <4>2, FileStays
    <3>2. CASE UNCHANGED file
      BY <2>2, <3>2 DEF TypeOK, Unused
    <3> QED BY <2>3, <3>1, <3>2
  <2>8. /\ target' \in [Writers -> 2 .. Newest + 1]
        /\ pc' \in [Writers -> Places] /\ conn' \in [Writers -> 0 .. NFiles]
        /\ result' \in [Writers -> Results]
        /\ \/ pc'[w] = "over" /\ conn'[w] = 0
           \/ pc'[w] = pc[w] /\ conn'[w] = conn[w]
        /\ \A v \in Writers : v # w => pc'[v] = pc[v] /\ conn'[v] = conn[v]
    <3>1. CASE Returns(w, MigrationEnds(w)) /\ UNCHANGED <<file, target>>
      <4>1. MigrationEnds(w) \in Results
        BY DEF Results, MigrationEnds
      <4> QED BY <3>1, <4>1, Returning DEF TypeOK
    <3>2. CASE target' = [target EXCEPT ![w] = @ + 1] /\ UNCHANGED <<pc, conn, result>>
      <4>1. target[w] + 1 \in 2 .. Newest + 1
        BY <2>1
      <4> QED BY <3>2, <4>1 DEF TypeOK
    <3> QED BY <2>3, <3>1, <3>2
  <2>5. TypeOK'
    BY <2>2, <2>4, <2>8 DEF TypeOK, world
  <2>6. Alone'
    <3>1. Busy(w)
      BY <2>1 DEF Busy
    <3> QED BY <2>2, <2>8, <3>1, AloneStays
  <2>7. Opened'
    <3>1. "migrate" \in Working
      BY DEF Working
    <3> QED BY <1>2, <1>3, <2>1, <2>2, <2>8, <3>1, PlacesAre, OpenedStays
  <2> QED BY <2>4, <2>5, <2>6, <2>7
<1>10. CASE Migrated(w)
  <2>1. TypeOK'
    BY <1>1, <1>10 DEF Migrated, TypeOK, Goto, world, store, reader, kept, Places, Working
  <2>2. Alone'
    BY <1>1, <1>10, AloneStays DEF Migrated, Goto, world, Busy, TypeOK
  <2>3. Opened' /\ Unused'
    <3>1. /\ pc[w] \in Working /\ UNCHANGED <<file, used, conn>>
          /\ pc'[w] = "insert" /\ \A v \in Writers : v # w => pc'[v] = pc[v]
      BY <1>10, PlacesAre, Going DEF Migrated, store, Working
    <3>2. "insert" \in Working
      BY DEF Working
    <3> QED BY <1>2, <1>3, <3>1, <3>2, OpenedStays DEF Unused
  <2> QED BY <2>1, <2>2, <2>3
<1>11. CASE Insert(w)
  <2>1. file' \in [1 .. NFiles -> Stores] /\ Unused'
    <3>1. conn[w] \in 1 .. used /\ At(conn[w], Filled(file[conn[w]], w)) /\ used' = used
      BY <1>2, <1>11, FileSteps DEF Insert, Working
    <3> QED BY <1>2, <1>11, <3>1, FileStays, ChangeTypes DEF Insert, Working
  <2>2. TypeOK'
    <3>1. "written" \in Results
      BY DEF Results
    <3>2. /\ pc' \in [Writers -> Places] /\ conn' \in [Writers -> 0 .. NFiles]
          /\ result' \in [Writers -> Results]
      BY <1>11, <3>1, Returning DEF Insert
    <3> QED BY <1>11, <2>1, <3>2 DEF Insert, TypeOK, world, reader, kept
  <2>3. Alone'
    BY <1>1, <1>11, AloneStays DEF Insert, Returns, Goto, world, Busy, TypeOK
  <2>4. Opened'
    BY <1>1, <1>3, <1>11, OpenedStays DEF Insert, Returns, Goto, TypeOK, Working
  <2> QED BY <2>1, <2>2, <2>3, <2>4
<1>12. ASSUME /\ UNCHANGED <<set, file, used, quarantined, aside, fenced, handover, now, rots,
                             live, seen, target, again, mistaken, reader>>
              /\ faulted' \subseteq Writers /\ met' \in [Writers -> 0 .. NFiles]
              /\ Busy(w)
              /\ \/ \E what \in Results : Returns(w, what)
                 \/ /\ Goto(w, "quarantine") /\ conn' = [conn EXCEPT ![w] = 0]
                    /\ UNCHANGED result
       PROVE  Base'
  <2>1. /\ pc' \in [Writers -> Places] /\ conn' \in [Writers -> 0 .. NFiles]
        /\ result' \in [Writers -> Results]
        /\ pc'[w] \in {"over", "quarantine"} /\ conn'[w] = 0
        /\ \A v \in Writers : v # w => pc'[v] = pc[v] /\ conn'[v] = conn[v]
    <3>1. CASE \E what \in Results : Returns(w, what)
      BY <3>1, Returning
    <3>2. CASE /\ Goto(w, "quarantine") /\ conn' = [conn EXCEPT ![w] = 0]
               /\ UNCHANGED result
      <4>1. "quarantine" \in Places
        BY PlacesAre
      <4> QED BY <3>2, <4>1, Going, Dropping DEF TypeOK
    <3> QED BY <1>12, <3>1, <3>2
  <2>2. TypeOK'
    BY <1>12, <2>1 DEF TypeOK, reader
  <2>3. Alone'
    BY <1>12, <2>1, AloneStays
  <2>4. Opened' /\ Unused'
    BY <1>3, <1>12, <2>1, PlacesAre, OpenedStays DEF Unused
  <2> QED BY <2>2, <2>3, <2>4
<1>13. CASE MigrationFails(w) \/ WriteFails(w) \/ MeetsDamage(w) \/ Kill(w)
  <2>1. MigrationEnds(w) \in Results /\ "failed" \in Results /\ "killed" \in Results
    BY DEF Results, MigrationEnds
  <2>2. Busy(w)
    BY <1>13 DEF MigrationFails, Migrating, WriteFails, MeetsDamage, Kill, Busy, Working
  <2>3. UNCHANGED <<set, file, used, quarantined, aside, fenced, handover, now, rots,
                             live, seen, target, again, mistaken, reader>>
    BY <1>13 DEF MigrationFails, WriteFails, MeetsDamage, Kill, store, world, kept
  <2>4. faulted' \subseteq Writers /\ met' \in [Writers -> 0 .. NFiles]
    BY <1>13 DEF MigrationFails, WriteFails, MeetsDamage, Kill, TypeOK, kept
  <2>5. \/ \E what \in Results : Returns(w, what)
        \/ /\ Goto(w, "quarantine") /\ conn' = [conn EXCEPT ![w] = 0]
           /\ UNCHANGED result
    BY <1>13, <2>1 DEF MigrationFails, WriteFails, MeetsDamage, Kill
  <2> QED BY <1>12, <2>2, <2>3, <2>4, <2>5
<1>14. CASE Quarantine(w) \/ QuarantineFails(w)
  <2>1. /\ quarantined' \in [1 .. MaxSeconds -> 0 .. NFiles] /\ live' \in 0 .. used
        /\ mistaken' \subseteq 1 .. NFiles
    <3>1. \/ UNCHANGED <<live, quarantined, mistaken>>
          \/ /\ quarantined' = [quarantined EXCEPT ![now] = live] /\ live' = 0
             /\ live # 0 /\ mistaken' \subseteq mistaken \cup {live}
      BY <1>14 DEF Quarantine, QuarantineFails, Renames
    <3>2. /\ live \in 0 .. NFiles /\ 0 \in 0 .. used /\ now \in 1 .. MaxSeconds
          /\ live # 0 => live \in 1 .. NFiles
      BY <1>3 DEF TypeOK
    <3>3. mistaken' \subseteq 1 .. NFiles
      BY <3>1, <3>2 DEF TypeOK
    <3>4. quarantined' \in [1 .. MaxSeconds -> 0 .. NFiles] /\ live' \in 0 .. used
      BY <3>1, <3>2 DEF TypeOK
    <3> QED BY <3>3, <3>4
  <2>2. /\ UNCHANGED <<set, file, used, aside, fenced, handover, now, rots, seen,
                       met, faulted, asking, answer>>
        /\ pc[w] = "quarantine"
    BY <1>14 DEF Quarantine, QuarantineFails, reader, kept
  <2>3. again' \in [Writers -> BOOLEAN] /\ target' \in [Writers -> 2 .. Newest + 1]
    <3>1. 2 \in 2 .. Newest + 1
      BY <1>3
    <3> QED BY <1>14, <3>1 DEF Quarantine, QuarantineFails, TypeOK
  <2>4. /\ pc' \in [Writers -> Places] /\ conn' \in [Writers -> 0 .. NFiles]
        /\ result' \in [Writers -> Results] /\ pc'[w] \in {"open", "over"} /\ conn'[w] = 0
        /\ \A v \in Writers : v # w => pc'[v] = pc[v] /\ conn'[v] = conn[v]
    <3>1. CASE Quarantine(w)
      <4>1. "open" \in Places /\ conn[w] = 0
        BY <2>2, PlacesAre DEF Opened
      <4> QED BY <3>1, <4>1, Going DEF Quarantine, TypeOK
    <3>2. CASE QuarantineFails(w)
      <4>1. "failed" \in Results
        BY DEF Results
      <4> QED BY <3>2, <4>1, Returning DEF QuarantineFails
    <3> QED BY <1>14, <3>1, <3>2
  <2>6. TypeOK'
    BY <2>1, <2>2, <2>3, <2>4 DEF TypeOK
  <2>7. Alone'
    BY <2>2, <2>4, AloneStays DEF Busy
  <2>8. Opened' /\ Unused'
    BY <1>3, <2>2, <2>4, PlacesAre, OpenedStays DEF Unused
  <2> QED BY <2>6, <2>7, <2>8
<1> QED
  BY <1>4, <1>5, <1>6, <1>7, <1>8, <1>9, <1>10, <1>11, <1>13, <1>14 DEF Write

LEMMA BaseStep == Base /\ [Next]_vars => Base'
<1> SUFFICES ASSUME Base, [Next]_vars PROVE Base'
  OBVIOUS
<1> USE BoundsAssumption DEF Base
<1>1. used \in Nat
  BY DEF TypeOK
<1>2. CASE \E w \in Writers : Write(w) \/ Kill(w)
  BY <1>2, BaseWrite
<1>3. ASSUME NEW q \in Readers, LookForStore(q) \/ Select(q)
      PROVE  Base'
  <2>1. /\ UNCHANGED <<set, quarantined, aside, fenced, handover, now, rots, pc, conn, seen,
                       target, again, met, result, faulted, mistaken>>
        /\ file' = file /\ used' \in 0 .. NFiles /\ used' >= used /\ live' \in 0 .. used'
    <3>1. CASE LookForStore(q)
      BY <1>1, <3>1 DEF LookForStore, world, writer, store, TypeOK
    <3>2. CASE Select(q)
      <4>1. PICK n \in 1 .. NFiles : Connect(n)
        BY <3>2 DEF Select
      <4>2. used' \in 0 .. NFiles /\ used' >= used /\ live' \in 0 .. used' /\ file' = file
        BY <4>1, <1>1, Connects
      <4> QED BY <3>2, <4>2 DEF Select, world, writer
    <3> QED BY <1>3, <3>1, <3>2
  <2>2. /\ asking' \in [Readers -> {"idle", "select", "over"}]
        /\ answer' \in [Readers -> {"none", "empty", "unavailable", "rows"}]
    BY <1>3 DEF LookForStore, Select, Answers, TypeOK
  <2>3. TypeOK'
    BY <2>1, <2>2 DEF TypeOK
  <2>4. Alone' /\ Unused'
    BY <1>1, <2>1 DEF Alone, Busy, Unused
  <2>5. Opened'
    <3>1. \A n \in 1 .. used : n \in 1 .. used'
      BY <1>1, <2>1
    <3> QED BY <2>1, <3>1 DEF Opened
  <2> QED BY <2>3, <2>4, <2>5
<1>4. CASE Rot
  <2>1. live \in 1 .. used /\ used' = used /\ At(live, Damaged(file[live]))
    BY <1>1, <1>4, FileSteps DEF Rot, TypeOK
  <2>2. file' \in [1 .. NFiles -> Stores] /\ Unused'
    <3>1. file[live] \in Stores
      BY <2>1 DEF TypeOK
    <3> QED BY <2>1, <3>1, ChangeTypes, FileStays
  <2>3. TypeOK'
    BY <1>4, <2>2 DEF Rot, TypeOK, writer, reader
  <2>4. Opened' /\ Alone'
    BY <1>4 DEF Rot, writer, Opened, Alone, Busy
  <2> QED BY <2>2, <2>3, <2>4
<1>5. CASE Tick \/ SetAside \/ Breadcrumb
  <2>1. UNCHANGED <<set, file, used, quarantined, rots, writer, reader>>
    BY <1>5 DEF Tick, SetAside, Breadcrumb, store
  <2>2. /\ live' \in 0 .. used /\ aside' \subseteq 1 .. NFiles /\ fenced' \in BOOLEAN
        /\ handover' \in {"before", "aside", "done"} /\ now' \in 1 .. MaxSeconds
    <3>1. CASE Tick
      <4>1. set.seconds \in 1 .. MaxSeconds
        BY SettingTypes DEF TypeOK
      <4> QED BY <3>1, <4>1 DEF Tick, TypeOK, store
    <3>2. CASE SetAside
      <4>1. live # 0 => live \in 1 .. NFiles
        BY <1>1 DEF TypeOK
      <4>2. live' \in {0, live} /\ aside' \subseteq aside \cup {live} /\ (live = 0 => aside' = aside)
        BY <3>2 DEF SetAside
      <4> QED BY <1>1, <3>2, <4>1, <4>2 DEF SetAside, TypeOK
    <3>3. CASE Breadcrumb
      BY <3>3 DEF Breadcrumb, TypeOK, store
    <3> QED BY <1>5, <3>1, <3>2, <3>3
  <2>3. TypeOK'
    BY <2>1, <2>2 DEF TypeOK, writer, reader
  <2>4. Opened' /\ Alone' /\ Unused'
    BY <2>1 DEF writer, Opened, Alone, Busy, Unused
  <2> QED BY <2>3, <2>4
<1>6. CASE UNCHANGED vars
  <2>1. TypeOK'
    BY <1>6 DEF vars, TypeOK
  <2>2. Opened' /\ Alone' /\ Unused'
    BY <1>6 DEF vars, Opened, Alone, Busy, Unused
  <2> QED BY <2>1, <2>2
<1> QED BY <1>2, <1>3, <1>4, <1>5, <1>6 DEF Next

LEMMA BaseHolds == Spec => []Base
  BY BaseInit, BaseStep, PTL DEF Spec

\* Every variable keeps to its kind: a call is at one of its places, a file is
\* one of those made so far, a version one that some program knows.
THEOREM RunStoreTypes == Spec => []TypeOK
<1>1. Base => TypeOK
  BY DEF Base
<1> QED BY <1>1, BaseHolds, PTL

-----------------------------------------------------------------------------
(* What a call's step leaves of the others.                                *)

LEMMA OthersStay ==
    ASSUME Base, NEW w \in Writers, Write(w) \/ Kill(w)
    PROVE  /\ set' = set /\ aside' = aside /\ rots' = rots
           /\ \A v \in Writers : v # w =>
                /\ pc'[v] = pc[v] /\ conn'[v] = conn[v] /\ seen'[v] = seen[v]
                /\ result'[v] = result[v] /\ met'[v] = met[v]
           /\ Busy(w) \/ (pc[w] = "idle" /\ (set.overlap \/ \A v \in Writers : ~Busy(v)))
           /\ faulted \subseteq faulted' /\ mistaken \subseteq mistaken'
<1> USE DEF Base, kept
<1>1. set' = set /\ aside' = aside /\ rots' = rots
  BY DEF Write, Kill, CheckFence, Open, ReadVersion, EnsureTables, StampBaseline, MigrateStep,
         MigrationFails, Migrated, Insert, WriteFails, MeetsDamage, Quarantine,
         QuarantineFails, world
<1>2. seen' = seen \/ \E x : seen' = [seen EXCEPT ![w] = x]
  BY DEF Write, Kill, CheckFence, Open, ReadVersion, EnsureTables, StampBaseline, MigrateStep,
         MigrationFails, Migrated, Insert, WriteFails, MeetsDamage, Quarantine, QuarantineFails
<1>3. conn' = conn \/ \E x : conn' = [conn EXCEPT ![w] = x]
  BY DEF Write, Kill, CheckFence, Open, ReadVersion, EnsureTables, StampBaseline, MigrateStep,
         MigrationFails, Migrated, Insert, WriteFails, MeetsDamage, Quarantine, QuarantineFails,
         Returns, Stays, NextRung, Climb
<1>4. pc' = pc \/ \E x : pc' = [pc EXCEPT ![w] = x]
  BY DEF Write, Kill, CheckFence, Open, ReadVersion, EnsureTables, StampBaseline, MigrateStep,
         MigrationFails, Migrated, Insert, WriteFails, MeetsDamage, Quarantine, QuarantineFails,
         Returns, Goto, Stays, NextRung, Climb
<1>5. result' = result \/ \E x : result' = [result EXCEPT ![w] = x]
  BY DEF Write, Kill, CheckFence, Open, ReadVersion, EnsureTables, StampBaseline, MigrateStep,
         MigrationFails, Migrated, Insert, WriteFails, MeetsDamage, Quarantine, QuarantineFails,
         Returns, Stays, NextRung, Climb
<1>6. faulted \subseteq faulted' /\ mistaken \subseteq mistaken'
  BY DEF Write, Kill, CheckFence, Open, ReadVersion, EnsureTables, StampBaseline, MigrateStep,
         MigrationFails, Migrated, Insert, WriteFails, MeetsDamage, Quarantine, QuarantineFails,
         Renames
<1>9. met' = met \/ \E x : met' = [met EXCEPT ![w] = x]
  BY DEF Write, Kill, CheckFence, Open, ReadVersion, EnsureTables, StampBaseline, MigrateStep,
         MigrationFails, Migrated, Insert, WriteFails, MeetsDamage, Quarantine, QuarantineFails
<1>7. Busy(w) \/ (pc[w] = "idle" /\ (set.overlap \/ \A v \in Writers : ~Busy(v)))
  BY DEF Write, Kill, CheckFence, Open, ReadVersion, EnsureTables, StampBaseline, MigrateStep,
         MigrationFails, Migrating, Migrated, Insert, WriteFails, MeetsDamage, Quarantine,
         QuarantineFails, Busy, Working
<1>8. \A v \in Writers : v # w =>
        /\ pc'[v] = pc[v] /\ conn'[v] = conn[v] /\ seen'[v] = seen[v]
        /\ result'[v] = result[v] /\ met'[v] = met[v]
  BY <1>2, <1>3, <1>4, <1>5, <1>9 DEF TypeOK
<1> QED BY <1>1, <1>6, <1>7, <1>8

-----------------------------------------------------------------------------
(* The ladder.                                                             *)

\* The file a step changes, if any, and what becomes of it.
LEMMA FileOf ==
    ASSUME Base, NEW w \in Writers, Write(w) \/ Kill(w)
    PROVE  \/ file' = file
           \/ /\ conn[w] \in 1 .. used /\ file[conn[w]] \in Stores
              /\ \/ EnsureTables(w) /\ At(conn[w], Tabled(file[conn[w]]))
                 \/ StampBaseline(w) /\ At(conn[w], Stamped(file[conn[w]]))
                 \/ Insert(w) /\ At(conn[w], Filled(file[conn[w]], w))
                 \/ /\ MigrateStep(w) /\ At(conn[w], Climbed(file[conn[w]], target[w]))
                    /\ target[w] \in 2 .. Newest /\ file[conn[w]].stamp < target[w]
<1> USE DEF Base
<1>1. pc[w] \in Working => file[conn[w]] \in Stores /\ conn[w] \in 1 .. used
  BY BoundsAssumption DEF Opened, TypeOK
<1>2. CASE EnsureTables(w) \/ StampBaseline(w) \/ Insert(w)
  <2>1. pc[w] \in Working
    BY <1>2 DEF EnsureTables, StampBaseline, Insert, Working
  <2> QED BY <1>1, <1>2, <2>1, FileSteps
<1>3. CASE MigrateStep(w)
  <2>1. pc[w] \in Working /\ target[w] \in 2 .. Newest
    <3>1. set.version[w] \in 0 .. Newest
      BY SettingTypes DEF TypeOK
    <3> QED BY <1>3, <3>1, BoundsAssumption DEF MigrateStep, Migrating, Working, TypeOK
  <2>2. \/ UNCHANGED file
        \/ file[conn[w]].stamp < target[w] /\ Commits(w)
    BY <1>3 DEF MigrateStep, Climb, Mine
  <2> QED BY <1>1, <1>3, <2>1, <2>2, FileSteps
<1>4. CASE \/ CheckFence(w) \/ Open(w) \/ ReadVersion(w) \/ MigrationFails(w) \/ Migrated(w)
           \/ WriteFails(w) \/ MeetsDamage(w) \/ Quarantine(w) \/ QuarantineFails(w) \/ Kill(w)
  <2>1. CASE Open(w)
    BY <2>1 DEF Open, Connect, store
  <2> QED
    BY <1>4, <2>1 DEF CheckFence, ReadVersion, MigrationFails, Migrated, WriteFails, MeetsDamage,
           Quarantine, QuarantineFails, Kill, store
<1> QED BY <1>2, <1>3, <1>4 DEF Write

\* A call that overlaps others climbs from where the store is, and neither
\* makes one nor moves it.
LEMMA SteadyWrite ==
    ASSUME Base, Ladder, NEW w \in Writers, Write(w) \/ Kill(w)
    PROVE  Steady'
<1> SUFFICES ASSUME set.overlap
    PROVE  /\ used' = 1 /\ live' = 1 /\ file'[1].stamp >= 1 /\ ~file'[1].rotten
           /\ pc'[w] # "quarantine" /\ pc'[w] # "stamp"
           /\ pc'[w] = "tables" => seen'[w] >= 1
  BY OthersStay DEF Ladder, Steady
<1> USE DEF Base
<1>1. /\ used = 1 /\ live = 1 /\ file[1].stamp >= 1 /\ ~file[1].rotten
      /\ pc[w] # "quarantine" /\ pc[w] # "stamp"
      /\ pc[w] = "tables" => seen[w] >= 1
  BY DEF Ladder, Steady
<1>2. pc[w] \in Working => conn[w] = 1
  BY <1>1 DEF Opened
<1>3. file'[1].stamp >= 1 /\ ~file'[1].rotten
  <2>1. CASE file' = file
    BY <1>1, <2>1
  <2>2. ASSUME conn[w] \in 1 .. used, file[conn[w]] \in Stores, NEW f \in Stores,
               At(conn[w], f), f.stamp >= 1, ~f.rotten
        PROVE  file'[1].stamp >= 1 /\ ~file'[1].rotten
    BY <1>1, <2>2 DEF At, TypeOK
  <2>3. CASE conn[w] \in 1 .. used /\ file[conn[w]] \in Stores /\ EnsureTables(w)
             /\ At(conn[w], Tabled(file[conn[w]]))
    <3>1. conn[w] = 1
      BY <1>1, <2>3
    <3>2. Tabled(file[1]).stamp >= 1 /\ ~Tabled(file[1]).rotten /\ Tabled(file[1]) \in Stores
      BY <1>1, <2>3, <3>1, StoreChanges, ChangeTypes
    <3> QED BY <2>2, <2>3, <3>1, <3>2
  <2>4. CASE StampBaseline(w)
    BY <1>1, <2>4 DEF StampBaseline
  <2>5. CASE conn[w] \in 1 .. used /\ file[conn[w]] \in Stores /\ Insert(w)
             /\ At(conn[w], Filled(file[conn[w]], w))
    <3>1. conn[w] = 1
      BY <1>1, <2>5
    <3>2. /\ Filled(file[1], w).stamp >= 1 /\ ~Filled(file[1], w).rotten
          /\ Filled(file[1], w) \in Stores
      BY <1>1, <2>5, <3>1, StoreChanges, ChangeTypes
    <3> QED BY <2>2, <2>5, <3>1, <3>2
  <2>6. CASE /\ conn[w] \in 1 .. used /\ file[conn[w]] \in Stores
             /\ At(conn[w], Climbed(file[conn[w]], target[w]))
             /\ target[w] \in 2 .. Newest
    <3>1. conn[w] = 1
      BY <1>1, <2>6
    <3>2. /\ Climbed(file[1], target[w]).stamp >= 1 /\ ~Climbed(file[1], target[w]).rotten
          /\ Climbed(file[1], target[w]) \in Stores
      <4>1. file[1] \in Stores /\ target[w] \in 2 .. Newest /\ target[w] >= 1
        BY <2>6, <3>1, BoundsAssumption
      <4>2. /\ Climbed(file[1], target[w]).stamp = target[w]
            /\ Climbed(file[1], target[w]).rotten = file[1].rotten
        BY <4>1, StoreChanges
      <4>3. Climbed(file[1], target[w]) \in Stores
        BY <4>1, ChangeTypes
      <4> QED BY <1>1, <4>1, <4>2, <4>3
    <3> QED BY <2>2, <2>6, <3>1, <3>2
  <2> QED BY <2>1, <2>3, <2>4, <2>5, <2>6, FileOf
<1>4. used' = 1 /\ live' = 1
  <2>1. CASE Open(w)
    <3>1. PICK n \in 1 .. NFiles : Connect(n)
      BY <2>1 DEF Open
    <3> QED BY <1>1, <3>1, Connects
  <2>2. ~Quarantine(w) /\ ~QuarantineFails(w)
    BY <1>1 DEF Quarantine, QuarantineFails
  <2> QED
    BY <1>1, <2>1, <2>2 DEF Write, Kill, CheckFence, ReadVersion, EnsureTables, StampBaseline,
         MigrateStep, MigrationFails, Migrated, Insert, WriteFails, MeetsDamage, store
<1>5. /\ pc'[w] # "quarantine" /\ pc'[w] # "stamp"
      /\ pc'[w] = "tables" => seen'[w] >= 1
  <2>1. CASE ReadVersion(w)
    <3>1. seen'[w] = file[1].stamp /\ pc'[w] = "tables"
      BY <1>2, <2>1 DEF ReadVersion, Goto, Mine, Working, TypeOK
    <3> QED BY <1>1, <3>1
  <2>2. CASE EnsureTables(w)
    <3>1. seen[w] # 0
      BY <1>1, <2>2 DEF EnsureTables
    <3> QED BY <2>2, <3>1 DEF EnsureTables, Goto, TypeOK
  <2>3. CASE StampBaseline(w) \/ Quarantine(w)
    BY <1>1, <2>3 DEF StampBaseline, Quarantine
  <2>4. CASE MeetsDamage(w)
    BY <1>1, <1>2, <2>4 DEF MeetsDamage, Mine
  <2>5. CASE MigrateStep(w)
    BY <2>5 DEF MigrateStep, Migrating, Climb, NextRung, Returns, Goto, TypeOK
  <2>6. CASE Open(w) \/ Migrated(w) \/ CheckFence(w)
    BY <1>1, <2>6 DEF Open, Migrated, CheckFence, Returns, Goto, TypeOK
  <2>7. CASE MigrationFails(w) \/ Insert(w) \/ WriteFails(w) \/ QuarantineFails(w) \/ Kill(w)
    BY <2>7 DEF MigrationFails, Insert, WriteFails, QuarantineFails, Kill, Returns, Goto, TypeOK
  <2> QED BY <2>1, <2>2, <2>3, <2>4, <2>5, <2>6, <2>7 DEF Write
<1> QED BY <1>3, <1>4, <1>5

\* By itself or not, a call that found version 0 stamps what is still at 0.
LEMMA FreshWrite ==
    ASSUME Base, Ladder, NEW w \in Writers, Write(w) \/ Kill(w), Steady'
    PROVE  Fresh'
<1> USE DEF Base
<1>1. CASE set.overlap
  <2>1. set'.overlap
    BY <1>1, OthersStay
  <2>2. \A v \in Writers : pc'[v] # "stamp" /\ (pc'[v] = "tables" => seen'[v] >= 1)
    BY <2>1 DEF Steady
  <2> QED BY <2>2 DEF Fresh
<1>2. CASE ~set.overlap
  <2>1. \A v \in Writers : v # w => ~Busy(v)
    BY <1>2, OthersStay DEF Alone
  <2>2. \A v \in Writers : v # w => pc'[v] \notin {"tables", "stamp"}
    BY <2>1, OthersStay DEF Busy
  <2> SUFFICES /\ pc'[w] \in {"tables", "stamp"} /\ seen'[w] = 0 => file'[conn'[w]].stamp = 0
               /\ pc'[w] = "stamp" => seen'[w] = 0
    BY <2>2 DEF Fresh
  <2>3. CASE ReadVersion(w)
    BY <2>3 DEF ReadVersion, Goto, Mine, store, TypeOK
  <2>4. CASE EnsureTables(w)
    <3>1. /\ conn[w] \in 1 .. used /\ file[conn[w]] \in Stores
          /\ At(conn[w], Tabled(file[conn[w]]))
          /\ conn[w] \in 1 .. NFiles
      <4>1. conn[w] \in 1 .. used
        BY <2>4 DEF EnsureTables, Opened, Working
      <4>2. conn[w] \in 1 .. NFiles
        BY <4>1, BoundsAssumption DEF TypeOK
      <4> QED BY <2>4, <4>1, <4>2, FileSteps DEF TypeOK
    <3>2. file'[conn[w]].stamp = file[conn[w]].stamp
      BY <3>1, StoreChanges DEF At, TypeOK
    <3>3. /\ pc[w] = "tables" /\ conn' = conn /\ seen' = seen
          /\ pc'[w] = IF seen[w] = 0 THEN "stamp" ELSE "migrate"
      BY <2>4 DEF EnsureTables, Goto, TypeOK
    <3>4. seen[w] = 0 => file[conn[w]].stamp = 0
      BY <3>3 DEF Ladder, Fresh
    <3> QED BY <3>2, <3>3, <3>4
  <2>5. CASE StampBaseline(w) \/ Quarantine(w) \/ CheckFence(w) \/ Open(w) \/ Migrated(w)
    BY <2>5 DEF StampBaseline, Quarantine, CheckFence, Open, Migrated, Returns, Goto, TypeOK
  <2>6. CASE MigrateStep(w)
    BY <2>6 DEF MigrateStep, Migrating, Climb, NextRung, Returns, Goto, TypeOK
  <2>7. CASE MigrationFails(w) \/ Insert(w) \/ WriteFails(w) \/ QuarantineFails(w) \/ Kill(w)
    BY <2>7 DEF MigrationFails, Insert, WriteFails, QuarantineFails, Kill, Returns, Goto, TypeOK
  <2>8. CASE MeetsDamage(w)
    BY <2>8 DEF MeetsDamage, Returns, Goto, TypeOK
  <2> QED BY <2>3, <2>4, <2>5, <2>6, <2>7, <2>8 DEF Write
<1> QED BY <1>1, <1>2

\* No stamp is lowered, and a rung that is climbed was above the others.
LEMMA RungsWrite ==
    ASSUME Base, Ladder, NEW w \in Writers, Write(w) \/ Kill(w)
    PROVE  /\ Rungs'
           /\ \A n \in 1 .. NFiles : file'[n].stamp >= file[n].stamp
<1> USE DEF Base
<1>1. file \in [1 .. NFiles -> Stores] /\ Newest \in Nat
  BY BoundsAssumption DEF TypeOK
<1>2. \A n \in 1 .. NFiles : file[n].stamp \in 0 .. Newest /\ file[n].steps \subseteq 2 .. Newest
  BY <1>1, StoreTypes
<1>3. ASSUME NEW f \in Stores, conn[w] \in 1 .. used, At(conn[w], f),
             f.stamp >= file[conn[w]].stamp, \A t \in f.steps : t <= f.stamp
      PROVE  /\ Rungs'
             /\ \A n \in 1 .. NFiles : file'[n].stamp >= file[n].stamp
  <2>1. \A n \in 1 .. NFiles : file'[n] = IF n = conn[w] THEN f ELSE file[n]
    BY <1>1, <1>3 DEF At
  <2> QED BY <1>2, <1>3, <2>1 DEF Ladder, Rungs
<1>4. ASSUME conn[w] \in 1 .. used, file[conn[w]] \in Stores
      PROVE  /\ file[conn[w]].stamp \in 0 .. Newest
             /\ file[conn[w]].steps \subseteq 2 .. Newest
             /\ \A t \in file[conn[w]].steps : t <= file[conn[w]].stamp
  <2>1. conn[w] \in 1 .. NFiles
    BY <1>4, BoundsAssumption DEF TypeOK
  <2> QED BY <1>2, <2>1 DEF Ladder, Rungs
<1>5. CASE file' = file
  BY <1>2, <1>5 DEF Ladder, Rungs
<1>6. CASE conn[w] \in 1 .. used /\ file[conn[w]] \in Stores /\ EnsureTables(w)
           /\ At(conn[w], Tabled(file[conn[w]]))
  <2>1. /\ Tabled(file[conn[w]]).stamp = file[conn[w]].stamp
        /\ Tabled(file[conn[w]]).steps = file[conn[w]].steps
        /\ Tabled(file[conn[w]]) \in Stores
    BY <1>6, StoreChanges, ChangeTypes
  <2> QED BY <1>3, <1>4, <1>6, <2>1
<1>7. CASE conn[w] \in 1 .. used /\ file[conn[w]] \in Stores /\ StampBaseline(w)
           /\ At(conn[w], Stamped(file[conn[w]]))
  <2>1. file[conn[w]].stamp = 0
    BY <1>7 DEF Ladder, Fresh, StampBaseline
  <2>2. file[conn[w]].steps = {}
    BY <1>4, <1>7, <2>1
  <2>3. /\ Stamped(file[conn[w]]).stamp = 1 /\ Stamped(file[conn[w]]).steps = {}
        /\ Stamped(file[conn[w]]) \in Stores
    BY <1>7, <2>2, StoreChanges, ChangeTypes
  <2> QED BY <1>3, <1>7, <2>1, <2>3
<1>8. CASE conn[w] \in 1 .. used /\ file[conn[w]] \in Stores /\ Insert(w)
           /\ At(conn[w], Filled(file[conn[w]], w))
  <2>1. /\ Filled(file[conn[w]], w).stamp = file[conn[w]].stamp
        /\ Filled(file[conn[w]], w).steps = file[conn[w]].steps
        /\ Filled(file[conn[w]], w) \in Stores
    BY <1>8, StoreChanges, ChangeTypes
  <2> QED BY <1>3, <1>4, <1>8, <2>1
<1>9. CASE /\ conn[w] \in 1 .. used /\ file[conn[w]] \in Stores
           /\ At(conn[w], Climbed(file[conn[w]], target[w]))
           /\ target[w] \in 2 .. Newest /\ file[conn[w]].stamp < target[w]
  <2> DEFINE f == Climbed(file[conn[w]], target[w])
  <2>1. f \in Stores /\ f.stamp = target[w] /\ f.steps = file[conn[w]].steps \cup {target[w]}
    BY <1>9, StoreChanges, ChangeTypes
  <2>2. At(conn[w], f)
    BY <1>9
  <2> HIDE DEF f
  <2>3. \A t \in f.steps : t <= f.stamp
    BY <1>1, <1>4, <1>9, <2>1
  <2>4. f.stamp >= file[conn[w]].stamp
    BY <1>1, <1>4, <1>9, <2>1
  <2> QED BY <1>3, <1>9, <2>1, <2>2, <2>3, <2>4
<1> QED BY <1>5, <1>6, <1>7, <1>8, <1>9, FileOf

\* A rung that cannot be climbed is above the version, and is not there.
LEMMA ErrorWrite ==
    ASSUME Base, Ladder, NEW w \in Writers, Write(w) \/ Kill(w)
    PROVE  MigrationErrorIsReal'
<1> USE DEF Base
<1> SUFFICES ASSUME result'[w] \in {"migrationFailed", "raised"} PROVE w \in faulted'
  BY OthersStay DEF Ladder, MigrationErrorIsReal
<1>1. CASE MigrateStep(w)
  <2>1. ~Returns(w, MigrationEnds(w))
    <3>1. SUFFICES ASSUME Mine(w).stamp < target[w], target[w] \in Mine(w).steps PROVE FALSE
      <4>1. Goto(w, "over") => pc'[w] = "over"
        BY DEF Goto, TypeOK
      <4>2. pc[w] # "over"
        BY <1>1 DEF MigrateStep, Migrating
      <4> QED BY <1>1, <4>1, <4>2 DEF MigrateStep, Climb, NextRung, Returns
    <3>2. conn[w] \in 1 .. NFiles
      BY <1>1, BoundsAssumption DEF MigrateStep, Migrating, Opened, TypeOK, Working
    <3>3. target[w] <= file[conn[w]].stamp
      BY <3>1, <3>2 DEF Ladder, Rungs, Mine
    <3>4. file[conn[w]].stamp \in 0 .. Newest /\ target[w] \in 2 .. Newest + 1
      BY <3>2, StoreTypes DEF TypeOK
    <3> QED BY <3>1, <3>3, <3>4, BoundsAssumption DEF Mine
  <2>2. result' = result
    BY <1>1, <2>1 DEF MigrateStep, Climb, NextRung, Stays
  <2> QED BY <2>2, OthersStay DEF Ladder, MigrationErrorIsReal
<1>2. CASE MigrationFails(w)
  BY <1>2 DEF MigrationFails
<1>3. CASE \/ Open(w) \/ ReadVersion(w) \/ EnsureTables(w) \/ StampBaseline(w) \/ Migrated(w)
           \/ Quarantine(w)
  <2>1. result' = result
    BY <1>3 DEF Open, ReadVersion, EnsureTables, StampBaseline, Migrated, Quarantine
  <2> QED BY <2>1, OthersStay DEF Ladder, MigrationErrorIsReal
<1>4. CASE CheckFence(w) \/ MeetsDamage(w)
  <2>1. result'[w] \in {result[w], "fenced", "failed"}
    BY <1>4 DEF CheckFence, MeetsDamage, Stays, Returns, TypeOK
  <2> QED BY <2>1, OthersStay DEF Ladder, MigrationErrorIsReal
<1>5. CASE Insert(w) \/ WriteFails(w) \/ QuarantineFails(w) \/ Kill(w)
  BY <1>5 DEF Insert, WriteFails, QuarantineFails, Kill, Returns, TypeOK
<1> QED BY <1>1, <1>2, <1>3, <1>4, <1>5 DEF Write

LEMMA LadderInit == Init /\ Calm => Ladder
<1> SUFFICES ASSUME Init, Calm PROVE Ladder
  OBVIOUS
<1>1. set \in Settings /\ NFiles \in Nat \ {0}
  BY BoundsAssumption DEF Init
<1>2. \A n \in 1 .. NFiles : file[n].steps = {} /\ ~file[n].rotten
  BY DEF Init, Blank
<1>3. Rungs
  BY <1>2 DEF Rungs
<1>4. Fresh /\ MigrationErrorIsReal
  BY DEF Init, Fresh, MigrationErrorIsReal
<1>5. Steady
  <2>1. SUFFICES ASSUME set.overlap PROVE used = 1 /\ live = 1 /\ file[1].stamp >= 1 /\ ~file[1].rotten
    BY DEF Init, Steady
  <2>2. set.established
    BY <2>1 DEF Calm
  <2>3. 1 \in 1 .. NFiles
    BY <1>1
  <2>4. file[1] = [Blank EXCEPT !.tables = TRUE, !.stamp = 1]
    BY <2>2, <2>3 DEF Init
  <2>5. file[1].stamp = 1 /\ file[1].rotten = FALSE
    BY <2>4 DEF Blank
  <2>6. used = 1 /\ live = 1
    BY <2>2 DEF Init
  <2> QED BY <2>5, <2>6
<1> QED BY <1>3, <1>4, <1>5 DEF Ladder

\* A step no call makes changes no version and, over a shared store, nothing a
\* call relies on.
LEMMA LadderWorld ==
    ASSUME Base, Calm, Ladder,
           \/ \E q \in Readers : LookForStore(q) \/ Select(q)
           \/ Rot \/ Tick \/ SetAside \/ Breadcrumb
           \/ UNCHANGED vars
    PROVE  /\ Ladder' /\ set' = set
           /\ \A n \in 1 .. NFiles : file'[n].stamp >= file[n].stamp
<1> USE DEF Base
<1>1. UNCHANGED <<set, pc, conn, seen, result, faulted>>
  BY DEF LookForStore, Select, Rot, Tick, SetAside, Breadcrumb, vars, world, writer
<1>2. /\ Newest \in Nat /\ file \in [1 .. NFiles -> Stores]
      /\ \A n \in 1 .. NFiles : file[n].stamp \in 0 .. Newest
  BY BoundsAssumption, StoreTypes DEF TypeOK
<1>3. CASE Rot
  <2>1. live \in 1 .. NFiles /\ At(live, Damaged(file[live]))
    BY <1>3, BoundsAssumption, FileSteps DEF Rot, TypeOK
  <2>2. \A n \in 1 .. NFiles :
          file'[n].stamp = file[n].stamp /\ file'[n].steps = file[n].steps
    BY <1>2, <2>1, StoreChanges DEF At
  <2>3. Rungs' /\ \A n \in 1 .. NFiles : file'[n].stamp >= file[n].stamp
    BY <1>2, <2>2 DEF Ladder, Rungs
  <2>4. \A w \in Writers : pc[w] \in {"tables", "stamp"} => conn[w] \in 1 .. NFiles
    BY BoundsAssumption DEF Opened, Working, TypeOK
  <2>5. Fresh'
    BY <1>1, <2>2, <2>4 DEF Ladder, Fresh
  <2>6. ~set.overlap
    <3>1. set.damages \in Nat /\ rots \in Nat
      BY SettingTypes DEF TypeOK
    <3> QED BY <1>3, <3>1 DEF Rot, Calm
  <2>7. Steady' /\ MigrationErrorIsReal'
    BY <1>1, <2>6 DEF Ladder, Steady, MigrationErrorIsReal
  <2> QED BY <1>1, <2>3, <2>5, <2>7 DEF Ladder
<1>4. CASE ~Rot
  <2>1. file' = file
    BY <1>4 DEF LookForStore, Select, Connect, Tick, SetAside, Breadcrumb, vars, store
  <2>2. set.overlap => used' = used /\ live' = live
    <3>1. SUFFICES ASSUME set.overlap PROVE used' = used /\ live' = live
      OBVIOUS
    <3>2. live = 1 /\ ~set.handOver
      BY <3>1 DEF Ladder, Steady, Calm
    <3>3. ASSUME NEW q \in Readers, Select(q) PROVE used' = used /\ live' = live
      <4>1. PICK n \in 1 .. NFiles : Connect(n)
        BY <3>3 DEF Select
      <4> QED BY <3>2, <4>1, Connects
    <3> QED
      BY <1>4, <3>2, <3>3 DEF LookForStore, Tick, SetAside, Breadcrumb, vars, store
  <2>3. Rungs' /\ Fresh' /\ MigrationErrorIsReal'
    BY <1>1, <2>1 DEF Ladder, Rungs, Fresh, MigrationErrorIsReal
  <2>4. Steady'
    BY <1>1, <2>1, <2>2 DEF Ladder, Steady
  <2>5. \A n \in 1 .. NFiles : file'[n].stamp >= file[n].stamp
    BY <1>2, <2>1
  <2> QED BY <1>1, <2>3, <2>4, <2>5 DEF Ladder
<1> QED BY <1>3, <1>4

LEMMA LadderStep ==
    Base /\ Calm /\ Ladder /\ [Next]_vars =>
        /\ Ladder' /\ Calm'
        /\ \A n \in 1 .. NFiles : file'[n].stamp >= file[n].stamp
<1> SUFFICES ASSUME Base, Calm, Ladder, [Next]_vars
    PROVE  /\ Ladder' /\ Calm'
           /\ \A n \in 1 .. NFiles : file'[n].stamp >= file[n].stamp
  OBVIOUS
<1>1. ASSUME NEW w \in Writers, Write(w) \/ Kill(w)
      PROVE  /\ Ladder' /\ set' = set
             /\ \A n \in 1 .. NFiles : file'[n].stamp >= file[n].stamp
  BY <1>1, SteadyWrite, FreshWrite, RungsWrite, ErrorWrite, OthersStay DEF Ladder
<1>2. /\ Ladder' /\ set' = set
      /\ \A n \in 1 .. NFiles : file'[n].stamp >= file[n].stamp
  BY <1>1, LadderWorld DEF Next
<1> QED BY <1>2 DEF Calm

LEMMA LadderHolds == Spec /\ Calm => [](Base /\ Calm /\ Ladder)
<1>1. Init /\ Calm => Ladder
  BY LadderInit
<1>2. Base /\ Calm /\ Ladder /\ [Next]_vars => Calm' /\ Ladder'
  BY LadderStep
<1> QED BY <1>1, <1>2, BaseHolds, PTL DEF Spec

\* "A higher user_version is never migrated or downgraded", whichever programs
\* share an established store and whenever they stop: no step of any of them
\* lowers the stamp of a file.  Calls that follow one another need no such
\* store, whatever damages it.
THEOREM NoVersionLost == Spec /\ Calm => NeverDowngraded
<1>1. Base /\ Calm /\ Ladder /\ [Next]_vars =>
        [\A n \in 1 .. NFiles : file'[n].stamp >= file[n].stamp]_vars
  BY LadderStep
<1> QED BY <1>1, LadderHolds, PTL DEF Spec, NeverDowngraded

\* Reading the version again under the write lock is enough: of any number of
\* programs that climb the same ladder, none fails because another one has
\* climbed a rung first.
THEOREM ErrorsAreReal == Spec /\ Calm => []MigrationErrorIsReal
<1>1. Ladder => MigrationErrorIsReal
  BY DEF Ladder
<1> QED BY <1>1, LadderHolds, PTL

-----------------------------------------------------------------------------
(* The rows.                                                               *)

LEMMA KeptInit == Init => Kept
<1> SUFFICES ASSUME Init PROVE Kept
  OBVIOUS
<1>1. \A n \in 1 .. NFiles : file[n].rows = {} /\ ~file[n].rotten
  BY DEF Init, Blank
<1>2. \A w \in Writers : pc[w] = "idle" /\ result[w] = "none"
  BY DEF Init
<1> QED BY <1>1, <1>2 DEF Kept, Reachable, Held, Met, Doomed, Recorded, Working

\* Rows and damage only grow.
LEMMA FilesGrow ==
    ASSUME Base, [Next]_vars
    PROVE  /\ \A n \in 1 .. NFiles :
                /\ file[n].rows \subseteq file'[n].rows
                /\ file[n].rotten => file'[n].rotten
           /\ used \in Nat /\ used' \in Nat /\ used' >= used /\ aside \subseteq aside'
           /\ mistaken \subseteq mistaken' /\ set' = set
<1> USE DEF Base
<1>1. file \in [1 .. NFiles -> Stores]
  BY DEF TypeOK
<1>2. ASSUME NEW n \in 1 .. NFiles, NEW f \in Stores, At(n, f),
             file[n].rows \subseteq f.rows, file[n].rotten => f.rotten
      PROVE  \A m \in 1 .. NFiles :
                /\ file[m].rows \subseteq file'[m].rows
                /\ file[m].rotten => file'[m].rotten
  BY <1>1, <1>2 DEF At
<1>3. \A m \in 1 .. NFiles :
        /\ file[m].rows \subseteq file'[m].rows
        /\ file[m].rotten => file'[m].rotten
  <2>1. ASSUME NEW w \in Writers, Write(w) \/ Kill(w), file' # file
        PROVE  \E f \in Stores :
                 /\ conn[w] \in 1 .. NFiles /\ At(conn[w], f)
                 /\ file[conn[w]].rows \subseteq f.rows /\ (file[conn[w]].rotten => f.rotten)
    <3> DEFINE g == file[conn[w]]
    <3>1. conn[w] \in 1 .. used /\ g \in Stores
      BY <2>1, FileOf
    <3>2. conn[w] \in 1 .. NFiles
      BY <3>1, BoundsAssumption DEF TypeOK
    <3>3. \/ At(conn[w], Tabled(g)) \/ At(conn[w], Stamped(g)) \/ At(conn[w], Filled(g, w))
          \/ At(conn[w], Climbed(g, target[w])) /\ target[w] \in 2 .. Newest
      BY <2>1, FileOf
    <3> HIDE DEF g
    <3>4. CASE At(conn[w], Tabled(g))
      <4>1. Tabled(g) \in Stores /\ Tabled(g).rows = g.rows /\ Tabled(g).rotten = g.rotten
        BY <3>1, StoreChanges, ChangeTypes
      <4> QED BY <3>2, <3>4, <4>1 DEF g
    <3>5. CASE At(conn[w], Stamped(g))
      <4>1. Stamped(g) \in Stores /\ Stamped(g).rows = g.rows /\ Stamped(g).rotten = g.rotten
        BY <3>1, StoreChanges, ChangeTypes
      <4> QED BY <3>2, <3>5, <4>1 DEF g
    <3>6. CASE At(conn[w], Filled(g, w))
      <4>1. /\ Filled(g, w) \in Stores /\ Filled(g, w).rows = g.rows \cup {w}
            /\ Filled(g, w).rotten = g.rotten
        BY <3>1, StoreChanges, ChangeTypes
      <4> QED BY <3>2, <3>6, <4>1 DEF g
    <3>7. CASE At(conn[w], Climbed(g, target[w])) /\ target[w] \in 2 .. Newest
      <4>1. /\ Climbed(g, target[w]) \in Stores /\ Climbed(g, target[w]).rows = g.rows
            /\ Climbed(g, target[w]).rotten = g.rotten
        BY <3>1, <3>7, StoreChanges, ChangeTypes
      <4> QED BY <3>2, <3>7, <4>1 DEF g
    <3> QED BY <3>3, <3>4, <3>5, <3>6, <3>7
  <2>2. CASE \E w \in Writers : Write(w) \/ Kill(w)
    <3>1. CASE file' = file
      BY <3>1
    <3> QED BY <1>2, <2>1, <2>2, <3>1
  <2>3. CASE Rot
    <3>1. live \in 1 .. NFiles /\ At(live, Damaged(file[live]))
      BY <2>3, BoundsAssumption, FileSteps DEF Rot, TypeOK
    <3>2. /\ Damaged(file[live]) \in Stores /\ Damaged(file[live]).rows = file[live].rows
          /\ Damaged(file[live]).rotten
      BY <1>1, <3>1, StoreChanges, ChangeTypes
    <3> QED BY <1>2, <3>1, <3>2
  <2>4. CASE \/ \E q \in Readers : LookForStore(q) \/ Select(q)
             \/ Tick \/ SetAside \/ Breadcrumb \/ UNCHANGED vars
    <3>1. file' = file
      BY <2>4 DEF LookForStore, Select, Connect, Tick, SetAside, Breadcrumb, vars, store
    <3> QED BY <3>1
  <2> QED BY <2>2, <2>3, <2>4 DEF Next
<1>4. used \in Nat /\ used' \in Nat
  BY BaseStep DEF TypeOK
<1>5. used' = used \/ \E n \in 1 .. NFiles : Connect(n)
  BY DEF Next, Write, Kill, CheckFence, Open, ReadVersion, EnsureTables, StampBaseline,
         MigrateStep, MigrationFails, Migrated, Insert, WriteFails, MeetsDamage, Quarantine,
         QuarantineFails, Renames, LookForStore, Select, Rot, Tick, SetAside, Breadcrumb, vars,
         store
<1>6. used' >= used
  BY <1>4, <1>5, Connects
<1>7. CASE \E w \in Writers : Write(w) \/ Kill(w)
  BY <1>3, <1>4, <1>6, <1>7, OthersStay
<1>8. CASE \/ \E q \in Readers : LookForStore(q) \/ Select(q)
           \/ Rot \/ Tick \/ SetAside \/ Breadcrumb \/ UNCHANGED vars
  <2>1. aside \subseteq aside' /\ mistaken \subseteq mistaken' /\ set' = set
    BY <1>8 DEF LookForStore, Select, Rot, Tick, SetAside, Breadcrumb, vars, world, writer
  <2> QED BY <1>3, <1>4, <1>6, <2>1
<1> QED BY <1>7, <1>8 DEF Next

\* A call damages no file, and only the insert changes rows: its own.
LEMMA RowsOf ==
    ASSUME Base, NEW w \in Writers, Write(w) \/ Kill(w)
    PROVE  \A n \in 1 .. NFiles :
              /\ file'[n].rotten = file[n].rotten
              /\ \/ file'[n].rows = file[n].rows
                 \/ Insert(w) /\ n = conn[w] /\ file'[n].rows = file[n].rows \cup {w}
<1> USE DEF Base
<1> DEFINE g == file[conn[w]]
<1>1. file \in [1 .. NFiles -> Stores]
  BY DEF TypeOK
<1>2. ASSUME NEW f \in Stores, conn[w] \in 1 .. used, At(conn[w], f), f.rotten = g.rotten,
             f.rows = g.rows \/ (Insert(w) /\ f.rows = g.rows \cup {w})
      PROVE  \A n \in 1 .. NFiles :
              /\ file'[n].rotten = file[n].rotten
              /\ \/ file'[n].rows = file[n].rows
                 \/ Insert(w) /\ n = conn[w] /\ file'[n].rows = file[n].rows \cup {w}
  <2>1. \A n \in 1 .. NFiles : file'[n] = IF n = conn[w] THEN f ELSE file[n]
    BY <1>1, <1>2 DEF At
  <2> SUFFICES ASSUME NEW n \in 1 .. NFiles
        PROVE /\ file'[n].rotten = file[n].rotten
              /\ \/ file'[n].rows = file[n].rows
                 \/ Insert(w) /\ n = conn[w] /\ file'[n].rows = file[n].rows \cup {w}
    OBVIOUS
  <2>2. CASE n = conn[w]
    BY <1>2, <2>1, <2>2
  <2>3. CASE n # conn[w]
    BY <2>1, <2>3
  <2> QED BY <2>2, <2>3
<1>3. CASE file' = file
  BY <1>3
<1>4. CASE file' # file
  <2>1. conn[w] \in 1 .. used /\ g \in Stores
    BY <1>4, FileOf
  <2>2. \/ At(conn[w], Tabled(g)) \/ At(conn[w], Stamped(g)) \/ (Insert(w) /\ At(conn[w], Filled(g, w)))
        \/ At(conn[w], Climbed(g, target[w])) /\ target[w] \in 2 .. Newest
    BY <1>4, FileOf
  <2> HIDE DEF g
  <2>3. CASE At(conn[w], Tabled(g))
    <3>1. Tabled(g) \in Stores /\ Tabled(g).rows = g.rows /\ Tabled(g).rotten = g.rotten
      BY <2>1, StoreChanges, ChangeTypes
    <3> QED BY <1>2, <2>1, <2>3, <3>1
  <2>4. CASE At(conn[w], Stamped(g))
    <3>1. Stamped(g) \in Stores /\ Stamped(g).rows = g.rows /\ Stamped(g).rotten = g.rotten
      BY <2>1, StoreChanges, ChangeTypes
    <3> QED BY <1>2, <2>1, <2>4, <3>1
  <2>5. CASE Insert(w) /\ At(conn[w], Filled(g, w))
    <3>1. /\ Filled(g, w) \in Stores /\ Filled(g, w).rows = g.rows \cup {w}
          /\ Filled(g, w).rotten = g.rotten
      BY <2>1, StoreChanges, ChangeTypes
    <3> QED BY <1>2, <2>1, <2>5, <3>1
  <2>6. CASE At(conn[w], Climbed(g, target[w])) /\ target[w] \in 2 .. Newest
    <3>1. /\ Climbed(g, target[w]) \in Stores /\ Climbed(g, target[w]).rows = g.rows
          /\ Climbed(g, target[w]).rotten = g.rotten
      BY <2>1, <2>6, StoreChanges, ChangeTypes
    <3> QED BY <1>2, <2>1, <2>6, <3>1
  <2> QED BY <2>2, <2>3, <2>4, <2>5, <2>6
<1> QED BY <1>3, <1>4

\* How the name history.db may change its file.
LEMMA LiveOf ==
    ASSUME Base, NEW w \in Writers, Write(w) \/ Kill(w)
    PROVE  \/ live' = live
           \/ live = 0 /\ Open(w)
           \/ /\ live' = 0 /\ pc[w] = "quarantine" /\ pc'[w] \in {"open", "over"}
              /\ live = met[w] \/ live \in mistaken'
<1>1. CASE Open(w)
  BY <1>1, Connects DEF Open, Base
<1>2. CASE Quarantine(w) \/ QuarantineFails(w)
  BY <1>2 DEF Quarantine, QuarantineFails, Renames, Returns, Goto, Base, TypeOK
<1>3. CASE ~Open(w) /\ ~Quarantine(w) /\ ~QuarantineFails(w)
  BY <1>3 DEF Write, Kill, CheckFence, ReadVersion, EnsureTables, StampBaseline, MigrateStep,
       MigrationFails, Migrated, Insert, WriteFails, MeetsDamage, store
<1> QED BY <1>1, <1>2, <1>3

\* Where a call of its own may be after a step, and with which file.
LEMMA OwnStep ==
    ASSUME Base, NEW w \in Writers, Write(w) \/ Kill(w)
    PROVE  /\ pc'[w] \in Working =>
                \/ Open(w) /\ conn'[w] = live'
                \/ pc[w] \in Working /\ conn'[w] = conn[w] /\ ~Insert(w)
           /\ pc'[w] = "quarantine" =>
                /\ pc[w] \in Working /\ file[conn[w]].rotten /\ ~Insert(w)
                /\ met'[w] = conn[w]
           /\ result'[w] = "written" => result[w] = "written" \/ Insert(w)
           /\ Insert(w) => pc[w] \in Working
<1> USE DEF Base
<1>1. CASE Open(w)
  <2>1. PICK n \in 1 .. NFiles : Connect(n) /\ conn' = [conn EXCEPT ![w] = n]
    BY <1>1 DEF Open
  <2>2. conn'[w] = live'
    BY <2>1, Connects DEF TypeOK
  <2>3. pc'[w] = "read" /\ result' = result /\ ~Insert(w)
    BY <1>1 DEF Open, Goto, TypeOK, Insert
  <2> QED BY <1>1, <2>2, <2>3
<1>2. CASE ReadVersion(w) \/ EnsureTables(w) \/ StampBaseline(w) \/ Migrated(w)
  <2>1. /\ pc[w] \in Working /\ conn' = conn /\ result' = result /\ ~Insert(w)
    BY <1>2 DEF ReadVersion, EnsureTables, StampBaseline, Migrated, Insert, Working
  <2>2. pc'[w] # "quarantine"
    BY <1>2 DEF ReadVersion, EnsureTables, StampBaseline, Migrated, Goto, TypeOK
  <2> QED BY <2>1, <2>2
<1>3. CASE MigrateStep(w)
  <2>1. pc[w] \in Working /\ ~Insert(w)
    BY <1>3 DEF MigrateStep, Migrating, Insert, Working
  <2>2. \/ Returns(w, MigrationEnds(w))
        \/ UNCHANGED <<pc, conn, result>>
    BY <1>3 DEF MigrateStep, Climb, NextRung, Stays
  <2>3. CASE Returns(w, MigrationEnds(w))
    <3>1. pc'[w] = "over" /\ result'[w] # "written"
      BY <2>3 DEF Returns, MigrationEnds, Goto, TypeOK
    <3> QED BY <2>1, <3>1, PlacesAre
  <2>4. CASE UNCHANGED <<pc, conn, result>>
    <3>1. pc[w] = "migrate"
      BY <1>3 DEF MigrateStep, Migrating
    <3> QED BY <2>1, <2>4, <3>1
  <2> QED BY <2>2, <2>3, <2>4
<1>4. CASE CheckFence(w) \/ Quarantine(w)
  <2>1. pc'[w] \in {"open", "over"} /\ result'[w] \in {result[w], "fenced"} /\ ~Insert(w)
    BY <1>4 DEF CheckFence, Quarantine, Returns, Goto, Stays, Insert, TypeOK
  <2> QED BY <2>1, PlacesAre
<1>5. CASE MeetsDamage(w)
  <2>1. /\ pc'[w] \in {"quarantine", "over"} /\ result'[w] \in {result[w], "failed"}
        /\ pc[w] \in Working /\ file[conn[w]].rotten
        /\ pc'[w] = "quarantine" => met'[w] = conn[w]
    BY <1>5 DEF MeetsDamage, Returns, Goto, Mine, TypeOK
  <2>2. pc'[w] = "quarantine" => ~Insert(w)
    BY DEF Insert, Returns, Goto, TypeOK
  <2>3. "insert" \in Working
    BY DEF Working
  <2> QED BY <2>1, <2>2, <2>3, PlacesAre DEF Insert
<1>6. CASE MigrationFails(w) \/ WriteFails(w) \/ QuarantineFails(w) \/ Kill(w) \/ Insert(w)
  <2>1. pc'[w] = "over"
    BY <1>6 DEF MigrationFails, WriteFails, QuarantineFails, Kill, Insert, Returns, Goto, TypeOK
  <2>2. Insert(w) \/ result'[w] # "written"
    BY <1>6 DEF MigrationFails, WriteFails, QuarantineFails, Kill, Returns, MigrationEnds, TypeOK
  <2>3. "insert" \in Working
    BY DEF Working
  <2> QED BY <2>1, <2>2, <2>3, PlacesAre DEF Insert
<1> QED BY <1>1, <1>2, <1>3, <1>4, <1>5, <1>6 DEF Write

LEMMA KeptWrite ==
    ASSUME Base, Base', Kept, [Next]_vars, NEW w \in Writers, Write(w) \/ Kill(w)
    PROVE  Kept'
<1> USE DEF Base
<1>1. /\ used \in Nat /\ NFiles \in Nat
      /\ live \in 0 .. used /\ \A n \in 1 .. used : n \in 1 .. NFiles
  BY BoundsAssumption DEF TypeOK
<1>2. \A v \in Writers : pc[v] \in Working => conn[v] \in 1 .. NFiles /\ conn[v] # 0
  BY <1>1 DEF Opened
<1>3. pc[w] = "quarantine" /\ live = met[w] => file[live].rotten
  BY DEF Kept, Met
<1>10. \A n \in 1 .. NFiles : Lost(n) => Lost(n)'
  BY FilesGrow DEF Lost
<1>4. ~set.overlap => \A v \in Writers : v # w => pc[v] \notin Working /\ pc[v] # "quarantine"
  BY OthersStay DEF Alone, Busy, Working
<1>5. Reachable'
  <2> SUFFICES ASSUME NEW n \in 1 .. NFiles, file'[n].rows # {}
      PROVE  n = live' \/ Lost(n)'
    BY DEF Reachable
  <2>1. Lost(n) => Lost(n)'
    BY <1>10
  <2>2. n = live \/ Lost(n)
    <3>1. CASE file[n].rows # {}
      BY <3>1 DEF Kept, Reachable
    <3>2. CASE Insert(w) /\ n = conn[w]
      <4>1. pc[w] \in Working
        BY <3>2, OwnStep
      <4> QED BY <3>2, <4>1 DEF Kept, Held
    <3> QED BY <3>1, <3>2, RowsOf
  <2>3. CASE live' = live \/ live = 0
    BY <1>1, <2>1, <2>2, <2>3
  <2>4. CASE n = live /\ live' = 0 /\ pc[w] = "quarantine" /\ (live = met[w] \/ live \in mistaken')
    <3>1. ~Insert(w)
      BY <2>4 DEF Insert
    <3>2. file[n].rows # {}
      BY <3>1, RowsOf
    <3>3. file[n].rotten \/ set.overlap
      BY <2>4, <3>2 DEF Kept, Doomed
    <3>4. CASE file[n].rotten
      BY <2>1, <3>4 DEF Lost
    <3>5. CASE set.overlap /\ live \in mistaken'
      BY <2>4, <3>5, FilesGrow DEF Lost
    <3> QED BY <1>3, <2>4, <3>3, <3>4, <3>5
  <2> QED BY <2>1, <2>2, <2>3, <2>4, LiveOf
<1>6. Held'
  <2> SUFFICES ASSUME NEW v \in Writers, pc'[v] \in Working, NEW n, n = conn'[v]
      PROVE  n = live' \/ Lost(n)'
    BY DEF Held, Lost
  <2>1. CASE Open(w) /\ v = w /\ conn'[w] = live'
    BY <2>1
  <2>2. CASE pc[v] \in Working /\ conn'[v] = conn[v]
    <3>1. conn[v] \in 1 .. NFiles /\ conn[v] # 0
      BY <1>2, <2>2
    <3>2. Lost(n) => Lost(n)'
      BY <1>10, <2>2, <3>1
    <3>3. n = live \/ Lost(n)
      BY <2>2 DEF Kept, Held
    <3>4. n = live => live' = live \/ Lost(n)'
      <4> SUFFICES ASSUME n = live PROVE live' = live \/ Lost(n)'
        OBVIOUS
      <4>1. CASE live' = 0 /\ pc[w] = "quarantine" /\ (live = met[w] \/ live \in mistaken')
        <5>1. "quarantine" \notin Working
          BY PlacesAre
        <5>2. set.overlap
          BY <1>4, <2>2, <4>1, <5>1
        <5>3. CASE n = live /\ live \in mistaken'
          BY <2>2, <5>2, <5>3, FilesGrow DEF Lost
        <5>4. CASE n = live /\ live = met[w]
          <6>1. Lost(n)
            BY <1>3, <4>1, <5>4 DEF Lost
          <6> QED BY <3>2, <6>1
        <5> QED BY <4>1, <5>3, <5>4
      <4> QED BY <2>2, <3>1, <4>1, LiveOf
    <3> QED BY <2>2, <3>2, <3>3, <3>4
  <2>3. v # w => pc'[v] = pc[v] /\ conn'[v] = conn[v]
    BY OthersStay
  <2>4. v = w => \/ Open(w) /\ conn'[w] = live'
                 \/ pc[w] \in Working /\ conn'[w] = conn[w]
    BY OwnStep
  <2> QED BY <2>1, <2>2, <2>3, <2>4
<1>7. Doomed'
  <2> SUFFICES ASSUME ~set.overlap, NEW v \in Writers
      PROVE  /\ pc'[v] \in Working =>
                  conn'[v] = live' \/ live' = 0 \/ file'[live'].rows = {}
             /\ pc'[v] = "quarantine" =>
                  live' = 0 \/ file'[live'].rotten \/ file'[live'].rows = {}
    BY OthersStay DEF Doomed
  <2>1. CASE v # w
    BY <1>4, <2>1, OthersStay
  <2>2. ASSUME v = w, pc[w] \in Working, ~Insert(w)
        PROVE  /\ live' = live
               /\ live # 0 => file'[live].rows = file[live].rows
               /\ live # 0 => file'[live].rotten = file[live].rotten
    <3>1. live' = live
      <4>1. ~Open(w) /\ pc[w] # "quarantine"
        BY <2>2, PlacesAre DEF Open
      <4> QED BY <4>1, LiveOf
    <3>2. live # 0 => live \in 1 .. NFiles
      BY <1>1
    <3> QED BY <2>2, <3>1, <3>2, RowsOf
  <2>3. ASSUME v = w, pc'[w] \in Working
        PROVE  conn'[w] = live' \/ live' = 0 \/ file'[live'].rows = {}
    <3>1. CASE Open(w) /\ conn'[w] = live'
      BY <3>1
    <3>2. CASE pc[w] \in Working /\ conn'[w] = conn[w] /\ ~Insert(w)
      <4>1. conn[w] = live \/ live = 0 \/ file[live].rows = {}
        BY <3>2 DEF Kept, Doomed
      <4>2. /\ live' = live
            /\ live # 0 => file'[live].rows = file[live].rows
        BY <2>2, <2>3, <3>2
      <4> QED BY <3>2, <4>1, <4>2
    <3> QED BY <2>3, <3>1, <3>2, OwnStep
  <2>4. ASSUME v = w, pc'[w] = "quarantine"
        PROVE  live' = 0 \/ file'[live'].rotten \/ file'[live'].rows = {}
    <3>1. pc[w] \in Working /\ file[conn[w]].rotten /\ ~Insert(w)
      BY <2>4, OwnStep
    <3>2. conn[w] = live \/ live = 0 \/ file[live].rows = {}
      BY <3>1 DEF Kept, Doomed
    <3>3. /\ live' = live
          /\ live # 0 => file'[live].rows = file[live].rows
          /\ live # 0 => file'[live].rotten = file[live].rotten
      BY <2>2, <2>4, <3>1
    <3> QED BY <3>1, <3>2, <3>3
  <2> QED BY <2>1, <2>3, <2>4
<1>8. Met'
  <2> SUFFICES ASSUME NEW v \in Writers, pc'[v] = "quarantine"
      PROVE  met'[v] \in 1 .. used' /\ file'[met'[v]].rotten
    BY DEF Met
  <2>1. met'[v] \in 1 .. used /\ file[met'[v]].rotten
    <3>1. CASE v # w
      BY <3>1, OthersStay DEF Kept, Met
    <3>2. CASE v = w
      BY <3>2, OwnStep DEF Opened
    <3> QED BY <3>1, <3>2
  <2>2. met'[v] \in 1 .. used' /\ met'[v] \in 1 .. NFiles
    BY <1>1, <2>1, FilesGrow
  <2> QED BY <2>1, <2>2, FilesGrow
<1>9. Recorded'
  <2> SUFFICES ASSUME NEW v \in Writers, result'[v] = "written"
      PROVE  \E n \in 1 .. used' : v \in file'[n].rows
    BY DEF Recorded
  <2>1. CASE result[v] = "written"
    <3>1. PICK n \in 1 .. used : v \in file[n].rows
      BY <2>1 DEF Kept, Recorded
    <3>2. n \in 1 .. used' /\ n \in 1 .. NFiles
      BY <1>1, FilesGrow
    <3> QED BY <3>1, <3>2, FilesGrow
  <2>2. CASE v = w /\ Insert(w)
    <3>1. conn[w] \in 1 .. used /\ conn[w] \in 1 .. NFiles
      BY <1>1, <2>2, OwnStep DEF Opened
    <3>2. conn[w] \in 1 .. used'
      BY <3>1, FilesGrow
    <3>3. w \in file'[conn[w]].rows
      <4>1. At(conn[w], Filled(file[conn[w]], w)) /\ file[conn[w]] \in Stores
        BY <2>2, <3>1, FileSteps DEF TypeOK
      <4>2. file'[conn[w]] = Filled(file[conn[w]], w)
        BY <3>1, <4>1 DEF At, TypeOK
      <4> QED BY <4>1, <4>2, StoreChanges
    <3> QED BY <2>2, <3>2, <3>3
  <2> QED BY <2>1, <2>2, OthersStay, OwnStep
<1> QED BY <1>5, <1>6, <1>7, <1>8, <1>9 DEF Kept

LEMMA KeptWorld ==
    ASSUME Base, Base', Kept, [Next]_vars,
           \/ \E q \in Readers : LookForStore(q) \/ Select(q)
           \/ Rot \/ Tick \/ SetAside \/ Breadcrumb
           \/ UNCHANGED vars
    PROVE  Kept' /\ set' = set
<1> USE DEF Base
<1>1. UNCHANGED <<set, pc, conn, seen, met, result, faulted, mistaken>>
  BY DEF LookForStore, Select, Rot, Tick, SetAside, Breadcrumb, vars, world, writer
<1>2. /\ used \in Nat /\ NFiles \in Nat
      /\ live \in 0 .. used /\ \A n \in 1 .. used : n \in 1 .. NFiles
      /\ file \in [1 .. NFiles -> Stores]
  BY BoundsAssumption DEF TypeOK
<1>3. \A v \in Writers : pc[v] \in Working => conn[v] \in 1 .. NFiles /\ conn[v] # 0
  BY <1>2 DEF Opened
\* Rows stay as they are, and damage is new only in the file that is read.
<1>4. \A n \in 1 .. NFiles :
        /\ file'[n].rows = file[n].rows
        /\ file[n].rotten => file'[n].rotten
        /\ file'[n].rotten => file[n].rotten \/ Rot
  <2>1. CASE Rot
    <3>1. live \in 1 .. NFiles /\ At(live, Damaged(file[live]))
      BY <2>1, <1>2, FileSteps DEF Rot
    <3>2. Damaged(file[live]).rows = file[live].rows
      BY <1>2, <3>1, StoreChanges
    <3>3. \A n \in 1 .. NFiles : file'[n].rows = file[n].rows
      BY <1>2, <3>1, <3>2 DEF At
    <3> QED BY <2>1, <3>3, FilesGrow
  <2>2. CASE ~Rot
    BY <2>2 DEF LookForStore, Select, Connect, Tick, SetAside, Breadcrumb, vars, store
  <2> QED BY <2>1, <2>2
\* history.db is the same file, or a new and empty one, or handed over.
<1>5. \/ live' = live
      \/ live = 0 /\ live' \in 1 .. NFiles /\ file[live'].rows = {}
      \/ live' = 0 /\ live \in aside'
  <2>1. ASSUME NEW q \in Readers, Select(q)
        PROVE  live' = live \/ (live = 0 /\ live' \in 1 .. NFiles /\ file[live'].rows = {})
    <3>1. PICK n \in 1 .. NFiles : Connect(n)
      BY <2>1 DEF Select
    <3>2. live = 0 => file[n] = Blank
      BY <1>2, <3>1, Connects DEF Unused
    <3> QED BY <3>1, <3>2, BlankIs, Connects
  <2>2. CASE SetAside
    BY <2>2 DEF SetAside
  <2> QED
    BY <2>1, <2>2 DEF LookForStore, Rot, Tick, Breadcrumb, vars, store
<1>6. aside \subseteq aside' /\ \A n \in 1 .. NFiles : Lost(n) => Lost(n)'
  BY FilesGrow DEF Lost
<1>7. Reachable'
  <2> SUFFICES ASSUME NEW n \in 1 .. NFiles, file'[n].rows # {}
      PROVE  n = live' \/ Lost(n)'
    BY DEF Reachable
  <2>1. n = live \/ Lost(n)
    BY <1>4 DEF Kept, Reachable
  <2>2. n \in aside' => Lost(n)'
    BY DEF Lost
  <2> QED BY <1>2, <1>5, <1>6, <2>1, <2>2
<1>8. Held'
  <2> SUFFICES ASSUME NEW v \in Writers, pc[v] \in Working, NEW n, n = conn[v]
      PROVE  n = live' \/ Lost(n)'
    BY <1>1 DEF Held, Lost
  <2>1. n = live \/ Lost(n)
    BY DEF Kept, Held
  <2>2. n \in 1 .. NFiles /\ n # 0
    BY <1>3
  <2>3. Lost(n) => Lost(n)'
    BY <1>6, <2>2
  <2>4. n \in aside' => Lost(n)'
    BY DEF Lost
  <2> QED BY <1>5, <2>1, <2>2, <2>3, <2>4
<1>9. Doomed'
  <2>1. ASSUME NEW x \in {live}, x # 0
        PROVE  /\ file'[x].rows = file[x].rows
               /\ file[x].rotten => file'[x].rotten
    BY <1>2, <1>4, <2>1
  <2>2. live' \in 1 .. NFiles => file'[live'].rows = file[live'].rows
    BY <1>4
  <2> SUFFICES ASSUME ~set.overlap, NEW v \in Writers
      PROVE  /\ pc[v] \in Working =>
                  conn[v] = live' \/ live' = 0 \/ file'[live'].rows = {}
             /\ pc[v] = "quarantine" =>
                  live' = 0 \/ file'[live'].rotten \/ file'[live'].rows = {}
    BY <1>1 DEF Doomed
  <2>3. /\ pc[v] \in Working =>
                  conn[v] = live \/ live = 0 \/ file[live].rows = {}
        /\ pc[v] = "quarantine" =>
                  live = 0 \/ file[live].rotten \/ file[live].rows = {}
    BY DEF Kept, Doomed
  <2> QED BY <1>5, <2>1, <2>2, <2>3
<1>10. Met'
  <2> SUFFICES ASSUME NEW v \in Writers, pc[v] = "quarantine"
      PROVE  met[v] \in 1 .. used' /\ file'[met[v]].rotten
    BY <1>1 DEF Met
  <2>1. met[v] \in 1 .. used /\ file[met[v]].rotten
    BY DEF Kept, Met
  <2> QED BY <1>2, <2>1, FilesGrow
<1>11. Recorded'
  <2>1. \A n \in 1 .. used : n \in 1 .. used'
    BY FilesGrow
  <2> QED BY <1>1, <1>2, <1>4, <2>1 DEF Kept, Recorded
<1> QED BY <1>1, <1>7, <1>8, <1>9, <1>10, <1>11 DEF Kept

LEMMA KeptStep == Base /\ Base' /\ Kept /\ [Next]_vars => Kept'
<1> SUFFICES ASSUME Base, Base', Kept, [Next]_vars PROVE Kept'
  OBVIOUS
<1>1. CASE \E w \in Writers : Write(w) \/ Kill(w)
  BY <1>1, KeptWrite, OthersStay
<1> QED BY <1>1, KeptWorld DEF Next

\* A run whose row was written is in the history the window reads, until the
\* file itself is damaged or the profile handed over: however many calls share
\* the store, wherever one fails or is killed and whatever is damaged, only one
\* error of another call takes the row away, the rename of a store recreated
\* since by a call that met the damage of the one before.  Calls that follow
\* one another do not do that.
THEOREM RowsStay == Spec => []WrittenIsRead
<1>1. Init => Kept
  BY KeptInit
<1>2. Base /\ Base' /\ Kept /\ [Next]_vars => Kept'
  BY KeptStep
<1>3. Base /\ Kept => WrittenIsRead
  <2> SUFFICES ASSUME Base, Kept, NEW w \in Writers, result[w] = "written"
      PROVE  \E n \in 1 .. used :
                /\ w \in file[n].rows
                /\ n = live \/ Lost(n)
    BY DEF WrittenIsRead, Lost
  <2>1. PICK n \in 1 .. used : w \in file[n].rows
    BY DEF Kept, Recorded
  <2>2. n \in 1 .. NFiles
    BY BoundsAssumption DEF Base, TypeOK
  <2> QED BY <2>1, <2>2 DEF Kept, Reachable
<1> QED BY <1>1, <1>2, <1>3, BaseHolds, PTL DEF Spec

=============================================================================
