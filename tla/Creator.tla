------------------------------ MODULE Creator -------------------------------
(***************************************************************************)
(* Authoring a district's mapping on the Mapping screen                    *)
(* (src/ui_flet/screens/mapping.py hosting screens/creator.py over         *)
(* src/config/authoring.py and src/ui_flet/config_editor.py): the          *)
(* questions, the names of the source files, the test conversion, the      *)
(* confirmation that switches this computer, discarding, and the screen's  *)
(* own Apply. Several AppConfig instances write the whole settings         *)
(* document: the screen's, read when it was opened; the panel's, read when *)
(* the panel was; and a fresh one for each Apply. A handler is one step.   *)
(***************************************************************************)
EXTENDS Naturals

CONSTANTS
    Own,          \* districts that can be authored here
    Shipped,      \* a mapping the product ships
    Bases,        \* the starting points
    OwnNames,     \* names a district may give its files
    HandEdits,    \* what a person or another window writes into a mapping
    Budgets       \* kind of act -> how often it happens

NoSis == "none"
Unusable == "bad"       \* a name the filename boundary refuses
Keep == "keep"         \* "use the standard name"
Unset == "unset"       \* a row nobody answered

\* Where a mapping names its files: two entities and the school year. Each site
\* has a file, and a starting point has some of the sites.
Sites == {"students", "classes", "year"}
Files == {"demographics", "schedule"}
FileOf == [s \in Sites |-> IF s = "students" THEN "demographics" ELSE "schedule"]
SitesOf(base) == IF base = "full" THEN Sites ELSE {"students"}
FilesOf(base) == {FileOf[s] : s \in SitesOf(base)}

Standard == [f \in Files |-> f]
Gone == [base |-> NoSis, at |-> [s \in {} |-> Keep]]

\* What a mapping file says: a name at every site its starting point has.
Names == OwnNames \cup Files \cup {Unusable}
Contents == {Gone} \cup
    UNION {[base : {base}, at : [SitesOf(base) -> Names]] : base \in Bases \cup {"full"}}

ASSUME EditsAssumption == HandEdits \subseteq Contents

VARIABLES
    overlay,    \* the mapping files authored here; their content is their digest
    disk,       \* config.json
    screen,     \* "away", "view" or "panel"
    mount,      \* the Mapping screen: its instance and what it shows
    panel,      \* the creator inside it
    passed,     \* the <<district, content>> a test conversion passed
    touched,    \* which readings of the panel's mapping are older than the last write
                \* of it from elsewhere: the "rows", the "test"
    others,     \* whether another process saved the settings since this screen read them
    left        \* what remains of the budgets

creatorVars == <<overlay, disk, screen, mount, panel, passed, touched, others, left>>

\* An act of this kind; a failed write or delete among what it does is a fault.
Spend(kind, well) ==
    /\ left[kind] > 0
    /\ well \/ left["fault"] > 0
    /\ left' = [k \in DOMAIN left |-> IF k = kind \/ (k = "fault" /\ ~well)
                                     THEN left[k] - 1 ELSE left[k]]

-----------------------------------------------------------------------------
(* Names of files.                                                         *)

\* CreatorForm.with_rename and pending_renames: blank and the file's own name are
\* no renames.
Renamed(rows) == [f \in Files |-> IF rows[f] \in {Unset, Keep} THEN f ELSE rows[f]]

RowsFor(renames) == [f \in Files |-> IF renames[f] = f THEN Unset ELSE renames[f]]

Renames(form) == {f \in Files : form.renames[f] # f}

\* OverlaySpec and _build_renames: every name usable, no file takes the name of
\* another renamed one, no two files share a name, and the base has the file.
Writable(form) ==
    /\ \A f \in Renames(form) : form.renames[f] # Unusable
    /\ \A f, g \in Renames(form) : form.renames[f] = g => f = g
    /\ \A f, g \in Renames(form) : form.renames[f] = form.renames[g] => f = g
    /\ Renames(form) \subseteq FilesOf(form.base)

\* build_overlay: a rename goes to every place that names the file.
BuildOverlay(form) ==
    [base |-> form.base, at |-> [s \in SitesOf(form.base) |-> form.renames[FileOf[s]]]]

NamesOf(content, f) == {content.at[s] : s \in {t \in DOMAIN content.at : FileOf[t] = f}}

\* renames_from_resolved: the first of a file's places that renames it; a file
\* named in two ways is reported.
FirstSeen(content, f) ==
    LET own == NamesOf(content, f) \ {f}
        site == IF f = "demographics" THEN "students" ELSE "classes"
    IN  IF own = {} THEN f
        ELSE IF content.at[site] # f THEN content.at[site] ELSE CHOOSE n \in own : TRUE

\* Mutant: only names the entities give count.
DivergentEntities(content) ==
    {f \in Files : \E s, t \in DOMAIN content.at \ {"year"} :
        FileOf[s] = f /\ FileOf[t] = f /\ content.at[s] # content.at[t]}

Divergent(content) == {f \in Files : \E m, n \in NamesOf(content, f) : m # n}

\* with_rename refuses a name that a person wrote into the mapping and the
\* filename boundary does not take: the file keeps its standard name in the form.
Taken(name, f) == IF name = Unusable THEN f ELSE name

\* creator_form_from_overlay, and creator_form_for_new when there is none.
NewForm == [base |-> "full", renames |-> Standard]
FormOf(content) ==
    IF content = Gone THEN NewForm
    ELSE [base |-> content.base,
          renames |-> [f \in Files |-> Taken(FirstSeen(content, f), f)]]

-----------------------------------------------------------------------------
(* The settings document.                                                  *)

\* _pruned_verified_configs.
PrunedDigests(verified, there) ==
    [d \in Own |-> IF there[d] = Gone THEN Gone ELSE verified[d]]

\* creator_save: two fields of an instance change, the whole document is written.
WithToken(doc, token, there) ==
    [doc EXCEPT !.pending = token, !.verified = PrunedDigests(@, there)]

\* activate_creator_config.
Activated(doc, d, there) ==
    [sis |-> d, pending |-> NoSis,
     verified |-> [PrunedDigests(doc.verified, there) EXCEPT ![d] = there[d]]]

\* _guarded_field_write: what the instance holds after a save that worked or not.
InMemory(doc, new, works) == IF works THEN new ELSE doc

\* activation_allowed: a district authored here needs the digest of its last
\* passed test to be what would convert now.
VerifiedIsCurrent(doc, d) == overlay[d] # Gone /\ doc.verified[d] = overlay[d]

ActivationAllowed(doc, d) == d \in Own => VerifiedIsCurrent(doc, d)

-----------------------------------------------------------------------------
(* The creator's surface.                                                  *)

NoPanel == [sis |-> NoSis, stage |-> "forms", form |-> NewForm,
            rows |-> RowsFor(Standard), doc |-> [sis |-> NoSis,
              pending |-> NoSis, verified |-> [d \in Own |-> Gone]],
            gate |-> "not run", job |-> "none", seen |-> Gone, divergent |-> {},
            already |-> FALSE, armed |-> FALSE, done |-> FALSE]

HasUnsavedRenames(p) == Renamed(p.rows) # p.form.renames

Unsaved(p) == p.divergent # {} \/ HasUnsavedRenames(p)

\* Mutant: the surface is reused, and the outcome of its test with it.
Reused(p, there) ==
    LET content == IF p.sis = NoSis THEN Gone ELSE there[p.sis]
    IN  [p EXCEPT !.divergent = Divergent(content), !.armed = FALSE]

\* build_creator: a new surface over the host's form and its map of rows, which
\* is filled from the form only while no row in it was answered. Its test is not
\* run, and a job the old surface waits for reports to nobody.
Mounted(p, there) ==
    LET content == IF p.sis = NoSis THEN Gone ELSE there[p.sis]
        rows == IF p.rows = RowsFor(Standard) THEN RowsFor(p.form.renames) ELSE p.rows
        already == p.sis # NoSis /\ content # Gone
                   /\ p.doc.verified[p.sis] = content
    IN  [p EXCEPT !.rows = rows, !.gate = "not run", !.job = "none", !.seen = Gone,
                  !.divergent = Divergent(content), !.already = already, !.armed = FALSE,
                  !.done = p.stage = "files" /\ already /\ Renamed(rows) = p.form.renames]

-----------------------------------------------------------------------------
(* The Mapping screen.                                                     *)

\* pending_creator_sis: a resume token whose mapping is gone.
Orphaned(doc, there) == doc.pending # NoSis /\ there[doc.pending] = Gone

\* _build_view. A resume token whose mapping is gone is cleared, through the
\* screen's own instance (pending_creator_sis).
View(m, file, there, works) ==
    LET stale == Orphaned(m.doc, there)
        healed == WithToken(m.doc, NoSis, there)
    IN  /\ works \/ stale
        /\ screen' = "view"
        /\ disk' = IF stale /\ works THEN healed ELSE file
        /\ mount' = [m EXCEPT !.doc = IF stale THEN InMemory(@, healed, works) ELSE @,
                        !.resume = IF stale THEN NoSis ELSE m.doc.pending,
                        !.pick = m.shown, !.refused = NoSis,
                        !.listed = {d \in Own : there[d] # Gone}]
        /\ panel' = NoPanel
        /\ touched' = {}

\* The rail opens Mapping: the screen loads an instance of its own.
OpenMapping(works) ==
    /\ screen = "away"
    /\ Spend("visit", works)
    /\ View([mount EXCEPT !.doc = disk, !.shown = disk.sis], disk, overlay, works)
    /\ others' = FALSE
    /\ UNCHANGED <<overlay, passed>>

Leave ==
    /\ screen # "away"
    /\ screen' = "away"
    /\ panel' = NoPanel
    /\ touched' = {}
    /\ UNCHANGED <<overlay, disk, mount, passed, others, left>>

Pick(d) ==
    /\ screen = "view"
    /\ d \in mount.listed \cup {Shipped}
    /\ mount' = [mount EXCEPT !.pick = d, !.refused = NoSis]
    /\ mount' # mount
    /\ UNCHANGED <<overlay, disk, screen, panel, passed, touched, others, left>>

\* _on_apply: over a fresh instance. A district whose test is not current is
\* refused, and a mapping that does not load is not offered; a save that raises
\* changes nothing.
Apply ==
    /\ screen = "view"
    /\ mount.pick # mount.shown
    /\ mount.pick \in Own => overlay[mount.pick] # Gone
    /\ IF ActivationAllowed(disk, mount.pick)
         THEN /\ disk' = [disk EXCEPT !.sis = mount.pick]
              /\ mount' = [mount EXCEPT !.shown = mount.pick, !.refused = NoSis]
         ELSE /\ mount.refused # mount.pick
              /\ mount' = [mount EXCEPT !.refused = mount.pick]
              /\ UNCHANGED disk
    /\ UNCHANGED <<overlay, screen, panel, passed, touched, others, left>>

\* The doors: create one, change one that is shown or picked, resume the one being
\* set up, test a refused one.
Door(d, stage) ==
    \/ d = NoSis /\ stage = "forms"
    \/ /\ d \in mount.listed \cap {mount.shown, mount.pick} /\ stage = "forms"
       /\ d # mount.refused \/ d = mount.shown
    \/ d \in {mount.resume, mount.refused} \ {NoSis} /\ stage = "files"

\* _open_panel: with the settings as they are now.
OpenPanel(d, stage) ==
    /\ screen = "view"
    /\ Door(d, stage)
    /\ screen' = "panel"
    /\ LET content == IF d = NoSis THEN Gone ELSE overlay[d]
       IN  panel' = Mounted([NoPanel EXCEPT !.sis = d, !.stage = stage,
                               !.form = FormOf(content), !.doc = disk], overlay)
    /\ touched' = {}
    /\ others' = FALSE
    /\ UNCHANGED <<overlay, disk, mount, passed, left>>

\* The panel's way back: Back always, Done unless a picked name is not saved.
PanelBack(works) ==
    /\ screen = "panel"
    /\ IF panel.done /\ HasUnsavedRenames(panel)
         THEN /\ works /\ panel' = Mounted(panel, overlay)
              /\ UNCHANGED <<screen, disk, mount, touched>>
         ELSE View(mount, disk, overlay, works)
    /\ Spend("act", works)
    /\ UNCHANGED <<overlay, passed, others>>

-----------------------------------------------------------------------------
(* The creator's acts.                                                     *)

\* _continue is the write: the answers as a mapping file, the file of a number
\* that was corrected away, the resume token. Only the first can refuse.
Continue(d, base, tidied, works) ==
    LET form == [panel.form EXCEPT !.base = base]
        old == panel.sis
        there == [c \in Own |->
            CASE c = d -> BuildOverlay(form)
              [] c # d /\ c = old /\ tidied -> Gone
              [] OTHER -> overlay[c]]
        doc == WithToken(panel.doc, d, there)
    IN  /\ screen = "panel" /\ panel.stage = "forms"
        /\ Writable(form)
        /\ tidied \/ old \notin {NoSis, d}
        /\ Spend("write", tidied /\ works)
        /\ overlay' = there
        /\ disk' = IF works THEN doc ELSE disk
        /\ panel' = Mounted([panel EXCEPT !.sis = d, !.form = form, !.stage = "files",
                               !.doc = InMemory(@, doc, works)], there)
        /\ touched' = {}
        /\ UNCHANGED <<screen, mount, passed, others>>

\* A name picked from the folder or typed; nothing is written.
Name(f, name) ==
    /\ screen = "panel" /\ panel.stage = "files"
    /\ f \in FilesOf(panel.form.base)
    /\ panel.rows[f] # name
    /\ Spend("name", TRUE)
    /\ panel' = [panel EXCEPT !.rows[f] = name]
    /\ UNCHANGED <<overlay, disk, screen, mount, passed, touched, others>>

\* _save_names: two rows on one file are refused besides what the write refuses.
SaveNames ==
    LET form == [panel.form EXCEPT !.renames = Renamed(panel.rows)]
        there == [overlay EXCEPT ![panel.sis] = BuildOverlay(form)]
    IN  /\ screen = "panel" /\ panel.stage = "files" /\ panel.job = "none"
        /\ Writable(form)
        /\ \A f, g \in FilesOf(form.base) : form.renames[f] = form.renames[g] => f = g
        /\ Spend("write", TRUE)
        /\ overlay' = there
        /\ panel' = Mounted([panel EXCEPT !.form = form, !.rows = RowsFor(form.renames)], there)
        /\ touched' = {}
        /\ UNCHANGED <<disk, screen, mount, passed, others>>

\* _run_gate: refused while anything on the screen is not in the file.
RunGate ==
    /\ screen = "panel" /\ panel.stage = "files" /\ panel.job = "none"
    /\ ~Unsaved(panel)
    /\ Spend("test", TRUE)
    /\ panel' = [panel EXCEPT !.gate = "running", !.job = "started"]
    /\ UNCHANGED <<overlay, disk, screen, mount, passed, touched, others>>

\* The worker loads the mapping: what it reads now is what it tests.
GateReads ==
    /\ panel.job = "started"
    /\ panel' = [panel EXCEPT !.job = "read", !.seen = overlay[panel.sis]]
    /\ touched' = touched \ {"test"}
    /\ UNCHANGED <<overlay, disk, screen, mount, passed, others, left>>

\* gate_outcome_for: only a run in which every entity was built, or was empty
\* where that is no fault, passes. No usable output folder is a refusal.
Passing == {"built", "empty, and healthy"}
Outcomes == Passing \cup {"empty", "not built", "no outcomes", "raised", "no folder"}

GateEnds(outcome) ==
    /\ panel.job = "read"
    /\ panel.seen = Gone => outcome \in {"raised", "no folder"}
    /\ panel' = [panel EXCEPT !.job = "none",
           !.gate = CASE outcome \in Passing -> "passed"
                      [] outcome = "no folder" -> "refused"
                      [] OTHER -> "failed"]
    /\ passed' = IF outcome \in Passing THEN passed \cup {<<panel.sis, panel.seen>>}
                 ELSE passed
    /\ UNCHANGED <<overlay, disk, screen, mount, touched, others, left>>

\* files_primary_action: the confirmation is offered once the test has passed and
\* nothing is unsaved, unless this district is already tested and current.
Confirmable(p) == p.gate = "passed" /\ ~p.already /\ ~Unsaved(p)

\* _activate: the digest is the one of the moment, the three fields are one save,
\* and the host shows the screen again.
Activate(works, heals) ==
    LET doc == Activated(panel.doc, panel.sis, overlay)
    IN  /\ screen = "panel" /\ Confirmable(panel)
        /\ overlay[panel.sis] # Gone
        /\ Spend("confirm", works /\ heals)
        /\ IF works
             THEN View([mount EXCEPT !.shown = panel.sis], doc, overlay, heals)
             ELSE /\ heals /\ panel' = [panel EXCEPT !.doc = InMemory(@, doc, FALSE)]
                  /\ UNCHANGED <<disk, screen, mount, touched>>
        /\ UNCHANGED <<overlay, passed, others>>

Discard ==
    /\ screen = "panel" /\ panel.sis # NoSis /\ ~panel.armed
    /\ panel.sis # panel.doc.sis
    /\ panel' = [panel EXCEPT !.armed = TRUE]
    /\ UNCHANGED <<overlay, disk, screen, mount, passed, touched, others, left>>

DiscardCancelled ==
    /\ screen = "panel" /\ panel.armed
    /\ panel' = [panel EXCEPT !.armed = FALSE]
    /\ UNCHANGED <<overlay, disk, screen, mount, passed, touched, others, left>>

\* _discard_confirmed: the file, then the token, then the screen; a failure of
\* either is not told.
DiscardConfirmed(deleted, works, heals) ==
    LET there == IF panel.sis # NoSis /\ deleted
                   THEN [overlay EXCEPT ![panel.sis] = Gone] ELSE overlay
        doc == WithToken(panel.doc, NoSis, there)
    IN  /\ screen = "panel" /\ (panel.armed \/ panel.sis = NoSis)
        /\ panel.sis = NoSis => deleted
        /\ Spend("act", deleted /\ works /\ heals)
        /\ overlay' = there
        /\ View(mount, IF works THEN doc ELSE disk, there, heals)
        /\ UNCHANGED <<passed, others>>

-----------------------------------------------------------------------------
(* What happens outside this window.                                       *)

\* A person edits or removes a mapping file, place by place, or another window
\* saves it.
EditedElsewhere(d, content) ==
    /\ content # overlay[d]
    /\ Spend("outside", TRUE)
    /\ overlay' = [overlay EXCEPT ![d] = content]
    /\ touched' = IF d = panel.sis THEN {"rows", "test"} ELSE touched
    /\ UNCHANGED <<disk, screen, mount, panel, passed, others>>

\* Another process switches the district.
SwitchedElsewhere(d) ==
    /\ disk.sis # d
    /\ d \in Own => overlay[d] # Gone /\ disk.verified[d] = overlay[d]
    /\ Spend("outside", TRUE)
    /\ disk' = [disk EXCEPT !.sis = d]
    /\ others' = TRUE
    /\ UNCHANGED <<overlay, screen, mount, panel, passed, touched>>

-----------------------------------------------------------------------------
Fresh == BuildOverlay(NewForm)

\* A new install, and one whose first own district is converted and whose resume
\* token names a second one.
CreatorInit ==
    /\ \E d, e \in Own, old \in BOOLEAN :
         /\ d # e
         /\ overlay = [c \in Own |-> IF old /\ c \in {d, e} THEN Fresh ELSE Gone]
         /\ disk = [sis |-> IF old THEN d ELSE Shipped,
                    pending |-> IF old THEN e ELSE NoSis,
                    verified |-> [c \in Own |-> IF old /\ c = d THEN Fresh ELSE Gone]]
         /\ passed = IF old THEN {<<d, Fresh>>} ELSE {}
         /\ left \in Budgets
    /\ screen = "away"
    /\ mount = [doc |-> disk, shown |-> disk.sis, resume |-> NoSis,
                pick |-> disk.sis, refused |-> NoSis, listed |-> {}]
    /\ panel = NoPanel
    /\ touched = {} /\ others = FALSE

CreatorNext ==
    \/ \E works \in BOOLEAN : OpenMapping(works) \/ PanelBack(works)
    \/ Leave \/ Apply
    \/ \E d \in Own \cup {Shipped} : Pick(d)
    \/ \E d \in Own \cup {NoSis}, stage \in {"forms", "files"} : OpenPanel(d, stage)
    \/ \E d \in Own, base \in Bases, tidied, works \in BOOLEAN :
           Continue(d, base, tidied, works)
    \/ \E f \in Files, name \in OwnNames \cup Files \cup {Keep, Unusable} : Name(f, name)
    \/ SaveNames
    \/ RunGate \/ GateReads
    \/ \E outcome \in Outcomes : GateEnds(outcome)
    \/ \E works, heals \in BOOLEAN : Activate(works, heals)
    \/ Discard \/ DiscardCancelled
    \/ \E deleted, works, heals \in BOOLEAN : DiscardConfirmed(deleted, works, heals)
    \/ \E d \in Own, content \in HandEdits : EditedElsewhere(d, content)
    \/ \E d \in Own \cup {Shipped} : SwitchedElsewhere(d)

CreatorSpec == CreatorInit /\ [][CreatorNext]_creatorVars

-----------------------------------------------------------------------------
(* Properties.                                                             *)

\* A files step with nothing unsaved shows the names the mapping converts with,
\* at every place that names a file, the school year's included - also after a
\* hand edit that named one file in two ways, and after a change of the starting
\* point (_unsaved, renames_from_resolved, _build_renames). The one exception is
\* a hand-edited name the filename boundary refuses, which converts all the same:
\* its row shows the standard name, with nothing unsaved (creator.py:458-464). A
\* file written elsewhere while the step is open is seen at the next one.
RowsAreWhatConverts ==
    (screen = "panel" /\ panel.stage = "files" /\ ~Unsaved(panel) /\ "rows" \notin touched
     /\ overlay[panel.sis] # Gone)
      => \A s \in DOMAIN overlay[panel.sis].at :
            LET name == overlay[panel.sis].at[s]
                shown == Renamed(panel.rows)[FileOf[s]]
            IN  shown = IF name = Unusable THEN FileOf[s] ELSE name

\* What a confirmation switches this computer to passed a test as it is now: names
\* saved after the test, and answers given after it, close the gate again. Only a
\* file written from elsewhere after the test has read it is taken untested
\* (_save_names, _continue, _activate).
ConfirmedWasTested ==
    [][(screen = "panel" /\ screen' = "view" /\ mount'.shown = panel.sis
        /\ mount.shown # panel.sis /\ panel.sis \in Own)
        => \/ <<panel.sis, overlay[panel.sis]>> \in passed
           \/ "test" \in touched]_creatorVars

\* "The persisted current sis_type [...] always track what's actually saved (never
\* the frozen mount value)" (mapping.py:407-409).
ShownIsSaved == screen # "away" /\ ~others => mount.shown = disk.sis

=============================================================================
