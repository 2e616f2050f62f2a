------------------------------ MODULE ConfigStore ------------------------------
(***************************************************************************)
(* The configuration files and the two processes that share them without a  *)
(* lock: the reader application (config_service.py) and the configuration   *)
(* editor (crear_configuracion.py, editor_core.py).                         *)
(*                                                                         *)
(* The service writes with write_json_atomic; the editor's window writes    *)
(* with open("w"), so a form is torn between truncation and dump, and what  *)
(* it writes is an old-schema payload that is hardened afterwards, when the *)
(* window has closed.  Both processes migrate the active form when they     *)
(* load it.  Neither reads the .bak files, so they are left out.            *)
(*                                                                         *)
(* What a form says is the number of the edit it comes from.                *)
(***************************************************************************)
EXTENDS Naturals, FiniteSets

CONSTANTS
    Forms,        \* file names in configs/formularios
    MaxEdits,     \* bound: saves in the editor's window
    MaxSwitches,  \* bound: changes of the active form by the application
    Mislabels,    \* {FALSE}, or {FALSE, TRUE}: a field may have an unknown label
    Faults,       \* subset of {"dump", "write", "close"}, see below
    Overlaps      \* the editor may change a form between the moment the
                  \* application reads it and the moment it writes after that

ASSUME StoreAssumption ==
    /\ IsFiniteSet(Forms) /\ MaxEdits \in Nat /\ MaxSwitches \in Nat
    /\ Mislabels \subseteq BOOLEAN /\ Overlaps \in BOOLEAN
    \* "dump": the window's save is cut after it emptied the file, by an error
    \* or with its process; "write": an atomic write or a removal raises;
    \* "close": the editor is ended at any other moment.
    /\ Faults \subseteq {"dump", "write", "close"}

None   == "none"                 \* no form: an empty name in a file
Absent == [is |-> "absent"]
Torn   == [is |-> "torn"]        \* not valid JSON
Form(n, v2, bad) == [is |-> "form", edit |-> n, v2 |-> v2, bad |-> bad]

Processes == {"application", "editor"}

VARIABLES
    content,      \* content[f]: what the form's file holds
    activeForm,   \* config_actual.json
    favorites,    \* favoritos.json
    generation,   \* _generation of the application
    loader,       \* load_active of each process: position, form, payload
    switch,       \* set_active of the application: the form it has checked
    switches,
    window,       \* position of the editor, single-threaded
    edit,         \* its operation: old name, new name, payload, forms before
    edits,        \* number of the last edit
    saved         \* saved[f]: the last edit the user was told f holds, or 0;
                  \* only a deletion or a rename takes it from f

files  == <<content, activeForm, favorites>>
reader == <<generation, switch, switches>>
editor == <<window, edit, edits>>
storeVars == <<files, reader, editor, loader, saved>>

NoLoad == [at |-> "idle", form |-> None, payload |-> Absent]
\* original is nombre_original; then is what follows the hardening.
NoEdit == [old |-> None, original |-> None, new |-> None, payload |-> Absent,
           before |-> {}, then |-> "none"]

\* list_forms: a torn file is listed as well.
Listed == {f \in Forms : content[f] # Absent}

\* validate_configuration after read_json.
Readable(c) == c.is = "form" /\ ~c.bad

\* migrate_configuration.
Migrated(c) == [c EXCEPT !.v2 = TRUE]

\* write_json_atomic: the whole new content, or an error and the old content.
Atomically(var, new, old) == var' = new \/ ("write" \in Faults /\ var' = old)

\* The application is not about to write because of what it read of f.
Unclaimed(f) ==
    /\ switch # f
    /\ ~(loader["application"].at = "write" /\ loader["application"].form = f)
--------------------------------------------------------------------------------
(* load_active, in either process; the application holds _lock meanwhile.   *)
LoadName(p) ==
    /\ loader[p].at = "idle"
    /\ p = "editor" => window = "refresh"
    /\ IF activeForm \in Listed
       THEN loader' = [loader EXCEPT ![p] = [NoLoad EXCEPT !.at = "read", !.form = activeForm]]
            /\ UNCHANGED window
       ELSE loader' = loader                  \* ConfigurationError
            /\ window' = IF p = "editor" THEN "idle" ELSE window
    /\ UNCHANGED <<files, reader, edit, edits, saved>>

LoadForm(p) ==
    LET payload == content[loader[p].form]
    IN  /\ loader[p].at = "read"
        /\ IF Readable(payload) /\ ~payload.v2
           THEN loader' = [loader EXCEPT ![p].at = "write", ![p].payload = payload]
                /\ UNCHANGED window
           ELSE loader' = [loader EXCEPT ![p] = NoLoad]
                /\ window' = IF p = "editor" THEN "idle" ELSE window
        /\ UNCHANGED <<files, reader, edit, edits, saved>>

\* The migrated payload replaces the file, which may be another one by now.
LoadWrite(p) ==
    LET f == loader[p].form
        payload == loader[p].payload
    IN  /\ loader[p].at = "write"
        /\ Atomically(content, [content EXCEPT ![f] = Migrated(payload)], content)
        /\ loader' = [loader EXCEPT ![p] = NoLoad]
        /\ window' = IF p = "editor" THEN "idle" ELSE window
        /\ UNCHANGED <<activeForm, favorites, reader, edit, edits, saved>>
--------------------------------------------------------------------------------
(* set_active and toggle_favorite of the application: the form is checked   *)
(* before the lock is taken.                                                *)
\* favorites(): names of forms that exist.
Favorite(i) == IF favorites[i] \in Listed THEN favorites[i] ELSE None

\* The menu offers the listed forms; the hot key the favourite that is not active.
Choice == Listed \cup
    (IF None \notin {Favorite(1), Favorite(2)} /\ Favorite(1) # Favorite(2) /\ activeForm \in Listed
     THEN {IF activeForm = Favorite(1) THEN Favorite(2) ELSE Favorite(1)} ELSE {})

SwitchCheck ==
    /\ switch = None /\ switches < MaxSwitches
    /\ \E f \in Choice : Readable(content[f]) /\ switch' = f
    /\ switches' = switches + 1
    /\ UNCHANGED <<files, generation, loader, editor, saved>>

\* The generation is raised first; a write that fails leaves it raised.
SwitchWrite ==
    /\ switch # None /\ loader["application"].at = "idle"
    /\ generation' = generation + 1
    /\ Atomically(activeForm, switch, activeForm)
    /\ switch' = None
    /\ UNCHANGED <<content, favorites, switches, loader, editor, saved>>
--------------------------------------------------------------------------------
(* The editor.  An operation ends in "refresh", which reads the active form. *)
Finished == window' = "refresh" /\ edit' = NoEdit

\* create(): the window's name must be free.
OpenCreate ==
    /\ window = "idle" /\ edits < MaxEdits
    /\ \E f \in Forms \ Listed :
          edit' = [NoEdit EXCEPT !.new = f, !.before = Listed]
    /\ window' = "truncate"
    /\ UNCHANGED <<files, reader, edits, loader, saved>>

\* edit(): a form that can be read is saved under its name or one that is free.
OpenEdit ==
    /\ window = "idle" /\ edits < MaxEdits
    /\ \E f \in Listed : content[f] # Torn /\ \E g \in {f} \cup (Forms \ Listed) :
          edit' = [NoEdit EXCEPT !.old = f, !.original = f, !.new = g, !.before = Listed]
    /\ window' = "truncate"
    /\ UNCHANGED <<files, reader, edits, loader, saved>>

\* One that cannot be read leaves the window without an original name, so any
\* name is free, and with the default fields.
OpenUnreadable ==
    /\ window = "idle" /\ edits < MaxEdits
    /\ \E f \in Listed : content[f] = Torn /\ \E g \in Forms :
          edit' = [NoEdit EXCEPT !.old = f, !.new = g, !.before = Listed]
    /\ window' = "truncate"
    /\ UNCHANGED <<files, reader, edits, loader, saved>>

\* Regression: the new name is not compared with the old one.
RenamesAlways == edit.original # None

Renames == edit.original \notin {None, edit.new}

\* guardar_config: open(path, "w") empties the file, then json.dump fills it.
SaveTruncates ==
    /\ window = "truncate" /\ window' = "dump"
    /\ Overlaps \/ Unclaimed(edit.new)
    /\ content' = [content EXCEPT ![edit.new] = Torn]
    /\ UNCHANGED <<activeForm, favorites, reader, edit, edits, loader, saved>>

SaveDumps ==
    /\ window = "dump" /\ edits' = edits + 1
    /\ \E bad \in Mislabels : content' = [content EXCEPT ![edit.new] = Form(edits + 1, FALSE, bad)]
    /\ window' = IF Renames /\ edit.old \in Listed THEN "remove" ELSE "told"
    /\ UNCHANGED <<activeForm, favorites, reader, edit, loader, saved>>

\* "No se pudo guardar" or "renombrar": the window stays and may be closed.
\* What the form held before is gone; of a rename both names may be left.
SaveRaises ==
    /\ \/ window = "dump" /\ "dump" \in Faults
       \/ window = "remove" /\ "write" \in Faults
    /\ window' = "choose"
    /\ UNCHANGED <<files, reader, edit, edits, loader, saved>>

\* The new name has what the old one had, and more.
SaveRemoves ==
    /\ window = "remove" /\ window' = "told"
    /\ Overlaps \/ Unclaimed(edit.old)
    /\ content' = [content EXCEPT ![edit.old] = Absent]
    /\ saved' = [saved EXCEPT ![edit.new] = saved[edit.old], ![edit.old] = 0]
    /\ UNCHANGED <<activeForm, favorites, reader, edit, edits, loader>>

\* "Guardado"; what happens until the user has read it is in the other actions.
UserIsTold ==
    /\ window = "told" /\ window' = "choose"
    /\ saved' = [saved EXCEPT ![edit.new] = edits]
    /\ UNCHANGED <<files, reader, edit, edits, loader>>

\* The form that is hardened: a created one, or the only new name if the old is gone.
Selected == IF edit.old \notin Listed /\ Cardinality(Listed \ edit.before) = 1
            THEN CHOOSE f \in Listed \ edit.before : TRUE ELSE edit.old

ChooseForm ==
    /\ window = "choose"
    /\ IF edit.old = None /\ edit.new \notin Listed
       THEN Finished                          \* nothing was added
       ELSE /\ window' = "harden"
            /\ edit' = [edit EXCEPT !.new = IF edit.old = None THEN edit.new ELSE Selected,
                                    !.then = IF edit.old = None THEN "none" ELSE "rename"]
    /\ UNCHANGED <<files, reader, edits, loader, saved>>

\* _harden_form: read, migrate, validate; an error skips the references.
HardenRead ==
    /\ window = "harden"
    /\ IF Readable(content[edit.new])
       THEN edit' = [edit EXCEPT !.payload = content[edit.new]] /\ window' = "hardened"
       ELSE Finished
    /\ UNCHANGED <<files, reader, edits, loader, saved>>

HardenWrite ==
    /\ window = "hardened"
    /\ \/ /\ content' = [content EXCEPT ![edit.new] = Migrated(edit.payload)]
          /\ CASE edit.then = "activate" -> window' = "confirm" /\ UNCHANGED edit
               [] edit.then = "rename" /\ edit.new # edit.old ->
                      window' = "favorites" /\ UNCHANGED edit
               [] OTHER -> Finished
       \/ "write" \in Faults /\ Finished /\ UNCHANGED content
    /\ UNCHANGED <<activeForm, favorites, reader, edits, loader, saved>>

\* Regression: only the active form follows a new name.
SkipFavorites ==
    /\ window = "favorites" /\ window' = "active"
    /\ UNCHANGED <<files, reader, edit, edits, loader, saved>>

\* _replace_references: the favourites, then the active form.
ReplaceFavorites ==
    LET renamed == [i \in 1..2 |-> IF favorites[i] = edit.old THEN edit.new ELSE favorites[i]]
    IN  /\ window = "favorites"
        /\ \/ favorites' = renamed /\ window' = "active" /\ UNCHANGED edit
           \/ "write" \in Faults /\ favorites # renamed /\ Finished /\ UNCHANGED favorites
        /\ UNCHANGED <<content, activeForm, reader, edits, loader, saved>>

\* An empty name is written as it is, another by set_active, which checks it.
Acceptable(f) == f # None => Readable(content[f])

ReplaceActive ==
    /\ window = "active"
    /\ Finished
    /\ IF activeForm # edit.old THEN UNCHANGED activeForm
       ELSE \/ Acceptable(edit.new) /\ activeForm' = edit.new
            \/ ("write" \in Faults \/ ~Acceptable(edit.new)) /\ UNCHANGED activeForm
    /\ UNCHANGED <<content, favorites, reader, edits, loader, saved>>

Activate ==
    /\ window = "idle" /\ edits < MaxEdits
    /\ \E f \in Listed : edit' = [NoEdit EXCEPT !.new = f, !.then = "activate"]
    /\ window' = "harden"
    /\ UNCHANGED <<files, reader, edits, loader, saved>>

\* askyesno, then set_active of the editor's own service.
ConfirmActivation ==
    /\ window = "confirm" /\ Finished
    /\ \/ UNCHANGED activeForm               \* refused, or an error
       \/ Acceptable(edit.new) /\ activeForm' = edit.new
    /\ UNCHANGED <<content, favorites, reader, edits, loader, saved>>

Delete ==
    /\ window = "idle" /\ edits < MaxEdits
    /\ \E f \in Listed :
          /\ Overlaps \/ Unclaimed(f)
          /\ content' = [content EXCEPT ![f] = Absent]
          /\ saved' = [saved EXCEPT ![f] = 0]
          /\ edit' = [NoEdit EXCEPT !.old = f]
    /\ edits' = edits + 1 /\ window' = "favorites"
    /\ UNCHANGED <<activeForm, favorites, reader, loader>>

SaveFavorites ==
    /\ window = "idle" /\ edits < MaxEdits
    /\ \E f, g \in Listed : f # g /\ Atomically(favorites, <<f, g>>, favorites)
    /\ edits' = edits + 1 /\ Finished
    /\ UNCHANGED <<content, activeForm, reader, loader, saved>>

EditorIsClosed ==
    /\ window # "idle" /\ (IF window = "dump" THEN "dump" ELSE "close") \in Faults
    /\ window' = "idle" /\ edit' = NoEdit
    /\ loader' = [loader EXCEPT !["editor"] = NoLoad]
    /\ UNCHANGED <<files, reader, edits, saved>>
--------------------------------------------------------------------------------
\* initialize() has run; the forms of a former version have the old schema,
\* and a save of a former session may have been cut.
StoreInit ==
    /\ content \in [Forms -> {Absent, Torn, Form(0, TRUE, FALSE), Form(0, FALSE, FALSE)}]
    /\ activeForm \in Listed /\ favorites \in [1..2 -> Listed \cup {None}]
    /\ generation = 0 /\ switch = None /\ switches = 0
    /\ loader = [p \in Processes |-> NoLoad]
    /\ window = "idle" /\ edit = NoEdit /\ edits = 0
    /\ saved = [f \in Forms |-> 0]

StoreNext ==
    \/ \E p \in Processes : LoadName(p) \/ LoadForm(p) \/ LoadWrite(p)
    \/ SwitchCheck \/ SwitchWrite
    \/ OpenCreate \/ OpenEdit \/ OpenUnreadable
    \/ SaveTruncates \/ SaveDumps \/ SaveRaises \/ SaveRemoves \/ UserIsTold
    \/ ChooseForm \/ HardenRead \/ HardenWrite \/ ReplaceFavorites \/ ReplaceActive
    \/ Activate \/ ConfirmActivation \/ Delete \/ SaveFavorites \/ EditorIsClosed

StoreSpec == StoreInit /\ [][StoreNext]_storeVars
--------------------------------------------------------------------------------
(* When the editor rests, every form holds what the user was last told it   *)
(* holds, or a later edit: no step of either process puts something older,  *)
(* half a form or nothing in its place, however often it is saved, renamed, *)
(* migrated and hardened.  So as long as no save is cut after it emptied    *)
(* the file (Faults) and none falls between the application's reading of a  *)
(* form and the writing of its migration (Overlaps).                        *)
EditSurvives ==
    window = "idle" => \A f \in Forms :
        saved[f] # 0 => content[f].is = "form" /\ content[f].edit >= saved[f]

(* When the editor rests, the active form and the favourites exist: a       *)
(* rename or a deletion repairs both, whatever the application loads and    *)
(* switches at any step of it and whichever save is cut.  So as long as     *)
(* nothing else fails on the way (Faults, Mislabels) and the application    *)
(* has not just checked the very form that goes away (Overlaps).            *)
ReferencesRepaired ==
    window = "idle" => {activeForm, favorites[1], favorites[2]} \subseteq Listed \cup {None}
=============================================================================
