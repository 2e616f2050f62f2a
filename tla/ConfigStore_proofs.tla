-------------------------- MODULE ConfigStore_proofs --------------------------
(***************************************************************************)
(* Theorems about the configuration files that the application and the      *)
(* editor share without a lock, for any number of forms, of edits and of    *)
(* changes of the active form: what the user saved stays, and a rename or   *)
(* a deletion leaves no reference to a form that is gone.  Both need that   *)
(* the editor changes no form between the application's reading and writing *)
(* (Overlaps), and each that some faults do not happen: a save that is cut,  *)
(* or a failure between a rename and the references to it.  Without these    *)
(* hypotheses the code loses the edit and leaves a name without a form.      *)
(***************************************************************************)
EXTENDS ConfigStore, FiniteSetTheorems, TLAPS

Formed == [is : {"form"}, edit : Nat, v2 : BOOLEAN, bad : Mislabels \cup {FALSE}]
Contents == Formed \cup {Absent, Torn}
Names == Forms \cup {None}
Loads == [at : {"idle", "read", "write"}, form : Names, payload : Contents]
Edits == {e \in [old : Names, original : Names, new : Names, payload : Contents,
                 before : SUBSET Forms, then : {"none", "rename", "activate"}] :
            e.original \in {None, e.old}}

(* Positions of the window at which it has a form to write.                 *)
Naming == {"truncate", "dump", "remove", "told", "choose", "harden", "hardened"}

StoreTypes ==
    /\ content \in [Forms -> Contents] /\ edits \in Nat
    /\ loader \in [Processes -> Loads] /\ edit \in Edits
    /\ \A p \in Processes :
          /\ loader[p].at # "idle" => loader[p].form \in Forms
          /\ loader[p].at = "write" => loader[p].payload \in Formed
    /\ window \in Naming => edit.new \in Forms
    /\ window = "hardened" => edit.payload \in Formed
    /\ window = "remove" => edit.old \in Forms /\ edit.old # edit.new

LEMMA StoreShapes ==
    /\ NoEdit \in Edits /\ NoLoad \in Loads /\ NoLoad.at = "idle"
    /\ Absent \in Contents /\ Torn \in Contents /\ Absent \notin Formed /\ Torn \notin Formed
    /\ Torn # Absent
  BY DEF NoEdit, Edits, NoLoad, Loads, Names, Contents, Formed, Absent, Torn

(* A migration says what the form said before.                              *)
LEMMA MigrationKeeps ==
    ASSUME NEW c \in Formed
    PROVE  Migrated(c) \in Formed /\ Migrated(c).edit = c.edit
  BY DEF Migrated, Formed

(* What validates is a form, with known labels.                             *)
LEMMA ReadableForms ==
    ASSUME NEW c \in Contents
    PROVE  /\ Readable(c) => c \in Formed
           /\ c \in Formed /\ TRUE \notin Mislabels => Readable(c)
<1>1. Absent.is # "form" /\ Torn.is # "form"
  BY DEF Absent, Torn
<1>2. c.is = "form" => c \in Formed
  BY <1>1 DEF Contents
<1>3. ASSUME c \in Formed, TRUE \notin Mislabels PROVE c.is = "form" /\ c.bad = FALSE
  <2>1. c.bad \in BOOLEAN /\ c.bad \in Mislabels \cup {FALSE} /\ c.is = "form"
    BY <1>3, StoreAssumption DEF Formed
  <2>2. c.bad # TRUE
    BY <1>3, <2>1
  <2> QED BY <2>1, <2>2
<1> QED BY <1>2, <1>3 DEF Readable

LEMMA StoreTypesInit == StoreInit => StoreTypes
<1> SUFFICES ASSUME StoreInit PROVE StoreTypes
  OBVIOUS
<1>1. \A b \in BOOLEAN : Form(0, b, FALSE) \in Formed
  BY DEF Form, Formed
<1>2. content \in [Forms -> Contents]
  BY <1>1, StoreShapes DEF StoreInit, Contents
<1>3. loader \in [Processes -> Loads] /\ \A p \in Processes : loader[p].at = "idle"
  BY StoreShapes DEF StoreInit
<1> QED BY <1>2, <1>3, StoreShapes DEF StoreInit, StoreTypes, Naming

(* Loading the active form, in either process: the operation of the window  *)
(* stays as it is, and only the last step writes.                           *)
LEMMA LoadTypes ==
    ASSUME StoreTypes, NEW p \in Processes, LoadName(p) \/ LoadForm(p) \/ LoadWrite(p)
    PROVE  /\ UNCHANGED <<edit, edits>>
           /\ window' = window \/ (p = "editor" /\ window' = "idle")
           /\ loader' \in [Processes -> Loads]
           /\ \A q \in Processes :
                /\ loader'[q].at # "idle" => loader'[q].form \in Forms
                /\ loader'[q].at = "write" => loader'[q].payload \in Formed
           /\ UNCHANGED <<activeForm, favorites, saved, switch>>
           /\ \/ UNCHANGED content
              \/ LoadWrite(p) /\ loader[p].form \in Forms /\ loader[p].payload \in Formed
<1>1. CASE LoadName(p)
  <2>1. loader' = loader \/ (activeForm \in Listed
           /\ loader' = [loader EXCEPT ![p] = [NoLoad EXCEPT !.at = "read", !.form = activeForm]])
    BY <1>1 DEF LoadName
  <2>2. activeForm \in Listed =>
           [NoLoad EXCEPT !.at = "read", !.form = activeForm] \in
              [at : {"read"}, form : Forms, payload : Contents]
    BY StoreShapes DEF NoLoad, Listed
  <2>3. /\ UNCHANGED <<edit, edits, content, activeForm, favorites, saved, switch>>
        /\ window' = window \/ (p = "editor" /\ window' = "idle")
    BY <1>1 DEF LoadName, files, reader
  <2> QED BY <2>1, <2>2, <2>3 DEF StoreTypes, Loads, Names
<1>2. CASE LoadForm(p)
  <2> DEFINE payload == content[loader[p].form]
  <2>1. loader[p] \in Loads /\ loader[p].form \in Forms /\ payload \in Contents
    BY <1>2 DEF LoadForm, StoreTypes
  <2>2. \/ loader' = [loader EXCEPT ![p] = NoLoad]
        \/ /\ Readable(payload)
           /\ loader' = [loader EXCEPT ![p].at = "write", ![p].payload = payload]
    BY <1>2 DEF LoadForm
  <2>3. Readable(payload) => payload \in Formed
    BY <2>1, ReadableForms
  <2>4. /\ UNCHANGED <<edit, edits, content, activeForm, favorites, saved, switch>>
        /\ window' = window \/ (p = "editor" /\ window' = "idle")
    BY <1>2 DEF LoadForm, files, reader
  <2> HIDE DEF payload
  <2>5. CASE loader' = [loader EXCEPT ![p] = NoLoad]
    BY <2>4, <2>5, StoreShapes DEF StoreTypes
  <2>6. CASE Readable(payload)
             /\ loader' = [loader EXCEPT ![p].at = "write", ![p].payload = payload]
    BY <2>1, <2>3, <2>4, <2>6 DEF StoreTypes, Loads
  <2> QED BY <2>2, <2>5, <2>6
<1>3. CASE LoadWrite(p)
  <2>1. /\ loader' = [loader EXCEPT ![p] = NoLoad] /\ loader[p].at = "write"
        /\ UNCHANGED <<edit, edits, activeForm, favorites, saved, switch>>
        /\ window' = window \/ (p = "editor" /\ window' = "idle")
    BY <1>3 DEF LoadWrite, reader
  <2> QED BY <1>3, <2>1, StoreShapes DEF StoreTypes
<1> QED BY <1>1, <1>2, <1>3

(* The window.  What each of its steps does to the operation.               *)
LEMMA Opened ==
    ASSUME StoreTypes, OpenCreate \/ OpenEdit \/ OpenUnreadable
    PROVE  edit' \in Edits /\ edit'.new \in Forms /\ window' = "truncate" /\ edits' = edits
<1>1. CASE OpenCreate
  BY <1>1 DEF OpenCreate, NoEdit, Edits, Names, Contents, Listed
<1>2. CASE OpenEdit
  <2>1. PICK f \in Listed, g \in Forms :
           edit' = [NoEdit EXCEPT !.old = f, !.original = f, !.new = g, !.before = Listed]
    BY <1>2 DEF OpenEdit, Listed
  <2>2. edit' = [old |-> f, original |-> f, new |-> g, payload |-> Absent,
                 before |-> Listed, then |-> "none"]
    BY <2>1 DEF NoEdit
  <2>3. window' = "truncate" /\ edits' = edits
    BY <1>2 DEF OpenEdit
  <2>4. Listed \in SUBSET Forms
    BY DEF Listed
  <2>5. Absent \in Contents /\ f \in Forms
    BY DEF Contents, Listed
  <2> QED BY <2>1, <2>2, <2>3, <2>4, <2>5 DEF Edits, Names
<1>3. CASE OpenUnreadable
  BY <1>3 DEF OpenUnreadable, NoEdit, Edits, Names, Contents, Listed
<1> QED BY <1>1, <1>2, <1>3

LEMMA SelectedForm == ASSUME StoreTypes, edit.old \in Forms PROVE Selected \in Forms
<1>1. CASE edit.old \notin Listed /\ Cardinality(Listed \ edit.before) = 1
  <2>1. Listed \ edit.before # {}
    BY <1>1, FS_EmptySet
  <2> QED BY <1>1, <2>1 DEF Selected, Listed
<1>2. CASE ~(edit.old \notin Listed /\ Cardinality(Listed \ edit.before) = 1)
  BY <1>2 DEF Selected
<1> QED BY <1>1, <1>2

LEMMA StoreTypesStep == StoreTypes /\ [StoreNext]_storeVars => StoreTypes'
<1> SUFFICES ASSUME StoreTypes, [StoreNext]_storeVars PROVE StoreTypes'
  OBVIOUS
<1> DEFINE LoadsTyped ==
      /\ loader \in [Processes -> Loads]
      /\ \A p \in Processes :
            /\ loader[p].at # "idle" => loader[p].form \in Forms
            /\ loader[p].at = "write" => loader[p].payload \in Formed
<1>0. /\ content \in [Forms -> Contents] /\ edits \in Nat /\ edit \in Edits /\ LoadsTyped
  BY DEF StoreTypes
<1>1. ASSUME NEW p \in Processes, LoadName(p) \/ LoadForm(p) \/ LoadWrite(p) PROVE StoreTypes'
  <2>1. content' \in [Forms -> Contents]
    <3>1. CASE LoadWrite(p) /\ loader[p].form \in Forms /\ loader[p].payload \in Formed
      <4>1. content' = content \/ content' = [content EXCEPT ![loader[p].form] = Migrated(loader[p].payload)]
        BY <3>1 DEF LoadWrite, Atomically
      <4>2. Migrated(loader[p].payload) \in Contents
        BY <3>1, MigrationKeeps DEF Contents
      <4> QED BY <1>0, <4>1, <4>2
    <3> QED BY <1>0, <1>1, <3>1, LoadTypes
  <2>2. /\ UNCHANGED <<edit, edits>> /\ (window' = window \/ window' = "idle") /\ LoadsTyped'
    BY <1>1, LoadTypes
  <2> QED BY <2>1, <2>2 DEF StoreTypes, Naming
<1>2. CASE \/ SwitchCheck \/ SwitchWrite \/ UNCHANGED storeVars
  <2>1. UNCHANGED <<content, loader, window, edit, edits>>
    BY <1>2 DEF SwitchCheck, SwitchWrite, storeVars, files, editor
  <2> QED BY <2>1 DEF StoreTypes
<1>3. CASE OpenCreate \/ OpenEdit \/ OpenUnreadable
  <2>1. UNCHANGED <<content, loader>>
    BY <1>3 DEF OpenCreate, OpenEdit, OpenUnreadable, files
  <2>2. LoadsTyped'
    BY <1>0, <2>1
  <2> QED BY <1>0, <1>3, <2>1, <2>2, Opened DEF StoreTypes, Naming
<1>4. CASE SaveTruncates \/ SaveDumps
  <2>7. edits \in Nat /\ edits + 1 \in Nat
    BY <1>0
  <2>8. /\ window \in {"truncate", "dump"} /\ UNCHANGED <<edit, loader>>
        /\ edits' \in {edits, edits + 1}
    BY <1>4 DEF SaveTruncates, SaveDumps
  <2>1. /\ UNCHANGED <<edit, loader>> /\ edits' \in Nat /\ edit.new \in Forms
    BY <2>7, <2>8 DEF StoreTypes, Naming
  <2>2. \A bad \in Mislabels : Form(edits + 1, FALSE, bad) \in Contents
    BY <2>7 DEF Form, Contents, Formed
  <2>3. content' \in [Forms -> Contents]
    BY <1>0, <1>4, <2>1, <2>2, StoreShapes DEF SaveTruncates, SaveDumps
  <2>4. window' \in {"dump", "told"} \/ (window' = "remove" /\ edit.old \in Listed /\ Renames)
    BY <1>4 DEF SaveTruncates, SaveDumps
  <2>5. window' = "remove" => edit.old \in Forms /\ edit.old # edit.new
    <3> SUFFICES ASSUME window' = "remove" PROVE edit.old \in Forms /\ edit.old # edit.new
      OBVIOUS
    <3>1. edit.original \in {None, edit.old}
      BY <1>0 DEF Edits
    <3> QED BY <2>4, <3>1 DEF Listed, Renames
  <2>6. LoadsTyped'
    BY <1>0, <2>1
  <2> QED BY <1>0, <2>1, <2>3, <2>4, <2>5, <2>6 DEF StoreTypes
<1>5. CASE SaveRaises \/ SaveRemoves \/ UserIsTold
  <2>1. /\ window \in Naming /\ window' \in {"choose", "told"} /\ UNCHANGED <<edit, edits, loader>>
        /\ content' = content \/ content' = [content EXCEPT ![edit.old] = Absent]
    BY <1>5 DEF SaveRaises, SaveRemoves, UserIsTold, files, Naming
  <2>2. content' \in [Forms -> Contents]
    BY <1>0, <2>1, StoreShapes
  <2> QED BY <2>1, <2>2 DEF StoreTypes
<1>6. CASE ChooseForm
  <2>1. UNCHANGED <<content, edits, loader>> /\ edit.new \in Forms /\ edit.old \in Names
    BY <1>0, <1>6 DEF ChooseForm, StoreTypes, Naming, files, Edits
  <2>2. \/ window' = "refresh" /\ edit' = NoEdit
        \/ /\ window' = "harden"
           /\ edit' = [edit EXCEPT !.new = IF edit.old = None THEN edit.new ELSE Selected,
                                   !.then = IF edit.old = None THEN "none" ELSE "rename"]
    BY <1>6 DEF ChooseForm, Finished
  <2>3. edit.old # None => Selected \in Forms
    BY <2>1, SelectedForm DEF Names
  <2>4. LoadsTyped'
    BY <1>0, <2>1
  <2>5. CASE window' = "refresh" /\ edit' = NoEdit
    BY <1>0, <2>1, <2>4, <2>5, StoreShapes DEF StoreTypes, Naming
  <2>6. CASE window' = "harden" /\ edit' \in Edits /\ edit'.new \in Forms
    BY <1>0, <2>1, <2>4, <2>6 DEF StoreTypes, Naming
  <2>7. ASSUME NEW f \in Forms, NEW then \in {"none", "rename"},
               edit' = [edit EXCEPT !.new = f, !.then = then]
        PROVE  edit' \in Edits /\ edit'.new \in Forms
    BY <1>0, <2>7 DEF Edits, Names
  <2> QED BY <2>1, <2>2, <2>3, <2>5, <2>6, <2>7
<1>7. CASE HardenRead
  <2>1. UNCHANGED <<content, edits, loader>> /\ edit.new \in Forms
    BY <1>7 DEF HardenRead, StoreTypes, Naming, files
  <2>2. content[edit.new] \in Contents /\ (Readable(content[edit.new]) => content[edit.new] \in Formed)
    BY <1>0, <2>1, ReadableForms
  <2>3. LoadsTyped'
    BY <1>0, <2>1
  <2>4. CASE Readable(content[edit.new])
    <3>1. edit' = [edit EXCEPT !.payload = content[edit.new]] /\ window' = "hardened"
      BY <1>7, <2>4 DEF HardenRead
    <3>2. edit' \in Edits /\ edit'.new \in Forms /\ edit'.payload \in Formed
      BY <1>0, <2>1, <2>2, <2>4, <3>1 DEF Edits
    <3> QED BY <1>0, <2>1, <2>3, <3>1, <3>2 DEF StoreTypes
  <2>5. CASE ~Readable(content[edit.new])
    <3>1. edit' = NoEdit /\ window' = "refresh"
      BY <1>7, <2>5 DEF HardenRead, Finished
    <3> QED BY <1>0, <2>1, <2>3, <3>1, StoreShapes DEF StoreTypes, Naming
  <2> QED BY <2>4, <2>5
<1>8. CASE HardenWrite
  <2>1. /\ UNCHANGED <<edits, loader>> /\ edit.new \in Forms /\ edit.payload \in Formed
        /\ window' \notin Naming \cup {"remove"} /\ edit' \in {edit, NoEdit}
        /\ content' = content \/ content' = [content EXCEPT ![edit.new] = Migrated(edit.payload)]
    BY <1>8 DEF HardenWrite, StoreTypes, Naming, Finished
  <2>2. Migrated(edit.payload) \in Contents
    BY <2>1, MigrationKeeps DEF Contents
  <2>3. content' \in [Forms -> Contents] /\ edit' \in Edits
    BY <1>0, <2>1, <2>2, StoreShapes
  <2>4. LoadsTyped'
    BY <1>0, <2>1
  <2> QED BY <1>0, <2>1, <2>3, <2>4 DEF StoreTypes, Naming
<1>9. CASE ReplaceFavorites \/ ReplaceActive \/ ConfirmActivation
  <2>1. /\ UNCHANGED <<content, edits, loader>> /\ window' \in {"active", "refresh"}
        /\ edit' \in {edit, NoEdit}
    BY <1>9 DEF ReplaceFavorites, ReplaceActive, ConfirmActivation, Finished
  <2>2. edit' \in Edits /\ LoadsTyped'
    BY <1>0, <2>1, StoreShapes
  <2> QED BY <1>0, <2>1, <2>2 DEF StoreTypes, Naming
<1>10. CASE Activate \/ Delete
  <2>1. PICK f \in Listed : edit' = [NoEdit EXCEPT !.new = f, !.then = "activate"]
                            \/ edit' = [NoEdit EXCEPT !.old = f]
    BY <1>10 DEF Activate, Delete
  <2>2. /\ edit' \in Edits /\ (Activate => edit'.new \in Forms)
    BY <1>10, <2>1 DEF NoEdit, Edits, Names, Contents, Listed, Activate
  <2>6. edits \in Nat /\ edits + 1 \in Nat
    BY <1>0
  <2>3. /\ UNCHANGED loader /\ edits' \in Nat
        /\ \/ Activate /\ window' = "harden"
           \/ window' = "favorites"
    BY <1>10, <2>6 DEF Activate, Delete
  <2>4. content' \in [Forms -> Contents]
    BY <1>0, <1>10, StoreShapes DEF Activate, Delete, files
  <2>5. LoadsTyped'
    BY <1>0, <2>3
  <2> QED BY <2>2, <2>3, <2>4, <2>5 DEF StoreTypes, Naming
<1>11. CASE SaveFavorites \/ EditorIsClosed
  <2>1. /\ content' = content /\ edits' \in Nat /\ edit' = NoEdit /\ window' \in {"idle", "refresh"}
        /\ loader' \in {loader, [loader EXCEPT !["editor"] = NoLoad]}
    BY <1>0, <1>11 DEF SaveFavorites, EditorIsClosed, files, Finished
  <2>2. LoadsTyped'
    BY <1>0, <2>1, StoreShapes
  <2> QED BY <1>0, <2>1, <2>2, StoreShapes DEF StoreTypes, Naming
<1> QED
  BY <1>1, <1>2, <1>3, <1>4, <1>5, <1>6, <1>7, <1>8, <1>9, <1>10, <1>11 DEF StoreNext

--------------------------------------------------------------------------------
(* Every step leaves the window in a position of its own; only a load goes  *)
(* on while the window refreshes.                                           *)
EditorLoads == loader["editor"].at # "idle" => window = "refresh"

LEMMA EditorLoadsStep ==
    ASSUME StoreTypes, EditorLoads, [StoreNext]_storeVars PROVE EditorLoads'
<1>0. loader \in [Processes -> Loads] /\ "editor" \in Processes /\ NoLoad.at = "idle"
  BY DEF StoreTypes, Processes, NoLoad
<1>1. ASSUME LoadName("editor") PROVE EditorLoads'
  <2>1. window = "refresh" /\ (loader' = loader \/ window' = window)
    BY <1>1 DEF LoadName
  <2>2. loader' = loader => loader'["editor"].at = "idle"
    BY <1>1 DEF LoadName
  <2> QED BY <2>1, <2>2 DEF EditorLoads
<1>2. ASSUME LoadForm("editor") \/ LoadWrite("editor") PROVE EditorLoads'
  <2>1. window = "refresh"
    BY <1>2 DEF LoadForm, LoadWrite, EditorLoads
  <2>2. window' = window \/ loader' = [loader EXCEPT !["editor"] = NoLoad]
    BY <1>2 DEF LoadForm, LoadWrite
  <2> QED BY <1>0, <2>1, <2>2 DEF EditorLoads
<1>3. ASSUME NEW p \in Processes, p # "editor", LoadName(p) \/ LoadForm(p) \/ LoadWrite(p)
      PROVE  EditorLoads'
  <2>1. window' = window
    BY <1>3 DEF LoadName, LoadForm, LoadWrite
  <2>2. loader'["editor"] = loader["editor"]
    BY <1>0, <1>3 DEF LoadName, LoadForm, LoadWrite
  <2> QED BY <2>1, <2>2 DEF EditorLoads
<1>4. CASE EditorIsClosed
  BY <1>0, <1>4 DEF EditorIsClosed, EditorLoads
<1>5. ASSUME loader' = loader, window' = window \/ window # "refresh" PROVE EditorLoads'
  BY <1>5 DEF EditorLoads
<1>6. CASE \/ SwitchCheck \/ SwitchWrite \/ OpenCreate \/ OpenEdit \/ OpenUnreadable
           \/ SaveTruncates \/ SaveDumps \/ SaveRaises \/ SaveRemoves \/ UserIsTold
           \/ UNCHANGED storeVars
  BY <1>5, <1>6 DEF SwitchCheck, SwitchWrite, OpenCreate, OpenEdit, OpenUnreadable,
     SaveTruncates, SaveDumps, SaveRaises, SaveRemoves, UserIsTold, storeVars, editor
<1>7. CASE \/ ChooseForm \/ HardenRead \/ HardenWrite \/ ReplaceFavorites \/ ReplaceActive
           \/ Activate \/ ConfirmActivation \/ Delete \/ SaveFavorites
  BY <1>5, <1>7 DEF ChooseForm, HardenRead, HardenWrite, ReplaceFavorites, ReplaceActive,
     Activate, ConfirmActivation, Delete, SaveFavorites
<1> QED BY <1>1, <1>2, <1>3, <1>4, <1>6, <1>7 DEF StoreNext

--------------------------------------------------------------------------------
(* What has been read and is about to be written back is what the file      *)
(* still says, by its edit: the editor leaves the forms alone that the      *)
(* application is about to write, and does one thing at a time.             *)
Holds(f, n) == content[f] \in Formed /\ content[f].edit = n

Loaded ==
    /\ \A p \in Processes :
          loader[p].at = "write" => Holds(loader[p].form, loader[p].payload.edit)
    /\ window = "dump" => content[edit.new] = Torn
    /\ window = "hardened" => Holds(edit.new, edit.payload.edit)

(* No form changes, but for its schema.                                     *)
SameEdits ==
    \A g \in Forms :
        \/ content'[g] = content[g]
        \/ content[g] \in Formed /\ content'[g] \in Formed /\ content'[g].edit = content[g].edit

(* A migration written back changes no edit if the form is the one read.    *)
LEMMA WrittenBack ==
    ASSUME StoreTypes, NEW f \in Forms, NEW c \in Formed, Holds(f, c.edit),
           \/ content' = content
           \/ content' = [content EXCEPT ![f] = Migrated(c)]
    PROVE  SameEdits
<1>1. Migrated(c) \in Formed /\ Migrated(c).edit = c.edit
  BY MigrationKeeps
<1>2. ASSUME NEW g \in Forms
      PROVE  \/ content'[g] = content[g]
             \/ content[g] \in Formed /\ content'[g] \in Formed /\ content'[g].edit = content[g].edit
  <2>1. content'[g] = content[g] \/ (g = f /\ content'[g] = Migrated(c))
    BY DEF StoreTypes
  <2> QED BY <1>1, <2>1 DEF Holds
<1> QED BY <1>2 DEF SameEdits

LEMMA LoadsSame ==
    ASSUME StoreTypes, Loaded, NEW p \in Processes, LoadName(p) \/ LoadForm(p) \/ LoadWrite(p)
    PROVE  SameEdits
<1>1. CASE UNCHANGED content
  BY <1>1 DEF SameEdits
<1>2. CASE LoadWrite(p) /\ loader[p].form \in Forms /\ loader[p].payload \in Formed
  <2>1. \/ content' = content
        \/ content' = [content EXCEPT ![loader[p].form] = Migrated(loader[p].payload)]
    BY <1>2 DEF LoadWrite, Atomically
  <2>2. Holds(loader[p].form, loader[p].payload.edit)
    BY <1>2 DEF Loaded, LoadWrite
  <2> QED BY <1>2, <2>1, <2>2, WrittenBack
<1> QED BY <1>1, <1>2, LoadTypes

LEMMA HardenSame == ASSUME StoreTypes, Loaded, HardenWrite PROVE SameEdits
<1>1. /\ edit.new \in Forms /\ edit.payload \in Formed /\ Holds(edit.new, edit.payload.edit)
      /\ content' = content \/ content' = [content EXCEPT ![edit.new] = Migrated(edit.payload)]
  BY DEF HardenWrite, StoreTypes, Naming, Loaded
<1> QED BY <1>1, WrittenBack

(* A step that changes no edit, or only that of a form nobody is about to   *)
(* write back.                                                              *)
LEMMA StaysLoaded ==
    ASSUME StoreTypes, Loaded,
           \A p \in Processes : loader'[p].at = "write" =>
               \/ loader'[p] = loader[p] /\ (\/ SameEdits
                                             \/ content'[loader[p].form] = content[loader[p].form])
               \/ Holds(loader[p].form, loader[p].payload.edit)',
           window' = "dump" => content'[edit'.new] = Torn,
           window' = "hardened" => Holds(edit.new, edit.payload.edit)'
    PROVE  Loaded'
<1>1. ASSUME NEW p \in Processes, loader'[p].at = "write"
      PROVE  Holds(loader[p].form, loader[p].payload.edit)'
  <2>1. CASE loader'[p] = loader[p] /\ (\/ SameEdits
                                        \/ content'[loader[p].form] = content[loader[p].form])
    <3>1. loader[p].at = "write" /\ loader[p].form \in Forms
      BY <1>1, <2>1 DEF StoreTypes
    <3>2. Holds(loader[p].form, loader[p].payload.edit)
      BY <3>1 DEF Loaded
    <3> QED BY <2>1, <3>1, <3>2 DEF Holds, SameEdits
  <2> QED BY <1>1, <2>1
<1> QED BY <1>1 DEF Loaded

LEMMA LoadedStep ==
    ASSUME ~Overlaps, StoreTypes, EditorLoads, Loaded, [StoreNext]_storeVars PROVE Loaded'
<1>0. /\ content \in [Forms -> Contents] /\ edit \in Edits /\ edits \in Nat
      /\ loader \in [Processes -> Loads] /\ Processes = {"application", "editor"}
  BY DEF StoreTypes, Processes
<1> DEFINE Steady == window' \notin {"dump", "hardened"}
\* The application's form is not f, and the editor holds none.
<1>f. ASSUME NEW f \in Forms, Unclaimed(f), window # "refresh", loader' = loader,
             \A g \in Forms : g # f => content'[g] = content[g]
      PROVE  \A p \in Processes : loader'[p].at = "write" =>
                loader'[p] = loader[p] /\ content'[loader[p].form] = content[loader[p].form]
  <2>1. loader["editor"].at = "idle"
    BY <1>f DEF EditorLoads
  <2>2. loader["application"].at = "write" => loader["application"].form # f
    BY <1>f DEF Unclaimed
  <2>3. \A p \in Processes : loader[p].at = "write" => loader[p].form \in Forms
    BY DEF StoreTypes
  <2> QED BY <1>0, <1>f, <2>1, <2>2, <2>3
<1>1. ASSUME NEW p \in Processes, LoadName(p) \/ LoadForm(p) \/ LoadWrite(p) PROVE Loaded'
  <2>1. SameEdits
    BY <1>1, LoadsSame
  <2>2. UNCHANGED edit /\ (window' = window \/ window' = "idle")
    BY <1>1, LoadTypes
  <2>3. window' = "dump" => content'[edit'.new] = Torn
    BY <1>0, <2>1, <2>2, StoreShapes DEF Loaded, StoreTypes, Naming, SameEdits
  <2>4. window' = "hardened" => Holds(edit.new, edit.payload.edit)'
    BY <1>0, <2>1, <2>2 DEF Loaded, StoreTypes, Naming, SameEdits, Holds
  <2>5. ASSUME NEW q \in Processes, loader'[q].at = "write", loader'[q] # loader[q]
        PROVE  Holds(loader[q].form, loader[q].payload.edit)'
    <3>1. LoadForm(p)
      <4>1. LoadName(p) => loader'[q].at # "write"
        BY <1>0, <2>5 DEF LoadName, NoLoad
      <4>2. LoadWrite(p) => loader' = [loader EXCEPT ![p] = NoLoad]
        BY DEF LoadWrite
      <4>3. LoadWrite(p) => loader'[q].at # "write"
        BY <1>0, <2>5, <4>2, StoreShapes
      <4> QED BY <1>1, <2>5, <4>1, <4>3
    <3>2. /\ loader[p] \in Loads /\ loader[p].form \in Forms
          /\ content[loader[p].form] \in Contents /\ content' = content
      BY <1>0, <3>1 DEF LoadForm, StoreTypes, files
    <3>3. /\ q = p /\ Readable(content[loader[p].form])
          /\ loader' = [loader EXCEPT ![p].at = "write", ![p].payload = content[loader[p].form]]
      BY <1>0, <2>5, <3>1, StoreShapes DEF LoadForm
    <3>4. loader'[p].form = loader[p].form /\ loader'[p].payload = content[loader[p].form]
      BY <1>0, <3>2, <3>3 DEF Loads
    <3>5. content[loader[p].form] \in Formed
      BY <3>2, <3>3, ReadableForms
    <3> QED BY <3>2, <3>3, <3>4, <3>5 DEF Holds
  <2> QED BY <2>1, <2>3, <2>4, <2>5, StaysLoaded
<1>2. ASSUME UNCHANGED <<content, loader>>, Steady \/ UNCHANGED <<window, edit>> PROVE Loaded'
  BY <1>2 DEF Loaded, Holds
<1>3. CASE \/ SwitchCheck \/ SwitchWrite \/ OpenCreate \/ OpenEdit \/ OpenUnreadable
           \/ SaveRaises \/ UserIsTold \/ ChooseForm \/ UNCHANGED storeVars
  BY <1>2, <1>3 DEF SwitchCheck, SwitchWrite, OpenCreate, OpenEdit, OpenUnreadable, SaveRaises,
     UserIsTold, ChooseForm, storeVars, files, editor, Finished
<1>4. CASE ReplaceFavorites \/ ReplaceActive \/ ConfirmActivation \/ Activate \/ SaveFavorites
  BY <1>2, <1>4 DEF ReplaceFavorites, ReplaceActive, ConfirmActivation, Activate, SaveFavorites,
     files, Finished
<1>5. CASE HardenRead
  <2>1. UNCHANGED <<content, loader>> /\ edit.new \in Forms /\ content[edit.new] \in Contents
    BY <1>0, <1>5 DEF HardenRead, files, StoreTypes, Naming
  <2>2. CASE Readable(content[edit.new])
    <3>1. edit' = [edit EXCEPT !.payload = content[edit.new]] /\ window' = "hardened"
      BY <1>5, <2>2 DEF HardenRead
    <3>2. edit'.new = edit.new /\ edit'.payload = content[edit.new] /\ content[edit.new] \in Formed
      BY <1>0, <2>1, <2>2, <3>1, ReadableForms DEF Edits
    <3> QED BY <2>1, <3>1, <3>2 DEF Loaded, Holds
  <2>3. CASE ~Readable(content[edit.new])
    BY <1>2, <1>5, <2>1, <2>3 DEF HardenRead, Finished
  <2> QED BY <2>2, <2>3
<1>6. CASE HardenWrite
  <2>1. SameEdits
    BY <1>6, HardenSame
  <2>2. loader' = loader /\ Steady
    BY <1>6 DEF HardenWrite, Finished
  <2> QED BY <2>1, <2>2, StaysLoaded
<1>7. CASE SaveTruncates
  <2>1. /\ window = "truncate" /\ window' = "dump" /\ UNCHANGED <<edit, loader>>
        /\ Unclaimed(edit.new) /\ edit.new \in Forms /\ content' = [content EXCEPT ![edit.new] = Torn]
    BY <1>7 DEF SaveTruncates, StoreTypes, Naming
  <2>2. content'[edit'.new] = Torn /\ \A g \in Forms : g # edit.new => content'[g] = content[g]
    BY <1>0, <2>1
  <2> QED BY <1>f, <2>1, <2>2, StaysLoaded
\* The form is torn, so nobody has read it.
<1>8. CASE SaveDumps
  <2>1. /\ window = "dump" /\ Steady /\ loader' = loader /\ edit.new \in Forms
        /\ \E bad \in Mislabels : content' = [content EXCEPT ![edit.new] = Form(edits + 1, FALSE, bad)]
    BY <1>8 DEF SaveDumps, StoreTypes, Naming
  <2>2. \A g \in Forms : g # edit.new => content'[g] = content[g]
    BY <1>0, <2>1
  <2>3. \A p \in Processes : loader[p].at = "write" =>
           loader[p].form \in Forms /\ loader[p].form # edit.new
    BY <2>1, StoreShapes DEF Loaded, Holds, StoreTypes
  <2> QED BY <2>1, <2>2, <2>3, StaysLoaded
<1>9. CASE SaveRemoves
  <2>1. /\ window = "remove" /\ Steady /\ loader' = loader
        /\ Unclaimed(edit.old) /\ edit.old \in Forms /\ content' = [content EXCEPT ![edit.old] = Absent]
    BY <1>9 DEF SaveRemoves, StoreTypes
  <2>2. \A g \in Forms : g # edit.old => content'[g] = content[g]
    BY <1>0, <2>1
  <2> QED BY <1>f, <2>1, <2>2, StaysLoaded
<1>10. CASE Delete
  <2>1. PICK f \in Listed : Unclaimed(f) /\ content' = [content EXCEPT ![f] = Absent]
    BY <1>10 DEF Delete
  <2>2. f \in Forms /\ window = "idle" /\ Steady /\ loader' = loader
    BY <1>10 DEF Delete, Listed
  <2>3. \A g \in Forms : g # f => content'[g] = content[g]
    BY <1>0, <2>1, <2>2
  <2> QED BY <1>f, <2>1, <2>2, <2>3, StaysLoaded
<1>11. CASE EditorIsClosed
  <2>1. /\ content' = content /\ Steady
        /\ \A p \in Processes : loader'[p].at = "write" => loader'[p] = loader[p]
    BY <1>0, <1>11, StoreShapes DEF EditorIsClosed, files
  <2> QED BY <2>1, StaysLoaded
<1> QED
  BY <1>1, <1>3, <1>4, <1>5, <1>6, <1>7, <1>8, <1>9, <1>10, <1>11 DEF StoreNext

LEMMA LoadedInit == StoreInit => EditorLoads /\ Loaded
<1> SUFFICES ASSUME StoreInit PROVE EditorLoads /\ Loaded
  OBVIOUS
<1>1. window = "idle" /\ \A p \in Processes : loader[p].at = "idle"
  BY StoreShapes DEF StoreInit
<1> QED BY <1>1 DEF EditorLoads, Loaded, Processes

--------------------------------------------------------------------------------
(* What the user saved.  A form holds what the user was told or a later     *)
(* edit, except between the truncation and the dump; from the dump until    *)
(* the window says so it holds the edit of this window.                     *)
Kept(f) ==
    /\ saved[f] <= edits
    /\ saved[f] # 0 /\ ~(window = "dump" /\ f = edit.new) =>
          content[f] \in Formed /\ content[f].edit >= saved[f]
    /\ window \in {"remove", "told"} /\ f = edit.new => Holds(f, edits)

SavedInv == saved \in [Forms -> Nat] /\ \A f \in Forms : Kept(f)

(* The positions between the truncation and the message.                    *)
Unsaved == {"dump", "remove", "told"}

(* The user is told nothing, and no edit is on its way or the same one.     *)
LEMMA NothingTold ==
    ASSUME SavedInv, StoreTypes, saved' = saved, SameEdits, edits' \in {edits, edits + 1},
           \/ window \notin Unsaved /\ window' \notin Unsaved
           \/ window' = window /\ edit' = edit /\ edits' = edits
    PROVE  SavedInv'
<1>1. ASSUME NEW g \in Forms PROVE Kept(g)'
  <2>1. Kept(g) /\ saved[g] \in Nat /\ edits \in Nat
    BY DEF SavedInv, StoreTypes
  <2>2. saved[g] <= edits'
    BY <2>1 DEF Kept
  <2>3. CASE window \notin Unsaved /\ window' \notin Unsaved
    BY <2>1, <2>2, <2>3 DEF Kept, Unsaved, SameEdits
  <2>4. CASE window' = window /\ edit' = edit /\ edits' = edits
    BY <2>1, <2>2, <2>4 DEF Kept, SameEdits, Holds
  <2> QED BY <2>3, <2>4
<1> QED BY <1>1 DEF SavedInv

LEMMA SavedStep ==
    ASSUME "dump" \notin Faults, StoreTypes, EditorLoads, Loaded, SavedInv, [StoreNext]_storeVars
    PROVE  SavedInv'
<1>0. /\ content \in [Forms -> Contents] /\ saved \in [Forms -> Nat] /\ edits \in Nat
      /\ \A f \in Forms : Kept(f)
  BY DEF StoreTypes, SavedInv
<1>1. ASSUME UNCHANGED <<content, saved>>, edits' \in {edits, edits + 1},
             \/ window \notin Unsaved /\ window' \notin Unsaved
             \/ window' = window /\ edit' = edit /\ edits' = edits
      PROVE  SavedInv'
  BY <1>1, NothingTold DEF SameEdits
<1>2. ASSUME NEW p \in Processes, LoadName(p) \/ LoadForm(p) \/ LoadWrite(p) PROVE SavedInv'
  <2>1. \/ window \notin Unsaved /\ window' \notin Unsaved
        \/ window' = window /\ edit' = edit /\ edits' = edits
    <3>1. CASE window' = window
      BY <1>2, <3>1, LoadTypes
    <3>2. CASE window' # window
      <4>1. p = "editor" /\ window' = "idle"
        BY <1>2, <3>2, LoadTypes
      <4>2. window = "refresh"
        BY <1>2, <4>1 DEF LoadName, LoadForm, LoadWrite, EditorLoads
      <4> QED BY <4>1, <4>2 DEF Unsaved
    <3> QED BY <3>1, <3>2
  <2> QED BY <1>2, <2>1, LoadTypes, LoadsSame, NothingTold
<1>3. CASE \/ SwitchCheck \/ SwitchWrite \/ UNCHANGED storeVars
  BY <1>1, <1>3 DEF SwitchCheck, SwitchWrite, storeVars, files, editor
<1>4. CASE \/ OpenCreate \/ OpenEdit \/ OpenUnreadable \/ ChooseForm \/ HardenRead
           \/ ReplaceFavorites \/ ReplaceActive \/ ConfirmActivation \/ Activate \/ SaveFavorites
  <2>1. UNCHANGED <<content, saved>> /\ edits' \in {edits, edits + 1}
    BY <1>4 DEF OpenCreate, OpenEdit, OpenUnreadable, ChooseForm, HardenRead, ReplaceFavorites,
       ReplaceActive, ConfirmActivation, Activate, SaveFavorites, files
  <2>2. window \notin Unsaved /\ window' \notin Unsaved
    BY <1>4 DEF OpenCreate, OpenEdit, OpenUnreadable, ChooseForm, HardenRead, ReplaceFavorites,
       ReplaceActive, ConfirmActivation, Activate, SaveFavorites, Finished, Unsaved
  <2> QED BY <1>1, <2>1, <2>2
<1>5. CASE SaveTruncates
  <2>1. /\ window' = "dump" /\ window \notin Unsaved /\ UNCHANGED <<edit, edits, saved>>
        /\ content' = [content EXCEPT ![edit.new] = Torn] /\ edit.new \in Forms
    BY <1>5 DEF SaveTruncates, Unsaved, StoreTypes, Naming
  <2>2. ASSUME NEW f \in Forms PROVE Kept(f)'
    <3>1. f # edit.new => content'[f] = content[f]
      BY <1>0, <2>1
    <3>2. Kept(f)
      BY <1>0
    <3> QED BY <2>1, <3>1, <3>2 DEF Kept, Unsaved
  <2> QED BY <1>0, <2>1, <2>2 DEF SavedInv
\* The edit is whole in the file, and the user not yet told.
<1>6. CASE SaveDumps
  <2>1. PICK bad \in Mislabels : content' = [content EXCEPT ![edit.new] = Form(edits + 1, FALSE, bad)]
    BY <1>6 DEF SaveDumps
  <2>2. /\ window' \in {"remove", "told"} /\ window = "dump" /\ UNCHANGED <<edit, saved>>
        /\ edits' = edits + 1 /\ edit.new \in Forms
    BY <1>6 DEF SaveDumps, StoreTypes, Naming
  <2>3. Form(edits + 1, FALSE, bad) \in Formed /\ Form(edits + 1, FALSE, bad).edit = edits + 1
    <3>1. edits \in Nat /\ edits + 1 \in Nat
      BY <1>0
    <3> QED BY <3>1 DEF Form, Formed
  <2>4. ASSUME NEW f \in Forms PROVE Kept(f)'
    <3>1. saved[f] \in Nat /\ saved[f] <= edits /\ saved[f] <= edits + 1 /\ Kept(f)
      BY <1>0 DEF Kept
    <3>2. CASE f = edit.new
      <4>1. content'[f] \in Formed /\ content'[f].edit = edits + 1
        BY <1>0, <2>1, <2>2, <2>3, <3>2
      <4> QED BY <2>2, <3>1, <3>2, <4>1 DEF Kept, Holds
    <3>3. CASE f # edit.new
      <4>1. content'[f] = content[f]
        BY <1>0, <2>1, <2>2, <3>3
      <4> QED BY <2>2, <3>1, <3>3, <4>1 DEF Kept
    <3> QED BY <3>2, <3>3
  <2> QED BY <1>0, <2>2, <2>4 DEF SavedInv
<1>7. CASE SaveRaises
  <2>1. window' = "choose" /\ window = "remove" /\ UNCHANGED <<edit, edits, content, saved>>
    BY <1>7 DEF SaveRaises, files
  <2> QED BY <1>0, <2>1 DEF SavedInv, Kept
\* What the old name held is older than what the new one has now.
<1>8. CASE SaveRemoves
  <2>1. /\ window' = "told" /\ window = "remove" /\ UNCHANGED <<edit, edits>>
        /\ saved' = [saved EXCEPT ![edit.new] = saved[edit.old], ![edit.old] = 0]
        /\ content' = [content EXCEPT ![edit.old] = Absent]
        /\ edit.old \in Forms /\ edit.new \in Forms /\ edit.old # edit.new
    BY <1>8 DEF SaveRemoves, StoreTypes, Naming
  <2>2. /\ saved' \in [Forms -> Nat] /\ saved'[edit.old] = 0 /\ saved'[edit.new] = saved[edit.old]
        /\ \A f \in Forms : f # edit.old => content'[f] = content[f]
        /\ \A f \in Forms \ {edit.old, edit.new} : saved'[f] = saved[f]
    BY <1>0, <2>1
  <2>3. ASSUME NEW f \in Forms PROVE Kept(f)'
    <3>1. Kept(f) /\ Kept(edit.old)
      BY <1>0, <2>1
    <3>2. CASE f = edit.old
      BY <1>0, <2>1, <2>2, <3>2 DEF Kept
    <3>3. CASE f = edit.new
      <4>1. content'[f] \in Formed /\ content'[f].edit = edits
        BY <2>1, <2>2, <3>1, <3>3 DEF Kept, Holds
      <4>2. saved'[f] <= edits
        BY <2>2, <3>1, <3>3 DEF Kept
      <4> QED BY <1>0, <2>1, <4>1, <4>2 DEF Kept, Holds
    <3>4. CASE f \notin {edit.old, edit.new}
      BY <2>1, <2>2, <3>1, <3>4 DEF Kept
    <3> QED BY <3>2, <3>3, <3>4
  <2> QED BY <2>2, <2>3 DEF SavedInv
<1>9. CASE UserIsTold
  <2>1. /\ window' = "choose" /\ window = "told" /\ UNCHANGED <<edit, edits, content>>
        /\ saved' = [saved EXCEPT ![edit.new] = edits] /\ edit.new \in Forms
    BY <1>9 DEF UserIsTold, files, StoreTypes, Naming
  <2>2. saved' \in [Forms -> Nat] /\ saved'[edit.new] = edits
        /\ \A f \in Forms : f # edit.new => saved'[f] = saved[f]
    BY <1>0, <2>1
  <2>3. ASSUME NEW f \in Forms PROVE Kept(f)'
    <3>1. Kept(f)
      BY <1>0
    <3> QED BY <1>0, <2>1, <2>2, <3>1 DEF Kept, Holds
  <2> QED BY <2>2, <2>3 DEF SavedInv
<1>10. CASE HardenWrite
  <2>1. /\ window \notin Unsaved /\ window' \notin Unsaved /\ saved' = saved /\ edits' = edits
    BY <1>10 DEF HardenWrite, Finished, Unsaved
  <2> QED BY <1>10, <2>1, HardenSame, NothingTold
<1>11. CASE Delete
  <2>1. PICK f \in Listed : content' = [content EXCEPT ![f] = Absent] /\ saved' = [saved EXCEPT ![f] = 0]
    BY <1>11 DEF Delete
  <2>2. window \notin Unsaved /\ window' \notin Unsaved /\ edits' = edits + 1 /\ f \in Forms
    BY <1>11 DEF Delete, Unsaved, Listed
  <2>3. saved' \in [Forms -> Nat] /\ saved'[f] = 0
        /\ \A g \in Forms : g # f => saved'[g] = saved[g] /\ content'[g] = content[g]
    BY <1>0, <2>1, <2>2
  <2>4. ASSUME NEW g \in Forms PROVE Kept(g)'
    <3>1. Kept(g) /\ saved[g] \in Nat
      BY <1>0
    <3>2. saved[g] <= edits + 1
      BY <1>0, <3>1 DEF Kept
    <3> QED BY <1>0, <2>2, <2>3, <3>1, <3>2 DEF Kept, Unsaved
  <2> QED BY <2>3, <2>4 DEF SavedInv
<1>12. CASE EditorIsClosed
  <2>1. window' = "idle" /\ window # "dump" /\ UNCHANGED <<content, saved, edits>>
    BY <1>12 DEF EditorIsClosed, files
  <2> QED BY <1>0, <2>1 DEF SavedInv, Kept
<1> QED
  BY <1>2, <1>3, <1>4, <1>5, <1>6, <1>7, <1>8, <1>9, <1>10, <1>11, <1>12 DEF StoreNext

(* What the user was told is saved stays in the file or gives way to a      *)
(* later save, whatever the two processes load, migrate, rename or delete,  *)
(* whichever atomic write or removal fails and whenever the editor is       *)
(* closed, as long as no save is cut between truncation and dump and the    *)
(* editor does not save a form between the application's reading of it and  *)
(* the migration it writes back.  The code prevents neither of the two.     *)
THEOREM SavedEditsSurvive ==
    ASSUME ~Overlaps, "dump" \notin Faults
    PROVE  StoreSpec => []EditSurvives
<1>1. StoreInit => SavedInv
  BY DEF StoreInit, SavedInv, Kept
<1>2. StoreTypes /\ EditorLoads /\ Loaded /\ SavedInv /\ [StoreNext]_storeVars
        => StoreTypes' /\ EditorLoads' /\ Loaded' /\ SavedInv'
  BY StoreTypesStep, EditorLoadsStep, LoadedStep, SavedStep
<1>3. SavedInv => EditSurvives
  BY DEF SavedInv, Kept, Formed, EditSurvives
<1> QED BY StoreTypesInit, LoadedInit, <1>1, <1>2, <1>3, PTL DEF StoreSpec

--------------------------------------------------------------------------------
(* The references.  The only name that may be left over is the old one of   *)
(* the operation under way, and the operation is going to replace it by one *)
(* that can be read.                                                        *)
Known == Listed \cup {None}

(* Positions of the window at which the old name may be gone already.       *)
Dangling == {"told", "choose", "harden", "hardened", "favorites", "active"}

Referred ==
    /\ activeForm \in Known \/ (window \in Dangling /\ activeForm = edit.old)
    /\ \A i \in 1..2 : favorites[i] \in Known \/ (window \in Dangling /\ favorites[i] = edit.old)
    /\ window = "active" => \A i \in 1..2 : favorites[i] \in Known
    /\ switch \in Known

(* How the old name, the new one and the forms there were relate.           *)
Opens(names) ==
    /\ edit.before = names
    /\ edit.old # None => edit.old \in names
    /\ edit.original # None => edit.new = edit.old \/ edit.new \notin names

(* The form has its new name only, and can be read.                         *)
Renamed ==
    /\ edit.old \in edit.before /\ edit.new \notin edit.before
    /\ Listed = (edit.before \ {edit.old}) \cup {edit.new}
    /\ content[edit.new] \in Formed

Bookkeeping ==
    /\ window = "truncate" => Opens(Listed)
    /\ window = "dump" => Opens(edit.before) /\ Listed = edit.before \cup {edit.new}
    /\ window = "remove" =>
         /\ Listed = edit.before \cup {edit.new} /\ content[edit.new] \in Formed
         /\ edit.old \in edit.before /\ edit.new \notin edit.before
    /\ window \in {"told", "choose"} => edit.old \in Known \/ Renamed
    /\ window \in {"harden", "hardened"} =>
         \/ edit.then # "rename" /\ edit.old = None
         \/ edit.then = "rename" /\ edit.new = edit.old /\ edit.old \in Listed
         \/ edit.then = "rename" /\ content[edit.new] \in Formed
    /\ window \in {"favorites", "active"} => edit.new = None \/ content[edit.new] \in Formed

RefInv == Referred /\ Bookkeeping

LEMMA FormedListed ==
    ASSUME StoreTypes, NEW f \in Forms, content[f] \in Formed PROVE f \in Listed /\ f \in Known
  BY StoreShapes DEF Listed, Known

(* No form appears or disappears when none changes its edit.                *)
LEMMA SameListed ==
    ASSUME StoreTypes, SameEdits
    PROVE  /\ Listed' = Listed /\ Known' = Known
           /\ \A f \in Forms : content[f] \in Formed => content'[f] \in Formed
<1>1. \A f \in Forms : content'[f] = Absent <=> content[f] = Absent
  BY StoreShapes DEF SameEdits
<1> QED BY <1>1 DEF Listed, Known, SameEdits

(* The window waits, or its refresh ends, while the application loads a     *)
(* form or changes the active one.                                          *)
LEMMA EditorWaits ==
    ASSUME StoreTypes, Referred, Bookkeeping, SameEdits, edit' = edit,
           activeForm' \in {activeForm, switch}, favorites' = favorites,
           switch' = switch \/ switch' \in Known,
           window' = window \/ (window = "refresh" /\ window' = "idle")
    PROVE  Referred' /\ Bookkeeping'
<1>1. /\ Listed' = Listed /\ Known' = Known
      /\ \A f \in Forms : content[f] \in Formed => content'[f] \in Formed
  BY SameListed
<1>2. Referred'
  BY <1>1 DEF Referred, Known, Dangling
<1>3. CASE window' = window
  <2>1. window \in Naming => edit.new \in Forms
    BY DEF StoreTypes
  <2>2. window \in {"favorites", "active"} => edit.new \in Names
    BY DEF StoreTypes, Edits
  <2>3. Opens(Listed)' <=> Opens(Listed)
    BY <1>1 DEF Opens
  <2>4. window \in Naming => (Renamed => Renamed')
    BY <1>1, <2>1 DEF Renamed
  <2> QED BY <1>1, <1>2, <1>3, <2>1, <2>2, <2>3, <2>4 DEF Bookkeeping, Opens, Naming, Names
<1>4. CASE window' = "idle"
  BY <1>2, <1>4 DEF Bookkeeping
<1> QED BY <1>2, <1>3, <1>4

(* An operation ends when nothing refers to its old name.                   *)
LEMMA OperationEnds ==
    ASSUME window' \in {"refresh", "confirm", "idle"}, Listed' = Listed, switch \in Known,
           switch' = switch, activeForm' \in Known, \A i \in 1..2 : favorites'[i] \in Known
    PROVE  Referred' /\ Bookkeeping'
  BY DEF Referred, Bookkeeping, Known

LEMMA RefInit == StoreInit => RefInv
  BY DEF StoreInit, Referred, Known, Bookkeeping, RefInv

LEMMA RefStep ==
    ASSUME TRUE \notin Mislabels, ~Overlaps, Faults \subseteq {"dump"},
           StoreTypes, EditorLoads, Loaded, RefInv, [StoreNext]_storeVars
    PROVE  Referred' /\ Bookkeeping'
<1>0. Referred /\ Bookkeeping /\ switch \in Known /\ content \in [Forms -> Contents]
  BY DEF RefInv, Referred, StoreTypes
<1>1. ASSUME NEW p \in Processes, LoadName(p) \/ LoadForm(p) \/ LoadWrite(p)
      PROVE  Referred' /\ Bookkeeping'
  <2>1. window' = window \/ (window = "refresh" /\ window' = "idle")
    <3>1. window' # window => p = "editor" /\ window' = "idle"
      BY <1>1, LoadTypes
    <3>2. p = "editor" /\ window' # window => window = "refresh"
      BY <1>1 DEF LoadName, LoadForm, LoadWrite, EditorLoads
    <3> QED BY <3>1, <3>2
  <2>2. UNCHANGED <<edit, activeForm, favorites, switch>>
    BY <1>1, LoadTypes
  <2> QED BY <1>0, <1>1, <2>1, <2>2, LoadsSame, EditorWaits
<1>2. ASSUME SwitchCheck \/ SwitchWrite \/ UNCHANGED storeVars
      PROVE  Referred' /\ Bookkeeping'
  <2>1. UNCHANGED <<content, favorites, window, edit>> /\ activeForm' \in {activeForm, switch}
    BY <1>2 DEF SwitchCheck, SwitchWrite, Atomically, storeVars, files, editor
  <2>2. switch' = switch \/ switch' \in Known
    <3>1. ASSUME SwitchCheck PROVE switch' \in Forms /\ content[switch'] \in Formed
      <4>1. PICK f \in Choice : Readable(content[f]) /\ switch' = f
        BY <3>1 DEF SwitchCheck
      <4>2. f \in Listed
        BY <4>1 DEF Choice, Favorite
      <4> QED BY <1>0, <4>1, <4>2, ReadableForms DEF Listed
    <3>2. SwitchWrite => switch' = None
      BY DEF SwitchWrite
    <3> QED BY <1>2, <3>1, <3>2, FormedListed DEF storeVars, reader, Known
  <2> QED BY <1>0, <2>1, <2>2, EditorWaits DEF SameEdits
<1>3. ASSUME OpenCreate \/ OpenEdit \/ OpenUnreadable
      PROVE  Referred' /\ Bookkeeping'
  <2>1. /\ window = "idle" /\ window' = "truncate" /\ UNCHANGED <<content, activeForm, favorites, switch>>
        /\ Listed' = Listed /\ Known' = Known
    BY <1>3 DEF OpenCreate, OpenEdit, OpenUnreadable, files, reader, Listed, Known
  <2>2. Opens(Listed)'
    <3>1. CASE OpenCreate
      <4>1. edit'.old = None /\ edit'.original = None /\ edit'.before = Listed
        BY <3>1 DEF OpenCreate, NoEdit
      <4> QED BY <2>1, <4>1 DEF Opens
    <3>2. CASE OpenEdit
      <4>1. PICK f \in Listed : \E g \in {f} \cup (Forms \ Listed) :
               edit' = [NoEdit EXCEPT !.old = f, !.original = f, !.new = g, !.before = Listed]
        BY <3>2 DEF OpenEdit
      <4>2. PICK g \in {f} \cup (Forms \ Listed) :
               edit' = [NoEdit EXCEPT !.old = f, !.original = f, !.new = g, !.before = Listed]
        BY <4>1
      <4>3. edit'.old = f /\ edit'.original = f /\ edit'.new = g /\ edit'.before = Listed
        BY <4>2 DEF NoEdit
      <4> QED BY <2>1, <4>2, <4>3 DEF Opens
    <3>3. CASE OpenUnreadable
      <4>1. PICK f \in Listed : \E g \in Forms :
               edit' = [NoEdit EXCEPT !.old = f, !.new = g, !.before = Listed]
        BY <3>3 DEF OpenUnreadable
      <4>2. edit'.old = f /\ edit'.original = None /\ edit'.before = Listed
        BY <4>1 DEF NoEdit
      <4> QED BY <2>1, <4>2 DEF Opens
    <3> QED BY <1>3, <3>1, <3>2, <3>3
  <2> QED BY <1>0, <2>1, <2>2 DEF Referred, Bookkeeping, Dangling
<1>4. ASSUME SaveTruncates PROVE Referred' /\ Bookkeeping'
  <2>1. /\ window = "truncate" /\ window' = "dump" /\ UNCHANGED <<edit, activeForm, favorites, switch>>
        /\ content' = [content EXCEPT ![edit.new] = Torn] /\ edit.new \in Forms
    BY <1>4 DEF SaveTruncates, StoreTypes, Naming, reader
  <2>2. /\ content'[edit.new] = Torn
        /\ \A f \in Forms : f # edit.new => content'[f] = content[f]
    BY <1>0, <2>1
  <2>3. Listed' = Listed \cup {edit.new}
    BY <2>1, <2>2, StoreShapes DEF Listed
  <2>4. Opens(Listed)
    BY <1>0, <2>1 DEF Bookkeeping
  <2>5. Bookkeeping'
    BY <2>1, <2>3, <2>4 DEF Bookkeeping, Opens
  <2>6. Referred'
    BY <1>0, <2>1, <2>3 DEF Referred, Known, Dangling
  <2> QED BY <2>5, <2>6
<1>5. ASSUME SaveDumps PROVE Referred' /\ Bookkeeping'
  <2>1. PICK bad \in Mislabels : content' = [content EXCEPT ![edit.new] = Form(edits + 1, FALSE, bad)]
    BY <1>5 DEF SaveDumps
  <2>2. /\ window = "dump" /\ UNCHANGED <<edit, activeForm, favorites, switch>> /\ edit.new \in Forms
        /\ window' = IF Renames /\ edit.old \in Listed THEN "remove" ELSE "told"
    BY <1>5 DEF SaveDumps, StoreTypes, Naming, reader
  <2>3. /\ Opens(edit.before) /\ Listed = edit.before \cup {edit.new}
        /\ edit.original \in {None, edit.old}
    BY <1>0, <2>2 DEF Bookkeeping, StoreTypes, Edits
  <2>4. Form(edits + 1, FALSE, bad) \in Formed
    <3>1. edits + 1 \in Nat
      BY DEF StoreTypes
    <3> QED BY <3>1 DEF Form, Formed
  <2>5. /\ content'[edit.new] \in Formed /\ content'[edit.new] # Absent
        /\ \A f \in Forms : f # edit.new => content'[f] = content[f]
    BY <1>0, <2>1, <2>2, <2>4, StoreShapes
  <2>6. Listed' = Listed /\ Known' = Known
    BY <2>2, <2>3, <2>5 DEF Listed, Known
  <2>7. Referred'
    BY <1>0, <2>2, <2>6 DEF Referred, Dangling
  <2>8. CASE window' = "told"
    <3>1. edit.old \in Known
      BY <2>3 DEF Opens, Known
    <3> QED BY <2>2, <2>6, <2>7, <2>8, <3>1 DEF Bookkeeping
  <2>9. CASE window' = "remove"
    <3>1. edit.original = edit.old /\ edit.original # None /\ edit.original # edit.new
      BY <2>2, <2>3, <2>9 DEF Renames
    <3>2. edit.old \in edit.before /\ edit.new \notin edit.before
      BY <2>3, <3>1 DEF Opens
    <3> QED BY <2>2, <2>3, <2>5, <2>6, <2>7, <2>9, <3>2 DEF Bookkeeping
  <2> QED BY <2>2, <2>8, <2>9
\* Only the dump may fail: the old name, if there is one, is still there.
<1>6. ASSUME SaveRaises PROVE Referred' /\ Bookkeeping'
  <2>1. /\ window = "dump" /\ window' = "choose" /\ Listed' = Listed /\ Known' = Known
        /\ UNCHANGED <<edit, content, activeForm, favorites, switch>>
    BY <1>6 DEF SaveRaises, files, reader, Listed, Known
  <2>2. edit.old \in Known
    BY <1>0, <2>1 DEF Bookkeeping, Opens, Known
  <2> QED BY <1>0, <2>1, <2>2 DEF Referred, Bookkeeping, Dangling
<1>7. ASSUME SaveRemoves PROVE Referred' /\ Bookkeeping'
  <2>1. /\ window = "remove" /\ window' = "told" /\ UNCHANGED <<edit, activeForm, favorites, switch>>
        /\ content' = [content EXCEPT ![edit.old] = Absent] /\ edit.old \in Forms /\ edit.old # edit.new
        /\ edit.new \in Forms /\ switch # edit.old
    BY <1>7 DEF SaveRemoves, StoreTypes, reader, Naming, Unclaimed
  <2>2. /\ content'[edit.old] = Absent
        /\ \A f \in Forms : f # edit.old => content'[f] = content[f]
    BY <1>0, <2>1
  <2>3. Listed' = Listed \ {edit.old}
    BY <2>2 DEF Listed
  <2>4. /\ Listed = edit.before \cup {edit.new} /\ content[edit.new] \in Formed
        /\ edit.old \in edit.before /\ edit.new \notin edit.before
    BY <1>0, <2>1 DEF Bookkeeping
  <2>5. Listed' = (edit.before \ {edit.old}) \cup {edit.new}
    BY <2>1, <2>3, <2>4
  <2>6. Renamed'
    BY <2>1, <2>2, <2>4, <2>5 DEF Renamed
  <2>7. Referred'
    BY <1>0, <2>1, <2>3 DEF Referred, Known, Dangling
  <2> QED BY <2>1, <2>6, <2>7 DEF Bookkeeping
<1>8. ASSUME UserIsTold PROVE Referred' /\ Bookkeeping'
  <2>1. /\ window = "told" /\ window' = "choose"
        /\ UNCHANGED <<edit, content, activeForm, favorites, switch>>
        /\ Listed' = Listed /\ Known' = Known
    BY <1>8 DEF UserIsTold, files, reader, Listed, Known
  <2> QED BY <1>0, <2>1 DEF Referred, Bookkeeping, Renamed, Dangling
<1>9. ASSUME ChooseForm PROVE Referred' /\ Bookkeeping'
  <2>1. /\ window = "choose" /\ UNCHANGED <<content, activeForm, favorites, switch>>
        /\ Listed' = Listed /\ Known' = Known /\ edit \in Edits /\ edit.new \in Forms
    BY <1>9 DEF ChooseForm, files, reader, Listed, Known, StoreTypes, Naming
  <2>2. CASE edit.old = None /\ edit.new \notin Listed
    <3>1. window' = "refresh"
      BY <1>9, <2>2 DEF ChooseForm, Finished
    <3>2. activeForm \in Known /\ \A i \in 1..2 : favorites[i] \in Known
      BY <1>0, <2>2 DEF Referred, Known
    <3> QED BY <1>0, <2>1, <3>1, <3>2, OperationEnds
  <2>3. CASE ~(edit.old = None /\ edit.new \notin Listed)
    <3>1. /\ window' = "harden"
          /\ edit' = [edit EXCEPT !.new = IF edit.old = None THEN edit.new ELSE Selected,
                                  !.then = IF edit.old = None THEN "none" ELSE "rename"]
      BY <1>9, <2>3 DEF ChooseForm
    <3>2. /\ edit'.old = edit.old
          /\ edit'.new = IF edit.old = None THEN edit.new ELSE Selected
          /\ edit'.then = IF edit.old = None THEN "none" ELSE "rename"
      BY <2>1, <3>1 DEF Edits
    <3>3. Referred'
      BY <1>0, <2>1, <3>1, <3>2 DEF Referred, Dangling
    <3>4. edit.old # None =>
             \/ edit'.new = edit.old /\ edit.old \in Listed
             \/ content[edit'.new] \in Formed
      <4>1. CASE edit.old \in Listed
        BY <3>2, <4>1 DEF Selected
      <4>2. CASE Renamed /\ edit.old \notin Listed /\ edit.old # None
        <5>1. Listed \ edit.before = {edit.new}
          BY <4>2 DEF Renamed
        <5>2. Cardinality(Listed \ edit.before) = 1
          BY <5>1, FS_Singleton
        <5>3. Selected = edit.new
          BY <4>2, <5>1, <5>2 DEF Selected
        <5> QED BY <3>2, <4>2, <5>3 DEF Renamed
      <4> QED BY <1>0, <2>1, <4>1, <4>2 DEF Bookkeeping, Known
    <3> QED BY <2>1, <3>1, <3>2, <3>3, <3>4 DEF Bookkeeping
  <2> QED BY <2>2, <2>3
\* A form that has a new name is read: it is whole and its labels are known.
<1>10. ASSUME HardenRead PROVE Referred' /\ Bookkeeping'
  <2>1. /\ window = "harden" /\ UNCHANGED <<content, activeForm, favorites, switch>> /\ edit.new \in Forms
        /\ Listed' = Listed /\ Known' = Known /\ edit \in Edits
    BY <1>10 DEF HardenRead, files, reader, Listed, Known, StoreTypes, Naming
  <2>2. CASE Readable(content[edit.new])
    <3>1. edit' = [edit EXCEPT !.payload = content[edit.new]] /\ window' = "hardened"
      BY <1>10, <2>2 DEF HardenRead
    <3>2. edit'.old = edit.old /\ edit'.new = edit.new /\ edit'.then = edit.then
      BY <2>1, <3>1 DEF Edits
    <3> QED BY <1>0, <2>1, <3>1, <3>2 DEF Referred, Bookkeeping, Dangling
  <2>3. CASE ~Readable(content[edit.new])
    <3>1. window' = "refresh"
      BY <1>10, <2>3 DEF HardenRead, Finished
    <3>2. content[edit.new] \notin Formed
      BY <1>0, <2>1, <2>3, ReadableForms
    <3>3. edit.old \in Known
      BY <1>0, <2>1, <3>2 DEF Bookkeeping, Known
    <3>4. activeForm \in Known /\ \A i \in 1..2 : favorites[i] \in Known
      BY <1>0, <3>3 DEF Referred
    <3> QED BY <1>0, <2>1, <3>1, <3>4, OperationEnds
  <2> QED BY <2>2, <2>3
<1>11. ASSUME HardenWrite PROVE Referred' /\ Bookkeeping'
  <2>1. /\ window = "hardened" /\ edit.new \in Forms /\ edit.payload \in Formed
        /\ UNCHANGED <<activeForm, favorites, switch>>
    BY <1>11 DEF HardenWrite, StoreTypes, Naming, reader
  <2>2. /\ content' = [content EXCEPT ![edit.new] = Migrated(edit.payload)]
        /\ CASE edit.then = "activate" -> window' = "confirm" /\ UNCHANGED edit
             [] edit.then = "rename" /\ edit.new # edit.old ->
                    window' = "favorites" /\ UNCHANGED edit
             [] OTHER -> Finished
    BY <1>11 DEF HardenWrite
  <2>3. Listed' = Listed /\ Known' = Known /\ content[edit.new] \in Formed
    BY <1>11, <2>1, HardenSame, SameListed DEF Loaded, Holds
  <2>4. CASE edit.then = "rename" /\ edit.new # edit.old
    <3>1. window' = "favorites" /\ edit' = edit
      BY <2>2, <2>4
    <3>2. content'[edit.new] \in Formed
      BY <1>0, <2>1, <2>2, MigrationKeeps
    <3>3. Bookkeeping'
      BY <3>1, <3>2 DEF Bookkeeping
    <3> QED BY <1>0, <2>1, <2>3, <3>1, <3>3 DEF Referred, Dangling
  <2>5. CASE ~(edit.then = "rename" /\ edit.new # edit.old)
    <3>1. window' \in {"refresh", "confirm"}
      BY <2>2, <2>5 DEF Finished
    <3>2. edit.old \in Known
      BY <1>0, <2>1, <2>3, <2>5, FormedListed DEF Bookkeeping, Known
    <3>3. activeForm \in Known /\ \A i \in 1..2 : favorites[i] \in Known
      BY <1>0, <3>2 DEF Referred
    <3> QED BY <1>0, <2>1, <2>3, <3>1, <3>3, OperationEnds
  <2> QED BY <2>4, <2>5
<1>12. ASSUME ReplaceFavorites PROVE Referred' /\ Bookkeeping'
  <2>1. /\ window = "favorites" /\ window' = "active" /\ UNCHANGED <<edit, content, activeForm, switch>>
        /\ favorites' = [i \in 1..2 |-> IF favorites[i] = edit.old THEN edit.new ELSE favorites[i]]
        /\ Listed' = Listed /\ Known' = Known
    BY <1>12 DEF ReplaceFavorites, Listed, Known, reader
  <2>2. edit.new \in Known
    <3>1. edit.new \in Names
      BY DEF StoreTypes, Edits
    <3> QED BY <1>0, <2>1, <3>1, FormedListed DEF Bookkeeping, Known, Names
  <2>3. \A i \in 1..2 : favorites'[i] \in Known
    BY <1>0, <2>1, <2>2 DEF Referred
  <2> QED BY <1>0, <2>1, <2>2, <2>3 DEF Referred, Bookkeeping, Dangling
\* set_active accepts the new name: the form was read before.
<1>13. ASSUME ReplaceActive PROVE Referred' /\ Bookkeeping'
  <2>1. /\ window = "active" /\ window' = "refresh" /\ UNCHANGED <<content, favorites, switch>>
        /\ Listed' = Listed /\ edit.new \in Names
    BY <1>13 DEF ReplaceActive, Finished, Listed, reader, StoreTypes, Edits
  <2>2. Acceptable(edit.new) /\ edit.new \in Known
    <3>1. CASE edit.new = None
      BY <3>1 DEF Acceptable, Known
    <3>2. CASE edit.new \in Forms /\ content[edit.new] \in Formed
      BY <1>0, <3>2, ReadableForms, FormedListed DEF Acceptable
    <3> QED BY <1>0, <2>1, <3>1, <3>2 DEF Bookkeeping, Names
  <2>3. (activeForm # edit.old /\ activeForm' = activeForm) \/ activeForm' = edit.new
    BY <1>13, <2>2 DEF ReplaceActive
  <2>4. activeForm' \in Known /\ \A i \in 1..2 : favorites'[i] \in Known
    BY <1>0, <2>1, <2>2, <2>3 DEF Referred
  <2> QED BY <1>0, <2>1, <2>4, OperationEnds
<1>14. ASSUME ConfirmActivation PROVE Referred' /\ Bookkeeping'
  <2>1. /\ window = "confirm" /\ window' = "refresh" /\ UNCHANGED <<content, favorites, switch>>
        /\ Listed' = Listed
        /\ activeForm' = activeForm \/ (Acceptable(edit.new) /\ activeForm' = edit.new)
    BY <1>14 DEF ConfirmActivation, Finished, Listed, reader
  <2>2. edit.new \in Names
    BY DEF StoreTypes, Edits
  <2>3. Acceptable(edit.new) => edit.new \in Known
    <3> SUFFICES ASSUME Acceptable(edit.new), edit.new # None PROVE edit.new \in Listed
      BY DEF Known
    <3>1. edit.new \in Forms /\ Readable(content[edit.new])
      BY <2>2 DEF Names, Acceptable
    <3>2. content[edit.new] \in Formed
      BY <1>0, <3>1, ReadableForms
    <3> QED BY <3>1, <3>2, FormedListed
  <2>4. activeForm' \in Known /\ \A i \in 1..2 : favorites'[i] \in Known
    BY <1>0, <2>1, <2>3 DEF Referred, Dangling
  <2> QED BY <1>0, <2>1, <2>4, OperationEnds
<1>15. ASSUME Activate PROVE Referred' /\ Bookkeeping'
  <2>1. /\ window = "idle" /\ window' = "harden" /\ UNCHANGED <<content, activeForm, favorites, switch>>
        /\ Listed' = Listed /\ Known' = Known
    BY <1>15 DEF Activate, files, reader, Listed, Known
  <2>2. edit'.old = None /\ edit'.then = "activate"
    BY <1>15 DEF Activate, NoEdit
  <2> QED BY <1>0, <2>1, <2>2 DEF Referred, Bookkeeping, Dangling
<1>16. ASSUME Delete PROVE Referred' /\ Bookkeeping'
  <2>1. PICK f \in Listed :
           Unclaimed(f) /\ content' = [content EXCEPT ![f] = Absent] /\ edit' = [NoEdit EXCEPT !.old = f]
    BY <1>16 DEF Delete
  <2>2. /\ window = "idle" /\ window' = "favorites" /\ UNCHANGED <<activeForm, favorites, switch>>
        /\ f \in Forms /\ edit'.old = f /\ edit'.new = None /\ switch # f
    BY <1>16, <2>1 DEF Delete, NoEdit, Listed, reader, Unclaimed
  <2>3. content'[f] = Absent /\ \A g \in Forms : g # f => content'[g] = content[g]
    BY <1>0, <2>1, <2>2
  <2>4. Listed' = Listed \ {f}
    BY <2>3 DEF Listed
  <2>5. Referred'
    BY <1>0, <2>2, <2>4 DEF Referred, Known, Dangling
  <2> QED BY <2>2, <2>5 DEF Bookkeeping
<1>17. ASSUME SaveFavorites PROVE Referred' /\ Bookkeeping'
  <2>1. /\ window = "idle" /\ window' = "refresh" /\ UNCHANGED <<content, activeForm, switch>>
        /\ Listed' = Listed
        /\ \E f, g \in Listed : favorites' = <<f, g>> \/ favorites' = favorites
    BY <1>17 DEF SaveFavorites, Finished, Atomically, Listed, reader
  <2>2. activeForm' \in Known /\ \A i \in 1..2 : favorites'[i] \in Known
    BY <1>0, <2>1 DEF Referred, Known, Dangling
  <2> QED BY <1>0, <2>1, <2>2, OperationEnds
\* Only in the middle of a dump may the editor end.
<1>18. ASSUME EditorIsClosed PROVE Referred' /\ Bookkeeping'
  <2>1. /\ window = "dump" /\ window' = "idle" /\ UNCHANGED <<content, activeForm, favorites, switch>>
        /\ Listed' = Listed
    BY <1>18 DEF EditorIsClosed, files, reader, Listed
  <2>2. activeForm' \in Known /\ \A i \in 1..2 : favorites'[i] \in Known
    BY <1>0, <2>1 DEF Referred, Dangling
  <2> QED BY <1>0, <2>1, <2>2, OperationEnds
<1> QED
  BY <1>1, <1>2, <1>3, <1>4, <1>5, <1>6, <1>7, <1>8, <1>9, <1>10, <1>11, <1>12, <1>13, <1>14,
     <1>15, <1>16, <1>17, <1>18 DEF StoreNext

(* When the editor rests, the active form and both favourites exist, or are *)
(* empty: a rename and a deletion repair every reference, whatever the      *)
(* application loads on the way and whichever form it chooses, if it does   *)
(* not choose the one that goes away between its check and its write.  A    *)
(* save that is cut does no harm here.  The code repairs nothing when the   *)
(* editor is closed or another write fails on the way, nor when a field has *)
(* an unknown label: such a form is not hardened, and the references to its *)
(* old name stay.                                                           *)
THEOREM RenamesRepairReferences ==
    ASSUME TRUE \notin Mislabels, ~Overlaps, Faults \subseteq {"dump"}
    PROVE  StoreSpec => []ReferencesRepaired
<1>1. StoreTypes /\ EditorLoads /\ Loaded /\ RefInv /\ [StoreNext]_storeVars
        => StoreTypes' /\ EditorLoads' /\ Loaded' /\ RefInv'
  BY StoreTypesStep, EditorLoadsStep, LoadedStep, RefStep DEF RefInv
<1>2. RefInv => ReferencesRepaired
  BY DEF RefInv, Referred, Known, Dangling, ReferencesRepaired
<1> QED BY StoreTypesInit, LoadedInit, RefInit, <1>1, <1>2, PTL DEF StoreSpec

================================================================================
