------------------------------ MODULE FormWriter ------------------------------
(***************************************************************************)
(* One call of StressSafeFormWriter.write: a job is typed into the window   *)
(* that was in the foreground when the document was passed.  The writer     *)
(* looks at the foreground window, sends one key, sleeps, looks again.      *)
(* Around it the user leaves the window, comes back, closes it or cancels;  *)
(* other programs copy something or hold the clipboard; the target handles  *)
(* its keys when it gets to them.                                           *)
(*                                                                          *)
(* The straight-line parts of the code are rows of the table Line: what is  *)
(* done at a position, where it goes on if that succeeds and where if not.  *)
(* An action is the code between two points where user or target may act:   *)
(* a test of the window is one step, the key that follows it another.       *)
(***************************************************************************)
EXTENDS Naturals, Sequences, FiniteSets

CONSTANTS
    Jobs,           \* the jobs, see Job
    Attempts,       \* WriteProfile.attempts
    Chars,          \* characters of a value
    MaxLeaves,      \* how often the user leaves the window
    MaxCopies,      \* how often another program changes the clipboard
    MayLock,        \* may another program keep the clipboard open
    MayRaise,       \* may sending a key raise
    PromptTarget    \* the target handles a key before the sleep after it ends

FieldAction == [tabs_before : 0..1, value : {"text", ""}, default : BOOLEAN,
                empty_policy : {"preserve", "clear", "default", "cancel"},
                replace_existing : BOOLEAN, validation : BOOLEAN]

\* After a field comes a tab, after the last one the job's final action.
Job == [fields : Seq(FieldAction), final : {"none", "enter"}]

ASSUME WriterAssumption ==
    /\ Jobs \subseteq Job /\ \A j \in Jobs : Len(j.fields) > 0
    /\ Attempts \in Nat \ {0} /\ Chars \in Nat \ {0}
    /\ MaxLeaves \in Nat /\ MaxCopies \in Nat
    /\ MayLock \in BOOLEAN /\ MayRaise \in BOOLEAN /\ PromptTarget \in BOOLEAN

VARIABLES
    plan, final,        \* the job
    pc, field,          \* position of the writer
    stage, tabs,        \* navigation before or after a field, tabs left
    attempt, sent,      \* attempts at the field, characters typed
    probe,              \* was the control readable when its field began
    outcome,            \* WriteResult.state
    activated,          \* wait_until_exact_foreground has tried to activate
    origin, clip,       \* what the clipboard holds: kind, and text
    restore,            \* the text found on entry
    canModify, locked,  \* can_modify; another program holds the clipboard
    kept,               \* the restoration found the clipboard held
    fg, alive,          \* the foreground window; the target exists
    inbox,              \* keys the target has not handled yet
    form, cursor, selected, submitted,  \* the target's contents
    before,             \* what its controls held
    readable,           \* its controls answer WM_GETTEXT
    cancel,             \* the cancellation event
    leaves, copies,     \* how often the user left, programs copied
    stray,              \* keys that went to another window
    late,               \* keys sent after the cancellation
    returned            \* the user left and came back while fields were written

writer == <<plan, final, pc, field, stage, tabs, attempt, sent, probe, outcome, activated>>
clipboard == <<origin, clip, restore, canModify, locked, kept, copies>>
target == <<inbox, form, cursor, selected, submitted, before, readable>>
user == <<fg, alive, cancel, leaves, returned>>
counts == <<stray, late>>
vars == <<writer, clipboard, target, user, counts>>
--------------------------------------------------------------------------------
\* Texts are sequences of characters; what is not the job's is one character.
Original == << <<"original">> >>
Foreign == << <<"foreign">> >>
Old == << <<"old">> >>
Own(f) == [k \in 1..Chars |-> <<"char", f, k>>]

\* _resolve_value: what is written for a field, or how it goes without.
Mode(a) == CASE a.value = "text" -> "value"
             [] a.value = "" /\ a.empty_policy = "default" ->
                    IF a.default THEN "value" ELSE "blank"
             [] OTHER -> a.empty_policy

Action == plan[field]
Value(f) == IF Mode(plan[f]) = "value" THEN Own(f) ELSE <<>>

\* The target's tab stops, by the field they come to and the tabs to it: those
\* before a field's own control are passed over.
Controls == UNION {{f} \X (0..plan[f].tabs_before) : f \in DOMAIN plan}
Place(f) == <<f, plan[f].tabs_before>>
AfterTab(c) == IF c[2] < plan[c[1]].tabs_before THEN <<c[1], c[2] + 1>> ELSE <<c[1] + 1, 0>>

\* windows.validate_exact with require_foreground.
TargetValid == alive /\ fg = "target"

\* WindowsControlProbe: the control with the focus answers, and the window is there.
Probe == readable /\ TargetValid

\* _validate_value: what the control holds is the field's value.
Matches == cursor \in Controls /\ form[cursor] = Value(field)

\* The key of the navigation under way.
MoveKind == IF stage = "before" \/ field < Len(plan) THEN "tab" ELSE final

Replace == Action.replace_existing \/ Mode(Action) = "clear" \/ attempt > 0

(* The straight-line code: do, then go to ok, or to no when the step fails. *)
(* A failed step that is not a position is a WriteResult.state.             *)
Line == [
    gap |-> [do |-> "sleep", ok |-> "focus", no |-> "cancelled"],
    initial |-> [do |-> "sleep", ok |-> "enter", no |-> "cancelled"],
    moveCheck |-> [do |-> "check", ok |-> "moveKey", no |-> "navigation_failed"],
    moveKey |-> [do |-> "key", ok |-> "moveSleep", no |-> "error"],
    moveSleep |-> [do |-> "sleep", ok |-> "moved", no |-> "navigation_failed"],
    rest |-> [do |-> "sleep", ok |-> "next", no |-> "cancelled"],
    pasteCheck |-> [do |-> "check", ok |-> "select", no |-> "validation_failed"],
    selectKey |-> [do |-> "key", ok |-> "selectSleep", no |-> "error"],
    selectSleep |-> [do |-> "sleep", ok |-> "eraseCheck", no |-> "validation_failed"],
    eraseCheck |-> [do |-> "check", ok |-> "eraseKey", no |-> "validation_failed"],
    eraseKey |-> [do |-> "key", ok |-> "eraseSleep", no |-> "error"],
    eraseSleep |-> [do |-> "sleep", ok |-> "setText", no |-> "validation_failed"],
    copySleep |-> [do |-> "sleep", ok |-> "copyCheck", no |-> "type"],
    copyCheck |-> [do |-> "check", ok |-> "pasteKey", no |-> "type"],
    pasteKey |-> [do |-> "key", ok |-> "pasteSleep", no |-> "type"],
    pasteSleep |-> [do |-> "sleep", ok |-> "pastedCheck", no |-> "type"],
    pastedCheck |-> [do |-> "check", ok |-> "verify", no |-> "type"],
    typeCheck |-> [do |-> "check", ok |-> "typeKey", no |-> "validation_failed"],
    typeKey |-> [do |-> "key", ok |-> "typeSleep", no |-> "validation_failed"],
    typeSleep |-> [do |-> "sleep", ok |-> "type", no |-> "validation_failed"],
    typedSleep |-> [do |-> "sleep", ok |-> "typedCheck", no |-> "validation_failed"],
    typedCheck |-> [do |-> "check", ok |-> "verify", no |-> "validation_failed"]]

Key(p) == CASE p = "moveKey" -> <<MoveKind>>
            [] p = "selectKey" -> <<"ctrl+a">>
            [] p = "eraseKey" -> <<"backspace">>
            [] p = "pasteKey" -> <<"ctrl+v">>
            [] p = "typeKey" -> Value(field)[sent + 1]

At(op) == pc \in DOMAIN Line /\ Line[pc].do = op

\* Go to a position, or leave the with block and write() with a result.
Goto(p) == IF p \in {"cancelled", "navigation_failed", "validation_failed",
                     "empty_policy_cancelled", "error", "completed", "target_unavailable"}
           THEN pc' = "exit" /\ outcome' = p
           ELSE pc' = p /\ UNCHANGED outcome

Stays == UNCHANGED <<plan, final, field, stage, tabs, attempt, sent, probe, activated>>
--------------------------------------------------------------------------------
\* Regression: the window has to exist, not to be in the foreground.
CheckExists ==
    /\ At("check")
    /\ Goto(IF alive THEN Line[pc].ok ELSE Line[pc].no)
    /\ UNCHANGED <<clipboard, target, user, counts>> /\ Stays

\* The three steps every line of the table is made of.
Check ==
    /\ At("check")
    /\ Goto(IF TargetValid THEN Line[pc].ok ELSE Line[pc].no)
    /\ UNCHANGED <<clipboard, target, user, counts>> /\ Stays

\* Regression: the pauses are not interrupted by the cancellation.
SleepThrough ==
    /\ At("sleep")
    /\ PromptTarget => inbox = <<>>
    /\ Goto(Line[pc].ok)
    /\ UNCHANGED <<clipboard, target, user, counts>> /\ Stays

Sleep ==
    /\ At("sleep")
    /\ PromptTarget => inbox = <<>>
    /\ Goto(IF cancel THEN Line[pc].no ELSE Line[pc].ok)
    /\ UNCHANGED <<clipboard, target, user, counts>> /\ Stays

Send ==
    /\ At("key") /\ Key(pc) # <<"none">>
    /\ Goto(Line[pc].ok)
    /\ sent' = IF pc = "typeKey" THEN sent + 1 ELSE sent
    /\ late' = IF cancel THEN late + 1 ELSE late
    /\ IF fg = "target"
       THEN inbox' = Append(inbox, Key(pc)) /\ UNCHANGED stray
       ELSE stray' = stray + 1 /\ UNCHANGED inbox
    /\ UNCHANGED <<plan, final, field, stage, tabs, attempt, probe, activated,
                   clipboard, user, form, cursor, selected, submitted, before, readable>>

SendRaises ==
    /\ MayRaise /\ At("key") /\ Key(pc) # <<"none">>
    /\ Goto(Line[pc].no)
    /\ UNCHANGED <<clipboard, target, user, counts>> /\ Stays

\* Regression: the wait has no deadline.
WaitForEver ==
    /\ pc = "focus"
    /\ \/ (cancel \/ ~alive) /\ Goto("target_unavailable") /\ UNCHANGED <<activated, fg>>
       \/ ~cancel /\ TargetValid /\ Goto("initial") /\ UNCHANGED <<activated, fg>>
    /\ UNCHANGED <<plan, final, field, stage, tabs, attempt, sent, probe, clipboard, target,
                   alive, cancel, leaves, returned, counts>>

\* wait_until_exact_foreground: one turn of its loop, with one attempt to activate.
WaitForeground ==
    /\ pc = "focus"
    /\ \/ (cancel \/ ~alive) /\ Goto("target_unavailable") /\ UNCHANGED <<activated, fg>>
       \/ ~cancel /\ Goto("target_unavailable") /\ UNCHANGED <<activated, fg>>    \* timeout
       \/ ~cancel /\ TargetValid /\ Goto("initial") /\ UNCHANGED <<activated, fg>>
       \/ /\ ~cancel /\ alive /\ fg # "target" /\ ~activated
          /\ activated' = TRUE /\ fg' \in {fg, "target"} /\ UNCHANGED <<pc, outcome>>
    /\ UNCHANGED <<plan, final, field, stage, tabs, attempt, sent, probe, clipboard, target,
                   alive, cancel, leaves, returned, counts>>

\* SafeClipboardManager.__enter__: what can be put back may be changed.
EnterClipboard ==
    /\ pc = "enter" /\ Goto("field")
    /\ canModify' = (~locked /\ origin # "rich") /\ restore' = clip
    /\ UNCHANGED <<origin, clip, locked, kept, copies, target, user, counts>> /\ Stays

\* Regression: the clipboard is put back after a completed write only.
ExitIfCompleted ==
    /\ pc = "exit" /\ pc' = "done"
    /\ IF canModify /\ ~locked /\ outcome = "completed" THEN clip' = restore ELSE UNCHANGED clip
    /\ kept' = (canModify /\ locked)
    /\ UNCHANGED <<outcome, origin, restore, canModify, locked, copies, target, user, counts>> /\ Stays

\* SafeClipboardManager.__exit__, then _release_modifiers and the result.
Exit ==
    /\ pc = "exit" /\ pc' = "done"
    /\ IF canModify /\ ~locked THEN clip' = restore ELSE UNCHANGED clip
    /\ kept' = (canModify /\ locked)
    /\ UNCHANGED <<outcome, origin, restore, canModify, locked, copies, target, user, counts>> /\ Stays

\* The head of the loop over the fields.
BeginField ==
    /\ pc = "field"
    /\ IF field > Len(plan) THEN Goto("completed") /\ UNCHANGED <<stage, tabs>>
       ELSE IF cancel THEN Goto("cancelled") /\ UNCHANGED <<stage, tabs>>
       ELSE /\ stage' = "before" /\ tabs' = Action.tabs_before
            /\ Goto(IF Action.tabs_before > 0 THEN "moveCheck" ELSE "resolve")
    /\ UNCHANGED <<plan, final, field, attempt, sent, probe, activated,
                   clipboard, target, user, counts>>

\* _resolve_value and the probe of the control; "preserve" writes nothing.
ResolveField ==
    /\ pc = "resolve"
    /\ attempt' = 0 /\ sent' = 0
    /\ probe' = Probe
    /\ IF Mode(Action) = "cancel" THEN Goto("empty_policy_cancelled") /\ UNCHANGED stage
       ELSE IF Mode(Action) = "preserve" THEN Goto("moveCheck") /\ stage' = "after"
       ELSE Goto("pasteCheck") /\ UNCHANGED stage
    /\ UNCHANGED <<plan, final, field, tabs, activated, clipboard, target, user, counts>>

\* The probe of _paste says nothing but a line of the log.
Select ==
    /\ pc = "select" /\ Goto(IF Replace THEN "selectKey" ELSE "setText")
    /\ UNCHANGED <<clipboard, target, user, counts>> /\ Stays

\* The choices of _clipboard_paste and set_text: five attempts, each read back.
SetText ==
    /\ pc = "setText"
    /\ \/ canModify /\ ~locked /\ clip' = Value(field) /\ Goto("copySleep")
       \/ ~canModify /\ UNCHANGED clip /\ Goto("type")
       \/ canModify /\ locked /\ clip' \in {clip, Value(field)} /\ Goto("type")
    /\ UNCHANGED <<origin, restore, canModify, locked, kept, copies, target, user, counts>> /\ Stays

\* The loop of _direct_unicode, a character at a time.
TypeNext ==
    /\ pc = "type"
    /\ Goto(IF sent = Len(Value(field)) THEN "typedSleep"
            ELSE IF cancel THEN "validation_failed" ELSE "typeCheck")
    /\ UNCHANGED <<clipboard, target, user, counts>> /\ Stays

\* Regression: what the control holds is not compared with the value.
VerifyNothing ==
    /\ pc = "verify" /\ Goto("moveCheck") /\ stage' = "after"
    /\ UNCHANGED <<plan, final, field, tabs, attempt, sent, probe, activated,
                   clipboard, target, user, counts>>

\* Reading back what the control holds, until it is right or the time is up.
Verify ==
    LET unverified == ~Action.validation \/ ~probe
        matches == Probe /\ Matches
    IN  /\ pc = "verify"
        /\ \/ /\ unverified \/ (~cancel /\ matches)
              /\ Goto("moveCheck") /\ stage' = "after" /\ UNCHANGED <<attempt, sent>>
           \/ /\ ~unverified /\ (cancel \/ (~matches /\ (PromptTarget => inbox = <<>>)))
              /\ attempt' = attempt + 1 /\ sent' = 0 /\ UNCHANGED stage
              /\ Goto(IF attempt + 1 < Attempts THEN "pasteCheck" ELSE "validation_failed")
        /\ UNCHANGED <<plan, final, field, tabs, probe, activated,
                       clipboard, target, user, counts>>

\* _navigate with FinalAction.NONE tests the window and sends nothing.
MoveNothing ==
    /\ At("key") /\ Key(pc) = <<"none">> /\ Goto("moved")
    /\ UNCHANGED <<clipboard, target, user, counts>> /\ Stays

\* A navigation is over: the next tab, the field itself, or the end of the field.
Moved ==
    /\ pc = "moved"
    /\ IF stage = "after" THEN Goto("rest") /\ UNCHANGED tabs
       ELSE tabs' = tabs - 1 /\ Goto(IF tabs > 1 THEN "moveCheck" ELSE "resolve")
    /\ UNCHANGED <<plan, final, field, stage, attempt, sent, probe, activated,
                   clipboard, target, user, counts>>

NextField ==
    /\ pc = "next" /\ field' = field + 1 /\ Goto("field")
    /\ UNCHANGED <<plan, final, stage, tabs, attempt, sent, probe, activated,
                   clipboard, target, user, counts>>
--------------------------------------------------------------------------------
\* The target handles the oldest key; Ctrl+V reads the clipboard only now.
TargetHandles ==
    LET key == Head(inbox)
        here == cursor \in Controls
        Insert(t) == [form EXCEPT ![cursor] = IF selected THEN t ELSE @ \o t]
    IN  /\ alive /\ inbox # <<>>
        /\ inbox' = Tail(inbox)
        /\ form' = IF ~here THEN form
                   ELSE CASE key = <<"backspace">> /\ selected ->
                                 [form EXCEPT ![cursor] = <<>>]
                          [] key = <<"ctrl+v">> -> Insert(clip)
                          [] key[1] = "char" -> Insert(<<key>>)
                          [] OTHER -> form
        /\ cursor' = IF key = <<"tab">> /\ here THEN AfterTab(cursor) ELSE cursor
        /\ selected' = (key = <<"ctrl+a">>)
        /\ submitted' = (submitted \/ key = <<"enter">>)
        /\ UNCHANGED <<before, readable, writer, clipboard, user, counts>>

UserLeaves ==
    /\ fg = "target" /\ leaves < MaxLeaves
    /\ fg' = "other" /\ leaves' = leaves + 1
    /\ UNCHANGED <<alive, cancel, returned, writer, clipboard, target, counts>>

UserReturns ==
    /\ fg = "other" /\ alive /\ fg' = "target"
    /\ returned' = (returned \/ pc \notin {"gap", "focus"})
    /\ UNCHANGED <<alive, cancel, leaves, writer, clipboard, target, counts>>

UserCloses ==
    /\ alive /\ leaves < MaxLeaves
    /\ alive' = FALSE /\ fg' = "other" /\ leaves' = leaves + 1 /\ inbox' = <<>>
    /\ UNCHANGED <<cancel, returned, writer, clipboard, counts,
                   form, cursor, selected, submitted, before, readable>>

UserCancels ==
    /\ ~cancel /\ pc # "done" /\ cancel' = TRUE
    /\ UNCHANGED <<fg, alive, leaves, returned, writer, clipboard, target, counts>>

OtherCopies ==
    /\ copies < MaxCopies /\ ~locked
    /\ clip' = Foreign /\ origin' = "text" /\ copies' = copies + 1
    /\ UNCHANGED <<restore, canModify, locked, kept, writer, target, user, counts>>

OtherLocks ==
    /\ MayLock /\ pc # "done" /\ locked' = ~locked
    /\ UNCHANGED <<origin, clip, restore, canModify, kept, copies, writer, target, user, counts>>
--------------------------------------------------------------------------------
WriterInit ==
    /\ \E j \in Jobs : plan = j.fields /\ final = j.final
    /\ pc = "gap" /\ field = 1 /\ stage = "before" /\ tabs = 0
    /\ attempt = 0 /\ sent = 0 /\ probe = FALSE /\ outcome = "none" /\ activated = FALSE
    /\ origin \in {"text", "rich"} /\ clip = Original /\ restore = Original
    /\ canModify = FALSE /\ locked = FALSE /\ kept = FALSE
    /\ fg \in {"target", "other"} /\ alive = TRUE /\ inbox = <<>>
    /\ before \in {<<>>, Old} /\ form = [c \in Controls |-> before] /\ cursor = <<1, 0>>
    /\ selected = FALSE /\ submitted = FALSE /\ readable \in BOOLEAN
    /\ cancel = FALSE /\ leaves = 0 /\ copies = 0
    /\ stray = 0 /\ late = 0 /\ returned = FALSE

WriterStep ==
    \/ Check \/ Sleep \/ Send \/ SendRaises \/ WaitForeground \/ EnterClipboard \/ Exit
    \/ BeginField \/ ResolveField \/ Select \/ SetText \/ TypeNext \/ Verify
    \/ MoveNothing \/ Moved \/ NextField

Surroundings ==
    \/ UserLeaves \/ UserReturns \/ UserCloses \/ UserCancels \/ OtherCopies \/ OtherLocks

WriterNext == WriterStep \/ TargetHandles \/ Surroundings

WriterSpec == WriterInit /\ [][WriterNext]_vars

WriterFairSpec == WriterSpec /\ WF_vars(WriterStep) /\ WF_vars(TargetHandles)
--------------------------------------------------------------------------------
(* However the user moves between windows, the writer types at most one key *)
(* into a foreign window each time he leaves: the one between a test of the *)
(* foreground and the key it was made for.                                  *)
StrayKeys == stray <= leaves

(* Once a write is cancelled at most one more key is sent, wherever in the  *)
(* navigation, the paste, the typing or the retries the cancellation comes. *)
CancelStopsTyping == late <= 1

\* What a completed write leaves in the control of a field.
Expected(f) ==
    IF plan[f].replace_existing \/ Mode(plan[f]) = "clear" \/ (plan[f].validation /\ readable)
    THEN Value(f) ELSE before \o Value(f)

\* What a completed write may say of a field: what was meant is in its control,
\* or another program changed the clipboard and nobody could check the field.
Right(f) ==
    \/ form[Place(f)] = IF Mode(plan[f]) = "preserve" THEN before ELSE Expected(f)
    \/ copies > 0 /\ ~(plan[f].validation /\ readable)

(* A write reported as completed has put every value, once and whole, into  *)
(* its own control and left the others alone, whether it was pasted, typed  *)
(* or retried: unless the user came back to the window in the middle or     *)
(* another program changed the clipboard under a field nobody could check.  *)
CompletedForm ==
    outcome = "completed" /\ ~returned =>
        /\ \A f \in DOMAIN plan : Right(f)
        /\ \A c \in Controls : c # Place(c[1]) => form[c] = before

(* A clipboard that cannot be put back is never written, and a finished     *)
(* write leaves no value in it unless another program held it at the end.   *)
(* What another program copied during the write is overwritten, and not     *)
(* claimed to be kept.                                                      *)
ClipboardRespected ==
    \A f \in DOMAIN plan : clip = Own(f) => origin = "text" /\ (pc = "done" => kept)

(* A write ends, whatever user and programs do: what the queue relies on.   *)
WriteEnds == <>(pc = "done")
=============================================================================
