--------------------------- MODULE FormWriter_proofs ---------------------------
(***************************************************************************)
(* Theorems about the form writer, for every job, profile and user: what    *)
(* goes astray, what a cancellation still lets through, what becomes of the *)
(* clipboard, and what a completed write leaves in the form.  The writer's  *)
(* lines are the table Line; the lemmas Lines and Rows read from it what    *)
(* the invariants need, position by position.                               *)
(***************************************************************************)
EXTENDS FormWriter, SequenceTheorems, TLAPS

\* Positions between a test of the window and the key it was made for.
Armed == {"moveKey", "select", "selectKey", "eraseKey", "pasteKey", "typeKey"}

\* Positions a write passes once a key was sent after the cancellation.
Leaving == {"moveSleep", "selectSleep", "eraseSleep", "pasteSleep", "typeSleep",
            "type", "typedSleep", "exit", "done"}

Results == {"cancelled", "navigation_failed", "validation_failed", "empty_policy_cancelled",
            "error", "completed", "target_unavailable"}

\* Positions before the clipboard is entered.
Before == {"gap", "focus", "initial", "enter"}

(* A test of the window that succeeds arms a key; nothing else in the table *)
(* does, and the way on from a key or out of a pause leaves the write.      *)
LEMMA Lines ==
    \A p \in DOMAIN Line :
        /\ Line[p].do \in {"check", "sleep", "key"}
        /\ Line[p].do = "check" => /\ Line[p].ok \notin {"done"} \cup Before
                                   /\ Line[p].no \notin Armed \cup {"done"} \cup Before
                                   /\ p \notin Leaving \cup Before
        /\ Line[p].do = "sleep" => /\ Line[p].ok \notin Armed \cup {"done"}
                                   /\ Line[p].no \notin Armed \cup {"done"} \cup Before
                                   /\ Line[p].no \in Results \cup {"type"}
                                   /\ Line[p].ok \in Before => p \in Before
        /\ Line[p].do = "key" => /\ p \in Armed /\ p \notin Leaving \cup Before
                                 /\ Line[p].ok \in Leaving \ {"exit", "done"}
                                 /\ Line[p].ok \notin Armed \cup Before
                                 /\ Line[p].no \notin Armed \cup {"done"} \cup Before
  BY DEF Line, Armed, Leaving, Results, Before

(* Goto ends at the position it was given or at the exit.                   *)
LEMMA Going == ASSUME NEW p, Goto(p) PROVE pc' \in {p, "exit"} /\ (p \in Results => pc' = "exit")
  BY DEF Goto, Results
--------------------------------------------------------------------------------
(* Keys astray.  Between the test and its key the user may leave, once for  *)
(* each departure: while the writer is armed and another window is in       *)
(* front, a departure is still unaccounted for.                             *)
Counters == stray \in Nat /\ leaves \in Nat /\ late \in Nat

StrayInv ==
    /\ Counters /\ stray <= leaves
    /\ fg # "target" /\ pc \in Armed => stray + 1 <= leaves

(* Every step of the system keeps the account of departures.                *)
LEMMA StrayStep == StrayInv /\ [WriterNext]_vars => StrayInv'
<1> SUFFICES ASSUME StrayInv, [WriterNext]_vars PROVE StrayInv'
  OBVIOUS
<1> USE DEF StrayInv, Counters
\* Steps that leave window, counters and arms alone.
<1> DEFINE Idle == UNCHANGED <<stray, late, leaves, fg>> /\ pc' \notin Armed
<1>0. Idle => StrayInv'
  OBVIOUS
<1>1. CASE Check
  <2>1. pc \in DOMAIN Line /\ Line[pc].do = "check" /\ UNCHANGED <<stray, late, leaves, fg>>
    BY <1>1 DEF Check, At, counts, user
  <2>2. CASE TargetValid
    BY <2>1, <2>2 DEF TargetValid
  <2>3. CASE ~TargetValid
    <3>1. pc' \in {Line[pc].no, "exit"}
      BY <1>1, <2>3, Going DEF Check
    <3> QED BY <1>0, <2>1, <3>1, Lines DEF Armed
  <2> QED BY <2>2, <2>3
<1>2. CASE Sleep
  <2>1. pc \in DOMAIN Line /\ Line[pc].do = "sleep" /\ UNCHANGED <<stray, late, leaves, fg>>
    BY <1>2 DEF Sleep, At, counts, user
  <2>2. pc' \in {Line[pc].ok, Line[pc].no, "exit"}
    BY <1>2, Going DEF Sleep
  <2> QED BY <1>0, <2>1, <2>2, Lines DEF Armed
<1>3. CASE Send
  <2>1. /\ pc \in DOMAIN Line /\ Line[pc].do = "key" /\ UNCHANGED <<leaves, fg>>
        /\ stray' = IF fg = "target" THEN stray ELSE stray + 1
        /\ late' = IF cancel THEN late + 1 ELSE late
    BY <1>3 DEF Send, At, user
  <2>2. pc' \in {Line[pc].ok, "exit"}
    BY <1>3, Going DEF Send
  <2>3. pc \in Armed /\ pc' \notin Armed
    BY <2>1, <2>2, Lines DEF Armed
  <2> QED BY <2>1, <2>3
<1>4. CASE SendRaises
  <2>1. pc \in DOMAIN Line /\ Line[pc].do = "key" /\ UNCHANGED <<stray, late, leaves, fg>>
    BY <1>4 DEF SendRaises, At, counts, user
  <2>2. pc' \in {Line[pc].no, "exit"}
    BY <1>4, Going DEF SendRaises
  <2> QED BY <1>0, <2>1, <2>2, Lines DEF Armed
<1>5. CASE WaitForeground
  <2>1. pc' \in {pc, "initial", "exit"} /\ pc = "focus"
    BY <1>5, Going DEF WaitForeground, Results
  <2> QED BY <1>5, <2>1 DEF WaitForeground, counts, Armed
<1>6. CASE EnterClipboard
  BY <1>6, <1>0, Going DEF EnterClipboard, counts, user, Armed
<1>7. CASE Exit
  BY <1>7, <1>0 DEF Exit, counts, user, Armed
<1>8. CASE BeginField
  BY <1>8, <1>0, Going DEF BeginField, counts, user, Armed
<1>9. CASE ResolveField
  BY <1>9, <1>0, Going DEF ResolveField, counts, user, Armed
<1>10. CASE Select
  <2>1. pc \in Armed /\ UNCHANGED <<stray, late, leaves, fg>>
    BY <1>10 DEF Select, counts, user, Armed
  <2> QED BY <2>1
<1>11. CASE SetText
  BY <1>11, <1>0, Going DEF SetText, counts, user, Armed
<1>12. CASE TypeNext
  BY <1>12, <1>0, Going DEF TypeNext, counts, user, Armed
<1>13. CASE Verify
  BY <1>13, <1>0, Going DEF Verify, counts, user, Armed
<1>14. CASE MoveNothing
  BY <1>14, <1>0, Going DEF MoveNothing, counts, user, Armed
<1>15. CASE Moved
  BY <1>15, <1>0, Going DEF Moved, counts, user, Armed
<1>16. CASE NextField
  BY <1>16, <1>0, Going DEF NextField, counts, user, Armed
<1>17. CASE TargetHandles
  BY <1>17 DEF TargetHandles, writer, counts, user
<1>18. CASE UserLeaves
  BY <1>18 DEF UserLeaves, writer, counts
<1>19. CASE UserReturns
  BY <1>19 DEF UserReturns, writer, counts
<1>20. CASE UserCloses
  BY <1>20 DEF UserCloses, writer, counts
<1>21. CASE UserCancels \/ OtherCopies \/ OtherLocks
  BY <1>21 DEF UserCancels, OtherCopies, OtherLocks, writer, counts, user
<1>22. CASE UNCHANGED vars
  BY <1>22 DEF vars, writer, counts, user
<1> QED
  BY <1>1, <1>2, <1>3, <1>4, <1>5, <1>6, <1>7, <1>8, <1>9, <1>10, <1>11, <1>12, <1>13, <1>14,
     <1>15, <1>16, <1>17, <1>18, <1>19, <1>20, <1>21, <1>22
     DEF WriterNext, WriterStep, Surroundings

(* At most one key goes astray for each time the user leaves the window,    *)
(* for every job, profile and number of departures: writer.py tests the     *)
(* foreground before every key.                                             *)
THEOREM OneKeyForADeparture == WriterSpec => []StrayKeys
<1>1. WriterInit => StrayInv
  BY DEF WriterInit, StrayInv, Counters, Armed
<1>2. StrayInv => StrayKeys
  BY DEF StrayInv, StrayKeys
<1> QED BY <1>1, <1>2, StrayStep, PTL DEF WriterSpec
--------------------------------------------------------------------------------
(* Cancellation.  Once a key was sent after it, the writer is on its way    *)
(* out: it passes the pause after that key, at most the remaining tests of  *)
(* the typing loop, and no other key.                                       *)
LateInv ==
    /\ late \in {0, 1} /\ cancel \in BOOLEAN
    /\ ~cancel => late = 0
    /\ late = 1 => pc \in Leaving

(* A step at a position the way out does not pass keeps the invariant.      *)
LEMMA NotLate ==
    ASSUME LateInv, pc \notin Leaving, UNCHANGED <<late, cancel>> PROVE LateInv'
  BY DEF LateInv

LEMMA LateStep == LateInv /\ [WriterNext]_vars => LateInv'
<1> SUFFICES ASSUME LateInv, [WriterNext]_vars PROVE LateInv'
  OBVIOUS
<1>1. CASE Check
  <2>1. pc \in DOMAIN Line /\ Line[pc].do = "check" /\ UNCHANGED <<late, cancel>>
    BY <1>1 DEF Check, At, counts, user
  <2> QED BY <2>1, Lines, NotLate
<1>2. CASE Sleep
  <2>1. pc \in DOMAIN Line /\ Line[pc].do = "sleep" /\ UNCHANGED <<late, cancel>>
    BY <1>2 DEF Sleep, At, counts, user
  <2>2. CASE late = 0
    BY <2>1, <2>2 DEF LateInv
  <2>3. CASE late = 1
    <3>1. Goto(Line[pc].no)
      BY <1>2, <2>3 DEF Sleep, LateInv
    <3>2. pc' \in {"type", "exit"}
      BY <2>1, <3>1, Lines, Going
    <3> QED BY <2>1, <2>3, <3>2 DEF LateInv, Leaving
  <2> QED BY <2>2, <2>3 DEF LateInv
<1>3. CASE Send
  <2>1. /\ pc \in DOMAIN Line /\ Line[pc].do = "key" /\ cancel' = cancel
        /\ late' = IF cancel THEN late + 1 ELSE late
    BY <1>3 DEF Send, At, user
  <2>2. pc' \in {Line[pc].ok, "exit"}
    BY <1>3, Going DEF Send
  <2>3. pc' \in Leaving /\ late = 0
    BY <2>1, <2>2, Lines DEF LateInv, Leaving
  <2> QED BY <2>1, <2>3 DEF LateInv
<1>4. CASE SendRaises \/ MoveNothing
  <2>1. pc \in DOMAIN Line /\ Line[pc].do = "key" /\ UNCHANGED <<late, cancel>>
    BY <1>4 DEF SendRaises, MoveNothing, At, counts, user
  <2> QED BY <2>1, Lines, NotLate
<1>5. CASE WaitForeground
  BY <1>5, NotLate DEF WaitForeground, counts, Leaving
<1>6. CASE EnterClipboard
  BY <1>6, NotLate DEF EnterClipboard, counts, user, Leaving
<1>7. CASE Exit
  BY <1>7 DEF Exit, counts, user, Leaving, LateInv
<1>8. CASE BeginField \/ ResolveField
  BY <1>8, NotLate DEF BeginField, ResolveField, counts, user, Leaving
<1>9. CASE Select \/ SetText
  BY <1>9, NotLate DEF Select, SetText, counts, user, Leaving
<1>10. CASE TypeNext
  <2>1. UNCHANGED <<late, cancel>>
    BY <1>10 DEF TypeNext, counts, user
  <2>2. cancel => pc' \in {"typedSleep", "exit"}
    BY <1>10, Going DEF TypeNext, Results
  <2> QED BY <2>1, <2>2 DEF LateInv, Leaving
<1>11. CASE Verify
  BY <1>11, NotLate DEF Verify, counts, user, Leaving
<1>12. CASE Moved \/ NextField
  BY <1>12, NotLate DEF Moved, NextField, counts, user, Leaving
<1>13. CASE TargetHandles
  BY <1>13 DEF TargetHandles, writer, counts, user, LateInv
<1>14. CASE UserCancels
  BY <1>14 DEF UserCancels, writer, counts, LateInv
<1>15. CASE UserLeaves \/ UserReturns \/ UserCloses
  BY <1>15 DEF UserLeaves, UserReturns, UserCloses, writer, counts, LateInv
<1>16. CASE OtherCopies \/ OtherLocks
  BY <1>16 DEF OtherCopies, OtherLocks, writer, counts, user, LateInv
<1>17. CASE UNCHANGED vars
  BY <1>17 DEF vars, writer, counts, user, LateInv
<1> QED
  BY <1>1, <1>2, <1>3, <1>4, <1>5, <1>6, <1>7, <1>8, <1>9, <1>10, <1>11, <1>12, <1>13, <1>14,
     <1>15, <1>16, <1>17 DEF WriterNext, WriterStep, Surroundings

(* After a cancellation at most one more key is sent, wherever it comes and *)
(* however many attempts and characters the job has: every early return of  *)
(* writer.py and stress_safe_writer.py leads out of the write.              *)
THEOREM CancelledWriteStops == WriterSpec => []CancelStopsTyping
<1>1. ASSUME WriterInit PROVE LateInv
  <2>1. late = 0 /\ cancel = FALSE
    BY <1>1 DEF WriterInit
  <2>2. late \in {0, 1} /\ ~(late = 1)
    BY <2>1, SMT
  <2>3. cancel \in BOOLEAN
    BY <2>1, Zenon
  <2> QED BY <2>1, <2>2, <2>3, Zenon DEF LateInv
<1>2. LateInv => CancelStopsTyping
  BY DEF LateInv, CancelStopsTyping
<1> QED BY <1>1, <1>2, LateStep, PTL DEF WriterSpec
--------------------------------------------------------------------------------
(* The clipboard.  A value is in it only after __enter__ found text it can  *)
(* put back, and until __exit__ has put that back.                          *)
Others == {Original, Foreign}

ClipInv ==
    /\ origin \in {"text", "rich"} /\ canModify \in BOOLEAN /\ kept \in BOOLEAN
    /\ restore \in Others
    /\ ~canModify => clip \in Others
    /\ canModify => origin = "text" /\ pc \notin Before
    /\ pc = "done" /\ ~kept => clip \in Others

(* Steps of the writer that leave the clipboard alone and do not end it.    *)
LEMMA ClipSame ==
    ASSUME ClipInv, UNCHANGED clipboard, pc' # "done", canModify => pc' \notin Before
    PROVE  ClipInv'
  BY DEF ClipInv, clipboard

LEMMA ClipStep == ClipInv /\ [WriterNext]_vars => ClipInv'
<1> SUFFICES ASSUME ClipInv, [WriterNext]_vars PROVE ClipInv'
  OBVIOUS
<1>0. canModify => pc \notin Before
  BY DEF ClipInv
<1>1. CASE Check
  <2>1. pc \in DOMAIN Line /\ Line[pc].do = "check" /\ UNCHANGED clipboard
    BY <1>1 DEF Check, At
  <2>2. pc' \in {Line[pc].ok, Line[pc].no, "exit"}
    BY <1>1, Going DEF Check
  <2>3. pc' \notin {"done"} \cup Before
    BY <2>1, <2>2, Lines DEF Before
  <2> QED BY <2>1, <2>3, ClipSame
<1>2. CASE Sleep
  <2>1. pc \in DOMAIN Line /\ Line[pc].do = "sleep" /\ UNCHANGED clipboard
    BY <1>2 DEF Sleep, At
  <2>2. pc' \in {Line[pc].ok, Line[pc].no, "exit"}
    BY <1>2, Going DEF Sleep
  <2>3. pc' # "done" /\ (pc' \in Before => pc \in Before)
    BY <2>1, <2>2, Lines DEF Before
  <2> QED BY <1>0, <2>1, <2>3, ClipSame
<1>3. CASE Send \/ SendRaises
  <2>1. pc \in DOMAIN Line /\ Line[pc].do = "key" /\ UNCHANGED clipboard
    BY <1>3 DEF Send, SendRaises, At
  <2>2. pc' \in {Line[pc].ok, Line[pc].no, "exit"}
    BY <1>3, Going DEF Send, SendRaises
  <2>3. pc' \notin {"done"} \cup Before
    BY <2>1, <2>2, Lines DEF Before, Leaving
  <2> QED BY <2>1, <2>3, ClipSame
<1>4. CASE WaitForeground
  <2>1. pc = "focus" /\ pc' \in {"focus", "initial", "exit"} /\ UNCHANGED clipboard
    BY <1>4, Going DEF WaitForeground, Results
  <2> QED BY <1>0, <2>1, ClipSame DEF Before
<1>5. CASE EnterClipboard
  <2>1. /\ pc = "enter" /\ pc' \in {"field", "exit"} /\ restore' = clip
        /\ canModify' = (~locked /\ origin # "rich") /\ UNCHANGED <<origin, clip, kept>>
    BY <1>5, Going DEF EnterClipboard
  <2>2. ~canModify /\ clip \in Others
    BY <1>0, <2>1 DEF ClipInv, Before
  <2> QED BY <2>1, <2>2 DEF ClipInv, Before
<1>6. CASE Exit
  BY <1>6 DEF Exit, ClipInv, Before
<1>7. CASE BeginField
  BY <1>7, Going, ClipSame DEF BeginField, Before
<1>8. CASE ResolveField
  BY <1>8, Going, ClipSame DEF ResolveField, Before
<1>9. CASE Select
  BY <1>9, Going, ClipSame DEF Select, Before
<1>10. CASE SetText
  BY <1>10, Going DEF SetText, ClipInv, Before
<1>11. CASE TypeNext
  BY <1>11, Going, ClipSame DEF TypeNext, Before
<1>12. CASE Verify
  BY <1>12, Going, ClipSame DEF Verify, Before
<1>13. CASE MoveNothing
  BY <1>13, Going, ClipSame DEF MoveNothing, Before
<1>14. CASE Moved
  BY <1>14, Going, ClipSame DEF Moved, Before
<1>15. CASE NextField
  BY <1>15, Going, ClipSame DEF NextField, Before
<1>16. CASE OtherCopies
  BY <1>16 DEF OtherCopies, writer, ClipInv, Others
<1>17. CASE TargetHandles
  BY <1>17 DEF TargetHandles, writer, clipboard, ClipInv
<1>18. CASE UserLeaves \/ UserReturns \/ UserCloses \/ UserCancels
  BY <1>18 DEF UserLeaves, UserReturns, UserCloses, UserCancels, writer, clipboard, ClipInv
<1>19. CASE OtherLocks
  BY <1>19 DEF OtherLocks, writer, ClipInv
<1>20. CASE UNCHANGED vars
  BY <1>20 DEF vars, writer, clipboard, ClipInv
<1> QED
  BY <1>1, <1>2, <1>3, <1>4, <1>5, <1>6, <1>7, <1>8, <1>9, <1>10, <1>11, <1>12, <1>13, <1>14,
     <1>15, <1>16, <1>17, <1>18, <1>19, <1>20 DEF WriterNext, WriterStep, Surroundings

(* What others wrote is no value of the job.                                *)
LEMMA OthersAreNotOwn == ASSUME NEW f PROVE Own(f) \notin Others
<1>1. Own(f)[1] = <<"char", f, 1>>
  BY WriterAssumption DEF Own
<1>2. Own(f)[1][1] = "char"
  BY <1>1
<1>3. Original[1][1] = "original" /\ Foreign[1][1] = "foreign"
  BY DEF Original, Foreign
<1> QED BY <1>2, <1>3 DEF Others

(* A clipboard that cannot be put back is never written, and a value is in  *)
(* it after the write only if another program held it open at the end, for  *)
(* every job.  Of what others copied meanwhile nothing is said: __exit__    *)
(* puts the text found at the beginning over it.                            *)
THEOREM ClipboardIsGivenBack == WriterSpec => []ClipboardRespected
<1>1. WriterInit => ClipInv
  BY DEF WriterInit, ClipInv, Others, Before
<1>2. ClipInv => ClipboardRespected
  BY OthersAreNotOwn DEF ClipInv, ClipboardRespected
<1> QED BY <1>1, <1>2, ClipStep, PTL DEF WriterSpec
--------------------------------------------------------------------------------
(* The form.  A write keeps to its track while the target stays in front:   *)
(* the cursor is where the navigation has left it, the controls it has not  *)
(* come to hold what they held, and the field in hand holds the part that   *)
(* was pasted or typed.  The target handles a key before the pause after it *)
(* is over, so at most one is waiting, the one just sent.                   *)
Selecting == {"pasteCheck", "select", "selectKey", "selectSleep", "eraseCheck", "eraseKey",
              "eraseSleep"}
Pasting == {"setText", "copySleep", "copyCheck", "pasteKey", "pasteSleep", "pastedCheck"}
Typing == {"type", "typeCheck", "typeKey", "typeSleep", "typedSleep", "typedCheck"}
Writing == Selecting \cup Pasting \cup Typing \cup {"verify"}
Moving == {"moveCheck", "moveKey", "moveSleep", "moved"}
Past == {"rest", "next"}
Positions == Before \cup {"field", "resolve"} \cup Writing \cup Moving \cup Past \cup {"exit", "done"}

\* Where the straight-line code goes on.
CheckRows == {<<"moveCheck", "moveKey">>, <<"pasteCheck", "select">>, <<"eraseCheck", "eraseKey">>,
              <<"copyCheck", "pasteKey">>, <<"pastedCheck", "verify">>, <<"typeCheck", "typeKey">>,
              <<"typedCheck", "verify">>}
SleepRows == {<<"gap", "focus">>, <<"initial", "enter">>, <<"moveSleep", "moved">>,
              <<"rest", "next">>, <<"selectSleep", "eraseCheck">>, <<"eraseSleep", "setText">>,
              <<"copySleep", "copyCheck">>, <<"pasteSleep", "pastedCheck">>,
              <<"typeSleep", "type">>, <<"typedSleep", "typedCheck">>}
KeyRows == {<<"moveKey", "moveSleep">>, <<"selectKey", "selectSleep">>, <<"eraseKey", "eraseSleep">>,
            <<"pasteKey", "pasteSleep">>, <<"typeKey", "typeSleep">>}

(* The rows of the table, by what they do; a step that fails ends the       *)
(* write, or has the field typed after a paste that did not succeed.        *)
LEMMA Rows ==
    \A p \in DOMAIN Line :
        /\ Line[p].do = "check" => <<p, Line[p].ok>> \in CheckRows
        /\ Line[p].do = "sleep" => <<p, Line[p].ok>> \in SleepRows
        /\ Line[p].do = "key" => <<p, Line[p].ok>> \in KeyRows
        /\ \/ Line[p].no \in Results \ {"completed"}
           \/ Line[p].no = "type" /\ p \in {"copyCheck", "pastedCheck", "copySleep", "pasteSleep",
                                             "pasteKey"}
  BY DEF Line, CheckRows, SleepRows, KeyRows, Results

\* The ways out of a write other than at the end of its job.
Leaves == pc' = "exit" /\ outcome' # "completed"
Falls == pc' = "type" /\ outcome' = outcome

(* Where a test, a pause and a key lead.                                    *)
LEMMA CheckGoes ==
    ASSUME Check
    PROVE  \/ TargetValid /\ <<pc, pc'>> \in CheckRows /\ outcome' = outcome
           \/ ~TargetValid /\ <<pc, Line[pc].ok>> \in CheckRows
                /\ (Leaves \/ (pc \in {"copyCheck", "pastedCheck"} /\ Falls))
<1>1. /\ pc \in DOMAIN Line /\ Line[pc].do = "check"
      /\ Goto(IF TargetValid THEN Line[pc].ok ELSE Line[pc].no)
  BY DEF Check, At
<1>2. <<pc, Line[pc].ok>> \in CheckRows
  BY <1>1, Rows
<1>3. CASE TargetValid
  BY <1>1, <1>2, <1>3 DEF Goto, CheckRows
<1>4. CASE ~TargetValid
  <2>1. Goto(Line[pc].no)
    BY <1>1, <1>4
  <2>2. \/ Line[pc].no \in Results \ {"completed"}
        \/ Line[pc].no = "type" /\ pc \in {"copyCheck", "pastedCheck"}
    BY <1>1, <1>2, Rows DEF CheckRows
  <2> QED BY <1>2, <1>4, <2>1, <2>2 DEF Goto, Results, Leaves, Falls
<1> QED BY <1>3, <1>4

LEMMA SleepGoes ==
    ASSUME Sleep
    PROVE  /\ <<pc, Line[pc].ok>> \in SleepRows
           /\ \/ ~cancel /\ <<pc, pc'>> \in SleepRows /\ outcome' = outcome
              \/ cancel /\ (Leaves \/ (pc \in {"copySleep", "pasteSleep"} /\ Falls))
<1>1. /\ pc \in DOMAIN Line /\ Line[pc].do = "sleep"
      /\ Goto(IF cancel THEN Line[pc].no ELSE Line[pc].ok)
  BY DEF Sleep, At
<1>2. <<pc, Line[pc].ok>> \in SleepRows
  BY <1>1, Rows
<1>3. CASE ~cancel
  BY <1>1, <1>2, <1>3 DEF Goto, SleepRows
<1>4. CASE cancel
  <2>1. Goto(Line[pc].no)
    BY <1>1, <1>4
  <2>2. \/ Line[pc].no \in Results \ {"completed"}
        \/ Line[pc].no = "type" /\ pc \in {"copySleep", "pasteSleep"}
    BY <1>1, <1>2, Rows DEF SleepRows
  <2> QED BY <1>2, <1>4, <2>1, <2>2 DEF Goto, Results, Leaves, Falls
<1> QED BY <1>3, <1>4

LEMMA SendGoes ==
    /\ At("key") => pc \in {"moveKey", "selectKey", "eraseKey", "pasteKey", "typeKey"}
    /\ Send => <<pc, pc'>> \in KeyRows /\ outcome' = outcome
    /\ SendRaises => Leaves \/ (pc = "pasteKey" /\ Falls)
<1>1. At("key") => pc \in {"moveKey", "selectKey", "eraseKey", "pasteKey", "typeKey"}
  BY Rows DEF At, KeyRows
<1>2. ASSUME Send PROVE <<pc, pc'>> \in KeyRows /\ outcome' = outcome
  <2>1. pc \in DOMAIN Line /\ Line[pc].do = "key" /\ Goto(Line[pc].ok)
    BY <1>2 DEF Send, At
  <2> QED BY <2>1, Rows DEF Goto, KeyRows
<1>3. ASSUME SendRaises PROVE Leaves \/ (pc = "pasteKey" /\ Falls)
  <2>1. pc \in DOMAIN Line /\ Line[pc].do = "key" /\ Goto(Line[pc].no)
    BY <1>3 DEF SendRaises, At
  <2>2. \/ Line[pc].no \in Results \ {"completed"}
        \/ Line[pc].no = "type" /\ pc = "pasteKey"
    BY <1>1, <2>1, Rows DEF At
  <2> QED BY <2>1, <2>2 DEF Goto, Results, Leaves, Falls
<1> QED BY <1>1, <1>2, <1>3
--------------------------------------------------------------------------------
Shape ==
    /\ plan \in Seq(FieldAction) /\ final \in {"none", "enter"} /\ before \in {<<>>, Old}
    /\ DOMAIN form = Controls /\ copies \in Nat
    /\ pc \in Positions /\ stage \in {"before", "after"}
    /\ tabs \in Nat /\ attempt \in Nat /\ sent \in Nat
    /\ field \in DOMAIN plan \/ (field = Len(plan) + 1 /\ pc \in {"field", "exit", "done"})
    /\ outcome = "completed" => pc \in {"exit", "done"}
    /\ pc \in Past => stage = "after"
    /\ pc \in Writing \cup {"resolve"} => stage = "before"
    /\ pc \in Moving /\ stage = "before" => 1 <= tabs /\ tabs <= Action.tabs_before

\* The key that waits is the one the writer has just sent.
Handled == inbox = <<>>
Inbox ==
    \/ Handled
    \/ pc = "moveSleep" /\ inbox = << <<MoveKind>> >>
    \/ pc = "selectSleep" /\ inbox = << <<"ctrl+a">> >>
    \/ pc = "eraseSleep" /\ inbox = << <<"backspace">> >>
    \/ pc = "pasteSleep" /\ inbox = << <<"ctrl+v">> >>
    \/ pc = "typeSleep" /\ sent > 0 /\ inbox = <<Value(field)[sent]>>

\* Steps that change the position and nothing else of the writer.
Walks == Stays /\ UNCHANGED target

(* Steps of the straight-line code keep the shape.                          *)
LEMMA ShapeWalks ==
    ASSUME Shape, Walks, UNCHANGED copies,
           \/ <<pc, pc'>> \in CheckRows \cup SleepRows \cup KeyRows /\ outcome' = outcome
           \/ pc' = "exit" /\ (outcome' = "completed" => outcome = "completed")
           \/ pc \in Pasting /\ Falls
    PROVE  Shape'
<1>1. /\ UNCHANGED <<plan, final, before, form, copies, stage, tabs, attempt, sent, field>>
      /\ Controls' = Controls /\ Action' = Action
  BY DEF Walks, Stays, target, Controls, Action
<1>2. CASE <<pc, pc'>> \in CheckRows \cup SleepRows \cup KeyRows /\ outcome' = outcome
  <2>1. /\ pc' \in Positions \ {"exit", "done", "field", "resolve"} /\ pc \notin {"field", "exit", "done"}
        /\ pc' \in Past => pc \in Past
        /\ pc' \in Writing => pc \in Writing
        /\ pc' \in Moving => pc \in Moving
    BY <1>2 DEF CheckRows, SleepRows, KeyRows, Positions, Past, Writing, Moving, Selecting, Pasting,
                Typing, Before
  <2> QED BY <1>1, <1>2, <2>1 DEF Shape
<1>3. CASE pc' = "exit" /\ (outcome' = "completed" => outcome = "completed")
  BY <1>1, <1>3 DEF Shape, Positions, Past, Writing, Moving, Selecting, Pasting, Typing, Before
<1>4. CASE pc \in Pasting /\ Falls
  <2>1. /\ pc' \in Positions /\ pc' \notin Past \cup Moving /\ pc \in Writing
        /\ pc \notin {"field", "exit", "done"}
    BY <1>4 DEF Falls, Positions, Past, Writing, Moving, Selecting, Pasting, Typing, Before
  <2> QED BY <1>1, <1>4, <2>1 DEF Shape, Falls
<1> QED BY <1>2, <1>3, <1>4
(* What the fields of a job are.                                            *)
LEMMA Actions ==
    ASSUME Shape, NEW f \in DOMAIN plan
    PROVE  plan[f] \in FieldAction /\ plan[f].tabs_before \in 0..1
<1>1. plan[f] \in FieldAction
  BY DEF Shape
<1> QED BY <1>1 DEF FieldAction

(* The field in hand is one of the job's, or the one behind the last.       *)
LEMMA Lengths == Shape => /\ field \in Nat /\ Len(plan) \in Nat /\ DOMAIN plan = 1..Len(plan)
                          /\ field \in DOMAIN plan <=> field <= Len(plan) /\ field > 0
                          /\ ~(field > Len(plan)) => field # Len(plan) + 1
  BY DEF Shape


\* How far the value has been typed.
Progress ==
    /\ pc \in Selecting \cup Pasting => sent = 0
    /\ pc \in Typing => sent <= Len(Value(field))
    /\ pc \in {"typeCheck", "typeKey"} => sent < Len(Value(field))
    /\ pc \in {"typedSleep", "typedCheck"} => sent = Len(Value(field))
    /\ pc = "typeSleep" => sent > 0

Letters == {<<"old">>} \cup {<<"char", f, k>> : f \in Nat, k \in Nat}

(* A value is a sequence of its own characters.                             *)
LEMMA Values ==
    ASSUME NEW f \in Nat
    PROVE  /\ Value(f) \in Seq(Letters) /\ Len(Value(f)) \in Nat
           /\ \A k \in 1..Len(Value(f)) : Value(f)[k] = <<"char", f, k>>
<1>1. Chars \in Nat
  BY WriterAssumption
<1>2. Own(f) \in Seq(Letters) /\ Len(Own(f)) = Chars
      /\ \A k \in 1..Chars : Own(f)[k] = <<"char", f, k>>
  <2>1. \A k \in 1..Chars : <<"char", f, k>> \in Letters
    BY DEF Letters
  <2> QED BY <1>1, <2>1 DEF Own
<1>3. <<>> \in Seq(Letters) /\ Len(<<>>) = 0
  OBVIOUS
<1>4. Value(f) \in {Own(f), <<>>}
  BY DEF Value
<1>5. CASE Value(f) = Own(f)
  BY <1>1, <1>2, <1>5
<1>6. CASE Value(f) = <<>>
  BY <1>3, <1>6
<1> QED BY <1>4, <1>5, <1>6

(* Every key but the one that ends a job without one is sent.               *)
LEMMA KeysAreSomething ==
    ASSUME Shape, Progress, pc \in {"selectKey", "eraseKey", "pasteKey", "typeKey"}
    PROVE  Key(pc) # <<"none">>
<1>1. CASE pc = "typeKey"
  <2>1. field \in Nat /\ sent \in Nat /\ sent < Len(Value(field))
    BY <1>1, Lengths DEF Shape, Progress
  <2>2. Value(field)[sent + 1] = <<"char", field, sent + 1>>
    <3>0. Len(Value(field)) \in Nat
      BY <2>1, Values
    <3>1. sent + 1 \in 1..Len(Value(field))
      BY <2>1, <3>0
    <3> QED BY <2>1, <3>1, Values
  <2>3. Key(pc) = Value(field)[sent + 1]
    BY <1>1 DEF Key
  <2>4. Value(field)[sent + 1][1] = "char"
    BY <2>2
  <2> QED BY <2>3, <2>4
<1>2. CASE pc # "typeKey"
  BY <1>2 DEF Key
<1> QED BY <1>1, <1>2

(* Every step keeps the shape.                                              *)
LEMMA ShapeStep == Shape /\ Progress /\ [WriterNext]_vars => Shape'
<1> SUFFICES ASSUME Shape, Progress, [WriterNext]_vars PROVE Shape'
  OBVIOUS
<1>1. CASE Check
  BY <1>1, CheckGoes, ShapeWalks DEF Check, Walks, Pasting, clipboard, Leaves
<1>2. CASE Sleep
  BY <1>2, SleepGoes, ShapeWalks DEF Sleep, Walks, Pasting, clipboard, Leaves
<1>3. CASE Send
  <2>1. /\ <<pc, pc'>> \in KeyRows /\ outcome' = outcome
        /\ UNCHANGED <<plan, final, before, form, copies, stage, tabs, attempt, field>>
        /\ sent' \in {sent, sent + 1} /\ Controls' = Controls /\ Action' = Action
    BY <1>3, SendGoes DEF Send, clipboard, Controls, Action
  <2>2. /\ pc' \in Positions \ {"field", "resolve", "exit", "done"} /\ pc' \notin Past
        /\ pc \notin {"field", "exit", "done"}
        /\ (pc' \in Writing => pc \in Writing) /\ (pc' \in Moving => pc \in Moving)
    BY <2>1 DEF KeyRows, Positions, Past, Writing, Moving, Selecting, Pasting, Typing, Before
  <2> QED BY <2>1, <2>2 DEF Shape
<1>4. CASE SendRaises
  BY <1>4, SendGoes, ShapeWalks DEF SendRaises, Walks, Pasting, clipboard, Leaves
<1>5. CASE WaitForeground
  <2>1. /\ pc = "focus" /\ pc' \in {"focus", "initial", "exit"} /\ outcome' \in {outcome, "target_unavailable"}
        /\ UNCHANGED <<plan, final, before, form, copies, stage, tabs, attempt, sent, field>>
        /\ Controls' = Controls /\ Action' = Action
    BY <1>5 DEF WaitForeground, Goto, clipboard, target, Controls, Action
  <2> QED BY <2>1 DEF Shape, Positions, Past, Writing, Moving, Selecting, Pasting, Typing, Before
<1>6. CASE EnterClipboard
  <2>1. /\ pc = "enter" /\ pc' = "field" /\ outcome' = outcome
        /\ UNCHANGED <<plan, final, before, form, copies, stage, tabs, attempt, sent, field>>
        /\ Controls' = Controls
    BY <1>6 DEF EnterClipboard, Goto, Stays, target, Controls
  <2> QED BY <2>1 DEF Shape, Positions, Past, Writing, Moving, Selecting, Pasting, Typing, Before
<1>7. CASE Exit
  <2>1. /\ pc = "exit" /\ pc' = "done" /\ outcome' = outcome
        /\ UNCHANGED <<plan, final, before, form, copies, stage, tabs, attempt, sent, field>>
        /\ Controls' = Controls
    BY <1>7 DEF Exit, Stays, target, Controls
  <2> QED BY <2>1 DEF Shape, Positions, Past, Writing, Moving, Selecting, Pasting, Typing, Before
<1>8. CASE BeginField
  <2>1. /\ pc = "field" /\ UNCHANGED <<plan, final, before, form, copies, attempt, sent, field>>
        /\ Controls' = Controls /\ Action' = Action
        /\ \/ pc' = "exit" /\ UNCHANGED <<stage, tabs>>
           \/ /\ ~(field > Len(plan)) /\ outcome' = outcome
              /\ stage' = "before" /\ tabs' = Action.tabs_before
              /\ pc' \in {"moveCheck", "resolve"}
              /\ pc' = "moveCheck" => Action.tabs_before > 0
    BY <1>8 DEF BeginField, Goto, clipboard, target, Controls, Action
  <2>2. CASE pc' = "exit" /\ UNCHANGED <<stage, tabs>>
    BY <2>1, <2>2 DEF Shape, Positions, Past, Writing, Moving, Selecting, Pasting, Typing, Before
  <2>3. CASE pc' # "exit"
    <3>1. field \in DOMAIN plan
      BY <2>1, <2>3, Lengths DEF Shape
    <3>2. Action.tabs_before \in 0..1
      BY <3>1, Actions DEF Action
    <3> QED
      BY <2>1, <2>3, <3>1, <3>2 DEF Shape, Positions, Past, Writing, Moving, Selecting, Pasting, Typing, Before
  <2> QED BY <2>1, <2>2, <2>3
<1>9. CASE ResolveField
  <2>1. /\ pc = "resolve" /\ UNCHANGED <<plan, final, before, form, copies, tabs, field>>
        /\ Controls' = Controls /\ Action' = Action /\ attempt' = 0 /\ sent' = 0
        /\ \/ pc' = "exit" /\ outcome' # "completed" /\ stage' = stage
           \/ pc' = "moveCheck" /\ stage' = "after" /\ outcome' = outcome
           \/ pc' = "pasteCheck" /\ stage' = stage /\ outcome' = outcome
    BY <1>9 DEF ResolveField, Goto, clipboard, target, Controls, Action
  <2> QED BY <2>1 DEF Shape, Positions, Past, Writing, Moving, Selecting, Pasting, Typing, Before
<1>10. CASE Select
  <2>1. /\ pc = "select" /\ pc' \in {"selectKey", "setText"} /\ outcome' = outcome
        /\ UNCHANGED <<plan, final, before, form, copies, stage, tabs, attempt, sent, field>>
        /\ Controls' = Controls
    BY <1>10 DEF Select, Goto, Stays, target, clipboard, Controls
  <2> QED BY <2>1 DEF Shape, Positions, Past, Writing, Moving, Selecting, Pasting, Typing, Before
<1>11. CASE SetText
  <2>1. /\ pc = "setText" /\ pc' \in {"copySleep", "type"} /\ outcome' = outcome
        /\ UNCHANGED <<plan, final, before, form, copies, stage, tabs, attempt, sent, field>>
        /\ Controls' = Controls
    BY <1>11 DEF SetText, Goto, Stays, target, Controls
  <2> QED BY <2>1 DEF Shape, Positions, Past, Writing, Moving, Selecting, Pasting, Typing, Before
<1>12. CASE TypeNext
  <2>1. /\ pc = "type" /\ pc' \in {"typedSleep", "exit", "typeCheck"}
        /\ outcome' \in {outcome, "validation_failed"}
        /\ UNCHANGED <<plan, final, before, form, copies, stage, tabs, attempt, sent, field>>
        /\ Controls' = Controls
    BY <1>12 DEF TypeNext, Goto, Stays, target, clipboard, Controls
  <2> QED BY <2>1 DEF Shape, Positions, Past, Writing, Moving, Selecting, Pasting, Typing, Before
<1>13. CASE Verify
  <2>1. /\ pc = "verify" /\ UNCHANGED <<plan, final, before, form, copies, tabs, field>>
        /\ Controls' = Controls
        /\ \/ pc' = "moveCheck" /\ stage' = "after" /\ outcome' = outcome /\ UNCHANGED <<attempt, sent>>
           \/ /\ attempt' = attempt + 1 /\ sent' = 0 /\ stage' = stage
              /\ pc' \in {"pasteCheck", "exit"} /\ outcome' \in {outcome, "validation_failed"}
    BY <1>13 DEF Verify, Goto, clipboard, target, Controls
  <2> QED BY <2>1 DEF Shape, Positions, Past, Writing, Moving, Selecting, Pasting, Typing, Before
<1>14. CASE MoveNothing
  <2>1. /\ pc = "moveKey" /\ pc' = "moved" /\ outcome' = outcome
        /\ UNCHANGED <<plan, final, before, form, copies, stage, tabs, attempt, sent, field>>
        /\ Controls' = Controls /\ Action' = Action
    <3>1. At("key") /\ Key(pc) = <<"none">> /\ Goto("moved") /\ Stays /\ UNCHANGED <<target, clipboard>>
      BY <1>14 DEF MoveNothing
    <3>2. pc \in {"moveKey", "selectKey", "eraseKey", "pasteKey", "typeKey"}
      BY <3>1, SendGoes
    <3>3. pc = "moveKey"
      BY <3>1, <3>2, KeysAreSomething DEF Key
    <3> QED BY <3>1, <3>3 DEF Goto, Stays, target, clipboard, Controls, Action
  <2> QED BY <2>1 DEF Shape, Positions, Past, Writing, Moving, Selecting, Pasting, Typing, Before
<1>15. CASE Moved
  <2>1. /\ pc = "moved" /\ outcome' = outcome
        /\ UNCHANGED <<plan, final, before, form, copies, stage, attempt, sent, field>>
        /\ Controls' = Controls /\ Action' = Action
        /\ IF stage = "after" THEN pc' = "rest" /\ tabs' = tabs
           ELSE tabs' = tabs - 1 /\ pc' = IF tabs > 1 THEN "moveCheck" ELSE "resolve"
    BY <1>15 DEF Moved, Goto, clipboard, target, Controls, Action
  <2>2. field \in DOMAIN plan /\ (stage = "before" => 1 <= tabs /\ tabs <= Action.tabs_before)
        /\ Action.tabs_before \in 0..1
    BY <2>1, Actions DEF Shape, Moving, Action
  <2> QED BY <2>1, <2>2 DEF Shape, Positions, Past, Writing, Moving, Selecting, Pasting, Typing, Before
<1>16. CASE NextField
  <2>1. /\ pc = "next" /\ pc' = "field" /\ outcome' = outcome /\ field' = field + 1
        /\ UNCHANGED <<plan, final, before, form, copies, stage, tabs, attempt, sent>>
        /\ Controls' = Controls
    BY <1>16 DEF NextField, Goto, clipboard, target, Controls
  <2> QED BY <2>1 DEF Shape, Positions, Past, Writing, Moving, Selecting, Pasting, Typing, Before
<1>17. CASE TargetHandles
  <2>1. /\ UNCHANGED <<writer, before, copies>> /\ DOMAIN form' = DOMAIN form
        /\ Controls' = Controls /\ Action' = Action
    BY <1>17 DEF TargetHandles, writer, clipboard, Controls, Action
  <2> QED BY <2>1 DEF Shape, writer
<1>18. CASE UserLeaves \/ UserReturns \/ UserCloses \/ UserCancels \/ OtherCopies \/ OtherLocks
  <2>1. UNCHANGED <<writer, before, form>> /\ copies' \in {copies, copies + 1}
        /\ Controls' = Controls /\ Action' = Action
    BY <1>18 DEF UserLeaves, UserReturns, UserCloses, UserCancels, OtherCopies, OtherLocks, writer,
                 clipboard, target, Controls, Action
  <2> QED BY <2>1 DEF Shape, writer
<1>19. CASE UNCHANGED vars
  <2>1. UNCHANGED <<writer, before, form, copies>> /\ Controls' = Controls /\ Action' = Action
    BY <1>19 DEF vars, writer, clipboard, target, Controls, Action
  <2> QED BY <2>1 DEF Shape, writer
<1> QED
  BY <1>1, <1>2, <1>3, <1>4, <1>5, <1>6, <1>7, <1>8, <1>9, <1>10, <1>11, <1>12, <1>13, <1>14,
     <1>15, <1>16, <1>17, <1>18, <1>19 DEF WriterNext, WriterStep, Surroundings

(* Typing goes on character by character and stops at the end of the value. *)
LEMMA ProgressStep == Shape /\ Progress /\ [WriterNext]_vars => Progress'
<1> SUFFICES ASSUME Shape, Progress, [WriterNext]_vars PROVE Progress'
  OBVIOUS
<1>0. /\ field \in Nat /\ sent \in Nat /\ Len(Value(field)) \in Nat
  BY Lengths, Values DEF Shape
<1> DEFINE Elsewhere(p) == p \notin Selecting \cup Pasting \cup Typing
<1>1. ASSUME Elsewhere(pc') PROVE Progress'
  BY <1>1 DEF Progress, Selecting, Pasting, Typing
<1>2. ASSUME UNCHANGED <<plan, field>> PROVE Value(field)' = Value(field)
  BY <1>2 DEF Value, Own
<1>3. CASE Check
  <2>1. UNCHANGED <<plan, field, sent>>
    BY <1>3 DEF Check, Stays
  <2>2. \/ <<pc, pc'>> \in CheckRows \/ pc' = "exit"
        \/ pc \in {"copyCheck", "pastedCheck"} /\ pc' = "type"
    BY <1>3, CheckGoes DEF Leaves, Falls
  <2> QED BY <1>0, <1>2, <2>1, <2>2 DEF Progress, CheckRows, Selecting, Pasting, Typing
<1>4. CASE Sleep
  <2>1. UNCHANGED <<plan, field, sent>>
    BY <1>4 DEF Sleep, Stays
  <2>2. \/ <<pc, pc'>> \in SleepRows \/ pc' = "exit"
        \/ pc \in {"copySleep", "pasteSleep"} /\ pc' = "type"
    BY <1>4, SleepGoes DEF Leaves, Falls
  <2> QED BY <1>0, <1>2, <2>1, <2>2 DEF Progress, SleepRows, Selecting, Pasting, Typing
<1>5. CASE Send
  <2>1. /\ UNCHANGED <<plan, field>> /\ <<pc, pc'>> \in KeyRows
        /\ sent' = IF pc = "typeKey" THEN sent + 1 ELSE sent
    BY <1>5, SendGoes DEF Send
  <2> QED BY <1>0, <1>2, <2>1 DEF Progress, KeyRows, Selecting, Pasting, Typing
<1>6. CASE SendRaises
  <2>1. UNCHANGED <<plan, field, sent>> /\ (pc' = "exit" \/ (pc = "pasteKey" /\ pc' = "type"))
    BY <1>6, SendGoes DEF SendRaises, Stays, Leaves, Falls
  <2> QED BY <1>0, <1>2, <2>1 DEF Progress, Selecting, Pasting, Typing
<1>7. CASE WaitForeground
  BY <1>1, <1>7 DEF WaitForeground, Goto, Selecting, Pasting, Typing
<1>8. CASE EnterClipboard \/ Exit \/ BeginField \/ MoveNothing \/ Moved \/ NextField
  BY <1>1, <1>8 DEF EnterClipboard, Exit, BeginField, MoveNothing, Moved, NextField, Goto,
                    Selecting, Pasting, Typing
<1>9. CASE ResolveField
  <2>1. sent' = 0 /\ pc' \in {"exit", "moveCheck", "pasteCheck"}
    BY <1>9 DEF ResolveField, Goto
  <2> QED BY <2>1 DEF Progress, Selecting, Pasting, Typing
<1>10. CASE Select \/ SetText
  <2>1. pc \in Selecting \cup Pasting /\ pc' \in {"selectKey", "setText", "copySleep", "type"}
        /\ UNCHANGED <<plan, field, sent>>
    BY <1>10 DEF Select, SetText, Goto, Stays, Selecting, Pasting
  <2> QED BY <1>0, <1>2, <2>1 DEF Progress, Selecting, Pasting, Typing
<1>11. CASE TypeNext
  <2>1. /\ pc = "type" /\ UNCHANGED <<plan, field, sent>>
        /\ \/ pc' = "typedSleep" /\ sent = Len(Value(field))
           \/ pc' = "exit"
           \/ pc' = "typeCheck" /\ sent # Len(Value(field))
    BY <1>11 DEF TypeNext, Goto, Stays
  <2> QED BY <1>0, <1>2, <2>1 DEF Progress, Selecting, Pasting, Typing
<1>12. CASE Verify
  <2>1. pc' \in {"exit", "moveCheck"} \/ (pc' = "pasteCheck" /\ sent' = 0)
    BY <1>12 DEF Verify, Goto
  <2> QED BY <2>1 DEF Progress, Selecting, Pasting, Typing
<1>13. CASE UNCHANGED writer
  BY <1>2, <1>13 DEF writer, Progress
<1>14. CASE TargetHandles \/ UserLeaves \/ UserReturns \/ UserCloses \/ UserCancels
              \/ OtherCopies \/ OtherLocks \/ UNCHANGED vars
  BY <1>13, <1>14 DEF TargetHandles, UserLeaves, UserReturns, UserCloses, UserCancels, OtherCopies,
                      OtherLocks, vars
<1> QED
  BY <1>3, <1>4, <1>5, <1>6, <1>7, <1>8, <1>9, <1>10, <1>11, <1>12, <1>14
     DEF WriterNext, WriterStep, Surroundings

(* Outside the pauses after a key the target has handled every key.         *)
LEMMA NothingWaits ==
    ASSUME Inbox, pc \notin {"moveSleep", "selectSleep", "eraseSleep", "pasteSleep", "typeSleep"}
    PROVE  Handled
  BY DEF Inbox

(* At most one key waits, if the target handles a key before the pause ends. *)
LEMMA InboxStep ==
    ASSUME PromptTarget, Shape, Progress, Inbox, [WriterNext]_vars
    PROVE  Inbox'
<1>0. Handled' => Inbox'
  BY DEF Inbox
<1>1. CASE Sleep
  <2>1. inbox' = <<>>
    BY <1>1 DEF Sleep, target
  <2> QED BY <1>0, <2>1 DEF Handled
<1>2. CASE Send
  <2>1. /\ <<pc, pc'>> \in KeyRows /\ UNCHANGED <<plan, final, field, stage>>
        /\ inbox' \in {inbox, Append(inbox, Key(pc))}
        /\ sent' = IF pc = "typeKey" THEN sent + 1 ELSE sent
    BY <1>2, SendGoes DEF Send
  <2>2. inbox = <<>>
    BY <2>1, NothingWaits DEF KeyRows, Handled
  <2>3. MoveKind' = MoveKind /\ Value(field)' = Value(field) /\ sent \in Nat
    BY <2>1 DEF MoveKind, Value, Own, Shape
  <2>4. CASE inbox' = <<>>
    BY <1>0, <2>4 DEF Handled
  <2>5. CASE inbox' = <<Key(pc)>>
    <3>1. CASE pc = "moveKey"
      BY <2>1, <2>3, <2>5, <3>1 DEF Inbox, Key, KeyRows
    <3>2. CASE pc = "selectKey"
      BY <2>1, <2>5, <3>2 DEF Inbox, Key, KeyRows
    <3>3. CASE pc = "eraseKey"
      BY <2>1, <2>5, <3>3 DEF Inbox, Key, KeyRows
    <3>4. CASE pc = "pasteKey"
      BY <2>1, <2>5, <3>4 DEF Inbox, Key, KeyRows
    <3>5. CASE pc = "typeKey"
      <4>1. Key(pc) = Value(field)[sent']
        BY <2>1, <3>5 DEF Key
      <4>2. pc' = "typeSleep" /\ sent' > 0
        BY <2>1, <2>3, <3>5 DEF KeyRows
      <4> QED BY <2>3, <2>5, <4>1, <4>2 DEF Inbox
    <3> QED BY <2>1, <3>1, <3>2, <3>3, <3>4, <3>5 DEF KeyRows
  <2> QED BY <2>1, <2>2, <2>4, <2>5
<1>3. CASE UNCHANGED inbox /\ pc \notin {"moveSleep", "selectSleep", "eraseSleep", "pasteSleep", "typeSleep"}
  BY <1>0, <1>3, NothingWaits DEF Handled
<1>4. CASE Check \/ SendRaises
  <2>1. pc \notin {"moveSleep", "selectSleep", "eraseSleep", "pasteSleep", "typeSleep"}
    BY <1>4, CheckGoes, SendGoes DEF CheckRows, SendRaises
  <2> QED BY <1>3, <1>4, <2>1 DEF Check, SendRaises, target
<1>5. CASE WaitForeground \/ EnterClipboard \/ Exit \/ BeginField \/ ResolveField
  BY <1>3, <1>5 DEF WaitForeground, EnterClipboard, Exit, BeginField, ResolveField, target
<1>6. CASE Select \/ SetText \/ TypeNext \/ Verify \/ Moved \/ NextField
  BY <1>3, <1>6 DEF Select, SetText, TypeNext, Verify, Moved, NextField, target
<1>7. CASE MoveNothing
  BY <1>3, <1>7, SendGoes DEF MoveNothing, target
<1>8. CASE UNCHANGED <<writer, inbox>>
  BY <1>8 DEF writer, Inbox, Handled, MoveKind, Value, Own
<1>9. CASE TargetHandles
  <2>1. inbox' = Tail(inbox) /\ inbox # <<>>
    BY <1>9 DEF TargetHandles
  <2>2. \E k : inbox = <<k>>
    BY <2>1 DEF Inbox, Handled
  <2>3. inbox' = <<>>
    BY <2>1, <2>2
  <2> QED BY <1>0, <2>3 DEF Handled
<1>10. CASE UserCloses
  BY <1>0, <1>10 DEF UserCloses, Handled
<1>11. CASE UserLeaves \/ UserReturns \/ UserCancels \/ OtherCopies \/ OtherLocks \/ UNCHANGED vars
  BY <1>8, <1>11 DEF UserLeaves, UserReturns, UserCancels, OtherCopies, OtherLocks, vars, target
<1> QED
  BY <1>1, <1>2, <1>4, <1>5, <1>6, <1>7, <1>9, <1>10, <1>11
     DEF WriterNext, WriterStep, Surroundings
--------------------------------------------------------------------------------
\* The content of the control of the field in hand, and what it has to be.
Text == form[Place(field)]
Base == IF Replace THEN <<>> ELSE before
Typed(n) == Base \o SubSeq(Value(field), 1, n)
Entered == Text = Base \o Value(field) \/ copies > 0

\* A key of the navigation has been handled.
Tabbed == pc = "moved" \/ (pc = "moveSleep" /\ Handled)

CursorAt ==
    /\ pc \in Before => field = 1 /\ cursor = <<1, 0>>
    /\ pc = "field" /\ field \in DOMAIN plan => cursor = <<field, 0>>
    /\ pc \in Moving /\ stage = "before" =>
          cursor = <<field, Action.tabs_before - tabs + (IF Tabbed THEN 1 ELSE 0)>>
    /\ pc \in Writing \cup {"resolve"} => cursor = Place(field)
    /\ pc \in Moving \cup Past /\ stage = "after" /\ field # Len(plan) =>
          cursor = IF Tabbed \/ pc \in Past THEN <<field + 1, 0>> ELSE Place(field)

OtherControls ==
    /\ \A f \in DOMAIN plan : f < field => Right(f)
    /\ \A f \in DOMAIN plan : f > field => form[Place(f)] = before
    /\ \A c \in Controls : c # Place(c[1]) => form[c] = before

\* Between Ctrl+A and the key after it the content is selected.
SelectedAt ==
    pc \notin {"exit", "done"} =>
        (selected <=> (\/ pc \in {"eraseCheck", "eraseKey"}
                       \/ (pc = "selectSleep" /\ Handled)
                       \/ (pc = "eraseSleep" /\ ~Handled)))

FieldInHand ==
    pc \in Writing =>
        /\ probe <=> readable
        /\ attempt > 0 => Action.validation /\ probe
        /\ Mode(Action) \notin {"preserve", "cancel"}
        /\ pc \in Selecting \ {"pasteCheck", "select"} => Replace

ClipAt ==
    pc \in {"copySleep", "copyCheck", "pasteKey", "pasteSleep"} =>
        clip = Value(field) \/ copies > 0

TextAt ==
    field \in DOMAIN plan =>
        /\ pc \in Before \cup {"field", "resolve"} \/ (pc \in Moving /\ stage = "before") =>
               Text = before
        /\ pc \in Selecting /\ ~Replace => Text = before
        /\ pc = "eraseSleep" /\ Handled => Text = <<>>
        /\ pc \in {"setText", "copySleep", "copyCheck", "pasteKey"}
              \/ (pc = "pasteSleep" /\ ~Handled) => Text = Base
        /\ (pc = "pasteSleep" /\ Handled) \/ pc \in {"pastedCheck", "typedCheck", "verify"} => Entered
        /\ (pc \in {"type", "typedSleep"} /\ ~cancel) \/ pc \in {"typeCheck", "typeKey"} =>
               Text = Typed(sent)
        /\ pc = "typeSleep" => Text = Typed(IF Handled THEN sent ELSE sent - 1)
        /\ pc \in Moving \cup Past /\ stage = "after" => Right(field)

OnTrack == CursorAt /\ OtherControls /\ SelectedAt /\ FieldInHand /\ ClipAt /\ TextAt

(* What has been typed grows by the character that was sent.                *)
LEMMA TypedParts ==
    ASSUME Shape
    PROVE  /\ Base \in Seq(Letters) /\ Typed(0) = Base
           /\ Typed(Len(Value(field))) = Base \o Value(field)
           /\ \A n \in Nat : n < Len(Value(field)) =>
                 Typed(n) \o <<Value(field)[n + 1]>> = Typed(n + 1)
<1>1. Base \in Seq(Letters)
  <2>1. <<>> \in Seq(Letters) /\ Old \in Seq(Letters)
    BY DEF Old, Letters
  <2> QED BY <2>1 DEF Base, Shape
<1> DEFINE v == Value(field)
<1>2. v \in Seq(Letters) /\ Len(v) \in Nat
  BY Lengths, Values
<1> HIDE DEF v
<1>3. SubSeq(v, 1, 0) = <<>> /\ SubSeq(v, 1, Len(v)) = v /\ Base \o <<>> = Base
  BY <1>1, <1>2, SubSeqEmpty, SubSeqFull, ConcatEmptySeq
<1>4. ASSUME NEW n \in Nat, n < Len(v)
      PROVE  (Base \o SubSeq(v, 1, n)) \o <<v[n + 1]>> = Base \o SubSeq(v, 1, n + 1)
  <2>1. n + 1 \in 1..Len(v) /\ v[n + 1] \in Letters
    BY <1>2, <1>4
  <2>2. SubSeq(v, 1, n + 1) = SubSeq(v, 1, (n + 1) - 1) \o <<v[n + 1]>>
    BY <1>2, <2>1, SubSeqRecursiveSecond
  <2>3. SubSeq(v, 1, n) \in Seq(Letters) /\ <<v[n + 1]>> \in Seq(Letters)
    <3>1. \A i \in 1..n : v[i] \in Letters
      BY <1>2, <1>4
    <3> QED BY <2>1, <3>1, SubSeqProperties
  <2>4. SubSeq(v, 1, n + 1) = SubSeq(v, 1, n) \o <<v[n + 1]>>
    BY <2>2
  <2> DEFINE w == SubSeq(v, 1, n)
             x == <<v[n + 1]>>
  <2> HIDE DEF w, x
  <2>5. (Base \o w) \o x = Base \o (w \o x)
    <3>1. w \in Seq(Letters) /\ x \in Seq(Letters)
      BY <2>3 DEF w, x
    <3> QED BY <1>1, <3>1, ConcatAssociative
  <2> QED BY <2>4, <2>5 DEF w, x
<1> QED BY <1>1, <1>3, <1>4 DEF Typed, v

(* While the form stays as it is, so does all that is said of it.           *)
LEMMA Kept ==
    ASSUME UNCHANGED <<plan, before, readable, form>>, copies > 0 => copies' > 0
    PROVE  /\ Controls' = Controls
           /\ \A f : Place(f)' = Place(f) /\ (Right(f) => Right(f)')
           /\ UNCHANGED field => /\ OtherControls => OtherControls'
                                 /\ Action' = Action /\ Value(field)' = Value(field) /\ Text' = Text
           /\ UNCHANGED <<field, attempt>> => /\ Replace' = Replace /\ Base' = Base
                                              /\ \A n : Typed(n)' = Typed(n)
                                              /\ Entered => Entered'
<1>1. Controls' = Controls /\ \A f : Place(f)' = Place(f)
  BY DEF Controls, Place
<1>2. \A f : Right(f) => Right(f)'
  BY DEF Right, Expected, Value, Own, Place
<1>3. ASSUME UNCHANGED field
      PROVE  /\ OtherControls => OtherControls'
             /\ Action' = Action /\ Value(field)' = Value(field) /\ Text' = Text
  BY <1>1, <1>2, <1>3 DEF OtherControls, Action, Value, Own, Text
<1>4. ASSUME UNCHANGED <<field, attempt>>
      PROVE  Replace' = Replace /\ Base' = Base /\ (\A n : Typed(n)' = Typed(n)) /\ (Entered => Entered')
  <2>1. Replace' = Replace /\ Value(field)' = Value(field) /\ Text' = Text
    BY <1>3, <1>4 DEF Replace, Action
  <2>2. Base' = Base
    BY <2>1 DEF Base
  <2> QED BY <2>1, <2>2 DEF Typed, Entered
<1> QED BY <1>1, <1>2, <1>3, <1>4

(* The steps of the writer that go on in the straight-line code, or leave   *)
(* it, stay on the track.                                                   *)
LEMMA WalksOnTrack ==
    ASSUME Shape, Progress, Inbox, OnTrack, Walks, UNCHANGED <<clip, copies, cancel>>,
           \/ <<pc, pc'>> \in CheckRows
           \/ <<pc, pc'>> \in SleepRows /\ Handled /\ ~cancel
           \/ pc' = "exit"
           \/ pc \in {"copySleep", "pasteSleep"} /\ pc' = "type" /\ cancel
           \/ pc = "pasteKey" /\ pc' = "type"
           \/ pc = "select" /\ pc' = "selectKey" /\ Replace
           \/ pc = "select" /\ pc' = "setText" /\ ~Replace
           \/ pc = "type" /\ pc' = "typedSleep"
           \/ pc = "type" /\ pc' = "typeCheck" /\ ~cancel
           \/ pc = "moveKey" /\ pc' = "moved" /\ stage = "after" /\ field = Len(plan)
           \/ pc = "enter" /\ pc' = "field"
    PROVE  OnTrack'
<1>0. /\ UNCHANGED <<plan, field, stage, tabs, attempt, sent, probe, before, readable, form, cursor, selected, inbox>>
      /\ Place(field)' = Place(field) /\ Action' = Action /\ Value(field)' = Value(field)
      /\ Text' = Text /\ Replace' = Replace /\ Base' = Base /\ Handled' = Handled
      /\ \A n : Typed(n)' = Typed(n)
      /\ Entered => Entered'
      /\ OtherControls' /\ (Right(field) => Right(field)')
  BY Kept DEF Walks, Stays, target, OnTrack, Handled
<1>1. CASE <<pc, pc'>> \in CheckRows
  <2>1. CursorAt'
    BY <1>0, <1>1 DEF OnTrack, CursorAt, CheckRows, Moving, Past, Writing, Selecting, Pasting, Typing, Before, Tabbed
  <2>2. SelectedAt' /\ FieldInHand' /\ ClipAt'
    BY <1>0, <1>1, NothingWaits DEF OnTrack, SelectedAt, FieldInHand, ClipAt, CheckRows, Writing, Selecting, Pasting, Typing
  <2>3. TextAt'
    BY <1>0, <1>1 DEF OnTrack, TextAt, CheckRows, Moving, Past, Selecting, Before
  <2> QED BY <1>0, <2>1, <2>2, <2>3 DEF OnTrack
<1>2. CASE <<pc, pc'>> \in SleepRows /\ Handled /\ ~cancel
  <2>1. CursorAt'
    BY <1>0, <1>2 DEF OnTrack, CursorAt, SleepRows, Moving, Past, Writing, Selecting, Pasting, Typing, Before, Tabbed
  <2>2. SelectedAt' /\ FieldInHand' /\ ClipAt'
    BY <1>0, <1>2 DEF OnTrack, SelectedAt, FieldInHand, ClipAt, SleepRows, Writing, Selecting, Pasting, Typing
  <2>3. TextAt'
    <3>1. pc = "eraseSleep" => Base = <<>>
      BY DEF OnTrack, FieldInHand, Base, Writing, Selecting
    <3>2. pc = "typedSleep" => Typed(sent) = Base \o Value(field)
      BY TypedParts DEF Progress
    <3> QED
      BY <1>0, <1>2, <3>1, <3>2 DEF OnTrack, TextAt, Entered, SleepRows, Moving, Past, Selecting, Before
  <2> QED BY <1>0, <2>1, <2>2, <2>3 DEF OnTrack
<1>3. CASE pc' = "exit"
  BY <1>0, <1>3 DEF OnTrack, CursorAt, SelectedAt, FieldInHand, ClipAt, TextAt, Moving, Past, Writing,
                    Selecting, Pasting, Typing, Before
<1>4. CASE pc \in {"copySleep", "pasteSleep"} /\ pc' = "type" /\ cancel
  BY <1>0, <1>4 DEF OnTrack, CursorAt, SelectedAt, FieldInHand, ClipAt, TextAt, Moving, Past, Writing,
                    Selecting, Pasting, Typing, Before
<1>5. CASE pc = "pasteKey" /\ pc' = "type"
  <2>1. Typed(sent) = Base
    BY <1>5, TypedParts DEF Progress, Pasting
  <2>2. CursorAt' /\ SelectedAt' /\ FieldInHand' /\ ClipAt'
    BY <1>0, <1>5 DEF OnTrack, CursorAt, SelectedAt, FieldInHand, ClipAt, Moving, Past, Writing,
                      Selecting, Pasting, Typing, Before
  <2>3. TextAt'
    BY <1>0, <1>5, <2>1 DEF OnTrack, TextAt, Moving, Past, Selecting, Before
  <2> QED BY <1>0, <2>2, <2>3 DEF OnTrack
<1>6. CASE pc = "select" /\ pc' \in {"selectKey", "setText"} /\ (pc' = "selectKey" <=> Replace)
  <2>1. ~Replace => Base = before
    BY DEF Base
  <2>2. CursorAt' /\ SelectedAt' /\ FieldInHand' /\ ClipAt'
    BY <1>0, <1>6 DEF OnTrack, CursorAt, SelectedAt, FieldInHand, ClipAt, Moving, Past, Writing,
                      Selecting, Pasting, Typing, Before
  <2>3. TextAt'
    BY <1>0, <1>6, <2>1 DEF OnTrack, TextAt, Moving, Past, Selecting, Before
  <2> QED BY <1>0, <2>2, <2>3 DEF OnTrack
<1>7. CASE pc = "type" /\ (pc' = "typedSleep" \/ (pc' = "typeCheck" /\ ~cancel))
  <2>1. CursorAt' /\ SelectedAt' /\ FieldInHand' /\ ClipAt'
    BY <1>0, <1>7 DEF OnTrack, CursorAt, SelectedAt, FieldInHand, ClipAt, Moving, Past, Writing,
                      Selecting, Pasting, Typing, Before
  <2>2. TextAt'
    BY <1>0, <1>7 DEF OnTrack, TextAt, Moving, Past, Selecting, Before
  <2> QED BY <1>0, <2>1, <2>2 DEF OnTrack
<1>8. CASE pc = "moveKey" /\ pc' = "moved" /\ stage = "after" /\ field = Len(plan)
  BY <1>0, <1>8 DEF OnTrack, CursorAt, SelectedAt, FieldInHand, ClipAt, TextAt, Moving, Past, Writing,
                    Selecting, Pasting, Typing, Before
<1>9. CASE pc = "enter" /\ pc' = "field"
  BY <1>0, <1>9 DEF OnTrack, CursorAt, SelectedAt, FieldInHand, ClipAt, TextAt, Moving, Past, Writing,
                    Selecting, Pasting, Typing, Before
<1> QED BY <1>1, <1>2, <1>3, <1>4, <1>5, <1>6, <1>7, <1>8, <1>9

\* The target is in front, or the writer still waits for it.
Tracked == TargetValid \/ pc \in {"gap", "focus"}

(* A key is sent: it waits in the target and nothing else has changed.      *)
LEMMA SendOnTrack ==
    ASSUME Shape, Progress, Inbox, OnTrack, TargetValid, Send
    PROVE  OnTrack'
<1>1. /\ <<pc, pc'>> \in KeyRows /\ inbox' = Append(inbox, Key(pc)) /\ inbox = <<>>
      /\ sent' = IF pc = "typeKey" THEN sent + 1 ELSE sent
      /\ UNCHANGED <<plan, field, stage, tabs, attempt, probe, before, readable, form, cursor, selected,
                     clip, copies, cancel>>
  <2>1. <<pc, pc'>> \in KeyRows
    BY SendGoes
  <2>2. inbox = <<>>
    BY <2>1, NothingWaits DEF KeyRows, Handled
  <2> QED BY <2>1, <2>2 DEF Send, TargetValid, clipboard, user
<1>2. Handled /\ ~Handled'
  BY <1>1 DEF Handled
<1>3. /\ Place(field)' = Place(field) /\ Action' = Action /\ Value(field)' = Value(field)
      /\ Text' = Text /\ Replace' = Replace /\ Base' = Base
      /\ \A n : Typed(n)' = Typed(n)
      /\ OtherControls' /\ (Right(field) => Right(field)')
  BY <1>1, Kept DEF OnTrack
<1>4. CursorAt'
  BY <1>1, <1>2, <1>3 DEF OnTrack, CursorAt, KeyRows, Moving, Past, Writing, Selecting, Pasting, Typing, Before, Tabbed
<1>5. SelectedAt' /\ FieldInHand' /\ ClipAt'
  BY <1>1, <1>2, <1>3 DEF OnTrack, SelectedAt, FieldInHand, ClipAt, KeyRows, Writing, Selecting, Pasting, Typing
<1>6. TextAt'
  <2>1. sent \in Nat
    BY DEF Shape
  <2>2. (sent + 1) - 1 = sent
    BY <2>1
  <2> QED BY <1>1, <1>2, <1>3, <2>2 DEF OnTrack, TextAt, KeyRows, Moving, Past, Selecting, Before
<1> QED BY <1>3, <1>4, <1>5, <1>6 DEF OnTrack

(* The loop over the fields, and what is decided for a field.               *)
LEMMA FieldsOnTrack ==
    ASSUME Shape, Progress, Inbox, OnTrack, TargetValid,
           BeginField \/ ResolveField \/ SetText \/ Moved \/ NextField
    PROVE  OnTrack'
<1>1. /\ UNCHANGED <<plan, before, readable, form, cursor, selected, inbox, copies, cancel>>
      /\ Handled /\ Handled'
  <2>1. UNCHANGED <<plan, target, copies, user>>
    BY DEF BeginField, ResolveField, SetText, Moved, NextField, clipboard, Stays
  <2>2. Handled
    BY NothingWaits DEF BeginField, ResolveField, SetText, Moved, NextField
  <2> QED BY <2>1, <2>2 DEF target, user, Handled
<1>2. CASE BeginField
  <2>1. UNCHANGED field /\ pc = "field"
    BY <1>2 DEF BeginField
  <2>2. OtherControls' /\ Action' = Action /\ Place(field)' = Place(field) /\ Text' = Text
    BY <1>1, <2>1, Kept DEF OnTrack
  <2>3. CASE pc' = "exit"
    BY <1>1, <2>1, <2>2, <2>3 DEF OnTrack, CursorAt, SelectedAt, FieldInHand, ClipAt, TextAt, Moving, Past,
                          Writing, Selecting, Pasting, Typing, Before
  <2>4. CASE pc' # "exit"
    <3>1. /\ ~(field > Len(plan)) /\ stage' = "before" /\ tabs' = Action.tabs_before
          /\ pc' = IF Action.tabs_before > 0 THEN "moveCheck" ELSE "resolve"
      BY <1>2, <2>4 DEF BeginField, Goto
    <3>2. field \in DOMAIN plan
      BY <2>1, <3>1, Lengths DEF Shape
    <3>3. Action.tabs_before \in 0..1 /\ cursor = <<field, 0>> /\ Text = before
      BY <2>1, <3>2, Actions DEF Action, OnTrack, CursorAt, TextAt
    <3>4. Action.tabs_before - Action.tabs_before + 0 = 0 /\ (pc' = "resolve" => Action.tabs_before = 0)
      BY <3>1, <3>3
    <3>5. CursorAt'
      BY <1>1, <2>1, <2>2, <3>1, <3>3, <3>4 DEF CursorAt, Place, Action, Tabbed, Moving, Past, Writing, Selecting, Pasting,
                          Typing, Before
    <3>6. SelectedAt' /\ FieldInHand' /\ ClipAt'
      BY <1>1, <2>1, <3>1 DEF OnTrack, SelectedAt, FieldInHand, ClipAt, Writing, Selecting, Pasting, Typing
    <3>7. TextAt'
      BY <1>1, <2>1, <2>2, <3>1, <3>3 DEF TextAt, Moving, Past, Selecting, Before
    <3> QED BY <2>2, <3>5, <3>6, <3>7 DEF OnTrack
  <2> QED BY <2>3, <2>4
<1>3. CASE ResolveField
  <2>1. UNCHANGED <<field, tabs>> /\ pc = "resolve" /\ attempt' = 0 /\ probe' = Probe /\ stage = "before"
    BY <1>3 DEF ResolveField, Shape
  <2>2. OtherControls' /\ Action' = Action /\ Place(field)' = Place(field) /\ Text' = Text
    BY <1>1, <2>1, Kept DEF OnTrack
  <2>3. field \in DOMAIN plan /\ Text = before /\ cursor = Place(field)
    BY <2>1 DEF Shape, OnTrack, TextAt, CursorAt
  <2>4. CASE pc' = "exit"
    BY <1>1, <2>1, <2>2, <2>4 DEF OnTrack, CursorAt, SelectedAt, FieldInHand, ClipAt, TextAt, Moving, Past,
                          Writing, Selecting, Pasting, Typing, Before
  <2>5. CASE Mode(Action) = "preserve" /\ pc' = "moveCheck" /\ stage' = "after"
    <3>1. Right(field)'
      BY <1>1, <2>1, <2>2, <2>3, <2>5 DEF Right, Text, Action, Mode
    <3>2. CursorAt' /\ SelectedAt' /\ FieldInHand' /\ ClipAt' /\ TextAt'
      BY <1>1, <2>1, <2>2, <2>3, <2>5, <3>1 DEF OnTrack, CursorAt, SelectedAt, FieldInHand, ClipAt, TextAt, Moving,
                          Past, Writing, Selecting, Pasting, Typing, Before, Tabbed
    <3> QED BY <2>2, <3>2 DEF OnTrack
  <2>6. CASE Mode(Action) \notin {"preserve", "cancel"} /\ pc' = "pasteCheck" /\ stage' = stage
    <3>1. Mode(Action)' = Mode(Action) /\ (probe' <=> readable')
      BY <1>1, <2>1, <2>2 DEF Mode, Probe
    <3>2. CursorAt' /\ SelectedAt' /\ FieldInHand' /\ ClipAt' /\ TextAt'
      BY <1>1, <2>1, <2>2, <2>3, <2>6, <3>1 DEF OnTrack, CursorAt, SelectedAt, FieldInHand, ClipAt, TextAt, Moving,
                          Past, Writing, Selecting, Pasting, Typing, Before, Tabbed
    <3> QED BY <2>2, <3>2 DEF OnTrack
  <2> QED BY <1>3, <2>4, <2>5, <2>6 DEF ResolveField, Goto
<1>4. CASE SetText
  <2>1. /\ UNCHANGED <<field, stage, tabs, attempt, sent, probe>> /\ pc = "setText"
        /\ pc' = "type" \/ (pc' = "copySleep" /\ clip' = Value(field))
    BY <1>4 DEF SetText, Goto, Stays
  <2>2. /\ OtherControls' /\ Action' = Action /\ Place(field)' = Place(field) /\ Text' = Text
        /\ Value(field)' = Value(field) /\ Base' = Base /\ Typed(sent)' = Typed(sent)
    BY <1>1, <2>1, Kept DEF OnTrack
  <2>3. Typed(sent) = Base
    BY <2>1, TypedParts DEF Progress, Pasting
  <2>4. Mode(Action)' = Mode(Action)
    BY <2>2 DEF Mode
  <2>5. CursorAt' /\ SelectedAt' /\ FieldInHand' /\ ClipAt'
    BY <1>1, <2>1, <2>2, <2>4 DEF OnTrack, CursorAt, SelectedAt, FieldInHand, ClipAt, Moving, Past, Writing,
                      Selecting, Pasting, Typing, Before
  <2>6. TextAt'
    BY <1>1, <2>1, <2>2, <2>3 DEF OnTrack, TextAt, Moving, Past, Selecting, Before
  <2> QED BY <2>2, <2>5, <2>6 DEF OnTrack
<1>5. CASE Moved
  <2>1. /\ UNCHANGED <<field, stage>> /\ pc = "moved"
        /\ IF stage = "after" THEN pc' = "rest" /\ tabs' = tabs
           ELSE tabs' = tabs - 1 /\ pc' = IF tabs > 1 THEN "moveCheck" ELSE "resolve"
    BY <1>5 DEF Moved, Goto
  <2>2. /\ OtherControls' /\ Action' = Action /\ Place(field)' = Place(field) /\ Text' = Text
        /\ (Right(field) => Right(field)')
    BY <1>1, <2>1, Kept DEF OnTrack
  <2>3. /\ field \in DOMAIN plan /\ Action.tabs_before \in 0..1 /\ tabs \in Nat
        /\ stage \in {"before", "after"}
        /\ stage = "before" => 1 <= tabs /\ tabs <= Action.tabs_before
    BY <2>1, Actions DEF Shape, Action, Moving
  <2>4. CASE stage = "after"
    BY <1>1, <2>1, <2>2, <2>3, <2>4 DEF OnTrack, CursorAt, SelectedAt, FieldInHand, ClipAt, TextAt, Moving,
                          Past, Writing, Selecting, Pasting, Typing, Before, Tabbed
  <2>5. CASE stage = "before"
    <3>1. /\ cursor = <<field, Action.tabs_before - tabs + 1>> /\ Text = before
          /\ Action.tabs_before - tabs + 1 = Action.tabs_before - tabs' + 0
          /\ pc' = "resolve" => Action.tabs_before - tabs + 1 = Action.tabs_before
      BY <2>1, <2>3, <2>5 DEF OnTrack, CursorAt, TextAt, Moving, Tabbed
    <3>2. CursorAt'
      BY <1>1, <2>1, <2>2, <2>5, <3>1 DEF CursorAt, Place, Action, Tabbed, Moving, Past, Writing, Selecting, Pasting,
                          Typing, Before
    <3>3. SelectedAt' /\ FieldInHand' /\ ClipAt' /\ TextAt'
      BY <1>1, <2>1, <2>2, <2>5, <3>1 DEF OnTrack, SelectedAt, FieldInHand, ClipAt, TextAt, Moving,
                          Past, Writing, Selecting, Pasting, Typing, Before, Tabbed
    <3> QED BY <2>2, <3>2, <3>3 DEF OnTrack
  <2> QED BY <2>3, <2>4, <2>5
<1>6. CASE NextField
  <2>1. /\ pc = "next" /\ pc' = "field" /\ field' = field + 1 /\ stage = "after" /\ field \in DOMAIN plan
        /\ field \in Nat /\ DOMAIN plan \subseteq Nat
    BY <1>6, Lengths DEF NextField, Goto, Shape, Past
  <2>2. /\ Controls' = Controls /\ \A f : Place(f)' = Place(f) /\ (Right(f) => Right(f)')
    BY <1>1, Kept
  <2>3. Right(field)
    BY <2>1 DEF OnTrack, TextAt, Past
  <2>4. OtherControls'
    <3>1. \A f \in DOMAIN plan : f < field + 1 => f < field \/ f = field
      BY <2>1
    <3>2. \A f \in DOMAIN plan : f > field + 1 => f > field
      BY <2>1
    <3> QED BY <1>1, <2>1, <2>2, <2>3, <3>1, <3>2 DEF OnTrack, OtherControls
  <2>5. CursorAt'
    <3>1. field + 1 \in DOMAIN plan => field # Len(plan)
      BY <2>1, Lengths
    <3>2. field + 1 \in DOMAIN plan => cursor = <<field + 1, 0>>
      BY <2>1, <3>1 DEF OnTrack, CursorAt, Past
    <3> QED BY <1>1, <2>1, <3>2 DEF CursorAt, Moving, Past, Writing, Selecting, Pasting, Typing, Before
  <2>6. SelectedAt' /\ FieldInHand' /\ ClipAt'
    BY <1>1, <2>1 DEF OnTrack, SelectedAt, FieldInHand, ClipAt, Writing, Selecting, Pasting, Typing
  <2>7. TextAt'
    <3>1. field + 1 \in DOMAIN plan => form[Place(field + 1)] = before
      <4>1. field + 1 > field
        BY <2>1
      <4> QED BY <4>1 DEF OnTrack, OtherControls
    <3>2. Text' = form[Place(field + 1)]
      BY <1>1, <2>1 DEF Text, Place
    <3> QED BY <1>1, <2>1, <3>1, <3>2 DEF TextAt, Moving, Past, Selecting, Before
  <2> QED BY <2>4, <2>5, <2>6, <2>7 DEF OnTrack
<1> QED BY <1>2, <1>3, <1>4, <1>5, <1>6

(* A field is left when it holds what it should, or nobody could look; else *)
(* the next attempt replaces what is there.                                 *)
LEMMA VerifyOnTrack ==
    ASSUME Shape, Progress, Inbox, OnTrack, TargetValid, Verify
    PROVE  OnTrack'
<1>1. /\ UNCHANGED <<plan, field, tabs, probe, before, readable, form, cursor, selected, inbox, clip, copies, cancel>>
      /\ pc = "verify" /\ stage = "before" /\ field \in DOMAIN plan /\ attempt \in Nat
      /\ cursor = Place(field) /\ Entered /\ ~selected
      /\ (probe <=> readable) /\ (attempt > 0 => Action.validation /\ probe)
      /\ Mode(Action) \notin {"preserve", "cancel"}
  <2>1. UNCHANGED <<plan, field, tabs, probe, clipboard, target, user>> /\ pc = "verify"
    BY DEF Verify
  <2>2. pc \in Writing
    BY <2>1 DEF Writing
  <2>3. field \in DOMAIN plan /\ stage = "before" /\ attempt \in Nat
    BY <2>1, <2>2 DEF Shape
  <2> QED
    BY <2>1, <2>2, <2>3 DEF OnTrack, CursorAt, SelectedAt, FieldInHand, TextAt, clipboard, target, user
<1>2. /\ Place(field)' = Place(field) /\ Action' = Action /\ Text' = Text
      /\ OtherControls' /\ (Right(field) => Right(field)')
      /\ Mode(Action)' = Mode(Action)
  <2>1. copies > 0 => copies' > 0
    BY <1>1
  <2> QED BY <1>1, <2>1, Kept DEF OnTrack, Mode
<1>3. CASE pc' = "exit"
  BY <1>1, <1>2, <1>3 DEF OnTrack, CursorAt, SelectedAt, FieldInHand, ClipAt, TextAt, Moving, Past,
                          Writing, Selecting, Pasting, Typing, Before
<1>4. CASE /\ pc' = "moveCheck" /\ stage' = "after"
           /\ ~Action.validation \/ ~probe \/ (Probe /\ Matches)
  <2>1. Right(field)
    <3>1. CASE Action.validation /\ probe
      <4>1. Text = Value(field)
        BY <1>1, <1>4, <3>1 DEF Matches, Text
      <4> QED BY <1>1, <3>1, <4>1 DEF Right, Expected, Text, Action
    <3>2. CASE ~(Action.validation /\ probe) /\ copies > 0
      BY <1>1, <3>2 DEF Right, Action
    <3>3. CASE ~(Action.validation /\ probe) /\ ~(copies > 0)
      <4>1. Text = Base \o Value(field) /\ (Replace <=> Action.replace_existing \/ Mode(Action) = "clear")
        BY <1>1, <3>3 DEF Entered, Replace
      <4>2. <<>> \o Value(field) = Value(field)
        <5>1. Value(field) \in Seq(Letters)
          BY Lengths, Values
        <5> QED BY <5>1, ConcatEmptySeq
      <4> QED BY <1>1, <3>3, <4>1, <4>2 DEF Right, Expected, Text, Action, Base
    <3> QED BY <3>1, <3>2, <3>3
  <2>2. CursorAt' /\ SelectedAt' /\ FieldInHand' /\ ClipAt'
    BY <1>1, <1>2, <1>4 DEF CursorAt, SelectedAt, FieldInHand, ClipAt, Moving, Past, Writing,
                          Selecting, Pasting, Typing, Before, Tabbed
  <2>3. TextAt'
    BY <1>1, <1>2, <1>4, <2>1 DEF TextAt, Moving, Past, Selecting, Before
  <2> QED BY <1>2, <2>2, <2>3 DEF OnTrack
<1>5. CASE pc' = "pasteCheck" /\ stage' = stage /\ attempt' = attempt + 1 /\ Action.validation /\ probe
  <2>1. Replace' /\ attempt' > 0
    BY <1>1, <1>5 DEF Replace
  <2>2. CursorAt' /\ SelectedAt' /\ FieldInHand' /\ ClipAt'
    BY <1>1, <1>2, <1>5, <2>1 DEF CursorAt, SelectedAt, FieldInHand, ClipAt, Moving, Past, Writing,
                          Selecting, Pasting, Typing, Before, Tabbed
  <2>3. TextAt'
    BY <1>1, <1>5, <2>1 DEF TextAt, Moving, Past, Selecting, Before
  <2> QED BY <1>2, <2>2, <2>3 DEF OnTrack
<1> QED BY <1>3, <1>4, <1>5 DEF Verify, Goto

(* The key the writer has just sent does in the target what it was sent for. *)
LEMMA HandlesOnTrack ==
    ASSUME Shape, Progress, Inbox, OnTrack, TargetHandles
    PROVE  OnTrack'
<1>1. /\ UNCHANGED <<plan, final, pc, field, stage, tabs, attempt, sent, probe, before, readable, clip, copies, cancel>>
      /\ ~Handled /\ Handled' /\ inbox' = <<>> /\ DOMAIN form = Controls
  <2>1. UNCHANGED <<writer, before, readable, clipboard, user>> /\ inbox' = Tail(inbox) /\ inbox # <<>>
    BY DEF TargetHandles
  <2>2. \E k : inbox = <<k>>
    BY <2>1 DEF Inbox, Handled
  <2>3. inbox' = <<>>
    BY <2>1, <2>2
  <2> QED BY <2>1, <2>3 DEF writer, clipboard, user, Handled, Shape
<1>2. /\ Place(field)' = Place(field) /\ Action' = Action /\ Controls' = Controls
      /\ Value(field)' = Value(field) /\ Replace' = Replace /\ Base' = Base
      /\ MoveKind' = MoveKind /\ \A n : Typed(n)' = Typed(n)
      /\ \A f : Place(f)' = Place(f) /\ Value(f)' = Value(f) /\ Expected(f)' = Expected(f)
  <2>1. /\ Place(field)' = Place(field) /\ Action' = Action /\ Controls' = Controls
        /\ Value(field)' = Value(field) /\ MoveKind' = MoveKind
        /\ \A f : Place(f)' = Place(f) /\ Value(f)' = Value(f) /\ Expected(f)' = Expected(f)
    BY <1>1 DEF Place, Action, Controls, Value, Own, MoveKind, Expected
  <2>2. Replace' = Replace
    BY <1>1, <2>1 DEF Replace
  <2> QED BY <1>1, <2>1, <2>2 DEF Base, Typed
<1>3. field \in DOMAIN plan /\ Action.tabs_before \in 0..1 /\ tabs \in Nat /\ sent \in Nat
  <2>1. field \in DOMAIN plan
    BY <1>1 DEF Inbox, Handled, Shape
  <2> QED BY <2>1, Actions DEF Shape, Action
\* What happens to the control with the focus is all that happens to the form.
<1>4. ASSUME NEW t, cursor = Place(field), form' = [form EXCEPT ![cursor] = t], UNCHANGED cursor
      PROVE  Text' = t /\ OtherControls'
  <2>1. Place(field) \in Controls /\ Place(field)[1] = field
    <3>1. Place(field) = <<field, Action.tabs_before>> /\ Action.tabs_before \in 0..plan[field].tabs_before
      BY <1>3 DEF Place, Action
    <3> QED BY <1>3, <3>1 DEF Controls
  <2>2. \A f \in DOMAIN plan : f # field => form'[Place(f)] = form[Place(f)]
    <3> SUFFICES ASSUME NEW f \in DOMAIN plan, f # field PROVE form'[Place(f)] = form[Place(f)]
      OBVIOUS
    <3>1. Place(f) # Place(field)
      BY DEF Place
    <3>2. plan[f].tabs_before \in 0..plan[f].tabs_before
      BY Actions
    <3>3. Place(f) \in Controls
      BY <3>2 DEF Place, Controls
    <3> QED BY <1>1, <1>4, <3>1, <3>3
  <2>3. \A f \in DOMAIN plan : f # field /\ Right(f) => Right(f)'
    <3> SUFFICES ASSUME NEW f \in DOMAIN plan, f # field, Right(f) PROVE Right(f)'
      OBVIOUS
    <3>1. form'[Place(f)] = form[Place(f)] /\ Expected(f)' = Expected(f) /\ Place(f)' = Place(f)
      BY <1>2, <2>2
    <3> QED BY <1>1, <3>1 DEF Right
  <2>4. \A c \in Controls : c # Place(c[1]) => form'[c] = form[c]
    BY <1>1, <1>4, <2>1
  <2>5. field \in Nat /\ DOMAIN plan \subseteq Nat
    BY Lengths
  <2>6. \A f \in DOMAIN plan : (f < field => f # field) /\ (f > field => f # field)
    BY <2>5
  <2> QED
    BY <1>1, <1>2, <1>4, <2>1, <2>2, <2>3, <2>4, <2>6 DEF OtherControls, OnTrack, Text
<1>5. ASSUME UNCHANGED form
      PROVE  Text' = Text /\ OtherControls' /\ (Right(field) => Right(field)')
  <2>1. copies > 0 => copies' > 0
    BY <1>1
  <2> QED BY <1>1, <1>5, <2>1, Kept DEF OnTrack
<1>6. CASE pc = "moveSleep" /\ inbox = << <<MoveKind>> >>
  <2>1. /\ form' = form /\ ~selected /\ ~selected'
        /\ cursor' = IF MoveKind = "tab" /\ cursor \in Controls THEN AfterTab(cursor) ELSE cursor
    <3>1. MoveKind \in {"tab", "none", "enter"}
      BY DEF MoveKind, Shape
    <3>2. ~selected
      BY <1>6 DEF OnTrack, SelectedAt
    <3>3. Head(inbox) = <<MoveKind>> /\ Head(inbox)[1] = MoveKind
      BY <1>6
    <3>4. /\ Head(inbox) \notin {<<"backspace">>, <<"ctrl+v">>, <<"ctrl+a">>} /\ Head(inbox)[1] # "char"
          /\ Head(inbox) = <<"tab">> <=> MoveKind = "tab"
      BY <3>1, <3>3
    <3> QED BY <3>2, <3>4 DEF TargetHandles
  <2>2. CursorAt'
    <3>1. CASE stage = "before"
      <4>1. /\ cursor = <<field, Action.tabs_before - tabs>> /\ 1 <= tabs /\ tabs <= Action.tabs_before
            /\ Action.tabs_before = 1 /\ tabs = 1
        BY <1>1, <1>3, <1>6, <3>1 DEF OnTrack, CursorAt, Tabbed, Moving, Shape
      <4>2. cursor = <<field, 0>> /\ MoveKind = "tab"
        BY <3>1, <4>1 DEF MoveKind
      <4>3. cursor \in Controls
        BY <1>3, <4>1, <4>2 DEF Controls, Action
      <4>4. cursor' = <<field, 1>>
        BY <2>1, <4>1, <4>2, <4>3 DEF AfterTab, Action
      <4>5. Action.tabs_before - tabs + 1 = 1
        BY <4>1
      <4> QED
        BY <1>1, <1>2, <1>6, <3>1, <4>4, <4>5 DEF CursorAt, Tabbed, Moving, Past, Writing, Selecting, Pasting, Typing, Before
    <3>2. CASE stage = "after" /\ field # Len(plan)
      <4>1. cursor = Place(field) /\ MoveKind = "tab"
        <5>1. field < Len(plan)
          BY <1>3, <3>2, Lengths
        <5> QED BY <1>1, <1>6, <3>2, <5>1 DEF OnTrack, CursorAt, Tabbed, Moving, Past, MoveKind
      <4>2. cursor \in Controls /\ ~(cursor[2] < plan[cursor[1]].tabs_before) /\ cursor[1] = field
        <5>1. cursor = <<field, Action.tabs_before>> /\ Action.tabs_before \in 0..plan[field].tabs_before
          BY <1>3, <4>1 DEF Place, Action
        <5> QED BY <1>3, <5>1 DEF Controls, Action
      <4>3. cursor' = <<field + 1, 0>>
        BY <2>1, <4>1, <4>2 DEF AfterTab
      <4> QED
        BY <1>1, <1>2, <1>6, <3>2, <4>3 DEF CursorAt, Tabbed, Moving, Past, Writing, Selecting, Pasting, Typing, Before
    <3>3. CASE stage = "after" /\ field = Len(plan)
      BY <1>1, <1>2, <1>6, <3>3 DEF CursorAt, Tabbed, Moving, Past, Writing, Selecting, Pasting, Typing, Before
    <3> QED BY <3>1, <3>2, <3>3 DEF Shape
  <2>3. SelectedAt' /\ FieldInHand' /\ ClipAt'
    BY <1>1, <1>6, <2>1 DEF SelectedAt, FieldInHand, ClipAt, Writing, Selecting, Pasting, Typing
  <2>4. OtherControls' /\ TextAt'
    BY <1>1, <1>5, <1>6, <2>1 DEF OnTrack, TextAt, Moving, Past, Selecting, Before
  <2> QED BY <2>2, <2>3, <2>4 DEF OnTrack
\* The keys that change the field in hand are handled where it is.
<1>7. ASSUME pc \in {"selectSleep", "eraseSleep", "pasteSleep", "typeSleep"}
      PROVE  /\ cursor = Place(field) /\ cursor \in Controls
             /\ Head(inbox) # <<"tab">> => cursor' = cursor /\ CursorAt'
  <2>1. cursor = Place(field) /\ pc \in Writing
    BY <1>7 DEF OnTrack, CursorAt, Writing, Selecting, Pasting, Typing
  <2>2. cursor \in Controls
    <3>1. Place(field) = <<field, Action.tabs_before>> /\ Action.tabs_before \in 0..plan[field].tabs_before
      BY <1>3 DEF Place, Action
    <3> QED BY <1>3, <2>1, <3>1 DEF Controls
  <2>3. Head(inbox) # <<"tab">> => cursor' = cursor
    BY DEF TargetHandles
  <2>4. cursor' = cursor => CursorAt'
    BY <1>1, <1>2, <1>7, <2>1 DEF CursorAt, Moving, Past, Writing, Selecting, Pasting, Typing, Before
  <2> QED BY <2>1, <2>2, <2>3, <2>4
<1>8. CASE pc = "selectSleep" /\ inbox = << <<"ctrl+a">> >>
  <2>1. /\ Head(inbox) = <<"ctrl+a">> /\ Head(inbox)[1] = "ctrl+a"
        /\ Head(inbox) \notin {<<"tab">>, <<"backspace">>, <<"ctrl+v">>}
    BY <1>8
  <2>2. form' = form /\ selected'
    <3>1. form' = form
      BY <2>1 DEF TargetHandles
    <3>2. selected' = (Head(inbox) = <<"ctrl+a">>)
      BY DEF TargetHandles
    <3> QED BY <2>1, <3>1, <3>2
  <2>3. CursorAt' /\ OtherControls' /\ Text' = Text
    BY <1>5, <1>7, <1>8, <2>1, <2>2
  <2>4. SelectedAt' /\ FieldInHand' /\ ClipAt'
    BY <1>1, <1>2, <1>8, <2>2 DEF OnTrack, SelectedAt, FieldInHand, ClipAt, Writing, Selecting, Pasting, Typing, Mode
  <2>5. TextAt'
    BY <1>1, <1>2, <1>8, <2>3 DEF OnTrack, TextAt, Moving, Past, Selecting, Before
  <2> QED BY <2>3, <2>4, <2>5 DEF OnTrack
<1>9. CASE pc = "eraseSleep" /\ inbox = << <<"backspace">> >>
  <2>1. /\ Head(inbox) = <<"backspace">> /\ selected /\ cursor \in Controls
        /\ Head(inbox) \notin {<<"tab">>, <<"ctrl+a">>, <<"ctrl+v">>}
    BY <1>1, <1>7, <1>9 DEF OnTrack, SelectedAt
  <2>2. form' = [form EXCEPT ![cursor] = <<>>] /\ ~selected'
    <3>1. form' = [form EXCEPT ![cursor] = <<>>]
      BY <2>1 DEF TargetHandles
    <3>2. selected' = (Head(inbox) = <<"ctrl+a">>)
      BY DEF TargetHandles
    <3> QED BY <2>1, <3>1, <3>2
  <2>3. CursorAt' /\ OtherControls' /\ Text' = <<>>
    <3>1. UNCHANGED cursor /\ CursorAt' /\ cursor = Place(field)
      BY <1>7, <1>9, <2>1
    <3> QED BY <1>4, <2>2, <3>1
  <2>4. SelectedAt' /\ FieldInHand' /\ ClipAt'
    BY <1>1, <1>2, <1>9, <2>2 DEF OnTrack, SelectedAt, FieldInHand, ClipAt, Writing, Selecting, Pasting, Typing, Mode
  <2>5. TextAt'
    <3>1. Replace
      BY <1>9 DEF OnTrack, FieldInHand, Writing, Selecting
    <3> QED BY <1>1, <1>2, <1>9, <2>3, <3>1 DEF OnTrack, TextAt, Moving, Past, Selecting, Before
  <2> QED BY <2>3, <2>4, <2>5 DEF OnTrack
<1>10. CASE pc = "pasteSleep" /\ inbox = << <<"ctrl+v">> >>
  <2>1. /\ Head(inbox) = <<"ctrl+v">> /\ ~selected /\ cursor \in Controls /\ form[cursor] = Base
        /\ Head(inbox) \notin {<<"tab">>, <<"ctrl+a">>, <<"backspace">>}
    BY <1>1, <1>3, <1>7, <1>10 DEF OnTrack, SelectedAt, TextAt, Text
  <2>2. form' = [form EXCEPT ![cursor] = Base \o clip] /\ ~selected'
    <3>1. form' = [form EXCEPT ![cursor] = form[cursor] \o clip]
      BY <2>1 DEF TargetHandles
    <3>2. selected' = (Head(inbox) = <<"ctrl+a">>)
      BY DEF TargetHandles
    <3> QED BY <2>1, <3>1, <3>2
  <2>3. CursorAt' /\ OtherControls' /\ Text' = Base \o clip
    <3>1. UNCHANGED cursor /\ CursorAt' /\ cursor = Place(field)
      BY <1>7, <1>10, <2>1
    <3> QED BY <1>4, <2>2, <3>1
  <2>4. SelectedAt' /\ FieldInHand' /\ ClipAt'
    BY <1>1, <1>2, <1>10, <2>2 DEF OnTrack, SelectedAt, FieldInHand, ClipAt, Writing, Selecting, Pasting, Typing, Mode
  <2>5. TextAt'
    <3>1. Entered'
      BY <1>1, <1>2, <1>10, <2>3 DEF OnTrack, ClipAt, Entered
    <3> QED BY <1>1, <1>2, <1>10, <2>3, <3>1 DEF TextAt, Moving, Past, Selecting, Before
  <2> QED BY <2>3, <2>4, <2>5 DEF OnTrack
<1>11. CASE pc = "typeSleep" /\ sent > 0 /\ inbox = <<Value(field)[sent]>>
  <2>0. /\ sent \in 1..Len(Value(field)) /\ field \in Nat /\ Len(Value(field)) \in Nat
        /\ sent - 1 \in Nat /\ sent - 1 < Len(Value(field)) /\ (sent - 1) + 1 = sent
    <3>1. field \in Nat
      BY Lengths
    <3>2. Len(Value(field)) \in Nat
      BY <3>1, Values
    <3>3. sent <= Len(Value(field))
      BY <1>11 DEF Progress, Typing
    <3> QED BY <1>3, <1>11, <3>1, <3>2, <3>3
  <2>1. /\ Head(inbox) = <<"char", field, sent>> /\ ~selected /\ cursor \in Controls
        /\ form[cursor] = Typed(sent - 1)
    <3>1. Head(inbox) = <<"char", field, sent>>
      <4>1. Value(field)[sent] = <<"char", field, sent>>
        BY <2>0, Values
      <4> QED BY <1>11, <4>1
    <3> QED BY <1>1, <1>3, <1>7, <1>11, <3>1 DEF OnTrack, SelectedAt, TextAt, Text
  <2>2. /\ Head(inbox) \notin {<<"tab">>, <<"backspace">>, <<"ctrl+v">>, <<"ctrl+a">>}
        /\ Head(inbox)[1] = "char"
    BY <2>1
  <2>3. Typed(sent - 1) \o <<Head(inbox)>> = Typed(sent)
    <3>1. Typed(sent - 1) \o <<Value(field)[(sent - 1) + 1]>> = Typed((sent - 1) + 1)
      BY <2>0, TypedParts
    <3> QED BY <1>11, <2>0, <3>1
  <2>4. form' = [form EXCEPT ![cursor] = Typed(sent)] /\ ~selected'
    <3>1. form' = [form EXCEPT ![cursor] = form[cursor] \o <<Head(inbox)>>] /\ ~selected'
      BY <2>1, <2>2 DEF TargetHandles
    <3> QED BY <2>1, <2>3, <3>1
  <2>5. CursorAt' /\ OtherControls' /\ Text' = Typed(sent)
    BY <1>4, <1>7, <1>11, <2>2, <2>4
  <2>6. SelectedAt' /\ FieldInHand' /\ ClipAt'
    BY <1>1, <1>2, <1>11, <2>4 DEF OnTrack, SelectedAt, FieldInHand, ClipAt, Writing, Selecting, Pasting, Typing, Mode
  <2>7. TextAt'
    BY <1>1, <1>2, <1>11, <2>5 DEF TextAt, Moving, Past, Selecting, Before
  <2> QED BY <2>5, <2>6, <2>7 DEF OnTrack
<1> QED BY <1>1, <1>6, <1>8, <1>9, <1>10, <1>11 DEF Inbox

(* What the user and other programs do leaves the form as it is; a copy of  *)
(* theirs excuses the fields nobody can check.                              *)
LEMMA OthersOnTrack ==
    ASSUME OnTrack, UNCHANGED <<writer, target>>, copies > 0 => copies' > 0,
           UNCHANGED clip \/ copies' > 0, cancel => cancel'
    PROVE  OnTrack'
<1>1. /\ UNCHANGED <<plan, pc, field, stage, tabs, attempt, sent, probe, before, readable, form, cursor, selected, inbox>>
      /\ Place(field)' = Place(field) /\ Action' = Action /\ Value(field)' = Value(field)
      /\ Text' = Text /\ Replace' = Replace /\ Base' = Base /\ Handled' = Handled
      /\ \A n : Typed(n)' = Typed(n)
      /\ Entered => Entered'
      /\ OtherControls' /\ (Right(field) => Right(field)')
  BY Kept DEF writer, target, OnTrack, Handled
<1>2. CursorAt' /\ SelectedAt' /\ FieldInHand' /\ ClipAt'
  <2>1. CursorAt'
    BY <1>1 DEF OnTrack, CursorAt, Tabbed
  <2>2. SelectedAt'
    BY <1>1 DEF OnTrack, SelectedAt
  <2>3. FieldInHand'
    BY <1>1 DEF OnTrack, FieldInHand, Mode
  <2>4. ClipAt'
    BY <1>1 DEF OnTrack, ClipAt
  <2> QED BY <2>1, <2>2, <2>3, <2>4
<1>3. TextAt'
  BY <1>1 DEF OnTrack, TextAt
<1> QED BY <1>1, <1>2, <1>3 DEF OnTrack

(* Without a return in the middle, a write that has lost its target does    *)
(* not find it again.                                                       *)
LEMMA StillTracked ==
    ASSUME Shape, Progress, [WriterNext]_vars, ~returned', Tracked'
    PROVE  ~returned /\ Tracked
<1>1. CASE WaitForeground
  BY <1>1 DEF WaitForeground, Tracked
<1>2. ASSUME UNCHANGED user, pc' \in {"gap", "focus"} => pc \in {"gap", "focus"}
      PROVE  ~returned /\ Tracked
  BY <1>2 DEF user, Tracked, TargetValid
<1>3. CASE Check
  <2>1. pc' \notin {"gap", "focus"}
    BY <1>3, CheckGoes DEF CheckRows, Leaves, Falls
  <2> QED BY <1>2, <1>3, <2>1 DEF Check
<1>4. CASE Sleep
  <2>1. pc' \in {"gap", "focus"} => pc \in {"gap", "focus"}
    BY <1>4, SleepGoes DEF SleepRows, Leaves, Falls
  <2> QED BY <1>2, <1>4, <2>1 DEF Sleep
<1>5. CASE Send \/ SendRaises
  <2>1. pc' \notin {"gap", "focus"}
    BY <1>5, SendGoes DEF KeyRows, Leaves, Falls
  <2> QED BY <1>2, <1>5, <2>1 DEF Send, SendRaises
<1>6. CASE EnterClipboard \/ Exit \/ BeginField \/ ResolveField \/ Select \/ SetText
  BY <1>2, <1>6 DEF EnterClipboard, Exit, BeginField, ResolveField, Select, SetText, Goto
<1>7. CASE TypeNext \/ Verify \/ MoveNothing \/ Moved \/ NextField
  BY <1>2, <1>7 DEF TypeNext, Verify, MoveNothing, Moved, NextField, Goto
<1>8. CASE TargetHandles \/ OtherCopies \/ OtherLocks \/ UNCHANGED vars
  BY <1>2, <1>8 DEF TargetHandles, OtherCopies, OtherLocks, vars, writer
<1>9. CASE UserLeaves \/ UserReturns \/ UserCloses \/ UserCancels
  <2>1. CASE UserReturns
    BY <2>1 DEF UserReturns, Tracked
  <2>2. CASE UserLeaves \/ UserCloses \/ UserCancels
    BY <2>2 DEF UserLeaves, UserCloses, UserCancels, Tracked, TargetValid, writer
  <2> QED BY <1>9, <2>1, <2>2
<1> QED
  BY <1>1, <1>3, <1>4, <1>5, <1>6, <1>7, <1>8, <1>9 DEF WriterNext, WriterStep, Surroundings

(* A write that has its target stays on its track.                          *)
LEMMA OnTrackStep ==
    ASSUME PromptTarget, Shape, Progress, Inbox, OnTrack, Tracked, [WriterNext]_vars,
           ~returned', Tracked'
    PROVE  OnTrack'
<1>1. pc \notin {"gap", "focus"} => TargetValid
  BY DEF Tracked
<1>2. CASE Check
  <2>1. <<pc, pc'>> \in CheckRows
    BY <1>1, <1>2, CheckGoes DEF CheckRows
  <2> QED BY <1>2, <2>1, WalksOnTrack DEF Check, Walks, clipboard, user
<1>3. CASE Sleep
  <2>1. Handled /\ Walks /\ UNCHANGED <<clip, copies, cancel>>
    BY <1>3 DEF Sleep, Handled, Walks, clipboard, user
  <2>2. \/ ~cancel /\ <<pc, pc'>> \in SleepRows
        \/ pc' = "exit"
        \/ pc \in {"copySleep", "pasteSleep"} /\ pc' = "type" /\ cancel
    BY <1>3, SleepGoes DEF Leaves, Falls
  <2> QED BY <2>1, <2>2, WalksOnTrack
<1>4. CASE Send
  <2>1. pc \notin {"gap", "focus"}
    BY <1>4, SendGoes DEF KeyRows
  <2> QED BY <1>1, <1>4, <2>1, SendOnTrack
<1>5. CASE SendRaises
  <2>1. Walks /\ UNCHANGED <<clip, copies, cancel>>
    BY <1>5 DEF SendRaises, Walks, clipboard, user
  <2>2. pc' = "exit" \/ (pc = "pasteKey" /\ pc' = "type")
    BY <1>5, SendGoes DEF Leaves, Falls
  <2> QED BY <2>1, <2>2, WalksOnTrack
<1>6. CASE WaitForeground
  <2>1. /\ pc = "focus" /\ pc' \in {"focus", "initial", "exit"}
        /\ UNCHANGED <<plan, field, stage, tabs, attempt, sent, probe, before, readable, form, cursor, selected,
                       inbox, clip, copies, cancel>>
    BY <1>6 DEF WaitForeground, Goto, clipboard, target
  <2>2. /\ Place(field)' = Place(field) /\ Action' = Action /\ Text' = Text /\ OtherControls'
    BY <2>1, Kept DEF OnTrack
  <2>3. CursorAt' /\ SelectedAt' /\ FieldInHand' /\ ClipAt'
    BY <2>1, <2>2 DEF OnTrack, CursorAt, SelectedAt, FieldInHand, ClipAt, Moving, Past, Writing, Selecting,
                      Pasting, Typing, Before
  <2>4. TextAt'
    BY <2>1, <2>2 DEF OnTrack, TextAt, Moving, Past, Selecting, Before
  <2> QED BY <2>2, <2>3, <2>4 DEF OnTrack
<1>7. CASE EnterClipboard
  <2>1. pc = "enter" /\ pc' = "field" /\ Walks /\ UNCHANGED <<clip, copies, cancel>>
    BY <1>7 DEF EnterClipboard, Goto, Walks, user
  <2> QED BY <2>1, WalksOnTrack
<1>8. CASE Exit
  <2>1. /\ pc' = "done" /\ UNCHANGED <<plan, field, before, readable, form, copies>>
    BY <1>8 DEF Exit, Stays, target
  <2>2. OtherControls'
    BY <2>1, Kept DEF OnTrack
  <2> QED
    BY <2>1, <2>2 DEF OnTrack, CursorAt, SelectedAt, FieldInHand, ClipAt, TextAt, Moving, Past, Writing,
                      Selecting, Pasting, Typing, Before
<1>9. CASE BeginField \/ ResolveField \/ SetText \/ Moved \/ NextField
  <2>1. TargetValid
    BY <1>1, <1>9 DEF BeginField, ResolveField, SetText, Moved, NextField
  <2> QED BY <1>9, <2>1, FieldsOnTrack
<1>10. CASE Select
  <2>1. /\ Walks /\ UNCHANGED <<clip, copies, cancel>> /\ pc = "select"
        /\ pc' = IF Replace THEN "selectKey" ELSE "setText"
    BY <1>10 DEF Select, Goto, Walks, clipboard, user
  <2> QED BY <2>1, WalksOnTrack
<1>11. CASE TypeNext
  <2>1. /\ Walks /\ UNCHANGED <<clip, copies, cancel>> /\ pc = "type"
        /\ pc' \in {"typedSleep", "exit"} \/ (pc' = "typeCheck" /\ ~cancel)
    BY <1>11 DEF TypeNext, Goto, Walks, clipboard, user
  <2> QED BY <2>1, WalksOnTrack
<1>12. CASE Verify
  <2>1. TargetValid
    BY <1>1, <1>12 DEF Verify
  <2> QED BY <1>12, <2>1, VerifyOnTrack
<1>13. CASE MoveNothing
  <2>1. /\ Walks /\ UNCHANGED <<clip, copies, cancel>> /\ At("key") /\ Key(pc) = <<"none">> /\ pc' = "moved"
    BY <1>13 DEF MoveNothing, Goto, Walks, clipboard, user
  <2>2. pc = "moveKey"
    BY <2>1, SendGoes, KeysAreSomething
  <2>3. MoveKind = "none"
    BY <2>1, <2>2 DEF Key
  <2>4. stage = "after" /\ ~(field < Len(plan)) /\ field \in DOMAIN plan
    BY <2>2, <2>3 DEF MoveKind, Shape
  <2>5. field = Len(plan)
    BY <2>4, Lengths
  <2> QED BY <2>1, <2>2, <2>4, <2>5, WalksOnTrack
<1>14. CASE TargetHandles
  BY <1>14, HandlesOnTrack
<1>15. CASE UserLeaves \/ UserReturns \/ UserCancels \/ OtherLocks \/ UNCHANGED vars
  <2>1. UNCHANGED <<writer, target, clip, copies>> /\ (cancel => cancel')
    BY <1>15 DEF UserLeaves, UserReturns, UserCancels, OtherLocks, vars, clipboard, user
  <2> QED BY <2>1, OthersOnTrack
<1>16. CASE OtherCopies
  <2>1. UNCHANGED <<writer, target, cancel>> /\ copies' = copies + 1 /\ copies \in Nat
    BY <1>16 DEF OtherCopies, user, Shape
  <2> QED BY <2>1, OthersOnTrack
<1>17. CASE UserCloses
  <2>1. pc \in {"gap", "focus"}
    BY <1>17 DEF UserCloses, Tracked, TargetValid, writer
  <2>2. inbox = <<>>
    BY <2>1, NothingWaits DEF Handled
  <2>3. UNCHANGED <<writer, target, clip, copies, cancel>>
    BY <1>17, <2>2 DEF UserCloses, target, clipboard
  <2> QED BY <2>3, OthersOnTrack
<1> QED
  BY <1>2, <1>3, <1>4, <1>5, <1>6, <1>7, <1>8, <1>9, <1>10, <1>11, <1>12, <1>13, <1>14, <1>15,
     <1>16, <1>17 DEF WriterNext, WriterStep, Surroundings
--------------------------------------------------------------------------------
\* The test before the last navigation has found the target in front.
PastTheLast ==
    \/ field = Len(plan) /\ stage = "after" /\ pc \in {"moveKey", "moveSleep", "moved"} \cup Past
    \/ field > Len(plan)
    \/ outcome = "completed"

Finished ==
    /\ \A f \in DOMAIN plan : Right(f)
    /\ \A c \in Controls : c # Place(c[1]) => form[c] = before

FormInv == ~returned => (Tracked => OnTrack) /\ (PastTheLast => Finished)

(* A write passes its last field by that test only.                         *)
LEMMA OnlyPastTheTest ==
    ASSUME Shape, Progress, [WriterNext]_vars, PastTheLast', ~PastTheLast
    PROVE  TargetValid /\ pc = "moveCheck" /\ field = Len(plan) /\ stage = "after"
           /\ UNCHANGED <<plan, before, readable, form, copies>>
<1>1. ASSUME UNCHANGED <<plan, field>>, outcome' = "completed" => outcome = "completed",
             \/ pc' \notin {"moveKey", "moveSleep", "moved"} \cup Past
             \/ stage' = stage /\ pc \in {"moveKey", "moveSleep", "moved"} \cup Past
      PROVE  FALSE
  BY <1>1 DEF PastTheLast
<1>2. CASE Check
  <2>1. UNCHANGED <<plan, field, stage, before, readable, form, copies>>
    BY <1>2 DEF Check, Stays, target, clipboard
  <2>2. CASE TargetValid /\ <<pc, pc'>> \in CheckRows /\ outcome' = outcome
    <3>1. CASE pc = "moveCheck"
      BY <2>1, <2>2, <3>1 DEF PastTheLast, CheckRows, Past
    <3>2. CASE pc # "moveCheck"
      BY <1>1, <2>1, <2>2, <3>2 DEF CheckRows, Past
    <3> QED BY <3>1, <3>2
  <2>3. CASE Leaves \/ Falls
    BY <1>1, <2>1, <2>3 DEF Leaves, Falls, Past
  <2> QED BY <1>2, <2>2, <2>3, CheckGoes
<1>3. CASE Sleep
  <2>1. /\ UNCHANGED <<plan, field, stage>>
        /\ Leaves \/ Falls \/ (<<pc, pc'>> \in SleepRows /\ outcome' = outcome)
    BY <1>3, SleepGoes DEF Sleep, Stays
  <2> QED BY <1>1, <2>1 DEF Leaves, Falls, SleepRows, Past
<1>4. CASE Send \/ SendRaises
  <2>1. /\ UNCHANGED <<plan, field, stage>>
        /\ Leaves \/ Falls \/ (<<pc, pc'>> \in KeyRows /\ outcome' = outcome)
    BY <1>4, SendGoes DEF Send, SendRaises, Stays
  <2> QED BY <1>1, <2>1 DEF Leaves, Falls, KeyRows, Past
<1>5. CASE WaitForeground \/ EnterClipboard \/ Exit \/ ResolveField
  BY <1>1, <1>5 DEF WaitForeground, EnterClipboard, Exit, ResolveField, Goto, Stays, Past
<1>6. CASE Select \/ SetText \/ TypeNext \/ Verify
  BY <1>1, <1>6 DEF Select, SetText, TypeNext, Verify, Goto, Stays, Past
<1>7. CASE BeginField
  <2>1. UNCHANGED <<plan, field>> /\ pc' \in {"exit", "moveCheck", "resolve"}
        /\ (outcome' = "completed" => outcome = "completed" \/ field > Len(plan))
    BY <1>7 DEF BeginField, Goto
  <2> QED BY <1>1, <2>1 DEF PastTheLast, Past
<1>8. CASE MoveNothing
  <2>1. pc = "moveKey" /\ UNCHANGED <<plan, field, stage, outcome>> /\ pc' = "moved"
    <3>1. At("key") /\ Key(pc) = <<"none">> /\ UNCHANGED <<plan, field, stage, outcome>> /\ pc' = "moved"
      BY <1>8 DEF MoveNothing, Stays, Goto
    <3> QED BY <3>1, SendGoes, KeysAreSomething
  <2> QED BY <1>1, <2>1
<1>9. CASE Moved
  <2>1. pc = "moved" /\ UNCHANGED <<plan, field, stage, outcome>>
    BY <1>9 DEF Moved, Goto
  <2> QED BY <1>1, <2>1
<1>10. CASE NextField
  <2>1. pc = "next" /\ field' = field + 1 /\ pc' = "field" /\ UNCHANGED <<plan, stage, outcome>>
    BY <1>10 DEF NextField, Goto
  <2>2. field \in DOMAIN plan /\ stage = "after"
    BY <2>1 DEF Shape, Past
  <2>3. field # Len(plan)
    BY <2>1, <2>2 DEF PastTheLast, Past
  <2>4. ~(field + 1 > Len(plan))
    BY <2>2, <2>3, Lengths
  <2> QED BY <2>1, <2>4 DEF PastTheLast, Past
<1>11. CASE UNCHANGED writer
  BY <1>11 DEF writer, PastTheLast
<1>12. CASE TargetHandles \/ UserLeaves \/ UserReturns \/ UserCloses \/ UserCancels
              \/ OtherCopies \/ OtherLocks \/ UNCHANGED vars
  BY <1>11, <1>12 DEF TargetHandles, UserLeaves, UserReturns, UserCloses, UserCancels, OtherCopies,
                      OtherLocks, vars
<1> QED
  BY <1>2, <1>3, <1>4, <1>5, <1>6, <1>7, <1>8, <1>9, <1>10, <1>12
     DEF WriterNext, WriterStep, Surroundings

(* From there on nothing the target handles changes the form.               *)
LEMMA FinishedStays ==
    ASSUME Shape, Progress, Inbox, PastTheLast, Finished, [WriterNext]_vars
    PROVE  Finished'
<1>1. UNCHANGED <<plan, before, readable, form>> /\ copies' \in {copies, copies + 1}
  <2>1. CASE TargetHandles
    <3>1. inbox # <<>> /\ UNCHANGED <<plan, before, readable, copies>>
      BY <2>1 DEF TargetHandles, writer, clipboard
    <3>2. field \in DOMAIN plan /\ outcome # "completed" /\ pc \notin {"field", "exit", "done"}
      BY <3>1 DEF Inbox, Handled, Shape
    <3>3. pc = "moveSleep" /\ stage = "after" /\ field = Len(plan)
      <4>1. ~(field > Len(plan))
        BY <3>2, Lengths
      <4> QED BY <3>1, <3>2, <4>1 DEF PastTheLast, Inbox, Handled, Past
    <3>4. MoveKind = final /\ final \in {"none", "enter"}
      <4>1. ~(field < Len(plan))
        BY <3>2, <3>3, Lengths
      <4> QED BY <3>3, <4>1 DEF MoveKind, Shape
    <3>5. Head(inbox) = <<final>> /\ Head(inbox)[1] = final
      BY <3>1, <3>3, <3>4 DEF Inbox, Handled
    <3>6. Head(inbox) \notin {<<"backspace">>, <<"ctrl+v">>} /\ Head(inbox)[1] # "char"
      BY <3>4, <3>5
    <3> QED BY <2>1, <3>1, <3>6 DEF TargetHandles
  <2>2. CASE Check \/ Sleep \/ Send \/ SendRaises \/ WaitForeground \/ EnterClipboard \/ Exit
    BY <2>2 DEF Check, Sleep, Send, SendRaises, WaitForeground, EnterClipboard, Exit, Stays, target, clipboard
  <2>3. CASE BeginField \/ ResolveField \/ Select \/ SetText \/ TypeNext \/ Verify
    BY <2>3 DEF BeginField, ResolveField, Select, SetText, TypeNext, Verify, Stays, target, clipboard
  <2>4. CASE MoveNothing \/ Moved \/ NextField
    BY <2>4 DEF MoveNothing, Moved, NextField, Stays, target, clipboard
  <2>5. CASE UserLeaves \/ UserReturns \/ UserCloses \/ UserCancels \/ OtherCopies \/ OtherLocks
    BY <2>5 DEF UserLeaves, UserReturns, UserCloses, UserCancels, OtherCopies, OtherLocks, writer, target, clipboard
  <2>6. CASE UNCHANGED vars
    BY <2>6 DEF vars, writer, target, clipboard
  <2> QED BY <2>1, <2>2, <2>3, <2>4, <2>5, <2>6 DEF WriterNext, WriterStep, Surroundings
<1>2. copies > 0 => copies' > 0
  BY <1>1 DEF Shape
<1>3. Controls' = Controls /\ \A f : Place(f)' = Place(f) /\ (Right(f) => Right(f)')
  BY <1>1, <1>2, Kept
<1> QED BY <1>1, <1>3 DEF Finished

(* Both halves of the invariant are kept.                                   *)
LEMMA FormStep ==
    ASSUME PromptTarget, Shape, Progress, Inbox, FormInv, [WriterNext]_vars
    PROVE  FormInv'
<1> SUFFICES ASSUME ~returned' PROVE (Tracked' => OnTrack') /\ (PastTheLast' => Finished')
  BY DEF FormInv
<1>1. ~returned
  BY DEF WriterNext, WriterStep, Surroundings, Check, Sleep, Send, SendRaises, WaitForeground, EnterClipboard,
         Exit, BeginField, ResolveField, Select, SetText, TypeNext, Verify, MoveNothing, Moved, NextField,
         TargetHandles, UserLeaves, UserReturns, UserCloses, UserCancels, OtherCopies, OtherLocks, vars, user
<1>2. Tracked' => OnTrack'
  BY <1>1, StillTracked, OnTrackStep DEF FormInv
<1>3. ASSUME PastTheLast' PROVE Finished'
  <2>1. CASE PastTheLast
    BY <1>1, <2>1, FinishedStays DEF FormInv
  <2>2. CASE ~PastTheLast
    <3>1. /\ TargetValid /\ pc = "moveCheck" /\ field = Len(plan) /\ stage = "after"
          /\ UNCHANGED <<plan, before, readable, form, copies>>
      BY <1>3, <2>2, OnlyPastTheTest
    <3>2. OnTrack
      BY <1>1, <3>1 DEF FormInv, Tracked
    <3>3. field \in DOMAIN plan
      BY <3>1 DEF Shape
    <3>4. \A f \in DOMAIN plan : f < field \/ f = field
      BY <3>1, <3>3, Lengths
    <3>5. Right(field)
      BY <3>1, <3>2, <3>3 DEF OnTrack, TextAt, Moving
    <3>6. Controls' = Controls /\ \A f : Place(f)' = Place(f) /\ (Right(f) => Right(f)')
      BY <3>1, Kept
    <3> QED BY <3>1, <3>2, <3>4, <3>5, <3>6 DEF OnTrack, OtherControls, Finished
  <2> QED BY <2>1, <2>2
<1> QED BY <1>2, <1>3

(* A write begins with nothing waiting and nothing written.                 *)
LEMMA FormStart == WriterInit => Shape /\ Progress /\ Inbox /\ FormInv
<1> SUFFICES ASSUME WriterInit PROVE Shape /\ Progress /\ Inbox /\ FormInv
  OBVIOUS
<1>1. PICK j \in Jobs : plan = j.fields /\ final = j.final
  BY DEF WriterInit
<1>2. plan \in Seq(FieldAction) /\ final \in {"none", "enter"} /\ Len(plan) > 0
  <2>1. j \in Job /\ Len(j.fields) > 0
    BY WriterAssumption
  <2>2. j.fields \in Seq(FieldAction) /\ j.final \in {"none", "enter"}
    BY <2>1 DEF Job
  <2> QED BY <1>1, <2>1, <2>2
<1>3. 1 \in DOMAIN plan /\ Len(plan) \in Nat /\ DOMAIN plan = 1..Len(plan)
  BY <1>2
<1>4. Shape /\ Progress /\ Inbox
  BY <1>2, <1>3 DEF WriterInit, Shape, Progress, Inbox, Handled, Positions, Past, Writing, Moving, Selecting,
                    Pasting, Typing, Before
<1>5. \A f \in DOMAIN plan : Place(f) \in Controls
  <2> SUFFICES ASSUME NEW f \in DOMAIN plan PROVE Place(f) \in Controls
    OBVIOUS
  <2>1. plan[f].tabs_before \in 0..plan[f].tabs_before
    BY <1>4, Actions
  <2> QED BY <2>1 DEF Place, Controls
<1>6. \A c \in Controls : form[c] = before
  BY DEF WriterInit
<1>7. OnTrack
  <2>1. OtherControls
    <3>1. \A f \in DOMAIN plan : ~(f < field)
      BY <1>3 DEF WriterInit
    <3> QED BY <1>5, <1>6, <3>1 DEF OtherControls
  <2>2. CursorAt /\ SelectedAt /\ FieldInHand /\ ClipAt
    BY DEF WriterInit, CursorAt, SelectedAt, FieldInHand, ClipAt, Moving, Past, Writing,
           Selecting, Pasting, Typing, Before
  <2>3. TextAt
    BY <1>5, <1>6 DEF WriterInit, TextAt, Text, Moving, Past, Selecting, Before
  <2> QED BY <2>1, <2>2, <2>3 DEF OnTrack
<1>8. ~PastTheLast
  BY <1>2, <1>3 DEF WriterInit, PastTheLast
<1> QED BY <1>4, <1>7, <1>8 DEF FormInv

(* A write reported as completed has put every value, once and whole, into  *)
(* its own control and left all the others alone, with the two exceptions   *)
(* CompletedForm names, for every job, number of attempts and length of a   *)
(* value and whatever user and programs do: as long as the target handles a *)
(* key within the pause the writer leaves it (FormWriter.write, _navigate,  *)
(* _sleep and the paste and typing of StressSafeFormWriter).                *)
THEOREM CompletedWritesAreRight ==
    ASSUME PromptTarget
    PROVE  WriterSpec => []CompletedForm
<1> DEFINE Inv == Shape /\ Progress /\ Inbox /\ FormInv
<1>1. WriterInit => Inv
  BY FormStart
<1>2. Inv /\ [WriterNext]_vars => Inv'
  BY PromptTarget, ShapeStep, ProgressStep, InboxStep, FormStep
<1>3. Inv => CompletedForm
  BY DEF CompletedForm, FormInv, PastTheLast, Finished
<1> QED BY <1>1, <1>2, <1>3, PTL DEF WriterSpec
================================================================================
