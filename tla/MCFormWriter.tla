---------------------------- MODULE MCFormWriter ----------------------------
(* Small jobs for the form writer. *)
EXTENDS FormWriter

Plain == [tabs_before |-> 0, value |-> "text", default |-> FALSE,
          empty_policy |-> "preserve", replace_existing |-> FALSE, validation |-> FALSE]
Checked  == [Plain EXCEPT !.validation = TRUE]
Replaced == [Plain EXCEPT !.replace_existing = TRUE, !.tabs_before = 1]
Without(policy) == [Plain EXCEPT !.value = "", !.empty_policy = policy]

Ending(action, f, g) == [fields |-> <<f, g>>, final |-> action]

\* Every way a field is written, skipped, emptied or refused, in two fields.
SmallJobs == {Ending("enter", Checked, Replaced), Ending("enter", Without("clear"), Plain),
              Ending("none", Without("preserve"), Checked), Ending("none", Plain, Without("cancel")),
              Ending("enter", [Without("default") EXCEPT !.default = TRUE], Without("default"))}
=============================================================================
