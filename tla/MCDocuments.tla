----------------------------- MODULE MCDocuments -----------------------------
(* The documents and fields of a small instance. *)
EXTENDS Documents

Good(kind, who) ==
    [kind |-> kind, who |-> who, zeros |-> 0, digits |-> 9, whole |-> TRUE, host |-> "official",
     column |-> [c \in Columns |-> CASE c \in Names -> "name" [] c \in Dates -> "past" [] OTHER -> "M"]]

\* What else a column may hold.
Others(c) == CASE c = "Padre" -> {"", "noise", "control"}
               [] c \in Names -> {"", "initial", "noise", "spaced"}
                                 \cup IF c = "Primer Apellido" THEN {"control"} ELSE {}
               [] c = "Fecha de Nacimiento" -> {"", "future", "early", "no date", "short"}
               [] c \in Dates -> {"", "future", "no date", "odd", "split"}
               [] OTHER -> {"1", ""}

Cells == UNION {{<<c, x>> : x \in Others(c)} : c \in Columns}
Numbers == {<<0, 9>>, <<0, 4>>, <<0, 8>>, <<1, 8>>, <<1, 9>>, <<0, 12>>, <<1, 12>>}

\* Documents with at most two things wrong.
Cards ==
    LET Numbered(d, n) == [d EXCEPT !.zeros = n[1], !.digits = n[2]]
        Put(d, x) == [d EXCEPT !.column[x[1]] = x[2]]
        good == {Good(k, "ana") : k \in {"csv", "xor"}}
    IN  {Put(Put(d, x), y) : d \in good, x \in Cells, y \in Cells}
        \cup {[Numbered(Put(d, x), n) EXCEPT !.whole = w] :
                  d \in good, x \in Cells, n \in Numbers, w \in BOOLEAN}
        \cup {[Numbered(Put(Good(k, who), <<"Fecha de Emision", x>>), n) EXCEPT !.whole = w] :
                  k \in {"short", "tse"}, who \in Holders, x \in {"past", "odd"},
                  n \in Numbers, w \in BOOLEAN}
        \cup {[Good("mdoc", "ana") EXCEPT !.host = h] : h \in {"official", "contains", "other"}}

\* One field at a time: a configuration is accepted when each of them is.
OneField ==
    {[label |-> l, empty_policy |-> "preserve", default |-> ""] : l \in Labels \cup {"Cedula"}}
    \cup {[label |-> "Nombre", empty_policy |-> "default", default |-> x] : x \in {"name", "noise"}}
    \cup {[label |-> "Fecha de Emision", empty_policy |-> "default", default |-> "past"],
          [label |-> "Sexo", empty_policy |-> "cancel", default |-> ""]}

People == {"ana", "eva"}
=============================================================================
