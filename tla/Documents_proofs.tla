---------------------------- MODULE Documents_proofs ----------------------------
(***************************************************************************)
(* Theorems about the way of a document, for any documents, fields, limit   *)
(* of the cache and life of its entries: what is written is the document's, *)
(* a sound document passes, and the cache keeps within its limit.           *)
(***************************************************************************)
EXTENDS Documents, SequenceTheorems, TLAPS

-----------------------------------------------------------------------------
(* What each parser reads in a document, label by label.                    *)

Surnames(d) == Joined(Cell(d, "Primer Apellido"), Cell(d, "Segundo Apellido"))

\* Data made of the texts of some columns.
MadeOf(p, id, c, at) ==
    /\ p.type = id /\ p.cedula = c /\ p.url = "none"
    /\ \A l \in DOMAIN at : p.at[l] = at[l]
    /\ \A l \in (Columns \cup {Accented}) \ DOMAIN at : p.at[l] = Blank
    /\ p.at["Apellidos"] = Joined(at["Primer Apellido"], at["Segundo Apellido"])

LEMMA PersonRead ==
    ASSUME NEW id, NEW c, NEW at, DOMAIN at \subseteq Columns \cup {Accented}
    PROVE  MadeOf(Person(id, c, at), id, c, at)
<1>1. "Apellidos" \notin Columns \cup {Accented} /\ Labels = Columns \cup {"Apellidos", Accented}
  BY DEF Labels, Columns, Names, Dates, Accented
<1> QED
  BY <1>1 DEF Person, MadeOf

LEMMA CsvRead ==
    ASSUME NEW d, NEW p \in EngineCsv(d)
    PROVE  /\ d.kind = "csv" /\ d.whole /\ Length(Cedula(d)) \in 8..12
           /\ p.type = "MENOR_CSV" /\ p.cedula = Stripped(Cedula(d)) /\ p.url = "none"
           /\ \A l \in Names : p.at[l] = Cell(d, l)
           /\ p.at["Apellidos"] = Surnames(d)
           /\ \A l \in Dates \ {"Fecha de Expiracion"} : p.at[l] = EngineDate(Cell(d, l))
           /\ p.at["Fecha de Expiracion"] = Blank /\ p.at[Accented] = Blank
<1> DEFINE at == [c \in Columns \ {"Fecha de Expiracion"} |->
                    IF c \in Dates THEN EngineDate(Cell(d, c))
                    ELSE IF c = "Sexo" THEN Sex(Cell(d, c), {"M"}) ELSE Cell(d, c)]
<1>1. /\ d.kind = "csv" /\ d.whole /\ Length(Cedula(d)) \in 8..12
      /\ p = Person("MENOR_CSV", Stripped(Cedula(d)), at)
  BY DEF EngineCsv
<1>2. /\ DOMAIN at = Columns \ {"Fecha de Expiracion"}
      /\ \A c \in Names : at[c] = Cell(d, c)
      /\ \A c \in Dates \ {"Fecha de Expiracion"} : at[c] = EngineDate(Cell(d, c))
  BY DEF Columns, Names, Dates
<1> HIDE DEF at
<1>3. Names \subseteq DOMAIN at /\ Dates \ {"Fecha de Expiracion"} \subseteq DOMAIN at
      /\ "Fecha de Expiracion" \in Columns \ DOMAIN at /\ Accented \notin DOMAIN at
      /\ "Primer Apellido" \in Names /\ "Segundo Apellido" \in Names
  BY <1>2 DEF Columns, Names, Dates, Accented
<1>4. MadeOf(Person("MENOR_CSV", Stripped(Cedula(d)), at), "MENOR_CSV", Stripped(Cedula(d)), at)
  <2>1. DOMAIN at \subseteq Columns
    BY <1>2
  <2> QED
    BY <2>1, PersonRead
<1> QED
  BY <1>1, <1>2, <1>3, <1>4 DEF Surnames, MadeOf

LEMMA XorRead ==
    ASSUME NEW d, NEW p \in EngineXor(d)
    PROVE  /\ d.kind = "xor" /\ d.whole /\ Length(Cedula(d)) = 9
           /\ p.type = "ADULTO_XOR_CLASICO" /\ p.cedula = Cedula(d) /\ p.url = "none"
           /\ \A l \in Names \ {"Padre"} : p.at[l] = Cell(d, l)
           /\ p.at["Apellidos"] = Surnames(d) /\ p.at["Padre"] = Blank
           /\ \A l \in Dates \ {"Fecha de Emision"} : p.at[l] = EngineDate(Cell(d, l))
           /\ p.at["Fecha de Emision"] = Blank /\ p.at[Accented] = Blank
<1> DEFINE at == [c \in Columns \ {"Padre", "Fecha de Emision"} |->
                    IF c \in Dates THEN EngineDate(Cell(d, c))
                    ELSE IF c = "Sexo" THEN Sex(Cell(d, c), {"M", "1"}) ELSE Cell(d, c)]
<1>1. /\ d.kind = "xor" /\ d.whole /\ Length(Cedula(d)) = 9
      /\ p = Person("ADULTO_XOR_CLASICO", Cedula(d), at)
  BY DEF EngineXor
<1>2. /\ DOMAIN at = Columns \ {"Padre", "Fecha de Emision"}
      /\ \A c \in Names \ {"Padre"} : at[c] = Cell(d, c)
      /\ \A c \in Dates \ {"Fecha de Emision"} : at[c] = EngineDate(Cell(d, c))
  BY DEF Columns, Names, Dates
<1> HIDE DEF at
<1>3. /\ Names \ {"Padre"} \subseteq DOMAIN at /\ Dates \ {"Fecha de Emision"} \subseteq DOMAIN at
      /\ "Fecha de Emision" \in Columns \ DOMAIN at /\ "Padre" \in Columns \ DOMAIN at
      /\ Accented \notin DOMAIN at
      /\ "Primer Apellido" \in Names \ {"Padre"} /\ "Segundo Apellido" \in Names \ {"Padre"}
  BY <1>2 DEF Columns, Names, Dates, Accented
<1>4. MadeOf(Person("ADULTO_XOR_CLASICO", Cedula(d), at), "ADULTO_XOR_CLASICO", Cedula(d), at)
  <2>1. DOMAIN at \subseteq Columns
    BY <1>2
  <2> QED
    BY <2>1, PersonRead
<1>5. /\ \A l \in DOMAIN at : p.at[l] = at[l]
      /\ \A l \in (Columns \cup {Accented}) \ DOMAIN at : p.at[l] = Blank
  BY <1>1, <1>4 DEF MadeOf
<1>6. p.at["Padre"] = Blank /\ p.at["Fecha de Emision"] = Blank /\ p.at[Accented] = Blank
  BY <1>3, <1>5
<1>7. /\ \A l \in Names \ {"Padre"} : p.at[l] = Cell(d, l)
      /\ \A l \in Dates \ {"Fecha de Emision"} : p.at[l] = EngineDate(Cell(d, l))
  BY <1>2, <1>3, <1>5
<1>8. p.at["Apellidos"] = Surnames(d)
  BY <1>1, <1>2, <1>3, <1>4 DEF Surnames, MadeOf
<1> QED
  BY <1>1, <1>4, <1>6, <1>7, <1>8 DEF MadeOf

\* The former parsers join what _normalize_text left of the surnames.
CoreSurnames(d) == Joined(Normal(Cell(d, "Primer Apellido")), Normal(Cell(d, "Segundo Apellido")))

CsvKept(p, d) ==
    /\ p.type = "CSV" /\ p.cedula = Stripped(Cedula(d)) /\ p.url = "none"
    /\ \A l \in Names : p.at[l] = Normal(Cell(d, l))
    /\ p.at["Apellidos"] = CoreSurnames(d)
    /\ \A l \in Dates \ {"Fecha de Expiracion"} : p.at[l] = CoreDate(Cell(d, l))
    /\ p.at["Fecha de Expiracion"] = Blank /\ p.at[Accented] = Blank

LEMMA CoreCsvRead == ASSUME NEW d PROVE CsvKept(CoreCsv(d), d)
<1> DEFINE at == [c \in Columns \ {"Fecha de Expiracion"} |->
                    IF c = "Sexo"
                    THEN IF d.column[c] \in {"M", "1"} THEN Sex(Cell(d, c), {"M", "1"}) ELSE Unknown
                    ELSE IF c \in Dates THEN CoreDate(Cell(d, c)) ELSE Normal(Cell(d, c))]
<1>1. CoreCsv(d) = Person("CSV", Stripped(Cedula(d)), at)
  BY DEF CoreCsv
<1>2. /\ DOMAIN at = Columns \ {"Fecha de Expiracion"}
      /\ \A c \in Names : at[c] = Normal(Cell(d, c))
      /\ \A c \in Dates \ {"Fecha de Expiracion"} : at[c] = CoreDate(Cell(d, c))
  BY DEF Columns, Names, Dates
<1> HIDE DEF at
<1>3. Names \subseteq DOMAIN at /\ Dates \ {"Fecha de Expiracion"} \subseteq DOMAIN at
      /\ "Fecha de Expiracion" \in Columns \ DOMAIN at /\ Accented \notin DOMAIN at
      /\ "Primer Apellido" \in Names /\ "Segundo Apellido" \in Names
  BY <1>2 DEF Columns, Names, Dates, Accented
<1>4. MadeOf(Person("CSV", Stripped(Cedula(d)), at), "CSV", Stripped(Cedula(d)), at)
  <2>1. DOMAIN at \subseteq Columns
    BY <1>2
  <2> QED
    BY <2>1, PersonRead
<1> QED
  BY <1>1, <1>2, <1>3, <1>4 DEF CoreSurnames, MadeOf, CsvKept

XorKept(p, d) ==
    /\ p.type = "ADULTO_XOR" /\ p.cedula = Cedula(d) /\ p.url = "none"
    /\ \A l \in Names \ {"Padre"} : p.at[l] = Normal(Cell(d, l))
    /\ p.at["Apellidos"] = CoreSurnames(d) /\ p.at["Padre"] = Blank
    /\ \A l \in Dates \ {"Fecha de Emision"} : p.at[l] = Cell(d, l)
    /\ p.at[Accented] = Cell(d, "Fecha de Expiracion")
    /\ p.at["Fecha de Emision"] = Blank

LEMMA CoreXorRead == ASSUME NEW d PROVE XorKept(CoreXor(d), d)
<1> DEFINE at == [l \in (Columns \cup {Accented}) \ {"Padre", "Fecha de Emision"} |->
                    IF l = "Sexo" THEN IF d.column[l] = "M" THEN Sex(Cell(d, l), {"M"}) ELSE Unknown
                    ELSE IF l \in DateLabels THEN Cell(d, ColumnOf(l)) ELSE Normal(Cell(d, l))]
<1>1. CoreXor(d) = Person("ADULTO_XOR", Cedula(d), at)
  BY DEF CoreXor
<1>2. /\ DOMAIN at = (Columns \cup {Accented}) \ {"Padre", "Fecha de Emision"}
      /\ \A c \in Names \ {"Padre"} : at[c] = Normal(Cell(d, c))
      /\ \A c \in Dates \ {"Fecha de Emision"} : at[c] = Cell(d, c)
      /\ at[Accented] = Cell(d, "Fecha de Expiracion")
  BY DEF Columns, Names, Dates, Accented, DateLabels, ColumnOf
<1> HIDE DEF at
<1>3. /\ Names \ {"Padre"} \subseteq DOMAIN at /\ Dates \ {"Fecha de Emision"} \subseteq DOMAIN at
      /\ "Fecha de Emision" \in Columns \ DOMAIN at /\ "Padre" \in Columns \ DOMAIN at
      /\ "Primer Apellido" \in Names \ {"Padre"} /\ "Segundo Apellido" \in Names \ {"Padre"}
      /\ Accented \in DOMAIN at
  BY <1>2 DEF Columns, Names, Dates, Accented
<1>4. MadeOf(Person("ADULTO_XOR", Cedula(d), at), "ADULTO_XOR", Cedula(d), at)
  <2>1. DOMAIN at \subseteq Columns \cup {Accented}
    BY <1>2
  <2> QED
    BY <2>1, PersonRead
<1> QED
  BY <1>1, <1>2, <1>3, <1>4 DEF CoreSurnames, MadeOf, XorKept

\* Data that names nobody has neither a name nor a date.
LEMMA NobodysRead ==
    /\ DOMAIN Nobodys = Labels
    /\ \A l \in Labels : Nobodys[l] = IF l \in {"Nombre", "Primer Apellido", "Apellidos", "Sexo"}
                                       THEN Unknown ELSE Blank
  BY DEF Nobodys

LEMMA ShortRead ==
    ASSUME NEW d, NEW p \in EngineShort(d)
    PROVE  /\ p.type = "CODIGO_CORTO_CI" /\ p.cedula = Cedula(d) /\ p.url = "none"
           /\ p.at = Nobodys
  BY DEF EngineShort, NobodysData

\* An address gives no more than the cedula and a date nobody converted.
LEMMA UrlRead ==
    ASSUME NEW d, NEW p \in EngineUrl(d) \cup PartialTse(d)
    PROVE  /\ d.kind = "tse"
           /\ p.type = "TSE_QR_URL" /\ p.cedula = Cedula(d) /\ p.url = d.who
           /\ \A l \in Labels \ {"Fecha de Emision"} : p.at[l] = Nobodys[l]
           /\ p.at["Fecha de Emision"] \in {Blank, Text(d.who, "Fecha de Emision", "odd")}
           /\ d.column["Fecha de Emision"] \notin EightDigits => p.at["Fecha de Emision"] = Blank
<1>1. CASE p \in PartialTse(d)
  <2>1. /\ d.kind = "tse" /\ p.at = Nobodys
        /\ p.type = "TSE_QR_URL" /\ p.cedula = Cedula(d) /\ p.url = d.who
    BY <1>1 DEF PartialTse, NobodysData
  <2>2. "Fecha de Emision" \in Labels
    BY DEF Labels, Columns, Dates
  <2>3. Nobodys["Fecha de Emision"] = Blank
    BY <2>2, NobodysRead
  <2> QED
    BY <2>1, <2>3
<1>2. CASE p \in EngineUrl(d)
  <2> DEFINE date == IF d.column["Fecha de Emision"] \in EightDigits
                     THEN Text(d.who, "Fecha de Emision", "odd") ELSE Blank
  <2>1. /\ d.kind = "tse"
        /\ p = [type |-> "TSE_QR_URL", cedula |-> Cedula(d), url |-> d.who,
                at |-> [Nobodys EXCEPT !["Fecha de Emision"] = date]]
    BY <1>2 DEF EngineUrl
  <2>2. "Fecha de Emision" \in Labels
    BY DEF Labels, Columns, Dates
  <2> HIDE DEF date
  <2>3. /\ p.type = "TSE_QR_URL" /\ p.cedula = Cedula(d) /\ p.url = d.who
        /\ p.at = [Nobodys EXCEPT !["Fecha de Emision"] = date]
    BY <2>1
  <2>4. /\ \A l \in Labels \ {"Fecha de Emision"} : p.at[l] = Nobodys[l]
        /\ p.at["Fecha de Emision"] = date
    BY <2>2, <2>3, NobodysRead
  <2> QED
    BY <2>1, <2>3, <2>4 DEF date
<1> QED
  BY <1>1, <1>2

LEMMA MdocRead ==
    ASSUME NEW d, NEW p, p \in PartialMdoc(d) \/ p = CoreMdoc(d)
    PROVE  /\ p.type = "TSE_MDOC_ISO18013" /\ p.cedula = NoCedula /\ p.url = d.host
           /\ p.at = Nobodys
  BY DEF PartialMdoc, CoreMdoc, NobodysData

\* The answer of the TSE is about the person asked for.
Page(h, c, shown) == Html([url |-> h, cedula |-> c], shown)

\* What an answer holds.
Answers(p, h, c, shown) ==
    /\ p.type = "TSE_QR_URL" /\ p.cedula = c /\ p.url = h
    /\ ~shown => p.at = Nobodys
    /\ shown =>
          /\ \A l \in Names \ {"Padre"} : p.at[l] = Text(h, l, "name")
          /\ p.at["Apellidos"] = Text(h, "Primer Apellido", "name")
          /\ p.at["Fecha de Nacimiento"] = Text(h, "Fecha de Nacimiento", "past")
          /\ p.at["Fecha de Expiracion"] = Text(h, "Fecha de Expiracion", "future")
          /\ p.at[Accented] = Text(h, "Fecha de Expiracion", "future")
          /\ \A l \in {"Padre", "Fecha de Emision", "Sexo"} : p.at[l] = Nobodys[l]

LEMMA PageRead ==
    ASSUME NEW h, NEW c, NEW shown \in BOOLEAN
    PROVE  Answers(Page(h, c, shown), h, c, shown)
  BY DEF Answers, Page, Html, Names, Dates, Columns, Labels, Accented, ColumnOf

LEMMA PageOfAddress ==
    ASSUME NEW d, NEW shown
    PROVE  Html(d, shown) = Page(d.url, d.cedula, shown)
  BY DEF Page, Html

LEMMA SurnamesRead ==
    ASSUME NEW d
    PROVE  LET a == d.column["Primer Apellido"]
               b == d.column["Segundo Apellido"]
           IN  Surnames(d) = IF a = "" THEN Cell(d, "Segundo Apellido")
                             ELSE IF b = "" THEN Cell(d, "Primer Apellido")
                             ELSE Text(d.who, "Primer Apellido",
                                       IF "noise" \in {a, b} THEN "noise"
                                       ELSE IF "control" \in {a, b} THEN "control"
                                       ELSE IF "spaced" \in {a, b} THEN "spaced" ELSE "name")
  BY DEF Surnames, Joined, Cell, Text

LEMMA NormalIs ==
    ASSUME NEW who, NEW col, NEW is
    PROVE  Normal(Text(who, col, is)) =
             Text(who, col, IF is \in {"spaced", "control"} THEN "name"
                            ELSE IF is = "split" THEN "past" ELSE is)
  BY DEF Normal, Text

\* _normalize_text before the surnames are joined, or after.
LEMMA SurnamesNormal == ASSUME NEW d PROVE Normal(Surnames(d)) = CoreSurnames(d)
<1> DEFINE a == d.column["Primer Apellido"]
           b == d.column["Segundo Apellido"]
           na == IF a \in {"spaced", "control"} THEN "name" ELSE IF a = "split" THEN "past" ELSE a
           nb == IF b \in {"spaced", "control"} THEN "name" ELSE IF b = "split" THEN "past" ELSE b
<1>1. /\ Normal(Cell(d, "Primer Apellido")) = Text(d.who, "Primer Apellido", na)
      /\ Normal(Cell(d, "Segundo Apellido")) = Text(d.who, "Segundo Apellido", nb)
  BY NormalIs DEF Cell
<1>2. \A u, v : Joined(Text(d.who, "Primer Apellido", u), Text(d.who, "Segundo Apellido", v))
        = IF u = "" THEN Text(d.who, "Segundo Apellido", v)
          ELSE IF v = "" THEN Text(d.who, "Primer Apellido", u)
          ELSE Text(d.who, "Primer Apellido",
                    IF "noise" \in {u, v} THEN "noise"
                    ELSE IF "control" \in {u, v} THEN "control"
                    ELSE IF "spaced" \in {u, v} THEN "spaced" ELSE "name")
  BY DEF Joined, Text
<1>3. Surnames(d) = Joined(Text(d.who, "Primer Apellido", a), Text(d.who, "Segundo Apellido", b))
      /\ CoreSurnames(d) = Joined(Text(d.who, "Primer Apellido", na), Text(d.who, "Segundo Apellido", nb))
  BY <1>1 DEF Surnames, CoreSurnames, Cell
<1>4. CASE a = ""
  <2>1. na = "" /\ Surnames(d) = Text(d.who, "Segundo Apellido", b)
        /\ CoreSurnames(d) = Text(d.who, "Segundo Apellido", nb)
    BY <1>2, <1>3, <1>4
  <2> QED
    BY <2>1, NormalIs
<1>5. CASE a # "" /\ b = ""
  <2>0. na # "" /\ nb = ""
    BY <1>5
  <2>1. Surnames(d) = Text(d.who, "Primer Apellido", a)
        /\ CoreSurnames(d) = Text(d.who, "Primer Apellido", na)
    <3>1. \A u : u # "" =>
             Joined(Text(d.who, "Primer Apellido", u), Text(d.who, "Segundo Apellido", ""))
               = Text(d.who, "Primer Apellido", u)
      BY <1>2
    <3>2. Surnames(d) = Joined(Text(d.who, "Primer Apellido", a), Text(d.who, "Segundo Apellido", ""))
      BY <1>3, <1>5
    <3>3. CoreSurnames(d) = Joined(Text(d.who, "Primer Apellido", na), Text(d.who, "Segundo Apellido", ""))
      BY <1>3, <2>0
    <3> HIDE DEF na
    <3> QED
      BY <1>5, <2>0, <3>1, <3>2, <3>3
  <2> QED
    BY <2>1, NormalIs
<1>6. CASE a # "" /\ b # ""
  <2>1. na # "" /\ nb # "" /\ na \notin {"spaced", "control"} /\ nb \notin {"spaced", "control"}
        /\ ("noise" \in {na, nb} <=> "noise" \in {a, b})
    BY <1>6
  <2>2. CoreSurnames(d) = Text(d.who, "Primer Apellido", IF "noise" \in {a, b} THEN "noise" ELSE "name")
    <3> HIDE DEF na, nb
    <3> QED
      BY <1>2, <1>3, <2>1
  <2>3. Surnames(d) = Text(d.who, "Primer Apellido",
                           IF "noise" \in {a, b} THEN "noise"
                           ELSE IF "control" \in {a, b} THEN "control"
                           ELSE IF "spaced" \in {a, b} THEN "spaced" ELSE "name")
    BY <1>2, <1>3, <1>6
  <2> QED
    BY <2>2, <2>3, NormalIs
<1> QED
  BY <1>4, <1>5, <1>6

-----------------------------------------------------------------------------
(* What data says in a label is of one person and from that column.         *)

Tells == {"name", "spaced", "past", "future", "early"}
Says(t, l, h) == t.is \in Tells => t.of = h /\ (t.col = ColumnOf(l) \/ l = "Apellidos")

LEMMA NothingSays ==
    ASSUME NEW l \in Labels, NEW h
    PROVE  Says(Blank, l, h) /\ Says(Unknown, l, h) /\ Says(Nobodys[l], l, h)
<1>1. Blank.is = "" /\ Unknown.is = "DESCONOCIDO"
  BY DEF Blank, Unknown, Text
<1>2. Nobodys[l] \in {Blank, Unknown}
  BY NobodysRead
<1> QED
  BY <1>1, <1>2 DEF Says, Tells

LEMMA CellSays ==
    ASSUME NEW d, NEW l
    PROVE  /\ \A t \in {Cell(d, ColumnOf(l)), EngineDate(Cell(d, ColumnOf(l))),
                         Normal(Cell(d, ColumnOf(l))), CoreDate(Cell(d, ColumnOf(l)))} :
                 Says(t, l, d.who)
           /\ Says(Surnames(d), "Apellidos", d.who)
           /\ Says(CoreSurnames(d), "Apellidos", d.who)
<1>1. ASSUME NEW t, t \in {Cell(d, ColumnOf(l)), EngineDate(Cell(d, ColumnOf(l))),
                           Normal(Cell(d, ColumnOf(l))), CoreDate(Cell(d, ColumnOf(l)))}
      PROVE  t = Blank \/ (t.of = d.who /\ t.col = ColumnOf(l))
  <2>1. \A u : Normal(u).of = u.of /\ Normal(u).col = u.col
    BY DEF Normal, Text
  <2>2. \A u : EngineDate(u) = Blank \/ (EngineDate(u).of = u.of /\ EngineDate(u).col = u.col)
    BY DEF EngineDate, Text
  <2>3. \A u : CoreDate(u) = Blank \/ CoreDate(u) = Normal(u)
    BY DEF CoreDate
  <2>4. Cell(d, ColumnOf(l)).of = d.who /\ Cell(d, ColumnOf(l)).col = ColumnOf(l)
    BY DEF Cell, Text
  <2> QED
    BY <1>1, <2>1, <2>2, <2>3, <2>4
<1>2. Blank.is \notin Tells
  BY DEF Blank, Text, Tells
<1>3. Surnames(d).of = d.who /\ CoreSurnames(d).of = d.who
  <2>1. Surnames(d).of = d.who
    BY SurnamesRead DEF Cell, Text
  <2>2. \A t : Normal(t).of = t.of
    BY DEF Normal, Text
  <2> QED
    BY <2>1, <2>2, SurnamesNormal
<1> QED
  BY <1>1, <1>2, <1>3 DEF Says

\* Data is about the document d, as far as it says anything.
About(p, d) ==
    /\ p.cedula \in {Cedula(d), Stripped(Cedula(d)), NoCedula}
    /\ \A l \in Labels \ {"Sexo"} : Says(p.at[l], l, d.who)
    /\ p.type = "TSE_QR_URL" => p.url = d.who

LEMMA LabelsAre ==
    /\ Labels = Names \cup DateLabels \cup {"Sexo", "Apellidos"}
    /\ DateLabels = Dates \cup {Accented}
    /\ "Sexo" \notin Names /\ "Sexo" \notin DateLabels
    /\ "Apellidos" \notin Names /\ "Apellidos" \notin DateLabels
    /\ Accented \notin Names \cup Dates /\ ColumnOf(Accented) = "Fecha de Expiracion"
    /\ \A l \in Names \cup Dates : ColumnOf(l) = l
  BY DEF Labels, Columns, Names, Dates, DateLabels, Accented, ColumnOf

LEMMA EmptySays == ASSUME NEW l, NEW h PROVE Says(Blank, l, h) /\ Blank.is = ""
  BY DEF Says, Tells, Blank, Text

LEMMA CsvSays == ASSUME NEW d, NEW p \in EngineCsv(d) PROVE About(p, d)
<1>1. \A l \in Labels \ {"Sexo"} : Says(p.at[l], l, d.who)
  <2>1. ASSUME NEW l \in Names PROVE Says(p.at[l], l, d.who)
    <3>1. p.at[l] = Cell(d, ColumnOf(l))
      <4>1. p.at[l] = Cell(d, l)
        BY CsvRead
      <4>2. ColumnOf(l) = l
        BY LabelsAre
      <4> QED
        BY <4>1, <4>2
    <3> QED
      BY <3>1, CellSays
  <2>2. ASSUME NEW l \in DateLabels PROVE Says(p.at[l], l, d.who)
    <3>1. p.at[l] = EngineDate(Cell(d, ColumnOf(l))) \/ p.at[l] = Blank
      <4>1. l \in {Accented, "Fecha de Expiracion"} => p.at[l] = Blank
        BY CsvRead
      <4>2. l \notin {Accented, "Fecha de Expiracion"} =>
              ColumnOf(l) = l /\ l \in Dates \ {"Fecha de Expiracion"}
        BY LabelsAre
      <4>3. \A m \in Dates \ {"Fecha de Expiracion"} : p.at[m] = EngineDate(Cell(d, m))
        BY CsvRead
      <4> QED
        BY <4>1, <4>2, <4>3
    <3> QED
      BY <3>1, CellSays, EmptySays
  <2>3. Says(p.at["Apellidos"], "Apellidos", d.who)
    BY CsvRead, CellSays
  <2> QED
    BY <2>1, <2>2, <2>3, LabelsAre
<1> QED
  BY <1>1, CsvRead DEF About

LEMMA XorSays == ASSUME NEW d, NEW p \in EngineXor(d) PROVE About(p, d)
<1>1. \A l \in Labels \ {"Sexo"} : Says(p.at[l], l, d.who)
  <2>1. ASSUME NEW l \in Names PROVE Says(p.at[l], l, d.who)
    <3>1. p.at[l] = Cell(d, ColumnOf(l)) \/ p.at[l] = Blank
      <4>1. p.at["Padre"] = Blank /\ \A m \in Names \ {"Padre"} : p.at[m] = Cell(d, m)
        BY XorRead
      <4>2. ColumnOf(l) = l
        BY LabelsAre
      <4> QED
        BY <4>1, <4>2
    <3> QED
      BY <3>1, CellSays, EmptySays
  <2>2. ASSUME NEW l \in DateLabels PROVE Says(p.at[l], l, d.who)
    <3>1. p.at[l] = EngineDate(Cell(d, ColumnOf(l))) \/ p.at[l] = Blank
      <4>1. l \in {Accented, "Fecha de Emision"} => p.at[l] = Blank
        BY XorRead
      <4>2. l \notin {Accented, "Fecha de Emision"} =>
              ColumnOf(l) = l /\ l \in Dates \ {"Fecha de Emision"}
        BY LabelsAre
      <4>3. \A m \in Dates \ {"Fecha de Emision"} : p.at[m] = EngineDate(Cell(d, m))
        BY XorRead
      <4> QED
        BY <4>1, <4>2, <4>3
    <3> QED
      BY <3>1, CellSays, EmptySays
  <2>3. Says(p.at["Apellidos"], "Apellidos", d.who)
    BY XorRead, CellSays
  <2> QED
    BY <2>1, <2>2, <2>3, LabelsAre
<1> QED
  BY <1>1, XorRead DEF About

LEMMA CoreSays == ASSUME NEW d, NEW p \in {CoreCsv(d), CoreXor(d)} PROVE About(p, d)
<1>0. CsvKept(p, d) \/ XorKept(p, d)
  BY CoreCsvRead, CoreXorRead
<1>1. \A l \in Labels \ {"Sexo"} : Says(p.at[l], l, d.who)
  <2>1. ASSUME NEW l \in Names PROVE Says(p.at[l], l, d.who)
    <3>1. p.at[l] = Normal(Cell(d, ColumnOf(l))) \/ p.at[l] = Blank
      BY <1>0, LabelsAre DEF CsvKept, XorKept
    <3> QED
      BY <3>1, CellSays, EmptySays
  <2>2. ASSUME NEW l \in DateLabels PROVE Says(p.at[l], l, d.who)
    <3>1. p.at[l] \in {Cell(d, ColumnOf(l)), CoreDate(Cell(d, ColumnOf(l))), Blank}
      BY <1>0, LabelsAre DEF CsvKept, XorKept
    <3> QED
      BY <3>1, CellSays, EmptySays
  <2>3. Says(p.at["Apellidos"], "Apellidos", d.who)
    BY <1>0, CellSays DEF CsvKept, XorKept
  <2> QED
    BY <2>1, <2>2, <2>3, LabelsAre
<1> QED
  BY <1>0, <1>1 DEF About, CsvKept, XorKept

\* Short codes, addresses and mobile documents say nothing at all.
LEMMA CodesSay ==
    ASSUME NEW d, NEW p,
           \/ p \in EngineShort(d) \/ p \in EngineUrl(d) \cup PartialTse(d)
           \/ p \in PartialMdoc(d) \/ p = CoreMdoc(d)
    PROVE  About(p, d)
<1>1. CASE p \in EngineShort(d)
  BY <1>1, ShortRead, NothingSays DEF About
<1>2. CASE p \in EngineUrl(d) \cup PartialTse(d)
  <2>1. \A l \in Labels \ {"Fecha de Emision"} : Says(p.at[l], l, d.who)
    BY <1>2, UrlRead, NothingSays
  <2>2. Says(p.at["Fecha de Emision"], "Fecha de Emision", d.who)
    <3>1. Says(Text(d.who, "Fecha de Emision", "odd"), "Fecha de Emision", d.who)
      BY DEF Says, Tells, Text
    <3> QED
      BY <1>2, <3>1, UrlRead, EmptySays
  <2> QED
    BY <1>2, <2>1, <2>2, UrlRead DEF About
<1>3. CASE p \in PartialMdoc(d) \/ p = CoreMdoc(d)
  BY <1>3, MdocRead, NothingSays DEF About
<1> QED
  BY <1>1, <1>2, <1>3

\* The answer of the TSE about the holder of a document.
LEMMA PageAbout ==
    ASSUME NEW d, NEW c \in {Cedula(d), Stripped(Cedula(d)), NoCedula}, NEW shown \in BOOLEAN
    PROVE  About(Page(d.who, c, shown), d)
<1> DEFINE q == Page(d.who, c, shown)
<1>1. Answers(q, d.who, c, shown)
  BY PageRead
<1> HIDE DEF q
<1>2. q.type = "TSE_QR_URL" /\ q.cedula = c /\ q.url = d.who
  BY <1>1 DEF Answers
<1>3. ASSUME NEW l \in Labels \ {"Sexo"} PROVE Says(q.at[l], l, d.who)
  <2>1. CASE q.at[l] = Nobodys[l]
    BY <2>1, NothingSays
  <2>2. CASE shown /\ l \in Names \ {"Padre"}
    <3>1. q.at[l] = Text(d.who, l, "name") /\ ColumnOf(l) = l
      BY <1>1, <2>2, LabelsAre DEF Answers
    <3> QED
      BY <3>1 DEF Says, Text
  <2>3. CASE shown /\ l = "Apellidos"
    <3>1. q.at[l] = Text(d.who, "Primer Apellido", "name")
      BY <1>1, <2>3 DEF Answers
    <3>2. Says(Text(d.who, "Primer Apellido", "name"), "Apellidos", d.who)
      BY DEF Says, Text
    <3> QED
      BY <2>3, <3>1, <3>2
  <2>4. CASE shown /\ l \in {"Fecha de Nacimiento", "Fecha de Expiracion", Accented}
    <3>1. \/ q.at[l] = Text(d.who, ColumnOf(l), "past")
          \/ q.at[l] = Text(d.who, ColumnOf(l), "future")
      BY <1>1, <2>4, LabelsAre DEF Answers, Dates
    <3> QED
      BY <3>1 DEF Says, Text
  <2>5. \/ q.at[l] = Nobodys[l]
        \/ shown /\ \/ l \in Names \ {"Padre"} \/ l = "Apellidos"
                    \/ l \in {"Fecha de Nacimiento", "Fecha de Expiracion", Accented}
    BY <1>1, LabelsAre DEF Answers, Dates
  <2> QED
    BY <2>1, <2>2, <2>3, <2>4, <2>5
<1> QED
  BY <1>2, <1>3 DEF About, q

LEMMA TseRead ==
    ASSUME NEW d, NEW p \in CoreTse(d)
    PROVE  d.kind = "tse" /\ \E shown \in BOOLEAN : p = Page(d.who, Cedula(d), shown)
<1>1. PICK shown \in BOOLEAN :
         d.kind = "tse" /\ p = Html([url |-> d.who, cedula |-> Cedula(d)], shown)
  BY DEF CoreTse
<1>2. Html([url |-> d.who, cedula |-> Cedula(d)], shown) = Page(d.who, Cedula(d), shown)
  BY PageOfAddress
<1> QED
  BY <1>1, <1>2

LEMMA ResultsFrom ==
    ASSUME NEW d, NEW p \in Results(d)
    PROVE  \/ p \in Engine(d) \/ p \in PartialTse(d) \/ p \in PartialMdoc(d)
           \/ p \in CoreTse(d) \cup {CoreCsv(d), CoreXor(d), CoreMdoc(d)}
  BY DEF Results, Core

LEMMA ResultsSay == ASSUME NEW d, NEW p \in Results(d) PROVE About(p, d)
<1>1. CASE p \in CoreTse(d)
  BY <1>1, TseRead, PageAbout
<1> QED
  BY <1>1, ResultsFrom, CsvSays, XorSays, CoreSays, CodesSay DEF Engine

\* The answer to an address found in a document.
LEMMA PageSays ==
    ASSUME NEW d, NEW p, About(p, d), p.type = "TSE_QR_URL", NEW shown \in BOOLEAN
    PROVE  About(Page(p.url, p.cedula, shown), d)
  BY PageAbout DEF About

-----------------------------------------------------------------------------
(* The cache: lines of entries of which an entry is moved, added, dropped.  *)

Single(s) == \A i, j \in DOMAIN s : s[i].url = s[j].url => i = j

LEMMA PoppedLine ==
    ASSUME NEW S, NEW s \in Seq(S), NEW k \in 1..Len(s)
    PROVE  LET w == SubSeq(s, 1, k - 1) \o SubSeq(s, k + 1, Len(s))
           IN  /\ w \in Seq(S) /\ Len(w) = Len(s) - 1
               /\ \A i \in 1..Len(w) : w[i] = s[IF i < k THEN i ELSE i + 1]
<1> DEFINE n == Len(s)
           a == SubSeq(s, 1, k - 1)
           b == SubSeq(s, k + 1, n)
<1>1. n \in Nat /\ k \in Int /\ 1 <= k /\ k <= n
  BY LenProperties
<1>2. \A i \in 1..n : s[i] \in S
  BY ElementOfSeq
<1> HIDE DEF n
<1>3. \A i \in 1..(k - 1) : s[i] \in S
  BY <1>1, <1>2
<1>4. \A i \in (k + 1)..n : s[i] \in S
  BY <1>1, <1>2
<1>5. k - 1 \in Int /\ k + 1 \in Int /\ n \in Int /\ 1 \in Int
  BY <1>1
<1>6. a \in Seq(S) /\ Len(a) = k - 1 /\ \A i \in 1..(k - 1) : a[i] = s[i]
  <2>1. /\ a \in Seq(S) /\ Len(a) = IF 1 <= k - 1 THEN (k - 1) - 1 + 1 ELSE 0
        /\ \A i \in 1..((k - 1) - 1 + 1) : a[i] = s[1 + i - 1]
    BY <1>3, <1>5, SubSeqProperties
  <2> HIDE DEF a
  <2>2. \A i \in 1..(k - 1) : i \in 1..((k - 1) - 1 + 1) /\ 1 + i - 1 = i
    BY <1>1
  <2> QED
    BY <1>1, <2>1, <2>2
<1>7. b \in Seq(S) /\ Len(b) = n - k /\ \A i \in 1..(n - k) : b[i] = s[k + i]
  <2>1. /\ b \in Seq(S) /\ Len(b) = IF k + 1 <= n THEN n - (k + 1) + 1 ELSE 0
        /\ \A i \in 1..(n - (k + 1) + 1) : b[i] = s[(k + 1) + i - 1]
    BY <1>4, <1>5, SubSeqProperties
  <2> HIDE DEF b
  <2>2. \A i \in 1..(n - k) : i \in 1..(n - (k + 1) + 1) /\ (k + 1) + i - 1 = k + i
    BY <1>1
  <2> QED
    BY <1>1, <2>1, <2>2
<1> HIDE DEF a, b
<1> DEFINE w == a \o b
<1>8. /\ w \in Seq(S) /\ Len(w) = (k - 1) + (n - k)
      /\ \A i \in 1..((k - 1) + (n - k)) : w[i] = IF i <= k - 1 THEN a[i] ELSE b[i - (k - 1)]
  <2>1. /\ w \in Seq(S) /\ Len(w) = Len(a) + Len(b)
        /\ \A i \in 1..(Len(a) + Len(b)) : w[i] = IF i <= Len(a) THEN a[i] ELSE b[i - Len(a)]
    BY <1>6, <1>7, ConcatProperties
  <2> HIDE DEF w
  <2> QED
    BY <1>6, <1>7, <2>1
<1> HIDE DEF w
<1>9. ASSUME NEW i \in 1..Len(w) PROVE w[i] = s[IF i < k THEN i ELSE i + 1]
  <2>1. i \in 1..((k - 1) + (n - k)) /\ i \in Int /\ 1 <= i /\ i <= n - 1
    BY <1>1, <1>8
  <2>2. CASE i < k
    <3>1. i <= k - 1 /\ i \in 1..(k - 1)
      BY <1>1, <2>1, <2>2
    <3> QED
      BY <1>6, <1>8, <2>1, <2>2, <3>1
  <2>3. CASE ~(i < k)
    <3>1. ~(i <= k - 1) /\ i - (k - 1) \in 1..(n - k) /\ k + (i - (k - 1)) = i + 1
      BY <1>1, <2>1, <2>3
    <3> QED
      BY <1>7, <1>8, <2>1, <2>3, <3>1
  <2> QED
    BY <2>2, <2>3
<1>10. Len(w) = n - 1
  BY <1>1, <1>8
<1> QED
  BY <1>8, <1>9, <1>10 DEF w, a, b, n

\* A cache without the answer for an address.
LEMMA PoppedCache ==
    ASSUME NEW S, cache \in Seq(S), Single(cache), NEW url
    PROVE  /\ Without(url) \in Seq(S) /\ Single(Without(url))
           /\ Len(Without(url)) \in Nat
           /\ Len(Without(url)) <= Len(cache) - (IF Places(url) = {} THEN 0 ELSE 1)
           /\ \A i \in DOMAIN Without(url) : Without(url)[i].url # url
<1>1. Len(cache) \in Nat /\ DOMAIN cache = 1..Len(cache)
  BY LenProperties
<1>2. CASE Places(url) = {}
  BY <1>1, <1>2 DEF Without, Places
<1>3. CASE Places(url) # {}
  <2> DEFINE k == CHOOSE i \in Places(url) : TRUE
             w == SubSeq(cache, 1, k - 1) \o SubSeq(cache, k + 1, Len(cache))
             at(i) == IF i < k THEN i ELSE i + 1
  <2>1. k \in 1..Len(cache) /\ cache[k].url = url
    BY <1>1, <1>3 DEF Places
  <2>2. Without(url) = w
    BY <1>3 DEF Without
  <2> HIDE DEF k
  <2>3. /\ w \in Seq(S) /\ Len(w) = Len(cache) - 1
        /\ \A i \in 1..Len(w) : w[i] = cache[at(i)]
    BY <2>1, PoppedLine
  <2> HIDE DEF w
  <2>4. DOMAIN w = 1..Len(w) /\ Len(w) \in Nat
    BY <2>3, LenProperties
  <2>5. \A i \in DOMAIN w : at(i) \in DOMAIN cache /\ at(i) # k
    BY <1>1, <2>1, <2>3, <2>4
  <2>6. \A i, j \in DOMAIN w : at(i) = at(j) => i = j
    BY <1>1, <2>1, <2>3, <2>4
  <2>7. \A i \in DOMAIN w : w[i] = cache[at(i)]
    BY <2>3, <2>4
  <2> HIDE DEF at
  <2>8. Single(w)
    BY <2>5, <2>6, <2>7 DEF Single
  <2>9. \A i \in DOMAIN w : w[i].url # url
    BY <1>1, <2>1, <2>5, <2>7 DEF Single
  <2> QED
    BY <1>1, <1>3, <2>2, <2>3, <2>4, <2>8, <2>9
<1> QED
  BY <1>2, <1>3

LEMMA AddedSingle ==
    ASSUME NEW S, NEW s \in Seq(S), NEW e \in S, Single(s), \A i \in DOMAIN s : s[i].url # e.url
    PROVE  /\ Append(s, e) \in Seq(S) /\ Append(s, e) # <<>> /\ Len(s) \in Nat
           /\ Len(Append(s, e)) = Len(s) + 1
           /\ Single(Append(s, e))
<1> DEFINE t == Append(s, e)
<1>1. /\ t \in Seq(S) /\ t # <<>> /\ Len(t) = Len(s) + 1
      /\ \A i \in 1..Len(s) : t[i] = s[i]
      /\ t[Len(s) + 1] = e
  BY AppendProperties
<1> HIDE DEF t
<1>2. Len(s) \in Nat /\ DOMAIN s = 1..Len(s) /\ DOMAIN t = 1..Len(t)
  BY <1>1, LenProperties
<1>3. \A i \in DOMAIN t : i \in DOMAIN s \/ i = Len(s) + 1
  BY <1>1, <1>2
<1>4. Single(t)
  BY <1>1, <1>2, <1>3 DEF Single
<1> QED
  BY <1>1, <1>2, <1>4 DEF t

LEMMA TailSingle ==
    ASSUME NEW S, NEW s \in Seq(S), s # <<>>, Single(s)
    PROVE  Tail(s) \in Seq(S) /\ Len(Tail(s)) = Len(s) - 1 /\ Single(Tail(s))
<1> DEFINE t == Tail(s)
<1>1. t \in Seq(S) /\ Len(t) = Len(s) - 1 /\ \A i \in 1..Len(t) : t[i] = s[i + 1]
  BY HeadTailProperties
<1> HIDE DEF t
<1>2. Len(s) \in Nat /\ DOMAIN s = 1..Len(s) /\ Len(t) \in Nat /\ DOMAIN t = 1..Len(t)
  BY <1>1, LenProperties
<1>3. \A i \in DOMAIN t : i \in Int /\ i + 1 \in DOMAIN s /\ t[i] = s[i + 1]
  BY <1>1, <1>2
<1>4. Single(t)
  <2>1. ASSUME NEW i \in DOMAIN t, NEW j \in DOMAIN t, t[i].url = t[j].url PROVE i = j
    <3>1. i + 1 = j + 1
      BY <1>3, <2>1 DEF Single
    <3> QED
      BY <1>3, <3>1
  <2> QED
    BY <2>1 DEF Single
<1> QED
  BY <1>1, <1>4 DEF t

-----------------------------------------------------------------------------
(* The inductive invariant: where the scan stands, whose answers the cache  *)
(* keeps, and its size.                                                     *)

\* The data after the enrichment of a result.
Enriched(p, d) ==
    \/ d = p
    \/ p.type = "TSE_QR_URL" /\ \E shown \in BOOLEAN : d = Page(p.url, p.cedula, shown)

Recognized == step # "idle" /\ reason \notin {"parser_error", "not_recognized"}
Judged == step = "configure" \/ reason \in {"written", "configured_missing"}

ScanInv ==
    /\ step \in {"idle", "enrich", "judge", "configure", "done"}
    /\ step # "done" => reason = "none"
    /\ step # "idle" => doc \in Documents
    /\ reason = "parser_error" => formats = "broken"
    /\ reason = "not_recognized" => Results(doc) = {}
    /\ Recognized => parser \in Results(doc) /\ Enriched(parser, data)
    /\ step = "enrich" => data = parser
    /\ Judged => Quality(parser, data) = "ok"
    /\ reason \in {"written", "configured_missing"} =>
           field \in Fields /\ (reason = "written" <=> FieldAccepts(data, field))
    /\ Recognized /\ reason \notin {"none", "written", "configured_missing"} =>
           Quality(parser, data) # "ok"

Cedulas == [of : Holders \cup {"nobody"}, zeros : Nat, digits : Nat]

\* An answer stands at the address of its person and cedula.
Entry == {[url |-> <<h, c>>, data |-> Page(h, c, shown), age |-> n] :
             h \in Holders, c \in Cedulas, shown \in BOOLEAN, n \in Nat}

(* Hits, misses, expired and replaced answers move and drop entries: the    *)
(* cache never outgrows its limit nor keeps two answers for one address, of *)
(* which a scan would be given the older one.                               *)
CacheBounded ==
    /\ Len(cache) <= MaxEntries
    /\ \A i, j \in DOMAIN cache : cache[i].url = cache[j].url => i = j

CacheInv == cache \in Seq(Entry) /\ CacheBounded

DocumentsInv == ScanInv /\ CacheInv

LEMMA Verdicts ==
    ASSUME NEW p, NEW d
    PROVE  Quality(p, d) \in {"ok", "mdoc_url_invalid", "cedula_invalid", "name_invalid",
                              "date_invalid", "date_in_future"}
  BY DEF Quality

LEMMA Addresses ==
    ASSUME NEW d \in Documents, NEW p, About(p, d), p.type = "TSE_QR_URL"
    PROVE  p.url \in Holders /\ p.cedula \in Cedulas
<1>1. d \in Document
  BY DocumentsAssumption DEF DocumentsAssumption
<1>2. Cedula(d) \in Cedulas
  BY <1>1 DEF Document, Cedula, Cedulas
<1>3. \A c \in Cedulas : Stripped(c) \in Cedulas
  BY DEF Stripped, Cedulas
<1>4. NoCedula \in Cedulas
  BY DEF NoCedula, Cedulas
<1>5. d.who \in Holders
  BY <1>1 DEF Document
<1> QED
  BY <1>2, <1>3, <1>4, <1>5 DEF About

LEMMA EntryIs ==
    ASSUME NEW e \in Entry, NEW h, NEW c, e.url = <<h, c>>
    PROVE  \E shown \in BOOLEAN : e.data = Page(h, c, shown)
<1>1. PICK g \in Holders, b \in Cedulas, shown \in BOOLEAN, n \in Nat :
         e = [url |-> <<g, b>>, data |-> Page(g, b, shown), age |-> n]
  BY DEF Entry
<1>2. <<g, b>> = <<h, c>> /\ e.data = Page(g, b, shown)
  BY <1>1
<1>3. g = h /\ b = c
  BY <1>2
<1> QED
  BY <1>2, <1>3

LEMMA Older ==
    ASSUME NEW e \in Entry
    PROVE  [e EXCEPT !.age = @ + 1] \in Entry /\ [e EXCEPT !.age = @ + 1].url = e.url
<1>1. PICK h \in Holders, c \in Cedulas, shown \in BOOLEAN, n \in Nat :
         e = [url |-> <<h, c>>, data |-> Page(h, c, shown), age |-> n]
  BY DEF Entry
<1> DEFINE a == <<h, c>>
           p == Page(h, c, shown)
           o == [url |-> a, data |-> p, age |-> n + 1]
<1>2. [e EXCEPT !.age = @ + 1] = o
  <2> HIDE DEF a, p
  <2>1. e \in [url : {a}, data : {p}, age : Nat] /\ e.age = n
    BY <1>1 DEF a, p
  <2>2. [e EXCEPT !.age = @ + 1] \in [url : {a}, data : {p}, age : {n + 1}]
    BY <2>1, Zenon
  <2>3. \A r \in [url : {a}, data : {p}, age : {n + 1}] : r = o
    OBVIOUS
  <2> QED
    BY <2>2, <2>3, Zenon
<1>3. n + 1 \in Nat
  OBVIOUS
<1>4. o \in Entry /\ o.url = e.url
  BY <1>1, <1>3 DEF Entry
<1> QED
  BY <1>2, <1>4, Zenon

-----------------------------------------------------------------------------
(* Each action keeps the invariant.                                         *)

LEMMA SameResults ==
    ASSUME UNCHANGED formats, NEW d, doc' = d
    PROVE  Results(doc)' = Results(d)
  BY DEF Results

LEMMA InitInv == DocumentsInit => DocumentsInv
<1> SUFFICES ASSUME DocumentsInit PROVE DocumentsInv
  OBVIOUS
<1>1. ScanInv
  BY DEF DocumentsInit, ScanInv, Recognized, Judged
<1>2. cache \in Seq(Entry) /\ Len(cache) = 0 /\ DOMAIN cache = 1..0
  BY EmptySeq, LenProperties DEF DocumentsInit
<1>3. CacheBounded
  BY <1>2, DocumentsAssumption DEF CacheBounded, DocumentsAssumption
<1> QED
  BY <1>1, <1>2, <1>3 DEF DocumentsInv, CacheInv

LEMMA CacheRests == CacheInv /\ UNCHANGED cache => CacheInv'
  BY DEF CacheInv, CacheBounded

LEMMA ParseStep == DocumentsInv /\ Parse => DocumentsInv'
<1> SUFFICES ASSUME DocumentsInv, Parse PROVE DocumentsInv'
  OBVIOUS
<1>1. PICK d \in Documents :
        /\ doc' = d
        /\ IF formats = "broken" THEN Reject("parser_error") /\ UNCHANGED <<parser, data>>
           ELSE IF Results(d) = {} THEN Reject("not_recognized") /\ UNCHANGED <<parser, data>>
           ELSE /\ parser' \in Results(d) /\ data' = parser'
                /\ step' = "enrich" /\ reason' = "none"
  BY DEF Parse
<1>2. UNCHANGED <<formats, field, cache>>
  BY DEF Parse
<1>3. Results(doc)' = Results(d)
  BY <1>1, <1>2, SameResults
<1>4. ScanInv'
  <2>1. CASE formats = "broken"
    BY <1>1, <1>2, <2>1 DEF Reject, ScanInv, Recognized, Judged
  <2>2. CASE formats # "broken" /\ Results(d) = {}
    BY <1>1, <1>2, <1>3, <2>2 DEF Reject, ScanInv, Recognized, Judged
  <2>3. CASE formats # "broken" /\ Results(d) # {}
    BY <1>1, <1>2, <1>3, <2>3 DEF ScanInv, Recognized, Judged, Enriched
  <2> QED
    BY <2>1, <2>2, <2>3
<1> QED
  BY <1>2, <1>4, CacheRests DEF DocumentsInv

LEMMA JudgeStep == DocumentsInv /\ Judge => DocumentsInv'
<1> SUFFICES ASSUME DocumentsInv, Judge PROVE DocumentsInv'
  OBVIOUS
<1>1. /\ step = "judge" /\ UNCHANGED <<formats, doc, parser, data, field, cache>>
      /\ IF Quality(parser, data) = "ok" THEN step' = "configure" /\ UNCHANGED reason
         ELSE step' = "done" /\ reason' = Quality(parser, data)
  BY DEF Judge, Reject
<1>2. Results(doc)' = Results(doc)
  BY <1>1, SameResults
<1>3. Recognized /\ parser \in Results(doc) /\ Enriched(parser, data) /\ doc \in Documents
  BY <1>1 DEF DocumentsInv, ScanInv, Recognized
<1>4. ScanInv'
  <2>1. CASE Quality(parser, data) = "ok"
    BY <1>1, <1>2, <1>3, <2>1 DEF DocumentsInv, ScanInv, Recognized, Judged
  <2>2. CASE Quality(parser, data) # "ok"
    BY <1>1, <1>2, <1>3, <2>2, Verdicts DEF ScanInv, Recognized, Judged
  <2> QED
    BY <2>1, <2>2
<1> QED
  BY <1>1, <1>4, CacheRests DEF DocumentsInv

LEMMA ConfigureStep == DocumentsInv /\ Configure => DocumentsInv'
<1> SUFFICES ASSUME DocumentsInv, Configure PROVE DocumentsInv'
  OBVIOUS
<1>1. /\ step = "configure" /\ UNCHANGED <<formats, doc, parser, data, cache>>
      /\ field' \in Fields /\ step' = "done"
      /\ reason' = IF FieldAccepts(data, field') THEN "written" ELSE "configured_missing"
  BY DEF Configure, Reject
<1>2. Results(doc)' = Results(doc)
  BY <1>1, SameResults
<1>3. /\ parser \in Results(doc) /\ Enriched(parser, data) /\ doc \in Documents
      /\ Quality(parser, data) = "ok"
  BY <1>1 DEF DocumentsInv, ScanInv, Recognized, Judged
<1>4. ScanInv'
  BY <1>1, <1>2, <1>3 DEF ScanInv, Recognized, Judged
<1> QED
  BY <1>1, <1>4, CacheRests DEF DocumentsInv

LEMMA FinishStep == DocumentsInv /\ Finish => DocumentsInv'
<1> SUFFICES ASSUME DocumentsInv, Finish PROVE DocumentsInv'
  OBVIOUS
<1>1. ScanInv'
  BY DEF Finish, ScanInv, Recognized, Judged
<1> QED
  BY <1>1, CacheRests DEF Finish, DocumentsInv

LEMMA AgeStep == DocumentsInv /\ CacheAges => DocumentsInv'
<1> SUFFICES ASSUME DocumentsInv, CacheAges PROVE DocumentsInv'
  OBVIOUS
<1>1. /\ UNCHANGED <<formats, doc, step, parser, data, field, reason>>
      /\ cache' = [i \in DOMAIN cache |-> [cache[i] EXCEPT !.age = @ + 1]]
  BY DEF CacheAges
<1>2. ScanInv'
  <2>1. Results(doc)' = Results(doc)
    BY <1>1, SameResults
  <2> QED
    BY <1>1, <2>1 DEF DocumentsInv, ScanInv, Recognized, Judged
<1>3. /\ cache \in Seq(Entry) /\ Len(cache) \in Nat /\ DOMAIN cache = 1..Len(cache)
      /\ \A i \in DOMAIN cache : cache[i] \in Entry
  BY LenProperties, ElementOfSeq DEF DocumentsInv, CacheInv
<1>4. \A i \in DOMAIN cache : cache'[i] \in Entry /\ cache'[i].url = cache[i].url
  <2> TAKE i \in DOMAIN cache
  <2>1. cache'[i] = [cache[i] EXCEPT !.age = @ + 1]
    BY <1>1
  <2> QED
    BY <1>3, <2>1, Older
<1>5. cache' \in [1..Len(cache) -> Entry] /\ DOMAIN cache' = DOMAIN cache
  BY <1>1, <1>3, <1>4
<1>6. cache' \in Seq(Entry)
  BY <1>3, <1>5, SeqDef
<1>7. Len(cache') = Len(cache)
  BY <1>3, <1>5, <1>6, LenProperties
<1>8. CacheInv'
  BY <1>4, <1>5, <1>6, <1>7 DEF DocumentsInv, CacheInv, CacheBounded
<1> QED
  BY <1>2, <1>8 DEF DocumentsInv

LEMMA EnrichStep == DocumentsInv /\ Enrich => DocumentsInv'
<1> SUFFICES ASSUME DocumentsInv, Enrich PROVE DocumentsInv'
  OBVIOUS
<1>1. step = "enrich" /\ step' = "judge" /\ UNCHANGED <<formats, doc, parser, field, reason>>
  BY DEF Enrich
<1>2. /\ doc \in Documents /\ parser \in Results(doc) /\ data = parser /\ reason = "none"
      /\ cache \in Seq(Entry) /\ CacheBounded /\ Single(cache)
  BY <1>1 DEF DocumentsInv, ScanInv, CacheInv, Recognized, Single, CacheBounded
<1>3. Len(cache) \in Nat /\ DOMAIN cache = 1..Len(cache) /\ \A i \in DOMAIN cache : cache[i] \in Entry
  BY <1>2, LenProperties, ElementOfSeq
<1>4. MaxEntries \in Nat \ {0} /\ Len(cache) <= MaxEntries
  BY <1>2, DocumentsAssumption DEF DocumentsAssumption, CacheBounded
<1>5. Results(doc)' = Results(doc)
  BY <1>1, SameResults
<1>6. Enriched(parser, data') /\ CacheInv' => DocumentsInv'
  BY <1>1, <1>2, <1>5 DEF DocumentsInv, ScanInv, Recognized, Judged
<1>7. CASE Skip
  BY <1>2, <1>6, <1>7, CacheRests DEF DocumentsInv, Skip, Enriched
<1>8. ASSUME data.type = "TSE_QR_URL", NEW e \in Cached(data), data' = e.data,
             cache' = Append(Without(e.url), e)
      PROVE  DocumentsInv'
  <2>1. PICK i \in DOMAIN cache : e = cache[i] /\ e.url = Address(data)
    BY <1>8 DEF Cached
  <2>2. e \in Entry /\ i \in Places(e.url)
    BY <1>3, <2>1 DEF Places
  <2>3. Enriched(parser, data')
    BY <1>2, <1>8, <2>1, <2>2, EntryIs DEF Enriched, Address
  <2>4. /\ Without(e.url) \in Seq(Entry) /\ Single(Without(e.url)) /\ Len(Without(e.url)) \in Nat
        /\ Len(Without(e.url)) <= Len(cache) - 1
        /\ \A j \in DOMAIN Without(e.url) : Without(e.url)[j].url # e.url
    BY <1>2, <2>2, PoppedCache
  <2>5. cache' \in Seq(Entry) /\ Len(cache') = Len(Without(e.url)) + 1 /\ Single(cache')
    BY <1>8, <2>2, <2>4, AddedSingle
  <2>6. CacheInv'
    BY <1>3, <1>4, <2>4, <2>5 DEF CacheInv, CacheBounded, Single
  <2> QED
    BY <1>6, <2>3, <2>6
<1>9. ASSUME data.type = "TSE_QR_URL", data' = data, cache' = Without(Address(data))
      PROVE  DocumentsInv'
  <2>1. /\ cache' \in Seq(Entry) /\ Single(cache') /\ Len(cache') \in Nat
        /\ Len(cache') <= Len(cache)
    BY <1>2, <1>3, <1>9, PoppedCache
  <2>2. CacheInv'
    BY <1>3, <1>4, <2>1 DEF CacheInv, CacheBounded, Single
  <2> QED
    BY <1>2, <1>6, <1>9, <2>2 DEF Enriched
<1>10. ASSUME data.type = "TSE_QR_URL", NEW shown \in BOOLEAN, data' = Html(data, shown),
              cache' = Stored([url |-> Address(data), data |-> data', age |-> 0])
       PROVE  DocumentsInv'
  <2> DEFINE e == [url |-> Address(data), data |-> data', age |-> 0]
             longer == Append(Without(e.url), e)
  <2>1. data' = Page(data.url, data.cedula, shown)
    BY <1>10, PageOfAddress
  <2>2. About(data, doc)
    BY <1>2, ResultsSay
  <2>3. data.url \in Holders /\ data.cedula \in Cedulas
    BY <1>2, <1>10, <2>2, Addresses
  <2>4. e \in Entry
    BY <2>1, <2>3 DEF Entry, Address
  <2>5. cache' = IF Len(longer) > MaxEntries THEN Tail(longer) ELSE longer
    BY <1>10 DEF Stored
  <2> HIDE DEF e
  <2>6. /\ Without(e.url) \in Seq(Entry) /\ Single(Without(e.url)) /\ Len(Without(e.url)) \in Nat
        /\ Len(Without(e.url)) <= Len(cache)
        /\ \A j \in DOMAIN Without(e.url) : Without(e.url)[j].url # e.url
    BY <1>2, <1>3, PoppedCache
  <2>7. /\ longer \in Seq(Entry) /\ longer # <<>> /\ Single(longer)
        /\ Len(longer) = Len(Without(e.url)) + 1
    BY <2>4, <2>6, AddedSingle
  <2> HIDE DEF longer
  <2>8. Tail(longer) \in Seq(Entry) /\ Len(Tail(longer)) = Len(longer) - 1 /\ Single(Tail(longer))
    BY <2>7, TailSingle
  <2>9. cache' \in Seq(Entry) /\ Single(cache') /\ Len(cache') <= MaxEntries
    BY <1>3, <1>4, <2>5, <2>6, <2>7, <2>8
  <2>10. CacheInv'
    BY <2>9 DEF CacheInv, CacheBounded, Single
  <2>11. Enriched(parser, data')
    BY <1>2, <1>10, <2>1 DEF Enriched
  <2> QED
    BY <1>6, <2>10, <2>11
<1> QED
  BY <1>7, <1>8, <1>9, <1>10 DEF Enrich

LEMMA DocumentsStep == DocumentsInv /\ [DocumentsNext]_documentVars => DocumentsInv'
<1> SUFFICES ASSUME DocumentsInv, [DocumentsNext]_documentVars PROVE DocumentsInv'
  OBVIOUS
<1>1. CASE UNCHANGED documentVars
  <2>1. UNCHANGED <<formats, doc, step, parser, data, field, reason, cache>>
    BY <1>1 DEF documentVars
  <2>2. Results(doc)' = Results(doc)
    BY <2>1, SameResults
  <2>3. ScanInv'
    BY <2>1, <2>2 DEF DocumentsInv, ScanInv, Recognized, Judged
  <2> QED
    BY <2>1, <2>3, CacheRests DEF DocumentsInv
<1> QED
  BY <1>1, ParseStep, EnrichStep, JudgeStep, ConfigureStep, FinishStep, AgeStep DEF DocumentsNext

LEMMA DocumentsKept == DocumentsSpec => []DocumentsInv
  BY InitInv, DocumentsStep, PTL DEF DocumentsSpec

-----------------------------------------------------------------------------
(* What is written.                                                         *)

LEMMA ResolvedIs ==
    ASSUME NEW d, NEW f
    PROVE  LET v == Resolved(d, f)
           IN  \/ v = d.at[f.label] /\ v.is # ""
               \/ v.of = "default" /\ v.is = f.default
               \/ v = Blank
  BY DEF Resolved, Text

LEMMA AcceptedIsTheDocuments ==
    ASSUME NEW p, NEW d, About(p, d), NEW f \in Field, FieldAccepts(p, f),
           f.label \in Names \cup DateLabels \cup {"Apellidos"}
    PROVE  LET v == Resolved(p, f)
           IN  \/ f.label = "Segundo Apellido" /\ v = Blank
               \/ v.of = "default" /\ v.is = f.default
               \/ /\ v.of = d.who /\ (v.col = ColumnOf(f.label) \/ f.label = "Apellidos")
                  /\ f.label \in DateLabels \/ IsName(v)
<1> DEFINE v == Resolved(p, f)
           l == f.label
<1>1. \/ v = p.at[l] /\ v.is # ""
      \/ v.of = "default" /\ v.is = f.default
      \/ v = Blank
  BY ResolvedIs
<1>2. l \in DateLabels => v.is \in Tells
  BY DEF FieldAccepts, IsDate, Tells
<1>3. l \notin DateLabels => IsName(v) \/ (l = "Segundo Apellido" /\ v.is = "")
  BY DEF FieldAccepts, Names
<1>4. Says(p.at[l], l, d.who) /\ Blank.is = ""
  BY LabelsAre, EmptySays DEF About
<1>5. "" \notin Tells /\ (IsName(v) => v.is \in Tells) /\ (v.is = "" => ~IsName(v))
  BY DEF Tells, IsName
<1> HIDE DEF v, l
<1>6. CASE v = p.at[l] /\ v.is # ""
  <2>1. v.is \in Tells /\ (l \in DateLabels \/ IsName(v))
    BY <1>2, <1>3, <1>5, <1>6
  <2>2. v.of = d.who /\ (v.col = ColumnOf(l) \/ l = "Apellidos")
    BY <1>4, <1>6, <2>1 DEF Says
  <2> QED
    BY <2>1, <2>2 DEF v, l
<1>7. CASE v = Blank
  BY <1>2, <1>3, <1>4, <1>5, <1>7 DEF v, l
<1> QED
  BY <1>1, <1>6, <1>7 DEF v, l

LEMMA EnrichedSays ==
    ASSUME NEW d, NEW p \in Results(d), NEW q, Enriched(p, q)
    PROVE  About(q, d)
  BY ResultsSay, PageSays DEF Enriched

LEMMA WrittenFollows == DocumentsInv => WrittenIsTheDocuments
<1> SUFFICES ASSUME DocumentsInv, reason = "written" PROVE WrittenIsTheDocuments
  BY DEF WrittenIsTheDocuments
<1>1. /\ parser \in Results(doc) /\ Enriched(parser, data)
      /\ field \in Fields /\ FieldAccepts(data, field)
  BY DEF DocumentsInv, ScanInv, Recognized
<1>2. About(data, doc) /\ field \in Field
  BY <1>1, EnrichedSays, DocumentsAssumption DEF DocumentsAssumption
<1>3. field.label = "Cedula" =>
         /\ data.cedula \in {Cedula(doc), Stripped(Cedula(doc))}
         /\ Length(data.cedula) \in 9..12
  <2> SUFFICES ASSUME field.label = "Cedula"
               PROVE  /\ data.cedula \in {Cedula(doc), Stripped(Cedula(doc))}
                      /\ Length(data.cedula) \in 9..12
    OBVIOUS
  <2>1. Length(data.cedula) \in 9..12
    BY <1>1 DEF FieldAccepts, IsCedula
  <2>2. Length(NoCedula) = 0
    BY DEF Length, NoCedula
  <2>3. data.cedula # NoCedula
    BY <2>1, <2>2
  <2> QED
    BY <1>2, <2>1, <2>3 DEF About
<1>4. ASSUME field.label \in Names \cup DateLabels \cup {"Apellidos"}
      PROVE  LET v == Resolved(data, field)
             IN  \/ field.label = "Segundo Apellido" /\ v = Blank
                 \/ v.of = "default" /\ v.is = field.default
                 \/ /\ v.of = doc.who /\ (v.col = ColumnOf(field.label) \/ field.label = "Apellidos")
                    /\ field.label \in DateLabels \/ IsName(v)
  BY <1>1, <1>2, <1>4, AcceptedIsTheDocuments
<1> QED
  BY <1>3, <1>4 DEF WrittenIsTheDocuments

\* Whichever parser took a document and whatever the TSE answered, now or for
\* an earlier scan, nothing is written of another person, from another column
\* or from nowhere.
THEOREM NothingForeignIsWritten == DocumentsSpec => []WrittenIsTheDocuments
  BY DocumentsKept, WrittenFollows, PTL

\* The cache of answers never outgrows its limit and never holds two answers
\* for one address.
THEOREM CacheWithinLimit == DocumentsSpec => []CacheBounded
<1>1. DocumentsInv => CacheBounded
  BY DEF DocumentsInv, CacheInv
<1> QED
  BY <1>1, DocumentsKept, PTL

-----------------------------------------------------------------------------
(* The catalogue against the former parsers.                                *)

\* What a column of dates may hold.
LEMMA DateColumn ==
    ASSUME NEW d \in Document, NEW l \in Dates
    PROVE  d.column[l] \in {"", "short", "split", "odd", "past", "future", "early", "no date"}
<1>1. l \in Columns /\ l \notin Names
  BY DEF Columns, Names, Dates
<1>2. d.column[l] \in Holds(l)
  BY <1>1 DEF Document
<1> QED
  BY <1>1, <1>2 DEF Holds, EightDigits

LEMMA CardsAgree ==
    ASSUME NEW d \in Document, NEW p, NEW q \in Core(d),
           p \in EngineCsv(d) \/ p \in EngineXor(d)
    PROVE  /\ p.cedula = q.cedula
           /\ \A l \in Names \cup {"Apellidos"} : Normal(p.at[l]) = q.at[l]
           /\ \A l \in Dates : d.column[l] \notin {"short", "split"} => p.at[l] = q.at[l]
<1>1. /\ ProbablyValid(q)
      /\ d.kind = "csv" => q = CoreCsv(d)
      /\ d.kind = "xor" => q = CoreXor(d)
  BY TseRead DEF Core
<1>2. ASSUME NEW l \in Dates, q.type # "TSE_MDOC_ISO18013"
      PROVE  q.at[l].is \notin {"no date", "short", "split", "odd"}
  BY <1>1, <1>2, LabelsAre DEF ProbablyValid
<1>3. ASSUME NEW l PROVE Cell(d, l).is = d.column[l]
  BY DEF Cell, Text
<1>4. Normal(Blank) = Blank
  BY NormalIs DEF Blank
<1>6. CASE p \in EngineCsv(d)
  <2>0. CsvKept(q, d)
    BY <1>1, <1>6, CsvRead, CoreCsvRead
  <2>1. q.type # "TSE_MDOC_ISO18013" /\ p.cedula = q.cedula
    BY <1>6, <2>0, CsvRead DEF CsvKept
  <2>2. ASSUME NEW l \in Names PROVE Normal(p.at[l]) = q.at[l]
    <3>1. p.at[l] = Cell(d, l)
      BY <1>6, CsvRead
    <3>2. q.at[l] = Normal(Cell(d, l))
      BY <2>0 DEF CsvKept
    <3> QED
      BY <3>1, <3>2
  <2>3. Normal(p.at["Apellidos"]) = q.at["Apellidos"]
    BY <1>6, <2>0, CsvRead, SurnamesNormal DEF CsvKept
  <2>4. ASSUME NEW l \in Dates, d.column[l] \notin {"short", "split"} PROVE p.at[l] = q.at[l]
    <3>1. CASE l = "Fecha de Expiracion"
      BY <1>6, <2>0, <3>1, CsvRead DEF CsvKept
    <3>2. CASE l # "Fecha de Expiracion"
      <4>1. p.at[l] = EngineDate(Cell(d, l)) /\ q.at[l] = CoreDate(Cell(d, l))
        BY <1>6, <2>0, <3>2, CsvRead DEF CsvKept
      <4>2. q.at[l].is # "no date"
        BY <1>2, <2>1
      <4>3. CASE d.column[l] = "odd"
        BY <1>3, <4>1, <4>3 DEF EngineDate, CoreDate
      <4>4. CASE d.column[l] # "odd"
        <5>1. q.at[l] = Normal(Cell(d, l))
          BY <1>3, <2>4, <4>1, <4>4 DEF CoreDate
        <5>2. CASE d.column[l] \notin {"spaced", "control", "no date"}
          <6>1. Normal(Cell(d, l)) = Cell(d, l)
            BY <2>4, <5>2, NormalIs DEF Cell
          <6>2. EngineDate(Cell(d, l)) = Cell(d, l)
            BY <1>3, <2>4, <4>4, <5>2 DEF EngineDate
          <6> QED
            BY <4>1, <5>1, <6>1, <6>2
        <5>3. CASE d.column[l] = "no date"
          <6>1. Normal(Cell(d, l)).is = "no date"
            BY <5>3 DEF Normal, Cell, Text
          <6> QED
            BY <4>2, <5>1, <6>1
        <5>4. d.column[l] \notin {"spaced", "control"}
          BY DateColumn
        <5> QED
          BY <5>2, <5>3, <5>4
      <4> QED
        BY <4>3, <4>4
    <3> QED
      BY <3>1, <3>2
  <2> QED
    BY <2>1, <2>2, <2>3, <2>4
<1>7. CASE p \in EngineXor(d)
  <2>0. XorKept(q, d)
    BY <1>1, <1>7, XorRead, CoreXorRead
  <2>1. q.type # "TSE_MDOC_ISO18013" /\ p.cedula = q.cedula
    BY <1>7, <2>0, XorRead DEF XorKept
  <2>2. ASSUME NEW l \in Names PROVE Normal(p.at[l]) = q.at[l]
    <3>1. CASE l = "Padre"
      BY <1>4, <1>7, <2>0, <3>1, XorRead DEF XorKept
    <3>2. CASE l # "Padre"
      <4>1. p.at[l] = Cell(d, l)
        <5>1. \A m \in Names \ {"Padre"} : p.at[m] = Cell(d, m)
          BY <1>7, XorRead
        <5> QED
          BY <3>2, <5>1
      <4>2. q.at[l] = Normal(Cell(d, l))
        BY <2>0, <3>2 DEF XorKept
      <4> QED
        BY <4>1, <4>2
    <3> QED
      BY <3>1, <3>2
  <2>3. Normal(p.at["Apellidos"]) = q.at["Apellidos"]
    <3>1. p.at["Apellidos"] = Surnames(d)
      BY <1>7, XorRead
    <3>2. q.at["Apellidos"] = CoreSurnames(d)
      BY <2>0 DEF XorKept
    <3> QED
      BY <3>1, <3>2, SurnamesNormal
  <2>4. ASSUME NEW l \in Dates PROVE p.at[l] = q.at[l]
    <3>1. CASE l = "Fecha de Emision"
      BY <1>7, <2>0, <3>1, XorRead DEF XorKept
    <3>2. CASE l # "Fecha de Emision"
      <4>1. p.at[l] = EngineDate(Cell(d, l)) /\ q.at[l] = Cell(d, l)
        BY <1>7, <2>0, <3>2, XorRead DEF XorKept
      <4>2. Cell(d, l).is \notin {"no date", "short", "split", "odd"}
        BY <1>2, <2>1, <4>1
      <4> QED
        BY <4>1, <4>2 DEF EngineDate
    <3> QED
      BY <3>1, <3>2
  <2> QED
    BY <2>1, <2>2, <2>3, <2>4
<1> QED
  BY <1>6, <1>7

\* Where the TSE is asked by the former parser, the page is the one the
\* enrichment would have taken for the catalogue's result.
LEMMA AddressesAgree ==
    ASSUME NEW d, NEW p \in Engine(d), NEW q \in Core(d), p.type = "TSE_QR_URL"
    PROVE  \E shown \in BOOLEAN : q = Html(p, shown)
<1>1. p \in EngineUrl(d)
  BY CsvRead, XorRead, ShortRead DEF Engine
<1>2. d.kind = "tse" /\ p.cedula = Cedula(d) /\ p.url = d.who
  BY <1>1, UrlRead
<1>3. q \in CoreTse(d)
  BY <1>2 DEF Core
<1> QED
  BY <1>2, <1>3, TseRead, PageOfAddress

LEMMA CatalogueFollows ==
    ASSUME NEW d \in Document, NEW p \in Engine(d), NEW q \in Core(d)
    PROVE  /\ p.type = "TSE_QR_URL" => \E shown \in BOOLEAN : q = Html(p, shown)
           /\ p.type # "TSE_QR_URL" =>
                 /\ p.cedula = q.cedula
                 /\ \A l \in Names \cup {"Apellidos"} : Normal(p.at[l]) = q.at[l]
                 /\ \A l \in Dates : d.column[l] \notin {"short", "split"} => p.at[l] = q.at[l]
<1>1. ASSUME p.type # "TSE_QR_URL" PROVE p \in EngineCsv(d) \/ p \in EngineXor(d)
  <2>1. p \notin EngineUrl(d)
    BY <1>1, UrlRead
  <2>2. p \notin EngineShort(d)
    <3>1. CASE d.kind = "short"
      <4>1. q \in CoreTse(d)
        BY <3>1 DEF Core
      <4> QED
        BY <3>1, <4>1, TseRead
    <3>2. CASE d.kind # "short"
      BY <3>2 DEF EngineShort
    <3> QED
      BY <3>1, <3>2
  <2> QED
    BY <2>1, <2>2 DEF Engine
<1> QED
  BY <1>1, AddressesAgree, CardsAgree

\* Where the catalogue and a former parser take the same card, they agree on
\* its cedula, its names but for blanks and control characters, and its dates
\* of eight digits; of an address the former parser made what the enrichment
\* makes of the catalogue's result.
THEOREM CatalogueReplaces == DocumentsSpec => []CatalogueAgrees
<1>1. DocumentsInv => CatalogueAgrees
  <2> SUFFICES ASSUME DocumentsInv, step = "enrich" PROVE CatalogueAgrees
    BY DEF CatalogueAgrees
  <2>1. doc \in Document
    BY DocumentsAssumption DEF DocumentsInv, ScanInv, DocumentsAssumption
  <2> QED
    BY <2>1, CatalogueFollows DEF CatalogueAgrees
<1> QED
  BY <1>1, DocumentsKept, PTL

-----------------------------------------------------------------------------
(* A sound document.                                                        *)

LEMMA SoundResults ==
    ASSUME NEW d \in Documents, Sound(d), formats = "official"
    PROVE  /\ Results(d) # {}
           /\ \A p \in Results(d) :
                 \/ p \in EngineCsv(d) \/ p \in EngineXor(d) \/ p \in EngineShort(d)
                 \/ p \in EngineUrl(d) \cup PartialTse(d)
                 \/ d.kind = "mdoc" /\ p \in PartialMdoc(d)
<1>1. d \in Document
  BY DocumentsAssumption DEF DocumentsAssumption
<1>2. d.zeros \in Nat /\ d.digits \in Nat /\ Length(Cedula(d)) = d.zeros + d.digits
  BY <1>1 DEF Document, Length, Cedula
<1>3. d.kind \in {"csv", "xor", "short", "tse", "mdoc"}
  BY <1>1 DEF Document
<1>4. CASE d.kind = "csv"
  <2>1. EngineCsv(d) # {}
    <3>1. d.whole /\ Length(Cedula(d)) \in 8..12
          /\ "" \notin {d.column["Nombre"], d.column["Primer Apellido"]}
      <4>1. Length(Cedula(d)) \in 9..12
        BY <1>4 DEF Sound
      <4>2. Length(Cedula(d)) \in 8..12
        BY <1>2, <4>1
      <4>3. d.whole /\ "" \notin {d.column["Nombre"], d.column["Primer Apellido"]}
        BY <1>4 DEF Sound
      <4> QED
        BY <4>2, <4>3
    <3> QED
      BY <1>4, <3>1 DEF EngineCsv
  <2> QED
    BY <2>1 DEF Results, Engine
<1>5. CASE d.kind = "xor"
  <2>1. EngineXor(d) # {}
    BY <1>2, <1>5 DEF EngineXor, Sound
  <2> QED
    BY <2>1 DEF Results, Engine
<1>6. CASE d.kind = "short"
  <2>1. EngineShort(d) # {}
    BY <1>2, <1>6 DEF EngineShort, Sound
  <2> QED
    BY <2>1 DEF Results, Engine
<1>7. CASE d.kind = "tse"
  <2>1. PartialTse(d) # {} /\ PartialMdoc(d) = {}
    <3>1. Length(Cedula(d)) \in 5..12
      <4>1. Length(Cedula(d)) \in 9..12
        BY <1>7 DEF Sound
      <4> QED
        BY <1>2, <4>1
    <3> QED
      BY <1>7, <3>1 DEF PartialTse, PartialMdoc
  <2> QED
    BY <2>1 DEF Results, Engine
<1>8. CASE d.kind = "mdoc"
  <2>1. PartialMdoc(d) # {} /\ PartialTse(d) = {}
    BY <1>8 DEF PartialMdoc, PartialTse, Sound
  <2> QED
    BY <1>8, <2>1 DEF Results, Engine
<1> QED
  BY <1>3, <1>4, <1>5, <1>6, <1>7, <1>8

LEMMA CedulaLength ==
    ASSUME NEW d \in Document
    PROVE  /\ Length(Cedula(d)) = d.zeros + d.digits /\ Length(Stripped(Cedula(d))) = d.digits
           /\ d.zeros \in Nat /\ d.digits \in Nat
<1> DEFINE S == [of : {d.who}, zeros : Nat, digits : {d.digits}]
<1>1. d.zeros \in Nat /\ d.digits \in Nat
  BY DEF Document
<1>2. Cedula(d) \in S
  BY <1>1 DEF Cedula
<1>3. ASSUME NEW c \in S PROVE Stripped(c).zeros = 0 /\ Stripped(c).digits = d.digits
  BY <1>3, Zenon DEF Stripped
<1>4. Length(Cedula(d)) = d.zeros + d.digits
  BY DEF Length, Cedula
<1>5. Length(Stripped(Cedula(d))) = 0 + d.digits
  BY <1>2, <1>3 DEF Length
<1> QED
  BY <1>1, <1>4, <1>5

\* What a sound document leaves in the data: its names, or none at all.
NamesGood(q) ==
    /\ \A l \in {"Nombre", "Primer Apellido", "Apellidos"} : IsName(q.at[l])
    /\ \A l \in {"Segundo Apellido", "Padre"} : q.at[l].is = "" \/ IsName(q.at[l])

Nameless(q) == \A l \in Names \cup {"Apellidos"} : ~Known(q.at[l])

Sane(p, q) ==
    /\ q.type # "TSE_MDOC_ISO18013" /\ IsCedula(q.cedula)
    /\ NamesGood(q) \/ (Nameless(q) /\ {p.type, q.type} \cap PersonFormats = {})
    /\ \A l \in DateLabels : q.at[l].is \in {"", "past", "future"}
    /\ \A l \in {"Fecha de Nacimiento", "Fecha de Emision"} : q.at[l].is # "future"

\* Of a card, what it tells stands in the data, but for the accented expiry.
Keeps(q, d) ==
    d.kind \in {"csv", "xor"} =>
        \A l \in Labels : Told(d, l) /\ (l = Accented => d.kind = "csv") => Known(q.at[l])

LEMMA SanePasses == ASSUME NEW p, NEW q, Sane(p, q) PROVE Quality(p, q) = "ok"
<1>1. ~ \E l \in DateLabels : q.at[l].is # "" /\ (~IsDate(q.at[l]) \/ q.at[l].is = "early")
  BY DEF Sane, IsDate
<1>2. ~ \E l \in {"Fecha de Nacimiento", "Fecha de Emision"} : q.at[l].is = "future"
  BY DEF Sane
<1>3. CASE NamesGood(q)
  <2>1. /\ IsName(q.at["Nombre"]) /\ IsName(q.at["Primer Apellido"])
        /\ q.at["Segundo Apellido"].is = "" \/ IsName(q.at["Segundo Apellido"])
    BY <1>3 DEF NamesGood
  <2> QED
    BY <1>1, <1>2, <2>1 DEF Quality, Sane
<1>4. CASE Nameless(q) /\ {p.type, q.type} \cap PersonFormats = {}
  <2>1. ~ \E l \in {"Nombre", "Apellidos", "Primer Apellido", "Segundo Apellido"} : Known(q.at[l])
    BY <1>4 DEF Nameless, Names
  <2> QED
    BY <1>1, <1>2, <1>4, <2>1 DEF Quality, Sane
<1> QED
  BY <1>3, <1>4 DEF Sane

\* Such data is refused only for a field it has no value for.
LEMMA SaneIsRefused ==
    ASSUME NEW p, NEW q, Sane(p, q), NEW f \in Field, ~FieldAccepts(q, f)
    PROVE  /\ f.label \in Labels
           /\ ~Known(q.at[f.label])
           /\ ~Known(Resolved(q, f)) \/ Resolved(q, f).of = "default"
<1> DEFINE v == Resolved(q, f)
           l == f.label
<1>1. l # "Cedula"
  BY LabelsAre DEF FieldAccepts, Sane, Names, DateLabels, Dates, Accented
<1>2. l \in Labels
  BY <1>1 DEF Field
<1>3. \/ v = q.at[l] /\ v.is # ""
      \/ q.at[l].is = "" /\ (v.of = "default" \/ v = Blank)
  BY DEF Resolved, Text
<1>4. ~Known(Blank) /\ \A t : t.is = "" => ~Known(t)
  BY EmptySays DEF Known
<1>5. CASE v = q.at[l] /\ Known(v)
  <2>1. l \in DateLabels => IsDate(v)
    BY <1>5 DEF Sane, IsDate, Known
  <2>2. l \in Names \cup {"Apellidos"} => IsName(v)
    BY <1>5 DEF Sane, NamesGood, Nameless, Names, Known
  <2>3. l = "Sexo" => v.is # ""
    BY <1>5 DEF Known
  <2>4. l \in DateLabels => l \notin Names \cup {"Apellidos", "Sexo", "Cedula"}
    BY DEF DateLabels, Dates, Names, Accented
  <2>5. FieldAccepts(q, f)
    BY <1>1, <2>1, <2>2, <2>3, <2>4 DEF FieldAccepts, Names
  <2> QED
    BY <2>5
<1> QED
  BY <1>2, <1>3, <1>4, <1>5

LEMMA SexRead ==
    ASSUME NEW d, NEW p, p \in EngineCsv(d) \/ p \in EngineXor(d)
    PROVE  \E codes : p.at["Sexo"] = Sex(Cell(d, "Sexo"), codes)
<1>1. "Sexo" \in Labels /\ "Sexo" \in Columns /\ "Sexo" \notin Dates
  BY DEF Labels, Columns, Dates
<1>2. CASE p \in EngineCsv(d)
  <2> DEFINE at == [c \in Columns \ {"Fecha de Expiracion"} |->
                      IF c \in Dates THEN EngineDate(Cell(d, c))
                      ELSE IF c = "Sexo" THEN Sex(Cell(d, c), {"M"}) ELSE Cell(d, c)]
  <2>1. p = Person("MENOR_CSV", Stripped(Cedula(d)), at)
    BY <1>2 DEF EngineCsv
  <2>2. DOMAIN at \subseteq Columns /\ "Sexo" \in DOMAIN at /\ at["Sexo"] = Sex(Cell(d, "Sexo"), {"M"})
    BY <1>1
  <2> HIDE DEF at
  <2>3. MadeOf(Person("MENOR_CSV", Stripped(Cedula(d)), at), "MENOR_CSV", Stripped(Cedula(d)), at)
    BY <2>2, PersonRead
  <2> QED
    BY <2>1, <2>2, <2>3 DEF MadeOf
<1>3. CASE p \in EngineXor(d)
  <2> DEFINE at == [c \in Columns \ {"Padre", "Fecha de Emision"} |->
                      IF c \in Dates THEN EngineDate(Cell(d, c))
                      ELSE IF c = "Sexo" THEN Sex(Cell(d, c), {"M", "1"}) ELSE Cell(d, c)]
  <2>1. p = Person("ADULTO_XOR_CLASICO", Cedula(d), at)
    BY <1>3 DEF EngineXor
  <2>2. DOMAIN at \subseteq Columns /\ "Sexo" \in DOMAIN at /\ at["Sexo"] = Sex(Cell(d, "Sexo"), {"M", "1"})
    BY <1>1
  <2> HIDE DEF at
  <2>3. MadeOf(Person("ADULTO_XOR_CLASICO", Cedula(d), at), "ADULTO_XOR_CLASICO", Cedula(d), at)
    BY <2>2, PersonRead
  <2> QED
    BY <2>1, <2>2, <2>3 DEF MadeOf
<1> QED
  BY <1>2, <1>3

\* A date of a card that passes _date: nothing, past or, of expiry, future.
LEMMA EngineDateSane ==
    ASSUME NEW d \in Document, NEW l \in Dates, d.column[l] # "early"
    PROVE  /\ EngineDate(Cell(d, l)).is \in {"", "past", "future"}
           /\ d.column[l] # "future" => EngineDate(Cell(d, l)).is # "future"
           /\ d.column[l] \notin {"", "no date", "split", "odd"} => Known(EngineDate(Cell(d, l)))
<1>1. d.column[l] \in {"", "short", "split", "odd", "past", "future", "early", "no date"}
  BY DateColumn
<1>2. Cell(d, l).is = d.column[l] /\ Blank.is = ""
  BY EmptySays DEF Cell, Text
<1>3. CASE d.column[l] = "short"
  BY <1>2, <1>3 DEF EngineDate, Text, Known
<1> QED
  BY <1>1, <1>2, <1>3 DEF EngineDate, Known

SurnamesGood(d) ==
    /\ d.column["Primer Apellido"] \in {"name", "spaced"}
    /\ d.column["Segundo Apellido"] \in {"", "name", "spaced"}

LEMMA SurnamesSane == ASSUME NEW d, SurnamesGood(d) PROVE IsName(Surnames(d))
<1>1. \A who, col : \A is \in {"name", "spaced"} : IsName(Text(who, col, is))
  BY DEF IsName, Text
<1> QED
  BY <1>1, SurnamesRead DEF Cell, SurnamesGood

LEMMA CardKeeps ==
    ASSUME NEW d \in Document, Sound(d), NEW p, p \in EngineCsv(d) \/ p \in EngineXor(d)
    PROVE  Keeps(p, d)
<1> SUFFICES ASSUME NEW l \in Labels, Told(d, l), l = Accented => d.kind = "csv"
             PROVE  Known(p.at[l])
  BY DEF Keeps
<1> DEFINE known == IF d.kind = "csv" THEN Columns \ {"Fecha de Expiracion"}
                    ELSE IF d.kind = "xor" THEN Columns \ {"Padre", "Fecha de Emision"} ELSE {}
<1>1. d.kind \in {"csv", "xor"}
  BY CsvRead, XorRead
<1>2. l # "Cedula"
  BY DEF Labels, Columns, Names, Dates, Accented
<1>3. \/ l = "Apellidos"
      \/ ColumnOf(l) \in known /\ d.column[ColumnOf(l)] \notin {"", "no date", "split", "odd"}
  BY <1>2 DEF Told
<1>4. CASE l = "Apellidos"
  <2>1. p.at[l] = Surnames(d)
    BY <1>4, CsvRead, XorRead
  <2>2. IsName(Surnames(d))
    <3>1. SurnamesGood(d)
      BY <1>1 DEF Sound, SurnamesGood
    <3> QED
      BY <3>1, SurnamesSane
  <2> QED
    BY <2>1, <2>2 DEF IsName, Known
<1>5. ASSUME l # "Apellidos"
      PROVE  l # Accented /\ ColumnOf(l) = l /\ l \in known
             /\ d.column[l] \notin {"", "no date", "split", "odd"}
  <2>1. ColumnOf(l) \in known /\ d.column[ColumnOf(l)] \notin {"", "no date", "split", "odd"}
    BY <1>3, <1>5
  <2>2. l # Accented
    BY <2>1 DEF ColumnOf
  <2> QED
    BY <2>1, <2>2 DEF ColumnOf
<1>6. CASE l \in Names
  <2>1. p.at[l] = Cell(d, l)
    <3>1. l # "Apellidos"
      BY <1>6, LabelsAre
    <3>2. CASE p \in EngineCsv(d)
      BY <1>6, <3>2, CsvRead
    <3>3. CASE p \in EngineXor(d)
      <4>1. l \in Names \ {"Padre"}
        BY <1>5, <1>6, <3>1, <3>3, XorRead
      <4> QED
        BY <3>3, <4>1, XorRead
    <3> QED
      BY <3>2, <3>3
  <2>2. d.column[l] \in {"name", "spaced"}
    <3>1. l \in {"Nombre", "Primer Apellido", "Segundo Apellido", "Padre"} /\ d.column[l] # ""
      BY <1>5, <1>6, LabelsAre DEF Names
    <3> QED
      BY <1>1, <3>1 DEF Sound
  <2>3. Cell(d, l).is = d.column[l]
    BY DEF Cell, Text
  <2> QED
    BY <2>1, <2>2, <2>3 DEF Known
<1>7. CASE l \in Dates
  <2>1. l # "Apellidos" /\ l \in known /\ d.column[l] \notin {"", "no date", "split", "odd"}
    BY <1>5, <1>7, LabelsAre
  <2>2. p.at[l] = EngineDate(Cell(d, l))
    <3>1. CASE p \in EngineCsv(d)
      <4>1. d.kind = "csv" /\ \A m \in Dates \ {"Fecha de Expiracion"} : p.at[m] = EngineDate(Cell(d, m))
        BY <3>1, CsvRead
      <4> QED
        BY <1>7, <2>1, <4>1
    <3>2. CASE p \in EngineXor(d)
      <4>1. d.kind = "xor" /\ \A m \in Dates \ {"Fecha de Emision"} : p.at[m] = EngineDate(Cell(d, m))
        BY <3>2, XorRead
      <4> QED
        BY <1>7, <2>1, <4>1
    <3> QED
      BY <3>1, <3>2
  <2>3. d.column[l] # "early"
    BY <1>1, <1>7 DEF Sound, Dates
  <2> QED
    BY <1>7, <2>1, <2>2, <2>3, EngineDateSane
<1>8. CASE l = "Sexo"
  <2>1. l \notin Names /\ l \notin Dates /\ l \in Columns /\ d.column[l] # ""
    BY <1>5, <1>8, LabelsAre DEF Columns
  <2>2. d.column[l] \in {"M", "1"}
    BY <2>1 DEF Document, Holds
  <2>3. \E codes : p.at[l] = Sex(Cell(d, l), codes)
    BY <1>8, SexRead
  <2>4. Cell(d, l).is = d.column[l]
    BY DEF Cell, Text
  <2> QED
    <3>1. PICK codes : p.at[l] = Sex(Cell(d, l), codes)
      BY <2>3
    <3>2. Sex(Cell(d, l), codes).is \in {"sex", d.column[l]}
      BY <2>4 DEF Sex, Cell, Text
    <3> QED
      BY <2>2, <3>1, <3>2 DEF Known
<1> QED
  BY <1>4, <1>5, <1>6, <1>7, <1>8, LabelsAre

LEMMA CardIsSane ==
    ASSUME NEW d \in Document, Sound(d), NEW p, p \in EngineCsv(d) \/ p \in EngineXor(d)
    PROVE  d.kind # "mdoc" /\ p.type # "TSE_QR_URL" /\ Sane(p, p)
<1>1. d.kind \in {"csv", "xor"} /\ p.type \in {"MENOR_CSV", "ADULTO_XOR_CLASICO"}
      /\ p.cedula \in {Cedula(d), Stripped(Cedula(d))}
  BY CsvRead, XorRead
<1>2. d.digits \in 9..12 /\ Length(Cedula(d)) \in 9..12
  BY <1>1 DEF Sound
<1>3. IsCedula(p.cedula)
  BY <1>1, <1>2, CedulaLength DEF IsCedula
<1>4. /\ d.column["Nombre"] \in {"name", "spaced"}
      /\ d.column["Primer Apellido"] \in {"name", "spaced"}
      /\ d.column["Segundo Apellido"] \in {"", "name", "spaced"}
      /\ d.column["Padre"] \in {"", "name", "spaced"}
      /\ d.column["Fecha de Nacimiento"] \notin {"future", "early"}
      /\ d.column["Fecha de Emision"] \notin {"future", "early"}
      /\ d.column["Fecha de Expiracion"] # "early"
  BY <1>1 DEF Sound
<1>5. \A l : Cell(d, l).is = d.column[l]
  BY DEF Cell, Text
<1>6. NamesGood(p)
  <2>1. /\ p.at["Nombre"] = Cell(d, "Nombre") /\ p.at["Primer Apellido"] = Cell(d, "Primer Apellido")
        /\ p.at["Segundo Apellido"] = Cell(d, "Segundo Apellido") /\ p.at["Apellidos"] = Surnames(d)
        /\ p.at["Padre"] \in {Cell(d, "Padre"), Blank}
    <3>1. {"Nombre", "Primer Apellido", "Segundo Apellido"} \subseteq Names \ {"Padre"}
          /\ "Padre" \in Names
      BY DEF Names
    <3>2. CASE p \in EngineCsv(d)
      BY <3>1, <3>2, CsvRead
    <3>3. CASE p \in EngineXor(d)
      BY <3>1, <3>3, XorRead
    <3> QED
      BY <3>2, <3>3
  <2>2. IsName(p.at["Apellidos"])
    <3>1. SurnamesGood(d)
      BY <1>4 DEF SurnamesGood
    <3> QED
      BY <2>1, <3>1, SurnamesSane
  <2>3. IsName(p.at["Nombre"]) /\ IsName(p.at["Primer Apellido"])
    BY <1>4, <1>5, <2>1 DEF IsName
  <2>4. /\ p.at["Segundo Apellido"].is = "" \/ IsName(p.at["Segundo Apellido"])
        /\ p.at["Padre"].is = "" \/ IsName(p.at["Padre"])
    BY <1>4, <1>5, <2>1, EmptySays DEF IsName
  <2> QED
    BY <2>2, <2>3, <2>4 DEF NamesGood
<1>7. ASSUME NEW l \in Dates PROVE p.at[l] \in {EngineDate(Cell(d, l)), Blank}
  <2>1. CASE p \in EngineCsv(d)
    BY <2>1, CsvRead
  <2>2. CASE p \in EngineXor(d)
    <3>1. l = "Fecha de Emision" \/ l \in Dates \ {"Fecha de Emision"}
      OBVIOUS
    <3> QED
      BY <2>2, <3>1, XorRead
  <2> QED
    BY <2>1, <2>2
<1>8. \A l \in DateLabels : p.at[l].is \in {"", "past", "future"}
  <2>1. ASSUME NEW l \in Dates PROVE p.at[l].is \in {"", "past", "future"}
    <3>1. d.column[l] # "early"
      BY <1>4 DEF Dates
    <3> QED
      BY <1>7, <3>1, EngineDateSane, EmptySays
  <2>2. p.at[Accented].is = ""
    BY CsvRead, XorRead, EmptySays
  <2> QED
    BY <2>1, <2>2, LabelsAre
<1>9. \A l \in {"Fecha de Nacimiento", "Fecha de Emision"} : p.at[l].is # "future"
  <2> TAKE l \in {"Fecha de Nacimiento", "Fecha de Emision"}
  <2>1. l \in Dates /\ d.column[l] # "early" /\ d.column[l] # "future"
    BY <1>4 DEF Dates
  <2> QED
    BY <1>7, <2>1, EngineDateSane, EmptySays
<1> QED
  BY <1>1, <1>3, <1>6, <1>8, <1>9 DEF Sane

\* What a text is.
LEMMA TextSays ==
    ASSUME NEW who, NEW col, NEW is
    PROVE  Text(who, col, is).is = is
  BY DEF Text

\* Codes and addresses leave the data without a name or a date.
LEMMA CodeIsSane ==
    ASSUME NEW d \in Document, Sound(d), NEW p,
           p \in EngineShort(d) \/ p \in EngineUrl(d) \cup PartialTse(d)
    PROVE  d.kind # "mdoc" /\ Sane(p, p)
<1>1. d.kind \in {"short", "tse"} /\ p.type \in {"CODIGO_CORTO_CI", "TSE_QR_URL"} /\ p.cedula = Cedula(d)
  BY ShortRead, UrlRead DEF EngineShort
<1>2. IsCedula(p.cedula)
  BY <1>1 DEF Sound, IsCedula
<1>3. \A l \in Labels : p.at[l] = Nobodys[l]
  <2>1. CASE p \in EngineShort(d)
    BY <2>1, ShortRead
  <2>2. CASE p \in EngineUrl(d) \cup PartialTse(d)
    <3>1. d.column["Fecha de Emision"] \notin EightDigits
      BY <2>2, UrlRead DEF Sound
    <3>2. p.at["Fecha de Emision"] = Blank
      BY <2>2, <3>1, UrlRead
    <3>3. "Fecha de Emision" \in Labels
      BY DEF Labels, Columns, Dates
    <3>4. Nobodys["Fecha de Emision"] = Blank
      BY <3>3, NobodysRead
    <3> QED
      BY <2>2, <3>2, <3>4, UrlRead
  <2> QED
    BY <2>1, <2>2
<1>4. ~Known(Blank) /\ ~Known(Unknown) /\ Blank.is = ""
  BY DEF Known, Blank, Unknown, Text
<1>5. Nameless(p)
  BY <1>3, <1>4, NobodysRead, LabelsAre DEF Nameless
<1>6. \A l \in DateLabels : p.at[l] = Blank
  <2>1. \A l \in DateLabels : l \in Labels \ {"Nombre", "Primer Apellido", "Apellidos", "Sexo"}
    BY DEF Labels, Columns, Names, Dates, DateLabels, Accented
  <2> QED
    BY <1>3, <2>1, NobodysRead
<1>7. {"Fecha de Nacimiento", "Fecha de Emision"} \subseteq DateLabels
  BY DEF DateLabels, Dates
<1>8. {p.type} \cap PersonFormats = {}
  BY <1>1 DEF PersonFormats
<1> QED
  BY <1>1, <1>2, <1>4, <1>5, <1>6, <1>7, <1>8 DEF Sane

LEMMA ShownIs ==
    ASSUME NEW q, NEW h, NEW c, Answers(q, h, c, TRUE)
    PROVE  /\ q.at["Nombre"].is = "name" /\ q.at["Primer Apellido"].is = "name"
           /\ q.at["Segundo Apellido"].is = "name" /\ q.at["Apellidos"].is = "name"
           /\ q.at["Padre"].is = "" /\ q.at["Fecha de Emision"].is = ""
           /\ q.at["Fecha de Nacimiento"].is = "past" /\ q.at["Fecha de Expiracion"].is = "future"
           /\ q.at[Accented].is = "future"
<1>1. ASSUME NEW l \in Names \ {"Padre"} PROVE q.at[l].is = "name"
  <2>1. q.at[l] = Text(h, l, "name")
    BY DEF Answers
  <2> QED
    BY <2>1 DEF Text
<1>2. q.at["Apellidos"].is = "name"
  <2> DEFINE shows == q.at["Apellidos"]
  <2>1. shows = Text(h, "Primer Apellido", "name")
    BY DEF Answers
  <2> HIDE DEF shows
  <2>2. shows.is = "name"
    BY <2>1, TextSays
  <2> QED
    BY <2>2 DEF shows
<1>3. q.at["Fecha de Nacimiento"].is = "past"
  <2> DEFINE shows == q.at["Fecha de Nacimiento"]
  <2>1. shows = Text(h, "Fecha de Nacimiento", "past")
    BY DEF Answers
  <2> HIDE DEF shows
  <2>2. shows.is = "past"
    BY <2>1, TextSays
  <2> QED
    BY <2>2 DEF shows
<1>4. q.at["Fecha de Expiracion"].is = "future"
  <2> DEFINE shows == q.at["Fecha de Expiracion"]
  <2>1. shows = Text(h, "Fecha de Expiracion", "future")
    BY DEF Answers
  <2> HIDE DEF shows
  <2>2. shows.is = "future"
    BY <2>1, TextSays
  <2> QED
    BY <2>2 DEF shows
<1>5. q.at["Padre"].is = "" /\ q.at["Fecha de Emision"].is = ""
  <2>1. Nobodys["Padre"] = Blank /\ Nobodys["Fecha de Emision"] = Blank
    BY NobodysRead DEF Labels, Columns, Names, Dates
  <2>2. q.at["Padre"] = Blank /\ q.at["Fecha de Emision"] = Blank
    BY <2>1 DEF Answers
  <2> QED
    BY <2>2, EmptySays
<1>6. {"Nombre", "Primer Apellido", "Segundo Apellido"} \subseteq Names \ {"Padre"}
  BY DEF Names
<1>7. q.at[Accented].is = "future"
  <2> DEFINE shows == q.at[Accented]
  <2>1. shows = Text(h, "Fecha de Expiracion", "future")
    BY DEF Answers
  <2> HIDE DEF shows
  <2>2. shows.is = "future"
    BY <2>1, TextSays
  <2> QED
    BY <2>2 DEF shows
<1> QED
  BY <1>1, <1>2, <1>3, <1>4, <1>5, <1>6, <1>7

LEMMA PageIsSane ==
    ASSUME NEW p, NEW q, Sane(p, p), p.type = "TSE_QR_URL", NEW shown \in BOOLEAN,
           q = Page(p.url, p.cedula, shown)
    PROVE  Sane(p, q)
<1>1. Answers(q, p.url, p.cedula, shown)
  BY PageRead
<1>2. q.type = "TSE_QR_URL" /\ q.cedula = p.cedula /\ IsCedula(q.cedula)
  BY <1>1 DEF Answers, Sane
<1>3. ~Known(Blank) /\ ~Known(Unknown) /\ Blank.is = ""
  BY DEF Known, Blank, Unknown, Text
<1>5. CASE ~shown
  <2>1. q.at = Nobodys
    BY <1>1, <1>5 DEF Answers
  <2>2. Nameless(q)
    BY <1>3, <2>1, NobodysRead, LabelsAre DEF Nameless
  <2>3. \A l \in DateLabels : q.at[l].is = ""
    <3>1. \A l \in DateLabels : l \in Labels \ {"Nombre", "Primer Apellido", "Apellidos", "Sexo"}
      BY DEF Labels, Columns, Names, Dates, DateLabels, Accented
    <3> QED
      BY <1>3, <2>1, <3>1, NobodysRead
  <2>4. {p.type, q.type} \cap PersonFormats = {}
    BY <1>2 DEF PersonFormats
  <2> QED
    BY <1>2, <2>2, <2>3, <2>4 DEF Sane, DateLabels, Dates
<1>6. CASE shown
  <2>1. Answers(q, p.url, p.cedula, TRUE)
    BY <1>1, <1>6
  <2>2. /\ q.at["Nombre"].is = "name" /\ q.at["Primer Apellido"].is = "name"
        /\ q.at["Segundo Apellido"].is = "name" /\ q.at["Apellidos"].is = "name"
        /\ q.at["Padre"].is = "" /\ q.at["Fecha de Emision"].is = ""
        /\ q.at["Fecha de Nacimiento"].is = "past" /\ q.at["Fecha de Expiracion"].is = "future"
        /\ q.at[Accented].is = "future"
    BY <2>1, ShownIs
  <2>3. NamesGood(q)
    BY <2>2 DEF NamesGood, IsName
  <2>4. /\ \A l \in DateLabels : q.at[l].is \in {"", "past", "future"}
        /\ \A l \in {"Fecha de Nacimiento", "Fecha de Emision"} : q.at[l].is # "future"
    BY <2>2 DEF DateLabels, Dates
  <2> QED
    BY <1>2, <2>3, <2>4 DEF Sane
<1> QED
  BY <1>5, <1>6

LEMMA SoundData ==
    ASSUME NEW d \in Documents, Sound(d), formats = "official", NEW p \in Results(d),
           NEW q, Enriched(p, q)
    PROVE  Quality(p, q) = "ok" /\ (d.kind # "mdoc" => Sane(p, q)) /\ Keeps(q, d)
<1>1. d \in Document
  BY DocumentsAssumption DEF DocumentsAssumption
<1>2. CASE d.kind = "mdoc" /\ p \in PartialMdoc(d)
  <2>1. p.type = "TSE_MDOC_ISO18013" /\ p.url = "official"
    BY <1>2, MdocRead DEF Sound
  <2>2. q = p
    BY <2>1 DEF Enriched
  <2> QED
    BY <1>2, <2>1, <2>2 DEF Quality, Keeps
<1>3. CASE p \in EngineCsv(d) \/ p \in EngineXor(d)
  BY <1>1, <1>3, CardIsSane, CardKeeps, SanePasses DEF Enriched
<1>4. CASE p \in EngineShort(d) \/ p \in EngineUrl(d) \cup PartialTse(d)
  <2>1. d.kind \in {"short", "tse"}
    BY <1>4, UrlRead DEF EngineShort
  <2>2. Keeps(q, d)
    BY <2>1 DEF Keeps
  <2> QED
    BY <1>1, <1>4, <2>2, CodeIsSane, PageIsSane, SanePasses DEF Enriched
<1> QED
  BY <1>2, <1>3, <1>4, SoundResults

LEMMA SoundFollows == DocumentsInv => SoundDocumentPasses
<1> DEFINE Refused == /\ ~Known(Resolved(data, field)) \/ Resolved(data, field).of = "default"
                      /\ Told(doc, field.label) => field.label = Accented /\ doc.kind = "xor"
<1> SUFFICES ASSUME DocumentsInv, formats = "official", step # "idle", Sound(doc)
             PROVE  /\ reason \in {"none", "written", "configured_missing"}
                    /\ reason = "configured_missing" /\ doc.kind # "mdoc" => Refused
  BY DEF SoundDocumentPasses
<1>1. doc \in Documents /\ reason # "parser_error"
  BY DEF DocumentsInv, ScanInv
<1>2. Results(doc) # {}
  BY <1>1, SoundResults
<1>3. Recognized /\ parser \in Results(doc) /\ Enriched(parser, data)
  BY <1>1, <1>2 DEF DocumentsInv, ScanInv, Recognized
<1>4. /\ Quality(parser, data) = "ok" /\ Keeps(data, doc)
      /\ doc.kind # "mdoc" => Sane(parser, data)
  BY <1>1, <1>3, SoundData
<1>5. reason \in {"none", "written", "configured_missing"}
  BY <1>3, <1>4 DEF DocumentsInv, ScanInv
<1>6. ASSUME reason = "configured_missing", doc.kind # "mdoc" PROVE Refused
  <2>1. field \in Fields /\ ~FieldAccepts(data, field)
    BY <1>6 DEF DocumentsInv, ScanInv
  <2>2. field \in Field
    BY <2>1, DocumentsAssumption DEF DocumentsAssumption
  <2>3. /\ field.label \in Labels /\ ~Known(data.at[field.label])
        /\ ~Known(Resolved(data, field)) \/ Resolved(data, field).of = "default"
    BY <1>4, <1>6, <2>1, <2>2, SaneIsRefused
  <2>4. ASSUME Told(doc, field.label) PROVE field.label = Accented /\ doc.kind = "xor"
    <3>1. field.label # "Cedula"
      BY <2>3 DEF Labels, Columns, Names, Dates, Accented
    <3>2. doc.kind \in {"csv", "xor"}
      BY <2>4, <3>1 DEF Told
    <3> QED
      BY <1>4, <2>3, <2>4, <3>2 DEF Keeps
  <2> QED
    BY <2>3, <2>4
<1> QED
  BY <1>5, <1>6

\* A document with nothing wrong in it passes the catalogue, the enrichment,
\* whatever it answers, and the semantic check; at the configuration it fails
\* only for a field whose value it does not tell, or for the accented date of
\* expiry of an XOR block, which the catalogue never fills.
THEOREM SoundDocumentsPass == DocumentsSpec => []SoundDocumentPasses
  BY DocumentsKept, SoundFollows, PTL

=============================================================================
