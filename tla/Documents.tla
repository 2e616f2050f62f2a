------------------------------- MODULE Documents -------------------------------
(***************************************************************************)
(* What becomes of the text of one scan: the parsers (parser_service.py,    *)
(* format_engine.py with its catalogue formatos_cedulas.json, the parsers   *)
(* of lector_core.py behind them), the enrichment of a TSE address with its *)
(* cache, the semantic check of the data and the check against a field of   *)
(* the active configuration (scan_quality.py).                             *)
(*                                                                         *)
(* A document is what its columns hold; a text is whose it is, the column   *)
(* it was taken from and what it is: a name, a date, noise, nothing.  Madre *)
(* is treated as Padre is; the two places are copied and never checked.     *)
(***************************************************************************)
EXTENDS Naturals, Sequences, FiniteSets

CONSTANTS
    Holders,       \* the persons whose documents are scanned
    Documents,     \* the documents scanned, see Document
    Fields,        \* the fields a configuration may have, see Field
    MaxEntries,    \* of the cache
    TimeToLive     \* of an entry of the cache

Names == {"Nombre", "Primer Apellido", "Segundo Apellido", "Padre"}
Dates == {"Fecha de Nacimiento", "Fecha de Expiracion", "Fecha de Emision"}
Columns == Names \cup Dates \cup {"Sexo"}

\* The date of expiry has two labels, with and without the accent, and one column.
Accented == "Fecha de Expiracion, con acento"
DateLabels == Dates \cup {Accented}
Labels == Columns \cup {"Apellidos", Accented}
ColumnOf(l) == IF l = Accented THEN "Fecha de Expiracion" ELSE l

EightDigits == {"past", "future", "early", "no date"}

\* What a column of a document may hold.  A name: with two blanks in a row, with
\* control characters in it, of one letter, or with what no name has.  A date:
\* eight digits, six or seven that strptime reads, eight with control characters
\* among them, or anything else.
Holds(c) == IF c \in Names THEN {"", "name", "spaced", "control", "initial", "noise"}
            ELSE IF c \in Dates THEN {"", "short", "split", "odd"} \cup EightDigits
            ELSE {"", "M", "1"}

\* kind: quoted CSV, XOR block, short code, TSE address, mobile document; whole: 13
\* fields, 108 bytes, 80 characters; host: of the address in a mobile document.
Document == [kind : {"csv", "xor", "short", "tse", "mdoc"}, who : Holders,
             zeros : 0..1, digits : 0..13, whole : BOOLEAN,
             host : {"official", "contains", "other"},
             column : {at \in [Columns -> UNION {Holds(c) : c \in Columns}] :
                          \A c \in Columns : at[c] \in Holds(c)}]

Field == [label : Labels \cup {"Cedula"},
          empty_policy : {"preserve", "clear", "default", "cancel"},
          default : {"", "name", "past", "noise"}]

ASSUME DocumentsAssumption ==
    /\ Documents \subseteq Document /\ Fields \subseteq Field
    /\ MaxEntries \in Nat \ {0} /\ TimeToLive \in Nat

VARIABLES
    formats,       \* the catalogue of formats: "official", "missing", "broken"
    doc,           \* the document scanned
    step,          \* position of the pipeline
    parser,        \* the parser's result: who recognised it, and its data
    data,          \* the data, enriched
    field,         \* the field of the configuration it is checked for
    reason,        \* why the scan was rejected, or "written"
    cache          \* the answers of the TSE, least recently used first

documentVars == <<formats, doc, step, parser, data, field, reason, cache>>
--------------------------------------------------------------------------------
(* Texts.                                                                   *)
Text(who, col, is) == [of |-> who, col |-> col, is |-> is]
Blank == Text("nobody", "none", "")
Unknown == Text("nobody", "none", "DESCONOCIDO")
Cell(d, c) == Text(d.who, c, d.column[c])

\* A cedula with its leading zeros, and what removes them.
Cedula(d) == [of |-> d.who, zeros |-> d.zeros, digits |-> d.digits]
NoCedula == [of |-> "nobody", zeros |-> 0, digits |-> 0]
Length(c) == c.zeros + c.digits
Stripped(c) == [c EXCEPT !.zeros = 0]

\* "apellido1 apellido2".strip()
Joined(a, b) ==
    IF a.is = "" THEN b ELSE IF b.is = "" THEN a
    ELSE Text(a.of, a.col, IF "noise" \in {a.is, b.is} THEN "noise"
                           ELSE IF "control" \in {a.is, b.is} THEN "control"
                           ELSE IF "spaced" \in {a.is, b.is} THEN "spaced" ELSE "name")

\* Regression: a date that cannot be converted is kept.
EngineDateAsIs(t) == t

\* _date of the engine: what strptime cannot read is dropped.
EngineDate(t) == IF t.is \in {"no date", "split", "odd"} THEN Blank
                 ELSE IF t.is = "short" THEN Text(t.of, t.col, "past") ELSE t

\* _normalize_text of the former parsers: one blank, no control characters.
Normal(t) == Text(t.of, t.col, IF t.is \in {"spaced", "control"} THEN "name"
                               ELSE IF t.is = "split" THEN "past" ELSE t.is)

\* The data of a document that names nobody.
Nobodys == [l \in Labels |-> IF l \in {"Nombre", "Primer Apellido", "Apellidos", "Sexo"}
                             THEN Unknown ELSE Blank]
NobodysData(id, cedula, url) == [type |-> id, cedula |-> cedula, url |-> url, at |-> Nobodys]

Person(id, cedula, at) ==
    [type |-> id, cedula |-> cedula, url |-> "none",
     at |-> [l \in Labels |-> IF l \in DOMAIN at THEN at[l]
                              ELSE IF l = "Apellidos"
                                   THEN Joined(at["Primer Apellido"], at["Segundo Apellido"])
                              ELSE Blank]]
--------------------------------------------------------------------------------
(* format_engine.py with the catalogue: a parser gives a set, the data or   *)
(* nothing.  CEDULA_CSV_EXTENDIDA_V2 asks for more than MENOR_CSV, which    *)
(* stands before it, so it never has a document of its own.                 *)
Sex(t, codes) == IF t.is \in codes THEN [t EXCEPT !.is = "sex"] ELSE t

EngineCsv(d) ==
    {Person("MENOR_CSV", Stripped(Cedula(d)),
            [c \in Columns \ {"Fecha de Expiracion"} |->
                IF c \in Dates THEN EngineDate(Cell(d, c))
                ELSE IF c = "Sexo" THEN Sex(Cell(d, c), {"M"}) ELSE Cell(d, c)]) :
        x \in {x \in {d} : /\ d.kind = "csv" /\ d.whole /\ Length(Cedula(d)) \in 8..12
                           /\ "" \notin {d.column["Nombre"], d.column["Primer Apellido"]}}}

EngineXor(d) ==
    {Person("ADULTO_XOR_CLASICO", Cedula(d),
            [c \in Columns \ {"Padre", "Fecha de Emision"} |->
                IF c \in Dates THEN EngineDate(Cell(d, c))
                ELSE IF c = "Sexo" THEN Sex(Cell(d, c), {"M", "1"}) ELSE Cell(d, c)]) :
        x \in {x \in {d} : /\ d.kind = "xor" /\ d.whole /\ Length(Cedula(d)) = 9
                           /\ {d.column["Nombre"], d.column["Primer Apellido"]} \cap {"", "initial"} = {}}}

EngineShort(d) ==
    {NobodysData("CODIGO_CORTO_CI", Cedula(x), "none") :
        x \in {x \in {d} : d.kind = "short" /\ Length(Cedula(d)) \in 9..12}}

\* The parameter sol is kept as date of issue if it has eight digits, unconverted.
EngineUrl(d) ==
    {[type |-> "TSE_QR_URL", cedula |-> Cedula(x), url |-> x.who,
      at |-> [Nobodys EXCEPT !["Fecha de Emision"] =
                 IF x.column["Fecha de Emision"] \in EightDigits
                 THEN Text(x.who, "Fecha de Emision", "odd") ELSE Blank]] :
        x \in {x \in {d} : d.kind = "tse" /\ d.whole /\ Length(Cedula(d)) \in 9..12}}

Engine(d) == EngineCsv(d) \cup EngineXor(d) \cup EngineShort(d) \cup EngineUrl(d)

(* The two safe parsers of parser_service.py.                               *)
PartialTse(d) ==
    {NobodysData("TSE_QR_URL", Cedula(x), x.who) :
        x \in {x \in {d} : d.kind = "tse" /\ Length(Cedula(d)) \in 5..12}}

PartialMdoc(d) ==
    {NobodysData("TSE_MDOC_ISO18013", NoCedula, x.host) :
        x \in {x \in {d} : d.kind = "mdoc" /\ d.host = "official"}}
--------------------------------------------------------------------------------
(* lector_core.py: parse_cedula_unificada and _is_probably_valid_person.    *)
\* decode_cedula_data formats any eight digits, and keeps what else it finds.
CoreXor(d) ==
    Person("ADULTO_XOR", Cedula(d),
           [l \in (Columns \cup {Accented}) \ {"Padre", "Fecha de Emision"} |->
                IF l = "Sexo" THEN IF d.column[l] = "M" THEN Sex(Cell(d, l), {"M"}) ELSE Unknown
                ELSE IF l \in DateLabels THEN Cell(d, ColumnOf(l)) ELSE Normal(Cell(d, l))])

\* Only eight digits are a date.
CoreDate(t) == IF t.is \in {"short", "odd"} THEN Blank ELSE Normal(t)

\* Regression: the leading zeros stay.
CoreCsvKeepsZeros(d) ==
    Person("CSV", Cedula(d),
           [c \in Columns \ {"Fecha de Expiracion"} |->
                IF c \in Dates THEN CoreDate(Cell(d, c)) ELSE Normal(Cell(d, c))])

CoreCsv(d) ==
    Person("CSV", Stripped(Cedula(d)),
           [c \in Columns \ {"Fecha de Expiracion"} |->
                IF c = "Sexo"
                THEN IF d.column[c] \in {"M", "1"} THEN Sex(Cell(d, c), {"M", "1"}) ELSE Unknown
                ELSE IF c \in Dates THEN CoreDate(Cell(d, c)) ELSE Normal(Cell(d, c))])

CoreMdoc(d) == NobodysData("TSE_MDOC_ISO18013", NoCedula, d.host)

\* _parse_tse_html: the page of the person asked for, or one without visible data.
Html(d, shown) ==
    LET Shown(c, is) == Text(d.url, c, is)
    IN  [type |-> "TSE_QR_URL", cedula |-> d.cedula, url |-> d.url,
         at |-> IF ~shown THEN Nobodys
                ELSE [l \in Labels |->
                         IF l \in Names \ {"Padre"} THEN Shown(l, "name")
                         ELSE IF l = "Apellidos" THEN Shown("Primer Apellido", "name")
                         ELSE IF l = "Fecha de Nacimiento" THEN Shown(l, "past")
                         ELSE IF ColumnOf(l) = "Fecha de Expiracion" THEN Shown(ColumnOf(l), "future")
                         ELSE Nobodys[l]]]

\* _try_parse_tse_url asks the TSE itself; without an answer nobody is named.
CoreTse(d) ==
    {Html([url |-> d.who, cedula |-> Cedula(d)], shown) :
        shown \in {s \in BOOLEAN : d.kind = "tse" /\ Length(Cedula(d)) \in 5..12}}

ProbablyValid(p) ==
    \/ p.type = "TSE_MDOC_ISO18013" /\ p.url \in {"official", "contains"}
    \/ /\ p.type # "TSE_MDOC_ISO18013"
       /\ Length(p.cedula) \in 5..12
       /\ p.at["Nombre"].is # "" /\ p.at["Apellidos"].is # ""
       /\ \A l \in {"Nombre", "Primer Apellido", "Segundo Apellido", "Apellidos"} :
             p.at[l].is # "noise"
       /\ \A l \in DateLabels : p.at[l].is \notin {"no date", "short", "split", "odd"}

Core(d) ==
    LET csv == d.kind = "csv" /\ d.whole /\ Length(Cedula(d)) \in 8..12
    IN  {p \in CoreTse(d) \cup IF d.kind = "mdoc" THEN {CoreMdoc(d)}
                               ELSE IF d.kind = "xor" THEN {CoreXor(d)}
                               ELSE IF csv THEN {CoreCsv(d)} ELSE {} : ProbablyValid(p)}

\* parse(): the catalogue, the safe parsers, the former ones.
Results(d) ==
    LET engine == IF formats = "official" THEN Engine(d) ELSE {}
        safe == PartialTse(d) \cup PartialMdoc(d)
    IN  IF engine # {} THEN engine ELSE IF safe # {} THEN safe ELSE Core(d)
--------------------------------------------------------------------------------
(* scan_quality.py.                                                         *)
Known(t) == t.is \notin {"", "DESCONOCIDO"}
IsName(t) == t.is \in {"name", "spaced"}
IsCedula(c) == Length(c) \in 9..12
IsDate(t) == t.is \in {"past", "future", "early"}

PersonFormats == {"MENOR_CSV", "ADULTO_XOR_CLASICO", "CEDULA_CSV_EXTENDIDA_V2"}

\* The first defect validate_parser_data finds, or "ok".
Quality(p, d) ==
    IF d.type = "TSE_MDOC_ISO18013"
    THEN IF d.url = "official" THEN "ok" ELSE "mdoc_url_invalid"
    ELSE IF ~IsCedula(d.cedula) THEN "cedula_invalid"
    ELSE IF /\ \/ {p.type, d.type} \cap PersonFormats # {}
               \/ \E l \in {"Nombre", "Apellidos", "Primer Apellido", "Segundo Apellido"} : Known(d.at[l])
            /\ \/ ~IsName(d.at["Nombre"])
               \/ ~IsName(d.at["Apellidos"]) /\ ~IsName(d.at["Primer Apellido"])
               \/ d.at["Segundo Apellido"].is # "" /\ ~IsName(d.at["Segundo Apellido"])
         THEN "name_invalid"
    ELSE IF \E l \in DateLabels : d.at[l].is # "" /\ (~IsDate(d.at[l]) \/ d.at[l].is = "early") THEN "date_invalid"
    ELSE IF \E l \in {"Fecha de Nacimiento", "Fecha de Emision"} : d.at[l].is = "future"
         THEN "date_in_future"
    ELSE "ok"

\* _resolved_value: what would be written for a field.
Resolved(d, f) ==
    IF d.at[f.label].is # "" THEN d.at[f.label]
    ELSE IF f.empty_policy = "default" /\ f.default # "" THEN Text("default", f.label, f.default)
    ELSE Blank

\* validate_for_configuration for one field.
FieldAccepts(d, f) ==
    /\ f.label = "Cedula" => IsCedula(d.cedula)
    /\ f.label \in {"Nombre", "Apellidos", "Primer Apellido", "Padre"} => IsName(Resolved(d, f))
    /\ f.label = "Segundo Apellido" => Resolved(d, f).is = "" \/ IsName(Resolved(d, f))
    /\ f.label \in DateLabels => IsDate(Resolved(d, f))
    /\ f.label = "Sexo" /\ f.empty_policy = "cancel" => Resolved(d, f).is # ""
--------------------------------------------------------------------------------
(* The pipeline.                                                            *)
Reject(why) == step' = "done" /\ reason' = why

Nothing == NobodysData("none", NoCedula, "none")

Parse ==
    /\ step = "idle"
    /\ \E d \in Documents :
          /\ doc' = d
          /\ IF formats = "broken" THEN Reject("parser_error") /\ UNCHANGED <<parser, data>>
             ELSE IF Results(d) = {} THEN Reject("not_recognized") /\ UNCHANGED <<parser, data>>
             ELSE /\ parser' \in Results(d) /\ data' = parser'
                  /\ step' = "enrich" /\ reason' = "none"
    /\ UNCHANGED <<formats, field, cache>>

\* Regression: the answers are kept by host.
AddressOfHost(d) == <<d.type>>

\* The address is the document's: the cedula is one of its parameters.
Address(d) == <<d.url, d.cedula>>

Cached(d) == {e \in {cache[i] : i \in DOMAIN cache} : e.url = Address(d)}

\* A dictionary holds one answer for an address: the cache when it is popped.
Places(url) == {i \in DOMAIN cache : cache[i].url = url}
Without(url) ==
    IF Places(url) = {} THEN cache
    ELSE LET i == CHOOSE i \in Places(url) : TRUE
         IN  SubSeq(cache, 1, i - 1) \o SubSeq(cache, i + 1, Len(cache))

\* _store, which drops the least recently used.
Stored(entry) ==
    LET longer == Append(Without(entry.url), entry)
    IN  IF Len(longer) > MaxEntries THEN Tail(longer) ELSE longer

Skip == data' = data /\ UNCHANGED cache

Enrich ==
    /\ step = "enrich" /\ step' = "judge"
    /\ \/ data.type # "TSE_QR_URL" /\ Skip
       \/ /\ data.type = "TSE_QR_URL"
          /\ \E e \in Cached(data) : e.age <= TimeToLive /\ data' = e.data
                                     /\ cache' = Append(Without(e.url), e)
       \/ /\ data.type = "TSE_QR_URL" /\ \A e \in Cached(data) : e.age > TimeToLive
          /\ \/ data' = data /\ cache' = Without(Address(data))    \* no answer, or not this one
             \/ \E shown \in BOOLEAN :
                   /\ data' = Html(data, shown)
                   /\ cache' = Stored([url |-> Address(data), data |-> data', age |-> 0])
    /\ UNCHANGED <<formats, doc, parser, field, reason>>

Judge ==
    /\ step = "judge"
    /\ IF Quality(parser, data) = "ok" THEN step' = "configure" /\ UNCHANGED reason
       ELSE Reject(Quality(parser, data))
    /\ UNCHANGED <<formats, doc, parser, data, field, cache>>

Configure ==
    /\ step = "configure"
    /\ field' \in Fields
    /\ Reject(IF FieldAccepts(data, field') THEN "written" ELSE "configured_missing")
    /\ UNCHANGED <<formats, doc, parser, data, cache>>

\* The task of the pool ends; only the cache remembers the scan.
Finish ==
    /\ step = "done" /\ step' = "idle" /\ reason' = "none"
    /\ doc' = {} /\ field' = {} /\ parser' = Nothing /\ data' = Nothing
    /\ UNCHANGED <<formats, cache>>

CacheAges ==
    /\ step = "idle" /\ \E i \in DOMAIN cache : cache[i].age <= TimeToLive
    /\ cache' = [i \in DOMAIN cache |-> [cache[i] EXCEPT !.age = @ + 1]]
    /\ UNCHANGED <<formats, doc, step, parser, data, field, reason>>

DocumentsInit ==
    /\ formats \in {"official", "missing", "broken"} /\ cache = <<>>
    /\ step = "idle" /\ reason = "none"
    /\ doc = {} /\ field = {} /\ parser = Nothing /\ data = Nothing

DocumentsNext == Parse \/ Enrich \/ Judge \/ Configure \/ Finish \/ CacheAges

DocumentsSpec == DocumentsInit /\ [][DocumentsNext]_documentVars
--------------------------------------------------------------------------------
(* Whichever of the five parsers took the document, and whether the TSE     *)
(* answered, had answered before or not at all: what is written in a field  *)
(* for a cedula, a name or a date is what this document, or the page of its *)
(* holder, says in that column, or the default of the field.                *)
WrittenIsTheDocuments ==
    reason = "written" =>
    LET value == Resolved(data, field)
    IN  /\ field.label = "Cedula" =>
               /\ data.cedula \in {Cedula(doc), Stripped(Cedula(doc))}
               /\ Length(data.cedula) \in 9..12
        /\ field.label \in Names \cup DateLabels \cup {"Apellidos"} =>
               \/ field.label = "Segundo Apellido" /\ value = Blank
               \/ value.of = "default" /\ value.is = field.default
               \/ /\ value.of = doc.who
                  /\ value.col = ColumnOf(field.label) \/ field.label = "Apellidos"
                  /\ field.label \in DateLabels \/ IsName(value)

\* A document nothing is wrong with, as far as its parser can tell.
Sound(d) ==
    /\ d.host = "official"
    /\ d.kind # "mdoc" => d.digits \in 9..12 /\ Length(Cedula(d)) \in 9..12
    /\ d.kind \in {"csv", "xor"} =>
           /\ d.whole /\ {d.column["Nombre"], d.column["Primer Apellido"]} \subseteq {"name", "spaced"}
           /\ {d.column["Segundo Apellido"], d.column["Padre"]} \subseteq {"", "name", "spaced"}
           /\ d.column["Fecha de Nacimiento"] \notin {"future", "early"}
           /\ d.column["Fecha de Emision"] \notin {"future", "early"}
           /\ d.column["Fecha de Expiracion"] # "early"
    /\ d.kind = "xor" => Length(Cedula(d)) = 9
    /\ d.kind = "tse" => d.column["Fecha de Emision"] \notin EightDigits

\* The document itself tells the value of a label.
Told(d, l) ==
    LET known == IF d.kind = "csv" THEN Columns \ {"Fecha de Expiracion"}
                 ELSE IF d.kind = "xor" THEN Columns \ {"Padre", "Fecha de Emision"} ELSE {}
    IN  \/ l = "Cedula" /\ d.kind # "mdoc"
        \/ l = "Apellidos" /\ d.kind \in {"csv", "xor"}
        \/ ColumnOf(l) \in known /\ d.column[ColumnOf(l)] \notin {"", "no date", "split", "odd"}

(* A sound document is not sent back: with the official catalogue it passes *)
(* the parsers and the semantic check, and fails at the configuration only  *)
(* for a field whose value the document does not tell and the TSE did not   *)
(* show.  The accented date of expiry of an XOR block, which the catalogue  *)
(* never fills, is the one exception (AliasIsFilled says more).             *)
SoundDocumentPasses ==
    formats = "official" /\ step # "idle" /\ Sound(doc) =>
        /\ reason \in {"none", "written", "configured_missing"}
        /\ reason = "configured_missing" /\ doc.kind # "mdoc" =>
               /\ ~Known(Resolved(data, field)) \/ Resolved(data, field).of = "default"
               /\ Told(doc, field.label) => field.label = Accented /\ doc.kind = "xor"

(* The catalogue replaced the former parsers: where both take a card and    *)
(* its data pass the semantic check, they agree on the cedula, on the names *)
(* but for blanks and control characters, and on the dates of eight digits. *)
(* What the former parser made of an address, with its own question to the  *)
(* TSE, is what the enrichment makes of the catalogue's result.  The codes  *)
(* of the sex and the accented date of expiry do differ.                    *)
CatalogueAgrees ==
    step = "enrich" => \A p \in Engine(doc), q \in Core(doc) :
        /\ p.type = "TSE_QR_URL" => \E shown \in BOOLEAN : q = Html(p, shown)
        /\ p.type # "TSE_QR_URL" /\ Quality(p, p) = "ok" /\ Quality(q, q) = "ok" =>
               /\ p.cedula = q.cedula
               /\ \A l \in Names \cup {"Apellidos"} : Normal(p.at[l]) = q.at[l]
               /\ \A l \in Dates : doc.column[l] \notin {"short", "split"} => p.at[l] = q.at[l]

(* lector_core.py:489, "Alias con acento por compatibilidad con tus         *)
(* configuraciones criticas": whichever parser takes a document, the date   *)
(* of expiry is the same under both labels.  The catalogue does not keep    *)
(* this: added to a run of the module, it is violated by any XOR block.     *)
AliasIsFilled == step # "idle" => data.at[Accented] = data.at["Fecha de Expiracion"]
=============================================================================
