------------------------------- MODULE MCParts -------------------------------
(***************************************************************************)
(* Small instances of four parts of the system that share nothing: the      *)
(* calibration beside the serial managers, the licences, the way of one     *)
(* document through the parsers, and the configuration files.  A behaviour  *)
(* chooses one of them and the others stay in an initial state.             *)
(***************************************************************************)
EXTENDS SerialLifecycle, Licences, MCDocuments, ConfigStore

CONSTANTS f1, f2

VARIABLE part

partVars == <<part, slVars, licenceVars, documentVars, storeVars>>

\* One initial state of a part that the behaviour does not choose.
NoLicences == private = 0 /\ public = 0
NoDocument == formats = "official"
NoForms    == /\ content = [f \in Forms |-> IF f = f1 THEN Form(0, TRUE, FALSE) ELSE Absent]
              /\ favorites = [i \in 1..2 |-> None]

PartsInit ==
    /\ part \in {"serial", "licences", "documents", "store"}
    /\ SLInit
    /\ LicencesInit /\ (part # "licences" => NoLicences)
    /\ DocumentsInit /\ (part # "documents" => NoDocument)
    /\ StoreInit /\ (part # "store" => NoForms)

SerialPart ==
    part = "serial" /\ SLNext /\ UNCHANGED <<part, licenceVars, documentVars, storeVars>>
LicencesPart ==
    part = "licences" /\ LicencesNext /\ UNCHANGED <<part, slVars, documentVars, storeVars>>
DocumentsPart ==
    part = "documents" /\ DocumentsNext /\ UNCHANGED <<part, slVars, licenceVars, storeVars>>
StorePart ==
    part = "store" /\ StoreNext /\ UNCHANGED <<part, slVars, licenceVars, documentVars>>

PartsSpec ==
    PartsInit /\ [][SerialPart \/ LicencesPart \/ DocumentsPart \/ StorePart]_partVars
=============================================================================
