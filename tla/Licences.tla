------------------------------- MODULE Licences -------------------------------
(***************************************************************************)
(* The licences of the installations: the dashboard (dashboard.py) creates, *)
(* renews and delivers them through release_builder.py, which prepares the  *)
(* key pair and signs; the application verifies its own when it starts      *)
(* (license_service.py).                                                   *)
(*                                                                         *)
(* An operation of the dashboard is a sequence of writes to files; one of   *)
(* them may raise, which ends the operation with a dialog, and the process  *)
(* may be killed between two of them, which loses its memory.  A key is a   *)
(* number, a signature the number of the private key it was made with, and  *)
(* the payload of a licence is told by the operation that made it.          *)
(***************************************************************************)
EXTENDS Naturals

CONSTANTS
    Clients,
    MaxOps,      \* bound: licences issued or changed
    MaxTime,     \* bound: the clock of the dashboard
    MaxBuilds,   \* bound: exports, installers and updates
    Durations,   \* what the dialogs offer
    Tolerance    \* of the verifier, five minutes in the code

ASSUME LicencesAssumption ==
    /\ MaxOps \in Nat /\ MaxTime \in Nat /\ MaxBuilds \in Nat
    /\ Durations \subseteq Nat \ {0} /\ Tolerance \in Nat

VARIABLES
    now,         \* clock of the dashboard
    private,     \* the private key in secrets, 0 when there is none
    public,      \* the public key beside it
    db,          \* self.db of the dashboard
    record,      \* the clients' file
    table,       \* clients shown in the table
    folder,      \* folder[c]: licence and public key in clientes/<c>
    parcel,      \* parcel[c]: what was last delivered for c
    package,     \* public key in the last update package, 0 when there is none
    task,        \* the operation under way
    ops, builds,
    told,        \* told[c]: the operation of c last reported as done
    installed,   \* installed[c]: licence and public key of the installation
    seen,        \* seen[c]: licencia_estado.json
    verdict,     \* verdict[c]: the last start of the installation
    latest       \* latest[c][op]: the latest time it started with licence op

dashboardVars == <<now, private, public, db, record, table, task, ops, builds, told>>
deliveryVars == <<folder, parcel, package>>
customerVars == <<installed, seen, verdict, latest>>
licenceVars == <<dashboardVars, deliveryVars, customerVars>>

NoEntry == [op |-> 0, issued |-> 0, expires |-> 0]
Empty == [by |-> 0, entry |-> NoEntry, key |-> 0]   \* no licence, no public key
NoTask == [kind |-> "none", at |-> "idle"]
Unseen == [entry |-> NoEntry, at |-> 0]
NotStarted == [ok |-> FALSE, at |-> 0, entry |-> NoEntry]

Issues(kind) == kind \in {"create", "renew", "extend"}
--------------------------------------------------------------------------------
(* The dialogs: each prepares the client's record in a copy.                *)
Begin(kind, c, entry) ==
    task' = [kind |-> kind, at |-> "private", client |-> c, entry |-> entry, out |-> Empty]

Starts(c) ==
    /\ task = NoTask
    /\ told' = [told EXCEPT ![c] = 0]
    /\ UNCHANGED <<now, private, public, db, record, table, deliveryVars, customerVars>>

CreateClient(c) ==
    /\ ops < MaxOps /\ db[c] = NoEntry
    /\ \E d \in Durations :
          Begin("create", c, [op |-> ops + 1, issued |-> now, expires |-> now + d])
    /\ ops' = ops + 1 /\ Starts(c) /\ UNCHANGED builds

RenewLicense(c) ==
    /\ ops < MaxOps /\ c \in table /\ db[c] # NoEntry
    /\ \E kind \in {"renew", "extend"}, d \in Durations :
          LET base == IF kind = "extend" /\ db[c].expires > now THEN db[c].expires ELSE now
          IN  Begin(kind, c, [op |-> ops + 1, issued |-> now, expires |-> base + d])
    /\ ops' = ops + 1 /\ Starts(c) /\ UNCHANGED builds

\* export_license and generate_installer; the installer also renews the folder.
Deliver(c) ==
    /\ builds < MaxBuilds /\ c \in table /\ db[c] # NoEntry
    /\ \E kind \in {"export", "installer"} : Begin(kind, c, db[c])
    /\ builds' = builds + 1 /\ Starts(c) /\ UNCHANGED ops

GenerateUpdate ==
    /\ task = NoTask /\ builds < MaxBuilds /\ builds' = builds + 1
    /\ \E c \in Clients : Begin("update", c, NoEntry)
    /\ UNCHANGED <<now, private, public, db, record, table, ops, told, deliveryVars, customerVars>>

\* The record goes; folder and deliveries stay.  An error of save_db leaves the row.
DeleteClient(c) ==
    /\ task = NoTask /\ c \in table
    /\ db' = [db EXCEPT ![c] = NoEntry] /\ told' = [told EXCEPT ![c] = 0]
    /\ \/ record' = db' /\ table' = {x \in Clients : db'[x] # NoEntry}
       \/ UNCHANGED <<record, table>>
    /\ UNCHANGED <<now, private, public, task, ops, builds, deliveryVars, customerVars>>
--------------------------------------------------------------------------------
(* ensure_keypair: a private key is never replaced, a public one repaired.  *)
TaskAt(position) == [task EXCEPT !.at = position]

Sign == IF task.kind = "update" THEN "build" ELSE "licence"

\* Regression: any public key that is there is good.
TrustPublic ==
    /\ task.at = "private"
    /\ private' = IF private = 0 THEN public + 1 ELSE private
    /\ task' = TaskAt(IF public # 0 THEN Sign ELSE "public")
    /\ UNCHANGED <<now, public, db, record, table, ops, builds, told, deliveryVars, customerVars>>

EnsurePrivate ==
    /\ task.at = "private"
    /\ private' = IF private = 0 THEN public + 1 ELSE private
    /\ task' = TaskAt(IF private' = public THEN Sign ELSE "public")
    /\ UNCHANGED <<now, public, db, record, table, ops, builds, told, deliveryVars, customerVars>>

EnsurePublic ==
    /\ task.at = "public" /\ public' = private /\ task' = TaskAt(Sign)
    /\ UNCHANGED <<now, private, db, record, table, ops, builds, told, deliveryVars, customerVars>>

\* issue_license: a payload signed with the private key of this moment.
Issued(entry, key) == [by |-> private, entry |-> entry, key |-> key]

(* export_client_license_bundle: the licence, then the key that verifies it. *)
\* The client's folder, or for an export the folder the user has chosen.
WriteLicence ==
    /\ task.at = "licence"
    /\ IF task.kind = "export"
       THEN task' = [TaskAt("copy") EXCEPT !.out = Issued(task.entry, 0)] /\ UNCHANGED folder
       ELSE task' = TaskAt("copy")
            /\ folder' = [folder EXCEPT ![task.client] = Issued(task.entry, @.key)]
    /\ UNCHANGED <<now, private, public, db, record, table, ops, builds, told,
                   parcel, package, customerVars>>

CopyPublicKey ==
    /\ task.at = "copy"
    /\ IF task.kind = "export"
       THEN parcel' = [parcel EXCEPT ![task.client] = [task.out EXCEPT !.key = public]]
            /\ task' = NoTask /\ UNCHANGED folder
       ELSE folder' = [folder EXCEPT ![task.client].key = public]
            /\ task' = TaskAt(IF task.kind = "installer" THEN "build" ELSE "save")
            /\ UNCHANGED parcel
    /\ UNCHANGED <<now, private, public, db, record, table, ops, builds, told, package, customerVars>>

\* make_installer_zip signs again in a fresh directory; make_update_zip takes the key.
Build ==
    /\ task.at = "build"
    /\ IF task.kind = "update"
       THEN package' = public /\ task' = NoTask /\ UNCHANGED parcel
       ELSE /\ parcel' = [parcel EXCEPT ![task.client] = Issued(task.entry, public)]
            /\ task' = TaskAt("save") /\ UNCHANGED package
    /\ UNCHANGED <<now, private, public, db, record, table, ops, builds, told, folder, customerVars>>

\* Regression: the file is saved, the memory keeps the former record.
SaveFileOnly ==
    /\ task.at = "save" /\ task' = NoTask /\ UNCHANGED <<db, table>>
    /\ record' = IF Issues(task.kind) THEN [db EXCEPT ![task.client] = task.entry] ELSE db
    /\ told' = [told EXCEPT ![task.client] = task.entry.op]
    /\ UNCHANGED <<now, private, public, ops, builds, deliveryVars, customerVars>>

\* self.db, then save_db of all of it, then the dialog; _build_done adds a history.
Save ==
    /\ task.at = "save" /\ task' = NoTask
    /\ db' = IF Issues(task.kind) THEN [db EXCEPT ![task.client] = task.entry] ELSE db
    /\ \/ record' = db' /\ told' = [told EXCEPT ![task.client] = task.entry.op]
          /\ table' = IF Issues(task.kind) THEN {x \in Clients : db'[x] # NoEntry} ELSE table
       \/ UNCHANGED <<record, told, table>>
    /\ UNCHANGED <<now, private, public, ops, builds, deliveryVars, customerVars>>

\* An error before the record changes: a write, a key, PyInstaller.
Fail ==
    /\ task.at \notin {"idle", "save"} /\ task' = NoTask
    /\ UNCHANGED <<now, private, public, db, record, table, ops, builds, told,
                   deliveryVars, customerVars>>

\* The dashboard is killed and started again: load_db.
Restart ==
    /\ task' = NoTask /\ db' = record /\ table' = {x \in Clients : record[x] # NoEntry}
    /\ UNCHANGED <<now, private, public, record, ops, builds, told, deliveryVars, customerVars>>

TimePasses ==
    /\ now < MaxTime /\ now' = now + 1
    /\ UNCHANGED <<private, public, db, record, table, task, ops, builds, told,
                   deliveryVars, customerVars>>
--------------------------------------------------------------------------------
(* The installations.  What was delivered is installed or copied over, an   *)
(* update replaces the public key and leaves licencia.key (updater.py).     *)
Install(c) ==
    /\ parcel[c] # Empty /\ installed' = [installed EXCEPT ![c] = parcel[c]]
    /\ UNCHANGED <<dashboardVars, deliveryVars, seen, verdict, latest>>

Update(c) ==
    /\ package # 0 /\ installed[c] # Empty
    /\ installed' = [installed EXCEPT ![c].key = package]
    /\ UNCHANGED <<dashboardVars, deliveryVars, seen, verdict, latest>>

\* verify(): signature, dates, and the clock against the last start with this licence.
Verified(c) == installed[c].by = installed[c].key

\* _load_envelope and _load_public_key find their files.
Loads(c) == installed[c] # Empty

InForce(entry, t) == t + Tolerance >= entry.issued /\ t < entry.expires

\* Regression: the last start counts whatever licence it was made with.
WentBackEver(c, t) == t + Tolerance < seen[c].at

WentBack(c, t) == seen[c].entry = installed[c].entry /\ t + Tolerance < seen[c].at

Start(c) ==
    /\ Loads(c)
    /\ \E t \in 0..MaxTime :
          LET entry == installed[c].entry
              ok == Verified(c) /\ InForce(entry, t) /\ ~WentBack(c, t)
          IN  /\ seen' = IF ok THEN [seen EXCEPT ![c] = [entry |-> entry, at |-> t]] ELSE seen
              /\ latest' = IF ok /\ t > latest[c][entry.op]
                           THEN [latest EXCEPT ![c][entry.op] = t] ELSE latest
              /\ verdict' = [verdict EXCEPT ![c] = [ok |-> ok, at |-> t, entry |-> entry]]
    /\ UNCHANGED <<dashboardVars, deliveryVars, installed>>
--------------------------------------------------------------------------------
\* The secrets may hold a public key whose private one is gone.
LicencesInit ==
    /\ now = 0 /\ private \in {0, 1} /\ public \in {0, 1, 2}
    /\ db = [c \in Clients |-> NoEntry] /\ record = db /\ table = {}
    /\ folder = [c \in Clients |-> Empty] /\ parcel = folder /\ package = 0
    /\ task = NoTask /\ ops = 0 /\ builds = 0 /\ told = [c \in Clients |-> 0]
    /\ installed = folder /\ seen = [c \in Clients |-> Unseen]
    /\ verdict = [c \in Clients |-> NotStarted]
    /\ latest = [c \in Clients |-> [op \in 1..MaxOps |-> 0]]

LicencesNext ==
    \/ \E c \in Clients :
          \/ CreateClient(c) \/ RenewLicense(c) \/ Deliver(c) \/ DeleteClient(c)
          \/ Install(c) \/ Update(c) \/ Start(c)
    \/ GenerateUpdate \/ EnsurePrivate \/ EnsurePublic \/ WriteLicence \/ CopyPublicKey
    \/ Build \/ Save \/ Fail \/ Restart \/ TimePasses

LicencesSpec == LicencesInit /\ [][LicencesNext]_licenceVars
--------------------------------------------------------------------------------
(* The licence of every installation verifies with the public key beside    *)
(* it, however the key pair was prepared, a delivery or an update made, and *)
(* wherever the dashboard was killed while it did.                          *)
InstalledVerifies == \A c \in Clients : Verified(c)

(* No record promises more than was signed: the licence in the client's     *)
(* folder is the one of the record in the file or of a later operation; it  *)
(* is the same one, in memory too, once the user was told so.               *)
LicenceBacksRecord ==
    \A c \in Clients :
        /\ folder[c].entry.op >= record[c].op
        /\ told[c] # 0 /\ task = NoTask =>
               told[c] = record[c].op /\ record[c] = db[c] /\ folder[c].entry = db[c]

(* An installation whose licence is in force is turned away only if it was  *)
(* started with this same licence at a later time: a renewed licence starts *)
(* again after a clock that was wrong has been set right.                   *)
TurnedAwayByClock ==
    \A c \in Clients :
        LET v == verdict[c]
        IN  v # NotStarted /\ ~v.ok /\ InForce(v.entry, v.at) =>
                latest[c][v.entry.op] > v.at + Tolerance
=============================================================================
