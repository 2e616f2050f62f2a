---------------------------- MODULE Licences_proofs ----------------------------
(***************************************************************************)
(* Theorems about the licences, for any number of clients, operations and   *)
(* deliveries and for every clock: whatever is killed or raises on the way, *)
(* what an installation has verifies, and it is turned away for its clock   *)
(* only after a later start with the same licence.                          *)
(***************************************************************************)
EXTENDS Licences, TLAPS

IssuedEntries == [op : 1..MaxOps, issued : Nat, expires : Nat]
Entries == {NoEntry} \cup IssuedEntries
Licence == [by : Nat, entry : Entries, key : Nat]
Kinds == {"create", "renew", "extend", "export", "installer", "update"}
Positions == {"private", "public", "licence", "copy", "build", "save"}
Tasks == [kind : Kinds, at : Positions, client : Clients, entry : Entries, out : Licence]

DashboardTypes ==
    /\ private \in Nat /\ public \in Nat /\ now \in Nat /\ ops \in 0..MaxOps
    /\ db \in [Clients -> Entries] /\ record \in [Clients -> Entries]
    /\ task \in {NoTask} \cup Tasks

DeliveryTypes ==
    /\ package \in Nat
    /\ parcel \in [Clients -> Licence] /\ installed \in [Clients -> Licence]

\* Nothing, or signed and verified with the key pair there is.
Good(l) == l = Empty \/ (private # 0 /\ l.by = private /\ l.key = private /\ l.entry \in IssuedEntries)

(* The operation under way: past ensure_keypair the pair is consistent, and *)
(* what is signed is a licence that was issued.                             *)
TaskInv ==
    task \in Tasks =>
        /\ task.at # "private" => private # 0
        /\ task.at \notin {"private", "public"} => public = private
        /\ task.kind # "update" => task.entry \in IssuedEntries
        /\ task.kind = "update" => task.at \in {"private", "public", "build"}
        /\ task.kind = "export" /\ task.at = "copy" =>
               task.out.by = private /\ task.out.entry = task.entry

KeyInv ==
    /\ DashboardTypes /\ DeliveryTypes /\ TaskInv
    /\ package \in {0, private}
    /\ \A c \in Clients : Good(parcel[c]) /\ Good(installed[c])

LEMMA Shapes == NoEntry \in Entries /\ Empty \in Licence /\ NoTask \notin Tasks
  BY DEF Entries, NoEntry, Empty, Licence, NoTask, Tasks

LEMMA KeyInit == LicencesInit => KeyInv
  BY Shapes, LicencesAssumption DEF LicencesInit, KeyInv, DashboardTypes, DeliveryTypes, TaskInv, Good

(* A dialog prepares an operation from an entry of the right kind.          *)
LEMMA Beginning ==
    ASSUME KeyInv, NEW kind \in Kinds, NEW c \in Clients, NEW entry \in Entries,
           kind # "update" => entry \in IssuedEntries, Begin(kind, c, entry),
           UNCHANGED <<private, public, now, db, record, deliveryVars, customerVars>>,
           ops' \in 0..MaxOps
    PROVE  KeyInv'
<1>1. task' \in Tasks /\ task'.at = "private" /\ task'.kind = kind /\ task'.entry = entry
  BY Shapes DEF Begin, Tasks, Positions
<1>2. DashboardTypes' /\ DeliveryTypes'
  BY <1>1 DEF KeyInv, DashboardTypes, DeliveryTypes, deliveryVars, customerVars
<1>3. TaskInv'
  BY <1>1 DEF TaskInv
<1> QED BY <1>2, <1>3 DEF KeyInv, Good, deliveryVars, customerVars

(* An operation goes on to another position with the same entry.            *)
LEMMA Positioned ==
    ASSUME NEW t \in Tasks, NEW p \in Positions
    PROVE  /\ [t EXCEPT !.at = p] \in Tasks
           /\ [t EXCEPT !.at = p].at = p
           /\ [t EXCEPT !.at = p].kind = t.kind
           /\ [t EXCEPT !.at = p].entry = t.entry
           /\ [t EXCEPT !.at = p].out = t.out
  BY DEF Tasks

(* Whoever is at a position of its operation has one.                       *)
LEMMA UnderWay ==
    ASSUME KeyInv, task.at \in Positions PROVE task \in Tasks
  BY DEF KeyInv, DashboardTypes, NoTask, Positions

LEMMA KeyStep == KeyInv /\ [LicencesNext]_licenceVars => KeyInv'
<1> SUFFICES ASSUME KeyInv, [LicencesNext]_licenceVars PROVE KeyInv'
  OBVIOUS
<1>1. ASSUME NEW c \in Clients, CreateClient(c) PROVE KeyInv'
  <2>1. PICK d \in Durations :
            Begin("create", c, [op |-> ops + 1, issued |-> now, expires |-> now + d])
    BY <1>1 DEF CreateClient
  <2>2. [op |-> ops + 1, issued |-> now, expires |-> now + d] \in IssuedEntries /\ ops' \in 0..MaxOps
    BY <1>1, LicencesAssumption DEF CreateClient, KeyInv, DashboardTypes, IssuedEntries
  <2> QED BY <1>1, <2>1, <2>2, Beginning DEF CreateClient, Starts, Kinds, Entries
<1>2. ASSUME NEW c \in Clients, RenewLicense(c) PROVE KeyInv'
  <2> DEFINE Base(kind) == IF kind = "extend" /\ db[c].expires > now THEN db[c].expires ELSE now
  <2>1. PICK kind \in {"renew", "extend"}, d \in Durations :
            Begin(kind, c, [op |-> ops + 1, issued |-> now, expires |-> Base(kind) + d])
    BY <1>2 DEF RenewLicense
  <2>2. db[c] \in IssuedEntries
    BY <1>2 DEF RenewLicense, KeyInv, DashboardTypes, Entries
  <2>3. Base(kind) \in Nat
    BY <2>2 DEF IssuedEntries, KeyInv, DashboardTypes
  <2> HIDE DEF Base
  <2>4. /\ [op |-> ops + 1, issued |-> now, expires |-> Base(kind) + d] \in IssuedEntries
        /\ ops' \in 0..MaxOps
    BY <1>2, <2>3, LicencesAssumption DEF RenewLicense, KeyInv, DashboardTypes, IssuedEntries
  <2> QED BY <1>2, <2>1, <2>4, Beginning DEF RenewLicense, Starts, Kinds, Entries
<1>3. ASSUME NEW c \in Clients, Deliver(c) PROVE KeyInv'
  <2>1. PICK kind \in {"export", "installer"} : Begin(kind, c, db[c])
    BY <1>3 DEF Deliver
  <2>2. db[c] \in IssuedEntries /\ ops' \in 0..MaxOps
    BY <1>3 DEF Deliver, KeyInv, DashboardTypes, Entries
  <2> QED BY <1>3, <2>1, <2>2, Beginning DEF Deliver, Starts, Kinds, Entries
<1>4. ASSUME GenerateUpdate PROVE KeyInv'
  <2>1. PICK c \in Clients : Begin("update", c, NoEntry)
    BY <1>4 DEF GenerateUpdate
  <2>2. ops' \in 0..MaxOps
    BY <1>4 DEF GenerateUpdate, KeyInv, DashboardTypes
  <2> QED BY <1>4, <2>1, <2>2, Shapes, Beginning DEF GenerateUpdate, Kinds
<1>5. ASSUME NEW c \in Clients, DeleteClient(c) PROVE KeyInv'
  <2>1. db' \in [Clients -> Entries] /\ record' \in [Clients -> Entries]
    BY <1>5, Shapes DEF DeleteClient, KeyInv, DashboardTypes
  <2> QED BY <1>5, <2>1 DEF DeleteClient, KeyInv, DashboardTypes, DeliveryTypes, TaskInv, Good,
                          deliveryVars, customerVars
\* The only step that makes a private key: nothing has been signed before.
<1>6. ASSUME EnsurePrivate PROVE KeyInv'
  <2>1. task \in Tasks /\ task.at = "private"
    BY <1>6, UnderWay DEF EnsurePrivate, Positions
  <2>2. /\ private' \in Nat \ {0} /\ (private # 0 => private' = private)
        /\ UNCHANGED <<public, now, ops, db, record, deliveryVars, customerVars>>
    BY <1>6 DEF EnsurePrivate, KeyInv, DashboardTypes
  <2>3. PICK p \in {Sign, "public"} : task' = TaskAt(p) /\ (p # "public" => public' = private')
    BY <1>6, <2>2 DEF EnsurePrivate
  <2>4. p \in Positions /\ p # "private"
    BY DEF Sign, Positions
  <2>5. task' \in Tasks /\ task'.at = p /\ task'.kind = task.kind /\ task'.entry = task.entry
    BY <2>1, <2>3, <2>4, Positioned DEF TaskAt
  <2>6. TaskInv'
    BY <2>1, <2>2, <2>3, <2>4, <2>5 DEF TaskInv, KeyInv, Sign
  <2>7. package' \in {0, private'} /\ \A c \in Clients : Good(parcel[c])' /\ Good(installed[c])'
    BY <2>2 DEF KeyInv, DeliveryTypes, Good, deliveryVars, customerVars
  <2> QED BY <2>2, <2>5, <2>6, <2>7 DEF KeyInv, DashboardTypes, DeliveryTypes, deliveryVars, customerVars
<1>7. ASSUME EnsurePublic PROVE KeyInv'
  <2>1. task \in Tasks /\ task.at = "public"
    BY <1>7, UnderWay DEF EnsurePublic, Positions
  <2>2. /\ private # 0 /\ public' = private /\ task' = TaskAt(Sign)
        /\ UNCHANGED <<private, now, ops, db, record, deliveryVars, customerVars>>
    BY <1>7, <2>1 DEF EnsurePublic, KeyInv, TaskInv
  <2>3. Sign \in Positions
    BY DEF Sign, Positions
  <2>4. task' \in Tasks /\ task'.at = Sign /\ task'.kind = task.kind /\ task'.entry = task.entry
    BY <2>1, <2>2, <2>3, Positioned DEF TaskAt
  <2>5. TaskInv'
    BY <2>1, <2>2, <2>4 DEF TaskInv, KeyInv, Sign
  <2> QED BY <2>2, <2>4, <2>5 DEF KeyInv, DashboardTypes, DeliveryTypes, Good, deliveryVars, customerVars
<1>8. ASSUME WriteLicence PROVE KeyInv'
  <2>1. task \in Tasks /\ task.at = "licence" /\ task.kind # "update"
    BY <1>8, UnderWay DEF WriteLicence, Positions, KeyInv, TaskInv
  <2>2. UNCHANGED <<private, public, now, ops, db, record, parcel, package, customerVars>>
    BY <1>8 DEF WriteLicence
  <2>3. TaskAt("copy") \in Tasks /\ TaskAt("copy").at = "copy" /\ TaskAt("copy").kind = task.kind
        /\ TaskAt("copy").entry = task.entry
    BY <2>1, Positioned DEF TaskAt, Positions
  <2>4. Issued(task.entry, 0) \in Licence
    BY <2>1 DEF Issued, Licence, Tasks, KeyInv, DashboardTypes
  <2>5. /\ task' \in Tasks /\ task'.at = "copy" /\ task'.kind = task.kind /\ task'.entry = task.entry
        /\ task.kind = "export" => task'.out.by = private /\ task'.out.entry = task.entry
    <3>1. CASE task.kind = "export"
      <4>1. task' = [TaskAt("copy") EXCEPT !.out = Issued(task.entry, 0)]
        BY <1>8, <3>1 DEF WriteLicence
      <4> QED BY <2>3, <2>4, <4>1 DEF Tasks, Issued
    <3>2. CASE task.kind # "export"
      BY <1>8, <2>3, <3>2 DEF WriteLicence
    <3> QED BY <3>1, <3>2
  <2>6. TaskInv'
    BY <2>1, <2>2, <2>5 DEF TaskInv, KeyInv
  <2> QED BY <2>2, <2>5, <2>6 DEF KeyInv, DashboardTypes, DeliveryTypes, Good, customerVars
<1>9. ASSUME CopyPublicKey PROVE KeyInv'
  <2>1. task \in Tasks /\ task.at = "copy" /\ task.kind # "update" /\ private # 0 /\ public = private
        /\ task.entry \in IssuedEntries
    BY <1>9, UnderWay DEF CopyPublicKey, Positions, KeyInv, TaskInv
  <2>2. UNCHANGED <<private, public, now, ops, db, record, package, customerVars>>
    BY <1>9 DEF CopyPublicKey
  <2>3. CASE task.kind = "export"
    <3>1. /\ task' = NoTask
          /\ parcel' = [parcel EXCEPT ![task.client] = [task.out EXCEPT !.key = public]]
      BY <1>9, <2>3 DEF CopyPublicKey
    <3>2. task.out.by = private /\ task.out.entry = task.entry /\ task.out \in Licence
      BY <2>1, <2>3 DEF KeyInv, TaskInv, Tasks
    <3>3. [task.out EXCEPT !.key = public] \in Licence /\ Good([task.out EXCEPT !.key = public])
      BY <2>1, <3>2 DEF Licence, Good, KeyInv, DashboardTypes
    <3>4. parcel' \in [Clients -> Licence] /\ \A c \in Clients : Good(parcel'[c])
      BY <3>1, <3>3 DEF KeyInv, DeliveryTypes
    <3> QED BY <2>2, <3>1, <3>4, Shapes DEF KeyInv, DashboardTypes, DeliveryTypes, TaskInv, Good, customerVars
  <2>4. CASE task.kind # "export"
    <3>1. PICK p \in {"build", "save"} : task' = TaskAt(p)
      BY <1>9, <2>4 DEF CopyPublicKey
    <3>2. p \in Positions
      BY DEF Positions
    <3>3. task' \in Tasks /\ task'.at = p /\ task'.kind = task.kind /\ task'.entry = task.entry
      BY <2>1, <3>1, <3>2, Positioned DEF TaskAt
    <3>4. UNCHANGED parcel
      BY <1>9, <2>4 DEF CopyPublicKey
    <3>5. TaskInv'
      BY <2>1, <2>2, <3>1, <3>3 DEF TaskInv, KeyInv
    <3> QED BY <2>2, <3>3, <3>4, <3>5 DEF KeyInv, DashboardTypes, DeliveryTypes, Good, customerVars
  <2> QED BY <2>3, <2>4
<1>10. ASSUME Build PROVE KeyInv'
  <2>1. task \in Tasks /\ task.at = "build" /\ private # 0 /\ public = private
    BY <1>10, UnderWay DEF Build, Positions, KeyInv, TaskInv
  <2>2. UNCHANGED <<private, public, now, ops, db, record, customerVars>>
    BY <1>10 DEF Build
  <2>3. CASE task.kind = "update"
    <3>1. package' = private /\ task' = NoTask /\ UNCHANGED parcel
      BY <1>10, <2>1, <2>3 DEF Build
    <3> QED BY <2>2, <3>1, Shapes DEF KeyInv, DashboardTypes, DeliveryTypes, TaskInv, Good, customerVars
  <2>4. CASE task.kind # "update"
    <3>1. parcel' = [parcel EXCEPT ![task.client] = Issued(task.entry, public)]
          /\ task' = TaskAt("save") /\ UNCHANGED package
      BY <1>10, <2>4 DEF Build
    <3>2. Issued(task.entry, public) \in Licence /\ Good(Issued(task.entry, public))
          /\ task.entry \in IssuedEntries
      BY <2>1, <2>4 DEF Issued, Licence, Good, KeyInv, DashboardTypes, TaskInv, Entries
    <3>3. parcel' \in [Clients -> Licence] /\ \A c \in Clients : Good(parcel'[c])
      BY <3>1, <3>2 DEF KeyInv, DeliveryTypes
    <3>4. task' \in Tasks /\ task'.at = "save" /\ task'.kind = task.kind /\ task'.entry = task.entry
      BY <2>1, <3>1, Positioned DEF TaskAt, Positions
    <3>5. TaskInv'
      BY <2>1, <2>2, <2>4, <3>2, <3>4 DEF TaskInv, KeyInv
    <3> QED BY <2>2, <3>1, <3>3, <3>4, <3>5 DEF KeyInv, DashboardTypes, DeliveryTypes, Good, customerVars
  <2> QED BY <2>3, <2>4
<1>11. ASSUME Save PROVE KeyInv'
  <2>1. task \in Tasks /\ task.at = "save"
    BY <1>11, UnderWay DEF Save, Positions
  <2>2. db' \in [Clients -> Entries] /\ record' \in [Clients -> Entries]
    BY <1>11, <2>1 DEF Save, KeyInv, DashboardTypes, Tasks
  <2> QED BY <1>11, <2>2, Shapes DEF Save, KeyInv, DashboardTypes, DeliveryTypes, TaskInv, Good,
                                   deliveryVars, customerVars
<1>12. ASSUME Fail \/ Restart PROVE KeyInv'
  BY <1>12, Shapes DEF Fail, Restart, KeyInv, DashboardTypes, DeliveryTypes, TaskInv, Good,
                       deliveryVars, customerVars
<1>13. ASSUME TimePasses PROVE KeyInv'
  BY <1>13 DEF TimePasses, KeyInv, DashboardTypes, DeliveryTypes, TaskInv, Good,
               deliveryVars, customerVars
<1>14. ASSUME NEW c \in Clients, Install(c) PROVE KeyInv'
  BY <1>14 DEF Install, KeyInv, DashboardTypes, DeliveryTypes, TaskInv, Good,
               deliveryVars, dashboardVars
\* The key of the package is the key of what it is installed over.
<1>15. ASSUME NEW c \in Clients, Update(c) PROVE KeyInv'
  <2>1. package = private /\ private # 0 /\ installed[c].by = private /\ installed[c].key = private
        /\ installed[c] \in Licence
    BY <1>15 DEF Update, KeyInv, DeliveryTypes, Good
  <2>2. installed' = installed
    BY <1>15, <2>1 DEF Update, KeyInv, DeliveryTypes, Licence
  <2> QED BY <1>15, <2>2 DEF Update, KeyInv, DashboardTypes, DeliveryTypes, TaskInv, Good,
                           deliveryVars, dashboardVars
<1>16. ASSUME NEW c \in Clients, Start(c) PROVE KeyInv'
  BY <1>16 DEF Start, KeyInv, DashboardTypes, DeliveryTypes, TaskInv, Good, deliveryVars, dashboardVars
<1>17. CASE UNCHANGED licenceVars
  BY <1>17 DEF licenceVars, KeyInv, DashboardTypes, DeliveryTypes, TaskInv, Good,
               deliveryVars, dashboardVars, customerVars
<1> QED
  BY <1>1, <1>2, <1>3, <1>4, <1>5, <1>6, <1>7, <1>8, <1>9, <1>10, <1>11, <1>12, <1>13, <1>14,
     <1>15, <1>16, <1>17 DEF LicencesNext

(* What is installed verifies with the public key beside it.                *)
LEMMA GoodVerifies == KeyInv => InstalledVerifies
<1> SUFFICES ASSUME KeyInv, NEW c \in Clients PROVE installed[c].by = installed[c].key
  BY DEF InstalledVerifies, Verified
<1>1. Good(installed[c])
  BY DEF KeyInv
<1> QED BY <1>1 DEF Good, Empty

(* Every installation's licence verifies with its public key, for any       *)
(* number of clients, keys prepared or repaired on the way, deliveries,     *)
(* updates, errors and kills of the dashboard between any two writes.       *)
THEOREM DeliveredLicencesVerify == LicencesSpec => []InstalledVerifies
  BY KeyInit, KeyStep, GoodVerifies, PTL DEF LicencesSpec
--------------------------------------------------------------------------------
(* The clock.  What licencia_estado.json says of a licence was once the     *)
(* time of a start with it, and latest remembers the latest of those.       *)
ClockTypes ==
    /\ seen \in [Clients -> [entry : Entries, at : Nat]]
    /\ latest \in [Clients -> [1..MaxOps -> Nat]]
    /\ verdict \in [Clients -> [ok : BOOLEAN, at : Nat, entry : Entries]]

Remembered(c) ==
    seen[c].at # 0 => seen[c].entry \in IssuedEntries /\ seen[c].at <= latest[c][seen[c].entry.op]

Judged(c) ==
    verdict[c] # NotStarted =>
        /\ verdict[c].entry \in IssuedEntries
        /\ ~verdict[c].ok /\ InForce(verdict[c].entry, verdict[c].at) =>
               latest[c][verdict[c].entry.op] > verdict[c].at + Tolerance

ClockInv == ClockTypes /\ \A c \in Clients : Remembered(c) /\ Judged(c)

LEMMA ClockInit == LicencesInit => ClockInv
  BY Shapes DEF LicencesInit, ClockInv, ClockTypes, Remembered, Judged, Unseen, NotStarted

(* A start that fails although the licence verifies and is in force met a   *)
(* state file of the same licence with a later time.                        *)
LEMMA ClockStart ==
    ASSUME KeyInv, ClockInv, NEW c \in Clients, Start(c) PROVE ClockInv'
<1> DEFINE entry == installed[c].entry
           Ok(t) == Verified(c) /\ InForce(entry, t) /\ ~WentBack(c, t)
<1>1. PICK t \in 0..MaxTime :
        /\ seen' = IF Ok(t) THEN [seen EXCEPT ![c] = [entry |-> entry, at |-> t]] ELSE seen
        /\ latest' = IF Ok(t) /\ t > latest[c][entry.op]
                     THEN [latest EXCEPT ![c][entry.op] = t] ELSE latest
        /\ verdict' = [verdict EXCEPT ![c] = [ok |-> Ok(t), at |-> t, entry |-> entry]]
  BY DEF Start
<1>2. entry \in IssuedEntries /\ entry \in Entries /\ Verified(c)
  BY GoodVerifies DEF Start, Loads, KeyInv, Good, Entries, InstalledVerifies
<1>3. t \in Nat /\ entry.op \in 1..MaxOps /\ Tolerance \in Nat
  BY <1>2, LicencesAssumption DEF IssuedEntries
<1>4. ASSUME NEW d \in Clients, d # c PROVE (Remembered(d) /\ Judged(d))'
  <2>1. seen'[d] = seen[d] /\ latest'[d] = latest[d] /\ verdict'[d] = verdict[d]
    BY <1>1, <1>4 DEF ClockInv, ClockTypes
  <2> QED BY <2>1 DEF ClockInv, Remembered, Judged, InForce
<1>5. verdict'[c] = [ok |-> Ok(t), at |-> t, entry |-> entry]
  BY <1>1 DEF ClockInv, ClockTypes
<1>6. verdict' \in [Clients -> [ok : BOOLEAN, at : Nat, entry : Entries]]
  <2>1. Ok(t) \in BOOLEAN
    BY DEF Verified, InForce, WentBack
  <2> HIDE DEF Ok, entry
  <2> QED BY <1>1, <1>2, <1>3, <2>1 DEF ClockInv, ClockTypes
<1> HIDE DEF entry
<1>7. CASE Ok(t)
  <2> HIDE DEF Ok
  <2>1. seen'[c] = [entry |-> entry, at |-> t]
        /\ seen' \in [Clients -> [entry : Entries, at : Nat]]
    BY <1>1, <1>2, <1>3, <1>7 DEF ClockInv, ClockTypes
  <2>2. latest' \in [Clients -> [1..MaxOps -> Nat]] /\ latest'[c][entry.op] >= t
    <3>1. latest \in [Clients -> [1..MaxOps -> Nat]] /\ latest[c] \in [1..MaxOps -> Nat]
          /\ latest[c][entry.op] \in Nat
      BY <1>3 DEF ClockInv, ClockTypes
    <3>2. CASE t > latest[c][entry.op]
      <4> DEFINE row == [latest[c] EXCEPT ![entry.op] = t]
      <4>1. row \in [1..MaxOps -> Nat] /\ row[entry.op] = t
        BY <1>3, <3>1
      <4>2. latest' = [latest EXCEPT ![c] = row]
        BY <1>1, <1>7, <3>2
      <4> HIDE DEF row
      <4>3. latest' \in [Clients -> [1..MaxOps -> Nat]] /\ latest'[c] = row
        BY <3>1, <4>1, <4>2
      <4> QED BY <1>3, <4>1, <4>3
    <3>3. CASE ~(t > latest[c][entry.op])
      <4>1. latest' = latest
        BY <1>1, <3>3
      <4> QED BY <1>3, <3>1, <3>3, <4>1
    <3> QED BY <3>2, <3>3
  <2>3. Remembered(c)'
    BY <1>2, <1>3, <2>1, <2>2 DEF Remembered
  <2>4. Judged(c)'
    BY <1>2, <1>5, <1>7 DEF Judged
  <2> QED BY <1>4, <1>6, <2>1, <2>2, <2>3, <2>4 DEF ClockInv, ClockTypes
<1>8. CASE ~Ok(t)
  <2>1. seen' = seen /\ latest' = latest
    BY <1>1, <1>8
  <2>2. Remembered(c)'
    BY <2>1 DEF ClockInv, Remembered
  <2>3. Judged(c)'
    <3>1. SUFFICES ASSUME InForce(entry, t) PROVE latest[c][entry.op] > t + Tolerance
      BY <1>2, <1>5, <2>1 DEF Judged, InForce
    <3>2. seen[c].entry = entry /\ t + Tolerance < seen[c].at
      BY <1>2, <1>8, <3>1 DEF WentBack, entry
    <3>3. seen[c].at \in Nat /\ latest[c][entry.op] \in Nat
      BY <1>3 DEF ClockInv, ClockTypes
    <3>4. seen[c].at <= latest[c][entry.op]
      BY <1>3, <3>2, <3>3 DEF ClockInv, Remembered
    <3> QED BY <1>3, <3>2, <3>3, <3>4
  <2> QED BY <1>4, <1>6, <2>1, <2>2, <2>3 DEF ClockInv, ClockTypes
<1> QED BY <1>7, <1>8

LEMMA ClockStep == KeyInv /\ ClockInv /\ [LicencesNext]_licenceVars => ClockInv'
<1> SUFFICES ASSUME KeyInv, ClockInv, [LicencesNext]_licenceVars PROVE ClockInv'
  OBVIOUS
<1>1. CASE UNCHANGED <<seen, verdict, latest>>
  BY <1>1 DEF ClockInv, ClockTypes, Remembered, Judged, InForce
<1>2. CASE UNCHANGED licenceVars
  BY <1>1, <1>2 DEF licenceVars, customerVars
<1>3. ASSUME NEW c \in Clients,
             CreateClient(c) \/ RenewLicense(c) \/ Deliver(c) \/ DeleteClient(c)
             \/ Install(c) \/ Update(c)
      PROVE  ClockInv'
  BY <1>1, <1>3 DEF CreateClient, RenewLicense, Deliver, Starts, DeleteClient, Install, Update,
                    customerVars
<1>4. ASSUME GenerateUpdate \/ EnsurePrivate \/ EnsurePublic \/ WriteLicence \/ CopyPublicKey
             \/ Build \/ Save \/ Fail \/ Restart \/ TimePasses
      PROVE  ClockInv'
  BY <1>1, <1>4 DEF GenerateUpdate, EnsurePrivate, EnsurePublic, WriteLicence, CopyPublicKey,
                    Build, Save, Fail, Restart, TimePasses, customerVars
<1> QED BY <1>2, <1>3, <1>4, ClockStart DEF LicencesNext

(* An installation whose licence is in force is turned away only if it was  *)
(* started with this licence, not with one it had before, at a time later   *)
(* than the tolerance allows: for every clock and sequence of renewals.     *)
THEOREM ClockTurnsAwayRightly == LicencesSpec => []TurnedAwayByClock
<1>1. ClockInv => TurnedAwayByClock
  BY DEF ClockInv, Judged, TurnedAwayByClock
<1> QED BY <1>1, KeyInit, KeyStep, ClockInit, ClockStep, PTL DEF LicencesSpec
--------------------------------------------------------------------------------
(* The records.  What the folder of a client holds is never older than the  *)
(* record in memory or in the file; memory lags behind the file only where  *)
(* it has no entry; once the user was told, all three are the same.         *)
FolderTypes == folder \in [Clients -> Licence] /\ told \in [Clients -> Nat]

Backed(c) ==
    /\ folder[c].entry.op <= ops /\ db[c].op <= folder[c].entry.op
    /\ record[c].op <= folder[c].entry.op
    /\ db[c] # NoEntry => record[c].op <= db[c].op
    /\ told[c] # 0 =>
           told[c] = record[c].op /\ record[c] = db[c] /\ folder[c].entry = db[c]

(* The operation under way issues the latest licence there is or delivers   *)
(* the one of the record; before it saves, the folder has it.               *)
Delivering ==
    task \in Tasks /\ task.kind # "update" =>
        /\ told[task.client] = 0
        /\ IF Issues(task.kind) THEN task.entry.op = ops ELSE task.entry = db[task.client]
        /\ task.kind = "export" => task.at \notin {"build", "save"}
        /\ task.kind # "export" /\ task.at \in {"copy", "build", "save"} =>
               folder[task.client].entry = task.entry

RecordInv == FolderTypes /\ Delivering /\ \A c \in Clients : Backed(c)

LEMMA Numbers ==
    ASSUME KeyInv, RecordInv, NEW c \in Clients
    PROVE  /\ ops \in Nat /\ db[c].op \in Nat /\ record[c].op \in Nat
           /\ folder[c].entry.op \in Nat /\ folder[c].entry \in Entries
  BY LicencesAssumption
     DEF KeyInv, DashboardTypes, RecordInv, FolderTypes, Licence, Entries, IssuedEntries, NoEntry

LEMMA RecordInit == LicencesInit => RecordInv
<1> SUFFICES ASSUME LicencesInit PROVE RecordInv
  OBVIOUS
<1>1. /\ ops = 0 /\ task \notin Tasks
      /\ folder = [c \in Clients |-> Empty] /\ told = [c \in Clients |-> 0]
      /\ \A c \in Clients : db[c] = NoEntry /\ record[c] = NoEntry
  BY Shapes DEF LicencesInit
<1>2. Empty.entry = NoEntry /\ NoEntry.op = 0
  BY DEF Empty, NoEntry
<1> QED BY <1>1, <1>2, Shapes DEF RecordInv, FolderTypes, Delivering, Backed

(* A dialog of client c begins: nobody was told of this operation yet.      *)
LEMMA RecordBegins ==
    ASSUME KeyInv, RecordInv, NEW c \in Clients, NEW kind \in Kinds, NEW entry \in Entries,
           Begin(kind, c, entry), ops' \in Nat, ops' >= ops,
           UNCHANGED <<db, record, folder>>, told' = [told EXCEPT ![c] = 0],
           Issues(kind) => entry.op = ops', ~Issues(kind) => entry = db[c]
    PROVE  RecordInv'
<1>1. /\ task'.at = "private" /\ task'.kind = kind /\ task'.client = c /\ task'.entry = entry
  BY DEF Begin
<1>2. told' \in [Clients -> Nat] /\ told'[c] = 0
      /\ \A d \in Clients : told'[d] \in {told[d], 0}
  BY DEF RecordInv, FolderTypes
<1>3. Delivering'
  BY <1>1, <1>2 DEF Delivering
<1>4. ASSUME NEW d \in Clients PROVE Backed(d)'
  BY <1>2, Numbers DEF RecordInv, Backed
<1> QED BY <1>2, <1>3, <1>4 DEF RecordInv, FolderTypes

(* The operation moves on, or is given up, and neither record nor folder    *)
(* changes.                                                                 *)
LEMMA RecordWaits ==
    ASSUME KeyInv, RecordInv, UNCHANGED <<db, record, ops, told>>,
           folder' \in [Clients -> Licence],
           \A c \in Clients : folder'[c].entry = folder[c].entry,
           \/ task' \notin Tasks
           \/ task'.kind = "update"
           \/ task' = task
           \/ /\ task \in Tasks /\ task.kind # "update"
              /\ \E at \in Positions : task' = TaskAt(at) /\
                   (/\ at \in {"build", "save"} => task.kind # "export"
                    /\ at \in {"copy", "build", "save"} /\ task.kind # "export" =>
                         folder[task.client].entry = task.entry)
    PROVE  RecordInv'
<1>1. \A c \in Clients : Backed(c)'
  BY DEF RecordInv, Backed
<1>2. Delivering'
  <2>1. CASE task' \notin Tasks \/ task'.kind = "update"
    BY <2>1 DEF Delivering
  <2>2. CASE task' = task
    <3>1. task \in Tasks => task.client \in Clients
      BY DEF Tasks
    <3> QED BY <2>2, <3>1 DEF RecordInv, Delivering
  <2>3. ASSUME task \in Tasks, task.kind # "update", NEW at \in Positions, task' = TaskAt(at),
               at \in {"build", "save"} => task.kind # "export",
               at \in {"copy", "build", "save"} /\ task.kind # "export" =>
                 folder[task.client].entry = task.entry
        PROVE  Delivering'
    <3>1. /\ task'.kind = task.kind /\ task'.entry = task.entry /\ task'.at = at
          /\ task'.client = task.client /\ task.client \in Clients
      BY <2>3 DEF TaskAt, Tasks
    <3> QED BY <2>3, <3>1 DEF RecordInv, Delivering
  <2> QED BY <2>1, <2>2, <2>3
<1> QED BY <1>1, <1>2 DEF RecordInv, FolderTypes

LEMMA RecordStep == KeyInv /\ RecordInv /\ [LicencesNext]_licenceVars => RecordInv'
<1> SUFFICES ASSUME KeyInv, RecordInv, [LicencesNext]_licenceVars PROVE RecordInv'
  OBVIOUS
<1>0. folder \in [Clients -> Licence] /\ told \in [Clients -> Nat]
  BY DEF RecordInv, FolderTypes
<1>1. ASSUME NEW c \in Clients, CreateClient(c) PROVE RecordInv'
  <2>1. PICK d \in Durations :
            Begin("create", c, [op |-> ops + 1, issued |-> now, expires |-> now + d])
    BY <1>1 DEF CreateClient
  <2> DEFINE issued == [op |-> ops + 1, issued |-> now, expires |-> now + d]
  <2>2. issued \in Entries /\ issued.op = ops + 1
    BY <1>1, LicencesAssumption DEF CreateClient, KeyInv, DashboardTypes, IssuedEntries, Entries
  <2>3. /\ ops' = ops + 1 /\ ops \in Nat /\ told' = [told EXCEPT ![c] = 0]
        /\ UNCHANGED <<db, record, folder>>
    BY <1>1, Numbers DEF CreateClient, Starts, deliveryVars
  <2>4. "create" \in Kinds /\ Issues("create") /\ Begin("create", c, issued)
    BY <2>1 DEF Kinds, Issues
  <2> HIDE DEF issued
  <2>5. PICK entry \in Entries : entry = issued
    BY <2>2
  <2>6. Begin("create", c, entry) /\ entry.op = ops'
    BY <2>2, <2>3, <2>4, <2>5
  <2>8. (Issues("create") => entry.op = ops') /\ (~Issues("create") => entry = db[c])
    BY <2>3, <2>4, <2>6
  <2>9. ops' \in Nat /\ ops' >= ops
    BY <2>3
  <2> QED BY <2>3, <2>4, <2>6, <2>8, <2>9, RecordBegins
<1>2. ASSUME NEW c \in Clients, RenewLicense(c) PROVE RecordInv'
  <2> DEFINE Base(kind) == IF kind = "extend" /\ db[c].expires > now THEN db[c].expires ELSE now
  <2>1. PICK kind \in {"renew", "extend"}, d \in Durations :
            Begin(kind, c, [op |-> ops + 1, issued |-> now, expires |-> Base(kind) + d])
    BY <1>2 DEF RenewLicense
  <2>2. Base(kind) \in Nat
    BY <1>2 DEF RenewLicense, KeyInv, DashboardTypes, Entries, IssuedEntries
  <2> HIDE DEF Base
  <2> DEFINE issued == [op |-> ops + 1, issued |-> now, expires |-> Base(kind) + d]
  <2>3. issued \in Entries /\ issued.op = ops + 1
    BY <1>2, <2>2, LicencesAssumption DEF RenewLicense, KeyInv, DashboardTypes, IssuedEntries, Entries
  <2>4. /\ ops' = ops + 1 /\ ops \in Nat /\ told' = [told EXCEPT ![c] = 0]
        /\ UNCHANGED <<db, record, folder>>
    BY <1>2, Numbers DEF RenewLicense, Starts, deliveryVars
  <2>5. kind \in Kinds /\ Issues(kind) /\ Begin(kind, c, issued)
    BY <2>1 DEF Kinds, Issues
  <2> HIDE DEF issued
  <2>6. PICK entry \in Entries : entry = issued
    BY <2>3
  <2>7. Begin(kind, c, entry) /\ entry.op = ops'
    BY <2>3, <2>4, <2>5, <2>6
  <2>8. (Issues(kind) => entry.op = ops') /\ (~Issues(kind) => entry = db[c])
    BY <2>4, <2>5, <2>7
  <2>9. ops' \in Nat /\ ops' >= ops
    BY <2>4
  <2> QED BY <2>4, <2>5, <2>7, <2>8, <2>9, RecordBegins
<1>3. ASSUME NEW c \in Clients, Deliver(c) PROVE RecordInv'
  <2>1. PICK kind \in {"export", "installer"} : Begin(kind, c, db[c])
    BY <1>3 DEF Deliver
  <2>2. /\ ops' = ops /\ ops \in Nat /\ told' = [told EXCEPT ![c] = 0]
        /\ UNCHANGED <<db, record, folder>> /\ db[c] \in Entries
    BY <1>3, Numbers DEF Deliver, Starts, deliveryVars, KeyInv, DashboardTypes
  <2>3. kind \in Kinds /\ ~Issues(kind)
    BY DEF Kinds, Issues
  <2>4. PICK entry \in Entries : entry = db[c]
    BY <2>2
  <2>5. Begin(kind, c, entry)
    BY <2>1, <2>4
  <2>6. Issues(kind) => entry.op = ops'
    BY <2>3
  <2>7. ~Issues(kind) => entry = db[c]
    BY <2>4
  <2>8. ops' \in Nat /\ ops' >= ops
    BY <2>2
  <2> QED BY <2>2, <2>3, <2>5, <2>6, <2>7, <2>8, RecordBegins
<1>4. ASSUME GenerateUpdate PROVE RecordInv'
  <2>1. task'.kind = "update" /\ UNCHANGED <<db, record, ops, told, folder>>
    BY <1>4 DEF GenerateUpdate, Begin, deliveryVars
  <2> QED BY <1>0, <2>1, RecordWaits
<1>5. ASSUME NEW c \in Clients, DeleteClient(c) PROVE RecordInv'
  <2>1. /\ task' \notin Tasks /\ db' = [db EXCEPT ![c] = NoEntry] /\ told' = [told EXCEPT ![c] = 0]
        /\ UNCHANGED <<folder, ops>> /\ (record' = db' \/ record' = record)
    BY <1>5, Shapes DEF DeleteClient, deliveryVars
  <2>2. NoEntry.op = 0
    BY DEF NoEntry
  <2>3. Backed(c)'
    BY <1>0, <2>1, <2>2, Numbers DEF RecordInv, Backed, KeyInv, DashboardTypes
  <2>4. ASSUME NEW d \in Clients, d # c PROVE Backed(d)'
    <3>1. db'[d] = db[d] /\ told'[d] = told[d] /\ record'[d] \in {record[d], db[d]}
      BY <1>0, <2>1, <2>4 DEF KeyInv, DashboardTypes
    <3>2. Backed(d)
      BY DEF RecordInv
    <3> QED BY <2>1, <3>1, <3>2, Numbers DEF Backed
  <2>5. told' \in [Clients -> Nat]
    BY <1>0, <2>1
  <2> QED BY <1>0, <2>1, <2>3, <2>4, <2>5 DEF RecordInv, FolderTypes, Delivering
<1>6. ASSUME EnsurePrivate \/ EnsurePublic PROVE RecordInv'
  <2>1. task \in Tasks
    BY <1>6, UnderWay DEF EnsurePrivate, EnsurePublic, Positions
  <2>2. /\ UNCHANGED <<db, record, ops, told, folder>>
        /\ task' \in {TaskAt(Sign), TaskAt("public")}
    BY <1>6 DEF EnsurePrivate, EnsurePublic, deliveryVars
  <2>3. CASE task.kind = "update"
    <3>1. task'.kind = "update"
      BY <2>1, <2>2, <2>3 DEF TaskAt, Tasks
    <3> QED BY <1>0, <2>2, <3>1, RecordWaits
  <2>4. CASE task.kind # "update"
    <3>1. PICK at \in {"licence", "public"} : task' = TaskAt(at)
      BY <2>2, <2>4 DEF Sign
    <3>2. at \in Positions
      BY DEF Positions
    <3> QED BY <1>0, <2>1, <2>2, <2>4, <3>1, <3>2, RecordWaits
  <2> QED BY <2>3, <2>4
\* The folder receives a licence no older than the record.
<1>7. ASSUME WriteLicence PROVE RecordInv'
  <2>1. task \in Tasks /\ task.at = "licence" /\ task.kind # "update" /\ task.entry \in IssuedEntries
    BY <1>7, UnderWay DEF WriteLicence, Positions, KeyInv, TaskInv
  <2>2. UNCHANGED <<db, record, ops, told>>
    BY <1>7 DEF WriteLicence
  <2>3. CASE task.kind = "export"
    <3>1. task' = [TaskAt("copy") EXCEPT !.out = Issued(task.entry, 0)] /\ folder' = folder
      BY <1>7, <2>3 DEF WriteLicence
    <3>2. /\ task'.kind = task.kind /\ task'.entry = task.entry /\ task'.client = task.client
          /\ task'.at = "copy" /\ task.client \in Clients
      BY <2>1, <3>1 DEF TaskAt, Tasks
    <3>3. Delivering'
      BY <2>1, <2>2, <2>3, <3>1, <3>2 DEF RecordInv, Delivering
    <3> QED BY <1>0, <2>2, <3>1, <3>3 DEF RecordInv, FolderTypes, Backed
  <2>4. CASE task.kind # "export"
    <3>10. PICK c \in Clients : c = task.client
      BY <2>1 DEF Tasks
    <3> DEFINE issued == Issued(task.entry, folder[c].key)
    <3>1. c \in Clients /\ folder[c].key \in Nat /\ private \in Nat /\ task.entry \in Entries
      BY <1>0, <2>1 DEF Tasks, Licence, KeyInv, DashboardTypes, Entries
    <3>2. issued \in Licence /\ issued.entry = task.entry
      BY <3>1 DEF Issued, Licence
    <3>3. task' = TaskAt("copy") /\ folder' = [folder EXCEPT ![c] = issued]
      BY <1>7, <2>4, <3>10 DEF WriteLicence
    <3>4. /\ task'.kind = task.kind /\ task'.entry = task.entry /\ task'.client = c
          /\ task'.at = "copy"
      BY <2>1, <3>3, <3>10 DEF TaskAt, Tasks
    <3> HIDE DEF issued
    <3>5. folder' \in [Clients -> Licence] /\ folder'[c].entry = task.entry
          /\ \A d \in Clients : d # c => folder'[d] = folder[d]
      BY <1>0, <3>1, <3>2, <3>3
    <3>6. told[c] = 0 /\ (IF Issues(task.kind) THEN task.entry.op = ops ELSE task.entry = db[c])
      BY <2>1, <3>10 DEF RecordInv, Delivering
    <3>7. Backed(c)'
      <4>1. Backed(c) /\ NoEntry \notin IssuedEntries
        BY <3>1 DEF RecordInv, NoEntry, IssuedEntries
      <4> DEFINE op == folder'[c].entry.op
      <4>4. /\ ops \in Nat /\ op = task.entry.op /\ db[c].op \in Nat /\ record[c].op \in Nat
            /\ folder[c].entry.op \in Nat
        BY <3>1, <3>5, Numbers
      <4>5. op <= ops /\ db[c].op <= op /\ record[c].op <= op
        <5>1. CASE Issues(task.kind)
          <6>1. op = ops
            BY <3>6, <4>4, <5>1
          <6> QED BY <4>1, <4>4, <6>1 DEF Backed
        <5>2. CASE ~Issues(task.kind)
          <6>1. op = db[c].op /\ db[c] # NoEntry
            BY <2>1, <3>6, <4>1, <4>4, <5>2
          <6> QED BY <4>1, <4>4, <6>1 DEF Backed
        <5> QED BY <5>1, <5>2
      <4> QED BY <2>2, <3>6, <4>1, <4>5 DEF Backed
    <3>8. \A d \in Clients : Backed(d)'
      <4> SUFFICES ASSUME NEW d \in Clients, d # c PROVE Backed(d)'
        BY <3>7
      <4> QED BY <2>2, <3>5 DEF RecordInv, Backed
    <3>9. Delivering'
      BY <2>2, <2>4, <3>4, <3>5, <3>6 DEF Delivering
    <3> QED BY <2>2, <3>5, <3>8, <3>9, <1>0 DEF RecordInv, FolderTypes
  <2> QED BY <2>3, <2>4
<1>8. ASSUME CopyPublicKey PROVE RecordInv'
  <2>1. task \in Tasks /\ task.at = "copy" /\ task.kind # "update" /\ task.client \in Clients
        /\ public \in Nat
    BY <1>8, UnderWay DEF CopyPublicKey, Positions, KeyInv, TaskInv, Tasks, DashboardTypes
  <2>2. UNCHANGED <<db, record, ops, told>>
    BY <1>8 DEF CopyPublicKey
  <2>3. CASE task.kind = "export"
    BY <1>0, <1>8, <2>2, <2>3, Shapes, RecordWaits DEF CopyPublicKey
  <2>4. CASE task.kind # "export"
    <3>1. folder' = [folder EXCEPT ![task.client].key = public]
          /\ task' \in {TaskAt("build"), TaskAt("save")}
      BY <1>8, <2>4 DEF CopyPublicKey
    <3>2. folder' \in [Clients -> Licence]
          /\ \A d \in Clients : folder'[d].entry = folder[d].entry
      BY <1>0, <2>1, <3>1 DEF Licence
    <3>3. folder[task.client].entry = task.entry
      BY <2>1, <2>4 DEF RecordInv, Delivering
    <3> QED BY <2>1, <2>2, <2>4, <3>1, <3>2, <3>3, RecordWaits DEF Positions
  <2> QED BY <2>3, <2>4
<1>9. ASSUME Build PROVE RecordInv'
  <2>1. task \in Tasks /\ task.at = "build" /\ UNCHANGED <<db, record, ops, told, folder>>
    BY <1>9, UnderWay DEF Build, Positions
  <2>2. CASE task.kind = "update"
    BY <1>0, <1>9, <2>1, <2>2, Shapes, RecordWaits DEF Build
  <2>3. CASE task.kind # "update"
    <3>1. task' = TaskAt("save") /\ "save" \in Positions
      BY <1>9, <2>3 DEF Build, Positions
    <3>2. task.kind # "export" /\ folder[task.client].entry = task.entry
      BY <2>1, <2>3 DEF RecordInv, Delivering
    <3> QED BY <1>0, <2>1, <2>3, <3>1, <3>2, RecordWaits
  <2> QED BY <2>2, <2>3
<1>10. ASSUME Save PROVE RecordInv'
  <2>1. task \in Tasks /\ task.at = "save" /\ task' \notin Tasks
    BY <1>10, UnderWay, Shapes DEF Save, Positions
  <2>9. PICK c \in Clients : c = task.client
    BY <2>1 DEF Tasks
  <2>2. /\ task.kind \notin {"update", "export"} /\ c \in Clients
        /\ told[c] = 0 /\ folder[c].entry = task.entry /\ task.entry \in IssuedEntries
        /\ IF Issues(task.kind) THEN task.entry.op = ops ELSE task.entry = db[c]
    BY <2>1, <2>9 DEF RecordInv, Delivering, KeyInv, TaskInv, Tasks
  <2>3. db'[c] = task.entry /\ \A d \in Clients : d # c => db'[d] = db[d]
    BY <1>10, <2>2, <2>9 DEF Save, KeyInv, DashboardTypes
  <2>4. /\ UNCHANGED <<folder, ops>>
        /\ \/ record' = db' /\ told' = [told EXCEPT ![c] = task.entry.op]
           \/ UNCHANGED <<record, told>>
    BY <1>10, <2>9 DEF Save, deliveryVars
  <2>5. told' \in [Clients -> Nat] /\ told'[c] \in {told[c], task.entry.op}
        /\ \A d \in Clients : d # c => told'[d] = told[d]
    BY <1>0, <2>2, <2>4, LicencesAssumption DEF IssuedEntries
  <2>6. Backed(c)'
    <3>1. Backed(c)
      BY <2>2 DEF RecordInv
    <3>4. /\ folder'[c] = folder[c] /\ folder[c].entry = task.entry /\ db'[c] = task.entry
          /\ ops' = ops /\ task.entry.op \in Nat
      BY <2>2, <2>3, <2>4, Numbers
    <3>2. CASE record' = db' /\ told' = [told EXCEPT ![c] = task.entry.op]
      <4>1. told'[c] = task.entry.op /\ record'[c] = task.entry
        BY <1>0, <2>2, <3>2, <3>4
      <4> QED BY <3>1, <3>4, <4>1 DEF Backed
    <3>3. CASE UNCHANGED <<record, told>>
      <4>1. record'[c].op <= task.entry.op /\ told'[c] = 0
        BY <2>2, <3>1, <3>3 DEF Backed
      <4> QED BY <3>1, <3>4, <4>1 DEF Backed
    <3> QED BY <2>4, <3>2, <3>3
  <2>7. ASSUME NEW d \in Clients, d # c PROVE Backed(d)'
    <3>1. Backed(d) /\ record'[d] \in {record[d], db[d]}
      BY <2>3, <2>4, <2>7 DEF RecordInv
    <3> QED BY <2>3, <2>4, <2>5, <2>7, <3>1, Numbers DEF Backed
  <2>8. \A d \in Clients : Backed(d)'
    BY <2>6, <2>7
  <2> QED BY <1>0, <2>1, <2>4, <2>5, <2>8 DEF RecordInv, FolderTypes, Delivering
<1>11. ASSUME Fail PROVE RecordInv'
  BY <1>0, <1>11, Shapes, RecordWaits DEF Fail, deliveryVars
<1>12. ASSUME Restart PROVE RecordInv'
  <2>1. task' \notin Tasks /\ db' = record /\ UNCHANGED <<record, folder, ops, told>>
    BY <1>12, Shapes DEF Restart, deliveryVars
  <2>2. ASSUME NEW c \in Clients PROVE Backed(c)'
    BY <2>1, Numbers DEF RecordInv, Backed
  <2> QED BY <1>0, <2>1, <2>2 DEF RecordInv, FolderTypes, Delivering
<1>13. ASSUME UNCHANGED <<db, record, ops, told, task, folder>> PROVE RecordInv'
  BY <1>0, <1>13, RecordWaits
<1>14. ASSUME TimePasses \/ UNCHANGED licenceVars PROVE RecordInv'
  BY <1>13, <1>14 DEF TimePasses, licenceVars, dashboardVars, deliveryVars
<1>15. ASSUME NEW c \in Clients, Install(c) \/ Update(c) \/ Start(c) PROVE RecordInv'
  BY <1>13, <1>15 DEF Install, Update, Start, dashboardVars, deliveryVars
<1> QED
  BY <1>1, <1>2, <1>3, <1>4, <1>5, <1>6, <1>7, <1>8, <1>9, <1>10, <1>11, <1>12, <1>14, <1>15
  DEF LicencesNext

(* No record promises more than was signed, and what the user was told is   *)
(* so in the file, in memory and in the client's folder: wherever a write   *)
(* raised or the dashboard was killed, for any number of clients.           *)
THEOREM RecordsAreBacked == LicencesSpec => []LicenceBacksRecord
<1>1. KeyInv /\ RecordInv => LicenceBacksRecord
  <2> SUFFICES ASSUME KeyInv, RecordInv, NEW c \in Clients
               PROVE  /\ folder[c].entry.op >= record[c].op
                      /\ told[c] # 0 => told[c] = record[c].op /\ record[c] = db[c]
                                        /\ folder[c].entry = db[c]
    BY DEF LicenceBacksRecord
  <2> QED BY Numbers DEF RecordInv, Backed
<1> QED BY <1>1, KeyInit, KeyStep, RecordInit, RecordStep, PTL DEF LicencesSpec
================================================================================
