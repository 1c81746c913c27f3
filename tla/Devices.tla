-------------------------------- MODULE Devices -------------------------------
(***************************************************************************)
(* What the server keeps of one device (api/agent.py, api/inventory.py,    *)
(* api/devices.py, api/remote.py): whether it is online, its inventory and *)
(* its remote access link.                                                 *)
(*                                                                         *)
(* Requests overlap.  Each is a transaction that reads committed rows,     *)
(* deletes inventory rows at once and sends all other changes in a flush;  *)
(* the flush updates the devices row first, and the lock it takes puts     *)
(* check-ins in an order.  The ORM writes the columns that differ from     *)
(* what the request has loaded, and no others.                             *)
(*                                                                         *)
(* security_statuses stands for update_statuses as well: both are written  *)
(* in the same way.  Alerts (module Alerts) and the providers of remote    *)
(* access are left out.                                                    *)
(***************************************************************************)
EXTENDS Naturals, Sequences

CONSTANTS
    Slots,     \* requests that may overlap
    Checkins,  \* names of check-ins with an inventory; one is free to use again
               \* when nothing is left of its check-in
    NTables,   \* inventory tables with many rows, by the order of their DELETEs
    Hardware,  \* what a check-in may say in the columns of device_inventories,
               \* security_statuses and remote_device_links
    None

ASSUME NTablesAssumption == NTables \in Nat
ASSUME NoneAssumption    == None \notin Checkins \cup Hardware

VARIABLES
    recent,   \* is last_seen_at within device_offline_after_seconds?
    online,   \* devices.is_online, and devices.status
    inv,      \* the device's row of device_inventories, or None
    security, \* the device's row of security_statuses, or None
    rows,     \* check-ins whose rows are in each of the tables
    links,    \* the remote_device_links of the device: what each says
    req,      \* requests in flight
    latest,   \* history: the last check-in with an inventory, what it reported
              \* and which such check-ins were in flight with it
    told,     \* history: what the last one with a security status has told of it;
              \* anything if others were in flight with that one
    pointed,  \* history: what the last check-in with remote access has told of it;
              \* anything if others were in flight with that one
    blurred   \* history: had the last writer of the devices row an outdated copy?

device == <<recent, online, blurred>>
tables == <<inv, security, rows, latest, told>>
remote == <<links, pointed>>
vars   == <<recent, online, inv, security, rows, links, req, latest, told, pointed, blurred>>

Tables == 1..NTables

Row   == Hardware \cup {None}  \* of a table with one row of the device, or NULL
Links == Seq(Hardware)         \* nothing keeps a device from having several

Latest == [by : Checkins \cup {None}, hw : Row, peers : SUBSET Checkins]
Nobody == [by |-> None, hw |-> None, peers |-> {}]

(***************************************************************************)
(* A request: a reader, or a check-in, which is a "report" if it has an    *)
(* inventory and a "ping" if not; a report with a security status is       *)
(* `full`, and either kind may tell of remote access, `remote`.  Whether   *)
(* it is full is chosen when that is looked at, and what a check-in says   *)
(* when it is written; nothing depends on it before.                       *)
(*                                                                         *)
(* What it has loaded: `online`, `recent`, `inv`, `security`; which of the *)
(* links (0: none) and what it said, `linked`.  A DELETE from the table    *)
(* `next` has found the rows `seen`; `gone` are the rows deleted so far.   *)
(* As history, `stale`: has the devices row been written since?  `met`:    *)
(* see latest.peers.  `crossed`: was another with remote access in flight? *)
(***************************************************************************)
Request ==
    [kind     : {"none", "ping", "report", "read"},
     phase    : {"loaded", "deleting", "checked", "found", "flushed"},
     name     : Checkins \cup {None},
     full     : BOOLEAN,
     remote   : BOOLEAN,
     online   : BOOLEAN,
     recent   : BOOLEAN,
     inv      : Row,
     security : Row,
     next     : 1..(NTables + 1),
     seen     : SUBSET Checkins,
     gone     : [Tables -> SUBSET Checkins],
     link     : Nat,
     linked   : Row,
     stale    : BOOLEAN,
     met      : SUBSET Checkins,
     crossed  : BOOLEAN]

NoRequest ==
    [kind |-> "none", phase |-> "loaded", name |-> None, full |-> FALSE, remote |-> FALSE,
     online |-> FALSE, recent |-> FALSE, inv |-> None, security |-> None, next |-> 1, seen |-> {},
     gone |-> [i \in Tables |-> {}], link |-> 0, linked |-> None,
     stale |-> FALSE, met |-> {}, crossed |-> FALSE]

(* An enrolled device that has not checked in.                             *)
Init ==
    /\ recent   = TRUE
    /\ online   = TRUE
    /\ inv      = None
    /\ security = None
    /\ rows     = [i \in Tables |-> {}]
    /\ links    = <<>>
    /\ req      = [s \in Slots |-> NoRequest]
    /\ latest   = Nobody
    /\ told     = {None}
    /\ pointed  = {}
    /\ blurred  = FALSE

-----------------------------------------------------------------------------
At(s, kind, phase) == req[s].kind = kind /\ req[s].phase = phase

Active == {req[s].name : s \in Slots} \ {None}

Unused == Checkins \ (Active \cup {latest.by} \cup UNION {rows[i] : i \in Tables})

(* The devices row is loaded.  Only readers look at last_seen_at.          *)
Loaded(kind) ==
    [NoRequest EXCEPT !.kind = kind, !.online = online, !.recent = (kind = "read" /\ recent)]

(* History: the check-in `new` begins while r is in flight.                *)
Joined(r, new) ==
    [r EXCEPT !.met = IF r.kind = "report" THEN r.met \cup ({new.name} \ {None}) ELSE r.met,
              !.crossed = r.crossed \/ (r.remote /\ new.remote)]

(* Request s ends, having written the devices row.                         *)
Written(s) ==
    req' = [v \in Slots |-> IF v = s THEN NoRequest
                            ELSE IF req[v] = NoRequest THEN NoRequest
                            ELSE [req[v] EXCEPT !.stale = TRUE]]

(* A flush holds the lock of the devices row until the commit.             *)
Unlocked(s) == \A v \in Slots \ {s} : req[v].phase # "flushed"

(* get_db closes the session of a request that fails, and all is undone.   *)
Abort(s) ==
    /\ req[s] # NoRequest
    /\ req' = [req EXCEPT ![s] = NoRequest]
    /\ UNCHANGED <<device, tables, remote>>

(* device_offline_after_seconds go by without a check-in.                  *)
TimePasses ==
    /\ recent
    /\ recent' = FALSE
    /\ UNCHANGED <<online, blurred, tables, remote, req>>

-----------------------------------------------------------------------------
(***************************************************************************)
(* Readers: list_devices and get_device.  One that agrees with the columns *)
(* writes nothing and is left out.                                         *)
(***************************************************************************)
ReadBegin(s) ==
    /\ req[s] = NoRequest
    /\ online # recent
    /\ req' = [req EXCEPT ![s] = Loaded("read")]
    /\ UNCHANGED <<device, tables, remote>>

\* Faulty variant: a silent device gets no status.
ReadCommitNull(s) ==
    /\ At(s, "read", "loaded")
    /\ Unlocked(s)
    /\ online' = IF req[s].recent THEN TRUE ELSE None
    /\ blurred' = req[s].stale
    /\ Written(s)
    /\ UNCHANGED <<recent, tables, remote>>

(* _sync_status, with last_seen_at as it was loaded.                       *)
ReadCommit(s) ==
    /\ At(s, "read", "loaded")
    /\ Unlocked(s)
    /\ online' = req[s].recent
    /\ blurred' = req[s].stale
    /\ Written(s)
    /\ UNCHANGED <<recent, tables, remote>>

-----------------------------------------------------------------------------
CheckinBegin(s, new) ==
    /\ req[s] = NoRequest
    /\ req' = [v \in Slots |-> IF v = s THEN new ELSE Joined(req[v], new)]
    /\ UNCHANGED <<device, tables, remote>>

(* A check-in with remote access is crossed from the start if there is one *)
(* in flight already.                                                      *)
Crosses(telling) == telling /\ \E v \in Slots : req[v].remote

(* One without inventory.  With no remote access, either, it does what a   *)
(* re-enrolment does, too.                                                 *)
PingBegin(s, telling) ==
    CheckinBegin(s, [Loaded("ping") EXCEPT
                        !.phase = IF telling THEN "checked" ELSE "found",
                        !.remote = telling, !.crossed = Crosses(telling)])

(* One with an inventory: devices and device_inventories are selected.     *)
ReportBegin(s, c, telling) ==
    /\ c \in Unused
    /\ CheckinBegin(s, [Loaded("report") EXCEPT
                           !.name = c, !.remote = telling, !.inv = inv, !.met = Active,
                           !.crossed = Crosses(telling)])

(* A DELETE begins; it will find the rows that are committed now ...       *)
DeleteBegin(s) ==
    /\ At(s, "report", "loaded")
    /\ req[s].next \in Tables
    /\ req' = [req EXCEPT ![s].phase = "deleting", ![s].seen = rows[req[s].next]]
    /\ UNCHANGED <<device, tables, remote>>

\* Faulty variant: no DELETE.
DeleteEndForgets(s) ==
    /\ At(s, "report", "deleting")
    /\ req' = [req EXCEPT ![s].phase = "loaded", ![s].next = req[s].next + 1, ![s].seen = {}]
    /\ UNCHANGED <<device, tables, remote>>

(* ... but waits for other requests that have deleted any of them, and     *)
(* takes those that are still there.                                       *)
DeleteEnd(s) ==
    /\ At(s, "report", "deleting")
    /\ \A v \in Slots \ {s} : req[s].seen \cap req[v].gone[req[s].next] = {}
    /\ req' = [req EXCEPT ![s].phase = "loaded", ![s].next = req[s].next + 1, ![s].seen = {},
                          ![s].gone = [req[s].gone EXCEPT
                                          ![req[s].next] = req[s].seen \cap rows[req[s].next]]]
    /\ UNCHANGED <<device, tables, remote>>

(* After the last DELETE security_statuses is selected, if it is reported; *)
(* only a check-in with remote access goes on to look for a link.          *)
LoadSecurity(s, full) ==
    /\ At(s, "report", "loaded")
    /\ req[s].next \notin Tables
    /\ req' = [req EXCEPT ![s].phase = IF req[s].remote THEN "checked" ELSE "found",
                          ![s].full = full,
                          ![s].security = IF full THEN security ELSE None]
    /\ UNCHANGED <<device, tables, remote>>

\* Faulty variant: no link is ever found.
FindLinkNever(s) ==
    /\ req[s].phase = "checked"
    /\ req' = [req EXCEPT ![s].phase = "found"]
    /\ UNCHANGED <<device, tables, remote>>

(* upsert_rustdesk_status selects the link; of two it finds either.        *)
FindLink(s) ==
    /\ req[s].phase = "checked"
    /\ \E i \in IF links = <<>> THEN {0} ELSE DOMAIN links :
          req' = [req EXCEPT ![s].phase = "found", ![s].link = i,
                             ![s].linked = IF i = 0 THEN None ELSE links[i]]
    /\ UNCHANGED <<device, tables, remote>>

(* device_id is unique: no INSERT if there is a row by now.                *)
Clashes(s) ==
    \/ req[s].kind = "report" /\ req[s].inv = None /\ inv # None
    \/ req[s].full /\ req[s].security = None /\ security # None

(* UPDATE devices, then an INSERT of each row that was not found.          *)
Flush(s) ==
    /\ At(s, "ping", "found") \/ At(s, "report", "found")
    /\ Unlocked(s)
    /\ ~Clashes(s)
    /\ req' = [req EXCEPT ![s].phase = "flushed"]
    /\ UNCHANGED <<device, tables, remote>>

\* Faulty variant: is_online is left to the readers.
SeenNow(s) ==
    /\ recent' = TRUE
    /\ blurred' = req[s].stale
    /\ UNCHANGED online

(* Online, unless it was so already as far as the request knows.           *)
Seen(s) ==
    /\ recent' = TRUE
    /\ online' = IF req[s].online THEN online ELSE TRUE
    /\ blurred' = req[s].stale

\* Faulty variant: sets the columns of a new row only.
UpsertedOnce(row, loaded, said) == IF row = None THEN said ELSE row

(* A single row after the flush of a request that had loaded it.           *)
Upserted(row, loaded, said) == IF said # loaded THEN said ELSE row

(* The link that was found is written like any single row.                 *)
Linked(s, hw) ==
    IF req[s].link = 0 THEN Append(links, hw)
    ELSE [links EXCEPT ![req[s].link] = Upserted(@, req[s].linked, hw)]

StoreLink(s, hw) ==
    IF req[s].remote
    THEN /\ links' = Linked(s, hw)
         /\ pointed' = IF req[s].crossed THEN Hardware ELSE {hw}
    ELSE UNCHANGED remote

PingCommit(s, hw) ==
    /\ At(s, "ping", "flushed")
    /\ Seen(s)
    /\ StoreLink(s, hw)
    /\ Written(s)
    /\ UNCHANGED tables

Replaced(s) == [i \in Tables |-> (rows[i] \ req[s].gone[i]) \cup {req[s].name}]

ReportCommit(s, hw) ==
    /\ At(s, "report", "flushed")
    /\ Seen(s)
    /\ inv' = Upserted(inv, req[s].inv, hw)
    /\ IF req[s].full
       THEN /\ security' = Upserted(security, req[s].security, hw)
            /\ told' = IF req[s].met = {} THEN {hw} ELSE Row
       ELSE UNCHANGED <<security, told>>
    /\ rows' = Replaced(s)
    /\ latest' = [by |-> req[s].name, hw |-> hw, peers |-> req[s].met]
    /\ StoreLink(s, hw)
    /\ Written(s)

-----------------------------------------------------------------------------
Arrives(s) ==
    \/ ReadBegin(s)
    \/ \E telling \in BOOLEAN : PingBegin(s, telling)
    \/ \E c \in Checkins, telling \in BOOLEAN : ReportBegin(s, c, telling)

Serve(s) ==
    \/ Abort(s)
    \/ ReadCommit(s)
    \/ DeleteBegin(s) \/ DeleteEnd(s) \/ FindLink(s) \/ Flush(s)
    \/ \E full \in BOOLEAN : LoadSecurity(s, full)
    \/ \E hw \in Hardware : PingCommit(s, hw) \/ ReportCommit(s, hw)

Next ==
    \/ \E s \in Slots : Arrives(s) \/ Serve(s)
    \/ TimePasses

Spec == Init /\ [][Next]_vars

(* Where launch_device_remote may lead: to what any of the links says.     *)
Launchable == {links[i] : i \in DOMAIN links}

-----------------------------------------------------------------------------
(* Type invariant.                                                         *)
TypeOK ==
    /\ recent \in BOOLEAN
    /\ online \in BOOLEAN
    /\ inv \in Row
    /\ security \in Row
    /\ rows \in [Tables -> SUBSET Checkins]
    /\ links \in Links
    /\ req \in [Slots -> Request]
    /\ latest \in Latest
    /\ told \in SUBSET Row
    /\ pointed \in SUBSET Hardware
    /\ blurred \in BOOLEAN

(***************************************************************************)
(* A device that has checked in lately is not shown offline, unless the    *)
(* last request that wrote its row had loaded it before another one did.   *)
(***************************************************************************)
OnlineWhenSeen == recent /\ ~online => blurred

(***************************************************************************)
(* The inventory tables hold what the last check-in reported, whatever     *)
(* overlaps.  Rows of an earlier one are left in a table only if the two   *)
(* were in flight together.                                                *)
(***************************************************************************)
InventoryIsLatest ==
    latest.by # None =>
        \A i \in Tables : /\ latest.by \in rows[i]
                          /\ rows[i] \subseteq {latest.by} \cup latest.peers

(***************************************************************************)
(* The columns of device_inventories say what the last check-in reported,  *)
(* and those of security_statuses what the last one with a security status *)
(* did, unless other reports were in flight together with it.              *)
(***************************************************************************)
HardwareIsLatest ==
    /\ latest.peers = {} => inv = latest.hw
    /\ security \in told

(* What the only link says, if there is one.                               *)
LinkSays ==
    /\ links = <<>> => pointed = {}
    /\ Len(links) <= 1 => Launchable \subseteq pointed

(***************************************************************************)
(* A remote session goes to the machine as it last reported itself: as     *)
(* long as the device has one link at most, that says what the last        *)
(* check-in with remote access did, unless others of them were in flight   *)
(* with it; and only one that others were in flight with adds a second.    *)
(***************************************************************************)
LinkIsLatest ==
    /\ []LinkSays
    /\ [][Len(links') > Len(links) /\ links # <<>> =>
              \E s \in Slots : req[s].crossed /\ req'[s] = NoRequest]_vars
=============================================================================
