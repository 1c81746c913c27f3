----------------------------- MODULE DevicesProofs -----------------------------
(***************************************************************************)
(* Proofs about Devices, for any number of overlapping requests, names,    *)
(* tables and reported values.  DevicesInv says what a request in flight   *)
(* can rely on: that its copy of the devices row is current unless stale,  *)
(* and that rows it has not seen are of check-ins it has met.              *)
(***************************************************************************)
EXTENDS Devices, TLAPS

USE DEF Row, Links

(* What a request of each kind and phase carries.                          *)
Shape(r) ==
    /\ r.kind = "none" => r = NoRequest
    /\ r.kind = "report" => r.name \in Checkins
    /\ r.kind # "report" => r.name = None
    /\ r.kind = "report" /\ r.phase \in {"checked", "found", "flushed"} => r.next \notin Tables
    /\ r.phase = "deleting" => r.kind = "report" /\ r.next \in Tables
    /\ r.remote => r.kind \in {"ping", "report"}

Shapes == \A s \in Slots : Shape(req[s])

(* A copy of the devices row that is not stale is current but for the time *)
(* that has passed.                                                        *)
Current(r) ==
    r.kind # "none" /\ ~r.stale => /\ r.online = online
                                   /\ r.kind = "read" /\ recent => r.recent

Currents == \A s \in Slots : Current(req[s])

Report(s) == req[s].kind = "report"

(* Reports in flight have different names and have met each other.         *)
Met ==
    \A s, v \in Slots : Report(s) /\ Report(v) /\ s # v =>
        req[s].name # req[v].name /\ req[v].name \in req[s].met

(* What a DELETE has not found was committed by a report met since.        *)
Leaves(r) ==
    /\ \A i \in Tables : i < r.next => rows[i] \ r.gone[i] \subseteq r.met
    /\ r.phase = "deleting" => rows[r.next] \ r.seen \subseteq r.met

LeavesMet == \A s \in Slots : Report(s) => Leaves(req[s])

(* A report that has met no other has loaded the present inventory.        *)
LoadedInv == \A s \in Slots : Report(s) /\ req[s].met = {} => req[s].inv = inv

Checked(r) == r.kind = "report" /\ r.phase \in {"checked", "found", "flushed"}

(* ... and, once it has looked, the present security status.               *)
LoadedSecurity ==
    \A s \in Slots : Checked(req[s]) /\ req[s].full /\ req[s].met = {} =>
        req[s].security = security

(* Check-ins with remote access that are in flight together are crossed.   *)
Crossed ==
    \A s, v \in Slots : req[s].remote /\ req[v].remote /\ s # v => req[s].crossed

(* One that is past the search of a link ...                               *)
Found(r) == r.remote /\ r.phase \in {"found", "flushed"}

(* ... has found one of the links and, if it is not crossed, knows what    *)
(* that says; or it has found none and, if not crossed, there is none.     *)
KnowsLink(r) ==
    /\ r.link # 0 => /\ r.link \in 1..Len(links)
                     /\ ~r.crossed => r.linked = links[r.link]
    /\ r.link = 0 /\ ~r.crossed => links = <<>>

FoundLinks == \A s \in Slots : Found(req[s]) => KnowsLink(req[s])

DevicesInv ==
    /\ TypeOK /\ Shapes
    /\ OnlineWhenSeen /\ Currents
    /\ InventoryIsLatest /\ Met /\ LeavesMet
    /\ HardwareIsLatest /\ LoadedInv /\ LoadedSecurity
    /\ LinkSays /\ Crossed /\ FoundLinks

-----------------------------------------------------------------------------
LEMMA NoRequestIsSound == NoRequest \in Request /\ Shape(NoRequest)
BY NTablesAssumption DEF NoRequest, Request, Shape

LEMMA InitDevices == Init => DevicesInv
<1> SUFFICES ASSUME Init PROVE DevicesInv
  OBVIOUS
<1>1. \A s \in Slots : req[s] = NoRequest /\ req[s].kind = "none"
  BY DEF Init, NoRequest
<1>2. TypeOK /\ Shapes
  <2>1. links \in Links /\ pointed \in SUBSET Hardware
    BY DEF Init
  <2>2. Shapes /\ req \in [Slots -> Request]
    BY NoRequestIsSound DEF Init, Shapes
  <2> QED BY <2>1, <2>2 DEF Init, TypeOK, Latest, Nobody
<1>3. OnlineWhenSeen /\ Currents
  BY <1>1 DEF Init, OnlineWhenSeen, Currents, Current
<1>4. InventoryIsLatest /\ HardwareIsLatest
  BY DEF Init, Nobody, InventoryIsLatest, HardwareIsLatest
<1>5. Met /\ LeavesMet /\ LoadedInv /\ LoadedSecurity
  BY <1>1 DEF Met, LeavesMet, LoadedInv, LoadedSecurity, Checked, Report
<1>6. Crossed /\ FoundLinks
  BY DEF Init, NoRequest, Crossed, FoundLinks, Found
<1>7. LinkSays
  BY DEF Init, LinkSays, Launchable
<1> QED BY <1>2, <1>3, <1>4, <1>5, <1>6, <1>7 DEF DevicesInv

(***************************************************************************)
(* A step of one request that changes no row.  It keeps its place among    *)
(* the others if it remains the report that it was, or ceases to be one.   *)
(***************************************************************************)
Keeps(q, r) ==
    /\ r.kind = "report" => /\ q.kind = "report"
                           /\ r.name = q.name /\ r.met = q.met /\ r.inv = q.inv
                           /\ Leaves(r)
    /\ Checked(r) /\ r.full =>
          r.security = security \/ (Checked(q) /\ q.full /\ r.security = q.security)
    /\ r.remote => q.remote /\ r.crossed = q.crossed
    /\ Found(r) => KnowsLink(r)

LEMMA QuietStep ==
    ASSUME DevicesInv, NEW s \in Slots, NEW r \in Request, Shape(r), Current(r), Keeps(req[s], r),
           req' = [req EXCEPT ![s] = r], UNCHANGED <<device, tables, remote>>
    PROVE  DevicesInv'
<1>1. req \in [Slots -> Request]
  BY DEF DevicesInv, TypeOK
<1>2. req'[s] = r /\ \A v \in Slots : v # s => req'[v] = req[v]
  BY <1>1
<1>3. UNCHANGED <<recent, online, blurred, inv, security, rows, latest, told, links, pointed>>
  BY DEF device, tables, remote
<1>4. TypeOK'
  BY <1>3 DEF DevicesInv, TypeOK
<1>5. Shapes'
  BY <1>2 DEF DevicesInv, Shapes
<1>6. OnlineWhenSeen' /\ Currents'
  BY <1>2, <1>3 DEF DevicesInv, OnlineWhenSeen, Currents, Current
<1>7. InventoryIsLatest' /\ HardwareIsLatest'
  BY <1>3 DEF DevicesInv, InventoryIsLatest, HardwareIsLatest
<1>8. Met' /\ LoadedInv' /\ LoadedSecurity'
  BY <1>2, <1>3 DEF DevicesInv, Met, LoadedInv, LoadedSecurity, Checked, Report, Keeps
<1>9. LeavesMet'
  BY <1>2, <1>3 DEF DevicesInv, LeavesMet, Leaves, Report, Keeps
<1>10. LinkSays' /\ Crossed'
  BY <1>2, <1>3 DEF DevicesInv, LinkSays, Launchable, Crossed, Keeps
<1>11. FoundLinks'
  BY <1>2, <1>3 DEF DevicesInv, FoundLinks, KnowsLink, Found, Keeps
<1> QED BY <1>4, <1>5, <1>6, <1>7, <1>8, <1>9, <1>10, <1>11 DEF DevicesInv

LEMMA LoadedIsCurrent ==
    ASSUME TypeOK, NEW kind \in {"ping", "report", "read"}, NEW r, r = Loaded(kind)
    PROVE  /\ r \in Request /\ r.kind = kind /\ r.phase = "loaded" /\ r.name = None /\ r.next = 1
           /\ ~r.remote /\ r.online = online /\ (kind = "read" /\ recent => r.recent)
<1> DEFINE seen == kind = "read" /\ recent
<1>1. r = [NoRequest EXCEPT !.kind = kind, !.online = online, !.recent = seen]
  BY DEF Loaded
<1>2. online \in BOOLEAN /\ seen \in BOOLEAN /\ (kind = "read" /\ recent => seen)
  BY DEF TypeOK
<1> HIDE DEF seen
<1>3. NoRequest \in Request
  BY NoRequestIsSound
<1>4. r \in Request
  BY <1>1, <1>2, <1>3 DEF Request
<1>5. r.kind = kind /\ r.online = online /\ r.recent = seen
  BY <1>1, <1>3 DEF Request
<1>6. /\ r.phase = NoRequest.phase /\ r.name = NoRequest.name /\ r.next = NoRequest.next
      /\ r.remote = NoRequest.remote
  BY <1>1, <1>3 DEF Request
<1>7. /\ NoRequest.phase = "loaded" /\ NoRequest.name = None /\ NoRequest.next = 1
      /\ ~NoRequest.remote
  BY DEF NoRequest
<1> QED BY <1>2, <1>4, <1>5, <1>6, <1>7

(* The other request is as it was, and has met the new one.                *)
Same(q, r) ==
    /\ r.kind = q.kind /\ r.phase = q.phase /\ r.name = q.name
    /\ r.full = q.full /\ r.remote = q.remote /\ r.online = q.online /\ r.recent = q.recent
    /\ r.inv = q.inv /\ r.security = q.security /\ r.next = q.next /\ r.seen = q.seen
    /\ r.gone = q.gone /\ r.link = q.link /\ r.linked = q.linked

LEMMA JoinedMeets ==
    ASSUME NEW q \in Request, NEW new \in Request
    PROVE  /\ Joined(q, new) \in Request
           /\ Same(q, Joined(q, new)) /\ Joined(q, new).stale = q.stale
           /\ Joined(q, new).met = IF q.kind = "report" THEN q.met \cup ({new.name} \ {None})
                                   ELSE q.met
           /\ Joined(q, new).crossed <=> q.crossed \/ (q.remote /\ new.remote)
           /\ q = NoRequest => Joined(q, new) = NoRequest
<1>1. PICK m \in SUBSET Checkins :
         m = IF q.kind = "report" THEN q.met \cup ({new.name} \ {None}) ELSE q.met
  BY DEF Request
<1>2. PICK b \in BOOLEAN : b = (q.crossed \/ (q.remote /\ new.remote))
  OBVIOUS
<1>3. PICK r : r = [q EXCEPT !.met = m, !.crossed = b]
  OBVIOUS
<1>4. Joined(q, new) = r
  BY <1>1, <1>2, <1>3 DEF Joined
<1>5. r \in Request /\ Same(q, r) /\ r.stale = q.stale /\ r.met = m /\ r.crossed = b
  BY <1>3 DEF Request, Same
<1>6. ASSUME q = NoRequest PROVE r = NoRequest
  <2>1. m = {} /\ b = FALSE
    BY <1>1, <1>2, <1>6 DEF NoRequest
  <2>2. r = [NoRequest EXCEPT !.met = {}, !.crossed = FALSE]
    BY <1>3, <1>6, <2>1
  <2> QED BY <2>2 DEF NoRequest
<1> QED BY <1>1, <1>2, <1>4, <1>5, <1>6

-----------------------------------------------------------------------------
LEMMA AbortStep ==
    ASSUME DevicesInv, NEW s \in Slots, Abort(s)
    PROVE  DevicesInv'
<1>1. PICK r : r = NoRequest
  OBVIOUS
<1>2. r.kind = "none" /\ ~r.remote
  BY <1>1 DEF NoRequest
<1>3. Current(r) /\ Keeps(req[s], r)
  BY <1>2 DEF Current, Keeps, Checked, Found
<1> QED BY <1>1, <1>3, NoRequestIsSound, QuietStep DEF Abort

LEMMA ReadBeginStep ==
    ASSUME DevicesInv, NEW s \in Slots, ReadBegin(s)
    PROVE  DevicesInv'
<1>1. PICK r : r = Loaded("read")
  OBVIOUS
<1>2. r \in Request /\ r.kind = "read" /\ r.phase = "loaded" /\ r.name = None
      /\ r.online = online /\ (recent => r.recent) /\ ~r.remote
  BY <1>1, LoadedIsCurrent DEF DevicesInv
<1>3. Shape(r) /\ Current(r) /\ Keeps(req[s], r)
  BY <1>2 DEF Shape, Current, Keeps, Checked, Found
<1> QED BY <1>1, <1>2, <1>3, QuietStep DEF ReadBegin

LEMMA DeleteBeginStep ==
    ASSUME DevicesInv, NEW s \in Slots, DeleteBegin(s)
    PROVE  DevicesInv'
<1>1. req[s] \in Request /\ Shape(req[s]) /\ Current(req[s]) /\ req[s].kind = "report"
      /\ req[s].next \in Tables /\ Leaves(req[s])
  BY DEF DevicesInv, TypeOK, Shapes, Currents, LeavesMet, Report, DeleteBegin, At
<1>2. PICK x \in SUBSET Checkins : x = rows[req[s].next]
  BY <1>1 DEF DevicesInv, TypeOK
<1>3. PICK r : r = [req[s] EXCEPT !.phase = "deleting", !.seen = x]
  OBVIOUS
<1>4. r \in Request
  BY <1>1, <1>3 DEF Request
<1>5. /\ r.kind = "report" /\ r.phase = "deleting" /\ r.name = req[s].name
      /\ r.remote = req[s].remote /\ r.crossed = req[s].crossed
      /\ r.next = req[s].next /\ r.seen = x /\ r.gone = req[s].gone /\ r.met = req[s].met
      /\ r.inv = req[s].inv /\ r.online = req[s].online /\ r.recent = req[s].recent
      /\ r.stale = req[s].stale /\ r.full = req[s].full
  BY <1>1, <1>3 DEF Request
<1>6. Shape(r) /\ Current(r)
  BY <1>1, <1>5 DEF Shape, Current
<1>7. Leaves(r)
  BY <1>1, <1>2, <1>5 DEF Leaves
<1>8. Keeps(req[s], r)
  BY <1>1, <1>5, <1>7 DEF Keeps, Checked, Found
<1>9. req' = [req EXCEPT ![s] = r]
  BY <1>2, <1>3 DEF DeleteBegin
<1> QED BY <1>4, <1>6, <1>8, <1>9, QuietStep DEF DeleteBegin

LEMMA DeleteEndStep ==
    ASSUME DevicesInv, NEW s \in Slots, DeleteEnd(s)
    PROVE  DevicesInv'
<1>1. req[s] \in Request /\ Shape(req[s]) /\ Current(req[s]) /\ req[s].kind = "report"
      /\ req[s].phase = "deleting" /\ Leaves(req[s])
  BY DEF DevicesInv, TypeOK, Shapes, Currents, LeavesMet, Report, DeleteEnd, At
<1>2. PICK i \in Tables : i = req[s].next
  BY <1>1 DEF Shape
<1>3. PICK x \in SUBSET Checkins : x = req[s].seen \cap rows[i]
  BY <1>1 DEF Request
<1>4. PICK g \in [Tables -> SUBSET Checkins] : g = [req[s].gone EXCEPT ![i] = x]
  BY <1>1 DEF Request
<1>5. PICK r : r = [req[s] EXCEPT !.phase = "loaded", !.next = i + 1, !.seen = {}, !.gone = g]
  OBVIOUS
<1>6. i + 1 \in 1..(NTables + 1) /\ \A j \in Tables : j < i + 1 => j < i \/ j = i
  BY <1>2, NTablesAssumption DEF Tables
<1>7. r \in Request
  BY <1>1, <1>5, <1>6 DEF Request
<1>8. /\ r.kind = "report" /\ r.phase = "loaded" /\ r.name = req[s].name
      /\ r.remote = req[s].remote /\ r.crossed = req[s].crossed
      /\ r.next = i + 1 /\ r.gone = g /\ r.met = req[s].met
      /\ r.inv = req[s].inv /\ r.online = req[s].online /\ r.recent = req[s].recent
      /\ r.stale = req[s].stale /\ r.full = req[s].full
  BY <1>1, <1>5 DEF Request
<1>9. Shape(r) /\ Current(r)
  BY <1>1, <1>8 DEF Shape, Current
<1>10. Leaves(r)
  <2>1. g[i] = x /\ \A j \in Tables : j # i => g[j] = req[s].gone[j]
    BY <1>1, <1>4 DEF Request
  <2>2. rows[i] \ req[s].seen \subseteq req[s].met
    BY <1>1, <1>2 DEF Leaves
  <2>3. \A j \in Tables : j < i => rows[j] \ req[s].gone[j] \subseteq req[s].met
    BY <1>1, <1>2 DEF Leaves
  <2>4. rows[i] \ x \subseteq req[s].met
    BY <1>3, <2>2
  <2>5. i \in Nat /\ Tables \subseteq Nat
    BY NTablesAssumption DEF Tables
  <2> QED BY <1>6, <1>8, <2>1, <2>3, <2>4, <2>5 DEF Leaves
<1>11. Keeps(req[s], r)
  BY <1>1, <1>8, <1>10 DEF Keeps, Checked, Found
<1>12. req' = [req EXCEPT ![s] = r]
  <2>1. req' = [req EXCEPT ![s].phase = "loaded", ![s].next = i + 1, ![s].seen = {}, ![s].gone = g]
    BY <1>2, <1>3, <1>4 DEF DeleteEnd
  <2> QED BY <1>5, <2>1
<1> QED BY <1>7, <1>9, <1>11, <1>12, QuietStep DEF DeleteEnd

LEMMA FlushStep ==
    ASSUME DevicesInv, NEW s \in Slots, Flush(s)
    PROVE  DevicesInv'
<1>1. req[s] \in Request /\ Shape(req[s]) /\ Current(req[s]) /\ req[s].kind \in {"ping", "report"}
      /\ req[s].phase = "found" /\ (Report(s) => Leaves(req[s]))
      /\ (req[s].remote => KnowsLink(req[s]))
  BY DEF DevicesInv, TypeOK, Shapes, Currents, LeavesMet, FoundLinks, Found, Flush, At
<1>2. PICK r : r = [req[s] EXCEPT !.phase = "flushed"]
  OBVIOUS
<1>3. r \in Request
  BY <1>1, <1>2 DEF Request
<1>5. /\ r.kind = req[s].kind /\ r.phase = "flushed" /\ r.name = req[s].name
      /\ r.remote = req[s].remote /\ r.crossed = req[s].crossed
      /\ r.next = req[s].next /\ r.seen = req[s].seen /\ r.gone = req[s].gone /\ r.met = req[s].met
      /\ r.inv = req[s].inv /\ r.online = req[s].online /\ r.recent = req[s].recent
      /\ r.stale = req[s].stale /\ r.link = req[s].link /\ r.linked = req[s].linked
      /\ r.full = req[s].full /\ r.security = req[s].security
  BY <1>1, <1>2 DEF Request
<1>6. Shape(r) /\ Current(r)
  BY <1>1, <1>5 DEF Shape, Current
<1>7. Keeps(req[s], r)
  BY <1>1, <1>5 DEF Keeps, Checked, Found, KnowsLink, Leaves, Report
<1>8. req' = [req EXCEPT ![s] = r]
  BY <1>2 DEF Flush
<1> QED BY <1>3, <1>6, <1>7, <1>8, QuietStep DEF Flush

LEMMA LoadSecurityStep ==
    ASSUME DevicesInv, NEW s \in Slots, NEW full \in BOOLEAN, LoadSecurity(s, full)
    PROVE  DevicesInv'
<1>1. req[s] \in Request /\ Shape(req[s]) /\ Current(req[s]) /\ req[s].kind = "report"
      /\ req[s].phase = "loaded" /\ req[s].next \notin Tables /\ Leaves(req[s])
  BY DEF DevicesInv, TypeOK, Shapes, Currents, LeavesMet, Report, LoadSecurity, At
<1>2. PICK x \in Row : x = IF full THEN security ELSE None
  <2>1. security \in Row
    BY DEF DevicesInv, TypeOK
  <2>2. CASE full
    BY <2>1, <2>2
  <2>3. CASE ~full
    BY <2>3
  <2> QED BY <2>2, <2>3
<1>3. PICK ph \in {"checked", "found"} : ph = IF req[s].remote THEN "checked" ELSE "found"
  OBVIOUS
<1>4. PICK r : r = [req[s] EXCEPT !.phase = ph, !.full = full, !.security = x]
  OBVIOUS
<1>5. r \in Request
  BY <1>1, <1>4 DEF Request
<1>6. /\ r.kind = "report" /\ r.phase = ph /\ r.name = req[s].name
      /\ r.remote = req[s].remote /\ r.crossed = req[s].crossed
      /\ r.next = req[s].next /\ r.gone = req[s].gone /\ r.met = req[s].met
      /\ r.inv = req[s].inv /\ r.online = req[s].online /\ r.recent = req[s].recent
      /\ r.stale = req[s].stale /\ r.full = full /\ r.security = x
  BY <1>1, <1>4 DEF Request
<1>7. Shape(r) /\ Current(r)
  BY <1>1, <1>6 DEF Shape, Current
<1>8. Keeps(req[s], r)
  <2>1. r.full => r.security = security
    BY <1>2, <1>6
  <2>2. Leaves(r)
    BY <1>1, <1>6 DEF Leaves
  <2>3. ~Found(r)
    BY <1>3, <1>6 DEF Found
  <2> QED BY <1>1, <1>6, <2>1, <2>2, <2>3 DEF Keeps, Checked
<1>9. req' = [req EXCEPT ![s] = r]
  BY <1>2, <1>3, <1>4 DEF LoadSecurity
<1> QED BY <1>5, <1>7, <1>8, <1>9, QuietStep DEF LoadSecurity

LEMMA FindLinkStep ==
    ASSUME DevicesInv, NEW s \in Slots, FindLink(s)
    PROVE  DevicesInv'
<1>1. req[s] \in Request /\ Shape(req[s]) /\ Current(req[s])
      /\ req[s].phase = "checked" /\ req[s].kind # "none" /\ (Report(s) => Leaves(req[s]))
  BY DEF DevicesInv, TypeOK, Shapes, Shape, NoRequest, Currents, LeavesMet, Report, FindLink
<1>2. PICK i \in IF links = <<>> THEN {0} ELSE DOMAIN links :
         req' = [req EXCEPT ![s].phase = "found", ![s].link = i,
                            ![s].linked = IF i = 0 THEN None ELSE links[i]]
  BY DEF FindLink
<1>3. /\ i \in Nat /\ (i = 0 <=> links = <<>>) /\ (i # 0 => i \in 1..Len(links))
      /\ \A n \in 1..Len(links) : links[n] \in Hardware
  BY <1>2 DEF DevicesInv, TypeOK
<1>4. PICK x \in Row : x = IF i = 0 THEN None ELSE links[i]
  BY <1>3
<1>5. PICK r : r = [req[s] EXCEPT !.phase = "found", !.link = i, !.linked = x]
  OBVIOUS
<1>6. r \in Request
  BY <1>1, <1>3, <1>5 DEF Request
<1>7. /\ r.kind = req[s].kind /\ r.phase = "found" /\ r.name = req[s].name
      /\ r.remote = req[s].remote /\ r.crossed = req[s].crossed
      /\ r.next = req[s].next /\ r.seen = req[s].seen /\ r.gone = req[s].gone /\ r.met = req[s].met
      /\ r.inv = req[s].inv /\ r.online = req[s].online /\ r.recent = req[s].recent
      /\ r.stale = req[s].stale /\ r.link = i /\ r.linked = x
      /\ r.full = req[s].full /\ r.security = req[s].security
  BY <1>1, <1>5 DEF Request
<1>8. Shape(r) /\ Current(r)
  BY <1>1, <1>7 DEF Shape, Current
<1>9. KnowsLink(r)
  <2>1. i # 0 => x = links[i]
    BY <1>4
  <2> QED BY <1>3, <1>7, <2>1 DEF KnowsLink
<1>10. Keeps(req[s], r)
  BY <1>1, <1>7, <1>9 DEF Keeps, Checked, Leaves, Report
<1>11. req' = [req EXCEPT ![s] = r]
  BY <1>2, <1>4, <1>5
<1> QED BY <1>6, <1>8, <1>10, <1>11, QuietStep DEF FindLink

LEMMA CheckinBeginStep ==
    ASSUME DevicesInv, NEW s \in Slots, NEW new \in Request, CheckinBegin(s, new),
           Shape(new), Current(new), ~Found(new), ~Checked(new),
           new.kind = "report" => /\ new.name \in Unused /\ new.next = 1 /\ new.phase = "loaded"
                                  /\ new.inv = inv /\ new.met = Active,
           new.crossed <=> Crosses(new.remote)
    PROVE  DevicesInv'
<1>0. TypeOK /\ Shapes
  BY DEF DevicesInv
<1>1. /\ req'[s] = new
      /\ \A v \in Slots : v # s => req'[v] = Joined(req[v], new)
      /\ req' = [v \in Slots |-> req'[v]]
  BY DEF CheckinBegin
<1>2. \A v \in Slots : v # s =>
         /\ req'[v] \in Request
         /\ Same(req[v], req'[v]) /\ req'[v].stale = req[v].stale
         /\ req'[v].met = IF Report(v) THEN req[v].met \cup ({new.name} \ {None}) ELSE req[v].met
         /\ req'[v].crossed <=> req[v].crossed \/ (req[v].remote /\ new.remote)
         /\ req[v] = NoRequest => req'[v] = NoRequest
  <2> SUFFICES ASSUME NEW v \in Slots, v # s
               PROVE  /\ req'[v] \in Request
                      /\ Same(req[v], req'[v]) /\ req'[v].stale = req[v].stale
                      /\ req'[v].met = IF Report(v) THEN req[v].met \cup ({new.name} \ {None})
                                       ELSE req[v].met
                      /\ req'[v].crossed <=> req[v].crossed \/ (req[v].remote /\ new.remote)
                      /\ req[v] = NoRequest => req'[v] = NoRequest
    OBVIOUS
  <2>1. req[v] \in Request /\ req'[v] = Joined(req[v], new)
    BY <1>0, <1>1 DEF TypeOK
  <2> QED BY <2>1, JoinedMeets DEF Report
<1>3. UNCHANGED <<recent, online, blurred, inv, security, rows, latest, told, links, pointed>>
  BY DEF CheckinBegin, device, tables, remote
<1>4. req[s] = NoRequest /\ ~Report(s) /\ ~req[s].remote
  BY DEF CheckinBegin, Report, NoRequest
<1>5. TypeOK'
  <2>1. \A v \in Slots : req'[v] \in Request
    BY <1>1, <1>2
  <2>2. req' \in [Slots -> Request]
    BY <1>1, <2>1
  <2> QED BY <1>0, <1>3, <2>2 DEF TypeOK
<1>6. Shapes'
  <2>1. ASSUME NEW v \in Slots, v # s PROVE Shape(req'[v])
    <3>1. Shape(req[v]) /\ Same(req[v], req'[v]) /\ (req[v] = NoRequest => req'[v] = NoRequest)
      BY <1>0, <1>2, <2>1 DEF Shapes
    <3> QED BY <3>1 DEF Shape, Same
  <2> QED BY <1>1, <2>1 DEF Shapes
<1>7. OnlineWhenSeen' /\ Currents'
  <2>1. ASSUME NEW v \in Slots, v # s PROVE Current(req'[v])
    <3>1. Current(req[v]) /\ Same(req[v], req'[v]) /\ req'[v].stale = req[v].stale
      BY <1>2, <2>1 DEF DevicesInv, Currents
    <3> QED BY <3>1 DEF Current, Same
  <2>2. \A v \in Slots : Current(req'[v])
    BY <1>1, <2>1
  <2>3. \A v \in Slots : Current(req[v])'
    BY <1>3, <2>2 DEF Current
  <2> QED BY <1>3, <2>3 DEF DevicesInv, OnlineWhenSeen, Currents
<1>8. InventoryIsLatest' /\ HardwareIsLatest' /\ LinkSays'
  BY <1>3 DEF DevicesInv, InventoryIsLatest, HardwareIsLatest, LinkSays, Launchable
<1>9. \A v \in Slots : v # s => (Report(v)' <=> Report(v))
  BY <1>2 DEF Report, Same
<1>10. Report(s)' => \A v \in Slots : Report(v) => req[v].name \in new.met /\ req[v].name # new.name
  <2>1. \A v \in Slots : Report(v) => req[v].name \in Active
    BY <1>0, NoneAssumption DEF Active, Report, Shapes, Shape
  <2> QED BY <1>1, <2>1 DEF Report, Unused
<1>11. Report(s)' => new.name # None /\ \A v \in Slots : v # s /\ Report(v) =>
                        req'[v].met = req[v].met \cup {new.name}
  <2>1. Report(s)' => new.name \in Checkins
    BY <1>1 DEF Report, Shape
  <2> QED BY <1>2, <2>1, NoneAssumption
<1>12. ~Report(s)' => \A v \in Slots : v # s => req'[v].met = req[v].met
  <2>1. ~Report(s)' => new.name = None
    BY <1>1 DEF Report, Shape
  <2> QED BY <1>2, <2>1
<1>13. \A v \in Slots : v # s => req[v].met \subseteq req'[v].met
  BY <1>2
<1>14. Met'
  <2> SUFFICES ASSUME NEW v \in Slots, NEW w \in Slots, Report(v)', Report(w)', v # w
               PROVE  req'[v].name # req'[w].name /\ req'[w].name \in req'[v].met
    BY DEF Met
  <2>1. CASE v = s
    <3>1. Report(w) /\ Same(req[w], req'[w])
      BY <1>2, <1>9, <2>1
    <3> QED BY <1>1, <1>10, <2>1, <3>1 DEF Same
  <2>2. CASE w = s
    <3>1. Report(v) /\ Same(req[v], req'[v]) /\ req'[v].met = req[v].met \cup {new.name}
      BY <1>2, <1>9, <1>11, <2>2
    <3> QED BY <1>1, <1>10, <2>2, <3>1 DEF Same
  <2>3. CASE v # s /\ w # s
    <3>1. Report(v) /\ Report(w) /\ Same(req[v], req'[v]) /\ Same(req[w], req'[w])
          /\ req[v].met \subseteq req'[v].met
      BY <1>2, <1>9, <1>13, <2>3
    <3>2. req[v].name # req[w].name /\ req[w].name \in req[v].met
      BY <2>3, <3>1 DEF DevicesInv, Met
    <3> QED BY <3>1, <3>2 DEF Same
  <2> QED BY <2>1, <2>2, <2>3
<1>15. LoadedInv' /\ LoadedSecurity'
  <2>1. \A v \in Slots : v # s /\ Report(v)' /\ req'[v].met = {} =>
           /\ Report(v) /\ req[v].met = {}
           /\ req'[v].inv = inv
    <3> SUFFICES ASSUME NEW v \in Slots, v # s, Report(v)', req'[v].met = {}
                 PROVE  /\ Report(v) /\ req[v].met = {}
                        /\ req'[v].inv = inv
      OBVIOUS
    <3>1. Report(v) /\ req[v].met = {} /\ Same(req[v], req'[v])
      BY <1>2, <1>9, <1>13
    <3> QED BY <3>1 DEF DevicesInv, LoadedInv, Same
  <2>2. LoadedInv'
    BY <1>1, <1>3, <2>1 DEF LoadedInv, Report
  <2>3. \A v \in Slots : v # s /\ Checked(req'[v]) => Checked(req[v]) /\ Report(v)'
    BY <1>2 DEF Checked, Report, Same
  <2>4. LoadedSecurity'
    <3> SUFFICES ASSUME NEW v \in Slots, Checked(req'[v]), req'[v].full, req'[v].met = {}
                 PROVE  req'[v].security = security
      BY <1>3 DEF LoadedSecurity
    <3>1. v # s /\ Same(req[v], req'[v])
      BY <1>1, <1>2
    <3>2. Checked(req[v]) /\ req[v].met = {} /\ req[v].full
      BY <2>1, <2>3, <3>1 DEF Same
    <3> QED BY <3>1, <3>2 DEF DevicesInv, LoadedSecurity, Same
  <2> QED BY <2>2, <2>4
<1>16. LeavesMet'
  <2>1. Report(s)' => Leaves(req[s])'
    BY <1>1, NTablesAssumption DEF Leaves, Tables, Report
  <2>2. ASSUME NEW v \in Slots, v # s, Report(v) PROVE Leaves(req[v])'
    <3>1. Leaves(req[v]) /\ Same(req[v], req'[v]) /\ req[v].met \subseteq req'[v].met
      BY <1>2, <1>13, <2>2 DEF DevicesInv, LeavesMet
    <3> QED BY <1>3, <3>1 DEF Leaves, Same
  <2> QED BY <1>9, <2>1, <2>2 DEF LeavesMet
<1>17. Crossed'
  <2>1. \A v \in Slots : v # s => (req'[v].remote <=> req[v].remote)
    BY <1>2 DEF Same
  <2>2. \A v \in Slots : req'[s].remote /\ v # s /\ req[v].remote => req'[s].crossed /\ req'[v].crossed
    BY <1>1, <1>2 DEF Crosses
  <2>3. \A v \in Slots : v # s /\ req[v].crossed => req'[v].crossed
    BY <1>2
  <2> QED BY <2>1, <2>2, <2>3 DEF DevicesInv, Crossed
<1>18. FoundLinks'
  <2>1. \A v \in Slots : Found(req'[v]) => v # s /\ Found(req[v])
    BY <1>1, <1>2 DEF Found, Same
  <2>2. ASSUME NEW v \in Slots, Found(req'[v]) PROVE KnowsLink(req[v])'
    <3>1. KnowsLink(req[v]) /\ Same(req[v], req'[v]) /\ (req[v].crossed => req'[v].crossed)
      BY <1>2, <2>1, <2>2 DEF DevicesInv, FoundLinks
    <3> QED BY <1>3, <3>1 DEF KnowsLink, Same
  <2> QED BY <2>2 DEF FoundLinks, Found
<1> QED BY <1>5, <1>6, <1>7, <1>8, <1>14, <1>15, <1>16, <1>17, <1>18 DEF DevicesInv

LEMMA PingBeginStep ==
    ASSUME DevicesInv, NEW s \in Slots, NEW telling \in BOOLEAN, PingBegin(s, telling)
    PROVE  DevicesInv'
<1>1. PICK q : q = Loaded("ping")
  OBVIOUS
<1>2. q \in Request /\ q.kind = "ping" /\ q.name = None /\ q.online = online
  BY <1>1, LoadedIsCurrent DEF DevicesInv
<1>3. PICK b \in BOOLEAN : b = Crosses(telling)
  BY DEF Crosses
<1>4. PICK ph \in {"checked", "found"} : ph = IF telling THEN "checked" ELSE "found"
  OBVIOUS
<1>5. PICK r : r = [q EXCEPT !.phase = ph, !.remote = telling, !.crossed = b]
  OBVIOUS
<1>6. /\ r \in Request
      /\ r.kind = "ping" /\ r.phase = ph /\ r.name = None /\ r.online = online
      /\ r.remote = telling /\ r.crossed = b
  <2>1. /\ r.kind = q.kind /\ r.phase = ph /\ r.name = q.name /\ r.online = q.online
        /\ r.remote = telling /\ r.crossed = b
    BY <1>2, <1>5 DEF Request
  <2>2. PICK p : p = [q EXCEPT !.phase = ph]
    OBVIOUS
  <2>3. p \in Request
    BY <1>2, <2>2 DEF Request
  <2>4. r = [p EXCEPT !.remote = telling, !.crossed = b]
    BY <1>2, <1>5, <2>2 DEF Request
  <2>5. r \in Request
    BY <2>3, <2>4 DEF Request
  <2> QED BY <1>2, <2>1, <2>5
<1>7. CheckinBegin(s, r)
  BY <1>1, <1>3, <1>4, <1>5 DEF PingBegin
<1>8. Shape(r) /\ Current(r) /\ ~Found(r) /\ ~Checked(r)
  BY <1>4, <1>6 DEF Shape, Current, Found, Checked
<1> QED BY <1>3, <1>6, <1>7, <1>8, CheckinBeginStep

LEMMA ReportBeginStep ==
    ASSUME DevicesInv, NEW s \in Slots, NEW c \in Checkins, NEW telling \in BOOLEAN,
           ReportBegin(s, c, telling)
    PROVE  DevicesInv'
<1>0. TypeOK
  BY DEF DevicesInv
<1>1. PICK q : q = Loaded("report")
  OBVIOUS
<1>2. q \in Request /\ q.kind = "report" /\ q.phase = "loaded" /\ q.next = 1 /\ q.online = online
  BY <1>0, <1>1, LoadedIsCurrent
<1>3. PICK a \in SUBSET Checkins : a = Active
  <2>1. \A v \in Slots : req[v].name \in Checkins \cup {None}
    BY <1>0 DEF TypeOK, Request
  <2>2. Active \subseteq Checkins
    BY <2>1 DEF Active
  <2> QED BY <2>2
<1>4. PICK b \in BOOLEAN : b = Crosses(telling)
  BY DEF Crosses
<1>5. PICK r : r = [q EXCEPT !.name = c, !.remote = telling, !.inv = inv, !.met = a, !.crossed = b]
  OBVIOUS
<1>6. /\ r \in Request
      /\ r.kind = "report" /\ r.phase = "loaded" /\ r.name = c /\ r.next = 1 /\ r.online = online
      /\ r.inv = inv /\ r.met = a /\ r.remote = telling /\ r.crossed = b
  <2>1. PICK x \in Row : x = inv
    BY <1>0 DEF TypeOK
  <2>2. PICK p : p = [q EXCEPT !.name = c, !.inv = x, !.met = a]
    OBVIOUS
  <2>3. p \in Request /\ p.kind = q.kind /\ p.phase = q.phase /\ p.next = q.next
        /\ p.online = q.online /\ p.name = c /\ p.inv = x /\ p.met = a
    BY <1>2, <2>2 DEF Request
  <2>4. r = [p EXCEPT !.remote = telling, !.crossed = b]
    BY <1>2, <1>5, <2>1, <2>2 DEF Request
  <2>5. r \in Request /\ r.kind = p.kind /\ r.phase = p.phase /\ r.name = p.name
        /\ r.next = p.next /\ r.online = p.online /\ r.inv = p.inv /\ r.met = p.met
        /\ r.remote = telling /\ r.crossed = b
    BY <2>3, <2>4 DEF Request
  <2> QED BY <1>2, <2>1, <2>3, <2>5
<1>7. CheckinBegin(s, r) /\ c \in Unused
  BY <1>1, <1>3, <1>4, <1>5 DEF ReportBegin
<1>8. Shape(r) /\ Current(r) /\ ~Found(r) /\ ~Checked(r)
  BY <1>6 DEF Shape, Current, Found, Checked
<1> QED BY <1>3, <1>4, <1>6, <1>7, <1>8, CheckinBeginStep

LEMMA TimeStep ==
    ASSUME DevicesInv, TimePasses
    PROVE  DevicesInv'
<1>1. /\ recent' = FALSE
      /\ UNCHANGED <<online, blurred, inv, security, rows, latest, told, links, pointed, req>>
  BY DEF TimePasses, tables, remote
<1>2. TypeOK' /\ Shapes'
  BY <1>1 DEF DevicesInv, TypeOK, Shapes
<1>3. OnlineWhenSeen' /\ Currents'
  BY <1>1 DEF DevicesInv, OnlineWhenSeen, Currents, Current
<1>4. InventoryIsLatest' /\ HardwareIsLatest' /\ Met' /\ LeavesMet'
  BY <1>1 DEF DevicesInv, InventoryIsLatest, HardwareIsLatest, Met, LeavesMet, Leaves, Report
<1>5. LoadedInv' /\ LoadedSecurity' /\ LinkSays' /\ Crossed' /\ FoundLinks'
  BY <1>1 DEF DevicesInv, LoadedInv, LoadedSecurity, Checked, Report, LinkSays, Launchable,
     Crossed, FoundLinks, Found, KnowsLink
<1> QED BY <1>2, <1>3, <1>4, <1>5 DEF DevicesInv

-----------------------------------------------------------------------------
(* What the others see of a request that has written the devices row.      *)
Aside(q, r) ==
    /\ r \in Request
    /\ Same(q, r) /\ r.met = q.met /\ r.crossed = q.crossed
    /\ r.kind # "none" => r.stale
    /\ r.kind = "none" => r = NoRequest

LEMMA WrittenSets ==
    ASSUME DevicesInv, NEW s \in Slots, Written(s)
    PROVE  /\ req'[s] = NoRequest /\ req'[s].kind = "none"
           /\ \A v \in Slots : v # s => Aside(req[v], req'[v])
           /\ req' \in [Slots -> Request]
<1>1. req'[s] = NoRequest /\ req'[s].kind = "none"
  BY DEF Written, NoRequest
<1>2. ASSUME NEW v \in Slots, v # s PROVE Aside(req[v], req'[v])
  <2>1. req[v] \in Request /\ Shape(req[v])
    BY DEF DevicesInv, TypeOK, Shapes
  <2>2. CASE req[v] = NoRequest
    <3>1. req'[v] = NoRequest /\ NoRequest.kind = "none"
      BY <1>2, <2>2 DEF Written, NoRequest
    <3> QED BY <2>2, <3>1, NoRequestIsSound DEF Aside, Same
  <2>3. CASE req[v] # NoRequest
    <3>1. PICK r : r = [req[v] EXCEPT !.stale = TRUE]
      OBVIOUS
    <3>2. r \in Request
      BY <2>1, <3>1 DEF Request
    <3>3. Same(req[v], r) /\ r.kind = req[v].kind /\ r.met = req[v].met
          /\ r.crossed = req[v].crossed /\ r.stale
      BY <2>1, <3>1 DEF Request, Same
    <3>4. req'[v] = r /\ req[v].kind # "none"
      BY <1>2, <2>1, <2>3, <3>1 DEF Written, Shape
    <3> QED BY <3>2, <3>3, <3>4 DEF Aside
  <2> QED BY <2>2, <2>3
<1>3. req' \in [Slots -> Request]
  <2>1. req' = [v \in Slots |-> req'[v]]
    BY DEF Written
  <2>2. \A v \in Slots : req'[v] \in Request
    BY <1>1, <1>2, NoRequestIsSound DEF Aside
  <2> QED BY <2>1, <2>2
<1> QED BY <1>1, <1>2, <1>3

(* What does not depend on which tables the request has written.           *)
LEMMA WrittenStep ==
    ASSUME DevicesInv, NEW s \in Slots, Written(s)
    PROVE  Shapes' /\ Currents' /\ Met' /\ Crossed'
<1>0. ~NoRequest.remote
  BY DEF NoRequest
<1>1. /\ req'[s] = NoRequest /\ req'[s].kind = "none" /\ ~req'[s].remote
      /\ \A v \in Slots : v # s => Aside(req[v], req'[v])
  BY <1>0, WrittenSets
<1>2. Shapes'
  BY <1>1, NoRequestIsSound DEF Shapes, Shape, Aside, Same, DevicesInv
<1>3. Currents'
  BY <1>1 DEF Currents, Current, Aside
<1>4. Met' /\ Crossed'
  BY <1>1 DEF Met, Report, Crossed, Aside, Same, DevicesInv
<1> QED BY <1>2, <1>3, <1>4

(* What a request does to the links, if it has remote access.              *)
LEMMA StoreLinkStep ==
    ASSUME DevicesInv, NEW s \in Slots, Written(s), NEW hw, StoreLink(s, hw),
           req[s].remote => hw \in Hardware /\ Found(req[s])
    PROVE  /\ links' \in Links /\ pointed' \in SUBSET Hardware
           /\ LinkSays' /\ FoundLinks'
           /\ Len(links') > Len(links) /\ links # <<>> => req[s].crossed
<1>0. links \in Links /\ pointed \in SUBSET Hardware /\ LinkSays /\ Len(links) \in Nat
  BY DEF DevicesInv, TypeOK
<1>1. /\ req'[s] = NoRequest /\ ~req'[s].remote
      /\ \A v \in Slots : v # s => Aside(req[v], req'[v])
  <2>1. ~NoRequest.remote
    BY DEF NoRequest
  <2> QED BY <2>1, WrittenSets
<1>2. \A v \in Slots : Found(req'[v]) =>
         v # s /\ Found(req[v]) /\ Aside(req[v], req'[v]) /\ KnowsLink(req[v])
  <2> SUFFICES ASSUME NEW v \in Slots, Found(req'[v])
               PROVE  v # s /\ Found(req[v]) /\ Aside(req[v], req'[v]) /\ KnowsLink(req[v])
    OBVIOUS
  <2>1. v # s /\ Aside(req[v], req'[v])
    BY <1>1 DEF Found
  <2>2. Found(req[v])
    BY <2>1 DEF Found, Aside, Same
  <2> QED BY <2>1, <2>2 DEF DevicesInv, FoundLinks
<1>3. CASE ~req[s].remote
  <2>1. UNCHANGED <<links, pointed>>
    BY <1>3 DEF StoreLink, remote
  <2>2. FoundLinks'
    BY <1>2, <2>1 DEF FoundLinks, KnowsLink, Aside, Same
  <2> QED BY <1>0, <2>1, <2>2 DEF LinkSays, Launchable
<1>4. CASE req[s].remote
  <2>1. /\ hw \in Hardware /\ Found(req[s]) /\ KnowsLink(req[s])
        /\ links' = Linked(s, hw)
        /\ pointed' = IF req[s].crossed THEN Hardware ELSE {hw}
    BY <1>4 DEF StoreLink, DevicesInv, FoundLinks
  <2>2. CASE req[s].link = 0
    <3>1. /\ links' = Append(links, hw)
          /\ links' \in Links /\ Len(links') = Len(links) + 1 /\ links' # <<>>
          /\ DOMAIN links' = 1..Len(links') /\ links'[Len(links')] = hw
          /\ \A i \in 1..Len(links) : i \in 1..Len(links') /\ links'[i] = links[i]
      BY <1>0, <2>1, <2>2 DEF Linked
    <3>3. ~req[s].crossed => links = <<>>
      BY <2>1, <2>2 DEF KnowsLink
    <3>4. ASSUME ~req[s].crossed PROVE Launchable' = {hw}
      <4>1. DOMAIN links' = {1} /\ links'[1] = hw
        BY <3>1, <3>3, <3>4
      <4> QED BY <4>1 DEF Launchable
    <3>5. \A i \in DOMAIN links' : links'[i] \in Hardware
      BY <3>1
    <3>6. Launchable' \subseteq Hardware
      BY <3>5 DEF Launchable
    <3>7. LinkSays'
      BY <2>1, <3>1, <3>4, <3>6 DEF LinkSays
    <3>8. ASSUME NEW v \in Slots, Found(req'[v]) PROVE KnowsLink(req[v])'
      <4>1. v # s /\ Found(req[v]) /\ Aside(req[v], req'[v]) /\ KnowsLink(req[v]) /\ req[v].crossed
        BY <1>2, <1>4, <3>8 DEF DevicesInv, Crossed, Found
      <4> QED BY <3>1, <4>1 DEF KnowsLink, Aside, Same
    <3> QED BY <2>1, <3>1, <3>3, <3>7, <3>8 DEF FoundLinks
  <2>3. CASE req[s].link # 0
    <3>1. PICK n \in 1..Len(links) : n = req[s].link
      BY <2>1, <2>3 DEF KnowsLink
    <3>2. PICK x \in Hardware : /\ links' = [links EXCEPT ![n] = x]
                                /\ ~req[s].crossed => x = hw
      <4>1. links[n] \in Hardware
        BY <1>0, <3>1
      <4>2. ~req[s].crossed => req[s].linked = links[n]
        BY <2>1, <3>1 DEF KnowsLink
      <4> QED BY <2>1, <2>3, <3>1, <4>1, <4>2 DEF Linked, Upserted
    <3>3. /\ links' \in Links /\ Len(links') = Len(links) /\ links' # <<>>
          /\ links'[n] = x
      BY <1>0, <3>1, <3>2
    <3>4. \A i \in DOMAIN links' : links'[i] \in Hardware
      BY <3>3
    <3>5. Launchable' \subseteq Hardware
      BY <3>4 DEF Launchable
    <3>6. ~req[s].crossed /\ Len(links') <= 1 => Launchable' = {hw}
      <4>1. Len(links) <= 1 => n = 1 /\ Len(links') = 1
        BY <1>0, <3>1, <3>3
      <4>2. DOMAIN links' = 1..Len(links')
        BY <3>3
      <4>3. Len(links) <= 1 => DOMAIN links' = {1}
        BY <4>1, <4>2
      <4> QED BY <3>2, <3>3, <4>1, <4>3 DEF Launchable
    <3>7. LinkSays'
      BY <2>1, <3>3, <3>5, <3>6 DEF LinkSays
    <3>8. ASSUME NEW v \in Slots, Found(req'[v]) PROVE KnowsLink(req[v])'
      <4>1. v # s /\ Found(req[v]) /\ Aside(req[v], req'[v]) /\ KnowsLink(req[v]) /\ req[v].crossed
        BY <1>2, <1>4, <3>8 DEF DevicesInv, Crossed, Found
      <4> QED BY <3>3, <4>1 DEF KnowsLink, Aside, Same
    <3> QED BY <1>0, <2>1, <3>3, <3>7, <3>8 DEF FoundLinks
  <2> QED BY <2>2, <2>3
<1> QED BY <1>3, <1>4

LEMMA PresenceStep ==
    ASSUME DevicesInv, NEW s \in Slots, NEW hw,
           ReadCommit(s) \/ (PingCommit(s, hw) /\ hw \in Hardware)
    PROVE  DevicesInv'
<1>0. /\ Written(s) /\ UNCHANGED <<inv, security, rows, latest, told>>
      /\ blurred' = req[s].stale
      /\ req[s] \in Request /\ req[s].kind # "none" /\ Current(req[s]) /\ Shape(req[s])
  BY DEF ReadCommit, PingCommit, Seen, At, tables, DevicesInv, TypeOK, Currents, Shapes
<1>1. /\ req'[s] = NoRequest /\ req'[s].kind = "none"
      /\ \A v \in Slots : v # s => Aside(req[v], req'[v])
      /\ req' \in [Slots -> Request]
  BY <1>0, WrittenSets
<1>2. Shapes' /\ Currents' /\ Met' /\ Crossed'
  BY <1>0, WrittenStep
<1>3. recent' \in BOOLEAN /\ online' \in BOOLEAN /\ blurred' \in BOOLEAN
  BY <1>0 DEF ReadCommit, PingCommit, Seen, DevicesInv, TypeOK, Request
<1>4. links' \in Links /\ pointed' \in SUBSET Hardware /\ LinkSays' /\ FoundLinks'
  <2>1. req[s].remote => hw \in Hardware /\ Found(req[s])
    BY <1>0 DEF ReadCommit, PingCommit, At, Shape, Found
  <2>2. StoreLink(s, hw)
    BY <1>0 DEF ReadCommit, PingCommit, At, Shape, StoreLink
  <2> QED BY <1>0, <2>1, <2>2, StoreLinkStep
<1>5. TypeOK'
  BY <1>0, <1>1, <1>3, <1>4 DEF DevicesInv, TypeOK
<1>6. OnlineWhenSeen'
  <2>1. CASE ReadCommit(s)
    <3>1. recent' = recent /\ online' = req[s].recent /\ req[s].kind = "read"
      BY <2>1 DEF ReadCommit, At
    <3>2. recent /\ ~req[s].recent => req[s].stale
      BY <1>0, <3>1 DEF Current
    <3> QED BY <1>0, <3>1, <3>2, Zenon DEF OnlineWhenSeen
  <2>2. CASE PingCommit(s, hw)
    <3>1. online' = IF req[s].online THEN online ELSE TRUE
      BY <2>2 DEF PingCommit, Seen
    <3>2. req[s].online /\ ~online => req[s].stale
      BY <1>0 DEF Current
    <3> QED BY <1>0, <3>1, <3>2 DEF OnlineWhenSeen
  <2> QED BY <2>1, <2>2
<1>7. InventoryIsLatest' /\ HardwareIsLatest'
  BY <1>0 DEF DevicesInv, InventoryIsLatest, HardwareIsLatest
<1>8. LoadedInv' /\ LoadedSecurity' /\ LeavesMet'
  BY <1>0, <1>1 DEF DevicesInv, LoadedInv, LoadedSecurity, Checked, LeavesMet, Leaves, Report,
     Aside, Same
<1> QED BY <1>2, <1>4, <1>5, <1>6, <1>7, <1>8 DEF DevicesInv

LEMMA ReportCommitStep ==
    ASSUME DevicesInv, NEW s \in Slots, NEW hw \in Hardware, ReportCommit(s, hw)
    PROVE  DevicesInv'
<1>0. /\ Written(s) /\ Seen(s)
      /\ req[s] \in Request /\ req[s].kind = "report" /\ Report(s) /\ req[s].phase = "flushed"
      /\ Current(req[s]) /\ Shape(req[s]) /\ Leaves(req[s])
  BY DEF ReportCommit, At, Report, DevicesInv, TypeOK, Currents, Shapes, LeavesMet
<1>1. /\ req'[s] = NoRequest /\ req'[s].kind = "none"
      /\ \A v \in Slots : v # s => Aside(req[v], req'[v])
      /\ req' \in [Slots -> Request]
  BY <1>0, WrittenSets
<1>2. Shapes' /\ Currents' /\ Met' /\ Crossed'
  BY <1>0, WrittenStep
<1> DEFINE c == req[s].name
<1>3. c \in Checkins /\ req[s].met \subseteq Checkins
  BY <1>0 DEF Shape, Request
<1>4. /\ rows' = [i \in Tables |-> (rows[i] \ req[s].gone[i]) \cup {c}]
      /\ inv' = IF hw # req[s].inv THEN hw ELSE inv
      /\ ~req[s].full => UNCHANGED <<security, told>>
      /\ req[s].full =>
            /\ security' = IF hw # req[s].security THEN hw ELSE security
            /\ told' = IF req[s].met = {} THEN {hw} ELSE Row
      /\ latest' = [by |-> c, hw |-> hw, peers |-> req[s].met]
  BY DEF ReportCommit, Replaced, Upserted
<1>l. links' \in Links /\ pointed' \in SUBSET Hardware /\ LinkSays' /\ FoundLinks'
  <2>1. req[s].remote => Found(req[s])
    BY <1>0 DEF Found
  <2> QED BY <1>0, <2>1, StoreLinkStep DEF ReportCommit
<1>5. TypeOK'
  <2>1. recent' \in BOOLEAN /\ online' \in BOOLEAN /\ blurred' \in BOOLEAN
    BY <1>0 DEF Seen, DevicesInv, TypeOK, Request
  <2>2. rows' \in [Tables -> SUBSET Checkins]
    BY <1>3, <1>4 DEF DevicesInv, TypeOK
  <2>3. inv' \in Row /\ latest' \in Latest
    BY <1>3, <1>4 DEF DevicesInv, TypeOK, Latest
  <2>4. security' \in Row /\ told' \in SUBSET Row
    BY <1>0, <1>4 DEF DevicesInv, TypeOK, Request
  <2> QED BY <1>1, <1>l, <2>1, <2>2, <2>3, <2>4 DEF TypeOK
<1>6. OnlineWhenSeen'
  BY <1>0 DEF Seen, Current, OnlineWhenSeen
<1>7. \A i \in Tables : rows[i] \ req[s].gone[i] \subseteq req[s].met
  <2>1. \A i \in Tables : i < req[s].next
    BY <1>0, NTablesAssumption DEF Shape, Request, Tables
  <2> QED BY <1>0, <2>1 DEF Leaves
<1>8. InventoryIsLatest'
  BY <1>4, <1>7 DEF InventoryIsLatest
<1>9. HardwareIsLatest'
  <2>1. latest'.peers = {} => inv' = latest'.hw
    BY <1>0, <1>4 DEF DevicesInv, LoadedInv
  <2>2. security' \in told'
    <3>1. CASE ~req[s].full
      BY <1>4, <3>1 DEF DevicesInv, HardwareIsLatest
    <3>2. CASE req[s].full /\ req[s].met = {}
      BY <1>0, <1>4, <3>2 DEF DevicesInv, LoadedSecurity, Checked
    <3>3. CASE req[s].full /\ req[s].met # {}
      BY <1>3, <1>4, <3>3 DEF DevicesInv, TypeOK
    <3> QED BY <3>1, <3>2, <3>3
  <2> QED BY <2>1, <2>2 DEF HardwareIsLatest
<1>10. \A v \in Slots : v # s /\ Report(v) => c \in req[v].met
  BY <1>0 DEF DevicesInv, Met
<1>11. LoadedInv' /\ LoadedSecurity'
  BY <1>1, <1>10 DEF LoadedInv, LoadedSecurity, Checked, Report, Aside, Same
<1>12. ASSUME NEW v \in Slots, Report(v)' PROVE Leaves(req[v])'
  <2>1. v # s /\ Report(v) /\ Aside(req[v], req'[v]) /\ Leaves(req[v]) /\ c \in req[v].met
    BY <1>1, <1>10, <1>12 DEF Report, Aside, Same, DevicesInv, LeavesMet
  <2>2. \A i \in Tables : rows'[i] \subseteq rows[i] \cup {c}
    BY <1>4
  <2>3. req[v].phase = "deleting" => req[v].next \in Tables
    BY DEF DevicesInv, Shapes, Shape
  <2> HIDE DEF c
  <2> QED BY <2>1, <2>2, <2>3 DEF Leaves, Aside, Same
<1> QED BY <1>2, <1>l, <1>5, <1>6, <1>8, <1>9, <1>11, <1>12 DEF DevicesInv, LeavesMet

-----------------------------------------------------------------------------
LEMMA DevicesStep == DevicesInv /\ [Next]_vars => DevicesInv'
<1> SUFFICES ASSUME DevicesInv, [Next]_vars PROVE DevicesInv'
  OBVIOUS
<1>1. ASSUME NEW s \in Slots, Arrives(s) PROVE DevicesInv'
  BY <1>1, ReadBeginStep, PingBeginStep, ReportBeginStep DEF Arrives
<1>2. ASSUME NEW s \in Slots, Serve(s) PROVE DevicesInv'
  BY <1>2, AbortStep, DeleteBeginStep, DeleteEndStep, LoadSecurityStep, FindLinkStep, FlushStep,
     PresenceStep, ReportCommitStep DEF Serve
<1>3. CASE UNCHANGED vars
  BY <1>3 DEF vars, DevicesInv, TypeOK, Shapes, OnlineWhenSeen, Currents, Current, InventoryIsLatest,
     HardwareIsLatest, Met, LoadedInv, LoadedSecurity, Checked, LeavesMet, Leaves, LinkSays,
     Launchable, Crossed, FoundLinks, Found, KnowsLink, Report
<1> QED BY <1>1, <1>2, <1>3, TimeStep DEF Next

(* The inductive invariant holds: requests in flight know what is current. *)
THEOREM DevicesInvHolds == Spec => []DevicesInv
BY InitDevices, DevicesStep, PTL DEF Spec

(* Rows and requests have the types that the models declare.               *)
THEOREM DeviceTypesHold == Spec => []TypeOK
<1>1. DevicesInv => TypeOK
  BY DEF DevicesInv
<1> QED BY <1>1, DevicesInvHolds, PTL

(* A device that has checked in lately is shown offline only if the last   *)
(* writer of its row had an outdated copy (checkin_agent, _sync_status).   *)
THEOREM OnlineHolds == Spec => []OnlineWhenSeen
<1>1. DevicesInv => OnlineWhenSeen
  BY DEF DevicesInv
<1> QED BY <1>1, DevicesInvHolds, PTL

(* upsert_inventory leaves the rows of the last check-in and of those that *)
(* were in flight with it.                                                 *)
THEOREM InventoryHolds == Spec => []InventoryIsLatest
<1>1. DevicesInv => InventoryIsLatest
  BY DEF DevicesInv
<1> QED BY <1>1, DevicesInvHolds, PTL

(* The device's row is that of the last check-in if no other was in flight *)
(* with it.                                                                *)
THEOREM HardwareHolds == Spec => []HardwareIsLatest
<1>1. DevicesInv => HardwareIsLatest
  BY DEF DevicesInv
<1> QED BY <1>1, DevicesInvHolds, PTL

(* Only a request that another with remote access was in flight with       *)
(* inserts a second link.                                                  *)
Doubles ==
    Len(links') > Len(links) /\ links # <<>> =>
        \E s \in Slots : req[s].crossed /\ req'[s] = NoRequest

LEMMA DoublesStep == DevicesInv /\ [Next]_vars => [Doubles]_vars
<1> SUFFICES ASSUME DevicesInv, Next PROVE Doubles
  OBVIOUS
<1>1. ASSUME NEW s \in Slots, NEW hw \in Hardware, PingCommit(s, hw) \/ ReportCommit(s, hw)
      PROVE  Doubles
  <2>1. Written(s) /\ StoreLink(s, hw) /\ req[s].phase = "flushed"
    BY <1>1 DEF PingCommit, ReportCommit, At
  <2>2. Len(links') > Len(links) /\ links # <<>> => req[s].crossed
    BY <2>1, StoreLinkStep DEF Found
  <2>3. req'[s] = NoRequest
    BY <2>1, WrittenSets
  <2> QED BY <2>2, <2>3 DEF Doubles
<1>2. UNCHANGED links => Doubles
  <2>1. Len(links) \in Nat
    BY DEF DevicesInv, TypeOK
  <2> QED BY <2>1 DEF Doubles
<1>3. ASSUME NEW s \in Slots, Arrives(s) PROVE Doubles
  BY <1>2, <1>3 DEF Arrives, ReadBegin, PingBegin, ReportBegin, CheckinBegin, remote
<1>4. ASSUME NEW s \in Slots, Serve(s) PROVE Doubles
  BY <1>1, <1>2, <1>4 DEF Serve, Abort, ReadCommit, DeleteBegin, DeleteEnd, LoadSecurity, FindLink,
     Flush, remote
<1> QED BY <1>2, <1>3, <1>4 DEF Next, TimePasses, remote

(* upsert_rustdesk_status: launch_device_remote leads to where the device  *)
(* was last reported to be, unless check-ins with remote access were in    *)
(* flight together, and only those leave a device two links.               *)
THEOREM LinkHolds == Spec => LinkIsLatest
<1>1. DevicesInv => LinkSays
  BY DEF DevicesInv
<1> QED BY <1>1, DevicesInvHolds, DoublesStep, PTL DEF Spec, LinkIsLatest, Doubles
=============================================================================
