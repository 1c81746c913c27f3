----------------------------- MODULE Enrollment -----------------------------
(***************************************************************************)
(* Enrollment of machines in one organization: POST /agent/enroll          *)
(* (backend/app/api/agent.py) and the agent's `enroll` command, which puts *)
(* the device id and the secret it gets into its config file               *)
(* (agent/cmd/cyclope-agent/main.go).                                      *)
(*                                                                         *)
(* A request holds the row lock of its token (with_for_update) until it    *)
(* commits.  Requests with different tokens overlap, and so do requests a  *)
(* client has given up on (time-out of 15 s) with those it sends next.     *)
(*                                                                         *)
(* The server knows a machine by its machine_identifier only, which agents *)
(* make of host name, system and architecture.  Several machines, or       *)
(* config files of one machine, may use the same one, and then they share  *)
(* an agents row.  Nothing keeps them from enrolling at the same time.     *)
(***************************************************************************)
EXTENDS Naturals, FiniteSets

CONSTANTS
    Machines,   \* machine_identifier, also the agents' install_id
    Hosts,      \* config files, on whatever machine
    Name,       \* the machine_identifier of each of them
    Tokens,     \* enrollment tokens
    MaxUses,    \* max_uses of each token
    DeviceIds,  \* identities of devices rows
    Secrets,    \* device secrets
    Slots,      \* requests the server works on at the same time
    None        \* SQL NULL

ASSUME MaxUsesAssumption == MaxUses \in [Tokens -> Nat \ {0}]

ASSUME NameAssumption == Name \in [Hosts -> Machines]

ASSUME NullAssumption ==
    None \notin Machines \cup Hosts \cup Tokens \cup DeviceIds \cup Secrets \cup Slots

VARIABLES
    uses,      \* enrollment_tokens.uses
    expired,   \* has the token expired or been revoked?
    lock,      \* the request that holds the row lock of each token
    device,    \* the machine_identifier of each devices row
    agent,     \* per install_id, the agents row: device and secret
    req,       \* the request in each slot
    awaits,    \* the config file of the enroll command that waits for each slot
    file,      \* the credentials in each config file
    via,       \* history: the token each device was created with
    enrolled,  \* history: enrolments committed with each token
    met,       \* history: requests on the way that another of their
               \* machine_identifier has been on the way with
    current    \* history: config files with the answer to a request that met no
               \* other, their machine_identifier not enrolled again since

tokens == <<uses, expired, lock>>
tables == <<device, agent>>
client == <<awaits, file, met, current>>
history == <<via, enrolled>>
vars == <<uses, expired, lock, device, agent, req, awaits, file, via, enrolled,
          met, current>>

Credentials == [dev : DeviceIds, secret : Secrets] \cup {[dev |-> None, secret |-> None]}

NoCredentials == [dev |-> None, secret |-> None]

(***************************************************************************)
(* phase: "sent", "locked" (the token is valid and locked), "found" (a     *)
(* device row is found or added), "ready" (only the commit is left),       *)
(* "done", "refused" (no answer was read yet).                             *)
(***************************************************************************)
Request == [phase  : {"idle", "sent", "locked", "found", "ready", "done", "refused"},
            m      : Machines \cup {None},
            token  : Tokens \cup {None},
            dev    : DeviceIds \cup {None},
            isNew  : BOOLEAN,  \* is the device row added by this request?
            loaded : DeviceIds \cup {None},  \* the device_id of the agents row found
            secret : Secrets \cup {None}]

NoRequest == [phase |-> "idle", m |-> None, token |-> None, dev |-> None,
              isNew |-> FALSE, loaded |-> None, secret |-> None]

(* All that is left of a request once it is decided: what it answers.      *)
Refused == [NoRequest EXCEPT !.phase = "refused"]

Done(r) ==
    [NoRequest EXCEPT !.phase = "done", !.m = r.m, !.dev = r.dev, !.secret = r.secret]

Init ==
    /\ uses = [t \in Tokens |-> 0]
    /\ expired = [t \in Tokens |-> FALSE]
    /\ lock = [t \in Tokens |-> None]
    /\ device = [d \in DeviceIds |-> None]
    /\ agent = [m \in Machines |-> NoCredentials]
    /\ req = [s \in Slots |-> NoRequest]
    /\ awaits = [s \in Slots |-> None]
    /\ file = [h \in Hosts |-> NoCredentials]
    /\ via = [d \in DeviceIds |-> None]
    /\ enrolled = [t \in Tokens |-> 0]
    /\ met = {}
    /\ current = {}

-----------------------------------------------------------------------------
Unlocked(s) == [t \in Tokens |-> IF lock[t] = s THEN None ELSE lock[t]]

Rivals(s, m) == {u \in Slots \ {s} : req[u].m = m}

(* cyclope-agent enroll <token>.                                           *)
SendEnroll(s, h, t) ==
    /\ req[s] = NoRequest
    /\ req' = [req EXCEPT ![s] =
                  [NoRequest EXCEPT !.phase = "sent", !.m = Name[h], !.token = t]]
    /\ awaits' = [awaits EXCEPT ![s] = h]
    /\ met' = IF Rivals(s, Name[h]) = {} THEN met ELSE met \cup Rivals(s, Name[h]) \cup {s}
    /\ UNCHANGED <<tokens, tables, file, current, history>>

\* Faulty variant: one use too many.
ValidOnceMore(t) == ~expired[t] /\ uses[t] <= MaxUses[t]

Valid(t) == ~expired[t] /\ uses[t] < MaxUses[t]

\* Faulty variant: the token is read without FOR UPDATE.
LockTokenNever(s) ==
    /\ req[s].phase = "sent"
    /\ Valid(req[s].token)
    /\ req' = [req EXCEPT ![s].phase = "locked"]
    /\ UNCHANGED <<tokens, tables, client, history>>

(* SELECT ... FOR UPDATE waits for the lock and then sees what is committed.*)
LockToken(s) ==
    /\ req[s].phase = "sent"
    /\ lock[req[s].token] = None
    /\ Valid(req[s].token)
    /\ lock' = [lock EXCEPT ![req[s].token] = s]
    /\ req' = [req EXCEPT ![s].phase = "locked"]
    /\ UNCHANGED <<uses, expired, tables, client, history>>

\* Faulty variant: a misspelt phase.
RefuseTokenMisspelt(s) ==
    /\ req[s].phase = "sent"
    /\ lock[req[s].token] = None
    /\ ~Valid(req[s].token)
    /\ req' = [req EXCEPT ![s].phase = "refuse"]
    /\ UNCHANGED <<tokens, tables, client, history>>

RefuseToken(s) ==
    /\ req[s].phase = "sent"
    /\ lock[req[s].token] = None
    /\ ~Valid(req[s].token)
    /\ req' = [req EXCEPT ![s] = Refused]
    /\ UNCHANGED <<tokens, tables, client, history>>

DevicesOf(m) == {d \in DeviceIds : device[d] = m}

NewDeviceIds ==
    {d \in DeviceIds : device[d] = None /\ \A s \in Slots : req[s].dev # d}

Found(r, d, isNew) == [r EXCEPT !.phase = "found", !.dev = d, !.isNew = isNew]

(* A duplicate may be either row; a new row is flushed, not committed.     *)
FindDevice(s) ==
    LET found == DevicesOf(req[s].m) IN
    /\ req[s].phase = "locked"
    /\ \E d \in IF found # {} THEN found ELSE NewDeviceIds :
        req' = [req EXCEPT ![s] = Found(@, d, found = {})]
    /\ UNCHANGED <<tokens, tables, client, history>>

NewSecrets ==
    {x \in Secrets : /\ \A m \in Machines : agent[m].secret # x
                     /\ \A h \in Hosts : file[h].secret # x
                     /\ \A s \in Slots : req[s].secret # x}

Readied(r, x) == [r EXCEPT !.phase = "ready", !.secret = x, !.loaded = agent[r.m].dev]

FindAgent(s) ==
    /\ req[s].phase = "found"
    /\ \E x \in NewSecrets : req' = [req EXCEPT ![s] = Readied(@, x)]
    /\ UNCHANGED <<tokens, tables, client, history>>

(***************************************************************************)
(* The flush inserts the agent (install_id is unique) or updates it, which *)
(* writes a device_id only where it differs from the one that was loaded.  *)
(***************************************************************************)
Assigned(r) == IF r.dev = r.loaded THEN agent[r.m].dev ELSE r.dev

Clashes(r) == r.loaded = None /\ agent[r.m] # NoCredentials

EnrollCommit(s) ==
    LET r == req[s] IN
    /\ r.phase = "ready"
    /\ ~Clashes(r)
    /\ IF r.isNew
       THEN /\ device' = [device EXCEPT ![r.dev] = r.m]
            /\ via' = [via EXCEPT ![r.dev] = r.token]
       ELSE UNCHANGED <<device, via>>
    /\ agent' = [agent EXCEPT ![r.m] = [dev |-> Assigned(r), secret |-> r.secret]]
    /\ uses' = [uses EXCEPT ![r.token] = @ + 1]
    /\ enrolled' = [enrolled EXCEPT ![r.token] = @ + 1]
    /\ lock' = Unlocked(s)
    /\ req' = [req EXCEPT ![s] = Done(r)]
    /\ current' = {h \in current : Name[h] # r.m}
    /\ UNCHANGED <<expired, awaits, file, met>>

\* Faulty variant: an update by install_id that outlives the rollback of the device.
EnrollConflictUpdates(s) ==
    LET r == req[s] IN
    /\ r.phase = "ready"
    /\ Clashes(r)
    /\ agent' = [agent EXCEPT ![r.m] = [dev |-> r.dev, secret |-> r.secret]]
    /\ lock' = Unlocked(s)
    /\ req' = [req EXCEPT ![s] = Refused]
    /\ UNCHANGED <<uses, expired, device, client, history>>

EnrollConflict(s) ==
    /\ req[s].phase = "ready"
    /\ Clashes(req[s])
    /\ lock' = Unlocked(s)
    /\ req' = [req EXCEPT ![s] = Refused]
    /\ UNCHANGED <<uses, expired, tables, client, history>>

\* Faulty variant: the secret was rotated in a transaction of its own.
AbortAfterRotation(s) ==
    /\ req[s].phase \in {"sent", "locked", "found", "ready"}
    /\ agent' = IF req[s].phase = "ready" /\ agent[req[s].m] # NoCredentials
                THEN [agent EXCEPT ![req[s].m].secret = req[s].secret] ELSE agent
    /\ lock' = Unlocked(s)
    /\ req' = [req EXCEPT ![s] = Refused]
    /\ UNCHANGED <<uses, expired, device, client, history>>

\* Faulty variant: a request that dies leaves its transaction open.
AbortKeepsLock(s) ==
    /\ req[s].phase \in {"sent", "locked", "found", "ready"}
    /\ req' = [req EXCEPT ![s] = Refused]
    /\ UNCHANGED <<tokens, tables, client, history>>

(* The request dies, its session is rolled back.                           *)
Abort(s) ==
    /\ req[s].phase \in {"sent", "locked", "found", "ready"}
    /\ lock' = Unlocked(s)
    /\ req' = [req EXCEPT ![s] = Refused]
    /\ UNCHANGED <<uses, expired, tables, client, history>>

(* expires_at passes, or an operator sets revoked_at.                      *)
Expire(t) ==
    /\ ~expired[t]
    /\ expired' = [expired EXCEPT ![t] = TRUE]
    /\ UNCHANGED <<uses, lock, tables, req, client, history>>

-----------------------------------------------------------------------------
Awaits(s, phase) == awaits[s] # None /\ req[s].phase = phase

Ends(s) ==
    /\ req' = [req EXCEPT ![s] = NoRequest]
    /\ awaits' = [awaits EXCEPT ![s] = None]
    /\ met' = met \ {s}

SaveConfig(s) ==
    /\ Awaits(s, "done")
    /\ file' = [file EXCEPT ![awaits[s]] = [dev |-> req[s].dev, secret |-> req[s].secret]]
    /\ current' = IF s \in met THEN current ELSE current \cup {awaits[s]}
    /\ Ends(s)
    /\ UNCHANGED <<tokens, tables, history>>

(* SaveToFile fails, or the process ends in it: WriteFile truncates first. *)
SaveFails(s) ==
    /\ Awaits(s, "done")
    /\ \E f \in {file[awaits[s]], NoCredentials} : file' = [file EXCEPT ![awaits[s]] = f]
    /\ Ends(s)
    /\ UNCHANGED <<tokens, tables, current, history>>

HearRefusal(s) ==
    /\ Awaits(s, "refused")
    /\ Ends(s)
    /\ UNCHANGED <<tokens, tables, file, current, history>>

(* The client's time-out, a broken connection, or the command is killed.   *)
GiveUp(s) ==
    /\ awaits[s] # None
    /\ awaits' = [awaits EXCEPT ![s] = None]
    /\ UNCHANGED <<tokens, tables, req, file, met, current, history>>

(* An answer nobody waits for.                                             *)
Drop(s) ==
    /\ req[s].phase \in {"done", "refused"}
    /\ awaits[s] = None
    /\ Ends(s)
    /\ UNCHANGED <<tokens, tables, file, current, history>>

(* install-agent.ps1 starts with a config file that has no credentials.    *)
Install(h) ==
    /\ file[h] # NoCredentials
    /\ file' = [file EXCEPT ![h] = NoCredentials]
    /\ current' = current \ {h}
    /\ UNCHANGED <<tokens, tables, req, awaits, met, history>>

-----------------------------------------------------------------------------
Works(s) == FindDevice(s) \/ FindAgent(s) \/ EnrollCommit(s) \/ EnrollConflict(s)

Next ==
    \/ \E s \in Slots, h \in Hosts, t \in Tokens : SendEnroll(s, h, t)
    \/ \E s \in Slots : LockToken(s) \/ RefuseToken(s) \/ Works(s) \/ Abort(s) \/ Drop(s)
    \/ \E s \in Slots : SaveConfig(s) \/ SaveFails(s) \/ HearRefusal(s) \/ GiveUp(s)
    \/ \E t \in Tokens : Expire(t)
    \/ \E h \in Hosts : Install(h)

Spec == Init /\ [][Next]_vars

(***************************************************************************)
(* A server that works off what it has begun; the database hands a row     *)
(* lock to each of those that wait for it.                                 *)
(***************************************************************************)
FairServer ==
    Spec /\ \A s \in Slots : WF_vars(Works(s)) /\ SF_vars(LockToken(s) \/ RefuseToken(s))

-----------------------------------------------------------------------------
(* Type invariant.                                                         *)
TypeOK ==
    /\ uses \in [Tokens -> Nat]
    /\ expired \in [Tokens -> BOOLEAN]
    /\ lock \in [Tokens -> Slots \cup {None}]
    /\ device \in [DeviceIds -> Machines \cup {None}]
    /\ agent \in [Machines -> Credentials]
    /\ req \in [Slots -> Request]
    /\ awaits \in [Slots -> Hosts \cup {None}]
    /\ file \in [Hosts -> Credentials]
    /\ via \in [DeviceIds -> Tokens \cup {None}]
    /\ enrolled \in [Tokens -> Nat]
    /\ met \in SUBSET Slots
    /\ current \in SUBSET Hosts

(***************************************************************************)
(* docs/Architecture.md: tokens "enforce maximum use counts", however many *)
(* machines present one at the same time.                                  *)
(***************************************************************************)
EnrolmentsWithinLimit == \A t \in Tokens : enrolled[t] <= MaxUses[t]

(***************************************************************************)
(* Two devices rows of one machine, which the schema allows, only come     *)
(* from enrolments with different tokens: one token's enrolments wait for  *)
(* each other, so the second finds the device of the first.                *)
(***************************************************************************)
DuplicatesNeedTwoTokens ==
    \A d, e \in DeviceIds :
        d # e /\ device[d] = device[e] /\ device[d] # None => via[d] # via[e]

(***************************************************************************)
(* An agent is registered for a committed device of its own machine, also  *)
(* when rival enrolments of that machine were rolled back.                 *)
(***************************************************************************)
AgentOnOwnDevice ==
    \A m \in Machines : agent[m] # NoCredentials => device[agent[m].dev] = m

(***************************************************************************)
(* Whatever overlaps, is refused or dies, the tables change as if whole    *)
(* enrolments had happened one after the other.                            *)
(***************************************************************************)
AtOnce == INSTANCE Enrolments

EnrollsAtOnce == AtOnce!Spec

(***************************************************************************)
(* Credentials that were saved from an enrolment which met no other of its *)
(* machine_identifier are those the server expects, until an enrolment of  *)
(* that machine_identifier is carried out again, on whatever machine.      *)
(* None that is refused, fails or is given up has that effect.             *)
(***************************************************************************)
FileMatchesServer == \A h \in current : file[h] = agent[Name[h]]

(***************************************************************************)
(* Nobody waits for a token for ever: every way out of a request gives its *)
(* lock back.                                                              *)
(***************************************************************************)
RequestsAreServed == \A s \in Slots : req[s].phase = "sent" ~> req[s].phase # "sent"
=============================================================================
