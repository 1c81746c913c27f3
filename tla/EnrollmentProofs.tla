-------------------------- MODULE EnrollmentProofs --------------------------
(***************************************************************************)
(* Proofs about Enrollment: use limits, duplicates, the agents' devices    *)
(* and the refinement of Enrolments, for any number of identifiers, config *)
(* files that share them, tokens, devices and overlapping requests.        *)
(***************************************************************************)
EXTENDS Enrollment, TLAPS

Holding == {"locked", "found", "ready"}

Choosing == {"found", "ready"}

(* What a request has by its phase.                                        *)
Sound(r) ==
    /\ r.phase \notin {"idle", "refused"} => r.m \in Machines
    /\ r.phase \in {"sent", "locked", "found", "ready"} => r.token \in Tokens
    /\ r.phase \in {"found", "ready", "done"} => r.dev \in DeviceIds
    /\ r.phase \in {"ready", "done"} => r.secret \in Secrets

RequestsAreSound == \A s \in Slots : Sound(req[s])

(* A valid token stays so as long as its lock is held.                     *)
HoldersLock ==
    \A s \in Slots : req[s].phase \in Holding =>
        /\ lock[req[s].token] = s
        /\ uses[req[s].token] < MaxUses[req[s].token]

UsesAreCounted == \A t \in Tokens : enrolled[t] = uses[t] /\ uses[t] <= MaxUses[t]

(***************************************************************************)
(* A request has found a device of its machine, or adds one of its own     *)
(* that no enrolment with the same token has added before.                 *)
(***************************************************************************)
DevicesAreChosen ==
    \A s \in Slots : req[s].phase \in Choosing =>
        /\ ~req[s].isNew => device[req[s].dev] = req[s].m
        /\ req[s].isNew =>
              /\ device[req[s].dev] = None
              /\ \A e \in DeviceIds : device[e] = req[s].m => via[e] # req[s].token
              /\ \A t \in Slots \ {s} :
                    req[t].phase \in Choosing => req[t].dev # req[s].dev

(* An agents row that was found is not deleted.                            *)
LoadedAgentsStay ==
    \A s \in Slots : req[s].phase = "ready" /\ req[s].loaded # None =>
        agent[req[s].m] # NoCredentials

EnrollmentInv ==
    /\ RequestsAreSound
    /\ HoldersLock
    /\ UsesAreCounted
    /\ DevicesAreChosen
    /\ LoadedAgentsStay
    /\ DuplicatesNeedTwoTokens
    /\ AgentOnOwnDevice

-----------------------------------------------------------------------------
(* An empty slot has the type of a request.                                *)
LEMMA NoRequestType == NoRequest \in Request /\ NoRequest.phase = "idle"
BY DEF NoRequest, Request

(* A new request is well formed.                                           *)
LEMMA SentType ==
  ASSUME NEW m \in Machines, NEW t \in Tokens, NEW x,
         x = [NoRequest EXCEPT !.phase = "sent", !.m = m, !.token = t]
  PROVE  x \in Request /\ x.phase = "sent" /\ Sound(x)
BY DEF NoRequest, Request, Sound

(* Locking the token keeps the type of a request and its other fields.     *)
LEMMA PhaseType ==
  ASSUME NEW r \in Request, NEW x, x = [r EXCEPT !.phase = "locked"]
  PROVE  /\ x \in Request /\ x.phase = "locked" /\ x.m = r.m /\ x.token = r.token
         /\ x.dev = r.dev /\ x.secret = r.secret
BY DEF Request

(* What is left of a request that was decided.                             *)
LEMMA DecidedType ==
  ASSUME NEW r \in Request
  PROVE  /\ Refused \in Request /\ Refused.phase = "refused" /\ Refused.m = None
         /\ Done(r) \in Request /\ Done(r).phase = "done" /\ Done(r).m = r.m
         /\ Done(r).dev = r.dev /\ Done(r).secret = r.secret
<1>1. Refused \in Request /\ Refused.phase = "refused" /\ Refused.m = None
  BY DEF Refused, NoRequest, Request
<1>2. PICK m, d, c : m = r.m /\ d = r.dev /\ c = r.secret
  OBVIOUS
<1>3. Done(r) = [NoRequest EXCEPT !.phase = "done", !.m = m, !.dev = d, !.secret = c]
  BY <1>2 DEF Done
<1>4. m \in Machines \cup {None} /\ d \in DeviceIds \cup {None} /\ c \in Secrets \cup {None}
  BY <1>2 DEF Request
<1>5. PICK x : x = [NoRequest EXCEPT !.phase = "done", !.m = m]
  OBVIOUS
<1>6. x \in Request /\ x.phase = "done" /\ x.m = m
  BY <1>4, <1>5 DEF NoRequest, Request
<1>7. PICK y : y = [x EXCEPT !.dev = d, !.secret = c]
  OBVIOUS
<1>8. /\ y \in Request /\ y.phase = "done" /\ y.m = m
      /\ y.dev = d /\ y.secret = c
  BY <1>4, <1>6, <1>7 DEF Request
<1>9. Done(r) = y
  BY <1>3, <1>5, <1>7 DEF NoRequest
<1> QED
  BY <1>1, <1>2, <1>8, <1>9

(* Choosing a device keeps the type of a request and its other fields.     *)
LEMMA FoundType ==
  ASSUME NEW r \in Request, NEW d \in DeviceIds, NEW b \in BOOLEAN
  PROVE  /\ Found(r, d, b) \in Request
         /\ Found(r, d, b).phase = "found"
         /\ Found(r, d, b).dev = d
         /\ Found(r, d, b).isNew = b
         /\ Found(r, d, b).m = r.m
         /\ Found(r, d, b).token = r.token
BY DEF Request, Found

(* So does loading the agents row.                                         *)
LEMMA ReadyType ==
  ASSUME agent \in [Machines -> Credentials], NEW r \in Request, r.m \in Machines,
         NEW c \in Secrets
  PROVE  /\ Readied(r, c) \in Request
         /\ Readied(r, c).phase = "ready"
         /\ Readied(r, c).secret = c
         /\ Readied(r, c).loaded = agent[r.m].dev
         /\ Readied(r, c).m = r.m
         /\ Readied(r, c).token = r.token
         /\ Readied(r, c).dev = r.dev
         /\ Readied(r, c).isNew = r.isNew
<1>1. PICK a \in DeviceIds \cup {None} : a = agent[r.m].dev
  BY DEF Credentials
<1>2. PICK x : x = [r EXCEPT !.phase = "ready", !.secret = c, !.loaded = a]
  OBVIOUS
<1>3. x = Readied(r, c)
  BY <1>1, <1>2 DEF Readied
<1>4. /\ x \in Request /\ x.phase = "ready" /\ x.secret = c /\ x.loaded = a
      /\ x.m = r.m /\ x.token = r.token /\ x.dev = r.dev /\ x.isNew = r.isNew
  BY <1>2 DEF Request
<1> QED
  BY <1>1, <1>3, <1>4

(* What credentials are.                                                   *)
LEMMA CredentialsType ==
  /\ NoCredentials \in Credentials
  /\ \A c \in Credentials : /\ c.dev \in DeviceIds \cup {None}
                            /\ c # NoCredentials => c.dev \in DeviceIds
                            /\ c = NoCredentials => c.dev = None
  /\ \A d \in DeviceIds, x \in Secrets :
        /\ [dev |-> d, secret |-> x] \in Credentials
        /\ [dev |-> d, secret |-> x] # NoCredentials
BY NullAssumption DEF Credentials, NoCredentials

(* Releasing a request's locks keeps the type of lock and others' locks.   *)
LEMMA UnlockedType ==
  ASSUME NEW s \in Slots, lock \in [Tokens -> Slots \cup {None}]
  PROVE  /\ Unlocked(s) \in [Tokens -> Slots \cup {None}]
         /\ \A u \in Slots \ {s}, t \in Tokens : lock[t] = u => Unlocked(s)[t] = u
BY DEF Unlocked

(* The device a commit leaves in the agents row is one of the machine.     *)
LEMMA AssignedDevice ==
  ASSUME TypeOK, EnrollmentInv, NEW s \in Slots, req[s].phase = "ready"
  PROVE  /\ Assigned(req[s]) \in DeviceIds
         /\ Assigned(req[s]) = req[s].dev \/ device[Assigned(req[s])] = req[s].m
<1> DEFINE r == req[s]
<1>1. r.m \in Machines /\ r.dev \in DeviceIds
  BY DEF EnrollmentInv, RequestsAreSound, Sound
<1>2. CASE r.dev # r.loaded
  BY <1>1, <1>2 DEF Assigned
<1>3. CASE r.dev = r.loaded
  <2>1. agent[r.m] # NoCredentials
    BY <1>1, <1>3, NullAssumption DEF EnrollmentInv, LoadedAgentsStay
  <2>2. agent[r.m].dev \in DeviceIds /\ device[agent[r.m].dev] = r.m
    BY <1>1, <2>1, CredentialsType DEF TypeOK, EnrollmentInv, AgentOnOwnDevice
  <2> QED
    BY <1>3, <2>2 DEF Assigned
<1> QED
  BY <1>2, <1>3

(* Every step keeps the type invariant.                                    *)
LEMMA TypeStep == TypeOK /\ EnrollmentInv /\ [Next]_vars => TypeOK'
<1> SUFFICES ASSUME TypeOK, EnrollmentInv, [Next]_vars PROVE TypeOK'
  OBVIOUS
<1> USE DEF TypeOK, tokens, tables, client, history
<1>1. ASSUME NEW s \in Slots, NEW h \in Hosts, NEW t \in Tokens, SendEnroll(s, h, t)
      PROVE  TypeOK'
  <2>1. Name[h] \in Machines
    BY NameAssumption
  <2>2. req' \in [Slots -> Request]
    BY <1>1, <2>1, SentType DEF SendEnroll
  <2>3. awaits' \in [Slots -> Hosts \cup {None}] /\ met' \in SUBSET Slots
    BY <1>1 DEF SendEnroll, Rivals
  <2> QED
    BY <1>1, <2>2, <2>3 DEF SendEnroll
<1>3. ASSUME NEW s \in Slots,
             LockToken(s) \/ RefuseToken(s) \/ EnrollConflict(s) \/ Abort(s)
      PROVE  TypeOK'
  <2>1. CASE LockToken(s)
    <3>1. req[s].token \in Tokens
      BY <2>1 DEF LockToken, EnrollmentInv, RequestsAreSound, Sound
    <3>2. req' = [req EXCEPT ![s] = [req[s] EXCEPT !.phase = "locked"]]
      BY <2>1 DEF LockToken
    <3>3. req' \in [Slots -> Request]
      BY <3>2, PhaseType
    <3> QED
      BY <2>1, <3>1, <3>3 DEF LockToken
  <2>2. Refused \in Request
    BY NoRequestType, DecidedType
  <2>3. CASE RefuseToken(s)
    BY <2>2, <2>3 DEF RefuseToken
  <2>4. CASE EnrollConflict(s)
    BY <2>2, <2>4, UnlockedType DEF EnrollConflict
  <2>5. CASE Abort(s)
    BY <2>2, <2>5, UnlockedType DEF Abort
  <2> QED
    BY <1>3, <2>1, <2>3, <2>4, <2>5
<1>4. ASSUME NEW s \in Slots, FindDevice(s) PROVE TypeOK'
  <2>1. PICK d \in DeviceIds, b \in BOOLEAN : req' = [req EXCEPT ![s] = Found(req[s], d, b)]
    <3> DEFINE found == DevicesOf(req[s].m)
    <3>1. PICK b \in BOOLEAN : b = (found = {})
      OBVIOUS
    <3>2. PICK d \in IF found # {} THEN found ELSE NewDeviceIds :
            req' = [req EXCEPT ![s] = Found(req[s], d, found = {})]
      BY <1>4 DEF FindDevice
    <3>3. found \subseteq DeviceIds /\ NewDeviceIds \subseteq DeviceIds
      BY DEF DevicesOf, NewDeviceIds
    <3> HIDE DEF found
    <3>4. d \in DeviceIds
      BY <3>2, <3>3
    <3> QED
      BY <3>1, <3>2, <3>4
  <2>2. req' \in [Slots -> Request]
    BY <2>1, FoundType
  <2> QED
    BY <1>4, <2>2 DEF FindDevice
<1>5. ASSUME NEW s \in Slots, FindAgent(s) PROVE TypeOK'
  <2>1. req[s].m \in Machines
    BY <1>5 DEF FindAgent, EnrollmentInv, RequestsAreSound, Sound
  <2>2. PICK c \in Secrets : req' = [req EXCEPT ![s] = Readied(req[s], c)]
    BY <1>5 DEF FindAgent, NewSecrets
  <2>3. req' \in [Slots -> Request]
    BY <2>1, <2>2, ReadyType
  <2> QED
    BY <1>5, <2>3 DEF FindAgent
<1>6. ASSUME NEW s \in Slots, EnrollCommit(s) PROVE TypeOK'
  <2>1. /\ req[s].m \in Machines /\ req[s].token \in Tokens
        /\ req[s].dev \in DeviceIds /\ req[s].secret \in Secrets
    BY <1>6 DEF EnrollCommit, EnrollmentInv, RequestsAreSound, Sound
  <2>2. [dev |-> Assigned(req[s]), secret |-> req[s].secret] \in Credentials
    BY <1>6, <2>1, AssignedDevice, CredentialsType DEF EnrollCommit
  <2>3. agent' \in [Machines -> Credentials]
    BY <1>6, <2>2 DEF EnrollCommit
  <2>4. device' \in [DeviceIds -> Machines \cup {None}]
        /\ via' \in [DeviceIds -> Tokens \cup {None}]
    BY <1>6, <2>1 DEF EnrollCommit
  <2>5. uses' \in [Tokens -> Nat] /\ enrolled' \in [Tokens -> Nat]
    <3>1. /\ uses' = [uses EXCEPT ![req[s].token] = uses[req[s].token] + 1]
          /\ enrolled' = [enrolled EXCEPT ![req[s].token] = enrolled[req[s].token] + 1]
      BY <1>6 DEF EnrollCommit
    <3> QED
      BY <2>1, <3>1
  <2>6. lock' \in [Tokens -> Slots \cup {None}] /\ req' \in [Slots -> Request]
    BY <1>6, DecidedType, UnlockedType DEF EnrollCommit
  <2>7. current' \in SUBSET Hosts
    BY <1>6 DEF EnrollCommit
  <2> QED
    BY <1>6, <2>3, <2>4, <2>5, <2>6, <2>7 DEF EnrollCommit
<1>7. ASSUME NEW s \in Slots, Ends(s)
      PROVE  /\ req' \in [Slots -> Request] /\ awaits' \in [Slots -> Hosts \cup {None}]
             /\ met' \in SUBSET Slots
  BY <1>7, NoRequestType DEF Ends
<1>8. ASSUME NEW s \in Slots, SaveConfig(s) PROVE TypeOK'
  <2>1. awaits[s] \in Hosts /\ req[s].phase = "done"
    BY <1>8 DEF SaveConfig, Awaits
  <2>2. [dev |-> req[s].dev, secret |-> req[s].secret] \in Credentials
    BY <2>1, CredentialsType DEF EnrollmentInv, RequestsAreSound, Sound
  <2>3. file' \in [Hosts -> Credentials] /\ current' \in SUBSET Hosts
    BY <1>8, <2>1, <2>2 DEF SaveConfig
  <2> QED
    BY <1>7, <1>8, <2>3 DEF SaveConfig
<1>9. ASSUME NEW s \in Slots, SaveFails(s) PROVE TypeOK'
  <2>1. PICK f \in {file[awaits[s]], NoCredentials} : file' = [file EXCEPT ![awaits[s]] = f]
    BY <1>9 DEF SaveFails
  <2>2. awaits[s] \in Hosts
    BY <1>9 DEF SaveFails, Awaits
  <2>3. file' \in [Hosts -> Credentials]
    BY <2>1, <2>2, CredentialsType
  <2> QED
    BY <1>7, <1>9, <2>3 DEF SaveFails
<1>10. ASSUME NEW s \in Slots, HearRefusal(s) \/ GiveUp(s) \/ Drop(s) PROVE TypeOK'
  BY <1>7, <1>10 DEF HearRefusal, GiveUp, Drop
<1>11. ASSUME NEW h \in Hosts, Install(h) PROVE TypeOK'
  BY <1>11, CredentialsType DEF Install
<1>12. ASSUME NEW t \in Tokens, Expire(t) PROVE TypeOK'
  BY <1>12 DEF Expire
<1>13. CASE UNCHANGED vars
  BY <1>13 DEF vars
<1> QED
  BY <1>1, <1>3, <1>4, <1>5, <1>6, <1>8, <1>9, <1>10, <1>11, <1>12, <1>13
  DEF Next, Works

(* Every step keeps what requests hold, choose and leave behind.           *)
LEMMA SafetyStep == TypeOK /\ EnrollmentInv /\ [Next]_vars => EnrollmentInv'
<1> SUFFICES ASSUME TypeOK, EnrollmentInv, [Next]_vars PROVE EnrollmentInv'
  OBVIOUS
<1> USE DEF TypeOK, tokens, tables, client, history, EnrollmentInv
<1>1. ASSUME NEW s \in Slots, NEW x \in Request, req' = [req EXCEPT ![s] = x],
             x.phase \notin Holding, Sound(x), UNCHANGED <<uses, tables, history>>,
             \A u \in Slots \ {s}, t \in Tokens : lock[t] = u => lock'[t] = u
      PROVE  EnrollmentInv'
  <2>1. req'[s] = x /\ \A u \in Slots \ {s} : req'[u] = req[u]
    BY <1>1
  <2>2. RequestsAreSound'
    BY <1>1, <2>1 DEF RequestsAreSound
  <2>3. HoldersLock'
    BY <1>1, <2>1 DEF HoldersLock, RequestsAreSound, Sound, Holding
  <2>4. UsesAreCounted'
    BY <1>1 DEF UsesAreCounted
  <2>5. DevicesAreChosen'
    BY <1>1, <2>1 DEF DevicesAreChosen, Choosing, Holding
  <2>6. LoadedAgentsStay'
    BY <1>1, <2>1 DEF LoadedAgentsStay, Holding
  <2>7. DuplicatesNeedTwoTokens' /\ AgentOnOwnDevice'
    BY <1>1 DEF DuplicatesNeedTwoTokens, AgentOnOwnDevice
  <2> QED
    BY <2>2, <2>3, <2>4, <2>5, <2>6, <2>7
<1>2. ASSUME NEW s \in Slots, NEW h \in Hosts, NEW t \in Tokens, SendEnroll(s, h, t)
      PROVE  EnrollmentInv'
  <2>1. PICK m \in Machines : m = Name[h]
    BY NameAssumption
  <2>2. PICK x : x = [NoRequest EXCEPT !.phase = "sent", !.m = m, !.token = t]
    OBVIOUS
  <2>3. req' = [req EXCEPT ![s] = x] /\ UNCHANGED <<uses, tables, history, lock>>
    BY <1>2, <2>1, <2>2 DEF SendEnroll
  <2>4. x \in Request /\ x.phase \notin Holding /\ Sound(x)
    BY <2>2, SentType DEF Holding
  <2> QED
    BY <1>1, <2>3, <2>4
<1>3. ASSUME NEW s \in Slots, RefuseToken(s) \/ EnrollConflict(s) \/ Abort(s)
      PROVE  EnrollmentInv'
  <2>1. req' = [req EXCEPT ![s] = Refused] /\ UNCHANGED <<uses, tables, history>>
    BY <1>3 DEF RefuseToken, EnrollConflict, Abort
  <2>2. Refused \in Request /\ Refused.phase \notin Holding /\ Sound(Refused)
    BY NoRequestType, DecidedType DEF Holding, Sound
  <2>3. \A u \in Slots \ {s}, t \in Tokens : lock[t] = u => lock'[t] = u
    BY <1>3, UnlockedType DEF RefuseToken, EnrollConflict, Abort
  <2> QED
    BY <1>1, <2>1, <2>2, <2>3
<1>5. ASSUME NEW s \in Slots, SaveConfig(s) \/ SaveFails(s) \/ HearRefusal(s) \/ Drop(s)
      PROVE  EnrollmentInv'
  <2>1. req' = [req EXCEPT ![s] = NoRequest] /\ UNCHANGED <<uses, lock, tables, history>>
    BY <1>5 DEF SaveConfig, SaveFails, HearRefusal, Drop, Ends
  <2> QED
    BY <1>1, <2>1, NoRequestType DEF Holding, Sound
<1>8. ASSUME NEW s \in Slots, LockToken(s) PROVE EnrollmentInv'
  <2>1. /\ req[s].phase = "sent" /\ req[s].token \in Tokens /\ lock[req[s].token] = None
        /\ Valid(req[s].token) /\ lock' = [lock EXCEPT ![req[s].token] = s]
        /\ UNCHANGED <<uses, tables, history>>
    BY <1>8 DEF LockToken, RequestsAreSound, Sound
  <2>2. req' = [req EXCEPT ![s] = [req[s] EXCEPT !.phase = "locked"]]
    BY <1>8 DEF LockToken
  <2>3. /\ req'[s].phase = "locked" /\ req'[s].m = req[s].m
        /\ req'[s].token = req[s].token /\ \A u \in Slots \ {s} : req'[u] = req[u]
    BY <2>2, PhaseType
  <2>4. RequestsAreSound'
    BY <2>1, <2>3 DEF RequestsAreSound, Sound
  <2>5. HoldersLock'
    BY <2>1, <2>3, NullAssumption DEF HoldersLock, RequestsAreSound, Sound, Holding, Valid
  <2>6. UsesAreCounted'
    BY <2>1 DEF UsesAreCounted
  <2>7. DevicesAreChosen' /\ LoadedAgentsStay'
    BY <2>1, <2>3 DEF DevicesAreChosen, LoadedAgentsStay, Choosing
  <2>8. DuplicatesNeedTwoTokens' /\ AgentOnOwnDevice'
    BY <2>1 DEF DuplicatesNeedTwoTokens, AgentOnOwnDevice
  <2> QED
    BY <2>4, <2>5, <2>6, <2>7, <2>8
<1>9. ASSUME NEW s \in Slots, FindDevice(s) PROVE EnrollmentInv'
  <2> DEFINE found == DevicesOf(req[s].m)
  <2>1. /\ req[s].phase = "locked" /\ req[s].m \in Machines /\ req[s].token \in Tokens
        /\ UNCHANGED <<tokens, tables, history>>
    BY <1>9 DEF FindDevice, RequestsAreSound, Sound
  <2>2. PICK d \in IF found # {} THEN found ELSE NewDeviceIds :
          req' = [req EXCEPT ![s] = Found(req[s], d, found = {})]
    BY <1>9 DEF FindDevice
  <2>3. d \in DeviceIds
    BY <2>2 DEF DevicesOf, NewDeviceIds
  <2>4. /\ req'[s].phase = "found" /\ req'[s].m = req[s].m
        /\ req'[s].token = req[s].token /\ req'[s].dev = d
        /\ req'[s].isNew = (found = {}) /\ \A u \in Slots \ {s} : req'[u] = req[u]
    <3>1. PICK b \in BOOLEAN : b = (found = {})
      OBVIOUS
    <3>2. req' = [req EXCEPT ![s] = Found(req[s], d, b)]
      BY <2>2, <3>1
    <3>3. /\ req'[s] = Found(req[s], d, b) /\ req[s] \in Request
          /\ \A u \in Slots \ {s} : req'[u] = req[u]
      BY <3>2
    <3> HIDE DEF found
    <3>4. /\ req'[s].phase = "found" /\ req'[s].m = req[s].m
          /\ req'[s].token = req[s].token /\ req'[s].dev = d
      BY <2>3, <3>3, FoundType
    <3>5. req'[s].isNew = b
      BY <2>3, <3>3, FoundType
    <3> QED
      BY <3>1, <3>3, <3>4, <3>5
  <2>5. RequestsAreSound'
    BY <2>1, <2>3, <2>4 DEF RequestsAreSound, Sound
  <2>6. HoldersLock' /\ UsesAreCounted'
    BY <2>1, <2>4 DEF HoldersLock, UsesAreCounted, Holding
  <2>7. DevicesAreChosen'
    <3>1. ~req'[s].isNew => device[d] = req[s].m
      BY <2>2, <2>4 DEF DevicesOf
    <3>2. req'[s].isNew =>
            /\ device[d] = None
            /\ \A e \in DeviceIds : device[e] # req[s].m
            /\ \A u \in Slots : req[u].dev # d
      BY <2>2, <2>4 DEF DevicesOf, NewDeviceIds
    <3>3. \A u \in Slots \ {s} : req[u].phase \in Choosing /\ req[u].isNew => req[u].dev # d
      BY <2>1, <2>3, <2>4, <3>1, <3>2, NullAssumption DEF DevicesAreChosen
    <3> QED
      BY <2>1, <2>4, <3>1, <3>2, <3>3 DEF DevicesAreChosen
  <2>8. LoadedAgentsStay'
    BY <2>1, <2>4 DEF LoadedAgentsStay
  <2>9. DuplicatesNeedTwoTokens' /\ AgentOnOwnDevice'
    BY <2>1 DEF DuplicatesNeedTwoTokens, AgentOnOwnDevice
  <2> QED
    BY <2>5, <2>6, <2>7, <2>8, <2>9
<1>10. ASSUME NEW s \in Slots, FindAgent(s) PROVE EnrollmentInv'
  <2>1. /\ req[s].phase = "found" /\ req[s].m \in Machines /\ req[s].token \in Tokens
        /\ req[s].dev \in DeviceIds /\ UNCHANGED <<tokens, tables, history>>
    BY <1>10 DEF FindAgent, RequestsAreSound, Sound
  <2>2. PICK c \in Secrets : req' = [req EXCEPT ![s] = Readied(req[s], c)]
    BY <1>10 DEF FindAgent, NewSecrets
  <2>3. /\ req'[s].phase = "ready" /\ req'[s].m = req[s].m /\ req'[s].token = req[s].token
        /\ req'[s].dev = req[s].dev /\ req'[s].isNew = req[s].isNew
        /\ req'[s].secret = c /\ req'[s].loaded = agent[req[s].m].dev
        /\ \A u \in Slots \ {s} : req'[u] = req[u]
    <3>1. /\ req'[s] = Readied(req[s], c) /\ req[s] \in Request
          /\ \A u \in Slots \ {s} : req'[u] = req[u]
      BY <2>2
    <3> QED
      BY <2>1, <3>1, ReadyType
  <2>4. RequestsAreSound'
    BY <2>1, <2>3 DEF RequestsAreSound, Sound
  <2>5. HoldersLock' /\ UsesAreCounted'
    BY <2>1, <2>3 DEF HoldersLock, UsesAreCounted, Holding
  <2>6. DevicesAreChosen'
    BY <2>1, <2>3 DEF DevicesAreChosen, Choosing
  <2>7. LoadedAgentsStay'
    BY <2>1, <2>3, CredentialsType DEF LoadedAgentsStay
  <2>8. DuplicatesNeedTwoTokens' /\ AgentOnOwnDevice'
    BY <2>1 DEF DuplicatesNeedTwoTokens, AgentOnOwnDevice
  <2> QED
    BY <2>4, <2>5, <2>6, <2>7, <2>8
<1>11. ASSUME NEW s \in Slots, EnrollCommit(s) PROVE EnrollmentInv'
  <2> DEFINE r == req[s]
  <2>1. /\ r.phase = "ready" /\ r.m \in Machines /\ r.token \in Tokens
        /\ r.dev \in DeviceIds /\ r.secret \in Secrets
    BY <1>11 DEF EnrollCommit, RequestsAreSound, Sound
  <2>2. /\ device' = IF r.isNew THEN [device EXCEPT ![r.dev] = r.m] ELSE device
        /\ via' = IF r.isNew THEN [via EXCEPT ![r.dev] = r.token] ELSE via
        /\ agent' = [agent EXCEPT ![r.m] = [dev |-> Assigned(r), secret |-> r.secret]]
        /\ uses' = [uses EXCEPT ![r.token] = uses[r.token] + 1]
        /\ enrolled' = [enrolled EXCEPT ![r.token] = enrolled[r.token] + 1]
        /\ lock' = Unlocked(s)
    BY <1>11 DEF EnrollCommit
  <2>4. /\ req'[s].phase = "done" /\ req'[s].m = r.m
        /\ req'[s].dev = r.dev /\ req'[s].secret = r.secret
        /\ \A u \in Slots \ {s} : req'[u] = req[u]
    BY <1>11, DecidedType DEF EnrollCommit
  <2>5. lock[r.token] = s /\ uses[r.token] < MaxUses[r.token]
    BY <2>1 DEF HoldersLock, Holding
  <2>6. \A u \in Slots \ {s} : req[u].phase \in Holding => req[u].token # r.token
    BY <2>5 DEF HoldersLock
  <2>7. /\ device[r.dev] = IF r.isNew THEN None ELSE r.m
        /\ device'[r.dev] = r.m
        /\ \A e \in DeviceIds \ {r.dev} : device'[e] = device[e] /\ via'[e] = via[e]
        /\ r.isNew => via'[r.dev] = r.token
        /\ ~r.isNew => via' = via
    BY <2>1, <2>2 DEF DevicesAreChosen, Choosing, Request
  <2>8. Assigned(r) \in DeviceIds /\ device'[Assigned(r)] = r.m
    BY <2>1, <2>7, AssignedDevice, NullAssumption
  <2> HIDE DEF r
  <2>9. RequestsAreSound'
    BY <2>1, <2>4 DEF RequestsAreSound, Sound
  <2>10. HoldersLock'
    <3>1. \A u \in Slots \ {s} : req[u].phase \in Holding =>
            /\ req[u].token \in Tokens /\ lock'[req[u].token] = u
            /\ uses'[req[u].token] = uses[req[u].token]
      BY <2>2, <2>6, UnlockedType DEF HoldersLock, RequestsAreSound, Sound, Holding
    <3> QED
      BY <2>4, <3>1 DEF HoldersLock, Holding
  <2>11. UsesAreCounted'
    <3>1. /\ uses[r.token] \in Nat /\ MaxUses[r.token] \in Nat
          /\ enrolled[r.token] = uses[r.token]
      BY <2>1, MaxUsesAssumption DEF UsesAreCounted
    <3>2. \A t \in Tokens \ {r.token} : uses'[t] = uses[t] /\ enrolled'[t] = enrolled[t]
      BY <2>2
    <3>3. uses'[r.token] = uses[r.token] + 1 /\ enrolled'[r.token] = uses[r.token] + 1
      BY <2>1, <2>2, <3>1
    <3>4. uses'[r.token] <= MaxUses[r.token]
      BY <2>5, <3>1, <3>3
    <3> QED
      BY <3>2, <3>3, <3>4 DEF UsesAreCounted
  <2>12. DevicesAreChosen'
    <3> SUFFICES ASSUME NEW u \in Slots, req'[u].phase \in Choosing
                 PROVE  /\ ~req[u].isNew => device'[req[u].dev] = req[u].m
                        /\ req[u].isNew =>
                              /\ device'[req[u].dev] = None
                              /\ \A e \in DeviceIds :
                                    device'[e] = req[u].m => via'[e] # req[u].token
                              /\ \A t \in Slots \ {u} : req'[t].phase \in Choosing =>
                                    req'[t].dev # req[u].dev
      BY <2>4 DEF DevicesAreChosen, Choosing
    <3>1. /\ u # s /\ req[u].phase \in Choosing /\ req[u].dev \in DeviceIds
          /\ req[u].token # r.token /\ req[u].m \in Machines
      BY <2>4, <2>6 DEF Choosing, Holding, RequestsAreSound, Sound
    <3>2. CASE ~req[u].isNew
      <4>1. device[req[u].dev] = req[u].m
        BY <3>1, <3>2 DEF DevicesAreChosen
      <4> QED
        BY <2>7, <3>1, <3>2, <4>1, NullAssumption
    <3>3. CASE req[u].isNew
      <4>1. device[req[u].dev] = None /\ req[u].dev # r.dev
        BY <2>1, <3>1, <3>3 DEF DevicesAreChosen, Choosing, r
      <4>2. \A e \in DeviceIds : device'[e] = req[u].m => via'[e] # req[u].token
        BY <2>7, <3>1, <3>3 DEF DevicesAreChosen
      <4>3. \A t \in Slots \ {u} : req'[t].phase \in Choosing => req'[t].dev # req[u].dev
        BY <2>4, <3>1, <3>3 DEF DevicesAreChosen, Choosing
      <4> QED
        BY <2>7, <3>1, <3>3, <4>1, <4>2, <4>3
    <3> QED
      BY <3>2, <3>3
  <2>13. LoadedAgentsStay'
    BY <2>2, <2>4, <2>8, <2>1, CredentialsType DEF LoadedAgentsStay, RequestsAreSound, Sound
  <2>14. DuplicatesNeedTwoTokens'
    <3>1. CASE r.isNew
      <4>1. \A e \in DeviceIds : device[e] = r.m => via[e] # r.token
        BY <2>1, <3>1 DEF DevicesAreChosen, Choosing, r
      <4> QED
        BY <2>7, <3>1, <4>1 DEF DuplicatesNeedTwoTokens
    <3>2. CASE ~r.isNew
      BY <2>2, <3>2 DEF DuplicatesNeedTwoTokens
    <3> QED
      BY <3>1, <3>2
  <2>15. AgentOnOwnDevice'
    <3>1. agent'[r.m].dev = Assigned(r)
      BY <2>1, <2>2
    <3>2. ASSUME NEW m \in Machines \ {r.m}, agent'[m] # NoCredentials
          PROVE  device'[agent'[m].dev] = m
      <4>1. agent'[m] = agent[m] /\ agent[m].dev \in DeviceIds /\ device[agent[m].dev] = m
        BY <2>2, <3>2, CredentialsType DEF AgentOnOwnDevice
      <4> QED
        BY <2>7, <3>2, <4>1, NullAssumption
    <3> QED
      BY <2>8, <3>1, <3>2 DEF AgentOnOwnDevice
  <2> QED
    BY <2>9, <2>10, <2>11, <2>12, <2>13, <2>14, <2>15
<1>12. CASE \/ \E s \in Slots : GiveUp(s)
            \/ \E h \in Hosts : Install(h)
            \/ \E t \in Tokens : Expire(t)
            \/ UNCHANGED vars
  <2>1. UNCHANGED <<uses, lock, tables, req, history>>
    BY <1>12 DEF GiveUp, Install, Expire, vars
  <2> QED
    BY <2>1 DEF RequestsAreSound, HoldersLock, UsesAreCounted, DevicesAreChosen,
                LoadedAgentsStay, DuplicatesNeedTwoTokens, AgentOnOwnDevice
<1> QED
  BY <1>2, <1>3, <1>5, <1>8, <1>9, <1>10, <1>11, <1>12 DEF Next, Works

-----------------------------------------------------------------------------
(* The inductive invariant holds throughout.                               *)
THEOREM EnrollmentInvHolds == Spec => [](TypeOK /\ EnrollmentInv)
<1>1. Init => TypeOK /\ EnrollmentInv
  <2> SUFFICES ASSUME Init PROVE TypeOK /\ EnrollmentInv
    OBVIOUS
  <2>1. TypeOK
    BY NoRequestType, CredentialsType DEF Init, TypeOK
  <2>2. \A s \in Slots : req[s].phase = "idle"
    BY NoRequestType DEF Init
  <2>3. UsesAreCounted
    BY MaxUsesAssumption DEF Init, UsesAreCounted
  <2>4. DuplicatesNeedTwoTokens /\ AgentOnOwnDevice
    BY DEF Init, DuplicatesNeedTwoTokens, AgentOnOwnDevice
  <2> QED
    BY <2>1, <2>2, <2>3, <2>4 DEF EnrollmentInv, RequestsAreSound, Sound, HoldersLock,
       Holding, DevicesAreChosen, Choosing, LoadedAgentsStay
<1>2. (TypeOK /\ EnrollmentInv) /\ [Next]_vars => (TypeOK /\ EnrollmentInv)'
  BY TypeStep, SafetyStep
<1> QED
  BY <1>1, <1>2, PTL DEF Spec

(* The enrollment tables, the requests and the config files keep their types. *)
THEOREM EnrollmentTypesHold == Spec => []TypeOK
BY EnrollmentInvHolds, PTL

(***************************************************************************)
(* A token's max_uses bounds the enrolments committed with it, however     *)
(* many requests present it at the same time or die on the way.            *)
(***************************************************************************)
THEOREM UseLimitsHold == Spec => []EnrolmentsWithinLimit
<1>1. EnrollmentInv => EnrolmentsWithinLimit
  BY DEF EnrollmentInv, UsesAreCounted, EnrolmentsWithinLimit
<1> QED
  BY EnrollmentInvHolds, <1>1, PTL

(***************************************************************************)
(* Enrolments with one token never create two devices of one machine.      *)
(***************************************************************************)
THEOREM NoDuplicatesPerToken == Spec => []DuplicatesNeedTwoTokens
<1>1. EnrollmentInv => DuplicatesNeedTwoTokens
  BY DEF EnrollmentInv
<1> QED
  BY EnrollmentInvHolds, <1>1, PTL

(***************************************************************************)
(* An agents row never points to a device of another machine or to one     *)
(* that was rolled back.                                                   *)
(***************************************************************************)
THEOREM AgentsKeepTheirDevices == Spec => []AgentOnOwnDevice
<1>1. EnrollmentInv => AgentOnOwnDevice
  BY DEF EnrollmentInv
<1> QED
  BY EnrollmentInvHolds, <1>1, PTL

(***************************************************************************)
(* A request that has met no other of its identifier is the only one of it *)
(* on the way.  So nobody else touches the agents row, which is what it    *)
(* has loaded and, once it is committed, what it answers.                  *)
(***************************************************************************)
Alone ==
    \A s \in Slots \ met : req[s].m # None => \A u \in Slots \ {s} : req[u].m # req[s].m

AnswersAreStored ==
    \A s \in Slots \ met :
        /\ req[s].phase = "ready" => req[s].loaded = agent[req[s].m].dev
        /\ req[s].phase = "done" =>
              agent[req[s].m] = [dev |-> req[s].dev, secret |-> req[s].secret]

(* An enroll command waits for a request with its own identifier.          *)
AwaitsOwn ==
    \A s \in Slots : awaits[s] # None /\ req[s].m # None => req[s].m = Name[awaits[s]]

(* As long as an answer is on the way, no config file of that identifier   *)
(* is current.                                                             *)
AnswersAreNews ==
    \A s \in Slots : req[s].phase = "done" => \A h \in current : Name[h] # req[s].m

FilesInv == Alone /\ AnswersAreStored /\ AwaitsOwn /\ AnswersAreNews /\ FileMatchesServer

(* Every step keeps to that.                                               *)
LEMMA FilesStep == TypeOK /\ EnrollmentInv /\ FilesInv /\ [Next]_vars => FilesInv'
<1> SUFFICES ASSUME TypeOK, EnrollmentInv, FilesInv, [Next]_vars PROVE FilesInv'
  OBVIOUS
<1> USE DEF TypeOK, tokens, tables, client, history
<1>1. ASSUME NEW s \in Slots, UNCHANGED <<client, agent>>,
             \A u \in Slots \ {s} : req'[u] = req[u],
             req'[s].m \in {req[s].m, None}, req'[s].phase # "done",
             req'[s].phase = "ready" => req'[s].loaded = agent[req'[s].m].dev
      PROVE  FilesInv'
  <2>1. Alone'
    BY <1>1 DEF FilesInv, Alone
  <2>2. AnswersAreStored'
    BY <1>1 DEF FilesInv, AnswersAreStored
  <2>3. AwaitsOwn' /\ AnswersAreNews' /\ FileMatchesServer'
    BY <1>1 DEF FilesInv, AwaitsOwn, AnswersAreNews, FileMatchesServer
  <2> QED
    BY <2>1, <2>2, <2>3 DEF FilesInv
<1>2. ASSUME NEW s \in Slots, LockToken(s) PROVE FilesInv'
  <2>1. req' = [req EXCEPT ![s] = [req[s] EXCEPT !.phase = "locked"]]
    BY <1>2 DEF LockToken
  <2>2. /\ req'[s].phase = "locked" /\ req'[s].m = req[s].m
        /\ \A u \in Slots \ {s} : req'[u] = req[u]
    BY <2>1, PhaseType
  <2> QED
    BY <1>1, <1>2, <2>2 DEF LockToken
<1>3. ASSUME NEW s \in Slots, RefuseToken(s) \/ EnrollConflict(s) \/ Abort(s)
      PROVE  FilesInv'
  <2>1. req' = [req EXCEPT ![s] = Refused] /\ UNCHANGED <<client, agent>>
    BY <1>3 DEF RefuseToken, EnrollConflict, Abort
  <2>2. /\ req'[s].phase = "refused" /\ req'[s].m = None
        /\ \A u \in Slots \ {s} : req'[u] = req[u]
    BY <2>1, DecidedType
  <2> QED
    BY <1>1, <2>1, <2>2
<1>4. ASSUME NEW s \in Slots, FindDevice(s) PROVE FilesInv'
  <2> DEFINE found == DevicesOf(req[s].m)
  <2>1. PICK b \in BOOLEAN : b = (found = {})
    OBVIOUS
  <2>2. PICK d \in IF found # {} THEN found ELSE NewDeviceIds :
          req' = [req EXCEPT ![s] = Found(req[s], d, found = {})]
    BY <1>4 DEF FindDevice
  <2>3. d \in DeviceIds
    BY <2>2 DEF DevicesOf, NewDeviceIds
  <2>4. req' = [req EXCEPT ![s] = Found(req[s], d, b)]
    BY <2>1, <2>2
  <2> HIDE DEF found
  <2>5. /\ req'[s].phase = "found" /\ req'[s].m = req[s].m
        /\ \A u \in Slots \ {s} : req'[u] = req[u]
    BY <2>3, <2>4, FoundType
  <2> QED
    BY <1>1, <1>4, <2>5 DEF FindDevice
<1>5. ASSUME NEW s \in Slots, FindAgent(s) PROVE FilesInv'
  <2>1. req[s].m \in Machines /\ UNCHANGED <<client, agent>>
    BY <1>5 DEF FindAgent, EnrollmentInv, RequestsAreSound, Sound
  <2>2. PICK c \in Secrets : req' = [req EXCEPT ![s] = Readied(req[s], c)]
    BY <1>5 DEF FindAgent, NewSecrets
  <2>3. /\ req'[s].phase = "ready" /\ req'[s].m = req[s].m
        /\ req'[s].loaded = agent[req[s].m].dev
        /\ \A u \in Slots \ {s} : req'[u] = req[u]
    BY <2>1, <2>2, ReadyType
  <2> QED
    BY <1>1, <2>1, <2>3
<1>6. ASSUME NEW s \in Slots, EnrollCommit(s) PROVE FilesInv'
  <2>1. /\ req[s].phase = "ready" /\ req[s].m \in Machines /\ req[s].m # None
        /\ UNCHANGED <<awaits, file, met>>
        /\ current' = {h \in current : Name[h] # req[s].m}
        /\ agent' = [agent EXCEPT ![req[s].m] =
                        [dev |-> Assigned(req[s]), secret |-> req[s].secret]]
    BY <1>6, NullAssumption DEF EnrollCommit, EnrollmentInv, RequestsAreSound, Sound
  <2>2. /\ req'[s].phase = "done" /\ req'[s].m = req[s].m
        /\ req'[s].dev = req[s].dev /\ req'[s].secret = req[s].secret
        /\ \A u \in Slots \ {s} : req'[u] = req[u]
    BY <1>6, DecidedType DEF EnrollCommit
  <2>3. Alone' /\ AwaitsOwn'
    BY <2>1, <2>2 DEF FilesInv, Alone, AwaitsOwn
  <2>4. AnswersAreStored'
    <3>1. ASSUME NEW u \in Slots \ met, u # s, req[u].phase \in {"ready", "done"}
          PROVE  agent'[req[u].m] = agent[req[u].m]
      <4>1. req[u].m \in Machines /\ req[u].m # None
        BY <3>1, NullAssumption DEF EnrollmentInv, RequestsAreSound, Sound
      <4>2. req[u].m # req[s].m
        BY <3>1, <4>1 DEF FilesInv, Alone
      <4> QED
        BY <2>1, <4>1, <4>2
    <3>2. ASSUME s \notin met
          PROVE  agent'[req[s].m] = [dev |-> req[s].dev, secret |-> req[s].secret]
      <4>1. Assigned(req[s]) = req[s].dev
        BY <2>1, <3>2 DEF FilesInv, AnswersAreStored, Assigned
      <4> QED
        BY <2>1, <4>1
    <3> QED
      BY <2>1, <2>2, <3>1, <3>2 DEF FilesInv, AnswersAreStored
  <2>5. AnswersAreNews'
    BY <2>1, <2>2 DEF FilesInv, AnswersAreNews
  <2>6. FileMatchesServer'
    BY <2>1, NameAssumption DEF FilesInv, FileMatchesServer
  <2> QED
    BY <2>3, <2>4, <2>5, <2>6 DEF FilesInv
<1>7. ASSUME NEW s \in Slots, NEW h \in Hosts, NEW t \in Tokens, SendEnroll(s, h, t)
      PROVE  FilesInv'
  <2>1. PICK m \in Machines : m = Name[h]
    BY NameAssumption
  <2>2. PICK x : x = [NoRequest EXCEPT !.phase = "sent", !.m = m, !.token = t]
    OBVIOUS
  <2>3. x.phase = "sent" /\ x.m = m
    BY <2>2 DEF NoRequest
  <2>4. /\ req'[s] = x /\ \A u \in Slots \ {s} : req'[u] = req[u]
        /\ awaits'[s] = h /\ \A u \in Slots \ {s} : awaits'[u] = awaits[u]
        /\ UNCHANGED <<agent, file, current>>
    BY <1>7, <2>1, <2>2 DEF SendEnroll
  <2>5. met \subseteq met' /\ (Rivals(s, m) # {} => s \in met' /\ Rivals(s, m) \subseteq met')
    BY <1>7, <2>1 DEF SendEnroll
  <2>6. Alone'
    <3>1. \A u \in Slots \ {s} : req[u].m = m => u \in met' /\ s \in met'
      BY <2>5 DEF Rivals
    <3> QED
      BY <2>3, <2>4, <2>5, <3>1 DEF FilesInv, Alone
  <2>7. AnswersAreStored'
    BY <2>3, <2>4, <2>5 DEF FilesInv, AnswersAreStored
  <2>8. AwaitsOwn' /\ AnswersAreNews' /\ FileMatchesServer'
    BY <2>1, <2>3, <2>4 DEF FilesInv, AwaitsOwn, AnswersAreNews, FileMatchesServer
  <2> QED
    BY <2>6, <2>7, <2>8 DEF FilesInv
<1>8. ASSUME NEW s \in Slots, Ends(s), UNCHANGED agent
      PROVE  /\ req'[s].m = None /\ req'[s].phase = "idle"
             /\ \A u \in Slots \ {s} : req'[u] = req[u] /\ awaits'[u] = awaits[u]
             /\ Alone' /\ AnswersAreStored' /\ AwaitsOwn'
  <2>1. /\ req'[s].m = None /\ req'[s].phase = "idle" /\ met' = met \ {s}
        /\ \A u \in Slots \ {s} : req'[u] = req[u] /\ awaits'[u] = awaits[u]
    BY <1>8 DEF Ends, NoRequest
  <2>2. Alone'
    BY <2>1 DEF FilesInv, Alone
  <2>3. AnswersAreStored'
    BY <1>8, <2>1 DEF FilesInv, AnswersAreStored
  <2>4. AwaitsOwn'
    BY <2>1 DEF FilesInv, AwaitsOwn
  <2> QED
    BY <2>1, <2>2, <2>3, <2>4
<1>9. ASSUME NEW s \in Slots, SaveConfig(s) PROVE FilesInv'
  <2>1. PICK h \in Hosts : h = awaits[s]
    BY <1>9 DEF SaveConfig, Awaits
  <2>2. /\ req[s].phase = "done" /\ req[s].m \in Machines /\ req[s].m = Name[h]
        /\ Ends(s) /\ UNCHANGED agent
        /\ file' = [file EXCEPT ![h] = [dev |-> req[s].dev, secret |-> req[s].secret]]
        /\ current' = IF s \in met THEN current ELSE current \cup {h}
    BY <1>9, <2>1, NullAssumption
    DEF SaveConfig, Awaits, EnrollmentInv, RequestsAreSound, Sound, FilesInv, AwaitsOwn
  <2>3. AnswersAreNews'
    <3>1. ASSUME NEW u \in Slots \ {s}, req[u].phase = "done", s \notin met
          PROVE  req[u].m # Name[h]
      BY <2>2, <3>1, NullAssumption DEF FilesInv, Alone
    <3> QED
      BY <1>8, <2>2, <3>1 DEF FilesInv, AnswersAreNews
  <2>4. FileMatchesServer'
    <3>1. CASE s \in met
      <4>1. current' = current /\ h \notin current
        BY <2>2, <3>1 DEF FilesInv, AnswersAreNews
      <4> QED
        BY <2>2, <4>1 DEF FilesInv, FileMatchesServer
    <3>2. CASE s \notin met
      <4>1. file'[h] = agent[Name[h]]
        BY <2>2, <3>2 DEF FilesInv, AnswersAreStored
      <4> QED
        BY <2>2, <3>2, <4>1 DEF FilesInv, FileMatchesServer
    <3> QED
      BY <3>1, <3>2
  <2> QED
    BY <1>8, <2>2, <2>3, <2>4 DEF FilesInv
<1>10. ASSUME NEW s \in Slots, SaveFails(s) \/ HearRefusal(s) \/ Drop(s) PROVE FilesInv'
  <2>1. Ends(s) /\ UNCHANGED <<agent, current>>
    BY <1>10 DEF SaveFails, HearRefusal, Drop
  <2>2. AnswersAreNews'
    BY <1>8, <2>1 DEF FilesInv, AnswersAreNews
  <2>3. ASSUME NEW h \in current PROVE file'[h] = file[h]
    <3>1. CASE SaveFails(s)
      <4>1. PICK g \in Hosts : g = awaits[s]
        BY <3>1 DEF SaveFails, Awaits
      <4>2. req[s].phase = "done" /\ req[s].m = Name[g]
        BY <3>1, <4>1, NullAssumption
        DEF SaveFails, Awaits, EnrollmentInv, RequestsAreSound, Sound, FilesInv, AwaitsOwn
      <4>3. h # g
        BY <2>3, <4>2 DEF FilesInv, AnswersAreNews
      <4> QED
        BY <3>1, <4>1, <4>3 DEF SaveFails
    <3>2. CASE HearRefusal(s) \/ Drop(s)
      BY <3>2 DEF HearRefusal, Drop
    <3> QED
      BY <1>10, <3>1, <3>2
  <2>4. FileMatchesServer'
    BY <2>1, <2>3 DEF FilesInv, FileMatchesServer
  <2> QED
    BY <1>8, <2>1, <2>2, <2>4 DEF FilesInv
<1>11. ASSUME NEW s \in Slots, GiveUp(s) PROVE FilesInv'
  <2>1. /\ UNCHANGED <<req, agent, file, met, current>>
        /\ awaits'[s] = None /\ \A u \in Slots \ {s} : awaits'[u] = awaits[u]
    BY <1>11 DEF GiveUp
  <2> QED
    BY <2>1 DEF FilesInv, Alone, AnswersAreStored, AwaitsOwn, AnswersAreNews, FileMatchesServer
<1>12. ASSUME NEW h \in Hosts, Install(h) PROVE FilesInv'
  <2>1. /\ UNCHANGED <<req, agent, met, awaits>> /\ current' = current \ {h}
        /\ \A g \in Hosts \ {h} : file'[g] = file[g]
    BY <1>12 DEF Install
  <2> QED
    BY <2>1 DEF FilesInv, Alone, AnswersAreStored, AwaitsOwn, AnswersAreNews, FileMatchesServer
<1>13. CASE (\E t \in Tokens : Expire(t)) \/ UNCHANGED vars
  <2>1. UNCHANGED <<req, agent, client>>
    BY <1>13 DEF Expire, vars
  <2> QED
    BY <2>1 DEF FilesInv, Alone, AnswersAreStored, AwaitsOwn, AnswersAreNews, FileMatchesServer
<1> QED
  BY <1>2, <1>3, <1>4, <1>5, <1>6, <1>7, <1>9, <1>10, <1>11, <1>12, <1>13 DEF Next, Works

(***************************************************************************)
(* Credentials saved from an enrolment that met no other of its identifier *)
(* are the server's until that identifier is enrolled again, however many  *)
(* config files share it and whatever other requests are refused, clash,   *)
(* die or lose their clients (enroll_agent and the enroll command).        *)
(***************************************************************************)
THEOREM FilesMatch == Spec => []FileMatchesServer
<1>1. Init => FilesInv
  BY NoRequestType
  DEF Init, FilesInv, Alone, AnswersAreStored, AwaitsOwn, AnswersAreNews, FileMatchesServer,
      NoRequest
<1>2. FilesInv => FileMatchesServer
  BY DEF FilesInv
<1>3. TypeOK /\ EnrollmentInv /\ FilesInv /\ [Next]_vars => FilesInv'
  BY FilesStep
<1> QED
  BY <1>1, <1>2, <1>3, EnrollmentInvHolds, PTL DEF Spec

-----------------------------------------------------------------------------
(***************************************************************************)
(* A secret that a request is about to store is nobody's yet, and no other *)
(* request is about to store it.                                           *)
(***************************************************************************)
SecretsAreNew ==
    \A s \in Slots : req[s].phase = "ready" =>
        /\ \A m \in Machines : agent[m].secret # req[s].secret
        /\ \A t \in Slots \ {s} : req[t].phase = "ready" => req[t].secret # req[s].secret

(* Only choosing a secret and committing it matter to that.                *)
LEMMA SecretsStay ==
  ASSUME SecretsAreNew, agent' = agent,
         \A s \in Slots : req'[s].phase = "ready" =>
             req[s].phase = "ready" /\ req'[s].secret = req[s].secret
  PROVE  SecretsAreNew'
BY DEF SecretsAreNew

LEMMA SecretsStep == TypeOK /\ EnrollmentInv /\ SecretsAreNew /\ [Next]_vars => SecretsAreNew'
<1> SUFFICES ASSUME TypeOK, EnrollmentInv, SecretsAreNew, [Next]_vars PROVE SecretsAreNew'
  OBVIOUS
<1> USE DEF TypeOK, tokens, tables, client, history
<1>1. ASSUME NEW s \in Slots, NEW x \in Request, x.phase # "ready", agent' = agent,
             req' = [req EXCEPT ![s] = x]
      PROVE  SecretsAreNew'
  BY <1>1, SecretsStay
<1>2. ASSUME NEW s \in Slots, NEW h \in Hosts, NEW t \in Tokens, SendEnroll(s, h, t)
      PROVE  SecretsAreNew'
  <2>1. PICK m \in Machines : m = Name[h]
    BY NameAssumption
  <2>2. PICK x : x = [NoRequest EXCEPT !.phase = "sent", !.m = m, !.token = t]
    OBVIOUS
  <2> QED
    BY <1>1, <1>2, <2>1, <2>2, SentType DEF SendEnroll
<1>3. ASSUME NEW s \in Slots,
             LockToken(s) \/ RefuseToken(s) \/ EnrollConflict(s) \/ Abort(s)
      PROVE  SecretsAreNew'
  <2>1. PICK x : x = [req[s] EXCEPT !.phase = "locked"]
    OBVIOUS
  <2>2. CASE LockToken(s)
    BY <1>1, <2>1, <2>2, PhaseType DEF LockToken
  <2>3. CASE RefuseToken(s) \/ EnrollConflict(s) \/ Abort(s)
    BY <1>1, <2>3, NoRequestType, DecidedType DEF RefuseToken, EnrollConflict, Abort
  <2> QED
    BY <1>3, <2>2, <2>3
<1>4. ASSUME NEW s \in Slots, FindDevice(s) PROVE SecretsAreNew'
  <2>1. PICK d \in DeviceIds, b \in BOOLEAN : req' = [req EXCEPT ![s] = Found(req[s], d, b)]
    BY <1>4 DEF FindDevice, DevicesOf, NewDeviceIds
  <2> QED
    BY <1>1, <1>4, <2>1, FoundType DEF FindDevice
<1>5. ASSUME NEW s \in Slots, FindAgent(s) PROVE SecretsAreNew'
  <2>1. PICK x \in NewSecrets : req' = [req EXCEPT ![s] = Readied(req[s], x)]
    BY <1>5 DEF FindAgent
  <2>2. agent' = agent /\ req[s].m \in Machines
    BY <1>5 DEF FindAgent, EnrollmentInv, RequestsAreSound, Sound
  <2>3. Readied(req[s], x).secret = x
    BY <2>2, ReadyType DEF NewSecrets
  <2>4. req'[s].secret = x /\ \A t \in Slots \ {s} : req'[t] = req[t]
    BY <2>1, <2>3
  <2> QED
    BY <2>2, <2>4 DEF SecretsAreNew, NewSecrets
<1>6. ASSUME NEW s \in Slots, EnrollCommit(s) PROVE SecretsAreNew'
  <2>1. /\ \A t \in Slots \ {s} : req'[t] = req[t]
        /\ req'[s].phase = "done" /\ req[s].phase = "ready"
    BY <1>6, DecidedType DEF EnrollCommit
  <2>2. \A m \in Machines : agent'[m].secret \in {agent[m].secret, req[s].secret}
    BY <1>6 DEF EnrollCommit
  <2> QED
    BY <2>1, <2>2 DEF SecretsAreNew
<1>7. ASSUME NEW s \in Slots, SaveConfig(s) \/ SaveFails(s) \/ HearRefusal(s) \/ Drop(s)
      PROVE  SecretsAreNew'
  <2>1. agent' = agent /\ req' = [req EXCEPT ![s] = NoRequest]
    BY <1>7 DEF SaveConfig, SaveFails, HearRefusal, Drop, Ends
  <2> QED
    BY <2>1, SecretsStay, NoRequestType
<1>8. ASSUME NEW h \in Hosts, Install(h) PROVE SecretsAreNew'
  BY <1>8 DEF Install, SecretsAreNew
<1>9. CASE UNCHANGED vars \/ (\E t \in Tokens : Expire(t)) \/ \E s \in Slots : GiveUp(s)
  BY <1>9 DEF vars, Expire, GiveUp, SecretsAreNew
<1> QED
  BY <1>2, <1>3, <1>4, <1>5, <1>6, <1>7, <1>8, <1>9 DEF Next, Works

(***************************************************************************)
(* A commit is a whole enrolment: the use it spends is still there, the    *)
(* device it adds nobody has added, and the device its agents row ends up  *)
(* with, be it the request's or a rival's, is one of the machine.          *)
(***************************************************************************)
LEMMA CommitIsEnrolment ==
  ASSUME TypeOK, EnrollmentInv, SecretsAreNew, NEW s \in Slots, EnrollCommit(s),
         NEW m, NEW t, m = req[s].m, t = req[s].token
  PROVE  m \in Machines /\ t \in Tokens /\ AtOnce!Enroll(m, t)
<1> DEFINE r == req[s]
<1>1. /\ r.phase = "ready" /\ m \in Machines /\ t \in Tokens
      /\ r.dev \in DeviceIds /\ r.secret \in Secrets
  BY DEF EnrollCommit, EnrollmentInv, RequestsAreSound, Sound
<1>2. AtOnce!SpendUse(t)
  BY <1>1 DEF AtOnce!SpendUse, EnrollCommit, EnrollmentInv, HoldersLock, Holding
<1>3. /\ ~r.isNew => device[r.dev] = m /\ UNCHANGED <<device, via>>
      /\ r.isNew => /\ device[r.dev] = None
                    /\ \A e \in DeviceIds : device[e] = m => via[e] # t
                    /\ device' = [device EXCEPT ![r.dev] = m]
                    /\ via' = [via EXCEPT ![r.dev] = t]
  BY <1>1 DEF EnrollCommit, EnrollmentInv, DevicesAreChosen, Choosing
<1>4. AtOnce!KnownDevice(m) \/ AtOnce!NewDevice(m, t)
  <2>1. CASE ~r.isNew
    BY <1>1, <1>3, <2>1 DEF AtOnce!KnownDevice, AtOnce!DevicesOf
  <2>2. CASE r.isNew
    BY <1>1, <1>3, <2>2 DEF AtOnce!NewDevice, AtOnce!DevicesOf
  <2> QED
    BY <2>1, <2>2
<1>5. Assigned(r) \in DeviceIds /\ device'[Assigned(r)] = m
  <2>1. \A d \in DeviceIds : d = r.dev \/ device[d] = m => device'[d] = m
    BY <1>1, <1>3 DEF TypeOK
  <2> QED
    BY <1>1, <2>1, AssignedDevice
<1>6. AtOnce!Register(m)
  <2>1. agent' = [agent EXCEPT ![m] = [dev |-> Assigned(r), secret |-> r.secret]]
    BY DEF EnrollCommit
  <2>2. \A n \in Machines : agent[n].secret # r.secret
    BY <1>1 DEF SecretsAreNew
  <2>3. PICK d : d = Assigned(r) /\ d \in AtOnce!DevicesOf(m)'
    BY <1>5 DEF AtOnce!DevicesOf
  <2>4. PICK x : x = r.secret /\ x \in Secrets
    BY <1>1
  <2> QED
    BY <2>1, <2>2, <2>3, <2>4 DEF AtOnce!Register
<1> QED
  BY <1>1, <1>2, <1>4, <1>6 DEF AtOnce!Enroll

(***************************************************************************)
(* Refinement: requests that overlap, wait, clash and die leave the tables *)
(* as if whole enrolments had happened one after the other.                *)
(***************************************************************************)
THEOREM EnrollmentIsAtOnce == Spec => EnrollsAtOnce
<1>1. Init => AtOnce!Init /\ SecretsAreNew
  BY DEF Init, AtOnce!Init, NoCredentials, NoRequest, SecretsAreNew
<1>2. TypeOK /\ EnrollmentInv /\ SecretsAreNew /\ [Next]_vars => SecretsAreNew'
  BY SecretsStep
<1>3. TypeOK /\ EnrollmentInv /\ SecretsAreNew /\ [Next]_vars => [AtOnce!Next]_(AtOnce!rows)
  <2> SUFFICES ASSUME TypeOK, EnrollmentInv, SecretsAreNew, [Next]_vars
               PROVE  AtOnce!Next \/ UNCHANGED <<uses, device, via, agent>>
    BY DEF AtOnce!rows
  <2>1. ASSUME NEW s \in Slots, EnrollCommit(s) PROVE AtOnce!Next
    <3>1. PICK m, t : m = req[s].m /\ t = req[s].token
      OBVIOUS
    <3> QED
      BY <2>1, <3>1, CommitIsEnrolment DEF AtOnce!Next
  <2>2. CASE UNCHANGED vars
    BY <2>2 DEF vars
  <2>3. ASSUME NEW s \in Slots, NEW h \in Hosts, NEW t \in Tokens, SendEnroll(s, h, t)
        PROVE  UNCHANGED <<uses, device, via, agent>>
    BY <2>3 DEF SendEnroll, tokens, tables, history
  <2>4. ASSUME NEW s \in Slots,
               \/ LockToken(s) \/ RefuseToken(s) \/ FindDevice(s) \/ FindAgent(s)
               \/ EnrollConflict(s) \/ Abort(s) \/ Drop(s)
        PROVE  UNCHANGED <<uses, device, via, agent>>
    BY <2>4 DEF LockToken, RefuseToken, FindDevice, FindAgent, EnrollConflict, Abort, Drop,
       tokens, tables, history
  <2>5. ASSUME NEW s \in Slots, SaveConfig(s) \/ SaveFails(s) \/ HearRefusal(s) \/ GiveUp(s)
        PROVE  UNCHANGED <<uses, device, via, agent>>
    BY <2>5 DEF SaveConfig, SaveFails, HearRefusal, GiveUp, tokens, tables, history
  <2>7. ASSUME NEW h \in Hosts, Install(h) PROVE UNCHANGED <<uses, device, via, agent>>
    BY <2>7 DEF Install, tokens, tables, history
  <2>6. ASSUME NEW t \in Tokens, Expire(t) PROVE UNCHANGED <<uses, device, via, agent>>
    BY <2>6 DEF Expire, tables, history
  <2> QED
    BY <2>1, <2>2, <2>3, <2>4, <2>5, <2>6, <2>7 DEF Next, Works
<1> QED
  BY <1>1, <1>2, <1>3, EnrollmentInvHolds, PTL DEF Spec, EnrollsAtOnce, AtOnce!Spec
=============================================================================
