---------------------------- MODULE AccountsProofs ----------------------------
(***************************************************************************)
(* Proofs about Accounts, for any number of users, organizations, tokens   *)
(* and requests.  AccountsInv has three parts that are preserved           *)
(* independently: the shape of rows and requests, what in-flight requests  *)
(* know of sessions, and what they know of setup.                          *)
(***************************************************************************)
EXTENDS Accounts, TLAPS

-----------------------------------------------------------------------------
(* What a request of each kind carries.                                    *)
Shape(r) ==
    /\ r.kind \in {"login"} \cup Edits => r.user \in Users
    /\ r.kind \in {"create"} \cup Edits => r.org \in Orgs
    /\ r.kind \in {"create", "patch"} => r.role \in Roles
    /\ r.kind \in {"refresh", "logout"} <=> r.token # None

Shapes == \A s \in Slots : Shape(req[s])

(* A loaded target is still of the caller's organization.                  *)
LoadedOwn ==
    \A s \in Slots : At(s, Edits, "ready") => user[req[s].user].org = req[s].org

(* Issued tokens are those with a session, which began with an issued one. *)
Issues ==
    /\ \A t \in Tokens : session[t] = None <=> token[t] = NoToken
    /\ \A t \in Tokens : session[t] # None => session[session[t]] # None
    /\ \A s \in Slots : req[s].token # None => session[req[s].token] # None
    /\ \A x \in ended : session[x] # None

(* Requests of a session that was never raced come one at a time ...       *)
Alone ==
    \A s, v \in Slots : \A t \in Tokens :
        InSession(s, t) /\ InSession(v, t) /\ session[t] \notin raced => s = v

(* ... and what such a request has found is the session's one valid token. *)
HoldsNewest ==
    \A s \in Slots, t \in Tokens :
        InSession(s, t) /\ Valid(t) /\ session[t] \notin raced => t = req[s].token

(* No request is left that could bring an ended session back.              *)
NoneReturns ==
    \A s \in Slots, t \in Tokens : InSession(s, t) => session[t] \notin ended \ raced

(* A user, and whoever is about to write one, is of an organization that   *)
(* exists.  So where there is an owner there is an organization.           *)
Belong ==
    /\ \A u \in Users : user[u] # NoUser => user[u].org \in org
    /\ \A s \in Slots : req[s].org # None => req[s].org \in org

(* A setup that is locked out has counted an organization and has still to *)
(* count the owners, of whom there is one.                                 *)
LockedKnow ==
    \A s \in locked : At(s, {"setup"}, "found") /\ req[s].hasOrg /\ Owners # {}

SessionInv ==
    /\ Issues
    /\ OneTokenPerSession /\ LogoutEndsSession
    /\ Alone /\ HoldsNewest /\ NoneReturns

SetupInv == Belong /\ LockedKnow

AccountsInv == TypeOK /\ Shapes /\ LoadedOwn /\ SessionInv /\ SetupInv

-----------------------------------------------------------------------------
LEMMA InitAccounts == Init => AccountsInv
<1> SUFFICES ASSUME Init PROVE AccountsInv
  OBVIOUS
<1> USE DEF Init, NoRequest
<1>1. TypeOK
  BY DEF TypeOK, Request, Kinds
<1>2. Shapes /\ LoadedOwn
  BY DEF Shapes, Shape, LoadedOwn, At, Edits
<1>3. SessionInv
  BY NoneAssumption DEF SessionInv, Issues, OneTokenPerSession, LogoutEndsSession, Alone, HoldsNewest,
     NoneReturns, InSession, Valid, NoToken
<1>4. SetupInv
  BY DEF SetupInv, Belong, LockedKnow
<1> QED BY <1>1, <1>2, <1>3, <1>4 DEF AccountsInv

-----------------------------------------------------------------------------
(* Sessions: what a step does to them, by what it does to tokens.          *)

Quiet == UNCHANGED <<token, session, raced, ended>>

Forgets == \A v \in Slots : req'[v].token \in {req[v].token, None}

LEMMA QuietStep ==
    ASSUME SessionInv, Quiet, Forgets
    PROVE  SessionInv'
<1> USE DEF Quiet, Forgets
<1>1. Issues'
  BY DEF SessionInv, Issues
<1>2. \A v \in Slots, t \in Tokens : InSession(v, t)' => InSession(v, t) /\ req'[v].token = req[v].token
  BY DEF InSession
<1>3. OneTokenPerSession' /\ LogoutEndsSession'
  BY DEF SessionInv, OneTokenPerSession, LogoutEndsSession, Valid
<1>4. Alone' /\ HoldsNewest' /\ NoneReturns'
  BY <1>2 DEF SessionInv, Alone, HoldsNewest, NoneReturns, Valid
<1> QED BY <1>1, <1>3, <1>4 DEF SessionInv

LEMMA OpensStep ==
    ASSUME SessionInv, TypeOK, Forgets, NEW t \in Fresh, NEW u \in Users,
           token' = Issued(t, u), session' = [session EXCEPT ![t] = t],
           UNCHANGED <<raced, ended>>
    PROVE  SessionInv'
<1> USE DEF Forgets
<1>1. /\ t \in Tokens /\ t # None /\ session[t] = None
      /\ token[t] = NoToken
  BY NoneAssumption DEF Fresh, TypeOK, TokenRow, NoToken, SessionInv, Issues
<1>2. \A x \in Tokens : x # t => session'[x] = session[x] /\ token'[x] = token[x]
  BY DEF TypeOK, Issued
<1>3. session'[t] = t /\ token'[t] = [user |-> u, status |-> "valid"]
  BY <1>1 DEF TypeOK, Issued
<1>4. \A x \in Tokens : session[x] # t
  BY <1>1 DEF SessionInv, Issues
<1>5. \A v \in Slots : req[v].token # None => req[v].token # t /\ req[v].token \in Tokens
  BY <1>1 DEF SessionInv, Issues, TypeOK, Request
<1>6. \A v \in Slots, x \in Tokens :
         InSession(v, x)' => InSession(v, x) /\ req'[v].token = req[v].token /\ x # t
  BY <1>2, <1>3, <1>4, <1>5 DEF InSession
<1>7. Issues'
  <2>1. token'[t] # NoToken
    BY <1>3 DEF NoToken
  <2>2. \A x \in Tokens : session[x] \in Tokens \cup {None}
    BY DEF TypeOK
  <2>3. \A x \in ended : x \in Tokens /\ x # t
    BY <1>1 DEF TypeOK, SessionInv, Issues
  <2> QED BY <1>1, <1>2, <1>3, <1>4, <1>5, <2>1, <2>2, <2>3, NoneAssumption DEF SessionInv, Issues
<1>8. t \notin ended
  BY <1>1 DEF SessionInv, Issues
<1>9. OneTokenPerSession' /\ LogoutEndsSession'
  BY <1>2, <1>3, <1>4, <1>8 DEF SessionInv, OneTokenPerSession, LogoutEndsSession, Valid
<1>10. Alone' /\ HoldsNewest' /\ NoneReturns'
  BY <1>2, <1>6 DEF SessionInv, Alone, HoldsNewest, NoneReturns, Valid
<1> QED BY <1>7, <1>9, <1>10 DEF SessionInv

LEMMA ExpireStep ==
    ASSUME SessionInv, TypeOK, NEW t \in Tokens, Expire(t)
    PROVE  SessionInv'
<1>1. /\ UNCHANGED <<req, session, raced, ended>>
      /\ \A x \in Tokens : Valid(x)' => Valid(x)
      /\ \A x \in Tokens : token'[x] = NoToken <=> token[x] = NoToken
  BY DEF Expire, sessions, Valid, TypeOK, TokenRow, NoToken
<1>2. Issues'
  BY <1>1 DEF SessionInv, Issues
<1>3. OneTokenPerSession' /\ LogoutEndsSession'
  BY <1>1 DEF SessionInv, OneTokenPerSession, LogoutEndsSession
<1>4. Alone' /\ HoldsNewest' /\ NoneReturns'
  BY <1>1 DEF SessionInv, Alone, HoldsNewest, NoneReturns, InSession
<1> QED BY <1>2, <1>3, <1>4 DEF SessionInv

LEMMA FindTokenStep ==
    ASSUME SessionInv, TypeOK, NEW s \in Slots, NEW k \in {"refresh", "logout"},
           NEW t \in Tokens, FindToken(s, k, t)
    PROVE  SessionInv'
<1>1. /\ UNCHANGED <<token, session, ended>>
      /\ req[s] = NoRequest /\ Valid(t)
      /\ raced' = IF \E v \in Slots : InSession(v, t) THEN raced \cup {session[t]} ELSE raced
  BY DEF FindToken, Findable, tables, Begin
<1>2. /\ req'[s].token = t
      /\ \A v \in Slots : v # s => req'[v] = req[v]
  BY DEF FindToken, Begin, TypeOK, NoRequest
<1>3. req[s].token = None
  BY <1>1 DEF NoRequest
<1>4. session[t] # None /\ t # None
  BY <1>1, NoneAssumption DEF SessionInv, Issues, Valid, NoToken
<1>5. Issues'
  BY <1>1, <1>2, <1>4 DEF SessionInv, Issues
<1>6. raced \subseteq raced'
  BY <1>1
<1>7. OneTokenPerSession' /\ LogoutEndsSession'
  BY <1>1, <1>6 DEF SessionInv, OneTokenPerSession, LogoutEndsSession, Valid
<1>8. \A v \in Slots, x \in Tokens :
         InSession(v, x)' /\ session[x] \notin raced' =>
            \/ v = s /\ session[x] = session[t] /\ \A w \in Slots : ~InSession(w, t)
            \/ v # s /\ InSession(v, x) /\ req'[v].token = req[v].token /\ session[x] # session[t]
  BY <1>1, <1>2, <1>3, <1>4 DEF InSession
<1>9. Alone'
  BY <1>1, <1>6, <1>8 DEF SessionInv, Alone
<1>10. HoldsNewest'
  BY <1>1, <1>2, <1>6, <1>8 DEF SessionInv, HoldsNewest, OneTokenPerSession, Valid
<1>11. NoneReturns'
  BY <1>1, <1>6, <1>8 DEF SessionInv, NoneReturns, LogoutEndsSession
<1> QED BY <1>5, <1>7, <1>9, <1>10, <1>11 DEF SessionInv

LEMMA LogoutStep ==
    ASSUME SessionInv, TypeOK, Shapes, NEW s \in Slots, LogoutCommit(s)
    PROVE  SessionInv'
<1> DEFINE o == req[s].token
<1>1. o \in Tokens /\ o # None /\ session[o] # None
  BY DEF LogoutCommit, At, Shapes, Shape, TypeOK, Request, SessionInv, Issues
<1>2. /\ UNCHANGED <<session, raced>>
      /\ ended' = ended \cup {session[o]}
      /\ token'[o].status = "over"
      /\ \A x \in Tokens : Valid(x)' => Valid(x) /\ x # o
      /\ \A x \in Tokens : token'[x] = NoToken <=> token[x] = NoToken
  BY <1>1, NoneAssumption DEF LogoutCommit, Valid, TypeOK, TokenRow, NoToken, SessionInv, Issues
<1>3. /\ req'[s].token = None
      /\ \A v \in Slots : v # s => req'[v] = req[v]
  BY DEF LogoutCommit, Done, TypeOK, NoRequest
<1>4. \A v \in Slots, x \in Tokens :
         InSession(v, x)' => InSession(v, x) /\ req'[v].token = req[v].token /\ v # s
  BY <1>2, <1>3 DEF InSession
<1>5. \A x \in Tokens : session[x] = session[o] => InSession(s, x)
  BY <1>1 DEF InSession
<1> HIDE DEF o
<1>6. Issues'
  <2>1. session[session[o]] # None
    BY <1>1 DEF SessionInv, Issues
  <2> QED BY <1>2, <1>3, <2>1 DEF SessionInv, Issues
<1>7. OneTokenPerSession' /\ LogoutEndsSession'
  <2>1. OneTokenPerSession'
    BY <1>2 DEF SessionInv, OneTokenPerSession
  <2>2. \A x \in Tokens : Valid(x) /\ session[x] = session[o] /\ session[x] \notin raced => x = o
    BY <1>5 DEF SessionInv, HoldsNewest, o
  <2> QED BY <1>2, <2>1, <2>2 DEF SessionInv, LogoutEndsSession
<1>8. Alone' /\ HoldsNewest'
  BY <1>2, <1>4 DEF SessionInv, Alone, HoldsNewest
<1>9. NoneReturns'
  <2> SUFFICES ASSUME NEW v \in Slots, NEW x \in Tokens, InSession(v, x)', session[x] \notin raced
               PROVE  session[x] \notin ended'
    BY <1>2 DEF NoneReturns
  <2>1. InSession(v, x) /\ v # s
    BY <1>4
  <2>2. session[x] # session[o]
    BY <1>5, <2>1 DEF SessionInv, Alone
  <2> QED BY <1>2, <2>1, <2>2 DEF SessionInv, NoneReturns
<1> QED BY <1>6, <1>7, <1>8, <1>9 DEF SessionInv

LEMMA RefreshStep ==
    ASSUME SessionInv, TypeOK, Shapes, NEW s \in Slots, RefreshCommit(s)
    PROVE  SessionInv'
<1> DEFINE o == req[s].token
<1>1. o \in Tokens /\ o # None /\ session[o] # None /\ token[o] # NoToken
  BY DEF RefreshCommit, At, Shapes, Shape, TypeOK, Request, SessionInv, Issues
<1>2. PICK t \in Fresh :
         /\ token' = [Issued(t, token[o].user) EXCEPT ![o].status = "over"]
         /\ session' = [session EXCEPT ![t] = session[o]]
  BY DEF RefreshCommit
<1>3. t \in Tokens /\ t # None /\ t # o /\ token[t] = NoToken /\ session[t] = None
  BY <1>1, NoneAssumption DEF Fresh, TypeOK, TokenRow, NoToken, SessionInv, Issues
<1>4. /\ UNCHANGED <<raced, ended>>
      /\ req'[s].token = None
      /\ \A v \in Slots : v # s => req'[v] = req[v]
  BY DEF RefreshCommit, Done, TypeOK, NoRequest
<1>5. /\ session'[t] = session[o]
      /\ \A x \in Tokens : x # t => session'[x] = session[x]
  BY <1>2, <1>3 DEF TypeOK
<1>6. /\ token'[t] # NoToken /\ token'[o] # NoToken /\ token'[o].status = "over"
      /\ \A x \in Tokens : x # t /\ x # o => token'[x] = token[x]
  BY <1>1, <1>2, <1>3 DEF TypeOK, Issued, Valid, NoToken
<1>7. \A x \in Tokens : session[x] \in Tokens \cup {None} /\ session[x] # t
  BY <1>3 DEF TypeOK, SessionInv, Issues
<1>8. \A v \in Slots : req[v].token # None => req[v].token # t /\ req[v].token \in Tokens
  BY <1>3 DEF SessionInv, Issues, TypeOK, Request
<1>9. InSession(s, o)
  BY <1>1 DEF InSession
<1> HIDE DEF o
<1>10. Issues'
  <2>1. \A x \in ended : x \in Tokens /\ x # t
    BY <1>3 DEF TypeOK, SessionInv, Issues
  <2> QED BY <1>1, <1>3, <1>4, <1>5, <1>6, <1>7, <1>8, <2>1 DEF SessionInv, Issues
<1>11. \A x \in Tokens : session[x] = session[o] /\ Valid(x) /\ session[o] \notin raced => x = o
  BY <1>9 DEF SessionInv, HoldsNewest, InSession, o
<1>12. \A v \in Slots : v # s /\ req[v].token # None /\ session[o] \notin raced
          => session[req[v].token] # session[o]
  BY <1>1, <1>9 DEF SessionInv, Alone, InSession
<1>13. session[o] \notin ended \ raced
  BY <1>1, <1>9 DEF SessionInv, NoneReturns
<1>14. \A x \in Tokens : Valid(x)' => x = t \/ (x # o /\ x # t /\ Valid(x))
  BY <1>6 DEF Valid
<1>15. OneTokenPerSession'
  BY <1>1, <1>4, <1>5, <1>11, <1>14 DEF SessionInv, OneTokenPerSession
<1>16. LogoutEndsSession'
  BY <1>1, <1>4, <1>5, <1>13, <1>14 DEF SessionInv, LogoutEndsSession
<1>17. \A v \in Slots, x \in Tokens :
         InSession(v, x)' /\ session'[x] \notin raced =>
            v # s /\ x # t /\ InSession(v, x) /\ req'[v].token = req[v].token
  BY <1>4, <1>5, <1>8, <1>12 DEF InSession
<1>18. Alone'
  BY <1>4, <1>5, <1>17 DEF SessionInv, Alone
<1>19. HoldsNewest'
  BY <1>4, <1>5, <1>14, <1>17 DEF SessionInv, HoldsNewest
<1>20. NoneReturns'
  BY <1>4, <1>5, <1>17 DEF SessionInv, NoneReturns
<1> QED BY <1>10, <1>15, <1>16, <1>18, <1>19, <1>20 DEF SessionInv
-----------------------------------------------------------------------------
(* Types: what each step does to the requests.                             *)

Sets(s, r) == r \in Request /\ Shape(r) /\ req' = [req EXCEPT ![s] = r]

LEMMA DoneSets ==
    ASSUME NEW s \in Slots, Done(s)
    PROVE  Sets(s, NoRequest)
BY DEF Sets, Done, NoRequest, Request, Kinds, Shape, Edits

LEMMA PhaseSets ==
    ASSUME TypeOK, Shapes, NEW s \in Slots, NEW r,
           r = [req[s] EXCEPT !.phase = "ready"], req' = [req EXCEPT ![s] = r]
    PROVE  Sets(s, r) /\ r.token = req[s].token /\ r.kind = req[s].kind /\ r.phase = "ready"
           /\ r.user = req[s].user /\ r.org = req[s].org
<1>1. req[s] \in Request /\ Shape(req[s])
  BY DEF TypeOK, Shapes
<1>2. r \in Request
  BY <1>1 DEF Request
<1>3. Shape(r) /\ r.token = req[s].token /\ r.kind = req[s].kind /\ r.phase = "ready"
      /\ r.user = req[s].user /\ r.org = req[s].org
  BY <1>1 DEF Request, Shape
<1> QED BY <1>2, <1>3 DEF Sets

LEMMA BeginSets ==
    ASSUME NEW s \in Slots, NEW r, r \in Request, Shape(r), Begin(s, r)
    PROVE  Sets(s, r)
BY DEF Begin, Sets

LEMMA SetsTypes ==
    ASSUME TypeOK, Shapes, NEW s \in Slots, NEW r, Sets(s, r)
    PROVE  /\ req' \in [Slots -> Request]
           /\ Shapes'
           /\ req'[s] = r
           /\ \A v \in Slots : v # s => req'[v] = req[v]
BY DEF Sets, TypeOK, Shapes

(* A step that takes request s to r, and what it may do to the users.      *)
LoadsOwn(s, r) ==
    r.kind \in Edits /\ r.phase = "ready" => user'[r.user].org = r.org

KeepsUsers == \A u \in Users : user[u] # NoUser => user'[u].org = user[u].org

Rest == /\ org' \subseteq Orgs
        /\ user' \in [Users -> UserRow \cup {NoUser}]
        /\ token' \in [Tokens -> TokenRow \cup {NoToken}]
        /\ session' \in [Tokens -> Tokens \cup {None}]
        /\ raced' \subseteq Tokens
        /\ ended' \subseteq Tokens

Moves(s, r) == Sets(s, r) /\ Rest /\ KeepsUsers /\ LoadsOwn(s, r)

LEMMA MovesStep ==
    ASSUME AccountsInv, WatchSetups, NEW s \in Slots, NEW r, Moves(s, r)
    PROVE  TypeOK' /\ Shapes' /\ LoadedOwn'
<1>1. TypeOK /\ Shapes
  BY DEF AccountsInv
<1>2. /\ req' \in [Slots -> Request] /\ Shapes' /\ req'[s] = r
      /\ \A v \in Slots : v # s => req'[v] = req[v]
  BY <1>1, SetsTypes DEF Moves
<1>3. TypeOK'
  BY <1>2 DEF Moves, Rest, TypeOK, WatchSetups
<1>4. ASSUME NEW v \in Slots, At(v, Edits, "ready")'
      PROVE  user'[req'[v].user].org = req'[v].org
  <2>1. CASE v = s
    BY <1>2, <1>4, <2>1 DEF Moves, LoadsOwn, At
  <2>2. CASE v # s
    <3>1. At(v, Edits, "ready") /\ req'[v] = req[v]
      BY <1>2, <1>4, <2>2 DEF At
    <3>2. user[req[v].user].org = req[v].org /\ req[v].user \in Users /\ req[v].org \in Orgs
      BY <1>1, <3>1 DEF AccountsInv, LoadedOwn, At, Shapes, Shape
    <3>3. user[req[v].user] # NoUser
      BY <3>2, NoneAssumption DEF NoUser
    <3> QED BY <3>1, <3>2, <3>3 DEF Moves, KeepsUsers
  <2> QED BY <2>1, <2>2
<1> QED BY <1>2, <1>3, <1>4 DEF LoadedOwn

LEMMA TypesStep ==
    ASSUME AccountsInv, NEW s \in Slots, Arrives(s) \/ Serve(s)
    PROVE  \E r : Moves(s, r)
<1> DEFINE Same == UNCHANGED <<org, user, token, session, raced, ended>>
<1>0. TypeOK /\ Shapes /\ NoRequest \in Request /\ req[s] \in Request /\ Shape(req[s])
      /\ user \in [Users -> UserRow \cup {NoUser}]
  BY DEF AccountsInv, TypeOK, Shapes, NoRequest, Request, Kinds
<1>1. ASSUME Same
      PROVE  Rest /\ KeepsUsers
  BY <1>0, <1>1 DEF Rest, KeepsUsers, TypeOK
<1>3. ASSUME Done(s), Rest, KeepsUsers PROVE \E r : Moves(s, r)
  <2>1. Sets(s, NoRequest) BY <1>3, DoneSets
  <2>2. LoadsOwn(s, NoRequest) BY DEF LoadsOwn, NoRequest, Edits
  <2> QED BY <1>3, <2>1, <2>2 DEF Moves
<1>4. CASE Refuse(s)
  <2>1. Same /\ Done(s)
    BY <1>4 DEF Refuse, tables, sessions
  <2> QED BY <1>1, <1>3, <2>1
<1>5. ASSUME NEW u \in Users, LoginLoads(s, u) PROVE \E r : Moves(s, r)
  <2>1. PICK r : r = [NoRequest EXCEPT !.kind = "login", !.phase = "ready", !.user = u]
    OBVIOUS
  <2>2. Begin(s, r) /\ Same
    BY <1>5, <2>1 DEF LoginLoads, tables, sessions
  <2>3. r \in Request /\ Shape(r) /\ LoadsOwn(s, r)
    BY <2>1 DEF NoRequest, Request, Kinds, Shape, LoadsOwn, Edits
  <2> QED BY <1>1, <2>2, <2>3, BeginSets DEF Moves
<1>6. ASSUME NEW t \in Tokens, NEW k \in {"refresh", "logout"}, FindToken(s, k, t)
      PROVE  \E r : Moves(s, r)
  <2>1. PICK r : r = [NoRequest EXCEPT !.kind = k, !.token = t]
    OBVIOUS
  <2>2. Begin(s, r)
    BY <1>6, <2>1 DEF FindToken
  <2>3. r \in Request /\ Shape(r) /\ LoadsOwn(s, r)
    BY <2>1, NoneAssumption DEF NoRequest, Request, Kinds, Shape, LoadsOwn, Edits
  <2>4. session[t] # None /\ session[t] \in Tokens
    BY <1>0, <1>6 DEF FindToken, Findable, Valid, AccountsInv, SessionInv, Issues, NoToken, TypeOK
  <2>5. Rest /\ KeepsUsers
    BY <1>0, <1>6, <2>4 DEF FindToken, tables, Rest, KeepsUsers, TypeOK
  <2> QED BY <2>2, <2>3, <2>5, BeginSets DEF Moves
<1>7. ASSUME NEW k, NEW a \in Users, NEW u, NEW role, Authenticate(s, k, a, u, role),
             \/ k = "create" /\ u = None /\ role \in Roles
             \/ k = "patch" /\ u \in Users /\ role \in Roles
             \/ k \in {"disable", "enable"} /\ u \in Users /\ role = None
      PROVE  \E r : Moves(s, r)
  <2>1. PICK r : r = [NoRequest EXCEPT !.kind = k, !.org = user[a].org, !.user = u, !.role = role]
    OBVIOUS
  <2>2. Begin(s, r) /\ Same
    BY <1>7, <2>1 DEF Authenticate, tables, sessions
  <2>3. user[a].org \in Orgs
    BY <1>0, <1>7 DEF Authenticate, Owners, UserRow, NoUser
  <2>4. r \in Request /\ Shape(r) /\ LoadsOwn(s, r)
    BY <1>7, <2>1, <2>3 DEF NoRequest, Request, Kinds, Shape, LoadsOwn, Edits
  <2> QED BY <1>1, <2>2, <2>4, BeginSets DEF Moves
<1>8. ASSUME NEW k, NEW a \in Users, NEW role, AuthenticateSelf(s, k, a, role),
             \/ k = "patch" /\ role \in Roles
             \/ k = "disable" /\ role = None
      PROVE  \E r : Moves(s, r)
  <2>1. PICK r : r = [NoRequest EXCEPT !.kind = k, !.org = user[a].org, !.user = a,
                                       !.role = role, !.phase = "ready"]
    OBVIOUS
  <2>2. Begin(s, r) /\ Same
    BY <1>8, <2>1 DEF AuthenticateSelf, tables, sessions
  <2>3. user[a].org \in Orgs
    BY <1>0, <1>8 DEF AuthenticateSelf, Owners, UserRow, NoUser
  <2>4. r \in Request /\ Shape(r) /\ LoadsOwn(s, r)
    BY <1>8, <2>1, <2>2, <2>3 DEF NoRequest, Request, Kinds, Shape, LoadsOwn, Edits
  <2> QED BY <1>1, <2>2, <2>4, BeginSets DEF Moves
<1>9. CASE CountOrganizations(s)
  <2>1. PICK b \in BOOLEAN : b = (org # {})
    OBVIOUS
  <2>2. PICK r : r = [NoRequest EXCEPT !.kind = "setup", !.hasOrg = b]
    OBVIOUS
  <2>3. Begin(s, r) /\ Same
    BY <1>9, <2>1, <2>2 DEF CountOrganizations, tables, sessions
  <2>4. r \in Request /\ Shape(r) /\ LoadsOwn(s, r)
    BY <2>2 DEF NoRequest, Request, Kinds, Shape, LoadsOwn, Edits
  <2> QED BY <1>1, <2>3, <2>4, BeginSets DEF Moves
<1>10. ASSUME NEW r, r = [req[s] EXCEPT !.phase = "ready"], req' = [req EXCEPT ![s] = r],
              Same,
              req[s].kind \in Edits => user[req[s].user].org = req[s].org
       PROVE  \E x : Moves(s, x)
  <2>1. Sets(s, r) /\ r.kind = req[s].kind /\ r.user = req[s].user /\ r.org = req[s].org
    BY <1>0, <1>10, PhaseSets
  <2>2. LoadsOwn(s, r)
    BY <1>10, <2>1 DEF LoadsOwn
  <2> QED BY <1>1, <1>10, <2>1, <2>2 DEF Moves
<1>11. CASE RefreshLoads(s)
  <2>1. PICK r : r = [req[s] EXCEPT !.phase = "ready"]
    OBVIOUS
  <2>2. req' = [req EXCEPT ![s] = r]
    BY <1>11, <2>1 DEF RefreshLoads
  <2>3. Same /\ req[s].kind \notin Edits
    BY <1>11 DEF RefreshLoads, At, Edits, tables, sessions
  <2> QED BY <1>10, <2>1, <2>2, <2>3
<1>12. CASE LoadTarget(s)
  <2>1. PICK r : r = [req[s] EXCEPT !.phase = "ready"]
    OBVIOUS
  <2>2. req' = [req EXCEPT ![s] = r]
    BY <1>12, <2>1 DEF LoadTarget
  <2>3. Same /\ user[req[s].user].org = req[s].org
    BY <1>12 DEF LoadTarget, tables, sessions
  <2> QED BY <1>10, <2>1, <2>2, <2>3
<1>13. CASE CountOwners(s)
  <2>1. PICK r : r = [req[s] EXCEPT !.phase = "ready", !.hasOrg = FALSE]
    OBVIOUS
  <2>2. req' = [req EXCEPT ![s] = r]
    BY <1>13, <2>1 DEF CountOwners
  <2>3. Same /\ req[s].kind = "setup"
    BY <1>13 DEF CountOwners, At, tables, sessions
  <2>4. r \in Request /\ r.kind = "setup" /\ r.token = req[s].token
    BY <1>0, <2>1, <2>3 DEF Request
  <2>5. Shape(r) /\ LoadsOwn(s, r)
    BY <1>0, <2>3, <2>4 DEF Shape, LoadsOwn, Edits
  <2> QED BY <1>1, <2>2, <2>3, <2>4, <2>5 DEF Moves, Sets
<1>14. \A t \in Fresh, u \in Users :
          Issued(t, u) \in [Tokens -> TokenRow \cup {NoToken}]
  BY <1>0 DEF Fresh, Issued, TypeOK, TokenRow
<1>15. CASE LoginCommit(s)
  <2>1. req[s].user \in Users
    BY <1>0, <1>15 DEF LoginCommit, At, Shape
  <2>2. Rest
    BY <1>0, <1>14, <1>15, <2>1 DEF LoginCommit, Rest, TypeOK, Fresh
  <2>3. KeepsUsers
    BY <1>15 DEF LoginCommit, KeepsUsers
  <2> QED BY <1>3, <1>15, <2>2, <2>3 DEF LoginCommit
<1>16. ASSUME NEW t \in Tokens, req[s].token = t PROVE token[t] \in TokenRow /\ session[t] \in Tokens
  BY <1>0, <1>16, NoneAssumption DEF AccountsInv, SessionInv, Issues, TypeOK
<1>17. ASSUME req[s].kind \in {"refresh", "logout"}
       PROVE  /\ req[s].token \in Tokens
              /\ token[req[s].token] \in TokenRow /\ session[req[s].token] \in Tokens
  BY <1>0, <1>16, <1>17 DEF Shape, Request
<1>18. CASE RefreshCommit(s)
  <2>1. PICK o \in Tokens : o = req[s].token
    BY <1>17, <1>18 DEF RefreshCommit, At
  <2>2. token[o].user \in Users /\ session[o] \in Tokens
    BY <1>16, <2>1 DEF TokenRow
  <2>3. PICK t \in Fresh :
          /\ token' = [Issued(t, token[o].user) EXCEPT ![o].status = "over"]
          /\ session' = [session EXCEPT ![t] = session[o]]
    BY <1>18, <2>1 DEF RefreshCommit
  <2>4. PICK i \in [Tokens -> TokenRow \cup {NoToken}] : i = Issued(t, token[o].user)
    BY <1>14, <2>2
  <2>5. i[o] \in TokenRow
    BY <1>0, <1>16, <2>1, <2>2, <2>3, <2>4 DEF Issued, TypeOK, TokenRow
  <2>6. [i[o] EXCEPT !.status = "over"] \in TokenRow
    BY <2>5 DEF TokenRow
  <2>7. token' \in [Tokens -> TokenRow \cup {NoToken}]
    BY <2>3, <2>4, <2>6
  <2>8. session' \in [Tokens -> Tokens \cup {None}]
    BY <1>0, <2>2, <2>3 DEF TypeOK
  <2>9. Rest /\ KeepsUsers
    BY <1>0, <1>18, <2>7, <2>8 DEF RefreshCommit, Rest, KeepsUsers, TypeOK
  <2> QED BY <1>3, <1>18, <2>9 DEF RefreshCommit
<1>19. CASE LogoutCommit(s)
  <2>1. PICK o \in Tokens : o = req[s].token
    BY <1>17, <1>19 DEF LogoutCommit, At
  <2>2. token[o] \in TokenRow /\ session[o] \in Tokens
    BY <1>16, <2>1
  <2>3. [token[o] EXCEPT !.status = "over"] \in TokenRow
    BY <2>2 DEF TokenRow
  <2>4. token' \in [Tokens -> TokenRow \cup {NoToken}]
    BY <1>0, <1>19, <2>1, <2>3 DEF LogoutCommit, TypeOK
  <2>5. Rest /\ KeepsUsers
    BY <1>0, <1>19, <2>1, <2>2, <2>4 DEF LogoutCommit, Rest, KeepsUsers, TypeOK
  <2> QED BY <1>3, <1>19, <2>5 DEF LogoutCommit
<1>20. CASE EditCommit(s)
  <2>1. req[s].user \in Users /\ req[s].org \in Orgs /\ user[req[s].user].org = req[s].org
        /\ (req[s].kind = "patch" => req[s].role \in Roles)
    BY <1>0, <1>20 DEF EditCommit, At, Shape, AccountsInv, LoadedOwn
  <2>2. PICK u \in Users : u = req[s].user
    BY <2>1
  <2>3. user[u] \in UserRow
    BY <1>0, <2>1, <2>2, NoneAssumption DEF NoUser
  <2>4. PICK b \in BOOLEAN : b = (req[s].kind = "enable")
    OBVIOUS
  <2>5. [user[u] EXCEPT !.active = b] \in UserRow /\ [user[u] EXCEPT !.active = b].org = user[u].org
    BY <2>3 DEF UserRow
  <2>6. ASSUME NEW role \in Roles
        PROVE  [user[u] EXCEPT !.role = role] \in UserRow /\ [user[u] EXCEPT !.role = role].org = user[u].org
    BY <2>3 DEF UserRow
  <2>7. PICK x \in UserRow : x.org = user[u].org /\ user' = [user EXCEPT ![u] = x]
    BY <1>20, <2>1, <2>2, <2>4, <2>5, <2>6 DEF EditCommit
  <2>9. Rest /\ KeepsUsers
    BY <1>0, <1>20, <2>7 DEF EditCommit, sessions, Rest, KeepsUsers, TypeOK
  <2> QED BY <1>3, <1>20, <2>9 DEF EditCommit
<1>21. ASSUME NEW o \in Orgs, NEW role \in Roles, AddUser(o, role)
       PROVE  user' \in [Users -> UserRow \cup {NoUser}] /\ KeepsUsers
  BY <1>0, <1>21 DEF AddUser, UserRow, KeepsUsers
<1>22. CASE CreateCommit(s)
  <2>1. req[s].org \in Orgs /\ req[s].role \in Roles
    BY <1>0, <1>22 DEF CreateCommit, At, Shape
  <2>2. user' \in [Users -> UserRow \cup {NoUser}] /\ KeepsUsers
    BY <1>21, <1>22, <2>1 DEF CreateCommit
  <2>3. Rest
    BY <1>0, <1>22, <2>2 DEF CreateCommit, sessions, Rest, TypeOK
  <2> QED BY <1>3, <1>22, <2>2, <2>3 DEF CreateCommit
<1>23. CASE SetupCommit(s)
  <2>1. org' \subseteq Orgs /\ user' \in [Users -> UserRow \cup {NoUser}] /\ KeepsUsers
    BY <1>0, <1>21, <1>23, RolesAssumption DEF SetupCommit, TypeOK
  <2>2. token' \in [Tokens -> TokenRow \cup {NoToken}] /\ session' \in [Tokens -> Tokens \cup {None}]
    BY <1>0, <1>14, <1>23 DEF SetupCommit, TypeOK, Fresh
  <2>3. Rest
    BY <1>0, <1>23, <2>1, <2>2 DEF SetupCommit, Rest, TypeOK
  <2> QED BY <1>3, <1>23, <2>1, <2>3 DEF SetupCommit
<1>24. CASE ScriptAddsOwner(s)
  <2>1. user' \in [Users -> UserRow \cup {NoUser}] /\ KeepsUsers
    BY <1>0, <1>21, <1>24, RolesAssumption DEF ScriptAddsOwner, TypeOK
  <2>2. Rest
    BY <1>0, <1>24, <2>1 DEF ScriptAddsOwner, sessions, Rest, TypeOK
  <2> QED BY <1>3, <1>24, <2>1, <2>2 DEF ScriptAddsOwner
<1>25. CASE Serve(s)
  BY <1>4, <1>11, <1>12, <1>13, <1>15, <1>18, <1>19, <1>20, <1>22, <1>23, <1>24, <1>25 DEF Serve
<1>26. CASE Arrives(s)
  BY <1>5, <1>6, <1>7, <1>8, <1>9, <1>26 DEF Arrives
<1> QED BY <1>25, <1>26

-----------------------------------------------------------------------------
LEMMA SessionStep ==
    ASSUME AccountsInv, NEW s \in Slots, Arrives(s) \/ Serve(s)
    PROVE  SessionInv'
<1>0. TypeOK /\ Shapes /\ SessionInv
  BY DEF AccountsInv
<1>1. ASSUME NEW r, req' = [req EXCEPT ![s] = r], r.token \in {req[s].token, None}
      PROVE  Forgets
  BY <1>0, <1>1 DEF Forgets, TypeOK
<1>2. Done(s) => Forgets
  BY <1>1 DEF Done, NoRequest
<1>3. Done(s) /\ Quiet => SessionInv'
  BY <1>0, <1>2, QuietStep
<1>4. ASSUME NEW u \in Users, LoginLoads(s, u) PROVE SessionInv'
  <2>1. PICK r : r = [NoRequest EXCEPT !.kind = "login", !.phase = "ready", !.user = u]
    OBVIOUS
  <2>2. r.token \in {req[s].token, None}
    BY <2>1 DEF NoRequest
  <2>3. req' = [req EXCEPT ![s] = r] /\ Quiet
    BY <1>4, <2>1 DEF LoginLoads, Begin, tables, sessions, Quiet
  <2>4. Forgets
    BY <1>1, <2>2, <2>3
  <2> QED BY <1>0, <2>3, <2>4, QuietStep
<1>5. ASSUME NEW k, NEW a, NEW u, NEW role, Authenticate(s, k, a, u, role) PROVE SessionInv'
  <2>1. PICK r : r = [NoRequest EXCEPT !.kind = k, !.org = user[a].org, !.user = u, !.role = role]
    OBVIOUS
  <2>2. r.token \in {req[s].token, None}
    BY <2>1 DEF NoRequest
  <2>3. req' = [req EXCEPT ![s] = r] /\ Quiet
    BY <1>5, <2>1 DEF Authenticate, Begin, tables, sessions, Quiet
  <2>4. Forgets
    BY <1>1, <2>2, <2>3
  <2> QED BY <1>0, <2>3, <2>4, QuietStep
<1>6. ASSUME NEW k, NEW a, NEW role, AuthenticateSelf(s, k, a, role) PROVE SessionInv'
  <2>1. PICK r : r = [NoRequest EXCEPT !.kind = k, !.org = user[a].org, !.user = a,
                                       !.role = role, !.phase = "ready"]
    OBVIOUS
  <2>2. r.token \in {req[s].token, None}
    BY <2>1 DEF NoRequest
  <2>3. req' = [req EXCEPT ![s] = r] /\ Quiet
    BY <1>6, <2>1 DEF AuthenticateSelf, Begin, tables, sessions, Quiet
  <2>4. Forgets
    BY <1>1, <2>2, <2>3
  <2> QED BY <1>0, <2>3, <2>4, QuietStep
<1>7. CASE CountOrganizations(s)
  <2>1. PICK r : r = [NoRequest EXCEPT !.kind = "setup", !.hasOrg = (org # {})]
    OBVIOUS
  <2>2. r.token \in {req[s].token, None}
    BY <2>1 DEF NoRequest
  <2>3. req' = [req EXCEPT ![s] = r] /\ Quiet
    BY <1>7, <2>1 DEF CountOrganizations, Begin, tables, sessions, Quiet
  <2>4. Forgets
    BY <1>1, <2>2, <2>3
  <2> QED BY <1>0, <2>3, <2>4, QuietStep
<1>8. CASE RefreshLoads(s) \/ LoadTarget(s)
  <2>1. PICK r : r = [req[s] EXCEPT !.phase = "ready"]
    OBVIOUS
  <2>2. r.token \in {req[s].token, None}
    BY <1>0, <2>1 DEF TypeOK, Request
  <2>3. req' = [req EXCEPT ![s] = r] /\ Quiet
    BY <1>8, <2>1 DEF RefreshLoads, LoadTarget, tables, sessions, Quiet
  <2>4. Forgets
    BY <1>1, <2>2, <2>3
  <2> QED BY <1>0, <2>3, <2>4, QuietStep
<1>9. CASE CountOwners(s)
  <2>1. PICK r : r = [req[s] EXCEPT !.phase = "ready", !.hasOrg = FALSE]
    OBVIOUS
  <2>2. r.token \in {req[s].token, None}
    BY <1>0, <2>1 DEF TypeOK, Request
  <2>3. req' = [req EXCEPT ![s] = r] /\ Quiet
    BY <1>9, <2>1 DEF CountOwners, tables, sessions, Quiet
  <2>4. Forgets
    BY <1>1, <2>2, <2>3
  <2> QED BY <1>0, <2>3, <2>4, QuietStep
<1>10. CASE Refuse(s) \/ EditCommit(s) \/ CreateCommit(s) \/ ScriptAddsOwner(s)
  BY <1>3, <1>10 DEF Refuse, EditCommit, CreateCommit, ScriptAddsOwner, tables, sessions, Quiet
<1>11. CASE LoginCommit(s)
  <2>1. req[s].user \in Users
    BY <1>0, <1>11 DEF LoginCommit, At, Shapes, Shape
  <2> QED BY <1>0, <1>2, <1>11, <2>1, OpensStep DEF LoginCommit
<1>12. CASE SetupCommit(s)
  BY <1>0, <1>2, <1>12, OpensStep DEF SetupCommit
<1>13. CASE RefreshCommit(s) \/ LogoutCommit(s)
  BY <1>0, <1>13, RefreshStep, LogoutStep
<1>14. CASE Serve(s)
  BY <1>8, <1>9, <1>10, <1>11, <1>12, <1>13, <1>14 DEF Serve
<1>15. CASE Arrives(s)
  BY <1>0, <1>4, <1>5, <1>6, <1>7, <1>15, FindTokenStep DEF Arrives
<1> QED BY <1>14, <1>15

-----------------------------------------------------------------------------
(* Setup: organizations stay, users stay in theirs, and a setup that is    *)
(* locked out does not get past the count of owners.                       *)

UsersBelong ==
    org \subseteq org' /\ \A u \in Users : user'[u] # NoUser => user'[u].org \in org'

LEMMA AddedBelong ==
    ASSUME TypeOK, Belong, org \subseteq org', NEW o \in org', NEW role, AddUser(o, role)
    PROVE  UsersBelong
BY DEF TypeOK, Belong, AddUser, UsersBelong

(* A request that becomes r: it is not a setup, or one that has just begun. *)
LEMMA SetupMoves ==
    ASSUME TypeOK, SetupInv, WatchSetups, UsersBelong, NEW s \in Slots, NEW r,
           req' = [req EXCEPT ![s] = r], r.org \in org \cup {None},
           s \in locked' => r.hasOrg /\ r.phase = "found"
    PROVE  SetupInv'
<1>1. req'[s] = r /\ \A v \in Slots : v # s => req'[v] = req[v]
  BY DEF TypeOK
<1>2. Belong'
  BY <1>1 DEF SetupInv, Belong, UsersBelong
<1>3. ASSUME NEW v \in locked'
      PROVE  At(v, {"setup"}, "found")' /\ req'[v].hasOrg /\ Owners' # {}
  <2>1. v \in Slots /\ req'[v].kind = "setup" /\ Owners' # {}
    BY <1>3 DEF WatchSetups
  <2>2. CASE v = s
    BY <1>1, <1>3, <2>1, <2>2 DEF At
  <2>3. CASE v # s
    BY <1>1, <1>3, <2>1, <2>3 DEF SetupInv, LockedKnow, WatchSetups, At
  <2> QED BY <2>2, <2>3
<1> QED BY <1>2, <1>3 DEF SetupInv, LockedKnow

LEMMA SetupStep ==
    ASSUME AccountsInv, WatchSetups, NEW s \in Slots, Arrives(s) \/ Serve(s)
    PROVE  SetupInv'
<1>0. TypeOK /\ Shapes /\ SetupInv /\ Belong
  BY DEF AccountsInv, SetupInv
<1>1. UNCHANGED <<org, user>> => UsersBelong
  BY <1>0 DEF UsersBelong, Belong
<1>2. ASSUME NEW r, r.kind # "setup", r.org \in org \cup {None},
             req' = [req EXCEPT ![s] = r], UsersBelong
      PROVE  SetupInv'
  <2>1. s \notin locked'
    BY <1>0, <1>2 DEF WatchSetups, TypeOK
  <2> QED BY <1>0, <1>2, <2>1, SetupMoves
<1>3. Done(s) /\ UsersBelong => SetupInv'
  BY <1>2 DEF Done, NoRequest
<1>4. ASSUME NEW u \in Users, LoginLoads(s, u) PROVE SetupInv'
  <2>1. PICK r : r = [NoRequest EXCEPT !.kind = "login", !.phase = "ready", !.user = u]
    OBVIOUS
  <2>2. r.kind # "setup" /\ r.org = None
    BY <2>1 DEF NoRequest
  <2> QED BY <1>1, <1>2, <1>4, <2>1, <2>2 DEF LoginLoads, Begin, tables
<1>5. ASSUME NEW a \in Users, a \in Owners PROVE user[a].org \in org
  BY <1>0, <1>5 DEF Belong, Owners, NoUser
<1>6. ASSUME NEW k, NEW a \in Users, NEW u, NEW role, Authenticate(s, k, a, u, role), k # "setup"
      PROVE  SetupInv'
  <2>1. PICK r : r = [NoRequest EXCEPT !.kind = k, !.org = user[a].org, !.user = u, !.role = role]
    OBVIOUS
  <2>2. r.kind # "setup" /\ r.org = user[a].org
    BY <1>6, <2>1 DEF NoRequest
  <2> QED BY <1>1, <1>2, <1>5, <1>6, <2>1, <2>2 DEF Authenticate, Begin, tables
<1>7. ASSUME NEW k, NEW a \in Users, NEW role, AuthenticateSelf(s, k, a, role), k # "setup"
      PROVE  SetupInv'
  <2>1. PICK r : r = [NoRequest EXCEPT !.kind = k, !.org = user[a].org, !.user = a,
                                       !.role = role, !.phase = "ready"]
    OBVIOUS
  <2>2. r.kind # "setup" /\ r.org = user[a].org
    BY <1>7, <2>1 DEF NoRequest
  <2> QED BY <1>1, <1>2, <1>5, <1>7, <2>1, <2>2 DEF AuthenticateSelf, Begin, tables
<1>8. ASSUME NEW t \in Tokens, NEW k \in {"refresh", "logout"}, FindToken(s, k, t) PROVE SetupInv'
  <2>1. PICK r : r = [NoRequest EXCEPT !.kind = k, !.token = t]
    OBVIOUS
  <2>2. r.kind # "setup" /\ r.org = None
    BY <2>1 DEF NoRequest
  <2> QED BY <1>1, <1>2, <1>8, <2>1, <2>2 DEF FindToken, Begin, tables
<1>9. CASE CountOrganizations(s)
  <2>1. PICK r : r = [NoRequest EXCEPT !.kind = "setup", !.hasOrg = (org # {})]
    OBVIOUS
  <2>2. r.org = None /\ r.phase = "found" /\ r.hasOrg = (org # {})
    BY <2>1 DEF NoRequest
  <2>3. UNCHANGED <<org, user>> /\ req' = [req EXCEPT ![s] = r]
    BY <1>9, <2>1 DEF CountOrganizations, Begin, tables
  <2>4. s \in locked' => org # {}
    BY <1>0, <1>5, <2>3 DEF Owners, WatchSetups
  <2> QED BY <1>0, <1>1, <2>2, <2>3, <2>4, SetupMoves
<1>10. CASE CountOwners(s)
  <2>1. PICK r : r = [req[s] EXCEPT !.phase = "ready", !.hasOrg = FALSE]
    OBVIOUS
  <2>2. r.org = req[s].org /\ req[s].kind = "setup"
    BY <1>0, <1>10, <2>1 DEF TypeOK, Request, CountOwners, At
  <2>3. UNCHANGED <<org, user>> /\ req' = [req EXCEPT ![s] = r] /\ SetupRequired(s)
    BY <1>10, <2>1 DEF CountOwners, tables
  <2>4. s \notin locked
    BY <1>0, <2>3 DEF SetupInv, LockedKnow, SetupRequired
  <2>5. s \notin locked'
    BY <2>2, <2>4 DEF WatchSetups
  <2>6. r.org \in org \cup {None}
    BY <1>0, <2>2 DEF Belong
  <2> QED BY <1>0, <1>1, <2>3, <2>5, <2>6, SetupMoves
<1>11. CASE SetupCommit(s)
  <2>1. PICK o \in Orgs \ org : org' = org \cup {o} /\ AddUser(o, "owner")
    BY <1>11 DEF SetupCommit
  <2>2. UsersBelong
    BY <1>0, <2>1, AddedBelong
  <2> QED BY <1>3, <1>11, <2>2 DEF SetupCommit
<1>12. CASE CreateCommit(s) \/ ScriptAddsOwner(s)
  <2>1. CASE CreateCommit(s)
    <3>1. req[s].org \in Orgs
      BY <1>0, <2>1 DEF CreateCommit, At, Shapes, Shape
    <3>2. req[s].org \in org /\ org' = org /\ AddUser(req[s].org, req[s].role)
      BY <1>0, <2>1, <3>1, NoneAssumption DEF CreateCommit, Belong
    <3>3. UsersBelong
      BY <1>0, <3>2, AddedBelong
    <3> QED BY <1>3, <2>1, <3>3 DEF CreateCommit
  <2>2. CASE ScriptAddsOwner(s)
    <3>1. UsersBelong
      BY <1>0, <2>2, AddedBelong DEF ScriptAddsOwner
    <3> QED BY <1>3, <2>2, <3>1 DEF ScriptAddsOwner
  <2> QED BY <1>12, <2>1, <2>2
<1>13. CASE EditCommit(s)
  <2>1. PICK r : Moves(s, r)
    BY <1>13, TypesStep DEF Serve
  <2>2. req[s].user \in Users /\ user[req[s].user].org = req[s].org /\ req[s].org \in Orgs
    BY <1>0, <1>13 DEF EditCommit, At, AccountsInv, LoadedOwn, Shapes, Shape
  <2>3. user[req[s].user] # NoUser
    BY <2>2, NoneAssumption DEF NoUser
  <2>4. \A u \in Users : u # req[s].user => user'[u] = user[u]
    BY <1>0, <1>13 DEF EditCommit, TypeOK
  <2>5. org' = org /\ KeepsUsers
    BY <1>13, <2>1 DEF EditCommit, Moves
  <2>6. UsersBelong
    BY <1>0, <2>2, <2>3, <2>4, <2>5 DEF UsersBelong, KeepsUsers, Belong
  <2> QED BY <1>3, <1>13, <2>6 DEF EditCommit
<1>14. CASE RefreshLoads(s) \/ LoadTarget(s)
  <2>1. PICK r : r = [req[s] EXCEPT !.phase = "ready"]
    OBVIOUS
  <2>2. r.kind # "setup" /\ r.org = req[s].org
    BY <1>0, <1>14, <2>1 DEF TypeOK, Request, RefreshLoads, LoadTarget, At, Edits
  <2>3. r.org \in org \cup {None}
    BY <1>0, <2>2 DEF Belong
  <2> QED BY <1>1, <1>2, <1>14, <2>1, <2>2, <2>3 DEF RefreshLoads, LoadTarget, tables
<1>15. CASE Refuse(s) \/ LoginCommit(s) \/ RefreshCommit(s) \/ LogoutCommit(s)
  BY <1>1, <1>3, <1>15 DEF Refuse, LoginCommit, RefreshCommit, LogoutCommit, tables
<1>16. CASE Serve(s)
  BY <1>10, <1>11, <1>12, <1>13, <1>14, <1>15, <1>16 DEF Serve
<1>17. CASE Arrives(s)
  BY <1>4, <1>6, <1>7, <1>8, <1>9, <1>17 DEF Arrives
<1> QED BY <1>16, <1>17

(* The steps that no request takes.                                        *)
LEMMA IdleStep ==
    ASSUME TypeOK, SetupInv, WatchSetups \/ locked' = locked, org \subseteq org',
           UNCHANGED <<user, req>>
    PROVE  SetupInv'
<1>1. Belong'
  BY DEF SetupInv, Belong
<1>2. locked' \subseteq locked
  BY DEF SetupInv, LockedKnow, WatchSetups
<1>3. \A v \in locked : At(v, {"setup"}, "found") /\ req[v].hasOrg /\ Owners # {}
  BY DEF SetupInv, LockedKnow
<1>4. LockedKnow'
  BY <1>2, <1>3 DEF LockedKnow, At, Owners
<1> QED BY <1>1, <1>4 DEF SetupInv

-----------------------------------------------------------------------------
LEMMA AccountsStep == AccountsInv /\ [Next]_vars => AccountsInv'
<1> SUFFICES ASSUME AccountsInv, [Next]_vars PROVE AccountsInv'
  OBVIOUS
<1>1. ASSUME NEW s \in Slots, Arrives(s) \/ Serve(s), WatchSetups PROVE AccountsInv'
  <2>1. TypeOK' /\ Shapes' /\ LoadedOwn'
    BY <1>1, TypesStep, MovesStep
  <2> QED BY <1>1, <2>1, SessionStep, SetupStep DEF AccountsInv
<1>2. ASSUME NEW t \in Tokens, Expire(t), WatchSetups PROVE AccountsInv'
  <2>1. UNCHANGED <<org, user, req, session, raced, ended>>
    BY <1>2 DEF Expire, sessions
  <2>2. token[t] \in TokenRow
    BY <1>2 DEF Expire, Valid, AccountsInv, TypeOK, NoToken
  <2>3. [token[t] EXCEPT !.status = "over"] \in TokenRow
    BY <2>2 DEF TokenRow
  <2>4. TypeOK'
    BY <1>2, <2>1, <2>3 DEF Expire, AccountsInv, TypeOK, WatchSetups
  <2>5. Shapes' /\ LoadedOwn'
    BY <2>1 DEF AccountsInv, Shapes, LoadedOwn, At
  <2>6. SetupInv'
    BY <1>2, <2>1, IdleStep DEF AccountsInv
  <2>7. SessionInv'
    BY <1>2, ExpireStep DEF AccountsInv
  <2> QED BY <2>4, <2>5, <2>6, <2>7 DEF AccountsInv
<1>3. CASE ScriptAddsOrganization /\ WatchSetups
  <2>1. /\ UNCHANGED <<user, token, req, session, raced, ended>>
        /\ org \subseteq org' /\ org' \subseteq Orgs
    BY <1>3 DEF ScriptAddsOrganization, sessions, AccountsInv, TypeOK
  <2>2. TypeOK'
    BY <1>3, <2>1 DEF AccountsInv, TypeOK, WatchSetups
  <2>3. Shapes' /\ LoadedOwn'
    BY <2>1 DEF AccountsInv, Shapes, LoadedOwn, At
  <2>4. SetupInv'
    BY <1>3, <2>1, IdleStep DEF AccountsInv
  <2>5. SessionInv'
    BY <2>1, QuietStep DEF AccountsInv, Quiet, Forgets
  <2> QED BY <2>2, <2>3, <2>4, <2>5 DEF AccountsInv
<1>4. CASE UNCHANGED vars
  <2>1. TypeOK' /\ Shapes' /\ LoadedOwn'
    BY <1>4 DEF vars, AccountsInv, TypeOK, Shapes, LoadedOwn, At
  <2>2. SetupInv'
    BY <1>4, IdleStep DEF vars, AccountsInv
  <2>3. SessionInv'
    BY <1>4, QuietStep DEF vars, AccountsInv, Quiet, Forgets
  <2> QED BY <2>1, <2>2, <2>3 DEF AccountsInv
<1> QED BY <1>1, <1>2, <1>3, <1>4 DEF Next, Step

(* The inductive invariant holds: in-flight requests know enough of what   *)
(* they loaded.                                                            *)
THEOREM AccountsInvHolds == Spec => []AccountsInv
BY InitAccounts, AccountsStep, PTL DEF Spec

(* Rows and requests have the types that the models declare.               *)
THEOREM AccountTypesHold == Spec => []TypeOK
<1>1. AccountsInv => TypeOK
  BY DEF AccountsInv
<1> QED BY <1>1, AccountsInvHolds, PTL

(* Rotation leaves a session one valid refresh token, unless requests of   *)
(* the session overlapped (refresh, find_valid_refresh_token).             *)
THEOREM OneTokenHolds == Spec => []OneTokenPerSession
<1>1. AccountsInv => OneTokenPerSession
  BY DEF AccountsInv, SessionInv
<1> QED BY <1>1, AccountsInvHolds, PTL

(* No session comes back after its logout, unless requests of it           *)
(* overlapped.                                                             *)
THEOREM LogoutHolds == Spec => []LogoutEndsSession
<1>1. AccountsInv => LogoutEndsSession
  BY DEF AccountsInv, SessionInv
<1> QED BY <1>1, AccountsInvHolds, PTL

(* create_first_owner goes ahead only if at some time since the request    *)
(* began there was no active owner (setup_required).                       *)
THEOREM SetupHolds == Spec => []SetupStaysLocked
<1>1. AccountsInv => SetupStaysLocked
  BY DEF AccountsInv, SetupInv, LockedKnow, SetupStaysLocked, At
<1> QED BY <1>1, AccountsInvHolds, PTL

(* Only an owner of the same organization changes a user                   *)
(* (_require_same_org_user).                                               *)
THEOREM OrganizationsHold == Spec => OrganizationsStayApart
<1> DEFINE Apart ==
      \A u \in Users : user[u] # NoUser /\ user'[u] # user[u] =>
         /\ user'[u].org = user[u].org
         /\ \E s \in Slots : /\ req[s].phase = "ready" /\ req'[s] = NoRequest
                             /\ req[s].user = u /\ req[s].org = user[u].org
<1>1. ASSUME AccountsInv, Next PROVE Apart
  <2>0. TypeOK /\ user \in [Users -> UserRow \cup {NoUser}]
    BY <1>1 DEF AccountsInv, TypeOK
  <2>1. ASSUME NEW s \in Slots, EditCommit(s) PROVE Apart
    <3>1. /\ req[s].phase = "ready" /\ req'[s] = NoRequest
          /\ req[s].user \in Users /\ req[s].org = user[req[s].user].org
          /\ \A u \in Users : u # req[s].user => user'[u] = user[u]
      BY <1>1, <2>0, <2>1 DEF EditCommit, At, Done, AccountsInv, LoadedOwn, Shapes, Shape, TypeOK
    <3>2. PICK r : Moves(s, r)
      BY <1>1, <2>1, TypesStep DEF Serve
    <3>3. KeepsUsers
      BY <3>2 DEF Moves
    <3> QED BY <3>1, <3>3 DEF KeepsUsers
  <2>2. ASSUME NEW o, NEW role, AddUser(o, role) PROVE Apart
    BY <2>0, <2>2 DEF AddUser
  <2>3. UNCHANGED user => Apart
    OBVIOUS
  <2> HIDE DEF Apart
  <2>4. ASSUME NEW s \in Slots, Serve(s) PROVE Apart
    BY <2>1, <2>2, <2>3, <2>4 DEF Serve, Refuse, LoginCommit, RefreshLoads, RefreshCommit, LogoutCommit,
       LoadTarget, CreateCommit, CountOwners, SetupCommit, ScriptAddsOwner, tables
  <2>5. ASSUME NEW s \in Slots, Arrives(s) PROVE Apart
    BY <2>3, <2>5 DEF Arrives, LoginLoads, FindToken, Authenticate, AuthenticateSelf,
       CountOrganizations, tables
  <2>6. ASSUME NEW t \in Tokens, Expire(t) PROVE Apart
    BY <2>3, <2>6 DEF Expire
  <2>7. ScriptAddsOrganization => Apart
    BY <2>3 DEF ScriptAddsOrganization
  <2> QED BY <1>1, <2>4, <2>5, <2>6, <2>7 DEF Next, Step
<1>2. AccountsInv /\ [Next]_vars => [Apart]_vars
  BY <1>1
<1> QED BY <1>2, AccountsInvHolds, PTL DEF Spec, OrganizationsStayApart

-----------------------------------------------------------------------------
(***************************************************************************)
(* A refresh token never changes hands or sessions, and one that was       *)
(* revoked or has expired never becomes valid again: the token a raced     *)
(* request leaves behind is always a new one.                              *)
(***************************************************************************)
OverIsFinal ==
    [][\A t \in Tokens : session[t] # None =>
          /\ session'[t] = session[t] /\ token'[t].user = token[t].user
          /\ token[t].status = "over" => token'[t].status = "over"]_vars

(* find_valid_refresh_token, issue_refresh_token and revoke_refresh_token  *)
(* keep every token that is over so, however many requests overlap.        *)
THEOREM OverHolds == Spec => OverIsFinal
<1> DEFINE Kept ==
      \A t \in Tokens : session[t] # None =>
         /\ session'[t] = session[t] /\ token'[t].user = token[t].user
         /\ token[t].status = "over" => token'[t].status = "over"
<1>1. ASSUME AccountsInv, Next PROVE Kept
  <2>1. /\ token \in [Tokens -> TokenRow \cup {NoToken}]
        /\ session \in [Tokens -> Tokens \cup {None}]
        /\ \A t \in Tokens : session[t] # None => t \notin Fresh
    BY <1>1 DEF AccountsInv, TypeOK, SessionInv, Issues, Fresh, TokenRow, NoToken
  <2>2. ASSUME NEW x \in Fresh, NEW u, NEW y, token' = Issued(x, u),
               session' = [session EXCEPT ![x] = y]
        PROVE  Kept
    BY <2>1, <2>2 DEF Issued
  <2>3. ASSUME NEW x \in Fresh, NEW u, NEW old \in Tokens,
               token' = [Issued(x, u) EXCEPT ![old].status = "over"],
               NEW y, session' = [session EXCEPT ![x] = y]
        PROVE  Kept
    <3>1. Issued(x, u) \in [Tokens -> {[user |-> u, status |-> "valid"]} \cup TokenRow \cup {NoToken}]
      BY <2>1 DEF Issued
    <3>2. \A t \in Tokens : t # x => Issued(x, u)[t] = token[t]
      BY <2>1 DEF Issued
    <3>3. \A t \in Tokens : t # x =>
            /\ token'[t].user = token[t].user
            /\ token[t].status = "over" => token'[t].status = "over"
      BY <2>1, <2>3, <3>1, <3>2 DEF TokenRow, NoToken
    <3> QED
      BY <2>1, <2>3, <3>3
  <2>4. ASSUME NEW old \in Tokens, token' = [token EXCEPT ![old].status = "over"],
               UNCHANGED session
        PROVE  Kept
    BY <2>1, <2>4 DEF TokenRow, NoToken
  <2>5. UNCHANGED <<token, session>> => Kept
    OBVIOUS
  <2>6. \A s \in Slots : req[s].token # None => req[s].token \in Tokens
    BY <1>1 DEF AccountsInv, TypeOK, Request
  <2> HIDE DEF Kept
  <2>7. ASSUME NEW s \in Slots, LoginCommit(s) \/ SetupCommit(s) PROVE Kept
    BY <2>2, <2>7 DEF LoginCommit, SetupCommit
  <2>8. ASSUME NEW s \in Slots, RefreshCommit(s) \/ LogoutCommit(s) PROVE Kept
    <3>1. req[s].token \in Tokens
      BY <1>1, <2>6, <2>8 DEF RefreshCommit, LogoutCommit, At, AccountsInv, Shapes, Shape
    <3> QED
      BY <2>3, <2>4, <2>8, <3>1 DEF RefreshCommit, LogoutCommit
  <2>9. ASSUME NEW s \in Slots, Serve(s) PROVE Kept
    BY <2>5, <2>7, <2>8, <2>9 DEF Serve, Refuse, RefreshLoads, LoadTarget, EditCommit, CreateCommit,
       CountOwners, ScriptAddsOwner, tables, sessions
  <2>10. ASSUME NEW s \in Slots, Arrives(s) PROVE Kept
    BY <2>5, <2>10 DEF Arrives, LoginLoads, FindToken, Authenticate, AuthenticateSelf,
       CountOrganizations, tables, sessions
  <2>11. ASSUME NEW t \in Tokens, Expire(t) PROVE Kept
    BY <2>4, <2>11 DEF Expire, sessions
  <2>12. ScriptAddsOrganization => Kept
    BY <2>5 DEF ScriptAddsOrganization, sessions
  <2> QED BY <1>1, <2>9, <2>10, <2>11, <2>12 DEF Next, Step
<1>2. AccountsInv /\ [Next]_vars => [Kept]_vars
  BY <1>1
<1> QED BY <1>2, AccountsInvHolds, PTL DEF Spec, OverIsFinal

-----------------------------------------------------------------------------
(***************************************************************************)
(* One request at a time: the exceptions that OneTokenPerSession,          *)
(* LogoutEndsSession and SetupStaysLocked make for requests that overlap   *)
(* never come to bear.                                                     *)
(***************************************************************************)
OneSlot == \A s, v \in Slots : s = v

(* A setup that may go ahead, or will because it has not counted any       *)
(* organization, is one there is no owner for.                             *)
SetupNeeded ==
    \A s \in Slots : req[s].kind = "setup" /\ ~req[s].hasOrg => Owners = {}

(* A setup which has counted the owners has no use for hasOrg any more.    *)
ReadyForgets == \A s \in Slots : At(s, {"setup"}, "ready") => ~req[s].hasOrg

NothingOverlaps == raced = {} /\ SetupNeeded /\ ReadyForgets

KeepsPromise ==
    /\ \A s, t \in Tokens : Valid(s) /\ Valid(t) /\ session[s] = session[t] => s = t
    /\ \A t \in Tokens : session[t] \in ended => ~Valid(t)
    /\ \A s \in Slots : At(s, {"setup"}, "ready") => Owners = {}

(* Anything but a step of a setup leaves the one request something else.   *)
LEMMA NoSetupStep ==
    ASSUME OneSlot, AccountsInv, NEW s \in Slots, NEW r, r.kind # "setup",
           req' = [req EXCEPT ![s] = r]
    PROVE  SetupNeeded' /\ ReadyForgets'
<1>1. \A v \in Slots : req'[v] = r
  BY DEF OneSlot, AccountsInv, TypeOK
<1> QED BY <1>1 DEF SetupNeeded, ReadyForgets, At

LEMMA SetupAlone ==
    ASSUME OneSlot, AccountsInv, NothingOverlaps, NEW s \in Slots, Arrives(s) \/ Serve(s)
    PROVE  SetupNeeded' /\ ReadyForgets'
<1>0. TypeOK /\ Shapes /\ Belong
  BY DEF AccountsInv, SetupInv
<1>1. Done(s) => SetupNeeded' /\ ReadyForgets'
  BY NoSetupStep DEF Done, NoRequest
<1>2. ASSUME NEW r, r.kind # "setup", Begin(s, r) PROVE SetupNeeded' /\ ReadyForgets'
  BY <1>2, NoSetupStep DEF Begin
<1>3. ASSUME NEW u, LoginLoads(s, u) PROVE SetupNeeded' /\ ReadyForgets'
  BY <1>2, <1>3 DEF LoginLoads, NoRequest
<1>4. ASSUME NEW k, NEW a, NEW u, NEW role, Authenticate(s, k, a, u, role), k # "setup"
      PROVE  SetupNeeded' /\ ReadyForgets'
  BY <1>2, <1>4 DEF Authenticate, NoRequest
<1>5. ASSUME NEW k, NEW a, NEW role, AuthenticateSelf(s, k, a, role), k # "setup"
      PROVE  SetupNeeded' /\ ReadyForgets'
  BY <1>2, <1>5 DEF AuthenticateSelf, NoRequest
<1>6. ASSUME NEW t, NEW k, FindToken(s, k, t), k # "setup" PROVE SetupNeeded' /\ ReadyForgets'
  BY <1>2, <1>6 DEF FindToken, NoRequest
<1>7. CASE CountOrganizations(s)
  <2>1. PICK r : r = [NoRequest EXCEPT !.kind = "setup", !.hasOrg = (org # {})]
    OBVIOUS
  <2>2. r.phase = "found" /\ r.hasOrg = (org # {})
    BY <2>1 DEF NoRequest
  <2>3. UNCHANGED <<org, user>> /\ req' = [req EXCEPT ![s] = r]
    BY <1>7, <2>1 DEF CountOrganizations, Begin, tables
  <2>4. \A v \in Slots : req'[v] = r
    BY <1>0, <2>3 DEF OneSlot, TypeOK
  <2>5. org = {} => Owners' = {}
    BY <1>0, <2>3 DEF Owners, Belong, NoUser
  <2> QED BY <2>2, <2>4, <2>5 DEF SetupNeeded, ReadyForgets, At
<1>8. CASE CountOwners(s)
  <2>1. PICK r : r = [req[s] EXCEPT !.phase = "ready", !.hasOrg = FALSE]
    OBVIOUS
  <2>2. req[s].kind = "setup" /\ ~r.hasOrg
    BY <1>0, <1>8, <2>1 DEF TypeOK, Request, CountOwners, At
  <2>3. UNCHANGED <<org, user>> /\ req' = [req EXCEPT ![s] = r] /\ SetupRequired(s)
    BY <1>8, <2>1 DEF CountOwners, tables
  <2>4. \A v \in Slots : req'[v] = r
    BY <1>0, <2>3 DEF OneSlot, TypeOK
  <2>5. Owners' = {}
    BY <2>2, <2>3 DEF NothingOverlaps, SetupNeeded, SetupRequired, Owners
  <2> QED BY <2>2, <2>4, <2>5 DEF SetupNeeded, ReadyForgets
<1>9. CASE RefreshLoads(s) \/ LoadTarget(s)
  <2>1. PICK r : r = [req[s] EXCEPT !.phase = "ready"]
    OBVIOUS
  <2>2. r.kind # "setup"
    BY <1>0, <1>9, <2>1 DEF TypeOK, Request, RefreshLoads, LoadTarget, At, Edits
  <2> QED BY <1>9, <2>1, <2>2, NoSetupStep DEF RefreshLoads, LoadTarget
<1>10. CASE Serve(s)
  BY <1>1, <1>8, <1>9, <1>10 DEF Serve, Refuse, LoginCommit, RefreshCommit, LogoutCommit, EditCommit,
     CreateCommit, SetupCommit, ScriptAddsOwner
<1>11. CASE Arrives(s)
  BY <1>3, <1>4, <1>5, <1>6, <1>7, <1>11 DEF Arrives
<1> QED BY <1>10, <1>11

(* A request that runs alone overlaps with none.                           *)
LEMMA AloneStep ==
    ASSUME OneSlot, AccountsInv, NothingOverlaps, [Next]_vars
    PROVE  NothingOverlaps'
<1>1. ASSUME NEW s \in Slots, NEW k, NEW t, FindToken(s, k, t) PROVE raced' = {}
  <2>1. \A v \in Slots : ~InSession(v, t)
    BY <1>1 DEF OneSlot, FindToken, Begin, InSession, NoRequest
  <2> QED BY <1>1, <2>1 DEF FindToken, NothingOverlaps
<1>2. UNCHANGED raced => raced' = {}
  BY DEF NothingOverlaps
<1>3. ASSUME NEW s \in Slots, Arrives(s) PROVE raced' = {}
  BY <1>1, <1>2, <1>3 DEF Arrives, LoginLoads, Authenticate, AuthenticateSelf, CountOrganizations,
     sessions
<1>4. ASSUME NEW s \in Slots, Serve(s) PROVE raced' = {}
  BY <1>2, <1>4 DEF Serve, Refuse, LoginCommit, RefreshLoads, RefreshCommit, LogoutCommit, LoadTarget,
     EditCommit, CreateCommit, CountOwners, SetupCommit, ScriptAddsOwner, sessions
<1>5. ASSUME NEW s \in Slots, Arrives(s) \/ Serve(s) PROVE NothingOverlaps'
  BY <1>3, <1>4, <1>5, SetupAlone DEF NothingOverlaps
<1>6. ASSUME UNCHANGED <<user, req, raced>> PROVE NothingOverlaps'
  BY <1>6 DEF NothingOverlaps, SetupNeeded, ReadyForgets, Owners, At
<1>7. CASE UNCHANGED vars \/ ScriptAddsOrganization \/ \E t \in Tokens : Expire(t)
  BY <1>6, <1>7 DEF vars, Expire, ScriptAddsOrganization, sessions
<1> QED BY <1>5, <1>7 DEF Next, Step

(***************************************************************************)
(* While requests do not overlap, every session has one valid token until  *)
(* its logout and none after it, and a setup only ever goes ahead while    *)
(* there is no active owner.                                               *)
(***************************************************************************)
THEOREM SerialKeepsPromise == OneSlot => (Spec => []KeepsPromise)
<1> SUFFICES ASSUME OneSlot PROVE Spec => []KeepsPromise
  OBVIOUS
<1>1. Init => NothingOverlaps
  BY DEF Init, NothingOverlaps, SetupNeeded, ReadyForgets, At, NoRequest
<1>2. AccountsInv /\ NothingOverlaps /\ [Next]_vars => NothingOverlaps'
  BY AloneStep
<1>3. NothingOverlaps /\ OneTokenPerSession /\ LogoutEndsSession => KeepsPromise
  BY DEF NothingOverlaps, SetupNeeded, ReadyForgets, OneTokenPerSession, LogoutEndsSession,
     KeepsPromise, At
<1> QED BY <1>1, <1>2, <1>3, AccountsInvHolds, OneTokenHolds, LogoutHolds, PTL DEF Spec
=============================================================================
