---------------------------- MODULE Notifications ----------------------------
(***************************************************************************)
(* Notifications of one organization (backend/app/core/notifications.py,   *)
(* api/notifications.py): the deliveries enqueued in the transaction that  *)
(* creates an alert, and passes of process_pending_deliveries over them.   *)
(*                                                                         *)
(* A pass loads a batch of rows, sends one message after the other, and    *)
(* commits once at the end.  The code has no worker of its own: any number *)
(* of processes may make passes at the same time, and may stop in one.     *)
(***************************************************************************)
EXTENDS Naturals, FiniteSets

CONSTANTS
    AlertNos,    \* the alerts, numbered in the order of their created_at
    Rules,       \* notification rules
    Channels,    \* notification channels
    Workers,     \* processes that make passes
    BatchLimit,  \* rows per pass (25)
    RetryLimit,  \* settings.notification_retry_limit (3)
    MaxCrashes   \* bound: passes that die

ASSUME NumbersAssumption == AlertNos \subseteq Nat /\ MaxCrashes \in Nat
ASSUME LimitsAssumption  == BatchLimit \in Nat \ {0} /\ RetryLimit \in Nat \ {0}

(* One delivery per new alert, matching rule and channel of that rule.     *)
Routes == Rules \X Channels
Deliveries == AlertNos \X Routes

VARIABLES
    enabled,  \* notification_channels.enabled
    routes,   \* the routes of the enabled rules that match
    draft,    \* per alert, the rows its check-in has added but not committed
    row,      \* notification_deliveries
    pass,     \* the pass each worker is in
    tries,    \* history: messages handed to the channel, per delivery
    arrived,  \* history: has the channel taken a message of the delivery?
    crashes,  \* history: passes that died
    shared    \* history: deliveries two passes have had loaded at the same time

config == <<enabled, routes>>
ledger == <<tries, arrived>>
faults == <<crashes, shared>>
vars == <<enabled, routes, draft, row, pass, tries, arrived, crashes, shared>>

Row == [status : {"none", "pending", "sent", "failed", "skipped"}, attempts : Nat]

NoRow == [status |-> "none", attempts |-> 0]

(***************************************************************************)
(* `todo` are the rows of the batch still to be processed, `copy` the rows *)
(* as the pass sees them, `tried` those it has attempted.                  *)
(***************************************************************************)
Pass == [todo : SUBSET Deliveries, copy : [Deliveries -> Row], tried : SUBSET Deliveries]

NoRows == [d \in Deliveries |-> NoRow]

NoPass == [todo |-> {}, copy |-> NoRows, tried |-> {}]

Init ==
    /\ enabled = [c \in Channels |-> TRUE]
    /\ routes  = {}
    /\ draft   = [a \in AlertNos |-> NoRows]
    /\ row     = NoRows
    /\ pass    = [w \in Workers |-> NoPass]
    /\ tries   = [d \in Deliveries |-> 0]
    /\ arrived = [d \in Deliveries |-> FALSE]
    /\ crashes = 0
    /\ shared  = {}

-----------------------------------------------------------------------------
(* POST and PATCH of rules and channels.  Nothing deletes a channel.       *)
PatchRules(R) ==
    /\ routes' = R
    /\ UNCHANGED <<enabled, draft, row, pass, ledger, faults>>

PatchChannel(c) ==
    /\ enabled' = [enabled EXCEPT ![c] = ~@]
    /\ UNCHANGED <<routes, draft, row, pass, ledger, faults>>

-----------------------------------------------------------------------------
Unborn(a) == \A r \in Routes : row[<<a, r>>] = NoRow

(***************************************************************************)
(* enqueue_alert_notifications, inside the check-in that creates alert a;  *)
(* the rows show when that check-in commits, or never.                     *)
(***************************************************************************)
Enqueue(a) ==
    /\ Unborn(a) /\ draft[a] = NoRows
    /\ draft' = [draft EXCEPT ![a] =
          [d \in Deliveries |->
              IF d[1] = a /\ d[2] \in routes
              THEN [status |-> IF enabled[d[2][2]] THEN "pending" ELSE "skipped",
                    attempts |-> 0]
              ELSE NoRow]]
    /\ UNCHANGED <<config, row, pass, ledger, faults>>

CheckinCommits(a) ==
    /\ draft[a] # NoRows
    /\ row' = [d \in Deliveries |-> IF d[1] = a THEN draft[a][d] ELSE row[d]]
    /\ draft' = [draft EXCEPT ![a] = NoRows]
    /\ UNCHANGED <<config, pass, ledger, faults>>

CheckinFails(a) ==
    /\ draft[a] # NoRows
    /\ draft' = [draft EXCEPT ![a] = NoRows]
    /\ UNCHANGED <<config, row, pass, ledger, faults>>

-----------------------------------------------------------------------------
\* Faulty variant: failed rows are taken up again.
PendingOrFailed == {d \in Deliveries : row[d].status \in {"pending", "failed"}}

Pending == {d \in Deliveries : row[d].status = "pending"}

(* B are the first rows of S by created_at; rows of one alert tie.         *)
Oldest(B, S) ==
    /\ B \subseteq S
    /\ Cardinality(B) = IF Cardinality(S) < BatchLimit THEN Cardinality(S) ELSE BatchLimit
    /\ \A d \in B, e \in S \ B : d[1] <= e[1]

Loaded(w, d) == pass[w].copy[d].status # "none"

SelectPending(w) ==
    /\ pass[w] = NoPass
    /\ Pending # {}
    /\ \E B \in SUBSET Pending :
        /\ Oldest(B, Pending)
        /\ pass' = [pass EXCEPT ![w] =
              [todo |-> B, tried |-> {},
               copy |-> [d \in Deliveries |-> IF d \in B THEN row[d] ELSE NoRow]]]
        /\ shared' = shared \cup {d \in B : \E v \in Workers : Loaded(v, d)}
    /\ UNCHANGED <<config, draft, row, ledger, crashes>>

(* The delivery whose turn it is in the pass of w.                         *)
Turn(w, d) ==
    /\ d \in pass[w].todo
    /\ \A e \in pass[w].todo : d[1] <= e[1]

\* Pass p is done with delivery d, whose row is now r.
Passed(p, d, r, tried) ==
    [todo |-> p.todo \ {d}, copy |-> [p.copy EXCEPT ![d] = r], tried |-> tried]

\* Faulty variant: returns without a word.
SkipDisabledSilently(w, d) ==
    /\ Turn(w, d)
    /\ ~enabled[d[2][2]]
    /\ pass' = [pass EXCEPT ![w].todo = @ \ {d}]
    /\ UNCHANGED <<config, draft, row, ledger, faults>>

\* Faulty variant: a status the schema does not know.
SkipDisabledMisspelt(w, d) ==
    /\ Turn(w, d)
    /\ ~enabled[d[2][2]]
    /\ pass' = [pass EXCEPT ![w].todo = @ \ {d}, ![w].copy[d].status = "disabled"]
    /\ UNCHANGED <<config, draft, row, ledger, faults>>

SkipDisabled(w, d) ==
    /\ Turn(w, d)
    /\ ~enabled[d[2][2]]
    /\ pass' = [pass EXCEPT ![w] = Passed(@, d, [@.copy[d] EXCEPT !.status = "skipped"],
                                          @.tried)]
    /\ UNCHANGED <<config, draft, row, ledger, faults>>

Tried(w, d, status) ==
    [pass EXCEPT ![w] =
        Passed(@, d, [status |-> status, attempts |-> @.copy[d].attempts + 1],
               @.tried \cup {d})]

Send(w, d) ==
    /\ Turn(w, d)
    /\ enabled[d[2][2]]
    /\ tries' = [tries EXCEPT ![d] = @ + 1]
    /\ arrived' = [arrived EXCEPT ![d] = TRUE]
    /\ pass' = Tried(w, d, "sent")
    /\ UNCHANGED <<config, draft, row, faults>>

\* Faulty variant: the error path falls through to "sent".
SendFailsThenSent(w, d) ==
    /\ Turn(w, d)
    /\ enabled[d[2][2]]
    /\ tries' = [tries EXCEPT ![d] = @ + 1]
    /\ \E t \in BOOLEAN : arrived' = [arrived EXCEPT ![d] = @ \/ t]
    /\ pass' = Tried(w, d, "sent")
    /\ UNCHANGED <<config, draft, row, faults>>

\* Faulty variant: gives up one attempt too early.
SendFailsEarly(w, d) ==
    /\ Turn(w, d)
    /\ enabled[d[2][2]]
    /\ tries' = [tries EXCEPT ![d] = @ + 1]
    /\ \E t \in BOOLEAN : arrived' = [arrived EXCEPT ![d] = @ \/ t]
    /\ pass' = Tried(w, d, IF pass[w].copy[d].attempts + 2 >= RetryLimit
                           THEN "failed" ELSE "pending")
    /\ UNCHANGED <<config, draft, row, faults>>

(* An error, possibly after the channel has taken the message.             *)
SendFails(w, d) ==
    /\ Turn(w, d)
    /\ enabled[d[2][2]]
    /\ tries' = [tries EXCEPT ![d] = @ + 1]
    /\ \E t \in BOOLEAN : arrived' = [arrived EXCEPT ![d] = @ \/ t]
    /\ pass' = Tried(w, d, IF pass[w].copy[d].attempts + 1 >= RetryLimit
                           THEN "failed" ELSE "pending")
    /\ UNCHANGED <<config, draft, row, faults>>

(***************************************************************************)
(* One commit for the batch.  The UPDATE of a row names the columns that   *)
(* changed: a status that is still "pending" is not among them.            *)
(***************************************************************************)
PassCommits(w) ==
    /\ pass[w] # NoPass
    /\ pass[w].todo = {}
    /\ row' = [d \in Deliveries |->
          [status   |-> IF pass[w].copy[d].status \in {"sent", "failed", "skipped"}
                        THEN pass[w].copy[d].status ELSE row[d].status,
           attempts |-> IF d \in pass[w].tried
                        THEN pass[w].copy[d].attempts ELSE row[d].attempts]]
    /\ pass' = [pass EXCEPT ![w] = NoPass]
    /\ UNCHANGED <<config, draft, ledger, faults>>

(* The process stops in a pass: what it sent is sent, what it noted lost.  *)
Crash(w) ==
    /\ pass[w] # NoPass
    /\ crashes < MaxCrashes
    /\ crashes' = crashes + 1
    /\ pass' = [pass EXCEPT ![w] = NoPass]
    /\ UNCHANGED <<config, draft, row, ledger, shared>>

-----------------------------------------------------------------------------
Works(w) ==
    \/ SelectPending(w)
    \/ \E d \in Deliveries : SkipDisabled(w, d) \/ Send(w, d) \/ SendFails(w, d)
    \/ PassCommits(w)

Next ==
    \/ \E R \in SUBSET Routes : PatchRules(R)
    \/ \E c \in Channels : PatchChannel(c)
    \/ \E a \in AlertNos : Enqueue(a) \/ CheckinCommits(a) \/ CheckinFails(a)
    \/ \E w \in Workers : Works(w) \/ Crash(w)

Spec == Init /\ [][Next]_vars

(* Some process keeps making passes.                                       *)
FairWorkers == Spec /\ \A w \in Workers : WF_vars(Works(w))

-----------------------------------------------------------------------------
(* Type invariant.                                                         *)
TypeOK ==
    /\ enabled \in [Channels -> BOOLEAN]
    /\ routes \subseteq Routes
    /\ draft \in [AlertNos -> [Deliveries -> Row]]
    /\ row \in [Deliveries -> Row]
    /\ pass \in [Workers -> Pass]
    /\ tries \in [Deliveries -> Nat]
    /\ arrived \in [Deliveries -> BOOLEAN]
    /\ crashes \in 0..MaxCrashes
    /\ shared \subseteq Deliveries

(***************************************************************************)
(* A delivery that is recorded as sent has reached its channel, whatever   *)
(* other passes over the same rows wrote.                                  *)
(***************************************************************************)
SentMeansArrived == \A d \in Deliveries : row[d].status = "sent" => arrived[d]

(***************************************************************************)
(* A delivery is given up only after RetryLimit messages were tried, even  *)
(* when passes overlap and write back the attempts they loaded.            *)
(***************************************************************************)
FailedMeansTried ==
    \A d \in Deliveries : row[d].status = "failed" => tries[d] >= RetryLimit

(***************************************************************************)
(* What was sent, failed or skipped stays so, whatever crashes, unless two *)
(* passes have overlapped on that very delivery.                           *)
(***************************************************************************)
OutcomesAreFinal ==
    [][\A d \in Deliveries \ shared : row[d].status \in {"sent", "failed", "skipped"}
            => row'[d] = row[d]]_vars

(***************************************************************************)
(* docs/Architecture.md: the delivery service "applies retry limits".  As  *)
(* long as passes do not overlap on it, a message exceeds the limit by one *)
(* try for each pass that died before it recorded its attempts, no more.   *)
(***************************************************************************)
TriesAreBounded == \A d \in Deliveries \ shared : tries[d] <= RetryLimit + crashes

(***************************************************************************)
(* Every delivery gets its outcome: deliveries that keep failing, which    *)
(* stay at the head of the queue, do not hold up the others for ever.      *)
(***************************************************************************)
DeliveriesSettle ==
    \A d \in Deliveries : row[d].status = "pending" ~> row[d].status # "pending"
=============================================================================
