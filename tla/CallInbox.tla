----------------------------- MODULE CallInbox -----------------------------
(***************************************************************************)
(* The call center: the inbox of provider events, the calls and messages   *)
(* they are about, the presence of the agents and the callbacks they owe.  *)
(*                                                                         *)
(* A provider sends each event again until it is answered with success, in *)
(* any order.  A delivery runs in one of the `Deliveries' slots and is cut *)
(* where the code commits: the receipt, the reading of the call, the       *)
(* transaction on it, the presence of the agent, the receipt again.  It    *)
(* may die between any two.  A staff request is a Read and a Commit in one *)
(* of the `Requests' slots.  Which contact a number belongs to, who may    *)
(* touch whose call, and all times are left out.                           *)
(***************************************************************************)
EXTENDS Naturals, FiniteSets

CONSTANTS
  CallEvents,      \* provider events about calls
  MessageEvents,   \* provider events about messages
  About(_),        \* the call or message an event names
  Says(_),         \* the call state an event reports
  ProviderCalls,   \* calls the provider knows
  ManualCalls,     \* calls that staff write down
  Messages,        \* messages, received or sent
  Agents,
  Nobody,          \* a call without handling employee
  Deliveries, Requests

VARIABLES
  receipt,         \* WebhookInbox: the status of the receipt of an event
  answered,        \* the events the provider got a success for
  call,            \* CallSession
  log,             \* CallEvent: who reported which state of a provider call
  told,            \* who was notified that a provider call was missed
  callback,        \* the calls with a callback task
  presence,        \* AgentPresence
  message,         \* WhatsappMessage: the delivery status
  req              \* the context of each delivery and request

vars == << receipt, answered, call, log, told, callback, presence, message, req >>
rows == << call, log, told, callback, message >>

Events == CallEvents \union MessageEvents
Calls  == ProviderCalls \union ManualCalls
Slots  == Deliveries \union Requests

-----------------------------------------------------------------------------
CallState == {"RINGING", "QUEUED", "ASSIGNED", "FORWARDED", "ANSWERED",
              "COMPLETED", "MISSED", "FAILED"}
TERMINAL_CALL_STATES == {"COMPLETED", "MISSED", "FAILED"}

CALL_TRANSITIONS ==
  [ RINGING   |-> {"QUEUED", "ASSIGNED", "MISSED", "FAILED"},
    QUEUED    |-> {"ASSIGNED", "MISSED", "FAILED"},
    ASSIGNED  |-> {"FORWARDED", "ANSWERED", "MISSED", "FAILED"},
    FORWARDED |-> {"ANSWERED", "MISSED", "FAILED"},
    ANSWERED  |-> {"COMPLETED", "FORWARDED", "FAILED"},
    COMPLETED |-> {}, MISSED |-> {}, FAILED |-> {} ]

(* The order of the delivery statuses; FAILED and RECEIVED are not in it.    *)
Rank(status) ==
  CASE status = "SIMULATED" -> 1 [] status = "SENT" -> 2
    [] status = "DELIVERED" -> 3 [] status = "READ" -> 4
    [] OTHER -> 0

ProviderStatuses == {"SENT", "DELIVERED", "READ", "FAILED"}

Idle   == [op |-> "idle"]
NoCall == [state |-> "none", handler |-> Nobody, disposed |-> FALSE]
Staff  == "staff"               \* a state that no provider event reported

ASSUME CallAssumption ==
  /\ CallEvents \intersect MessageEvents = {} /\ Staff \notin Events
  /\ ProviderCalls \intersect ManualCalls = {}
  /\ Deliveries \intersect Requests = {} /\ Nobody \notin Agents
  /\ \A e \in CallEvents : About(e) \in ProviderCalls /\ Says(e) \in CallState
  /\ \A e \in MessageEvents : About(e) \in Messages

Known(c) == call[c] # NoCall

(* Mutant: the state is stored as it was reported.                           *)
FirstStateAsReported(state) == state

(* What creating a call from an event makes of the state it reports.         *)
FirstState(state) == IF state = "RINGING" THEN "QUEUED" ELSE state

Entry(who, state) == [by |-> who, state |-> state]

-----------------------------------------------------------------------------
Goto(r, step) == req' = [req EXCEPT ![r].op = step]
End(r) == req' = [req EXCEPT ![r] = Idle]

(* Mutant: only an event that was processed is answered as a replay.         *)
ReplayProcessed(e) ==
  /\ e \notin answered
  /\ receipt[e] = "PROCESSED"
  /\ answered' = answered \union {e}
  /\ UNCHANGED << receipt, presence, req, rows >>

(* inbox.begin finds the receipt: whatever became of the first delivery, the *)
(* provider is told that the event is known.                                 *)
Replay(e) ==
  /\ e \notin answered
  /\ receipt[e] # "none"
  /\ answered' = answered \union {e}
  /\ UNCHANGED << receipt, presence, req, rows >>

(* inbox.begin takes the event: the unique key lets one delivery do that.    *)
begin(r, e) ==
  /\ req[r] = Idle
  /\ receipt[e] = "none"
  /\ receipt' = [receipt EXCEPT ![e] = "PROCESSING"]
  /\ req' = [req EXCEPT ![r] = [ op |-> IF e \in CallEvents THEN "look" ELSE "receive",
                                 e |-> e ]]
  /\ UNCHANGED << answered, presence, rows >>

(* Mutant: an event about an unknown call must be its ringing.               *)
LookForRinging(r) ==
  /\ req[r].op = "look"
  /\ LET e == req[r].e
         c == About(e)
     IN \/ /\ ~ Known(c)
           /\ Goto(r, IF Says(e) = "RINGING" THEN "create" ELSE "failed")
        \/ /\ Known(c)
           /\ Goto(r, "failed")
  /\ UNCHANGED << receipt, answered, presence, rows >>

(* Mutant: any reported state is taken over.                                 *)
LookForAny(r) ==
  /\ req[r].op = "look"
  /\ LET e == req[r].e
         c == About(e)
     IN \/ ~ Known(c) /\ Goto(r, "create")
        \/ Known(c) /\ call[c].state = Says(e) /\ Goto(r, "processed")
        \/ /\ Known(c) /\ call[c].state # Says(e)
           /\ req' = [req EXCEPT ![r] = [ op |-> "apply", e |-> e, c |-> c, by |-> e,
                                          seen |-> call[c].state, to |-> Says(e) ]]
  /\ UNCHANGED << receipt, answered, presence, rows >>

(* The call is unknown, or in the reported state, or may change to it.       *)
Look(r) ==
  /\ req[r].op = "look"
  /\ LET e == req[r].e
         c == About(e)
     IN \/ ~ Known(c) /\ Goto(r, "create")
        \/ Known(c) /\ call[c].state = Says(e) /\ Goto(r, "processed")
        \/ /\ Known(c) /\ Says(e) \in CALL_TRANSITIONS[call[c].state]
           /\ req' = [req EXCEPT ![r] = [ op |-> "apply", e |-> e, c |-> c, by |-> e,
                                          seen |-> call[c].state, to |-> Says(e) ]]
        \/ /\ Known(c) /\ call[c].state # Says(e)
           /\ Says(e) \notin CALL_TRANSITIONS[call[c].state]
           /\ Goto(r, "failed")
  /\ UNCHANGED << receipt, answered, presence, rows >>

(* The call's provider id is unique: of two deliveries one creates it.       *)
CreateCall(r) ==
  /\ req[r].op = "create"
  /\ LET e == req[r].e
         c == About(e)
         s == FirstState(Says(e))
     IN \/ /\ Known(c)
           /\ Goto(r, "failed")
           /\ UNCHANGED << call, log >>
        \/ /\ ~ Known(c)
           /\ call' = [call EXCEPT ![c].state = s]
           /\ log' = [log EXCEPT ![c] = @ \union {Entry(e, s)}]
           /\ Goto(r, "processed")
  /\ UNCHANGED << receipt, answered, told, callback, presence, message >>

(* Who a missed call is put on: its handling employee, else whoever owns the *)
(* contact.                                                                  *)
FollowsUp(c) == call[c].handler

(* The transaction of applyCallState, which checked `seen' before it.  What  *)
(* follows it is the presence of the handling employee.                      *)
applyCallState(r) ==
  /\ req[r].op = "apply"
  /\ LET c == req[r].c
         s == req[r].to
         h == call[c].handler
         missed == s = "MISSED"
     IN \/ /\ missed /\ FollowsUp(c) \in told[c]      \* the notification is unique
           /\ Goto(r, "failed")
           /\ UNCHANGED rows
        \/ /\ missed => FollowsUp(c) \notin told[c]
           /\ call' = [call EXCEPT ![c].state = s]
           /\ log' = [log EXCEPT ![c] = @ \union {Entry(req[r].by, s)}]
           /\ told' = IF missed THEN [told EXCEPT ![c] = @ \union {FollowsUp(c)}] ELSE told
           /\ callback' = IF missed THEN callback \union {c} ELSE callback
           /\ UNCHANGED message
           /\ IF h # Nobody /\ (s = "ANSWERED" \/ s \in TERMINAL_CALL_STATES)
              THEN req' = [req EXCEPT ![r] = [ op |-> "presence", e |-> req[r].e, c |-> c,
                                               a |-> h, busy |-> s = "ANSWERED" ]]
              ELSE Goto(r, "processed")
  /\ UNCHANGED << receipt, answered, presence >>

(* presence.busy or presence.available, after the transaction.               *)
showPresence(r) ==
  /\ req[r].op = "presence"
  /\ presence' = [presence EXCEPT ![req[r].a] =
                    IF req[r].busy THEN [status |-> "BUSY", on |-> req[r].c]
                                   ELSE [status |-> "AVAILABLE", on |-> Nobody]]
  /\ Goto(r, "processed")
  /\ UNCHANGED << receipt, answered, rows >>

(* An incoming message, its conversation and the notification, in one        *)
(* transaction; the provider's message id is unique.                         *)
ingestWhatsappEvent(r) ==
  /\ req[r].op = "receive"
  /\ LET m == About(req[r].e)
     IN \/ message[m] # "none" /\ Goto(r, "failed") /\ UNCHANGED message
        \/ /\ message[m] = "none"
           /\ message' = [message EXCEPT ![m] = "RECEIVED"]
           /\ Goto(r, "processed")
  /\ UNCHANGED << receipt, answered, call, log, told, callback, presence >>

(* The end of a delivery: the receipt is closed and the provider answered.   *)
processed(r) ==
  /\ r \in Deliveries
  /\ req[r].op = "processed"
  /\ receipt' = [receipt EXCEPT ![req[r].e] = "PROCESSED"]
  /\ answered' = answered \union {req[r].e}
  /\ End(r)
  /\ UNCHANGED << presence, rows >>

(* Mutant: the error is swallowed and the receipt closed as a success.       *)
failedUnseen(r) ==
  /\ r \in Deliveries
  /\ req[r].op = "failed"
  /\ receipt' = [receipt EXCEPT ![req[r].e] = "PROCESSED"]
  /\ End(r)
  /\ UNCHANGED << answered, presence, rows >>

(* The error is recorded and thrown: the provider gets no success.           *)
failed(r) ==
  /\ r \in Deliveries
  /\ req[r].op = "failed"
  /\ receipt' = [receipt EXCEPT ![req[r].e] = "FAILED"]
  /\ End(r)
  /\ UNCHANGED << answered, presence, rows >>

(* The process dies, or loses its database: what was committed stays.        *)
Crash(r) ==
  /\ req[r] # Idle
  /\ End(r)
  /\ UNCHANGED << receipt, answered, presence, rows >>

-----------------------------------------------------------------------------
(* The staff. *)

Start(r, context) ==
  /\ req[r] = Idle
  /\ req' = [req EXCEPT ![r] = context]
  /\ UNCHANGED << receipt, answered, presence, rows >>

(* A staff request that is through, or was refused, has nothing to close.    *)
Reply(r) ==
  /\ r \in Requests
  /\ req[r].op \in {"processed", "failed"}
  /\ End(r)
  /\ UNCHANGED << receipt, answered, presence, rows >>

(* PATCH calls/:id/state. *)
transitionCall(r, c, s) ==
  /\ Known(c)
  /\ s \in CALL_TRANSITIONS[call[c].state]
  /\ Start(r, [ op |-> "apply", e |-> Staff, c |-> c, by |-> Staff,
                seen |-> call[c].state, to |-> s ])

(* A call that has a handling employee is transferred: the provider moves it *)
(* before the transaction.                                                   *)
ReadAssign(r, c, a) ==
  /\ Known(c)
  /\ call[c].state \notin TERMINAL_CALL_STATES
  /\ Start(r, [ op |-> "assign", c |-> c, a |-> a, seen |-> call[c].state,
                to |-> IF call[c].handler = Nobody THEN "ASSIGNED" ELSE "FORWARDED" ])

CommitAssign(r) ==
  /\ req[r].op = "assign"
  /\ LET c == req[r].c
     IN /\ call' = [call EXCEPT ![c].handler = req[r].a, ![c].state = req[r].to]
        /\ log' = [log EXCEPT ![c] = @ \union {Entry(Staff, req[r].to)}]
  /\ End(r)
  /\ UNCHANGED << receipt, answered, told, callback, presence, message >>

ReadDisposition(r, c, again) ==
  /\ Known(c)
  /\ call[c].handler # Nobody
  /\ call[c].state \in TERMINAL_CALL_STATES
  /\ Start(r, [op |-> "dispose", c |-> c, again |-> again])

(* The outcome of a call and, if the client is to be called `again', a task. *)
CommitDisposition(r) ==
  /\ req[r].op = "dispose"
  /\ call' = [call EXCEPT ![req[r].c].disposed = TRUE]
  /\ callback' = IF req[r].again THEN callback \union {req[r].c} ELSE callback
  /\ End(r)
  /\ UNCHANGED << receipt, answered, log, told, presence, message >>

(* A call that was taken down by hand is over: it is created, and edited, in *)
(* a terminal state.  Nothing reads its history, which is left out.          *)
createManualCall(c, a, s, again) ==
  /\ ~ Known(c)
  /\ call' = [call EXCEPT ![c] = [state |-> s, handler |-> a, disposed |-> TRUE]]
  /\ callback' = IF again THEN callback \union {c} ELSE callback
  /\ UNCHANGED << receipt, answered, log, told, presence, message, req >>

updateManualCall(c, a, s, again) ==
  /\ Known(c)
  /\ call' = [call EXCEPT ![c].state = s, ![c].handler = a]
  /\ callback' = IF again THEN callback \union {c} ELSE callback
  /\ UNCHANGED << receipt, answered, log, told, presence, message, req >>

(* An agent sets the own status; only BUSY keeps the current call.           *)
setManual(a, status) ==
  /\ presence' = [presence EXCEPT ![a] =
                    [status |-> status, on |-> IF status = "BUSY" THEN @.on ELSE Nobody]]
  /\ UNCHANGED << receipt, answered, req, rows >>

(* Listing the agents turns those without a heartbeat off.                   *)
list(stale) ==
  /\ presence' = [a \in Agents |-> IF a \in stale THEN [status |-> "OFFLINE", on |-> Nobody]
                                                  ELSE presence[a]]
  /\ UNCHANGED << receipt, answered, req, rows >>

(* The idempotency key names the message: a repeated reply finds it.         *)
replyWhatsapp(m) ==
  /\ message[m] = "none"
  /\ message' = [message EXCEPT ![m] = "SIMULATED"]
  /\ UNCHANGED << receipt, answered, call, log, told, callback, presence, req >>

(* Mutant: a status that arrives late is written over a newer one.           *)
ReadMessageStatusLate(r, m, status) ==
  /\ message[m] # "none"
  /\ message[m] # status
  /\ Start(r, [op |-> "status", m |-> m, to |-> status, seen |-> message[m]])

(* A status that is not news is dropped, but a failure always is.            *)
ReadMessageStatus(r, m, status) ==
  /\ message[m] # "none"
  /\ status = "FAILED" \/ Rank(status) > Rank(message[m])
  /\ Start(r, [op |-> "status", m |-> m, to |-> status, seen |-> message[m]])

CommitMessageStatus(r) ==
  /\ req[r].op = "status"
  /\ message' = [message EXCEPT ![req[r].m] = req[r].to]
  /\ End(r)
  /\ UNCHANGED << receipt, answered, call, log, told, callback, presence >>

-----------------------------------------------------------------------------
Init ==
  /\ receipt = [e \in Events |-> "none"]
  /\ answered = {}
  /\ call = [c \in Calls |-> NoCall]
  /\ log = [c \in ProviderCalls |-> {}]
  /\ told = [c \in ProviderCalls |-> {}]
  /\ callback = {}
  /\ presence = [a \in Agents |-> [status |-> "OFFLINE", on |-> Nobody]]
  /\ message = [m \in Messages |-> "none"]
  /\ req = [r \in Slots |-> Idle]

(* One more step of a delivery, or of the request that changes a call.       *)
Proceed(r) ==
  \/ Look(r) \/ CreateCall(r) \/ applyCallState(r) \/ showPresence(r)
  \/ ingestWhatsappEvent(r) \/ processed(r) \/ failed(r)

(* The provider sends an event, for the first time or again.                 *)
Deliver(e) == Replay(e) \/ \E r \in Deliveries : begin(r, e)

Ask(r) ==
  \/ \E c \in Calls :
       \/ \E s \in CallState : transitionCall(r, c, s)
       \/ \E a \in Agents : ReadAssign(r, c, a)
       \/ \E again \in BOOLEAN : ReadDisposition(r, c, again)
  \/ \E m \in Messages, status \in ProviderStatuses : ReadMessageStatus(r, m, status)
  \/ CommitAssign(r) \/ CommitDisposition(r) \/ CommitMessageStatus(r) \/ Reply(r)

Next ==
  \/ \E e \in Events : Deliver(e)
  \/ \E r \in Slots : Proceed(r) \/ Crash(r)
  \/ \E r \in Requests : Ask(r)
  \/ \E c \in ManualCalls, a \in Agents, s \in TERMINAL_CALL_STATES, again \in BOOLEAN :
       createManualCall(c, a, s, again) \/ updateManualCall(c, a, s, again)
  \/ \E a \in Agents, status \in {"AVAILABLE", "BUSY", "OFFLINE"} : setManual(a, status)
  \/ \E stale \in SUBSET Agents : list(stale)
  \/ \E m \in Messages : replyWhatsapp(m)

(* The provider goes on sending what was not answered, and a server that     *)
(* does not die goes on with what it took.                                   *)
Fairness ==
  /\ \A e \in Events : WF_vars(Deliver(e))
  /\ \A r \in Deliveries : WF_vars(Proceed(r))

Spec == Init /\ [][Next]_vars /\ Fairness

-----------------------------------------------------------------------------
(* The rows have the shape the handlers give them; no stored call is RINGING.  *)
TypeOK ==
  /\ receipt \in [Events -> {"none", "PROCESSING", "PROCESSED", "FAILED"}]
  /\ answered \subseteq Events
  /\ call \in [Calls -> [state : (CallState \ {"RINGING"}) \union {"none"},
                         handler : Agents \union {Nobody}, disposed : BOOLEAN]]
  /\ \A c \in ProviderCalls : log[c] \subseteq [by : Events \union {Staff}, state : CallState]
  /\ told \in [ProviderCalls -> SUBSET (Agents \union {Nobody})]
  /\ callback \subseteq Calls
  /\ presence \in [Agents -> [status : {"OFFLINE", "AVAILABLE", "BUSY"},
                              on : Calls \union {Nobody}]]
  /\ message \in [Messages -> {"none", "RECEIVED", "SIMULATED"} \union ProviderStatuses]

(* A receipt is closed as a success only when what its event reports is in   *)
(* the history of the call, or the message is stored.                        *)
ProcessedIsRecorded ==
  \A e \in Events : receipt[e] = "PROCESSED" =>
    IF e \in CallEvents
    THEN \E entry \in log[About(e)] : entry.state = FirstState(Says(e))
    ELSE message[About(e)] # "none"

(* What the request saw is no longer so.                                     *)
Stale(r) ==
  \/ req[r].op \in {"apply", "assign"} /\ call[req[r].c].state # req[r].seen
  \/ req[r].op = "status" /\ message[req[r].m] # req[r].seen

(* A provider call moves along its table, or is assigned while it is still   *)
(* open, except when a request writes what it decided on an older state.     *)
FollowsCallTable ==
  [][ \A c \in ProviderCalls :
        \/ call'[c].state = call[c].state
        \/ ~ Known(c)
        \/ call'[c].state \in CALL_TRANSITIONS[call[c].state]
        \/ /\ call[c].state \notin TERMINAL_CALL_STATES
           /\ call'[c].handler # Nobody
           /\ call'[c].state \in {"ASSIGNED", "FORWARDED"}
        \/ \E r \in Slots : Stale(r) ]_vars

(* The delivery status of a message never goes back, whatever the order in   *)
(* which the provider reports, except to or from a failure or by a request   *)
(* that read an older status.                                                *)
StatusMovesForward ==
  [][ \A m \in Messages :
        \/ Rank(message'[m]) >= Rank(message[m])
        \/ message'[m] = "FAILED"
        \/ \E r \in Slots : Stale(r) ]_vars

(* A call the provider reports becomes known, however its events are         *)
(* ordered, unless every delivery that took one of them died.                *)
EventuallyKnown ==
  \A c \in ProviderCalls :
    <>[](Known(c) \/ \A e \in CallEvents : About(e) = c => receipt[e] = "PROCESSING")

(* The inbox delivers as promised: an event is taken once, recorded in the   *)
(* history of a call at most once and only then, and answered in the end.    *)
Delivery == INSTANCE EventDelivery WITH
  taken <- {e \in Events : receipt[e] # "none"},
  applied <- {e \in CallEvents : \E c \in ProviderCalls : \E entry \in log[c] : entry.by = e}

ImplementsDelivery == Delivery!Spec
=============================================================================
