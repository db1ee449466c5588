-------------------------- MODULE CallInbox_proofs --------------------------
(***************************************************************************)
(* Proofs about CallInbox, for every set of events, calls, messages,       *)
(* agents, deliveries and requests, with crashes anywhere: what is closed  *)
(* as processed is recorded, calls and messages move along their tables,   *)
(* and an event has its effect once, after it was taken.                   *)
(***************************************************************************)
EXTENDS CallInbox, TLAPS

Entries == [by : Events \union {Staff}, state : CallState]

CallRows ==
  [ state : (CallState \ {"RINGING"}) \union {"none"}, handler : Agents \union {Nobody},
    disposed : BOOLEAN ]

Typed ==
  /\ receipt \in [Events -> {"none", "PROCESSING", "PROCESSED", "FAILED"}]
  /\ answered \subseteq Events
  /\ call \in [Calls -> CallRows]
  /\ log \in [ProviderCalls -> SUBSET Entries]
  /\ told \in [ProviderCalls -> SUBSET (Agents \union {Nobody})]
  /\ callback \subseteq Calls
  /\ presence \in [Agents -> [status : {"OFFLINE", "AVAILABLE", "BUSY"},
                              on : Calls \union {Nobody}]]
  /\ message \in [Messages -> {"none", "RECEIVED", "SIMULATED"} \union ProviderStatuses]
  /\ DOMAIN req = Slots

(* What an event reports is in the history of its call, or is stored.        *)
Recorded(e) ==
  IF e \in CallEvents
  THEN \E entry \in log[About(e)] : entry.state = FirstState(Says(e))
  ELSE message[About(e)] # "none"

(* The state of a call is the last that its history tells of; a call that    *)
(* was taken down by hand is over.                                           *)
CallsSound ==
  /\ \A c \in Calls : call[c].state = "none" => ~ Known(c)
  /\ \A c \in ManualCalls : call[c].state \in TERMINAL_CALL_STATES \union {"none"}
  /\ \A c \in ProviderCalls : Known(c) => \E entry \in log[c] : entry.state = call[c].state

Handling == {"look", "create", "receive", "apply", "presence", "processed", "failed"}

(* What a slot has read or committed so far.                                 *)
Carries(r, k) ==
  /\ k.op \in Handling => {"op", "e"} \subseteq DOMAIN k
  /\ k.op \in Handling => (k.e \in Events \/ (k.e = Staff /\ r \in Requests))
  /\ k.op \in {"look", "create"} => k.e \in CallEvents
  /\ k.op = "receive" => k.e \in MessageEvents
  /\ k.op = "apply" =>
       /\ k.c \in ProviderCalls /\ Known(k.c) /\ k.by = k.e
       /\ k.seen \in CallState /\ k.to \in CALL_TRANSITIONS[k.seen]
       /\ k.e \in Events => k.e \in CallEvents /\ k.c = About(k.e) /\ k.to = Says(k.e)
  /\ k.op = "presence" => k.c \in Calls /\ k.a \in Agents
  /\ k.op \in {"presence", "processed"} /\ k.e \in Events => Recorded(k.e)
  /\ k.op = "assign" =>
       /\ k.c \in ProviderCalls /\ Known(k.c) /\ k.a \in Agents
       /\ k.seen \in CallState \ TERMINAL_CALL_STATES /\ k.to \in {"ASSIGNED", "FORWARDED"}
  /\ k.op = "dispose" => k.c \in Calls /\ Known(k.c)
  /\ k.op = "status" =>
       /\ k.m \in Messages /\ message[k.m] # "none" /\ k.to \in ProviderStatuses
       /\ k.to = "FAILED" \/ Rank(k.to) > Rank(k.seen)

Contexts == \A r \in Slots : Carries(r, req[r])

(* The inductive invariant.                                                  *)
Sound == Typed /\ CallsSound /\ Contexts /\ ProcessedIsRecorded

-----------------------------------------------------------------------------
(* The table of the calls: no state leads to RINGING, and none leads out of  *)
(* a state that ends a call.                                                 *)
LEMMA Table ==
  /\ DOMAIN CALL_TRANSITIONS = CallState
  /\ \A s \in CallState : CALL_TRANSITIONS[s] \subseteq CallState \ {"RINGING"}
  /\ \A s \in TERMINAL_CALL_STATES : CALL_TRANSITIONS[s] = {}
  /\ TERMINAL_CALL_STATES \subseteq CallState \ {"RINGING"}
  /\ "none" \notin CallState
  /\ \A s \in CallState : FirstState(s) \in CallState \ {"RINGING"}
  /\ \A s \in CallState \ {"RINGING"} : FirstState(s) = s
BY DEF CALL_TRANSITIONS, CallState, TERMINAL_CALL_STATES, FirstState

(* Nothing that is on record is taken back.                                  *)
Monotone ==
  /\ \A c \in Calls : Known(c) => Known(c)'
  /\ \A c \in ProviderCalls : log[c] \subseteq log'[c]
  /\ \A m \in Messages : message[m] # "none" => message'[m] # "none"
  /\ \A e \in Events : receipt[e] # "none" => receipt'[e] # "none"

LEMMA RecordedStays ==
  ASSUME Monotone, NEW e \in Events, Recorded(e)
  PROVE  Recorded(e)'
<1>1. CASE e \in CallEvents
  <2>1. About(e) \in ProviderCalls
    BY <1>1, CallAssumption DEF CallAssumption
  <2> QED BY <2>1, <1>1 DEF Recorded, Monotone
<1>2. CASE e \notin CallEvents
  <2>1. About(e) \in Messages
    BY <1>2, CallAssumption DEF CallAssumption, Events
  <2> QED BY <2>1, <1>2 DEF Recorded, Monotone
<1>3. QED
  BY <1>1, <1>2

LEMMA CarriesStays ==
  ASSUME Monotone, NEW r, NEW k, Carries(r, k)
  PROVE  Carries(r, k)'
<1>1. k.op \in {"presence", "processed"} /\ k.e \in Events => Recorded(k.e)'
  BY RecordedStays DEF Carries
<1>2. \A c \in Calls : Known(c) => Known(c)'
  BY DEF Monotone
<1>3. ProviderCalls \subseteq Calls
  BY DEF Calls
<1>4. \A m \in Messages : message[m] # "none" => message'[m] # "none"
  BY DEF Monotone
<1>5. QED
  BY <1>1, <1>2, <1>3, <1>4 DEF Carries

(* What is left to show of a step, once it takes nothing back: its slot      *)
(* carries what it has read or written.                                      *)
Replaced(r, k) == req' = [req EXCEPT ![r] = k] /\ Carries(r, k)'
Leaves(r) == req' = [req EXCEPT ![r] = Idle]

LEMMA StepSound ==
  ASSUME Sound, Monotone, Typed', CallsSound',
         req' = req \/ \E r \in Slots : Leaves(r) \/ \E k : Replaced(r, k),
         \A e \in Events : receipt'[e] = "PROCESSED" => receipt[e] = "PROCESSED" \/ Recorded(e)
  PROVE  Sound'
<1>1. \A q \in Slots : Carries(q, Idle)'
  BY DEF Carries, Idle, Handling
<1>2. ASSUME NEW q \in Slots PROVE Carries(q, req[q])'
  <2>1. PICK k : k = req'[q]
    OBVIOUS
  <2>2. k = req[q] \/ k = Idle \/ Carries(q, k)'
    BY <2>1 DEF Replaced, Leaves, Sound, Typed
  <2>3. Carries(q, k)'
    BY <2>2, <1>1, CarriesStays DEF Sound, Contexts
  <2> QED BY <2>1, <2>3 DEF Carries, Recorded, Known
<1>3. ProcessedIsRecorded'
  <2>1. ASSUME NEW e \in Events, receipt'[e] = "PROCESSED" PROVE Recorded(e)'
    <3>1. Recorded(e)
      BY <2>1 DEF Sound, ProcessedIsRecorded, Recorded
    <3> QED BY <3>1, RecordedStays
  <2> QED BY <2>1 DEF ProcessedIsRecorded, Recorded
<1>4. QED
  BY <1>2, <1>3 DEF Sound, Contexts

-----------------------------------------------------------------------------
(* A step that leaves the calls and the messages alone takes nothing back.   *)
LEMMA Quiet ==
  ASSUME Sound, UNCHANGED rows, DOMAIN req' = Slots,
         receipt' \in [Events -> {"none", "PROCESSING", "PROCESSED", "FAILED"}],
         \A e \in Events : receipt[e] # "none" => receipt'[e] # "none",
         answered' \subseteq Events,
         presence' \in [Agents -> [status : {"OFFLINE", "AVAILABLE", "BUSY"},
                                   on : Calls \union {Nobody}]]
  PROVE  Monotone /\ Typed' /\ CallsSound'
<1>1. call' = call /\ log' = log /\ told' = told /\ callback' = callback /\ message' = message
  BY DEF rows
<1>2. Monotone
  BY <1>1 DEF Monotone, Known
<1>3. Typed'
  BY <1>1 DEF Typed, Sound
<1>4. CallsSound'
  BY <1>1 DEF CallsSound, Sound, Known
<1>5. QED
  BY <1>2, <1>3, <1>4

(* A slot that goes to the next step keeps its event.                        *)
LEMMA GoesOn ==
  ASSUME Sound, NEW r \in Slots, req[r].op \in Handling, NEW step \in Handling, Goto(r, step)
  PROVE  \E k : /\ req' = [req EXCEPT ![r] = k]
                /\ k.op = step /\ k.e = req[r].e /\ {"op", "e"} \subseteq DOMAIN k
                /\ (k.e \in Events \/ (k.e = Staff /\ r \in Requests))
<1>1. Carries(r, req[r])
  BY DEF Sound, Contexts
<1> DEFINE k == [req[r] EXCEPT !.op = step]
<1>2. req' = [req EXCEPT ![r] = k]
  BY DEF Goto
<1>3. {"op", "e"} \subseteq DOMAIN req[r] /\ (req[r].e \in Events \/ (req[r].e = Staff /\ r \in Requests))
  BY <1>1 DEF Carries
<1>4. k.op = step /\ k.e = req[r].e /\ {"op", "e"} \subseteq DOMAIN k
  BY <1>3
<1>5. QED
  BY <1>2, <1>3, <1>4

LEMMA ReplaySound == ASSUME Sound, NEW e \in Events, Replay(e) PROVE Sound'
<1>1. Monotone /\ Typed' /\ CallsSound'
  BY Quiet DEF Replay, Sound, Typed
<1>2. QED
  BY <1>1, StepSound DEF Replay

LEMMA BeginSound ==
  ASSUME Sound, NEW r \in Deliveries, NEW e \in Events, begin(r, e) PROVE Sound'
<1> DEFINE k == [op |-> IF e \in CallEvents THEN "look" ELSE "receive", e |-> e]
<1>1. r \in Slots /\ req' = [req EXCEPT ![r] = k]
  BY DEF begin, Slots
<1>2. Monotone /\ Typed' /\ CallsSound'
  BY <1>1, Quiet DEF begin, Sound, Typed
<1>3. Carries(r, k)'
  BY DEF Carries, Handling, Events
<1>4. \A x \in Events : receipt'[x] = "PROCESSED" => receipt[x] = "PROCESSED"
  BY DEF begin, Sound, Typed
<1>5. QED
  BY <1>1, <1>2, <1>3, <1>4, StepSound DEF Replaced

LEMMA LookSound == ASSUME Sound, NEW r \in Slots, Look(r) PROVE Sound'
<1>1. Carries(r, req[r]) /\ req[r].op = "look" /\ UNCHANGED << receipt, answered, presence, rows >>
  BY DEF Look, Sound, Contexts
<1>2. PICK e \in CallEvents : e = req[r].e
  BY <1>1 DEF Carries
<1>3. PICK c \in ProviderCalls : c = About(e)
  BY CallAssumption DEF CallAssumption
<1>4. Says(e) \in CallState /\ e \in Events /\ c \in Calls
  BY CallAssumption DEF CallAssumption, Events, Calls
<1>5. DOMAIN req' = Slots
  BY DEF Look, Goto, Sound, Typed
<1>6. Monotone /\ Typed' /\ CallsSound'
  BY <1>1, <1>5, Quiet DEF Sound, Typed
<1>7. \E k : Replaced(r, k)
  <2>1. CASE Goto(r, "create") \/ Goto(r, "failed")
    <3>1. PICK step \in {"create", "failed"} : Goto(r, step)
      BY <2>1
    <3>2. PICK k : /\ req' = [req EXCEPT ![r] = k]
                   /\ k.op = step /\ k.e = req[r].e /\ {"op", "e"} \subseteq DOMAIN k
                   /\ (k.e \in Events \/ (k.e = Staff /\ r \in Requests))
      BY <1>1, <3>1, GoesOn DEF Handling
    <3>3. Carries(r, k)'
      BY <3>2, <1>2, <3>1 DEF Carries, Handling
    <3> QED BY <3>2, <3>3 DEF Replaced
  <2>2. CASE Known(c) /\ call[c].state = Says(e) /\ Goto(r, "processed")
    <3>1. PICK k : /\ req' = [req EXCEPT ![r] = k]
                   /\ k.op = "processed" /\ k.e = req[r].e /\ {"op", "e"} \subseteq DOMAIN k
                   /\ (k.e \in Events \/ (k.e = Staff /\ r \in Requests))
      BY <1>1, <2>2, GoesOn DEF Handling
    <3>2. call[c] \in CallRows
      BY <1>4 DEF Sound, Typed
    <3>3. FirstState(Says(e)) = call[c].state
      BY <3>2, <2>2, <1>4, Table DEF CallRows
    <3>4. Recorded(e)'
      BY <3>3, <1>1, <1>3, <2>2 DEF Recorded, Sound, CallsSound, rows
    <3>5. Carries(r, k)'
      BY <3>1, <3>4, <1>2 DEF Carries, Handling
    <3> QED BY <3>1, <3>5 DEF Replaced
  <2>3. CASE /\ Known(c) /\ Says(e) \in CALL_TRANSITIONS[call[c].state]
             /\ req' = [req EXCEPT ![r] = [ op |-> "apply", e |-> e, c |-> c, by |-> e,
                                            seen |-> call[c].state, to |-> Says(e) ]]
    <3> PICK k : k = [ op |-> "apply", e |-> e, c |-> c, by |-> e,
                       seen |-> call[c].state, to |-> Says(e) ]
      OBVIOUS
    <3>1. call[c] \in CallRows /\ call[c].state # "none"
      BY <1>4, <2>3 DEF Sound, Typed, CallsSound
    <3>2. call' = call /\ Known(c)'
      BY <1>1, <2>3 DEF rows, Known
    <3>3. Carries(r, k)'
      BY <3>1, <3>2, <1>3, <1>4, <2>3 DEF Carries, Handling, CallRows
    <3> QED BY <3>3, <2>3 DEF Replaced
  <2>4. \/ Goto(r, "create") \/ Goto(r, "failed")
        \/ Known(c) /\ call[c].state = Says(e) /\ Goto(r, "processed")
        \/ /\ Known(c) /\ Says(e) \in CALL_TRANSITIONS[call[c].state]
           /\ req' = [req EXCEPT ![r] = [ op |-> "apply", e |-> e, c |-> c, by |-> e,
                                          seen |-> call[c].state, to |-> Says(e) ]]
    BY <1>2, <1>3 DEF Look
  <2> QED BY <2>1, <2>2, <2>3, <2>4
<1>8. QED
  BY <1>1, <1>6, <1>7, StepSound

LEMMA CreateSound == ASSUME Sound, NEW r \in Slots, CreateCall(r) PROVE Sound'
<1>1. Carries(r, req[r]) /\ req[r].op = "create" /\ UNCHANGED << receipt, answered, presence >>
  BY DEF CreateCall, Sound, Contexts
<1>2. PICK e \in CallEvents : e = req[r].e
  BY <1>1 DEF Carries
<1>3. PICK c \in ProviderCalls : c = About(e)
  BY CallAssumption DEF CallAssumption
<1>4. PICK s \in CallState \ {"RINGING"} : s = FirstState(Says(e))
  BY CallAssumption, Table DEF CallAssumption
<1>5. e \in Events /\ c \in Calls /\ DOMAIN req' = Slots
  BY DEF Events, Calls, CreateCall, Goto, Sound, Typed
<1>6. CASE UNCHANGED << call, log >> /\ Goto(r, "failed")
  <2>1. UNCHANGED rows
    BY <1>6 DEF CreateCall, rows
  <2>2. Monotone /\ Typed' /\ CallsSound'
    BY <1>1, <1>5, <2>1, Quiet DEF Sound, Typed
  <2>3. PICK k : /\ req' = [req EXCEPT ![r] = k]
                 /\ k.op = "failed" /\ k.e = req[r].e /\ {"op", "e"} \subseteq DOMAIN k
                 /\ (k.e \in Events \/ (k.e = Staff /\ r \in Requests))
    BY <1>1, <1>6, GoesOn DEF Handling
  <2>4. Carries(r, k)'
    BY <2>3 DEF Carries, Handling
  <2> QED BY <2>2, <2>3, <2>4, <1>1, StepSound DEF Replaced
<1>7. CASE /\ ~ Known(c)
           /\ call' = [call EXCEPT ![c].state = s]
           /\ log' = [log EXCEPT ![c] = @ \union {Entry(e, s)}]
           /\ Goto(r, "processed")
  <2>1. UNCHANGED << told, callback, message >>
    BY DEF CreateCall
  <2>2. call[c] = NoCall /\ call[c] \in CallRows /\ call \in [Calls -> CallRows]
    BY <1>5, <1>7 DEF Known, Sound, Typed
  <2>3. call'[c] = [call[c] EXCEPT !.state = s] /\ \A x \in Calls : x # c => call'[x] = call[x]
    BY <1>5, <1>7, <2>2
  <2>4. call'[c] \in CallRows /\ call'[c].state = s /\ s # "none"
    BY <2>2, <2>3, Table DEF CallRows
  <2>5. call' \in [Calls -> CallRows]
    BY <2>2, <2>4, <1>7
  <2>6. Entry(e, s) \in Entries /\ Entry(e, s).state = s
    BY <1>5 DEF Entry, Entries
  <2>7. log \in [ProviderCalls -> SUBSET Entries]
    BY DEF Sound, Typed
  <2>8. log' \in [ProviderCalls -> SUBSET Entries] /\ Entry(e, s) \in log'[c]
        /\ \A x \in ProviderCalls : log[x] \subseteq log'[x]
    BY <2>6, <2>7, <1>7
  <2>9. Typed'
    BY <1>1, <1>5, <2>1, <2>5, <2>8 DEF Sound, Typed
  <2>10. \A x \in Calls : Known(x) => Known(x)'
    BY <2>2, <2>3 DEF Known
  <2>11. Monotone
    BY <1>1, <2>1, <2>8, <2>10 DEF Monotone
  <2>12. c \notin ManualCalls
    BY CallAssumption DEF CallAssumption
  <2>13. CallsSound'
    <3>1. \A x \in Calls : call'[x].state = "none" => ~ Known(x)'
      BY <2>3, <2>4 DEF Sound, CallsSound, Known
    <3>2. \A x \in ManualCalls : call'[x].state \in TERMINAL_CALL_STATES \union {"none"}
      BY <2>3, <2>12 DEF Sound, CallsSound, Calls
    <3>3. \A x \in ProviderCalls : Known(x)' => \E entry \in log'[x] : entry.state = call'[x].state
      BY <2>3, <2>4, <2>6, <2>8 DEF Sound, CallsSound, Known, Calls
    <3> QED BY <3>1, <3>2, <3>3 DEF CallsSound
  <2>14. PICK k : /\ req' = [req EXCEPT ![r] = k]
                  /\ k.op = "processed" /\ k.e = req[r].e /\ {"op", "e"} \subseteq DOMAIN k
                  /\ (k.e \in Events \/ (k.e = Staff /\ r \in Requests))
    BY <1>1, <1>7, GoesOn DEF Handling
  <2>15. Recorded(e)'
    BY <2>6, <2>8, <1>3, <1>4 DEF Recorded
  <2>16. Carries(r, k)'
    BY <2>14, <2>15, <1>2 DEF Carries, Handling
  <2> QED BY <2>9, <2>11, <2>13, <2>14, <2>16, <1>1, StepSound DEF Replaced
<1>8. QED
  BY <1>2, <1>3, <1>4, <1>6, <1>7 DEF CreateCall

(* What the transaction on a provider call leaves: the call with another     *)
(* state, or handler, and an entry of its history that tells of the state.   *)
LEMMA CallWritten ==
  ASSUME Sound, NEW c \in ProviderCalls, Known(c), NEW row \in CallRows, NEW entry \in Entries,
         row.state # "none", entry.state = row.state,
         call' = [call EXCEPT ![c] = row], log' = [log EXCEPT ![c] = @ \union {entry}],
         UNCHANGED << receipt, answered, presence, message >>, DOMAIN req' = Slots,
         told' \in [ProviderCalls -> SUBSET (Agents \union {Nobody})],
         callback' \subseteq Calls
  PROVE  Monotone /\ Typed' /\ CallsSound' /\ entry \in log'[c] /\ call'[c] = row
<1>1. c \in Calls /\ call \in [Calls -> CallRows]
  BY DEF Calls, Sound, Typed
<1>2. call'[c] = row /\ (\A x \in Calls : x # c => call'[x] = call[x])
      /\ call' \in [Calls -> CallRows]
  BY <1>1
<1>3. log \in [ProviderCalls -> SUBSET Entries]
  BY DEF Sound, Typed
<1>4. log' \in [ProviderCalls -> SUBSET Entries] /\ entry \in log'[c]
      /\ \A x \in ProviderCalls : log[x] \subseteq log'[x]
  BY <1>3
<1>5. Typed'
  BY <1>2, <1>4 DEF Sound, Typed
<1>6. row # NoCall
  BY DEF NoCall
<1>7. \A x \in Calls : Known(x) => Known(x)'
  BY <1>2, <1>6 DEF Known, NoCall
<1>8. Monotone
  BY <1>4, <1>7 DEF Monotone
<1>9. c \notin ManualCalls
  BY CallAssumption DEF CallAssumption
<1>10. CallsSound'
  <2>1. \A x \in Calls : call'[x].state = "none" => ~ Known(x)'
    BY <1>2 DEF Sound, CallsSound, Known
  <2>2. \A x \in ManualCalls : call'[x].state \in TERMINAL_CALL_STATES \union {"none"}
    BY <1>2, <1>9 DEF Sound, CallsSound, Calls
  <2>3. \A x \in ProviderCalls : Known(x)' => \E n \in log'[x] : n.state = call'[x].state
    BY <1>2, <1>4 DEF Sound, CallsSound, Known, Calls
  <2> QED BY <2>1, <2>2, <2>3 DEF CallsSound
<1>11. QED
  BY <1>2, <1>4, <1>5, <1>8, <1>10

LEMMA ApplySound == ASSUME Sound, NEW r \in Slots, applyCallState(r) PROVE Sound'
<1>1. Carries(r, req[r]) /\ req[r].op = "apply" /\ UNCHANGED << receipt, answered, presence >>
  BY DEF applyCallState, Sound, Contexts
<1>2. PICK c \in ProviderCalls : c = req[r].c
  BY <1>1 DEF Carries
<1>3. PICK s \in CallState \ {"RINGING"} : s = req[r].to
  BY <1>1, Table DEF Carries
<1>4. PICK e : e = req[r].e
  OBVIOUS
<1>5. Known(c) /\ (e \in Events \/ (e = Staff /\ r \in Requests)) /\ req[r].by = e
      /\ (e \in Events => e \in CallEvents /\ c = About(e) /\ s = Says(e))
  BY <1>1, <1>2, <1>3, <1>4 DEF Carries, Handling
<1>6. PICK h : h = call[c].handler
  OBVIOUS
<1>7. c \in Calls /\ call[c] \in CallRows /\ h \in Agents \union {Nobody}
  BY <1>6 DEF Calls, Sound, Typed, CallRows
<1> DEFINE Present == [op |-> "presence", e |-> e, c |-> c, a |-> h, busy |-> s = "ANSWERED"]
<1>8. \/ UNCHANGED rows /\ Goto(r, "failed")
      \/ /\ call' = [call EXCEPT ![c].state = s]
         /\ log' = [log EXCEPT ![c] = @ \union {Entry(e, s)}]
         /\ told' = told \/ told' = [told EXCEPT ![c] = @ \union {FollowsUp(c)}]
         /\ callback' \subseteq callback \union {c}
         /\ UNCHANGED message
         /\ (h # Nobody /\ req' = [req EXCEPT ![r] = Present]) \/ Goto(r, "processed")
  <2>1. CASE UNCHANGED rows /\ Goto(r, "failed")
    BY <2>1
  <2>2. CASE ~ (UNCHANGED rows /\ Goto(r, "failed"))
    BY <2>2, <1>2, <1>3, <1>4, <1>5, <1>6 DEF applyCallState
  <2> QED BY <2>1, <2>2
<1>9. DOMAIN req' = Slots
  BY <1>8 DEF Sound, Typed, Goto
<1>10. CASE UNCHANGED rows /\ Goto(r, "failed")
  <2>1. Monotone /\ Typed' /\ CallsSound'
    BY <1>1, <1>9, <1>10, Quiet DEF Sound, Typed
  <2>2. PICK k : /\ req' = [req EXCEPT ![r] = k]
                 /\ k.op = "failed" /\ k.e = req[r].e /\ {"op", "e"} \subseteq DOMAIN k
                 /\ (k.e \in Events \/ (k.e = Staff /\ r \in Requests))
    BY <1>1, <1>10, GoesOn DEF Handling
  <2>3. Carries(r, k)'
    BY <2>2 DEF Carries, Handling
  <2> QED BY <2>1, <2>2, <2>3, <1>1, StepSound DEF Replaced
<1>11. CASE ~ (UNCHANGED rows /\ Goto(r, "failed"))
  <2>1. PICK row : row = [call[c] EXCEPT !.state = s]
    OBVIOUS
  <2>2. row \in CallRows /\ row.state = s /\ s # "none"
    BY <2>1, <1>7, Table DEF CallRows
  <2>3. PICK entry \in Entries : entry = Entry(e, s) /\ entry.state = s
    <3>1. Entry(e, s) \in Entries /\ Entry(e, s).state = s
      BY <1>5 DEF Entry, Entries
    <3> QED BY <3>1
  <2>4. call' = [call EXCEPT ![c] = row] /\ log' = [log EXCEPT ![c] = @ \union {entry}]
    BY <1>8, <1>11, <2>1, <2>3
  <2>5. told' \in [ProviderCalls -> SUBSET (Agents \union {Nobody})]
    BY <1>6, <1>7, <1>8, <1>11 DEF Sound, Typed, FollowsUp
  <2>6. callback' \subseteq Calls /\ UNCHANGED message
    BY <1>7, <1>8, <1>11 DEF Sound, Typed
  <2>7. Monotone /\ Typed' /\ CallsSound' /\ entry \in log'[c]
    BY <1>1, <1>5, <1>9, <2>2, <2>3, <2>4, <2>5, <2>6, CallWritten
  <2>8. e \in Events => Recorded(e)'
    BY <2>3, <2>7, <1>3, <1>5, Table DEF Recorded
  <2>9. \E k : Replaced(r, k)
    <3>1. CASE h # Nobody /\ req' = [req EXCEPT ![r] = Present]
      <4>1. PICK k : k = Present
        OBVIOUS
      <4>2. Carries(r, k)'
        BY <4>1, <3>1, <2>8, <1>5, <1>7 DEF Carries, Handling
      <4> QED BY <4>1, <4>2, <3>1 DEF Replaced
    <3>2. CASE Goto(r, "processed")
      <4>1. PICK k : /\ req' = [req EXCEPT ![r] = k]
                     /\ k.op = "processed" /\ k.e = req[r].e /\ {"op", "e"} \subseteq DOMAIN k
                     /\ (k.e \in Events \/ (k.e = Staff /\ r \in Requests))
        BY <1>1, <3>2, GoesOn DEF Handling
      <4>2. Carries(r, k)'
        BY <4>1, <2>8, <1>4 DEF Carries, Handling
      <4> QED BY <4>1, <4>2 DEF Replaced
    <3> QED BY <3>1, <3>2, <1>8, <1>11
  <2> QED BY <2>7, <2>9, <1>1, StepSound
<1>12. QED
  BY <1>10, <1>11

LEMMA PresenceSound == ASSUME Sound, NEW r \in Slots, showPresence(r) PROVE Sound'
<1>1. Carries(r, req[r]) /\ req[r].op = "presence" /\ Goto(r, "processed")
      /\ UNCHANGED << receipt, answered, rows >>
  BY DEF showPresence, Sound, Contexts
<1>2. req[r].c \in Calls /\ req[r].a \in Agents
  BY <1>1 DEF Carries
<1>3. presence' \in [Agents -> [status : {"OFFLINE", "AVAILABLE", "BUSY"},
                                on : Calls \union {Nobody}]]
  BY <1>2 DEF showPresence, Sound, Typed
<1>4. DOMAIN req' = Slots
  BY <1>1 DEF Sound, Typed, Goto
<1>5. Monotone /\ Typed' /\ CallsSound'
  BY <1>1, <1>3, <1>4, Quiet DEF Sound, Typed
<1>6. PICK k : /\ req' = [req EXCEPT ![r] = k]
               /\ k.op = "processed" /\ k.e = req[r].e /\ {"op", "e"} \subseteq DOMAIN k
               /\ (k.e \in Events \/ (k.e = Staff /\ r \in Requests))
  BY <1>1, GoesOn DEF Handling
<1>7. k.e \in Events => Recorded(k.e)'
  BY <1>1, <1>5, <1>6, RecordedStays DEF Carries
<1>8. Carries(r, k)'
  BY <1>6, <1>7 DEF Carries, Handling
<1>9. QED
  BY <1>1, <1>5, <1>6, <1>8, StepSound DEF Replaced

LEMMA ReceiveSound == ASSUME Sound, NEW r \in Slots, ingestWhatsappEvent(r) PROVE Sound'
<1>1. Carries(r, req[r]) /\ req[r].op = "receive"
      /\ UNCHANGED << receipt, answered, call, log, told, callback, presence >>
  BY DEF ingestWhatsappEvent, Sound, Contexts
<1>2. PICK e \in MessageEvents : e = req[r].e
  BY <1>1 DEF Carries
<1>3. PICK m \in Messages : m = About(e)
  BY CallAssumption DEF CallAssumption
<1>4. \E step \in {"processed", "failed"} : Goto(r, step) /\ (step = "processed" => message'[m] # "none")
      /\ (message' = message \/ (message[m] = "none" /\ message' = [message EXCEPT ![m] = "RECEIVED"]))
  BY <1>2, <1>3 DEF ingestWhatsappEvent, Sound, Typed
<1>5. PICK step \in {"processed", "failed"} : Goto(r, step) /\ (step = "processed" => message'[m] # "none")
  BY <1>4
<1>6. DOMAIN req' = Slots
  BY <1>5 DEF Sound, Typed, Goto
<1>7. Monotone
  BY <1>1, <1>4 DEF Monotone, Known, Sound, Typed
<1>8. Typed'
  BY <1>1, <1>4, <1>6 DEF Sound, Typed
<1>9. CallsSound'
  BY <1>1 DEF Sound, CallsSound, Known
<1>10. PICK k : /\ req' = [req EXCEPT ![r] = k]
                /\ k.op = step /\ k.e = req[r].e /\ {"op", "e"} \subseteq DOMAIN k
                /\ (k.e \in Events \/ (k.e = Staff /\ r \in Requests))
  BY <1>1, <1>5, GoesOn DEF Handling
<1>11. step = "processed" => Recorded(e)'
  BY <1>2, <1>3, <1>5, CallAssumption DEF Recorded, CallAssumption
<1>12. Carries(r, k)'
  BY <1>10, <1>11, <1>2, <1>5 DEF Carries, Handling
<1>13. QED
  BY <1>1, <1>7, <1>8, <1>9, <1>10, <1>12, StepSound DEF Replaced

(* The end of a delivery or of a request.                                    *)
LEMMA EndSound ==
  ASSUME Sound, NEW r \in Slots, processed(r) \/ failed(r) \/ Crash(r) \/ Reply(r)
  PROVE  Sound'
<1>1. Leaves(r) /\ UNCHANGED << presence, rows >>
  BY DEF processed, failed, Crash, Reply, End, Leaves
<1>2. DOMAIN req' = Slots
  BY <1>1 DEF Leaves, Sound, Typed
<1>3. PICK e : e = req[r].e
  OBVIOUS
<1>4. Carries(r, req[r])
  BY DEF Sound, Contexts
<1>5. req[r].op \in {"processed", "failed"} /\ r \in Deliveries => e \in Events
  BY <1>3, <1>4, CallAssumption DEF Carries, Handling, CallAssumption
<1>6. CASE processed(r)
  <2>1. e \in Events /\ Recorded(e) /\ receipt' = [receipt EXCEPT ![e] = "PROCESSED"]
        /\ answered' = answered \union {e}
    BY <1>3, <1>4, <1>5, <1>6 DEF processed, Carries
  <2>2. Monotone /\ Typed' /\ CallsSound'
    BY <1>1, <1>2, <2>1, Quiet DEF Sound, Typed
  <2> QED BY <1>1, <2>1, <2>2, StepSound DEF Sound, Typed
<1>7. CASE failed(r)
  <2>1. e \in Events /\ receipt' = [receipt EXCEPT ![e] = "FAILED"] /\ UNCHANGED answered
    BY <1>3, <1>5, <1>7 DEF failed
  <2>2. Monotone /\ Typed' /\ CallsSound'
    BY <1>1, <1>2, <2>1, Quiet DEF Sound, Typed
  <2> QED BY <1>1, <2>1, <2>2, StepSound DEF Sound, Typed
<1>8. CASE Crash(r) \/ Reply(r)
  <2>1. UNCHANGED << receipt, answered >>
    BY <1>8 DEF Crash, Reply
  <2>2. Monotone /\ Typed' /\ CallsSound'
    BY <1>1, <1>2, <2>1, Quiet DEF Sound, Typed
  <2> QED BY <1>1, <2>1, <2>2, StepSound
<1>9. QED
  BY <1>6, <1>7, <1>8

LEMMA StartSound ==
  ASSUME Sound, NEW r \in Slots, NEW k, Start(r, k), Carries(r, k) PROVE Sound'
<1>1. req' = [req EXCEPT ![r] = k] /\ UNCHANGED << receipt, answered, presence, rows >>
  BY DEF Start
<1>2. DOMAIN req' = Slots
  BY <1>1 DEF Sound, Typed
<1>3. Monotone /\ Typed' /\ CallsSound'
  BY <1>1, <1>2, Quiet DEF Sound, Typed
<1>4. QED
  BY <1>1, <1>3, CarriesStays, StepSound DEF Replaced

(* A call that can still change is a provider call.                          *)
LEMMA OpenCall ==
  ASSUME Sound, NEW c \in Calls, Known(c), call[c].state \notin TERMINAL_CALL_STATES
  PROVE  c \in ProviderCalls /\ call[c].state \in CallState
<1>1. call[c] \in CallRows /\ call[c].state # "none"
  BY DEF Sound, Typed, CallsSound
<1>2. QED
  BY <1>1 DEF CallRows, Sound, CallsSound, Calls

LEMMA ReadsSound ==
  ASSUME Sound, NEW r \in Requests,
         \/ \E c \in Calls :
              \/ \E s \in CallState : transitionCall(r, c, s)
              \/ \E a \in Agents : ReadAssign(r, c, a)
              \/ \E again \in BOOLEAN : ReadDisposition(r, c, again)
         \/ \E m \in Messages, status \in ProviderStatuses : ReadMessageStatus(r, m, status)
  PROVE  Sound'
<1>0. r \in Slots
  BY DEF Slots
<1>1. ASSUME NEW c \in Calls, NEW s \in CallState, transitionCall(r, c, s) PROVE Sound'
  <2>1. PICK k : k = [ op |-> "apply", e |-> Staff, c |-> c, by |-> Staff,
                       seen |-> call[c].state, to |-> s ]
    OBVIOUS
  <2>2. Known(c) /\ s \in CALL_TRANSITIONS[call[c].state] /\ Start(r, k)
    BY <1>1, <2>1 DEF transitionCall
  <2>3. c \in ProviderCalls /\ call[c].state \in CallState
    BY <2>2, OpenCall, Table
  <2>4. Carries(r, k)
    BY <2>1, <2>2, <2>3, CallAssumption DEF Carries, Handling, CallAssumption
  <2> QED BY <1>0, <2>2, <2>4, StartSound
<1>2. ASSUME NEW c \in Calls, NEW a \in Agents, ReadAssign(r, c, a) PROVE Sound'
  <2>1. PICK k : k = [ op |-> "assign", c |-> c, a |-> a, seen |-> call[c].state,
                       to |-> IF call[c].handler = Nobody THEN "ASSIGNED" ELSE "FORWARDED" ]
    OBVIOUS
  <2>2. Known(c) /\ call[c].state \notin TERMINAL_CALL_STATES /\ Start(r, k)
    BY <1>2, <2>1 DEF ReadAssign
  <2>3. c \in ProviderCalls /\ call[c].state \in CallState
    BY <2>2, OpenCall
  <2>4. Carries(r, k)
    BY <2>1, <2>2, <2>3 DEF Carries, Handling
  <2> QED BY <1>0, <2>2, <2>4, StartSound
<1>3. ASSUME NEW c \in Calls, NEW again \in BOOLEAN, ReadDisposition(r, c, again) PROVE Sound'
  <2>1. PICK k : k = [op |-> "dispose", c |-> c, again |-> again]
    OBVIOUS
  <2>2. Known(c) /\ Start(r, k)
    BY <1>3, <2>1 DEF ReadDisposition
  <2>3. Carries(r, k)
    BY <2>1, <2>2 DEF Carries, Handling
  <2> QED BY <1>0, <2>2, <2>3, StartSound
<1>4. ASSUME NEW m \in Messages, NEW status \in ProviderStatuses, ReadMessageStatus(r, m, status)
      PROVE Sound'
  <2>1. PICK k : k = [op |-> "status", m |-> m, to |-> status, seen |-> message[m]]
    OBVIOUS
  <2>2. message[m] # "none" /\ (status = "FAILED" \/ Rank(status) > Rank(message[m])) /\ Start(r, k)
    BY <1>4, <2>1 DEF ReadMessageStatus
  <2>3. Carries(r, k)
    BY <2>1, <2>2 DEF Carries, Handling
  <2> QED BY <1>0, <2>2, <2>3, StartSound
<1>5. QED
  BY <1>1, <1>2, <1>3, <1>4

LEMMA AssignSound == ASSUME Sound, NEW r \in Slots, CommitAssign(r) PROVE Sound'
<1>1. Carries(r, req[r]) /\ req[r].op = "assign" /\ Leaves(r)
      /\ UNCHANGED << receipt, answered, told, callback, presence, message >>
  BY DEF CommitAssign, Sound, Contexts, End, Leaves
<1>2. PICK c \in ProviderCalls : c = req[r].c /\ Known(c)
  BY <1>1 DEF Carries
<1>3. PICK a \in Agents : a = req[r].a
  BY <1>1 DEF Carries
<1>4. PICK s \in {"ASSIGNED", "FORWARDED"} : s = req[r].to
  BY <1>1 DEF Carries
<1>5. PICK row : row = [call[c] EXCEPT !.handler = a, !.state = s]
  OBVIOUS
<1>6. call[c] \in CallRows /\ DOMAIN req' = Slots
  BY <1>1 DEF Calls, Sound, Typed, Leaves
<1>7. row \in CallRows /\ row.state = s /\ s # "none"
  BY <1>5, <1>6 DEF CallRows, CallState
<1>8. Entry(Staff, s) \in Entries /\ Entry(Staff, s).state = s
  BY DEF Entry, Entries, CallState
<1>9. call' = [call EXCEPT ![c] = row] /\ log' = [log EXCEPT ![c] = @ \union {Entry(Staff, s)}]
  BY <1>2, <1>3, <1>4, <1>5 DEF CommitAssign
<1>10. Monotone /\ Typed' /\ CallsSound'
  BY <1>1, <1>2, <1>6, <1>7, <1>8, <1>9, CallWritten DEF Sound, Typed
<1>11. QED
  BY <1>1, <1>10, StepSound

(* Writes that leave the state of every provider call, and its history,      *)
(* alone.                                                                    *)
LEMMA DeskWritten ==
  ASSUME Sound, NEW c \in Calls, NEW row \in CallRows, call' = [call EXCEPT ![c] = row],
         UNCHANGED << receipt, answered, log, told, presence, message >>,
         DOMAIN req' = Slots, callback' \subseteq Calls,
         row.state # "none", c \in ProviderCalls => Known(c) /\ row.state = call[c].state,
         c \in ManualCalls => row.state \in TERMINAL_CALL_STATES
  PROVE  Monotone /\ Typed' /\ CallsSound'
<1>1. call \in [Calls -> CallRows]
  BY DEF Sound, Typed
<1>2. call'[c] = row /\ (\A x \in Calls : x # c => call'[x] = call[x])
      /\ call' \in [Calls -> CallRows]
  BY <1>1
<1>3. row # NoCall
  BY DEF NoCall
<1>4. Typed'
  BY <1>2 DEF Sound, Typed
<1>5. Monotone
  BY <1>2, <1>3 DEF Monotone, Known, NoCall
<1>6. CallsSound'
  <2>1. \A x \in Calls : call'[x].state = "none" => ~ Known(x)'
    BY <1>2 DEF Sound, CallsSound, Known
  <2>2. \A x \in ManualCalls : call'[x].state \in TERMINAL_CALL_STATES \union {"none"}
    BY <1>2 DEF Sound, CallsSound, Calls
  <2>3. \A x \in ProviderCalls : Known(x)' => \E n \in log'[x] : n.state = call'[x].state
    BY <1>2 DEF Sound, CallsSound, Known, Calls
  <2> QED BY <2>1, <2>2, <2>3 DEF CallsSound
<1>7. QED
  BY <1>4, <1>5, <1>6

LEMMA DispositionSound == ASSUME Sound, NEW r \in Slots, CommitDisposition(r) PROVE Sound'
<1>1. Carries(r, req[r]) /\ req[r].op = "dispose" /\ Leaves(r)
      /\ UNCHANGED << receipt, answered, log, told, presence, message >>
  BY DEF CommitDisposition, Sound, Contexts, End, Leaves
<1>2. PICK c \in Calls : c = req[r].c /\ Known(c)
  BY <1>1 DEF Carries
<1>3. PICK row : row = [call[c] EXCEPT !.disposed = TRUE]
  OBVIOUS
<1>4. call[c] \in CallRows /\ call[c].state # "none" /\ DOMAIN req' = Slots
  BY <1>1, <1>2 DEF Sound, Typed, CallsSound, Leaves
<1>5. row \in CallRows /\ row.state = call[c].state
  BY <1>3, <1>4 DEF CallRows
<1>6. call' = [call EXCEPT ![c] = row] /\ callback' \subseteq Calls
  BY <1>2, <1>3 DEF CommitDisposition, Sound, Typed
<1>7. c \in ManualCalls => row.state \in TERMINAL_CALL_STATES
  BY <1>4, <1>5 DEF Sound, CallsSound
<1>8. Monotone /\ Typed' /\ CallsSound'
  BY <1>1, <1>2, <1>4, <1>5, <1>6, <1>7, DeskWritten DEF Sound, Typed
<1>9. QED
  BY <1>1, <1>8, StepSound

LEMMA ManualSound ==
  ASSUME Sound, NEW c \in ManualCalls, NEW a \in Agents, NEW s \in TERMINAL_CALL_STATES,
         NEW again \in BOOLEAN, createManualCall(c, a, s, again) \/ updateManualCall(c, a, s, again)
  PROVE  Sound'
<1>1. c \in Calls /\ c \notin ProviderCalls /\ s \in CallState \ {"RINGING"} /\ s # "none"
  BY CallAssumption, Table DEF CallAssumption, Calls
<1>2. call[c] \in CallRows
  BY <1>1 DEF Sound, Typed
<1>3. UNCHANGED << receipt, answered, log, told, presence, message, req >> /\ callback' \subseteq Calls
  BY <1>1 DEF createManualCall, updateManualCall, Sound, Typed
<1>4. \E row \in CallRows : row.state = s /\ call' = [call EXCEPT ![c] = row]
  <2>1. CASE createManualCall(c, a, s, again)
    <3>1. PICK row : row = [state |-> s, handler |-> a, disposed |-> TRUE]
      OBVIOUS
    <3> QED BY <3>1, <2>1, <1>1 DEF createManualCall, CallRows
  <2>2. CASE updateManualCall(c, a, s, again)
    <3>1. PICK row : row = [call[c] EXCEPT !.state = s, !.handler = a]
      OBVIOUS
    <3>2. row \in CallRows /\ row.state = s
      BY <3>1, <1>1, <1>2 DEF CallRows
    <3> QED BY <3>1, <3>2, <2>2 DEF updateManualCall
  <2> QED BY <2>1, <2>2
<1>5. Monotone /\ Typed' /\ CallsSound'
  BY <1>1, <1>3, <1>4, DeskWritten DEF Sound, Typed
<1>6. QED
  BY <1>3, <1>5, StepSound

LEMMA PresenceSetSound ==
  ASSUME Sound,
         \/ \E a \in Agents, status \in {"AVAILABLE", "BUSY", "OFFLINE"} : setManual(a, status)
         \/ \E stale \in SUBSET Agents : list(stale)
  PROVE  Sound'
<1>1. UNCHANGED << receipt, answered, req, rows >>
  BY DEF setManual, list
<1>2. presence' \in [Agents -> [status : {"OFFLINE", "AVAILABLE", "BUSY"},
                                on : Calls \union {Nobody}]]
  BY DEF setManual, list, Sound, Typed
<1>3. Monotone /\ Typed' /\ CallsSound'
  BY <1>1, <1>2, Quiet DEF Sound, Typed
<1>4. QED
  BY <1>1, <1>3, StepSound

LEMMA MessageWritten ==
  ASSUME Sound, NEW m \in Messages, NEW status \in ProviderStatuses \union {"SIMULATED"},
         message' = [message EXCEPT ![m] = status],
         UNCHANGED << receipt, answered, call, log, told, callback, presence >>,
         DOMAIN req' = Slots
  PROVE  Monotone /\ Typed' /\ CallsSound'
<1>1. Monotone
  BY DEF Monotone, Known, Sound, Typed, ProviderStatuses
<1>2. Typed'
  BY DEF Sound, Typed
<1>3. CallsSound'
  BY DEF Sound, CallsSound, Known
<1>4. QED
  BY <1>1, <1>2, <1>3

LEMMA MessagesSound ==
  ASSUME Sound,
         \/ \E m \in Messages : replyWhatsapp(m)
         \/ \E r \in Slots : CommitMessageStatus(r)
  PROVE  Sound'
<1>1. ASSUME NEW m \in Messages, replyWhatsapp(m) PROVE Sound'
  <2>1. UNCHANGED << receipt, answered, call, log, told, callback, presence, req >>
    BY <1>1 DEF replyWhatsapp
  <2>2. Monotone /\ Typed' /\ CallsSound'
    BY <1>1, <2>1, MessageWritten DEF replyWhatsapp, Sound, Typed
  <2> QED BY <2>1, <2>2, StepSound
<1>2. ASSUME NEW r \in Slots, CommitMessageStatus(r) PROVE Sound'
  <2>1. Carries(r, req[r]) /\ req[r].op = "status" /\ Leaves(r)
        /\ UNCHANGED << receipt, answered, call, log, told, callback, presence >>
    BY <1>2 DEF CommitMessageStatus, Sound, Contexts, End, Leaves
  <2>2. DOMAIN req' = Slots
    BY <2>1 DEF Sound, Typed, Leaves
  <2>3. Monotone /\ Typed' /\ CallsSound'
    BY <1>2, <2>1, <2>2, MessageWritten DEF CommitMessageStatus, Carries
  <2> QED BY <2>1, <2>3, StepSound
<1>3. QED
  BY <1>1, <1>2

-----------------------------------------------------------------------------
LEMMA InitSound == Init => Sound
<1> SUFFICES ASSUME Init PROVE Sound
  OBVIOUS
<1>1. NoCall \in CallRows /\ NoCall.state = "none"
  BY DEF NoCall, CallRows
<1>2. Typed
  BY <1>1 DEF Init, Typed, Calls
<1>3. CallsSound
  BY <1>1 DEF Init, CallsSound, Known, Calls
<1>4. Contexts
  BY DEF Init, Contexts, Carries, Idle, Handling
<1>5. ProcessedIsRecorded
  BY DEF Init, ProcessedIsRecorded
<1>6. QED
  BY <1>2, <1>3, <1>4, <1>5 DEF Sound

LEMMA StutterSound == ASSUME Sound, UNCHANGED vars PROVE Sound'
<1>1. UNCHANGED << receipt, answered, presence, req, rows >>
  BY DEF vars, rows
<1>2. Monotone /\ Typed' /\ CallsSound'
  BY <1>1, Quiet DEF Sound, Typed
<1>3. QED
  BY <1>1, <1>2, StepSound

LEMMA NextSound == Sound /\ [Next]_vars => Sound'
<1> SUFFICES ASSUME Sound, [Next]_vars PROVE Sound'
  OBVIOUS
<1>1. ASSUME NEW e \in Events, Deliver(e) PROVE Sound'
  BY <1>1, ReplaySound, BeginSound DEF Deliver
<1>2. ASSUME NEW r \in Slots, Proceed(r) \/ Crash(r) PROVE Sound'
  BY <1>2, LookSound, CreateSound, ApplySound, PresenceSound, ReceiveSound, EndSound DEF Proceed
<1>3. ASSUME NEW r \in Requests, Ask(r) PROVE Sound'
  <2>1. r \in Slots
    BY DEF Slots
  <2>2. CASE CommitAssign(r) \/ CommitDisposition(r) \/ CommitMessageStatus(r) \/ Reply(r)
    BY <2>1, <2>2, AssignSound, DispositionSound, MessagesSound, EndSound
  <2>3. CASE \/ \E c \in Calls :
                  \/ \E s \in CallState : transitionCall(r, c, s)
                  \/ \E a \in Agents : ReadAssign(r, c, a)
                  \/ \E again \in BOOLEAN : ReadDisposition(r, c, again)
             \/ \E m \in Messages, status \in ProviderStatuses : ReadMessageStatus(r, m, status)
    BY <2>3, ReadsSound
  <2> QED BY <1>3, <2>2, <2>3 DEF Ask
<1>4. QED
  BY <1>1, <1>2, <1>3, ManualSound, PresenceSetSound, MessagesSound, StutterSound DEF Next

(* In every reachable state the rows agree with one another and with what    *)
(* each delivery and request carries.                                        *)
THEOREM AlwaysSound == Spec => []Sound
<1>1. QED
  BY InitSound, NextSound, PTL DEF Spec

(* The rows keep their shape; no stored call is RINGING.                     *)
THEOREM Typing == Spec => []TypeOK
<1>1. Sound => TypeOK
  BY DEF Sound, Typed, TypeOK, CallRows, Entries
<1>2. QED
  BY <1>1, AlwaysSound, PTL

(* No receipt is closed as a success before its event is in the history of   *)
(* the call, or its message is stored, wherever the deliveries die.          *)
THEOREM Recording == Spec => []ProcessedIsRecorded
<1>1. Sound => ProcessedIsRecorded
  BY DEF Sound
<1>2. QED
  BY <1>1, AlwaysSound, PTL

(* A step on a provider call by one action of Next, and on a message.        *)
ByTable(c) ==
  \/ call'[c].state = call[c].state
  \/ ~ Known(c)
  \/ call'[c].state \in CALL_TRANSITIONS[call[c].state]
  \/ /\ call[c].state \notin TERMINAL_CALL_STATES
     /\ call'[c].handler # Nobody
     /\ call'[c].state \in {"ASSIGNED", "FORWARDED"}
  \/ \E r \in Slots : Stale(r)

LEMMA WritersOfCalls ==
  ASSUME Sound, Next, call' # call
  PROVE  \/ \E r \in Slots : CreateCall(r) \/ applyCallState(r) \/ CommitAssign(r)
                             \/ CommitDisposition(r)
         \/ \E c \in ManualCalls, row \in CallRows : call' = [call EXCEPT ![c] = row]
<1>1. ASSUME NEW e \in Events, Deliver(e) PROVE FALSE
  BY <1>1 DEF Deliver, Replay, begin, rows
<1>2. ASSUME NEW r \in Slots, Proceed(r) \/ Crash(r) PROVE CreateCall(r) \/ applyCallState(r)
  BY <1>2 DEF Proceed, Look, showPresence, ingestWhatsappEvent, processed, failed, Crash, rows
<1>3. ASSUME NEW r \in Requests, Ask(r) PROVE CommitAssign(r) \/ CommitDisposition(r)
  BY <1>3 DEF Ask, transitionCall, ReadAssign, ReadDisposition, ReadMessageStatus, Start, Reply,
              CommitMessageStatus, rows
<1>4. ASSUME NEW c \in ManualCalls, NEW a \in Agents, NEW s \in TERMINAL_CALL_STATES,
             NEW again \in BOOLEAN,
             createManualCall(c, a, s, again) \/ updateManualCall(c, a, s, again)
      PROVE  \E row \in CallRows : call' = [call EXCEPT ![c] = row]
  <2>1. c \in Calls /\ s \in CallState \ {"RINGING"} /\ call[c] \in CallRows
    BY Table DEF Calls, Sound, Typed
  <2>2. CASE createManualCall(c, a, s, again)
    <3>1. PICK row : row = [state |-> s, handler |-> a, disposed |-> TRUE]
      OBVIOUS
    <3>2. row \in CallRows
      BY <3>1, <2>1 DEF CallRows
    <3> QED BY <3>1, <3>2, <2>2 DEF createManualCall
  <2>3. CASE updateManualCall(c, a, s, again)
    <3>1. PICK row : row = [call[c] EXCEPT !.state = s, !.handler = a]
      OBVIOUS
    <3>2. row \in CallRows
      BY <3>1, <2>1 DEF CallRows
    <3> QED BY <3>1, <3>2, <2>3 DEF updateManualCall
  <2> QED BY <1>4, <2>2, <2>3
<1>5. ASSUME \/ \E a \in Agents, status \in {"AVAILABLE", "BUSY", "OFFLINE"} : setManual(a, status)
             \/ \E stale \in SUBSET Agents : list(stale)
             \/ \E m \in Messages : replyWhatsapp(m)
      PROVE  FALSE
  BY <1>5 DEF setManual, list, replyWhatsapp, rows
<1>6. Requests \subseteq Slots
  BY DEF Slots
<1>7. QED
  BY <1>1, <1>2, <1>3, <1>4, <1>5, <1>6 DEF Next

LEMMA StepByTable ==
  ASSUME Sound, [Next]_vars, NEW c \in ProviderCalls PROVE ByTable(c)
<1>0. c \in Calls /\ call \in [Calls -> CallRows] /\ c \notin ManualCalls
  BY CallAssumption DEF CallAssumption, Calls, Sound, Typed
<1>1. CASE call' = call
  BY <1>1 DEF ByTable
<1>2. ASSUME NEW r \in Slots, CreateCall(r) PROVE ByTable(c)
  <2>1. CASE c = About(req[r].e)
    BY <2>1, <1>2 DEF CreateCall, ByTable
  <2>2. CASE c # About(req[r].e)
    BY <2>2, <1>2, <1>0 DEF CreateCall, ByTable
  <2> QED BY <2>1, <2>2
<1>3. ASSUME NEW r \in Slots, applyCallState(r) PROVE ByTable(c)
  <2>1. Carries(r, req[r]) /\ req[r].op = "apply"
    BY <1>3 DEF applyCallState, Sound, Contexts
  <2>2. PICK s : s = req[r].to
    OBVIOUS
  <2>3. call' = call \/ call' = [call EXCEPT ![req[r].c].state = s]
    BY <1>3, <2>2 DEF applyCallState, rows
  <2>4. CASE c = req[r].c
    <3>1. call'[c].state \in {s, call[c].state}
      BY <2>3, <2>4, <1>0 DEF CallRows
    <3>2. Stale(r) \/ s \in CALL_TRANSITIONS[call[c].state]
      BY <2>1, <2>2, <2>4 DEF Carries, Stale
    <3> QED BY <3>1, <3>2 DEF ByTable
  <2>5. CASE c # req[r].c
    BY <2>3, <2>5, <1>0 DEF ByTable
  <2> QED BY <2>4, <2>5
<1>4. ASSUME NEW r \in Slots, CommitAssign(r) PROVE ByTable(c)
  <2>1. Carries(r, req[r]) /\ req[r].op = "assign"
    BY <1>4 DEF CommitAssign, Sound, Contexts
  <2>2. PICK a \in Agents : a = req[r].a
    BY <2>1 DEF Carries
  <2>3. PICK s \in {"ASSIGNED", "FORWARDED"} : s = req[r].to
    BY <2>1 DEF Carries
  <2>4. PICK d \in ProviderCalls : d = req[r].c
    BY <2>1 DEF Carries
  <2>5. call' = [call EXCEPT ![d].handler = a, ![d].state = s]
    BY <1>4, <2>2, <2>3, <2>4 DEF CommitAssign
  <2>6. CASE c = d
    <3>1. call[c] \in CallRows
      BY <1>0
    <3>2. call'[c] = [call[c] EXCEPT !.handler = a, !.state = s]
      BY <2>5, <2>6, <1>0
    <3>3. call'[c].state = s /\ call'[c].handler = a
      BY <3>1, <3>2 DEF CallRows
    <3>4. Stale(r) \/ call[c].state \notin TERMINAL_CALL_STATES
      BY <2>1, <2>4, <2>6 DEF Carries, Stale
    <3>5. a # Nobody
      BY CallAssumption DEF CallAssumption
    <3> QED BY <3>3, <3>4, <3>5 DEF ByTable
  <2>7. CASE c # d
    BY <2>5, <2>7, <1>0 DEF ByTable
  <2> QED BY <2>6, <2>7
<1>5. ASSUME NEW r \in Slots, CommitDisposition(r) PROVE ByTable(c)
  <2>1. call' = [call EXCEPT ![req[r].c].disposed = TRUE]
    BY <1>5 DEF CommitDisposition
  <2>2. call'[c].state = call[c].state
    BY <2>1, <1>0 DEF CallRows
  <2> QED BY <2>2 DEF ByTable
<1>6. ASSUME NEW m \in ManualCalls, NEW row \in CallRows, call' = [call EXCEPT ![m] = row]
      PROVE  ByTable(c)
  BY <1>6, <1>0 DEF ByTable
<1>7. CASE call' # call
  <2>1. Next
    BY <1>7 DEF vars
  <2> QED BY <2>1, <1>7, <1>2, <1>3, <1>4, <1>5, <1>6, WritersOfCalls
<1>8. QED
  BY <1>1, <1>7

(* Whatever order the events arrive in and wherever the deliveries die, a    *)
(* provider call moves along its table or is assigned while it is open,      *)
(* unless a request writes what it decided on an older state.                *)
THEOREM CallsByTable == Spec => FollowsCallTable
<1> DEFINE Good ==
      \A c \in ProviderCalls :
        \/ call'[c].state = call[c].state
        \/ ~ Known(c)
        \/ call'[c].state \in CALL_TRANSITIONS[call[c].state]
        \/ /\ call[c].state \notin TERMINAL_CALL_STATES
           /\ call'[c].handler # Nobody
           /\ call'[c].state \in {"ASSIGNED", "FORWARDED"}
        \/ \E r \in Slots : Stale(r)
<1>1. Sound /\ [Next]_vars => [Good]_vars
  BY StepByTable DEF ByTable
<1>2. QED
  BY <1>1, AlwaysSound, PTL DEF Spec, FollowsCallTable

LEMMA StepForward ==
  ASSUME Sound, [Next]_vars, NEW m \in Messages
  PROVE  Rank(message'[m]) >= Rank(message[m]) \/ message'[m] = "FAILED"
         \/ \E r \in Slots : Stale(r)
<1>0. message \in [Messages -> {"none", "RECEIVED", "SIMULATED"} \union ProviderStatuses]
  BY DEF Sound, Typed
<1>1. Rank(message[m]) \in Nat /\ Rank("none") = 0
  BY DEF Rank
<1>2. CASE message' = message
  BY <1>1, <1>2
<1>3. ASSUME NEW r \in Slots, ingestWhatsappEvent(r), message' # message
      PROVE  Rank(message'[m]) >= Rank(message[m])
  <2>1. PICK n : n = About(req[r].e)
    OBVIOUS
  <2>2. message[n] = "none" /\ message' = [message EXCEPT ![n] = "RECEIVED"]
    BY <1>3, <2>1 DEF ingestWhatsappEvent
  <2>3. m = n \/ message'[m] = message[m]
    BY <2>2, <1>0
  <2>4. CASE m = n
    <3>1. message[m] = "none" /\ message'[m] = "RECEIVED"
      BY <2>2, <2>4, <1>0
    <3> QED BY <3>1, <1>1 DEF Rank
  <2> QED BY <2>3, <2>4, <1>1
<1>4. ASSUME NEW n \in Messages, replyWhatsapp(n) PROVE Rank(message'[m]) >= Rank(message[m])
  <2>1. message[n] = "none" /\ message' = [message EXCEPT ![n] = "SIMULATED"]
    BY <1>4 DEF replyWhatsapp
  <2>2. CASE m = n
    <3>1. message[m] = "none" /\ message'[m] = "SIMULATED"
      BY <2>1, <2>2, <1>0
    <3> QED BY <3>1, <1>1 DEF Rank
  <2>3. CASE m # n
    BY <2>1, <2>3, <1>0, <1>1
  <2> QED BY <2>2, <2>3
<1>5. ASSUME NEW r \in Slots, CommitMessageStatus(r)
      PROVE  Rank(message'[m]) >= Rank(message[m]) \/ message'[m] = "FAILED" \/ Stale(r)
  <2>1. Carries(r, req[r]) /\ req[r].op = "status"
    BY <1>5 DEF CommitMessageStatus, Sound, Contexts
  <2>2. PICK n, to, seen : n = req[r].m /\ to = req[r].to /\ seen = req[r].seen
    OBVIOUS
  <2>3. message' = [message EXCEPT ![n] = to]
    BY <1>5, <2>2 DEF CommitMessageStatus
  <2>4. to = "FAILED" \/ Rank(to) > Rank(seen)
    BY <2>1, <2>2 DEF Carries
  <2>5. message[n] # seen => Stale(r)
    BY <2>1, <2>2 DEF Stale
  <2>6. CASE m = n
    <3>1. message'[m] = to /\ Rank(to) \in Nat
      BY <2>3, <2>6, <1>0 DEF Rank
    <3> QED BY <3>1, <2>4, <2>5, <2>6, <1>1
  <2>7. CASE m # n
    BY <2>3, <2>7, <1>0, <1>1
  <2> QED BY <2>6, <2>7
<1>6. ASSUME message' # message
      PROVE  \/ \E r \in Slots : ingestWhatsappEvent(r) \/ CommitMessageStatus(r)
             \/ \E n \in Messages : replyWhatsapp(n)
  <2>1. Next
    BY <1>6 DEF vars
  <2>2. ASSUME NEW e \in Events, Deliver(e) PROVE FALSE
    BY <1>6, <2>2 DEF Deliver, Replay, begin, rows
  <2>3. ASSUME NEW r \in Slots, Proceed(r) \/ Crash(r) PROVE ingestWhatsappEvent(r)
    BY <1>6, <2>3 DEF Proceed, Look, CreateCall, applyCallState, showPresence, processed, failed,
                      Crash, rows
  <2>4. ASSUME NEW r \in Requests, Ask(r) PROVE CommitMessageStatus(r)
    BY <1>6, <2>4 DEF Ask, transitionCall, ReadAssign, ReadDisposition, ReadMessageStatus, Start,
                      Reply, CommitAssign, CommitDisposition, rows
  <2>5. ASSUME \/ \E c \in ManualCalls, a \in Agents, s \in TERMINAL_CALL_STATES, again \in BOOLEAN :
                    createManualCall(c, a, s, again) \/ updateManualCall(c, a, s, again)
               \/ \E a \in Agents, status \in {"AVAILABLE", "BUSY", "OFFLINE"} : setManual(a, status)
               \/ \E stale \in SUBSET Agents : list(stale)
        PROVE  FALSE
    BY <1>6, <2>5 DEF createManualCall, updateManualCall, setManual, list, rows
  <2>6. Requests \subseteq Slots
    BY DEF Slots
  <2> QED BY <2>1, <2>2, <2>3, <2>4, <2>5, <2>6 DEF Next
<1>7. QED
  BY <1>2, <1>3, <1>4, <1>5, <1>6

(* Whatever order the provider reports in, the delivery status of a message  *)
(* goes back only to or from a failure, or by a request that read an older   *)
(* status.                                                                   *)
THEOREM StatusesForward == Spec => StatusMovesForward
<1> DEFINE Good ==
      \A m \in Messages :
        \/ Rank(message'[m]) >= Rank(message[m])
        \/ message'[m] = "FAILED"
        \/ \E r \in Slots : Stale(r)
<1>1. Sound /\ [Next]_vars => [Good]_vars
  BY StepForward
<1>2. QED
  BY <1>1, AlwaysSound, PTL DEF Spec, StatusMovesForward

-----------------------------------------------------------------------------
(* The inbox implements EventDelivery.                                       *)

Early == {"look", "create", "apply"}

(* An event is in one slot, which took it and, until it has written the      *)
(* history, is the only one that may.                                        *)
Once ==
  /\ \A r, q \in Slots : req[r].op \in Handling /\ req[q].op \in Handling /\ req[r].e \in Events
       /\ req[r].e = req[q].e => r = q
  /\ \A r \in Slots : req[r].op \in Handling /\ req[r].e \in Events => receipt[req[r].e] # "none"
  /\ \A c \in ProviderCalls : \A entry \in log[c] : entry.by \in Events => receipt[entry.by] # "none"
  /\ \A r \in Slots, c \in ProviderCalls : \A entry \in log[c] :
       req[r].op \in Early /\ req[r].e \in Events => entry.by # req[r].e

(* Every step takes an event, works on one that was taken, or does neither.  *)
Written(who) ==
  \E c \in ProviderCalls, s \in CallState : log' = [log EXCEPT ![c] = @ \union {Entry(who, s)}]

Takes ==
  /\ UNCHANGED << answered, log >>
  /\ \E r \in Slots, e \in Events : \E k :
       /\ receipt[e] = "none"
       /\ receipt' = [receipt EXCEPT ![e] = "PROCESSING"]
       /\ req' = [req EXCEPT ![r] = k]
       /\ k.op \in Handling /\ k.e = e

Works ==
  /\ UNCHANGED << receipt, answered >>
  /\ \E r \in Slots : \E k :
       /\ req[r].op \in Handling
       /\ req' = [req EXCEPT ![r] = k]
       /\ k.op \in Handling /\ k.e = req[r].e
       /\ \/ log' = log /\ (k.op \in Early => req[r].op \in Early)
          \/ Written(req[r].e) /\ req[r].op \in Early /\ k.op \notin Early

Rests ==
  /\ req' = req \/ \E r \in Slots : \E k : req' = [req EXCEPT ![r] = k] /\ (k.op \in Handling => k.e = Staff)
  /\ log' = log \/ Written(Staff)
  /\ \A e \in Events : receipt'[e] = "none" <=> receipt[e] = "none"
  /\ \/ answered' = answered
     \/ \E e \in Events : receipt[e] # "none" /\ answered' = answered \union {e}

LEMMA WorksOn ==
  ASSUME Sound, NEW r \in Slots, req[r].op \in Handling, UNCHANGED << receipt, answered >>,
         NEW step \in Handling, Goto(r, step),
         \/ log' = log /\ (step \in Early => req[r].op \in Early)
         \/ Written(req[r].e) /\ req[r].op \in Early /\ step \notin Early
  PROVE  Works
<1>1. PICK k : /\ req' = [req EXCEPT ![r] = k]
               /\ k.op = step /\ k.e = req[r].e /\ {"op", "e"} \subseteq DOMAIN k
               /\ (k.e \in Events \/ (k.e = Staff /\ r \in Requests))
  BY GoesOn
<1>2. QED
  BY <1>1 DEF Works

LEMMA ProceedKinds == ASSUME Sound, Once, NEW r \in Slots, Proceed(r) PROVE Works \/ Rests
<1>0. Carries(r, req[r])
  BY DEF Sound, Contexts
<1>1. CASE Look(r)
  <2>1. req[r].op = "look" /\ UNCHANGED << receipt, answered, log >>
    BY <1>1 DEF Look, rows
  <2>2. CASE Goto(r, "create") \/ Goto(r, "failed") \/ Goto(r, "processed")
    BY <2>1, <2>2, WorksOn DEF Handling, Early
  <2>3. ASSUME NEW c, NEW e, e = req[r].e,
               req' = [req EXCEPT ![r] = [ op |-> "apply", e |-> e, c |-> c, by |-> e,
                                           seen |-> call[c].state, to |-> Says(e) ]]
        PROVE  Works
    <3>1. PICK k : k = [ op |-> "apply", e |-> e, c |-> c, by |-> e,
                         seen |-> call[c].state, to |-> Says(e) ]
      OBVIOUS
    <3>2. k.op = "apply" /\ k.e = req[r].e /\ req' = [req EXCEPT ![r] = k]
      BY <3>1, <2>3
    <3>3. k.op \in Handling /\ req[r].op \in Handling /\ req[r].op \in Early
      BY <3>2, <2>1 DEF Handling, Early
    <3> QED BY <3>2, <3>3, <2>1 DEF Works
  <2> QED BY <1>1, <2>2, <2>3 DEF Look
<1>2. CASE CreateCall(r)
  <2>1. req[r].op = "create" /\ UNCHANGED << receipt, answered >>
    BY <1>2 DEF CreateCall
  <2>2. PICK e \in CallEvents : e = req[r].e
    BY <1>0, <2>1 DEF Carries
  <2>3. About(e) \in ProviderCalls /\ FirstState(Says(e)) \in CallState
    BY CallAssumption, Table DEF CallAssumption
  <2>4. \/ log' = log /\ Goto(r, "failed")
        \/ Written(e) /\ Goto(r, "processed")
    BY <1>2, <2>2, <2>3 DEF CreateCall, Written
  <2> QED BY <2>1, <2>2, <2>4, WorksOn DEF Handling, Early
<1>3. CASE applyCallState(r)
  <2>1. req[r].op = "apply" /\ UNCHANGED << receipt, answered >>
    BY <1>3 DEF applyCallState
  <2>2. PICK e, c, s, h : e = req[r].e /\ c = req[r].c /\ s = req[r].to /\ h = call[c].handler
    OBVIOUS
  <2>3. req[r].by = e /\ c \in ProviderCalls /\ s \in CallState
    BY <1>0, <2>1, <2>2, Table DEF Carries
  <2>4. PICK k : k = [op |-> "presence", e |-> e, c |-> c, a |-> h, busy |-> s = "ANSWERED"]
    OBVIOUS
  <2>5. \/ log' = log /\ Goto(r, "failed")
        \/ Written(e) /\ (Goto(r, "processed") \/ req' = [req EXCEPT ![r] = k])
    <3>1. CASE UNCHANGED rows /\ Goto(r, "failed")
      BY <3>1 DEF rows
    <3>2. CASE ~ (UNCHANGED rows /\ Goto(r, "failed"))
      <4>1. log' = [log EXCEPT ![c] = @ \union {Entry(e, s)}]
        BY <1>3, <3>2, <2>2, <2>3 DEF applyCallState
      <4>2. Goto(r, "processed") \/ req' = [req EXCEPT ![r] = k]
        BY <1>3, <3>2, <2>2, <2>4 DEF applyCallState
      <4> QED BY <4>1, <4>2, <2>3 DEF Written
    <3> QED BY <3>1, <3>2
  <2>6. CASE Goto(r, "processed") \/ Goto(r, "failed")
    BY <2>1, <2>2, <2>5, <2>6, WorksOn DEF Handling, Early, Goto
  <2>7. CASE Written(e) /\ req' = [req EXCEPT ![r] = k]
    <3>1. k.op = "presence" /\ k.e = req[r].e
      BY <2>2, <2>4
    <3>2. /\ k.op \in Handling /\ req[r].op \in Handling
          /\ req[r].op \in Early /\ k.op \notin Early
      BY <3>1, <2>1 DEF Handling, Early
    <3> QED BY <3>1, <3>2, <2>1, <2>2, <2>7 DEF Works
  <2> QED BY <2>5, <2>6, <2>7
<1>4. CASE showPresence(r) \/ ingestWhatsappEvent(r)
  <2>1. req[r].op \in Handling /\ UNCHANGED << receipt, answered, log >>
        /\ (Goto(r, "processed") \/ Goto(r, "failed"))
    BY <1>4 DEF showPresence, ingestWhatsappEvent, rows, Handling
  <2> QED BY <2>1, WorksOn DEF Handling, Early
<1>5. CASE processed(r) \/ failed(r)
  <2>1. PICK e : e = req[r].e
    OBVIOUS
  <2>2. e \in Events
    BY <1>0, <1>5, <2>1, CallAssumption DEF processed, failed, Carries, Handling, CallAssumption
  <2>3. log' = log /\ req' = [req EXCEPT ![r] = Idle] /\ "idle" \notin Handling /\ Idle.op = "idle"
    BY <1>5 DEF processed, failed, End, rows, Idle, Handling
  <2>4. receipt[e] # "none"
    BY <1>5, <2>1, <2>2 DEF processed, failed, Once, Handling
  <2>5. \A x \in Events : receipt'[x] = "none" <=> receipt[x] = "none"
    BY <1>5, <2>1, <2>2, <2>4 DEF processed, failed, Sound, Typed
  <2>6. answered' = answered \/ answered' = answered \union {e}
    BY <1>5, <2>1 DEF processed, failed
  <2>7. \E k : req' = [req EXCEPT ![r] = k] /\ (k.op \in Handling => k.e = Staff)
    BY <2>3
  <2> QED BY <2>2, <2>3, <2>4, <2>5, <2>6, <2>7 DEF Rests
<1>6. QED
  BY <1>1, <1>2, <1>3, <1>4, <1>5 DEF Proceed

LEMMA OtherKinds ==
  ASSUME Sound, Once, Next, \A r \in Slots : ~ Proceed(r)
  PROVE  Takes \/ Rests
<1>0. Deliveries \subseteq Slots /\ Requests \subseteq Slots
  BY DEF Slots
<1>1. ASSUME NEW e \in Events, Replay(e) PROVE Rests
  BY <1>1 DEF Replay, Rests, rows
<1>2. ASSUME NEW e \in Events, NEW r \in Deliveries, begin(r, e) PROVE Takes
  <2>1. PICK k : k = [op |-> IF e \in CallEvents THEN "look" ELSE "receive", e |-> e]
    OBVIOUS
  <2>2. k.op \in Handling /\ k.e = e
    BY <2>1 DEF Handling
  <2> QED BY <2>1, <2>2, <1>0, <1>2 DEF begin, Takes, rows
<1>3. ASSUME NEW r \in Slots, Crash(r) \/ Reply(r) PROVE Rests
  <2>1. "idle" \notin Handling /\ Idle.op = "idle" /\ req' = [req EXCEPT ![r] = Idle]
        /\ UNCHANGED << receipt, answered, log >>
    BY <1>3 DEF Crash, Reply, End, Idle, Handling, rows
  <2> QED BY <2>1 DEF Rests
<1>4. ASSUME NEW r \in Slots, NEW k, Start(r, k), k.op \in Handling => k.e = Staff PROVE Rests
  BY <1>4 DEF Start, Rests, rows
<1>5. ASSUME NEW r \in Requests, Ask(r) PROVE Rests
  <2>1. ASSUME NEW c \in Calls, NEW s \in CallState, transitionCall(r, c, s) PROVE Rests
    <3>1. PICK k : k = [ op |-> "apply", e |-> Staff, c |-> c, by |-> Staff,
                         seen |-> call[c].state, to |-> s ]
      OBVIOUS
    <3>2. k.e = Staff
      BY <3>1
    <3> QED BY <3>1, <3>2, <2>1, <1>0, <1>4 DEF transitionCall
  <2>2. ASSUME NEW c \in Calls, NEW a \in Agents, ReadAssign(r, c, a) PROVE Rests
    <3>1. PICK k : k = [ op |-> "assign", c |-> c, a |-> a, seen |-> call[c].state,
                         to |-> IF call[c].handler = Nobody THEN "ASSIGNED" ELSE "FORWARDED" ]
      OBVIOUS
    <3>2. k.op \notin Handling
      BY <3>1 DEF Handling
    <3> QED BY <3>1, <3>2, <2>2, <1>0, <1>4 DEF ReadAssign
  <2>3. ASSUME NEW c \in Calls, NEW again \in BOOLEAN, ReadDisposition(r, c, again) PROVE Rests
    <3>1. PICK k : k = [op |-> "dispose", c |-> c, again |-> again]
      OBVIOUS
    <3>2. k.op \notin Handling
      BY <3>1 DEF Handling
    <3> QED BY <3>1, <3>2, <2>3, <1>0, <1>4 DEF ReadDisposition
  <2>4. ASSUME NEW m \in Messages, NEW status \in ProviderStatuses, ReadMessageStatus(r, m, status)
        PROVE Rests
    <3>1. PICK k : k = [op |-> "status", m |-> m, to |-> status, seen |-> message[m]]
      OBVIOUS
    <3>2. k.op \notin Handling
      BY <3>1 DEF Handling
    <3> QED BY <3>1, <3>2, <2>4, <1>0, <1>4 DEF ReadMessageStatus
  <2>5. CASE CommitAssign(r)
    <3>1. Carries(r, req[r]) /\ req[r].op = "assign"
      BY <2>5, <1>0 DEF CommitAssign, Sound, Contexts
    <3>2. req[r].c \in ProviderCalls /\ req[r].to \in CallState
      BY <3>1 DEF Carries, CallState
    <3>3. Written(Staff) /\ UNCHANGED << receipt, answered >> /\ req' = [req EXCEPT ![r] = Idle]
      BY <2>5, <3>2 DEF CommitAssign, Written, End
    <3>4. "idle" \notin Handling /\ Idle.op = "idle"
      BY DEF Idle, Handling
    <3> QED BY <3>3, <3>4, <1>0 DEF Rests
  <2>6. CASE CommitDisposition(r) \/ CommitMessageStatus(r)
    <3>1. UNCHANGED << receipt, answered, log >> /\ req' = [req EXCEPT ![r] = Idle]
      BY <2>6 DEF CommitDisposition, CommitMessageStatus, End
    <3>2. "idle" \notin Handling /\ Idle.op = "idle"
      BY DEF Idle, Handling
    <3> QED BY <3>1, <3>2, <1>0 DEF Rests
  <2>7. CASE Reply(r)
    BY <2>7, <1>0, <1>3
  <2> QED BY <1>5, <2>1, <2>2, <2>3, <2>4, <2>5, <2>6, <2>7 DEF Ask
<1>6. ASSUME \/ \E c \in ManualCalls, a \in Agents, s \in TERMINAL_CALL_STATES, again \in BOOLEAN :
                  createManualCall(c, a, s, again) \/ updateManualCall(c, a, s, again)
             \/ \E a \in Agents, status \in {"AVAILABLE", "BUSY", "OFFLINE"} : setManual(a, status)
             \/ \E stale \in SUBSET Agents : list(stale)
             \/ \E m \in Messages : replyWhatsapp(m)
      PROVE  Rests
  <2>1. UNCHANGED << receipt, answered, log, req >>
    BY <1>6 DEF createManualCall, updateManualCall, setManual, list, replyWhatsapp, rows
  <2> QED BY <2>1 DEF Rests
<1>7. QED
  BY <1>1, <1>2, <1>3, <1>5, <1>6 DEF Next, Deliver

LEMMA StepKinds == ASSUME Sound, Once, [Next]_vars PROVE Takes \/ Works \/ Rests
<1>1. CASE UNCHANGED vars
  BY <1>1 DEF vars, Rests
<1>2. CASE \E r \in Slots : Proceed(r)
  BY <1>2, ProceedKinds
<1>3. CASE Next /\ \A r \in Slots : ~ Proceed(r)
  BY <1>3, OtherKinds
<1>4. QED
  BY <1>1, <1>2, <1>3

(* What a write of the history adds are entries of who wrote it.             *)
LEMMA HistoryGrows ==
  ASSUME Sound, NEW who, Written(who)
  PROVE  /\ \A c \in ProviderCalls : log[c] \subseteq log'[c]
         /\ \A c \in ProviderCalls : \A entry \in log'[c] : entry \in log[c] \/ entry.by = who
         /\ \E c \in ProviderCalls : \E entry \in log'[c] : entry.by = who
<1>1. PICK d \in ProviderCalls, s \in CallState : log' = [log EXCEPT ![d] = @ \union {Entry(who, s)}]
  BY DEF Written
<1>2. log \in [ProviderCalls -> SUBSET Entries]
  BY DEF Sound, Typed
<1>3. Entry(who, s).by = who
  BY DEF Entry
<1>4. log'[d] = log[d] \union {Entry(who, s)} /\ \A c \in ProviderCalls : c # d => log'[c] = log[c]
  BY <1>1, <1>2
<1>5. QED
  BY <1>3, <1>4

LEMMA OnceStays == ASSUME Sound, Once, [Next]_vars PROVE Once'
<1>0. DOMAIN req = Slots /\ receipt \in [Events -> {"none", "PROCESSING", "PROCESSED", "FAILED"}]
      /\ Staff \notin Events
  BY CallAssumption DEF Sound, Typed, CallAssumption
<1>1. CASE Takes
  <2>1. PICK r0, e0, k :
          /\ r0 \in Slots /\ e0 \in Events
          /\ receipt[e0] = "none"
          /\ receipt' = [receipt EXCEPT ![e0] = "PROCESSING"]
          /\ req' = [req EXCEPT ![r0] = k]
          /\ k.op \in Handling /\ k.e = e0
    BY <1>1 DEF Takes
  <2>2. log' = log
    BY <1>1 DEF Takes
  <2>3. req'[r0] = k /\ \A r \in Slots : r # r0 => req'[r] = req[r]
    BY <1>0, <2>1
  <2>4. \A e \in Events : receipt[e] # "none" => receipt'[e] # "none"
    BY <1>0, <2>1
  <2>5. receipt'[e0] # "none"
    BY <1>0, <2>1
  <2>6. \A r \in Slots : req[r].op \in Handling => req[r].e # e0
    BY <2>1 DEF Once
  <2>7. \A r, q \in Slots : req'[r].op \in Handling /\ req'[q].op \in Handling /\ req'[r].e \in Events
          /\ req'[r].e = req'[q].e => r = q
    BY <2>1, <2>3, <2>6 DEF Once
  <2>8. \A r \in Slots : req'[r].op \in Handling /\ req'[r].e \in Events => receipt'[req'[r].e] # "none"
    BY <2>1, <2>3, <2>4, <2>5 DEF Once
  <2>9. \A c \in ProviderCalls : \A entry \in log'[c] : entry.by \in Events => receipt'[entry.by] # "none"
    BY <2>2, <2>4 DEF Once
  <2>10. \A r \in Slots, c \in ProviderCalls : \A entry \in log'[c] :
           req'[r].op \in Early /\ req'[r].e \in Events => entry.by # req'[r].e
    BY <2>1, <2>2, <2>3 DEF Once
  <2> QED BY <2>7, <2>8, <2>9, <2>10 DEF Once
<1>2. CASE Works
  <2>1. PICK r0, k :
          /\ r0 \in Slots
          /\ req[r0].op \in Handling
          /\ req' = [req EXCEPT ![r0] = k]
          /\ k.op \in Handling /\ k.e = req[r0].e
          /\ \/ log' = log /\ (k.op \in Early => req[r0].op \in Early)
             \/ Written(req[r0].e) /\ req[r0].op \in Early /\ k.op \notin Early
    BY <1>2 DEF Works
  <2>2. receipt' = receipt
    BY <1>2 DEF Works
  <2>3. req'[r0] = k /\ \A r \in Slots : r # r0 => req'[r] = req[r]
    BY <1>0, <2>1
  <2>4. PICK w : w = req[r0].e
    OBVIOUS
  <2>5. w \in Events => receipt[w] # "none"
    BY <2>1, <2>4 DEF Once
  <2>6. \A c \in ProviderCalls : \A entry \in log'[c] :
          entry \in log[c] \/ (entry.by = w /\ k.op \notin Early)
    BY <2>1, <2>4, HistoryGrows
  <2>7. \A r, q \in Slots : req'[r].op \in Handling /\ req'[q].op \in Handling /\ req'[r].e \in Events
          /\ req'[r].e = req'[q].e => r = q
    BY <2>1, <2>3 DEF Once
  <2>8. \A r \in Slots : req'[r].op \in Handling /\ req'[r].e \in Events => receipt'[req'[r].e] # "none"
    BY <2>1, <2>2, <2>3 DEF Once
  <2>9. \A c \in ProviderCalls : \A entry \in log'[c] : entry.by \in Events => receipt'[entry.by] # "none"
    BY <2>2, <2>5, <2>6 DEF Once
  <2>10. ASSUME NEW r \in Slots, NEW c \in ProviderCalls, NEW entry \in log'[c],
                req'[r].op \in Early, req'[r].e \in Events
         PROVE  entry.by # req'[r].e
    <3>1. CASE r = r0
      <4>1. k.op \in Early /\ entry \in log[c] /\ k.e = req[r0].e /\ k.e \in Events
        BY <3>1, <2>1, <2>3, <2>6, <2>10
      <4>2. req[r0].op \in Early
        BY <4>1, <2>1
      <4> QED BY <3>1, <4>1, <4>2, <2>3 DEF Once
    <3>2. CASE r # r0
      <4>1. req'[r] = req[r] /\ req[r].op \in Handling
        BY <3>2, <2>3, <2>10 DEF Early, Handling
      <4>2. req[r].e # w
        BY <4>1, <3>2, <2>1, <2>4, <2>10 DEF Once
      <4> QED BY <4>1, <4>2, <2>6, <2>10 DEF Once
    <3> QED BY <3>1, <3>2
  <2> QED BY <2>7, <2>8, <2>9, <2>10 DEF Once
<1>3. CASE Rests
  <2>1. \A r \in Slots : req'[r] = req[r] \/ (req'[r].op \in Handling => req'[r].e = Staff)
    <3>1. CASE req' = req
      BY <3>1
    <3>2. ASSUME NEW r0 \in Slots, NEW k, req' = [req EXCEPT ![r0] = k], k.op \in Handling => k.e = Staff
          PROVE  \A r \in Slots : req'[r] = req[r] \/ (req'[r].op \in Handling => req'[r].e = Staff)
      BY <3>2, <1>0
    <3> QED BY <1>3, <3>1, <3>2 DEF Rests
  <2>2. \A e \in Events : receipt[e] # "none" => receipt'[e] # "none"
    BY <1>3 DEF Rests
  <2>3. \A c \in ProviderCalls : \A entry \in log'[c] : entry \in log[c] \/ entry.by = Staff
    BY <1>3, HistoryGrows DEF Rests
  <2>4. Early \subseteq Handling
    BY DEF Early, Handling
  <2>5. \A r, q \in Slots : req'[r].op \in Handling /\ req'[q].op \in Handling /\ req'[r].e \in Events
          /\ req'[r].e = req'[q].e => r = q
    BY <1>0, <2>1 DEF Once
  <2>6. \A r \in Slots : req'[r].op \in Handling /\ req'[r].e \in Events => receipt'[req'[r].e] # "none"
    BY <1>0, <2>1, <2>2 DEF Once
  <2>7. \A c \in ProviderCalls : \A entry \in log'[c] : entry.by \in Events => receipt'[entry.by] # "none"
    BY <1>0, <2>2, <2>3 DEF Once
  <2>8. \A r \in Slots, c \in ProviderCalls : \A entry \in log'[c] :
          req'[r].op \in Early /\ req'[r].e \in Events => entry.by # req'[r].e
    BY <1>0, <2>1, <2>3, <2>4 DEF Once
  <2> QED BY <2>5, <2>6, <2>7, <2>8 DEF Once
<1>4. QED
  BY <1>1, <1>2, <1>3, StepKinds

(* What the refinement reads off the rows.                                   *)
Taken == {e \in Events : receipt[e] # "none"}
Applied == {e \in CallEvents : \E c \in ProviderCalls : \E entry \in log[c] : entry.by = e}

LEMMA AppliedGrows ==
  ASSUME Sound, NEW who, Written(who)
  PROVE  Applied' = Applied \union ({who} \intersect CallEvents)
<1>1. \A e \in CallEvents : e \in Applied' <=> e \in Applied \/ e = who
  BY HistoryGrows DEF Applied
<1>2. QED
  BY <1>1 DEF Applied

LEMMA StepDelivers ==
  ASSUME Sound, Once, [Next]_vars
  PROVE  [Delivery!Next]_(Delivery!delivery)
<1>0. receipt \in [Events -> {"none", "PROCESSING", "PROCESSED", "FAILED"}] /\ Staff \notin CallEvents
      /\ CallEvents \subseteq Events
  BY CallAssumption DEF Sound, Typed, CallAssumption, Events
<1>1. CASE Takes
  <2>1. PICK e \in Events : receipt[e] = "none" /\ receipt' = [receipt EXCEPT ![e] = "PROCESSING"]
    BY <1>1 DEF Takes
  <2>2. Taken' = Taken \union {e} /\ e \notin Taken
    BY <1>0, <2>1 DEF Taken
  <2>3. Applied' = Applied /\ answered' = answered
    BY <1>1 DEF Takes, Applied
  <2> QED BY <2>2, <2>3 DEF Delivery!Next, Delivery!Take, Taken, Applied
<1>2. CASE Works
  <2>1. PICK r \in Slots : /\ req[r].op \in Handling
                           /\ log' = log \/ (Written(req[r].e) /\ req[r].op \in Early)
    BY <1>2 DEF Works
  <2>2. Taken' = Taken /\ answered' = answered
    BY <1>2 DEF Works, Taken
  <2>3. CASE log' = log
    <3>1. Applied' = Applied
      BY <2>3 DEF Applied
    <3> QED BY <2>2, <3>1 DEF Delivery!delivery, Taken, Applied
  <2>4. CASE Written(req[r].e) /\ req[r].op \in Early
    <3>1. PICK w : w = req[r].e
      OBVIOUS
    <3>2. Applied' = Applied \union ({w} \intersect CallEvents)
      BY <2>4, <3>1, AppliedGrows
    <3>3. CASE w \in CallEvents
      <4>1. w \in Taken /\ w \notin Applied
        BY <1>0, <2>1, <2>4, <3>1, <3>3 DEF Once, Taken, Applied
      <4>2. Applied' = Applied \union {w}
        BY <3>2, <3>3
      <4> QED BY <4>1, <4>2, <2>2, <1>0, <3>3 DEF Delivery!Next, Delivery!Apply, Taken, Applied
    <3>4. CASE w \notin CallEvents
      <4>1. Applied' = Applied
        BY <3>2, <3>4
      <4> QED BY <4>1, <2>2 DEF Delivery!delivery, Taken, Applied
    <3> QED BY <3>3, <3>4
  <2> QED BY <2>1, <2>3, <2>4
<1>3. CASE Rests
  <2>1. Taken' = Taken
    BY <1>3 DEF Rests, Taken
  <2>2. Applied' = Applied
    <3>1. CASE log' = log
      BY <3>1 DEF Applied
    <3>2. CASE Written(Staff)
      BY <3>2, <1>0, AppliedGrows
    <3> QED BY <1>3, <3>1, <3>2 DEF Rests
  <2>3. CASE answered' = answered
    BY <2>1, <2>2, <2>3 DEF Delivery!delivery, Taken, Applied
  <2>4. ASSUME NEW e \in Events, receipt[e] # "none", answered' = answered \union {e}
        PROVE  [Delivery!Next]_(Delivery!delivery)
    <3>1. e \in Taken
      BY <2>4 DEF Taken
    <3>2. CASE e \in answered
      <4>1. answered' = answered
        BY <2>4, <3>2
      <4> QED BY <4>1, <2>3
    <3>3. CASE e \notin answered
      BY <3>1, <3>3, <2>1, <2>2, <2>4 DEF Delivery!Next, Delivery!Answer, Taken, Applied
    <3> QED BY <3>2, <3>3
  <2> QED BY <1>3, <2>3, <2>4 DEF Rests
<1>4. QED
  BY <1>1, <1>2, <1>3, StepKinds

(* The safety half of ImplementsDelivery: an event is taken once, has its    *)
(* effect on the history of a call at most once and only after it was taken, *)
(* and is answered only then, wherever the deliveries die.                   *)
THEOREM DeliversOnce == Spec => Delivery!Init /\ [][Delivery!Next]_(Delivery!delivery)
<1>1. Init => Once
  BY DEF Init, Once, Idle, Handling, Early
<1>2. Init => Delivery!Init
  BY DEF Init, Delivery!Init, Events
<1>3. Sound /\ Once /\ [Next]_vars => Once'
  BY OnceStays
<1>4. Sound /\ Once /\ [Next]_vars => [Delivery!Next]_(Delivery!delivery)
  BY StepDelivers
<1>5. QED
  BY <1>1, <1>2, <1>3, <1>4, AlwaysSound, PTL DEF Spec
=============================================================================
