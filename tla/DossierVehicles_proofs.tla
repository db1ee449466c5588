----------------------- MODULE DossierVehicles_proofs -----------------------
(***************************************************************************)
(* Proofs about DossierVehicles, for every set of dossiers, vehicles and   *)
(* concurrent requests and every workflow the assumption allows.           *)
(***************************************************************************)
EXTENDS DossierVehicles, TLAPS

-----------------------------------------------------------------------------
(* The map gives every milestone but the cancellation a vehicle status.      *)
LEMMA TargetTyped ==
  ASSUME NEW s, s # "cancelled"
  PROVE  getTargetVehicleStatus(s) \in VehicleStatuses
  BY DEF getTargetVehicleStatus, VehicleStatuses

(* A bulk write of one status keeps the vehicles well typed.                 *)
LEMMA SetStatusTyped ==
  ASSUME TypeOK, NEW S, NEW x \in VehicleStatuses
  PROVE  SetStatus(S, x) \in [Vehicles -> [status : VehicleStatuses, archived : BOOLEAN]]
  BY DEF TypeOK, SetStatus

(* A dossier that is not finished is at one of the steps.                    *)
LEMMA ActiveAtStep ==
  ASSUME TypeOK, NEW d \in Dossiers, Active(d)
  PROVE  dossier[d].status \in StepSet
  BY DEF TypeOK, DossierRows, Active, Exists, IsTerminal, TERMINAL_STATUSES

LEMMA FirstStep == Steps[1] \in StepSet
  <1>1. 1 \in DOMAIN Steps
    BY VehiclesAssumption
  <1> QED BY <1>1 DEF StepSet
-----------------------------------------------------------------------------
(* An archived dossier remembers the step it was cancelled from: what a      *)
(* restore needs, and what makes the typing inductive.                       *)
ArchivedHasOrigin ==
  \A d \in Dossiers : dossier[d].archived => dossier[d].cancelledFrom \in StepSet

Typed == TypeOK /\ ArchivedHasOrigin

LEMMA InitTyped == Init => Typed
  <1> SUFFICES ASSUME Init PROVE Typed
    OBVIOUS
  <1> USE VehiclesAssumption DEF Init, Absent, NoRow, Idle
  <1>1. dossier \in [Dossiers -> DossierRows]
    BY DEF DossierRows
  <1>2. vehicle \in [Vehicles -> [status : VehicleStatuses, archived : BOOLEAN]]
    BY DEF VehicleStatuses
  <1>3. req \in [Requests -> Contexts]
    BY DEF Contexts
  <1>4. ArchivedHasOrigin
    BY DEF ArchivedHasOrigin
  <1> QED BY <1>1, <1>2, <1>3, <1>4 DEF Typed, TypeOK

(* A context of the right shape keeps the requests well typed.               *)
LEMMA StartTyped ==
  ASSUME Typed, NEW r \in Requests, NEW c \in Contexts,
         req' = [req EXCEPT ![r] = c], UNCHANGED << dossier, vehicle, links >>
  PROVE  Typed'
  BY DEF Typed, TypeOK, ArchivedHasOrigin

LEMMA IdleTyped ==
  ASSUME TypeOK, NEW r \in Requests, Finished(r)
  PROVE  req' \in [Requests -> Contexts]
  <1>1. Idle \in Contexts
    BY DEF Contexts
  <1> QED BY <1>1 DEF TypeOK, Finished

LEMMA CreateTyped ==
  ASSUME Typed, NEW d \in Dossiers, NEW S \in SUBSET Vehicles, NEW c \in BOOLEAN,
         Create(d, S, c)
  PROVE  Typed'
  <1> USE DEF Typed
  <1>1. dossier' \in [Dossiers -> DossierRows]
    BY FirstStep DEF Create, TypeOK, DossierRows, Absent, NoRow
  <1>2. Steps[1] # "cancelled"
    BY VehiclesAssumption DEF TERMINAL_STATUSES
  <1>3. vehicle' \in [Vehicles -> [status : VehicleStatuses, archived : BOOLEAN]]
    BY <1>2, TargetTyped, SetStatusTyped DEF Create
  <1>4. links' \subseteq Dossiers \X Vehicles
    BY DEF Create, TypeOK
  <1>5. req' \in [Requests -> Contexts]
    BY DEF Create, Serve, TypeOK
  <1>6. ArchivedHasOrigin'
    BY DEF Create, TypeOK, ArchivedHasOrigin, Absent, NoRow
  <1> QED BY <1>1, <1>3, <1>4, <1>5, <1>6 DEF TypeOK

LEMMA ReadLinkTyped ==
  ASSUME Typed, NEW r \in Requests, NEW d \in Dossiers, NEW v \in Vehicles,
         ReadAdd(r, d, v) \/ ReadRemove(r, d, v)
  PROVE  Typed'
  <1>1. CASE ReadAdd(r, d, v)
    <2>1. [op |-> "add", d |-> d, v |-> v] \in Contexts
      BY DEF Contexts
    <2> QED BY <1>1, <2>1, StartTyped DEF ReadAdd, Start
  <1>2. CASE ReadRemove(r, d, v)
    <2>1. [op |-> "remove", d |-> d, v |-> v] \in Contexts
      BY DEF Contexts
    <2> QED BY <1>2, <2>1, StartTyped DEF ReadRemove, Start
  <1> QED BY <1>1, <1>2

LEMMA ReadDossierTyped ==
  ASSUME Typed, NEW r \in Requests, NEW d \in Dossiers,
         ReadStatus(r, d) \/ ReadRestore(r, d) \/ ReadDelete(r, d)
  PROVE  Typed'
  <1> USE DEF Typed
  <1>1. CASE ReadStatus(r, d)
    <2>1. PICK to \in Targets, b \in Vehicles \union {NoVehicle} :
            /\ req' = [req EXCEPT ![r] =
                 [op |-> "advance", d |-> d, from |-> dossier[d].status, to |-> to, b |-> b]]
            /\ UNCHANGED << dossier, vehicle, links >>
      BY <1>1 DEF ReadStatus, Start
    <2>2. dossier[d].status \in StepSet
      BY <1>1, ActiveAtStep DEF ReadStatus
    <2>3. [op |-> "advance", d |-> d, from |-> dossier[d].status, to |-> to, b |-> b]
            \in Contexts
      BY <2>2 DEF Contexts
    <2> QED BY <2>1, <2>3, StartTyped
  <1>2. CASE ReadRestore(r, d)
    <2>1. dossier[d].cancelledFrom \in StepSet
      BY <1>2 DEF ReadRestore, ArchivedHasOrigin
    <2>2. Linked(d) \in SUBSET Vehicles
      BY DEF Linked
    <2>3. [op |-> "restore", d |-> d, to |-> dossier[d].cancelledFrom, vs |-> Linked(d)]
            \in Contexts
      BY <2>1, <2>2 DEF Contexts
    <2> QED BY <1>2, <2>3, StartTyped DEF ReadRestore, Start
  <1>3. CASE ReadDelete(r, d)
    <2>1. [op |-> "delete", d |-> d] \in Contexts
      BY DEF Contexts
    <2> QED BY <1>3, <2>1, StartTyped DEF ReadDelete, Start
  <1> QED BY <1>1, <1>2, <1>3

LEMMA ReadArchiveTyped ==
  ASSUME Typed, NEW r \in Requests, NEW v \in Vehicles, ReadArchive(r, v)
  PROVE  Typed'
  <1>1. [op |-> "archiveVehicle", v |-> v] \in Contexts
    BY DEF Contexts
  <1> QED BY <1>1, StartTyped DEF ReadArchive, Start

(* What the shape of a context says about its fields. *)
LEMMA ContextFields ==
  ASSUME TypeOK, NEW r \in Requests
  PROVE  /\ req[r].op \in {"add", "remove"} =>
              req[r].d \in Dossiers /\ req[r].v \in Vehicles
         /\ req[r].op \in {"advance", "claimed"} =>
              /\ req[r].d \in Dossiers /\ req[r].from \in StepSet
              /\ req[r].to \in Targets /\ req[r].b \in Vehicles \union {NoVehicle}
         /\ req[r].op = "claimed" => req[r].write \in SUBSET Vehicles
         /\ req[r].op = "restore" =>
              /\ req[r].d \in Dossiers /\ req[r].to \in StepSet
              /\ req[r].vs \in SUBSET Vehicles
         /\ req[r].op = "delete" => req[r].d \in Dossiers
         /\ req[r].op = "archiveVehicle" => req[r].v \in Vehicles
  <1>1. req[r] \in Contexts
    BY DEF TypeOK
  <1> QED BY <1>1 DEF Contexts, Idle

LEMMA ClaimTyped ==
  ASSUME Typed, NEW r \in Requests, Claim(r)
  PROVE  Typed'
  <1> USE DEF Typed
  <1>1. ToWrite(req[r].d, req[r].to) \in SUBSET Vehicles
    BY DEF ToWrite, Linked
  <1>2. [ op |-> "claimed", d |-> req[r].d, from |-> req[r].from, to |-> req[r].to,
          b |-> req[r].b, write |-> ToWrite(req[r].d, req[r].to) ] \in Contexts
    BY <1>1, ContextFields DEF Claim, Contexts
  <1> QED BY <1>2, StartTyped DEF Claim

LEMMA MovedTyped ==
  ASSUME NEW row \in DossierRows, NEW from \in StepSet, NEW to \in Targets,
         NEW b \in Vehicles \union {NoVehicle}
  PROVE  LET new == Moved(row, from, to, b)
         IN  new \in DossierRows /\ (new.archived => new.cancelledFrom \in StepSet)
  BY DEF Moved, DossierRows, Targets

LEMMA CommitStatusTyped ==
  ASSUME Typed, NEW r \in Requests, CommitStatus(r)
  PROVE  Typed'
  <1> USE DEF Typed
  <1> DEFINE d == req[r].d
             to == req[r].to
             row == Moved(dossier[d], req[r].from, to, req[r].b)
  <1>1. /\ d \in Dossiers /\ to \in Targets /\ req[r].from \in StepSet
        /\ req[r].b \in Vehicles \union {NoVehicle}
    BY ContextFields DEF CommitStatus
  <1>2. dossier' = [dossier EXCEPT ![d] = row]
    BY DEF CommitStatus
  <1>7. row \in DossierRows /\ (row.archived => row.cancelledFrom \in StepSet)
    BY <1>1, MovedTyped DEF TypeOK
  <1>3. (IF to = "cancelled" THEN "available" ELSE getTargetVehicleStatus(to))
          \in VehicleStatuses
    BY TargetTyped DEF VehicleStatuses
  <1>4. vehicle' \in [Vehicles -> [status : VehicleStatuses, archived : BOOLEAN]]
    BY <1>3, SetStatusTyped DEF CommitStatus
  <1>5. req' \in [Requests -> Contexts]
    BY IdleTyped DEF CommitStatus
  <1>6. dossier' \in [Dossiers -> DossierRows] /\ ArchivedHasOrigin'
    BY <1>1, <1>2, <1>7 DEF TypeOK, ArchivedHasOrigin
  <1> QED BY <1>4, <1>5, <1>6 DEF TypeOK, CommitStatus

LEMMA CommitRestoreTyped ==
  ASSUME Typed, NEW r \in Requests, CommitRestore(r)
  PROVE  Typed'
  <1> USE DEF Typed
  <1>1. /\ req[r].d \in Dossiers /\ req[r].to \in StepSet
    BY ContextFields DEF CommitRestore
  <1>2. dossier' \in [Dossiers -> DossierRows]
    BY <1>1 DEF CommitRestore, TypeOK, DossierRows
  <1>3. vehicle' \in [Vehicles -> [status : VehicleStatuses, archived : BOOLEAN]]
    BY SetStatusTyped DEF CommitRestore, VehicleStatuses
  <1>4. req' \in [Requests -> Contexts]
    BY IdleTyped DEF CommitRestore
  <1>5. ArchivedHasOrigin'
    BY <1>1 DEF CommitRestore, TypeOK, ArchivedHasOrigin, DossierRows
  <1> QED BY <1>2, <1>3, <1>4, <1>5 DEF TypeOK, CommitRestore

LEMMA OtherCommitsTyped ==
  ASSUME Typed, NEW r \in Requests,
         \/ CommitAdd(r) \/ CommitRemove(r) \/ CommitDelete(r)
         \/ CommitArchive(r) \/ Abort(r)
  PROVE  Typed'
  <1> USE DEF Typed
  <1>1. req' \in [Requests -> Contexts]
    BY IdleTyped DEF CommitAdd, CommitRemove, CommitDelete, CommitArchive, Abort
  <1>2. CASE CommitAdd(r)
    <2>1. req[r].d \in Dossiers /\ req[r].v \in Vehicles
      BY <1>2, ContextFields DEF CommitAdd
    <2>2. vehicle' \in [Vehicles -> [status : VehicleStatuses, archived : BOOLEAN]]
      BY <1>2, SetStatusTyped DEF CommitAdd, VehicleStatuses
    <2>3. links' \subseteq Dossiers \X Vehicles
      BY <1>2, <2>1 DEF CommitAdd, TypeOK
    <2>4. UNCHANGED dossier
      BY <1>2 DEF CommitAdd
    <2> QED BY <1>1, <2>2, <2>3, <2>4 DEF TypeOK, ArchivedHasOrigin
  <1>3. CASE CommitRemove(r)
    <2>1. vehicle' \in [Vehicles -> [status : VehicleStatuses, archived : BOOLEAN]]
      BY <1>3, SetStatusTyped DEF CommitRemove, VehicleStatuses
    <2> QED BY <1>1, <1>3, <2>1 DEF CommitRemove, TypeOK, ArchivedHasOrigin
  <1>4. CASE CommitDelete(r)
    <2>1. dossier' \in [Dossiers -> DossierRows]
      BY <1>4 DEF CommitDelete, TypeOK, DossierRows, Deleted, NoRow
    <2>2. ArchivedHasOrigin'
      BY <1>4 DEF CommitDelete, TypeOK, ArchivedHasOrigin, Deleted, NoRow
    <2> QED BY <1>1, <1>4, <2>1, <2>2 DEF CommitDelete, TypeOK
  <1>5. CASE CommitArchive(r)
    <2>1. req[r].v \in Vehicles
      BY <1>5, ContextFields DEF CommitArchive
    <2> QED BY <1>1, <1>5, <2>1 DEF CommitArchive, TypeOK, ArchivedHasOrigin
  <1>6. CASE Abort(r)
    BY <1>1, <1>6 DEF Abort, TypeOK, ArchivedHasOrigin
  <1> QED BY <1>2, <1>3, <1>4, <1>5, <1>6

LEMMA UpdateVehicleTyped ==
  ASSUME Typed, NEW v \in Vehicles, NEW s \in SettableStatuses, UpdateVehicle(v, s)
  PROVE  Typed'
  <1> USE DEF Typed
  <1>1. s \in VehicleStatuses
    BY VehiclesAssumption
  <1>2. vehicle' \in [Vehicles -> [status : VehicleStatuses, archived : BOOLEAN]]
    BY <1>1, SetStatusTyped DEF UpdateVehicle
  <1> QED BY <1>2 DEF UpdateVehicle, Serve, TypeOK, ArchivedHasOrigin

LEMMA StepTyped == Typed /\ [Next]_vars => Typed'
  <1> SUFFICES ASSUME Typed, [Next]_vars PROVE Typed'
    OBVIOUS
  <1>1. CASE \E d \in Dossiers, S \in SUBSET Vehicles, c \in BOOLEAN : Create(d, S, c)
    BY <1>1, CreateTyped
  <1>2. CASE \E v \in Vehicles, s \in SettableStatuses : UpdateVehicle(v, s)
    BY <1>2, UpdateVehicleTyped
  <1>3. ASSUME NEW r \in Requests, NEW d \in Dossiers, NEW v \in Vehicles,
               ReadAdd(r, d, v) \/ ReadRemove(r, d, v)
        PROVE  Typed'
    BY <1>3, ReadLinkTyped
  <1>4. ASSUME NEW r \in Requests, NEW d \in Dossiers,
               ReadStatus(r, d) \/ ReadRestore(r, d) \/ ReadDelete(r, d)
        PROVE  Typed'
    BY <1>4, ReadDossierTyped
  <1>5. ASSUME NEW r \in Requests, NEW v \in Vehicles, ReadArchive(r, v)
        PROVE  Typed'
    BY <1>5, ReadArchiveTyped
  <1>6. ASSUME NEW r \in Requests,
               \/ CommitAdd(r) \/ CommitRemove(r) \/ Claim(r) \/ CommitStatus(r)
               \/ CommitRestore(r) \/ CommitDelete(r) \/ CommitArchive(r) \/ Abort(r)
        PROVE  Typed'
    BY <1>6, ClaimTyped, CommitStatusTyped, CommitRestoreTyped, OtherCommitsTyped
  <1>7. CASE UNCHANGED vars
    BY <1>7 DEF vars, Typed, TypeOK, ArchivedHasOrigin
  <1> QED BY <1>1, <1>2, <1>3, <1>4, <1>5, <1>6, <1>7 DEF Next

(* The database rows and the contexts keep their shape: the handlers of any  *)
(* number of concurrent requests only ever write what the schema allows.     *)
THEOREM Typing == Spec => []TypeOK
  <1>1. Spec => []Typed
    BY InitTyped, StepTyped, PTL DEF Spec
  <1>2. Typed => TypeOK
    BY DEF Typed
  <1> QED BY <1>1, <1>2, PTL

-----------------------------------------------------------------------------
(* The handlers implement exclusive holding when no dossier is restored, or  *)
(* when one request is in flight at a time.                                  *)
OneAtATime == \A r, s \in Requests : r = s
RestoresAlone == "restore" \in Ops => OneAtATime

(* A link belongs to a dossier that exists. *)
LinksExist == \A l \in links : Exists(l[1])

(* A transition in flight left from a step that is not final.                *)
LeavesUnfinished ==
  \A r \in Requests :
    req[r].op \in {"advance", "claimed"} => ~ IsTerminal(req[r].from)

(* A claim holds a dossier that is not finished, and holds it alone.         *)
ClaimsSound ==
  /\ \A r \in Requests : req[r].op = "claimed" => Active(req[r].d)
  /\ \A r, s \in Requests :
       req[r].op = "claimed" /\ req[s].op = "claimed" /\ req[r].d = req[s].d => r = s

(* A restore in flight is alone, and what it has read still holds.           *)
RestoresFresh ==
  \A r \in Requests : req[r].op = "restore" =>
    /\ OneAtATime
    /\ dossier[req[r].d].archived
    /\ req[r].to = dossier[req[r].d].cancelledFrom
    /\ req[r].vs = Linked(req[r].d)

(* Only a dossier that is finished is archived.                              *)
ArchivedIsOver == \A d \in Dossiers : dossier[d].archived => ~ Active(d)

Sound ==
  TypeOK /\ LinksExist /\ LeavesUnfinished /\ ClaimsSound /\ RestoresFresh /\ ArchivedIsOver

LEMMA InitSound == Init => Sound
  BY InitTyped DEF Init, Sound, Typed, LinksExist, LeavesUnfinished, ClaimsSound,
                   RestoresFresh, ArchivedIsOver, Absent, NoRow, Idle

(* A step that gives r a context other than a claim, and leaves the rows,    *)
(* keeps the invariant if the context does.                                  *)
LEMMA StartSound ==
  ASSUME Sound, TypeOK', NEW r \in Requests, NEW c,
         req' = [req EXCEPT ![r] = c], UNCHANGED << dossier, vehicle, links >>,
         c.op \notin {"claimed", "restore"},
         c.op = "advance" => ~ IsTerminal(c.from)
  PROVE  Sound'
  <1> USE DEF Sound, TypeOK
  <1>1. LinksExist'
    BY DEF LinksExist, Exists
  <1>2. LeavesUnfinished'
    BY DEF LeavesUnfinished
  <1>3. ClaimsSound'
    BY DEF ClaimsSound, Active, Exists
  <1>4. RestoresFresh'
    BY DEF RestoresFresh, Linked
  <1>5. ArchivedIsOver'
    BY DEF ArchivedIsOver, Active, Exists
  <1> QED BY <1>1, <1>2, <1>3, <1>4, <1>5

(* The read of a restore, when nothing else is in flight.                    *)
LEMMA ReadRestoreSound ==
  ASSUME Sound, TypeOK', RestoresAlone, NEW r \in Requests, NEW d \in Dossiers,
         ReadRestore(r, d)
  PROVE  Sound'
  <1> USE DEF Sound
  <1>1. OneAtATime
    BY DEF ReadRestore, Start, RestoresAlone
  <1>2. /\ UNCHANGED << dossier, vehicle, links >>
        /\ dossier[d].archived
        /\ req'[r] = [ op |-> "restore", d |-> d, to |-> dossier[d].cancelledFrom,
                       vs |-> Linked(d) ]
        /\ \A s \in Requests : s = r
    BY <1>1 DEF ReadRestore, Start, TypeOK, OneAtATime
  <1>3. RestoresFresh'
    BY <1>1, <1>2 DEF RestoresFresh, Linked
  <1>4. LeavesUnfinished' /\ ClaimsSound'
    BY <1>2 DEF LeavesUnfinished, ClaimsSound
  <1>5. LinksExist' /\ ArchivedIsOver'
    BY <1>2 DEF LinksExist, ArchivedIsOver, Active, Exists
  <1> QED BY <1>3, <1>4, <1>5

LEMMA ReadSound ==
  ASSUME Sound, TypeOK', RestoresAlone,
         NEW r \in Requests, NEW d \in Dossiers,
         \/ \E v \in Vehicles : ReadAdd(r, d, v) \/ ReadRemove(r, d, v)
         \/ ReadStatus(r, d) \/ ReadRestore(r, d) \/ ReadDelete(r, d)
  PROVE  Sound'
  <1>1. CASE \E v \in Vehicles : ReadAdd(r, d, v) \/ ReadRemove(r, d, v)
    BY <1>1, StartSound DEF ReadAdd, ReadRemove, Start
  <1>2. CASE ReadStatus(r, d)
    BY <1>2, StartSound DEF ReadStatus, Start, Active
  <1>3. CASE ReadRestore(r, d)
    BY <1>3, ReadRestoreSound
  <1>4. CASE ReadDelete(r, d)
    BY <1>4, StartSound DEF ReadDelete, Start
  <1> QED BY <1>1, <1>2, <1>3, <1>4

LEMMA ReadArchiveSound ==
  ASSUME Sound, TypeOK', NEW r \in Requests, NEW v \in Vehicles, ReadArchive(r, v)
  PROVE  Sound'
  BY StartSound DEF ReadArchive, Start

LEMMA CreateSound ==
  ASSUME Sound, TypeOK', NEW d \in Dossiers, NEW S \in SUBSET Vehicles,
         NEW c \in BOOLEAN, Create(d, S, c)
  PROVE  Sound'
  <1> USE DEF Sound
  <1>1. /\ dossier[d].status = "absent"
        /\ dossier'[d].status = Steps[1]
        /\ \A e \in Dossiers \ {d} : dossier'[e] = dossier[e]
    BY DEF Create, TypeOK, Absent, NoRow
  <1>2. Exists(d)'
    BY <1>1, FirstStep, VehiclesAssumption DEF Exists
  <1>3. LinksExist'
    BY <1>1, <1>2 DEF Create, LinksExist, TypeOK, Exists
  <1>4. ClaimsSound'
    BY <1>1, ContextFields DEF Create, Serve, ClaimsSound, Active, Exists, TypeOK
  <1>5. LeavesUnfinished' /\ RestoresFresh'
    BY DEF Create, Serve, LeavesUnfinished, RestoresFresh, OneAtATime, Idle
  <1>6. ~ dossier'[d].archived
    BY DEF Create, TypeOK, Absent, NoRow
  <1>7. ArchivedIsOver'
    BY <1>1, <1>6 DEF ArchivedIsOver, Active, Exists
  <1> QED BY <1>3, <1>4, <1>5, <1>7

LEMMA ClaimSound ==
  ASSUME Sound, TypeOK', NEW r \in Requests, Claim(r)
  PROVE  Sound'
  <1> USE DEF Sound
  <1> DEFINE d == req[r].d
  <1>1. /\ req[r].op = "advance" /\ ~ Locked(d)
        /\ Exists(d) /\ dossier[d].status = req[r].from
        /\ UNCHANGED << dossier, vehicle, links >>
    BY DEF Claim, Claimable
  <1>2. /\ req'[r].op = "claimed" /\ req'[r].d = d /\ req'[r].from = req[r].from
        /\ \A s \in Requests \ {r} : req'[s] = req[s]
    BY DEF Claim, TypeOK
  <1>3. Active(d)
    BY <1>1 DEF Active, LeavesUnfinished
  <1>4. ClaimsSound'
    BY <1>1, <1>2, <1>3 DEF ClaimsSound, Locked, Active, Exists
  <1>5. LinksExist'
    BY <1>1 DEF LinksExist, Exists
  <1>6. LeavesUnfinished'
    BY <1>1, <1>2 DEF LeavesUnfinished
  <1>7. RestoresFresh' /\ ArchivedIsOver'
    BY <1>1, <1>2 DEF RestoresFresh, ArchivedIsOver, Linked, Active, Exists
  <1> QED BY <1>4, <1>5, <1>6, <1>7

(* A commit that touches no row of a dossier and ends its context.           *)
LEMMA FinishSound ==
  ASSUME Sound, TypeOK', NEW r \in Requests, Finished(r), UNCHANGED dossier, LinksExist'
  PROVE  Sound'
  <1> USE DEF Sound
  <1>1. /\ req'[r] = Idle
        /\ \A s \in Requests \ {r} : req'[s] = req[s]
    BY DEF Finished, TypeOK
  <1>2. ClaimsSound'
    BY <1>1 DEF ClaimsSound, Active, Exists, Idle
  <1>3. LeavesUnfinished' /\ RestoresFresh'
    BY <1>1 DEF LeavesUnfinished, RestoresFresh, OneAtATime, Idle
  <1>4. ArchivedIsOver'
    BY DEF ArchivedIsOver, Active, Exists
  <1> QED BY <1>2, <1>3, <1>4

LEMMA SmallCommitSound ==
  ASSUME Sound, TypeOK', NEW r \in Requests,
         CommitAdd(r) \/ CommitRemove(r) \/ CommitArchive(r) \/ Abort(r)
  PROVE  Sound'
  <1>1. LinksExist' /\ Finished(r) /\ UNCHANGED dossier
    BY DEF Sound, LinksExist, Exists, CommitAdd, CommitRemove, CommitArchive, Abort
  <1> QED BY <1>1, FinishSound

LEMMA CommitStatusSound ==
  ASSUME Sound, TypeOK', NEW r \in Requests, CommitStatus(r)
  PROVE  Sound'
  <1> USE DEF Sound
  <1>1. PICK d \in Dossiers : d = req[r].d
    BY ContextFields DEF CommitStatus
  <1>9. req[r].to \in Targets
    BY ContextFields DEF CommitStatus
  <1>2. /\ dossier'[d].status = req[r].to
        /\ dossier'[d].archived = (req[r].to = "cancelled")
        /\ \A e \in Dossiers \ {d} : dossier'[e] = dossier[e]
    BY <1>1 DEF CommitStatus, Moved, TypeOK, DossierRows
  <1>3. /\ req'[r] = Idle
        /\ \A s \in Requests \ {r} : req'[s] = req[s]
    BY DEF CommitStatus, Finished, TypeOK
  <1>4. Exists(d)'
    BY <1>2, <1>9, VehiclesAssumption DEF Exists, Targets
  <1>5. LinksExist'
    BY <1>2, <1>4 DEF CommitStatus, LinksExist, TypeOK, Exists
  <1>6. \A s \in Requests : s # r /\ req[s].op = "claimed" => req[s].d # d
    BY <1>1 DEF ClaimsSound, CommitStatus
  <1>7. ClaimsSound'
    BY <1>2, <1>3, <1>6, ContextFields DEF ClaimsSound, Active, Exists, Idle
  <1>8. LeavesUnfinished' /\ RestoresFresh'
    BY <1>3 DEF LeavesUnfinished, RestoresFresh, OneAtATime, Idle
  <1>10. ArchivedIsOver'
    BY <1>2 DEF ArchivedIsOver, Active, Exists, IsTerminal, TERMINAL_STATUSES
  <1> QED BY <1>5, <1>7, <1>8, <1>10

LEMMA CommitDeleteSound ==
  ASSUME Sound, TypeOK', NEW r \in Requests, CommitDelete(r)
  PROVE  Sound'
  <1> USE DEF Sound
  <1> DEFINE d == req[r].d
  <1>1. d \in Dossiers
    BY ContextFields DEF CommitDelete
  <1>2. \A e \in Dossiers \ {d} : dossier'[e] = dossier[e]
    BY <1>1 DEF CommitDelete, TypeOK
  <1>3. /\ req'[r] = Idle
        /\ \A s \in Requests \ {r} : req'[s] = req[s]
    BY DEF CommitDelete, Finished, TypeOK
  <1>4. LinksExist'
    BY <1>2 DEF CommitDelete, LinksExist, TypeOK, Exists
  <1>5. \A s \in Requests : req[s].op = "claimed" => req[s].d # d
    BY DEF CommitDelete, Locked
  <1>6. ClaimsSound'
    BY <1>2, <1>3, <1>5, ContextFields DEF ClaimsSound, Active, Exists, Idle
  <1>7. LeavesUnfinished' /\ RestoresFresh'
    BY <1>3 DEF LeavesUnfinished, RestoresFresh, OneAtATime, Idle
  <1>8. ~ dossier'[d].archived
    BY <1>1 DEF CommitDelete, TypeOK, Deleted, NoRow
  <1>9. ArchivedIsOver'
    BY <1>2, <1>8 DEF ArchivedIsOver, Active, Exists
  <1> QED BY <1>4, <1>6, <1>7, <1>9

LEMMA CommitRestoreSound ==
  ASSUME Sound, TypeOK', NEW r \in Requests, CommitRestore(r)
  PROVE  Sound'
  <1> USE DEF Sound
  <1>1. PICK d \in Dossiers : d = req[r].d
    BY ContextFields DEF CommitRestore
  <1>2. /\ req[r].to \in StepSet
        /\ dossier'[d].status = req[r].to
        /\ ~ dossier'[d].archived
        /\ \A e \in Dossiers \ {d} : dossier'[e] = dossier[e]
    BY <1>1, ContextFields DEF CommitRestore, TypeOK, DossierRows
  <1>3. /\ req'[r] = Idle
        /\ \A s \in Requests : s = r
    BY DEF CommitRestore, Finished, TypeOK, RestoresFresh, OneAtATime
  <1>4. Exists(d)'
    BY <1>2, VehiclesAssumption DEF Exists
  <1>5. LinksExist'
    BY <1>2, <1>4 DEF CommitRestore, LinksExist, TypeOK, Exists
  <1>6. LeavesUnfinished' /\ ClaimsSound' /\ RestoresFresh'
    BY <1>3 DEF LeavesUnfinished, ClaimsSound, RestoresFresh, Idle
  <1>7. ArchivedIsOver'
    BY <1>2 DEF ArchivedIsOver, Active, Exists
  <1> QED BY <1>5, <1>6, <1>7

LEMMA UpdateVehicleSound ==
  ASSUME Sound, TypeOK', NEW v \in Vehicles, NEW s \in SettableStatuses, UpdateVehicle(v, s)
  PROVE  Sound'
  BY DEF Sound, UpdateVehicle, Serve, LinksExist, LeavesUnfinished, ClaimsSound,
         RestoresFresh, ArchivedIsOver, Linked, Active, Exists

LEMMA StepSound ==
  ASSUME RestoresAlone
  PROVE  Sound /\ TypeOK' /\ [Next]_vars => Sound'
  <1> SUFFICES ASSUME Sound, TypeOK', [Next]_vars PROVE Sound'
    OBVIOUS
  <1>1. CASE \E d \in Dossiers, S \in SUBSET Vehicles, c \in BOOLEAN : Create(d, S, c)
    BY <1>1, CreateSound
  <1>2. CASE \E v \in Vehicles, s \in SettableStatuses : UpdateVehicle(v, s)
    BY <1>2, UpdateVehicleSound
  <1>3. ASSUME NEW r \in Requests, NEW d \in Dossiers,
               \/ \E v \in Vehicles : ReadAdd(r, d, v) \/ ReadRemove(r, d, v)
               \/ ReadStatus(r, d) \/ ReadRestore(r, d) \/ ReadDelete(r, d)
        PROVE  Sound'
    BY <1>3, ReadSound
  <1>4. ASSUME NEW r \in Requests, NEW v \in Vehicles, ReadArchive(r, v)
        PROVE  Sound'
    BY <1>4, ReadArchiveSound
  <1>5. ASSUME NEW r \in Requests,
               \/ CommitAdd(r) \/ CommitRemove(r) \/ CommitArchive(r) \/ Abort(r)
               \/ Claim(r) \/ CommitStatus(r) \/ CommitDelete(r)
        PROVE  Sound'
    BY <1>5, SmallCommitSound, ClaimSound, CommitStatusSound, CommitDeleteSound
  <1>6. ASSUME NEW r \in Requests, CommitRestore(r)
        PROVE  Sound'
    BY <1>6, CommitRestoreSound
  <1>7. CASE UNCHANGED vars
    BY <1>7 DEF vars, Sound, LinksExist, LeavesUnfinished, ClaimsSound, RestoresFresh,
                ArchivedIsOver, Linked, Active, Exists, TypeOK
  <1> QED BY <1>1, <1>2, <1>3, <1>4, <1>5, <1>6, <1>7 DEF Next

-----------------------------------------------------------------------------
(* The refinement: what each step does to the pairs in force.                *)

(* A step that keeps the links and which dossiers are active is a stutter.   *)
LEMMA SameHeld ==
  ASSUME TypeOK, links' = links, \A d \in Dossiers : Active(d)' <=> Active(d)
  PROVE  held' = held
  BY DEF held, TypeOK

LEMMA CreateTakes ==
  ASSUME Sound, NEW d \in Dossiers, NEW S \in SUBSET Vehicles, NEW c \in BOOLEAN,
         Create(d, S, c)
  PROVE  Holding!Take(d, S)
  <1> USE DEF Sound
  <1>1. /\ dossier[d].status = "absent"
        /\ dossier'[d].status = Steps[1]
        /\ \A e \in Dossiers \ {d} : dossier'[e] = dossier[e]
    BY DEF Create, TypeOK, Absent, NoRow
  <1>2. Active(d)' /\ \A e \in Dossiers \ {d} : Active(e)' <=> Active(e)
    BY <1>1, FirstStep, VehiclesAssumption DEF Active, Exists, IsTerminal
  <1>3. \A l \in links : l[1] \in Dossiers \ {d}
    BY <1>1 DEF LinksExist, Exists, TypeOK
  <1>4. held' = held \union ({d} \X S)
    <2>1. links' = links \union ({d} \X S)
      BY DEF Create
    <2> QED BY <1>2, <1>3, <2>1 DEF held
  <1>5. \A v \in S : Holding!Free(v)
    BY DEF Create, Reservable, Holders, Holding!Free
  <1> QED BY <1>4, <1>5 DEF Holding!Take

LEMMA AddTakes ==
  ASSUME Sound, NEW r \in Requests, CommitAdd(r)
  PROVE  held' = held \/ Holding!Take(req[r].d, {req[r].v})
  <1> DEFINE d == req[r].d
             v == req[r].v
  <1>1. d \in Dossiers /\ v \in Vehicles
    BY ContextFields DEF CommitAdd, Sound
  <1>2. /\ links' = links \union {<< d, v >>}
        /\ Holders(v) = {}
        /\ \A e \in Dossiers : Active(e)' <=> Active(e)
    BY DEF CommitAdd, Reservable, Active, Exists
  <1>3. CASE Active(d)
    <2>1. held' = held \union ({d} \X {v})
      BY <1>1, <1>2, <1>3 DEF held, Sound, TypeOK
    <2>2. Holding!Free(v)
      BY <1>2 DEF Holders, Holding!Free
    <2> QED BY <2>1, <2>2 DEF Holding!Take
  <1>4. CASE ~ Active(d)
    BY <1>1, <1>2, <1>4 DEF held, Sound, TypeOK
  <1> QED BY <1>3, <1>4

LEMMA RemoveGivesBack ==
  ASSUME Sound, NEW r \in Requests, CommitRemove(r)
  PROVE  Holding!GiveBack(req[r].d, {req[r].v})
  <1> DEFINE d == req[r].d
             v == req[r].v
  <1>1. d \in Dossiers /\ v \in Vehicles
    BY ContextFields DEF CommitRemove, Sound
  <1>2. /\ links' = links \ {<< d, v >>}
        /\ \A e \in Dossiers : Active(e)' <=> Active(e)
    BY DEF CommitRemove, Active, Exists
  <1>3. held' = held \ ({d} \X {v})
    BY <1>1, <1>2 DEF held, Sound, TypeOK
  <1> QED BY <1>3 DEF Holding!GiveBack

LEMMA StatusKeepsOrGivesBack ==
  ASSUME Sound, NEW r \in Requests, CommitStatus(r)
  PROVE  held' = held \/ Holding!GiveBack(req[r].d, Vehicles)
  <1> USE DEF Sound
  <1>1. PICK d \in Dossiers : d = req[r].d /\ Active(d)
    BY ContextFields DEF CommitStatus, ClaimsSound
  <1>2. \A e \in Dossiers \ {d} : Active(e)' <=> Active(e)
    BY <1>1 DEF CommitStatus, TypeOK, Active, Exists
  <1>3. links' = links
    BY DEF CommitStatus
  <1>4. CASE Active(d)'
    <2>1. \A e \in Dossiers : Active(e)' <=> Active(e)
      BY <1>1, <1>2, <1>4
    <2> QED BY <1>3, <2>1, SameHeld
  <1>5. CASE ~ Active(d)'
    <2>1. held' = held \ ({d} \X Vehicles)
      BY <1>2, <1>3, <1>5 DEF held, TypeOK
    <2> QED BY <1>1, <2>1 DEF Holding!GiveBack
  <1> QED BY <1>4, <1>5

LEMMA DeleteGivesBack ==
  ASSUME Sound, NEW r \in Requests, CommitDelete(r)
  PROVE  Holding!GiveBack(req[r].d, Vehicles)
  <1> DEFINE d == req[r].d
  <1>1. d \in Dossiers
    BY ContextFields DEF CommitDelete, Sound
  <1>2. \A e \in Dossiers \ {d} : Active(e)' <=> Active(e)
    BY <1>1 DEF CommitDelete, Sound, TypeOK, Active, Exists
  <1>3. links' = {l \in links : l[1] # d}
    BY DEF CommitDelete
  <1>4. held' = held \ ({d} \X Vehicles)
    BY <1>2, <1>3 DEF held, Sound, TypeOK
  <1> QED BY <1>4 DEF Holding!GiveBack

(* A restore takes back what the dossier held, if all of it is free.         *)
LEMMA RestoreTakes ==
  ASSUME Sound, NEW r \in Requests, CommitRestore(r)
  PROVE  held' = held \/ Holding!Take(req[r].d, Linked(req[r].d))
  <1> USE DEF Sound
  <1>1. PICK d \in Dossiers :
          /\ d = req[r].d
          /\ ~ Active(d)
          /\ req[r].vs = Linked(d)
          /\ ~ Conflicting(d, Linked(d))
    BY ContextFields DEF CommitRestore, RestoresFresh, ArchivedIsOver
  <1>2. \A e \in Dossiers \ {d} : Active(e)' <=> Active(e)
    BY <1>1 DEF CommitRestore, TypeOK, Active, Exists
  <1>3. links' = links
    BY DEF CommitRestore
  <1>4. CASE ~ Active(d)'
    BY <1>1, <1>2, <1>3, <1>4, SameHeld
  <1>5. CASE Active(d)'
    <2>1. held' = held \union ({d} \X Linked(d))
      BY <1>1, <1>2, <1>3, <1>5 DEF held, Linked, TypeOK
    <2>2. \A v \in Linked(d) : Holding!Free(v)
      BY <1>1 DEF held, Linked, Conflicting, ArchivedIsOver, Holding!Free
    <2> QED BY <1>1, <2>1, <2>2 DEF Holding!Take
  <1> QED BY <1>4, <1>5

LEMMA StepHolds ==
  ASSUME Sound, [Next]_vars
  PROVE  [Holding!Next]_held
  <1> USE DEF Sound
  <1>1. CASE \E d \in Dossiers, S \in SUBSET Vehicles, c \in BOOLEAN : Create(d, S, c)
    BY <1>1, CreateTakes DEF Holding!Next
  <1>2. ASSUME NEW r \in Requests, CommitAdd(r)
        PROVE  [Holding!Next]_held
    <2>1. req[r].d \in Dossiers /\ {req[r].v} \in SUBSET Vehicles
      BY <1>2, ContextFields DEF CommitAdd
    <2> QED BY <1>2, <2>1, AddTakes DEF Holding!Next
  <1>3. ASSUME NEW r \in Requests, CommitRemove(r)
        PROVE  [Holding!Next]_held
    <2>1. req[r].d \in Dossiers /\ {req[r].v} \in SUBSET Vehicles
      BY <1>3, ContextFields DEF CommitRemove
    <2> QED BY <1>3, <2>1, RemoveGivesBack DEF Holding!Next
  <1>4. ASSUME NEW r \in Requests, CommitStatus(r)
        PROVE  [Holding!Next]_held
    <2>1. req[r].d \in Dossiers
      BY <1>4, ContextFields DEF CommitStatus
    <2> QED BY <1>4, <2>1, StatusKeepsOrGivesBack DEF Holding!Next
  <1>5. ASSUME NEW r \in Requests, CommitDelete(r)
        PROVE  [Holding!Next]_held
    <2>1. req[r].d \in Dossiers
      BY <1>5, ContextFields DEF CommitDelete
    <2> QED BY <1>5, <2>1, DeleteGivesBack DEF Holding!Next
  <1>6. ASSUME NEW r \in Requests, CommitRestore(r)
        PROVE  [Holding!Next]_held
    <2>1. req[r].d \in Dossiers /\ Linked(req[r].d) \in SUBSET Vehicles
      BY <1>6, ContextFields DEF CommitRestore, Linked
    <2> QED BY <1>6, <2>1, RestoreTakes DEF Holding!Next
  <1>7. ASSUME UNCHANGED << dossier, links >>
        PROVE  [Holding!Next]_held
    BY <1>7, SameHeld DEF Active, Exists
  <1>8. CASE \E v \in Vehicles, s \in SettableStatuses : UpdateVehicle(v, s)
    BY <1>7, <1>8 DEF UpdateVehicle
  <1>9. ASSUME NEW r \in Requests,
               \/ \E d \in Dossiers, v \in Vehicles : ReadAdd(r, d, v) \/ ReadRemove(r, d, v)
               \/ \E d \in Dossiers : ReadStatus(r, d) \/ ReadRestore(r, d) \/ ReadDelete(r, d)
               \/ \E v \in Vehicles : ReadArchive(r, v)
               \/ Claim(r) \/ CommitArchive(r) \/ Abort(r)
        PROVE  [Holding!Next]_held
    <2>1. UNCHANGED << dossier, links >>
      BY <1>9 DEF ReadAdd, ReadRemove, ReadStatus, ReadRestore, ReadDelete, ReadArchive,
                  Start, Claim, CommitArchive, Abort
    <2> QED BY <2>1, <1>7
  <1>10. CASE UNCHANGED vars
    BY <1>7, <1>10 DEF vars
  <1> QED BY <1>1, <1>2, <1>3, <1>4, <1>5, <1>6, <1>8, <1>9, <1>10 DEF Next

LEMMA Soundness ==
  ASSUME RestoresAlone
  PROVE  Spec => []Sound
  BY Typing, InitSound, StepSound, PTL DEF Spec

(* The handlers implement exclusive holding, whatever their number and their *)
(* interleaving, as long as a restore does not run beside another request.   *)
THEOREM Refinement ==
  ASSUME RestoresAlone
  PROVE  Spec => ImplementsHolding
  <1>1. Init => Holding!Init
    BY DEF Init, Holding!Init, held
  <1>2. Sound /\ [Next]_vars => [Holding!Next]_held
    BY StepHolds
  <1> QED BY <1>1, <1>2, Soundness, PTL DEF Spec, ImplementsHolding, Holding!Spec

(* The abstract specification keeps every vehicle in one hand: to take only  *)
(* what is free is enough.                                                   *)
THEOREM Exclusion == Holding!Spec => []Holding!AtMostOne
  <1>1. Holding!Init => Holding!AtMostOne
    BY DEF Holding!Init, Holding!AtMostOne
  <1>2. Holding!AtMostOne /\ [Holding!Next]_held => Holding!AtMostOne'
    BY DEF Holding!AtMostOne, Holding!Next, Holding!Take, Holding!GiveBack, Holding!Free
  <1> QED BY <1>1, <1>2, PTL DEF Holding!Spec

(* A vehicle is never in two dossiers that are not finished: the conditional *)
(* reservation and the claim on the status read are enough, however many     *)
(* handlers interleave, as long as a restore runs alone.                     *)
THEOREM Exclusivity ==
  ASSUME RestoresAlone
  PROVE  Spec => []Exclusive
  <1>1. Holding!AtMostOne => Exclusive
    BY DEF Holding!AtMostOne, Exclusive, Holders
  <1> QED BY <1>1, Exclusion, Refinement, PTL DEF ImplementsHolding
-----------------------------------------------------------------------------
(* The workflow: what a transition in flight is about to do.                 *)

(* A transition in flight is an edge of the workflow, and once it has        *)
(* claimed its dossier nobody else moves the status it left from.            *)
Underway ==
  \A r \in Requests :
    /\ req[r].op \in {"advance", "claimed"} => Follows(req[r].from, req[r].to)
    /\ req[r].op = "claimed" => dossier[req[r].d].status = req[r].from

(* Only the transition that claimed a dossier writes its status.             *)
LEMMA ClaimedKeepsStatus ==
  ASSUME Sound, [Next]_vars, NEW s \in Requests,
         req[s].op = "claimed", req'[s] = req[s]
  PROVE  /\ dossier'[req[s].d] = dossier[req[s].d]
  <1> USE DEF Sound
  <1>1. PICK d \in Dossiers : d = req[s].d /\ Active(d)
    BY ContextFields DEF ClaimsSound
  <1> SUFFICES dossier'[d] = dossier[d]
    BY <1>1
  <1>2. ASSUME NEW e \in Dossiers, NEW S \in SUBSET Vehicles, NEW c \in BOOLEAN,
               Create(e, S, c)
        PROVE  dossier'[d] = dossier[d]
    BY <1>1, <1>2 DEF Create, TypeOK, Absent, NoRow, Active, Exists
  <1>3. ASSUME NEW r \in Requests, CommitStatus(r)
        PROVE  dossier'[d] = dossier[d]
    <2>1. r # s
      BY <1>3 DEF CommitStatus, Finished, TypeOK, Idle
    <2>2. req[r].d # d
      BY <1>1, <1>3, <2>1 DEF CommitStatus, ClaimsSound
    <2> QED BY <1>1, <1>3, <2>2 DEF CommitStatus, TypeOK
  <1>4. ASSUME NEW r \in Requests, CommitRestore(r) \/ CommitDelete(r)
        PROVE  dossier'[d] = dossier[d]
    <2>1. req[r].d # d
      BY <1>1, <1>4 DEF CommitRestore, CommitDelete, Locked
    <2> QED BY <1>1, <1>4, <2>1 DEF CommitRestore, CommitDelete, TypeOK
  <1>5. ASSUME NEW r \in Requests,
               \/ \E e \in Dossiers, v \in Vehicles : ReadAdd(r, e, v) \/ ReadRemove(r, e, v)
               \/ \E e \in Dossiers : ReadStatus(r, e) \/ ReadRestore(r, e) \/ ReadDelete(r, e)
               \/ \E v \in Vehicles : ReadArchive(r, v)
               \/ CommitAdd(r) \/ CommitRemove(r) \/ Claim(r) \/ CommitArchive(r) \/ Abort(r)
        PROVE  dossier'[d] = dossier[d]
    BY <1>5 DEF ReadAdd, ReadRemove, ReadStatus, ReadRestore, ReadDelete, ReadArchive,
                Start, CommitAdd, CommitRemove, Claim, CommitArchive, Abort
  <1>6. CASE \E v \in Vehicles, x \in SettableStatuses : UpdateVehicle(v, x)
    BY <1>6 DEF UpdateVehicle
  <1>7. CASE UNCHANGED vars
    BY <1>7 DEF vars
  <1>8. CASE \E r \in Requests :
               \/ CommitStatus(r) \/ CommitRestore(r) \/ CommitDelete(r)
    BY <1>3, <1>4, <1>8
  <1>9. CASE \E e \in Dossiers, S \in SUBSET Vehicles, c \in BOOLEAN : Create(e, S, c)
    BY <1>2, <1>9
  <1> QED BY <1>5, <1>6, <1>7, <1>8, <1>9 DEF Next

(* How a context comes to be a transition: it was, or it reads the dossier,  *)
(* or it claims it.                                                          *)
LEMMA TransitionStarts ==
  ASSUME TypeOK, [Next]_vars, NEW s \in Requests, req'[s].op \in {"advance", "claimed"}
  PROVE  \/ req'[s] = req[s]
         \/ \E d \in Dossiers : ReadStatus(s, d)
         \/ Claim(s)
  <1> DEFINE Goal == \/ req'[s] = req[s]
                     \/ \E d \in Dossiers : ReadStatus(s, d)
                     \/ Claim(s)
  <1>1. ASSUME NEW r \in Requests, NEW d \in Dossiers, NEW v \in Vehicles,
               ReadAdd(r, d, v) \/ ReadRemove(r, d, v)
        PROVE  Goal
    BY <1>1 DEF ReadAdd, ReadRemove, Start, TypeOK
  <1>2. ASSUME NEW r \in Requests, NEW d \in Dossiers,
               ReadRestore(r, d) \/ ReadDelete(r, d)
        PROVE  Goal
    BY <1>2 DEF ReadRestore, ReadDelete, Start, TypeOK
  <1>3. ASSUME NEW r \in Requests, NEW v \in Vehicles, ReadArchive(r, v)
        PROVE  Goal
    BY <1>3 DEF ReadArchive, Start, TypeOK
  <1>4. ASSUME NEW r \in Requests, NEW d \in Dossiers, ReadStatus(r, d)
        PROVE  Goal
    BY <1>4 DEF ReadStatus, Start, TypeOK
  <1>5. ASSUME NEW r \in Requests, Claim(r)
        PROVE  Goal
    BY <1>5 DEF Claim, TypeOK
  <1>6. ASSUME NEW r \in Requests, Finished(r)
        PROVE  Goal
    BY <1>6 DEF Finished, TypeOK, Idle
  <1>7. ASSUME NEW r \in Requests,
               \/ CommitAdd(r) \/ CommitRemove(r) \/ CommitStatus(r) \/ CommitRestore(r)
               \/ CommitDelete(r) \/ CommitArchive(r) \/ Abort(r)
        PROVE  Goal
    BY <1>6, <1>7 DEF CommitAdd, CommitRemove, CommitStatus, CommitRestore, CommitDelete,
                      CommitArchive, Abort
  <1>8. CASE \E d \in Dossiers, S \in SUBSET Vehicles, c \in BOOLEAN : Create(d, S, c)
    BY <1>8 DEF Create, Serve
  <1>9. CASE \E v \in Vehicles, x \in SettableStatuses : UpdateVehicle(v, x)
    BY <1>9 DEF UpdateVehicle, Serve
  <1>10. CASE UNCHANGED vars
    BY <1>10 DEF vars
  <1>11. Goal
    BY <1>1, <1>2, <1>3, <1>4, <1>5, <1>7, <1>8, <1>9, <1>10 DEF Next
  <1> QED BY <1>11

LEMMA InitUnderway == Init => Underway
  BY DEF Init, Underway, Idle

LEMMA StepUnderway ==
  Sound /\ Underway /\ [Next]_vars => Underway'
  <1> SUFFICES ASSUME Sound, Underway, [Next]_vars, NEW s \in Requests,
                      req'[s].op \in {"advance", "claimed"}
               PROVE  /\ Follows(req'[s].from, req'[s].to)
                      /\ req'[s].op = "claimed" =>
                           dossier'[req'[s].d].status = req'[s].from
    BY DEF Underway, Follows
  <1> USE DEF Sound
  <1>1. CASE req'[s] = req[s]
    BY <1>1, ClaimedKeepsStatus DEF Underway
  <1>2. ASSUME NEW d \in Dossiers, ReadStatus(s, d)
        PROVE  /\ req'[s].op = "advance"
               /\ Follows(req'[s].from, req'[s].to)
    BY <1>2 DEF ReadStatus, Start, TypeOK
  <1>3. CASE Claim(s)
    <2>1. /\ req'[s].op = "claimed" /\ req'[s].from = req[s].from
          /\ req'[s].to = req[s].to /\ req'[s].d = req[s].d
          /\ req[s].op = "advance" /\ UNCHANGED dossier
          /\ dossier[req[s].d].status = req[s].from
      BY <1>3 DEF Claim, Claimable, TypeOK
    <2> QED BY <2>1 DEF Underway
  <1> QED BY <1>1, <1>2, <1>3, TransitionStarts

(* One step moves a dossier along its workflow, or restores it.              *)
Workflow ==
  \A d \in Dossiers :
    Exists(d) /\ Exists(d)' /\ dossier'[d].status # dossier[d].status =>
      \/ Follows(dossier[d].status, dossier'[d].status)
      \/ dossier[d].archived /\ dossier'[d].status = dossier[d].cancelledFrom

LEMMA StepFollows == Sound /\ Underway /\ [Next]_vars => [Workflow]_vars
  <1> SUFFICES ASSUME Sound, Underway, Next, NEW d \in Dossiers,
                      Exists(d), Exists(d)', dossier'[d].status # dossier[d].status
               PROVE  \/ Follows(dossier[d].status, dossier'[d].status)
                      \/ /\ dossier[d].archived
                         /\ dossier'[d].status = dossier[d].cancelledFrom
    BY DEF Workflow
  <1> USE DEF Sound
  <1>1. ASSUME NEW e \in Dossiers, NEW S \in SUBSET Vehicles, NEW c \in BOOLEAN,
               Create(e, S, c)
        PROVE  FALSE
    BY <1>1 DEF Create, TypeOK, Absent, NoRow, Exists
  <1>2. ASSUME NEW r \in Requests, CommitStatus(r)
        PROVE  Follows(dossier[d].status, dossier'[d].status)
    <2>1. req[r].d \in Dossiers /\ req[r].op = "claimed"
      BY <1>2, ContextFields DEF CommitStatus
    <2>2. req[r].d = d
      BY <1>2, <2>1 DEF CommitStatus, TypeOK
    <2>3. dossier'[d].status = req[r].to
      BY <1>2, <2>2 DEF CommitStatus, TypeOK, DossierRows, Moved
    <2> QED BY <2>1, <2>2, <2>3 DEF Underway
  <1>3. ASSUME NEW r \in Requests, CommitRestore(r)
        PROVE  /\ dossier[d].archived
               /\ dossier'[d].status = dossier[d].cancelledFrom
    <2>1. req[r].d \in Dossiers /\ req[r].op = "restore"
      BY <1>3, ContextFields DEF CommitRestore
    <2>2. req[r].d = d
      BY <1>3, <2>1 DEF CommitRestore, TypeOK
    <2>3. dossier'[d].status = req[r].to
      BY <1>3, <2>2 DEF CommitRestore, TypeOK, DossierRows
    <2> QED BY <2>1, <2>2, <2>3 DEF RestoresFresh
  <1>4. ASSUME NEW r \in Requests, CommitDelete(r)
        PROVE  FALSE
    <2>1. req[r].d \in Dossiers
      BY <1>4, ContextFields DEF CommitDelete
    <2> QED BY <1>4, <2>1 DEF CommitDelete, TypeOK, Deleted, NoRow, Exists
  <1>5. ASSUME UNCHANGED dossier
        PROVE  FALSE
    BY <1>5
  <1>6. ASSUME NEW r \in Requests,
               \/ \E e \in Dossiers, v \in Vehicles : ReadAdd(r, e, v) \/ ReadRemove(r, e, v)
               \/ \E e \in Dossiers : ReadStatus(r, e) \/ ReadRestore(r, e) \/ ReadDelete(r, e)
               \/ \E v \in Vehicles : ReadArchive(r, v)
               \/ CommitAdd(r) \/ CommitRemove(r) \/ Claim(r) \/ CommitArchive(r) \/ Abort(r)
        PROVE  UNCHANGED dossier
    BY <1>6 DEF ReadAdd, ReadRemove, ReadStatus, ReadRestore, ReadDelete, ReadArchive,
                Start, CommitAdd, CommitRemove, Claim, CommitArchive, Abort
  <1>7. CASE \E v \in Vehicles, x \in SettableStatuses : UpdateVehicle(v, x)
    BY <1>5, <1>7 DEF UpdateVehicle
  <1> QED BY <1>1, <1>2, <1>3, <1>4, <1>5, <1>6, <1>7 DEF Next

LEMMA Transitions ==
  ASSUME RestoresAlone
  PROVE  Spec => []Underway
  BY Soundness, InitUnderway, StepUnderway, PTL DEF Spec

(* No request skips a step, rewinds a dossier or leaves a finished status,   *)
(* whatever the interleaving of any number of transitions, edits, deletions  *)
(* and cancellations; a restore, if it runs alone, returns to where the      *)
(* dossier was cancelled.                                                    *)
THEOREM Following ==
  ASSUME RestoresAlone
  PROVE  Spec => FollowsWorkflow
  <1>1. [Workflow]_vars => [\A d \in Dossiers :
          Exists(d) /\ Exists(d)' /\ dossier'[d].status # dossier[d].status =>
            \/ Follows(dossier[d].status, dossier'[d].status)
            \/ dossier[d].archived /\ dossier'[d].status = dossier[d].cancelledFrom]_vars
    BY DEF Workflow
  <1> QED BY <1>1, Soundness, Transitions, StepFollows, PTL DEF Spec, FollowsWorkflow

-----------------------------------------------------------------------------
(* What is held is not on offer.                                             *)

(* A removal does not check the dossier again when it commits, so it is safe *)
(* only alone.                                                               *)
GiversAlone == Ops \intersect {"restore", "remove"} # {} => OneAtATime

(* A removal in flight is alone, and its dossier is still not finished.      *)
RemovesFresh ==
  \A r \in Requests : req[r].op = "remove" => OneAtATime /\ Active(req[r].d)

(* A claimed transition writes vehicles of its own dossier.                  *)
WritesOwn ==
  \A r \in Requests : req[r].op = "claimed" => req[r].write \subseteq Linked(req[r].d)

(* HeldIsNotAvailable, pair by pair.                                         *)
Unavailable ==
  \A d \in Dossiers, v \in Vehicles :
    << d, v >> \in links /\ Active(d) => vehicle[v].status # "available"

Kept == Unavailable /\ RemovesFresh /\ WritesOwn

LEMMA HeldOnce ==
  ASSUME Exclusive, NEW d \in Dossiers, NEW e \in Dossiers, NEW v \in Vehicles,
         << d, v >> \in links, << e, v >> \in links, Active(d), Active(e)
  PROVE  d = e
  BY DEF Exclusive, Holders, held

(* A vehicle that is free belongs to no dossier that is not finished.        *)
LEMMA FreeIsNotHeld ==
  ASSUME NEW d \in Dossiers, NEW v \in Vehicles, Holders(v) = {}, << d, v >> \in links
  PROVE  ~ Active(d)
  BY DEF Holders, held

LEMMA StatusWritten ==
  ASSUME TypeOK, NEW S, NEW x, NEW v \in Vehicles, vehicle' = SetStatus(S, x)
  PROVE  vehicle'[v].status = IF v \in S THEN x ELSE vehicle[v].status
  BY DEF SetStatus, TypeOK

LEMMA InitKept == Init => Kept
  BY DEF Init, Kept, Unavailable, RemovesFresh, WritesOwn, Idle

(* When one request runs at a time, nothing moves while it thinks.           *)
LEMMA AloneRests ==
  ASSUME TypeOK, [Next]_vars, OneAtATime, NEW s \in Requests,
         req[s] # Idle, req'[s] = req[s]
  PROVE  UNCHANGED vars
  <1>1. \A r \in Requests : r = s
    BY DEF OneAtATime
  <1>2. CASE \E d \in Dossiers, S \in SUBSET Vehicles, c \in BOOLEAN : Create(d, S, c)
    BY <1>1, <1>2 DEF Create, Serve
  <1>3. CASE \E v \in Vehicles, x \in SettableStatuses : UpdateVehicle(v, x)
    BY <1>1, <1>3 DEF UpdateVehicle, Serve
  <1>4. ASSUME NEW r \in Requests,
               \/ \E d \in Dossiers, v \in Vehicles : ReadAdd(r, d, v) \/ ReadRemove(r, d, v)
               \/ \E d \in Dossiers : ReadStatus(r, d) \/ ReadRestore(r, d) \/ ReadDelete(r, d)
               \/ \E v \in Vehicles : ReadArchive(r, v)
        PROVE  FALSE
    BY <1>1, <1>4 DEF ReadAdd, ReadRemove, ReadStatus, ReadRestore, ReadDelete,
                      ReadArchive, Start
  <1>5. ASSUME NEW r \in Requests, Claim(r)
        PROVE  FALSE
    BY <1>1, <1>5 DEF Claim, TypeOK
  <1>6. ASSUME NEW r \in Requests,
               \/ CommitAdd(r) \/ CommitRemove(r) \/ CommitStatus(r) \/ CommitRestore(r)
               \/ CommitDelete(r) \/ CommitArchive(r) \/ Abort(r)
        PROVE  FALSE
    <2>1. Finished(r)
      BY <1>6 DEF CommitAdd, CommitRemove, CommitStatus, CommitRestore, CommitDelete,
                  CommitArchive, Abort
    <2> QED BY <1>1, <2>1 DEF Finished, TypeOK
  <1> QED BY <1>2, <1>3, <1>4, <1>5, <1>6 DEF Next

(* How a context comes to be a removal.                                      *)
LEMMA RemovalStarts ==
  ASSUME TypeOK, [Next]_vars, NEW s \in Requests, req'[s].op = "remove"
  PROVE  req'[s] = req[s] \/ \E d \in Dossiers, v \in Vehicles : ReadRemove(s, d, v)
  <1> DEFINE Goal == req'[s] = req[s] \/ \E d \in Dossiers, v \in Vehicles : ReadRemove(s, d, v)
  <1>1. ASSUME NEW r \in Requests, NEW d \in Dossiers, NEW v \in Vehicles,
               ReadAdd(r, d, v) \/ ReadRemove(r, d, v)
        PROVE  Goal
    BY <1>1 DEF ReadAdd, ReadRemove, Start, TypeOK
  <1>2. ASSUME NEW r \in Requests, NEW d \in Dossiers,
               ReadStatus(r, d) \/ ReadRestore(r, d) \/ ReadDelete(r, d)
        PROVE  Goal
    BY <1>2 DEF ReadStatus, ReadRestore, ReadDelete, Start, TypeOK
  <1>3. ASSUME NEW r \in Requests, NEW v \in Vehicles, ReadArchive(r, v)
        PROVE  Goal
    BY <1>3 DEF ReadArchive, Start, TypeOK
  <1>4. ASSUME NEW r \in Requests, Claim(r)
        PROVE  Goal
    BY <1>4 DEF Claim, TypeOK
  <1>5. ASSUME NEW r \in Requests,
               \/ CommitAdd(r) \/ CommitRemove(r) \/ CommitStatus(r) \/ CommitRestore(r)
               \/ CommitDelete(r) \/ CommitArchive(r) \/ Abort(r)
        PROVE  Goal
    <2>1. Finished(r)
      BY <1>5 DEF CommitAdd, CommitRemove, CommitStatus, CommitRestore, CommitDelete,
                  CommitArchive, Abort
    <2> QED BY <2>1 DEF Finished, TypeOK, Idle
  <1>6. CASE \E d \in Dossiers, S \in SUBSET Vehicles, c \in BOOLEAN : Create(d, S, c)
    BY <1>6 DEF Create, Serve
  <1>7. CASE \E v \in Vehicles, x \in SettableStatuses : UpdateVehicle(v, x)
    BY <1>7 DEF UpdateVehicle, Serve
  <1>8. CASE UNCHANGED vars
    BY <1>8 DEF vars
  <1> QED BY <1>1, <1>2, <1>3, <1>4, <1>5, <1>6, <1>7, <1>8 DEF Next

LEMMA StepRemovesFresh ==
  ASSUME TypeOK, RemovesFresh, GiversAlone, [Next]_vars
  PROVE  RemovesFresh'
  <1> SUFFICES ASSUME NEW s \in Requests, req'[s].op = "remove"
               PROVE  OneAtATime /\ Active(req[s].d)'
    BY DEF RemovesFresh, OneAtATime
  <1>1. CASE req'[s] = req[s]
    <2>1. req[s] # Idle /\ OneAtATime /\ Active(req[s].d)
      BY <1>1 DEF RemovesFresh, Idle
    <2>2. UNCHANGED vars
      BY <1>1, <2>1, AloneRests
    <2> QED BY <2>1, <2>2 DEF vars, Active, Exists
  <1>2. ASSUME NEW d \in Dossiers, NEW v \in Vehicles, ReadRemove(s, d, v)
        PROVE  OneAtATime /\ Active(req[s].d)'
    <2>1. OneAtATime
      BY <1>2 DEF ReadRemove, Start, GiversAlone
    <2>2. req'[s].d = d /\ UNCHANGED dossier /\ Active(d)
      BY <1>2 DEF ReadRemove, Start, TypeOK
    <2> QED BY <2>1, <2>2 DEF Active, Exists
  <1> QED BY <1>1, <1>2, RemovalStarts

(* While a transition has claimed a dossier, its vehicles stay.              *)
LEMMA ClaimedKeepsLinks ==
  ASSUME Sound, RemovesFresh, [Next]_vars, NEW s \in Requests,
         req[s].op = "claimed", req'[s] = req[s]
  PROVE  Linked(req[s].d) \subseteq Linked(req[s].d)'
  <1> USE DEF Sound
  <1> SUFFICES ASSUME NEW v \in Vehicles, << req[s].d, v >> \in links
               PROVE  << req[s].d, v >> \in links'
    BY DEF Linked
  <1>1. CASE \E d \in Dossiers, S \in SUBSET Vehicles, c \in BOOLEAN : Create(d, S, c)
    BY <1>1 DEF Create
  <1>2. CASE \E w \in Vehicles, x \in SettableStatuses : UpdateVehicle(w, x)
    BY <1>2 DEF UpdateVehicle
  <1>3. ASSUME NEW r \in Requests, CommitRemove(r)
        PROVE  FALSE
    BY <1>3 DEF CommitRemove, RemovesFresh, OneAtATime
  <1>4. CASE \E r \in Requests : CommitDelete(r)
    BY <1>4 DEF CommitDelete, Locked
  <1>5. CASE \E r \in Requests : CommitAdd(r)
    BY <1>5 DEF CommitAdd
  <1>6. ASSUME NEW r \in Requests,
               \/ \E d \in Dossiers, w \in Vehicles : ReadAdd(r, d, w) \/ ReadRemove(r, d, w)
               \/ \E d \in Dossiers : ReadStatus(r, d) \/ ReadRestore(r, d) \/ ReadDelete(r, d)
               \/ \E w \in Vehicles : ReadArchive(r, w)
               \/ Claim(r) \/ CommitStatus(r) \/ CommitRestore(r) \/ CommitArchive(r)
               \/ Abort(r)
        PROVE  UNCHANGED links
    BY <1>6 DEF ReadAdd, ReadRemove, ReadStatus, ReadRestore, ReadDelete, ReadArchive,
                Start, Claim, CommitStatus, CommitRestore, CommitArchive, Abort
  <1>7. CASE UNCHANGED vars
    BY <1>7 DEF vars
  <1> QED BY <1>1, <1>2, <1>3, <1>4, <1>5, <1>6, <1>7 DEF Next

LEMMA StepWritesOwn ==
  ASSUME Sound, RemovesFresh, WritesOwn, [Next]_vars
  PROVE  WritesOwn'
  <1> SUFFICES ASSUME NEW s \in Requests, req'[s].op = "claimed"
               PROVE  req'[s].write \subseteq Linked(req[s].d)'
    BY DEF WritesOwn
  <1> USE DEF Sound
  <1>1. CASE req'[s] = req[s]
    BY <1>1, ClaimedKeepsLinks DEF WritesOwn, Linked
  <1>2. ASSUME NEW d \in Dossiers, ReadStatus(s, d)
        PROVE  FALSE
    BY <1>2 DEF ReadStatus, Start, TypeOK
  <1>3. CASE Claim(s)
    <2>1. /\ req'[s].write = ToWrite(req[s].d, req[s].to)
          /\ req'[s].d = req[s].d /\ UNCHANGED links
      BY <1>3 DEF Claim, TypeOK
    <2> QED BY <2>1 DEF ToWrite, Linked
  <1> QED BY <1>1, <1>2, <1>3, TransitionStarts

(* The vehicles a handler has just taken are reserved, or further on.        *)
LEMMA TargetNotAvailable ==
  ASSUME NEW x
  PROVE  getTargetVehicleStatus(x) # "available"
  BY DEF getTargetVehicleStatus

(* Only a transition that commits changes which dossiers are finished among  *)
(* those that were not, and only a restore makes one unfinished.             *)
LEMMA CreateUnavailable ==
  ASSUME Sound, Unavailable, NEW d \in Dossiers, NEW S \in SUBSET Vehicles,
         NEW c \in BOOLEAN, Create(d, S, c)
  PROVE  Unavailable'
  <1> USE DEF Sound
  <1> SUFFICES ASSUME NEW e \in Dossiers, NEW v \in Vehicles,
                      << e, v >> \in links', Active(e)'
               PROVE  vehicle'[v].status # "available"
    BY DEF Unavailable
  <1>1. vehicle'[v].status = IF v \in S THEN getTargetVehicleStatus(Steps[1])
                             ELSE vehicle[v].status
    BY StatusWritten DEF Create
  <1>2. CASE v \in S
    BY <1>1, <1>2, TargetNotAvailable
  <1>3. CASE v \notin S
    <2>1. << e, v >> \in links
      BY <1>3 DEF Create
    <2>2. e # d
      BY <2>1 DEF LinksExist, Create, Absent, NoRow, Exists
    <2>3. Active(e)
      BY <2>2 DEF Create, TypeOK, Active, Exists
    <2> QED BY <1>1, <1>3, <2>1, <2>3 DEF Unavailable
  <1> QED BY <1>2, <1>3

LEMMA AddUnavailable ==
  ASSUME Sound, Unavailable, NEW r \in Requests, CommitAdd(r)
  PROVE  Unavailable'
  <1> USE DEF Sound
  <1> SUFFICES ASSUME NEW e \in Dossiers, NEW v \in Vehicles,
                      << e, v >> \in links', Active(e)'
               PROVE  vehicle'[v].status # "available"
    BY DEF Unavailable
  <1>1. vehicle'[v].status = IF v \in {req[r].v} THEN "reserved" ELSE vehicle[v].status
    BY StatusWritten DEF CommitAdd
  <1>2. Active(e) /\ (v # req[r].v => << e, v >> \in links)
    BY DEF CommitAdd, Active, Exists
  <1> QED BY <1>1, <1>2 DEF Unavailable

(* A removal frees a vehicle that no other dossier holds.                    *)
LEMMA RemoveUnavailable ==
  ASSUME Sound, Exclusive, Unavailable, RemovesFresh, NEW r \in Requests, CommitRemove(r)
  PROVE  Unavailable'
  <1> USE DEF Sound
  <1> SUFFICES ASSUME NEW e \in Dossiers, NEW v \in Vehicles,
                      << e, v >> \in links', Active(e)'
               PROVE  vehicle'[v].status # "available"
    BY DEF Unavailable
  <1>1. vehicle'[v].status = IF v \in {req[r].v} THEN "available" ELSE vehicle[v].status
    BY StatusWritten DEF CommitRemove
  <1>2. /\ Active(e) /\ << e, v >> \in links
        /\ << e, v >> # << req[r].d, req[r].v >>
    BY DEF CommitRemove, Active, Exists
  <1>3. /\ req[r].d \in Dossiers /\ Active(req[r].d)
        /\ << req[r].d, req[r].v >> \in links
    BY ContextFields DEF CommitRemove, RemovesFresh, Linked
  <1>4. v # req[r].v
    BY <1>2, <1>3, HeldOnce
  <1> QED BY <1>1, <1>2, <1>4 DEF Unavailable

(* A cancellation frees vehicles that only its own dossier held.             *)
LEMMA StatusUnavailable ==
  ASSUME Sound, Exclusive, Unavailable, WritesOwn, NEW r \in Requests, CommitStatus(r)
  PROVE  Unavailable'
  <1> USE DEF Sound
  <1> DEFINE x == IF req[r].to = "cancelled" THEN "available"
                  ELSE getTargetVehicleStatus(req[r].to)
  <1> SUFFICES ASSUME NEW e \in Dossiers, NEW v \in Vehicles,
                      << e, v >> \in links', Active(e)'
               PROVE  vehicle'[v].status # "available"
    BY DEF Unavailable
  <1>1. vehicle'[v].status = IF v \in req[r].write THEN x ELSE vehicle[v].status
    BY StatusWritten DEF CommitStatus
  <1>2. PICK d \in Dossiers : d = req[r].d /\ Active(d)
    BY ContextFields DEF CommitStatus, ClaimsSound
  <1>3. /\ << e, v >> \in links
        /\ dossier'[d].status = req[r].to
        /\ \A f \in Dossiers \ {d} : dossier'[f] = dossier[f]
    BY <1>2 DEF CommitStatus, Moved, TypeOK, DossierRows
  <1>4. Active(e)
    BY <1>2, <1>3 DEF Active, Exists
  <1>5. CASE req[r].to = "cancelled" /\ v \in req[r].write
    <2>1. << d, v >> \in links
      BY <1>2, <1>5 DEF WritesOwn, CommitStatus, Linked
    <2>2. e = d
      BY <1>2, <1>3, <1>4, <2>1, HeldOnce
    <2> QED BY <1>3, <1>5, <2>2 DEF Active, Exists, IsTerminal, TERMINAL_STATUSES
  <1>6. CASE req[r].to # "cancelled" /\ v \in req[r].write
    BY <1>1, <1>6, TargetNotAvailable
  <1>7. CASE v \notin req[r].write
    BY <1>1, <1>3, <1>4, <1>7 DEF Unavailable
  <1> QED BY <1>5, <1>6, <1>7

(* A restore reserves those of its vehicles that are on offer.               *)
LEMMA RestoreUnavailable ==
  ASSUME Sound, Unavailable, NEW r \in Requests, CommitRestore(r)
  PROVE  Unavailable'
  <1> USE DEF Sound
  <1> DEFINE T == {v \in req[r].vs : vehicle[v].status = "available"}
  <1> SUFFICES ASSUME NEW e \in Dossiers, NEW v \in Vehicles,
                      << e, v >> \in links', Active(e)'
               PROVE  vehicle'[v].status # "available"
    BY DEF Unavailable
  <1>1. vehicle'[v].status = IF v \in T THEN "reserved" ELSE vehicle[v].status
    BY StatusWritten DEF CommitRestore
  <1>2. PICK d \in Dossiers : d = req[r].d
    BY ContextFields DEF CommitRestore
  <1>3. << e, v >> \in links
    BY DEF CommitRestore
  <1>4. CASE e = d
    BY <1>1, <1>2, <1>3, <1>4 DEF CommitRestore, RestoresFresh, Linked
  <1>5. CASE e # d
    <2>1. Active(e)
      BY <1>2, <1>5 DEF CommitRestore, TypeOK, Active, Exists
    <2> QED BY <1>1, <1>3, <2>1 DEF Unavailable
  <1> QED BY <1>4, <1>5

LEMMA DeleteUnavailable ==
  ASSUME Sound, Unavailable, NEW r \in Requests, CommitDelete(r)
  PROVE  Unavailable'
  <1> USE DEF Sound
  <1>1. req[r].d \in Dossiers
    BY ContextFields DEF CommitDelete
  <1> QED BY <1>1 DEF CommitDelete, TypeOK, Unavailable, Active, Exists

LEMMA EditUnavailable ==
  ASSUME Sound, Unavailable, NEW w \in Vehicles, NEW x \in SettableStatuses,
         UpdateVehicle(w, x)
  PROVE  Unavailable'
  <1> USE DEF Sound
  <1> SUFFICES ASSUME NEW e \in Dossiers, NEW v \in Vehicles,
                      << e, v >> \in links', Active(e)'
               PROVE  vehicle'[v].status # "available"
    BY DEF Unavailable
  <1>1. vehicle'[v].status = IF v \in {w} THEN x ELSE vehicle[v].status
    BY StatusWritten DEF UpdateVehicle
  <1>2. Active(e) /\ << e, v >> \in links
    BY DEF UpdateVehicle, Active, Exists
  <1>3. v = w => Holders(w) # {}
    BY <1>2, FreeIsNotHeld
  <1> QED BY <1>1, <1>2, <1>3 DEF Unavailable, UpdateVehicle

(* Reading, claiming and archiving a vehicle leave the pairs and the         *)
(* statuses as they are.                                                     *)
LEMMA QuietSteps ==
  ASSUME TypeOK, NEW r \in Requests,
         \/ \E d \in Dossiers, v \in Vehicles : ReadAdd(r, d, v) \/ ReadRemove(r, d, v)
         \/ \E d \in Dossiers : ReadStatus(r, d) \/ ReadRestore(r, d) \/ ReadDelete(r, d)
         \/ \E v \in Vehicles : ReadArchive(r, v)
         \/ Claim(r) \/ CommitArchive(r) \/ Abort(r)
  PROVE  /\ UNCHANGED << dossier, links >>
         /\ \A v \in Vehicles : vehicle'[v].status = vehicle[v].status
  <1>1. CASE CommitArchive(r)
    <2>1. req[r].v \in Vehicles
      BY <1>1, ContextFields DEF CommitArchive
    <2> QED BY <1>1, <2>1 DEF CommitArchive, TypeOK
  <1>2. CASE \/ \E d \in Dossiers, v \in Vehicles : ReadAdd(r, d, v) \/ ReadRemove(r, d, v)
             \/ \E d \in Dossiers : ReadStatus(r, d) \/ ReadRestore(r, d) \/ ReadDelete(r, d)
             \/ \E v \in Vehicles : ReadArchive(r, v)
             \/ Claim(r) \/ Abort(r)
    <2>1. UNCHANGED << dossier, vehicle, links >>
      BY <1>2 DEF ReadAdd, ReadRemove, ReadStatus, ReadRestore, ReadDelete, ReadArchive,
                  Start, Claim, Abort
    <2> QED BY <2>1
  <1> QED BY <1>1, <1>2

LEMMA StepUnavailable ==
  ASSUME Sound, Exclusive, Kept, [Next]_vars
  PROVE  Unavailable'
  <1> USE DEF Kept
  <1>1. CASE \E d \in Dossiers, S \in SUBSET Vehicles, c \in BOOLEAN : Create(d, S, c)
    BY <1>1, CreateUnavailable
  <1>2. CASE \E w \in Vehicles, x \in SettableStatuses : UpdateVehicle(w, x)
    BY <1>2, EditUnavailable
  <1>3. ASSUME NEW r \in Requests,
               \/ CommitAdd(r) \/ CommitRemove(r) \/ CommitStatus(r)
               \/ CommitRestore(r) \/ CommitDelete(r)
        PROVE  Unavailable'
    BY <1>3, AddUnavailable, RemoveUnavailable, StatusUnavailable, RestoreUnavailable,
       DeleteUnavailable
  <1>4. ASSUME NEW r \in Requests,
               \/ \E d \in Dossiers, v \in Vehicles : ReadAdd(r, d, v) \/ ReadRemove(r, d, v)
               \/ \E d \in Dossiers : ReadStatus(r, d) \/ ReadRestore(r, d) \/ ReadDelete(r, d)
               \/ \E v \in Vehicles : ReadArchive(r, v)
               \/ Claim(r) \/ CommitArchive(r) \/ Abort(r)
        PROVE  Unavailable'
    <2>1. /\ UNCHANGED << dossier, links >>
          /\ \A v \in Vehicles : vehicle'[v].status = vehicle[v].status
      BY <1>4, QuietSteps DEF Sound
    <2> QED BY <2>1 DEF Unavailable, Active, Exists
  <1>5. CASE UNCHANGED vars
    BY <1>5 DEF vars, Unavailable, Active, Exists
  <1> QED BY <1>1, <1>2, <1>3, <1>4, <1>5 DEF Next

LEMMA StepKept ==
  ASSUME GiversAlone
  PROVE  Sound /\ Exclusive /\ Kept /\ [Next]_vars => Kept'
  BY StepUnavailable, StepRemovesFresh, StepWritesOwn DEF Kept, Sound

LEMMA Keeping ==
  ASSUME GiversAlone
  PROVE  Spec => []Kept
  <1>1. RestoresAlone
    BY DEF GiversAlone, RestoresAlone
  <1> QED BY <1>1, Soundness, Exclusivity, InitKept, StepKept, PTL DEF Spec

(* No race of additions, transitions, cancellations, deletions and edits     *)
(* puts a vehicle on offer that a dossier holds; neither does a restore or a *)
(* removal that runs alone.                                                  *)
THEOREM NotOnOffer ==
  ASSUME GiversAlone
  PROVE  Spec => []HeldIsNotAvailable
  <1>1. TypeOK /\ Kept => HeldIsNotAvailable
    BY DEF TypeOK, Kept, Unavailable, HeldIsNotAvailable, held
  <1> QED BY <1>1, Typing, Keeping, PTL

-----------------------------------------------------------------------------
(* Vehicles and milestones.                                                  *)

(* A late addition reserves its vehicle whatever the milestone, a removal    *)
(* and a restore write statuses of their own.                                *)
OnlyMilestonesWrite == Ops \intersect {"add", "remove", "restore"} = {}

NoOtherWriter == \A r \in Requests : req[r].op \notin {"add", "remove", "restore"}

(* The status a vehicle may have at a milestone.                             *)
Fitting(status) == {getTargetVehicleStatus(status), "rejected"}

(* AgreesWithMilestone, pair by pair.                                        *)
Agreeing ==
  \A d \in Dossiers, v \in Vehicles :
    << d, v >> \in links /\ Active(d) => vehicle[v].status \in Fitting(dossier[d].status)

(* The vehicles a claimed step will not write are at its milestone already,  *)
(* or have been rejected since.                                              *)
Settled ==
  \A r \in Requests : req[r].op = "claimed" /\ req[r].to # "cancelled" =>
    \A v \in Linked(req[r].d) \ req[r].write :
      vehicle[v].status \in Fitting(req[r].to)

InStep == Agreeing /\ Settled /\ NoOtherWriter

LEMMA InitInStep == Init => InStep
  BY DEF Init, InStep, Agreeing, Settled, NoOtherWriter, Idle

LEMMA StepNoOtherWriter ==
  ASSUME TypeOK, OnlyMilestonesWrite, NoOtherWriter, [Next]_vars
  PROVE  NoOtherWriter'
  <1> SUFFICES ASSUME NEW s \in Requests, req'[s].op \in {"add", "remove", "restore"}
               PROVE  FALSE
    BY DEF NoOtherWriter
  <1>1. req[s].op \notin {"add", "remove", "restore"}
    BY DEF NoOtherWriter
  <1>2. ASSUME NEW r \in Requests, NEW d \in Dossiers, NEW v \in Vehicles,
               ReadAdd(r, d, v) \/ ReadRemove(r, d, v)
        PROVE  FALSE
    BY <1>2 DEF ReadAdd, ReadRemove, Start, OnlyMilestonesWrite
  <1>3. ASSUME NEW r \in Requests, NEW d \in Dossiers,
               ReadStatus(r, d) \/ ReadRestore(r, d) \/ ReadDelete(r, d)
        PROVE  FALSE
    BY <1>1, <1>3 DEF ReadStatus, ReadRestore, ReadDelete, Start, TypeOK, OnlyMilestonesWrite
  <1>4. ASSUME NEW r \in Requests, NEW v \in Vehicles, ReadArchive(r, v)
        PROVE  FALSE
    BY <1>1, <1>4 DEF ReadArchive, Start, TypeOK
  <1>5. ASSUME NEW r \in Requests, Claim(r)
        PROVE  FALSE
    BY <1>1, <1>5 DEF Claim, TypeOK
  <1>6. ASSUME NEW r \in Requests,
               \/ CommitAdd(r) \/ CommitRemove(r) \/ CommitStatus(r) \/ CommitRestore(r)
               \/ CommitDelete(r) \/ CommitArchive(r) \/ Abort(r)
        PROVE  FALSE
    <2>1. Finished(r)
      BY <1>6 DEF CommitAdd, CommitRemove, CommitStatus, CommitRestore, CommitDelete,
                  CommitArchive, Abort
    <2> QED BY <1>1, <2>1 DEF Finished, TypeOK, Idle
  <1>7. CASE \E d \in Dossiers, S \in SUBSET Vehicles, c \in BOOLEAN : Create(d, S, c)
    BY <1>1, <1>7 DEF Create, Serve
  <1>8. CASE \E v \in Vehicles, x \in SettableStatuses : UpdateVehicle(v, x)
    BY <1>1, <1>8 DEF UpdateVehicle, Serve
  <1>9. CASE UNCHANGED vars
    BY <1>1, <1>9 DEF vars
  <1> QED BY <1>2, <1>3, <1>4, <1>5, <1>6, <1>7, <1>8, <1>9 DEF Next

(* What the claims and the links of an active dossier can look like after a  *)
(* step: a new pair comes from a creation alone.                             *)
LEMMA CreateInStep ==
  ASSUME Sound, InStep, NEW d \in Dossiers, NEW S \in SUBSET Vehicles,
         NEW c \in BOOLEAN, Create(d, S, c)
  PROVE  Agreeing' /\ Settled'
  <1> USE DEF Sound
  <1>1. \A v \in Vehicles :
          vehicle'[v].status = IF v \in S THEN getTargetVehicleStatus(Steps[1])
                               ELSE vehicle[v].status
    BY StatusWritten DEF Create
  <1>2. /\ ~ Exists(d)
        /\ dossier'[d].status = Steps[1]
        /\ \A e \in Dossiers \ {d} : dossier'[e] = dossier[e]
    BY DEF Create, TypeOK, Absent, NoRow, Exists
  <1>3. \A v \in Vehicles : << d, v >> \notin links
    BY <1>2 DEF LinksExist
  <1>4. \A e \in Dossiers, v \in Vehicles : << e, v >> \in links /\ Active(e) => v \notin S
    BY FreeIsNotHeld DEF Create, Reservable
  <1>5. ASSUME NEW e \in Dossiers, NEW v \in Vehicles, << e, v >> \in links', Active(e)'
        PROVE  vehicle'[v].status \in Fitting(dossier'[e].status)
    <2>1. CASE e = d
      <3>1. v \in S
        BY <1>3, <1>5, <2>1 DEF Create
      <3> QED BY <1>1, <1>2, <2>1, <3>1 DEF Fitting
    <2>2. CASE e # d
      <3>1. << e, v >> \in links /\ Active(e)
        BY <1>2, <1>5, <2>2 DEF Create, Active, Exists
      <3>2. v \notin S
        BY <1>4, <3>1
      <3> QED BY <1>1, <1>2, <2>2, <3>1, <3>2 DEF InStep, Agreeing
    <2> QED BY <2>1, <2>2
  <1>6. ASSUME NEW r \in Requests, req'[r].op = "claimed", req'[r].to # "cancelled",
               NEW v \in Linked(req[r].d)', v \notin req'[r].write
        PROVE  vehicle'[v].status \in Fitting(req'[r].to)
    <2>1. req' = req
      BY DEF Create, Serve
    <2>2. req[r].d \in Dossiers /\ Active(req[r].d)
      BY <1>6, <2>1, ContextFields DEF ClaimsSound
    <2>3. v \in Vehicles /\ << req[r].d, v >> \in links
      BY <1>2, <1>6, <2>1, <2>2 DEF Create, Linked, Active
    <2>4. v \notin S
      BY <1>4, <2>2, <2>3
    <2> QED BY <1>1, <1>6, <2>1, <2>3, <2>4 DEF InStep, Settled, Linked
  <1> QED BY <1>5, <1>6 DEF Agreeing, Settled

(* An edit by hand of a vehicle that is held can only reject it.             *)
LEMMA EditInStep ==
  ASSUME Sound, InStep, NEW w \in Vehicles, NEW x \in SettableStatuses,
         UpdateVehicle(w, x)
  PROVE  Agreeing' /\ Settled'
  <1> USE DEF Sound
  <1>1. \A v \in Vehicles :
          vehicle'[v].status = IF v \in {w} THEN x ELSE vehicle[v].status
    BY StatusWritten DEF UpdateVehicle
  <1>2. /\ req' = req /\ dossier' = dossier /\ links' = links
        /\ Holders(w) # {} => x = "rejected"
    BY DEF UpdateVehicle, Serve
  <1>3. \A e \in Dossiers, v \in Vehicles :
          << e, v >> \in links /\ Active(e) =>
            vehicle'[v].status \in {vehicle[v].status, "rejected"}
    BY <1>1, <1>2, FreeIsNotHeld
  <1>4. Agreeing'
    BY <1>2, <1>3 DEF InStep, Agreeing, Fitting, Active, Exists
  <1>5. \A r \in Requests : req[r].op = "claimed" => req[r].d \in Dossiers /\ Active(req[r].d)
    BY ContextFields DEF ClaimsSound
  <1>6. Settled'
    BY <1>2, <1>3, <1>5 DEF InStep, Settled, Fitting, Linked
  <1> QED BY <1>4, <1>6

(* A claim reads which vehicles are at its milestone already.                *)
LEMMA ClaimInStep ==
  ASSUME Sound, InStep, NEW r \in Requests, Claim(r)
  PROVE  Agreeing' /\ Settled'
  <1> USE DEF Sound
  <1>1. UNCHANGED << dossier, vehicle, links >>
    BY DEF Claim
  <1>2. /\ req'[r].d = req[r].d /\ req'[r].to = req[r].to
        /\ req'[r].write = ToWrite(req[r].d, req[r].to)
        /\ \A s \in Requests \ {r} : req'[s] = req[s]
    BY DEF Claim, TypeOK
  <1>3. Agreeing'
    BY <1>1 DEF InStep, Agreeing, Active, Exists
  <1>4. req[r].to # "cancelled" =>
          \A v \in Linked(req[r].d) \ ToWrite(req[r].d, req[r].to) :
            vehicle[v].status \in Fitting(req[r].to)
    BY DEF ToWrite, Fitting
  <1>5. ASSUME NEW s \in Requests, req'[s].op = "claimed", req'[s].to # "cancelled",
               NEW v \in Linked(req[s].d)', v \notin req'[s].write
        PROVE  vehicle'[v].status \in Fitting(req'[s].to)
    <2>1. CASE s = r
      BY <1>1, <1>2, <1>4, <1>5, <2>1 DEF Linked
    <2>2. CASE s # r
      BY <1>1, <1>2, <1>5, <2>2 DEF InStep, Settled, Linked
    <2> QED BY <2>1, <2>2
  <1> QED BY <1>3, <1>5 DEF Settled

(* A committed step brings all vehicles of its dossier to the milestone, and *)
(* touches those of no other.                                                *)
LEMMA StatusInStep ==
  ASSUME Sound, Exclusive, WritesOwn, InStep, NEW r \in Requests, CommitStatus(r)
  PROVE  Agreeing' /\ Settled'
  <1> USE DEF Sound
  <1> DEFINE x == IF req[r].to = "cancelled" THEN "available"
                  ELSE getTargetVehicleStatus(req[r].to)
  <1>1. \A v \in Vehicles :
          vehicle'[v].status = IF v \in req[r].write THEN x ELSE vehicle[v].status
    BY StatusWritten DEF CommitStatus
  <1>2. PICK d \in Dossiers : d = req[r].d /\ Active(d)
    BY ContextFields DEF CommitStatus, ClaimsSound
  <1>3. /\ links' = links
        /\ req[r].op = "claimed"
        /\ dossier'[d].status = req[r].to
        /\ \A f \in Dossiers \ {d} : dossier'[f] = dossier[f]
    BY <1>2 DEF CommitStatus, Moved, TypeOK, DossierRows
  <1>4. \A e \in Dossiers \ {d}, v \in Vehicles :
          << e, v >> \in links /\ Active(e) => vehicle'[v].status = vehicle[v].status
    <2> SUFFICES ASSUME NEW e \in Dossiers \ {d}, NEW v \in Vehicles,
                        << e, v >> \in links, Active(e), v \in req[r].write
                 PROVE  FALSE
      BY <1>1
    <2>1. << d, v >> \in links
      BY <1>2, <1>3 DEF WritesOwn, Linked
    <2> QED BY <1>2, <2>1, HeldOnce
  <1>5. ASSUME NEW e \in Dossiers, NEW v \in Vehicles, << e, v >> \in links', Active(e)'
        PROVE  vehicle'[v].status \in Fitting(dossier'[e].status)
    <2>1. CASE e = d
      <3>1. req[r].to # "cancelled"
        BY <1>3, <1>5, <2>1 DEF Active, Exists, IsTerminal, TERMINAL_STATUSES
      <3>2. CASE v \in req[r].write
        BY <1>1, <1>3, <2>1, <3>1, <3>2 DEF Fitting
      <3>3. CASE v \notin req[r].write
        <4>1. v \in Linked(req[r].d)
          BY <1>2, <1>3, <1>5, <2>1 DEF Linked
        <4>2. vehicle[v].status \in Fitting(req[r].to)
          BY <1>3, <3>1, <3>3, <4>1 DEF InStep, Settled
        <4> QED BY <1>1, <1>3, <2>1, <3>3, <4>2
      <3> QED BY <3>2, <3>3
    <2>2. CASE e # d
      <3>1. << e, v >> \in links /\ Active(e)
        BY <1>3, <1>5, <2>2 DEF Active, Exists
      <3> QED BY <1>3, <1>4, <2>2, <3>1 DEF InStep, Agreeing
    <2> QED BY <2>1, <2>2
  <1>6. /\ req'[r] = Idle
        /\ \A s \in Requests \ {r} : req'[s] = req[s]
    BY DEF CommitStatus, Finished, TypeOK
  <1>7. ASSUME NEW s \in Requests, req'[s].op = "claimed", req'[s].to # "cancelled",
               NEW v \in Linked(req[s].d)', v \notin req'[s].write
        PROVE  vehicle'[v].status \in Fitting(req'[s].to)
    <2>1. s # r /\ req'[s] = req[s]
      BY <1>6, <1>7 DEF Idle
    <2>2. req[s].d \in Dossiers \ {d} /\ Active(req[s].d)
      BY <1>2, <1>3, <1>7, <2>1, ContextFields DEF ClaimsSound
    <2>3. v \in Vehicles /\ << req[s].d, v >> \in links
      BY <1>3, <1>7, <2>1 DEF Linked
    <2>4. vehicle'[v].status = vehicle[v].status
      BY <1>4, <2>2, <2>3
    <2> QED BY <1>7, <2>1, <2>3, <2>4 DEF InStep, Settled, Linked
  <1> QED BY <1>5, <1>7 DEF Agreeing, Settled

LEMMA DeleteInStep ==
  ASSUME Sound, InStep, NEW r \in Requests, CommitDelete(r)
  PROVE  Agreeing' /\ Settled'
  <1> USE DEF Sound
  <1>1. PICK d \in Dossiers : d = req[r].d
    BY ContextFields DEF CommitDelete
  <1>2. /\ ~ Exists(d)'
        /\ links' \subseteq links /\ vehicle' = vehicle
        /\ \A f \in Dossiers \ {d} : dossier'[f] = dossier[f]
    BY <1>1 DEF CommitDelete, TypeOK, Deleted, NoRow, Exists
  <1>3. Agreeing'
    BY <1>2 DEF InStep, Agreeing, Active, Exists
  <1>4. /\ req'[r] = Idle
        /\ \A s \in Requests \ {r} : req'[s] = req[s]
    BY DEF CommitDelete, Finished, TypeOK
  <1>5. Settled'
    BY <1>2, <1>4 DEF InStep, Settled, Linked, Idle
  <1> QED BY <1>3, <1>5

(* A step that writes no status and ends or starts contexts that are not     *)
(* claims.                                                                   *)
LEMMA QuietInStep ==
  ASSUME Sound, InStep, NEW r \in Requests,
         \/ \E d \in Dossiers, v \in Vehicles : ReadAdd(r, d, v) \/ ReadRemove(r, d, v)
         \/ \E d \in Dossiers : ReadStatus(r, d) \/ ReadRestore(r, d) \/ ReadDelete(r, d)
         \/ \E v \in Vehicles : ReadArchive(r, v)
         \/ CommitArchive(r) \/ Abort(r)
  PROVE  Agreeing' /\ Settled'
  <1> USE DEF Sound
  <1>1. /\ UNCHANGED << dossier, links >>
        /\ \A v \in Vehicles : vehicle'[v].status = vehicle[v].status
    BY QuietSteps
  <1>2. /\ req'[r].op # "claimed"
        /\ \A s \in Requests \ {r} : req'[s] = req[s]
    BY DEF ReadAdd, ReadRemove, ReadStatus, ReadRestore, ReadDelete, ReadArchive,
           Start, CommitArchive, Abort, Finished, Idle, TypeOK
  <1>3. Agreeing'
    BY <1>1 DEF InStep, Agreeing, Active, Exists
  <1>4. Settled'
    BY <1>1, <1>2 DEF InStep, Settled, Linked
  <1> QED BY <1>3, <1>4

LEMMA StepInStep ==
  ASSUME OnlyMilestonesWrite
  PROVE  Sound /\ Exclusive /\ Kept /\ InStep /\ [Next]_vars => InStep'
  <1> SUFFICES ASSUME Sound, Exclusive, Kept, InStep, [Next]_vars
               PROVE  Agreeing' /\ Settled'
    BY StepNoOtherWriter DEF InStep, Sound
  <1>1. CASE \E d \in Dossiers, S \in SUBSET Vehicles, c \in BOOLEAN : Create(d, S, c)
    BY <1>1, CreateInStep
  <1>2. CASE \E w \in Vehicles, x \in SettableStatuses : UpdateVehicle(w, x)
    BY <1>2, EditInStep
  <1>3. ASSUME NEW r \in Requests, Claim(r) \/ CommitStatus(r) \/ CommitDelete(r)
        PROVE  Agreeing' /\ Settled'
    BY <1>3, ClaimInStep, StatusInStep, DeleteInStep DEF Kept
  <1>4. ASSUME NEW r \in Requests, CommitAdd(r) \/ CommitRemove(r) \/ CommitRestore(r)
        PROVE  FALSE
    BY <1>4 DEF CommitAdd, CommitRemove, CommitRestore, InStep, NoOtherWriter
  <1>5. ASSUME NEW r \in Requests,
               \/ \E d \in Dossiers, v \in Vehicles : ReadAdd(r, d, v) \/ ReadRemove(r, d, v)
               \/ \E d \in Dossiers : ReadStatus(r, d) \/ ReadRestore(r, d) \/ ReadDelete(r, d)
               \/ \E v \in Vehicles : ReadArchive(r, v)
               \/ CommitArchive(r) \/ Abort(r)
        PROVE  Agreeing' /\ Settled'
    BY <1>5, QuietInStep
  <1>6. CASE UNCHANGED vars
    BY <1>6 DEF vars, InStep, Agreeing, Settled, Active, Exists, Linked
  <1> QED BY <1>1, <1>2, <1>3, <1>4, <1>5, <1>6 DEF Next

(* The vehicles of a dossier that is not finished have the status of its     *)
(* milestone, or were rejected by hand, whatever the race of creations,      *)
(* transitions, cancellations, deletions and edits.                          *)
THEOREM Milestones ==
  ASSUME OnlyMilestonesWrite
  PROVE  Spec => []AgreesWithMilestone
  <1>1. GiversAlone /\ RestoresAlone
    BY DEF OnlyMilestonesWrite, GiversAlone, RestoresAlone
  <1>2. Spec => []InStep
    BY <1>1, Soundness, Exclusivity, Keeping, InitInStep, StepInStep, PTL DEF Spec
  <1>3. TypeOK /\ InStep => AgreesWithMilestone
    BY DEF TypeOK, InStep, Agreeing, Fitting, AgreesWithMilestone, held
  <1> QED BY <1>2, <1>3, Typing, PTL

-----------------------------------------------------------------------------
(* Rejections.                                                               *)

(* What a claimed transition will write was not rejected when it looked; one *)
(* request at a time, it still is not.                                       *)
WritesNoRejection ==
  \A r \in Requests : req[r].op = "claimed" => Rejected(req[r].write) = {}

LEMMA InitNoRejection == Init => WritesNoRejection
  BY DEF Init, WritesNoRejection, Idle

LEMMA StepNoRejection ==
  ASSUME OneAtATime
  PROVE  TypeOK /\ WritesNoRejection /\ [Next]_vars => WritesNoRejection'
  <1> SUFFICES ASSUME TypeOK, WritesNoRejection, [Next]_vars,
                      NEW s \in Requests, req'[s].op = "claimed"
               PROVE  Rejected(req[s].write)' = {}
    BY DEF WritesNoRejection
  <1>1. CASE req'[s] = req[s]
    <2>1. req[s] # Idle
      BY <1>1 DEF Idle
    <2>2. UNCHANGED vars
      BY <1>1, <2>1, AloneRests
    <2> QED BY <1>1, <2>2 DEF vars, WritesNoRejection, Rejected
  <1>2. ASSUME NEW d \in Dossiers, ReadStatus(s, d)
        PROVE  FALSE
    BY <1>2 DEF ReadStatus, Start, TypeOK
  <1>3. CASE Claim(s)
    <2>1. /\ req'[s].write = ToWrite(req[s].d, req[s].to)
          /\ Rejected(ToWrite(req[s].d, req[s].to)) = {} /\ UNCHANGED vehicle
      BY <1>3 DEF Claim, TypeOK
    <2> QED BY <2>1 DEF Rejected
  <1> QED BY <1>1, <1>2, <1>3, TransitionStarts

(* One step that writes a dossier keeps every rejection.                     *)
Sparing ==
  dossier' # dossier =>
    \A v \in Vehicles : vehicle[v].status = "rejected" => vehicle'[v].status = "rejected"

LEMMA StepSparing == TypeOK /\ WritesNoRejection /\ [Next]_vars => [Sparing]_vars
  <1> SUFFICES ASSUME TypeOK, WritesNoRejection, Next, dossier' # dossier,
                      NEW v \in Vehicles, vehicle[v].status = "rejected"
               PROVE  vehicle'[v].status = "rejected"
    BY DEF Sparing
  <1>1. ASSUME NEW d \in Dossiers, NEW S \in SUBSET Vehicles, NEW c \in BOOLEAN,
               Create(d, S, c)
        PROVE  vehicle'[v].status = "rejected"
    <2>1. v \notin S
      BY <1>1 DEF Create, Reservable
    <2> QED BY <1>1, <2>1, StatusWritten DEF Create
  <1>2. ASSUME NEW r \in Requests, CommitStatus(r)
        PROVE  vehicle'[v].status = "rejected"
    <2>1. v \notin req[r].write
      BY <1>2 DEF CommitStatus, WritesNoRejection, Rejected
    <2> QED BY <1>2, <2>1, StatusWritten DEF CommitStatus
  <1>3. ASSUME NEW r \in Requests, CommitRestore(r)
        PROVE  vehicle'[v].status = "rejected"
    BY <1>3, StatusWritten DEF CommitRestore
  <1>4. ASSUME NEW r \in Requests, CommitDelete(r)
        PROVE  vehicle'[v].status = "rejected"
    BY <1>4 DEF CommitDelete
  <1>5. CASE \E w \in Vehicles, x \in SettableStatuses : UpdateVehicle(w, x)
    BY <1>5 DEF UpdateVehicle
  <1>6. ASSUME NEW r \in Requests, CommitAdd(r) \/ CommitRemove(r)
        PROVE  FALSE
    BY <1>6 DEF CommitAdd, CommitRemove
  <1>7. ASSUME NEW r \in Requests,
               \/ \E e \in Dossiers, w \in Vehicles : ReadAdd(r, e, w) \/ ReadRemove(r, e, w)
               \/ \E e \in Dossiers : ReadStatus(r, e) \/ ReadRestore(r, e) \/ ReadDelete(r, e)
               \/ \E w \in Vehicles : ReadArchive(r, w)
               \/ Claim(r) \/ CommitArchive(r) \/ Abort(r)
        PROVE  FALSE
    BY <1>7, QuietSteps
  <1> QED BY <1>1, <1>2, <1>3, <1>4, <1>5, <1>6, <1>7 DEF Next

(* One request at a time, no change of a dossier takes a rejection back: not *)
(* its creation, its steps, its cancellation, its restore or its deletion.   *)
THEOREM Rejections ==
  ASSUME OneAtATime
  PROVE  Spec => RejectionSurvivesDossier
  <1>1. Spec => []WritesNoRejection
    BY Typing, InitNoRejection, StepNoRejection, PTL DEF Spec
  <1>2. [Sparing]_vars => [dossier' # dossier =>
          \A v \in Vehicles :
            vehicle[v].status = "rejected" => vehicle'[v].status = "rejected"]_vars
    BY DEF Sparing
  <1> QED BY <1>1, <1>2, Typing, StepSparing, PTL DEF Spec, RejectionSurvivesDossier

=============================================================================
