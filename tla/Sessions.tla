------------------------------ MODULE Sessions ------------------------------
(***************************************************************************)
(* The sessions of one user: refresh tokens that are exchanged for their   *)
(* successors, the login in one or two steps, and the second factor.       *)
(*                                                                         *)
(* What runs under the lock of the user's row is one action.  Login,       *)
(* refresh and the change of the password or e-mail read before they lock  *)
(* or write: a Read and a Commit action in one of the `Requests' slots.    *)
(* A code is the time step it is computed for, or a recovery code.  The    *)
(* account is active; which clients present which token is left open.      *)
(***************************************************************************)
EXTENDS Integers, FiniteSets

CONSTANTS
  Tokens,          \* refresh tokens that can be handed out
  Recovery,        \* the recovery codes a setup hands out
  MaxAttempts,     \* five, in the code
  MaxTime,         \* bounds: time steps, passwords, challenges,
  MaxPassword,     \*   and session versions
  MaxChallenge,
  MaxVersion,
  Requests

ASSUME SessionsAssumption ==
  /\ MaxAttempts \in Nat \ {0}
  /\ MaxTime \in Nat /\ MaxTime >= 2
  /\ MaxPassword \in Nat /\ MaxChallenge \in Nat /\ MaxVersion \in Nat
  /\ \A code \in Recovery : code \notin 0 .. MaxTime + 1

VARIABLES
  session,    \* RefreshSession, by token
  factor,     \* UserTwoFactor
  password,   \* the number of the current password
  now,        \* the current time step
  spent,      \* history: the codes accepted for the secret in use, and
  replayed,   \*   whether one of them was accepted again
  req

vars == << session, factor, password, now, spent, replayed, req >>

-----------------------------------------------------------------------------
Idle      == [op |-> "idle"]
NoSession == [state |-> "none"]
NoChallenge == [n |-> 0, password |-> 0, live |-> FALSE]

(* UserTwoFactor without a secret; `version' and `handed', the number of the *)
(* last challenge, only grow.                                                *)
Cleared(version, handed) ==
  [ enabled |-> FALSE, pending |-> "none", last |-> 0, recovery |-> {},
    challenge |-> NoChallenge, handed |-> handed, version |-> version,
    failed |-> 0, lock |-> "none" ]

Active == {t \in Tokens : session[t].state = "active"}

(* A session and what it was opened from; `verified': with a code, or in      *)
(* succession of such a one; `late': see changeOwn.                          *)
Session(from, verified, late) ==
  [state |-> "active", from |-> from, verified |-> verified, late |-> late]

Revoked(S) ==
  [t \in Tokens |-> IF t \in S THEN [session[t] EXCEPT !.state = "revoked"] ELSE session[t]]

(* A token that was never handed out; randomBytes is taken to be fresh.      *)
Fresh(t) == session[t] = NoSession

Start(r, context) == req[r] = Idle /\ req' = [req EXCEPT ![r] = context]
Finish(r, op) == req[r].op = op /\ req' = [req EXCEPT ![r] = Idle]
Locked == factor.lock = "locked"

-----------------------------------------------------------------------------
(* Mutant: the last accepted time step is not looked at.                     *)
ValidAgain(code) ==
  \/ code \in (now - 1) .. (now + 1)
  \/ code \in factor.recovery

(* factor(): a code of a time step around now, later than the last accepted  *)
(* one, or a recovery code that is left.                                     *)
Valid(code) ==
  \/ code \in (now - 1) .. (now + 1) /\ code > factor.last
  \/ code \in factor.recovery

Spend(code) ==
  /\ spent' = spent \union {code}
  /\ replayed' = (replayed \/ code \in spent)

(* What accepting a code leaves of the factor.                               *)
After(code) ==
  IF code \in Recovery THEN [factor EXCEPT !.recovery = @ \ {code}]
                       ELSE [factor EXCEPT !.last = code]

(* An accepted code ends the challenge, the count of failures and the lock.  *)
Accepted(code) ==
  [After(code) EXCEPT !.challenge = NoChallenge, !.failed = 0, !.lock = "none"]

(* Mutant: a lock that is over does not start the count again.               *)
failedOn ==
  LET count == factor.failed + 1
  IN  factor' = [factor EXCEPT !.failed = count,
                   !.lock = IF count >= MaxAttempts THEN "locked" ELSE "none"]

(* failed(): the attempt is counted, from one again after a lock.            *)
failed ==
  LET count == IF factor.lock = "over" THEN 1 ELSE factor.failed + 1
  IN  factor' = [factor EXCEPT !.failed = count,
                   !.lock = IF count >= MaxAttempts THEN "locked" ELSE "none"]

(* A wrong password or code: startSetup counts it while the second factor is *)
(* off, confirmSetup, completeLogin and disable likewise.                    *)
Fail ==
  /\ ~ Locked
  /\ failed
  /\ UNCHANGED << session, password, now, spent, replayed, req >>

-----------------------------------------------------------------------------
(* validateUser reads the password; the login is decided under the lock.     *)
ReadLogin(r) ==
  /\ Start(r, [op |-> "login", password |-> password])
  /\ UNCHANGED << session, factor, password, now, spent, replayed >>

login(r) ==
  /\ Finish(r, "login")
  /\ req[r].password = password
  /\ \/ /\ ~ factor.enabled
        /\ \E t \in Tokens :
             /\ Fresh(t)
             /\ session' = [session EXCEPT ![t] = Session(<< "login", 0 >>, FALSE, FALSE)]
        /\ UNCHANGED factor
     \/ /\ factor.enabled /\ ~ Locked
        /\ factor.handed < MaxChallenge
        /\ factor' = [factor EXCEPT !.handed = @ + 1,
             !.challenge = [n |-> factor.handed + 1, password |-> password, live |-> TRUE]]
        /\ UNCHANGED session
  /\ UNCHANGED << password, now, spent, replayed >>

(* The second step, with the challenge that was handed out last.             *)
completeLogin(code) ==
  /\ factor.enabled
  /\ factor.challenge.live /\ factor.challenge.password = password
  /\ ~ Locked /\ Valid(code)
  /\ factor' = Accepted(code)
  /\ \E t \in Tokens :
       /\ Fresh(t)
       /\ session' = [session EXCEPT ![t] =
            Session(<< "challenge", factor.challenge.n >>, TRUE, FALSE)]
  /\ Spend(code)
  /\ UNCHANGED << password, now, req >>

-----------------------------------------------------------------------------
(* The exchange of a refresh token: its transaction is serializable.         *)
ReadRefresh(r, t) ==
  /\ t \in Active
  /\ Start(r, [op |-> "refresh", t |-> t])
  /\ UNCHANGED << session, factor, password, now, spent, replayed >>

(* Mutant: the token is revoked whatever became of it since it was read.     *)
refreshAnyway(r) ==
  /\ Finish(r, "refresh")
  /\ LET t == req[r].t
     IN  \E u \in Tokens :
           /\ Fresh(u)
           /\ session' = [Revoked({t}) EXCEPT ![u] =
                Session(<< "token", t >>, session[t].verified, session[t].late)]
  /\ UNCHANGED << factor, password, now, spent, replayed >>

refreshToken(r) ==
  /\ Finish(r, "refresh")
  /\ req[r].t \in Active
  /\ LET t == req[r].t
     IN  \E u \in Tokens :
           /\ Fresh(u)
           /\ session' = [Revoked({t}) EXCEPT ![u] =
                Session(<< "token", t >>, session[t].verified, session[t].late)]
  /\ UNCHANGED << factor, password, now, spent, replayed >>

logout(t) ==
  /\ t \in Active
  /\ session' = Revoked({t})
  /\ UNCHANGED << factor, password, now, spent, replayed, req >>

(* Password or e-mail: the current session is looked at, then all sessions   *)
(* are revoked and a new one is opened.  Nothing is looked at again: the new *)
(* session is `late' when the second factor was switched in between.         *)
ReadChange(r, t) ==
  /\ t \in Active
  /\ Start(r, [op |-> "change", t |-> t, version |-> factor.version])
  /\ UNCHANGED << session, factor, password, now, spent, replayed >>

changeOwn(r) ==
  /\ Finish(r, "change")
  /\ password' \in {password, password + 1} /\ password' <= MaxPassword
  /\ LET old == session[req[r].t]
     IN  \E t \in Tokens :
           /\ Fresh(t)
           /\ session' = [Revoked(Active) EXCEPT ![t] =
                Session(<< "change", 0 >>, old.verified,
                        old.late \/ req[r].version # factor.version)]
  /\ UNCHANGED << factor, now, spent, replayed >>

-----------------------------------------------------------------------------
(* A new secret; the codes accepted for an older one mean nothing any more.  *)
startSetup ==
  /\ ~ Locked /\ ~ factor.enabled
  /\ factor' = [factor EXCEPT !.pending = "open", !.last = 0]
  /\ spent' = {}
  /\ UNCHANGED << session, password, now, replayed, req >>

Confirmed(code) ==
  [Accepted(code) EXCEPT !.enabled = TRUE, !.pending = "none", !.recovery = Recovery,
                         !.version = @ + 1]

(* Mutant: the sessions opened without a second factor go on.                *)
confirmKeepsSessions(code) ==
  /\ ~ Locked /\ ~ factor.enabled /\ factor.pending = "open"
  /\ code \notin Recovery /\ Valid(code)
  /\ factor.version < MaxVersion
  /\ factor' = Confirmed(code)
  /\ Spend(code)
  /\ UNCHANGED << session, password, now, req >>

confirmSetup(code) ==
  /\ ~ Locked /\ ~ factor.enabled /\ factor.pending = "open"
  /\ code \notin Recovery /\ Valid(code)
  /\ factor.version < MaxVersion
  /\ factor' = Confirmed(code)
  /\ session' = Revoked(Active)
  /\ Spend(code)
  /\ UNCHANGED << password, now, req >>

(* clear(), with the revocation of all sessions.                             *)
Clear ==
  /\ factor.version < MaxVersion
  /\ factor' = Cleared(factor.version + 1, factor.handed)
  /\ session' = Revoked(Active)
  /\ spent' = {}
  /\ UNCHANGED << password, now, req >>

disable(code) ==
  /\ ~ Locked /\ factor.enabled /\ Valid(code)
  /\ Clear
  /\ replayed' = (replayed \/ code \in spent)

(* An administrator resets the second factor of the user.                    *)
adminReset ==
  /\ factor.enabled \/ factor.pending # "none"
  /\ Clear
  /\ UNCHANGED replayed

-----------------------------------------------------------------------------
(* Time: the steps of the codes, and the three dates that pass.              *)
Tick ==
  /\ now < MaxTime
  /\ now' = now + 1
  /\ UNCHANGED << session, factor, password, spent, replayed, req >>

Pass ==
  /\ \/ factor.lock = "locked" /\ factor' = [factor EXCEPT !.lock = "over"]
     \/ factor.pending = "open" /\ factor' = [factor EXCEPT !.pending = "expired"]
     \/ factor.challenge.live /\ factor' = [factor EXCEPT !.challenge.live = FALSE]
  /\ UNCHANGED << session, password, now, spent, replayed, req >>

Abort(r) ==
  /\ req[r] # Idle
  /\ req' = [req EXCEPT ![r] = Idle]
  /\ UNCHANGED << session, factor, password, now, spent, replayed >>

Codes == (1 .. MaxTime + 1) \union Recovery

Init ==
  /\ session = [t \in Tokens |-> NoSession]
  /\ factor = Cleared(0, 0)
  /\ password = 0
  /\ now = 2
  /\ spent = {}
  /\ replayed = FALSE
  /\ req = [r \in Requests |-> Idle]

Next ==
  \/ \E r \in Requests :
       \/ ReadLogin(r)
       \/ login(r)
       \/ \E t \in Tokens : ReadRefresh(r, t) \/ ReadChange(r, t)
       \/ refreshToken(r)
       \/ changeOwn(r)
       \/ Abort(r)
  \/ \E t \in Tokens : logout(t)
  \/ \E code \in Codes : completeLogin(code) \/ confirmSetup(code) \/ disable(code)
  \/ startSetup
  \/ adminReset
  \/ Fail
  \/ Tick
  \/ Pass

Spec == Init /\ [][Next]_vars

-----------------------------------------------------------------------------
(* The rows have their types; attempts are counted up to the limit at most.  *)
TypeOK ==
  /\ session \in [Tokens -> {NoSession} \union
       [ state : {"active", "revoked"}, verified : BOOLEAN, late : BOOLEAN,
         from : ({"login", "change"} \X {0}) \union ({"token"} \X Tokens)
                  \union ({"challenge"} \X (1 .. MaxChallenge)) ] ]
  /\ factor \in
       [ enabled : BOOLEAN, pending : {"none", "open", "expired"},
         last : 0 .. MaxTime + 1, recovery : SUBSET Recovery,
         challenge : [n : 0 .. MaxChallenge, password : 0 .. MaxPassword, live : BOOLEAN],
         handed : 0 .. MaxChallenge, version : 0 .. MaxVersion,
         failed : 0 .. MaxAttempts, lock : {"none", "locked", "over"} ]
  /\ password \in 0 .. MaxPassword /\ now \in 2 .. MaxTime
  /\ spent \subseteq Codes /\ replayed \in BOOLEAN

(* A refresh token has one successor, and a challenge opens one session,     *)
(* however many clients present them at the same time.                       *)
OpenedOnce ==
  \A t, u \in Tokens :
    /\ session[t] # NoSession /\ session[u] # NoSession
    /\ session[t].from = session[u].from
    /\ session[t].from[1] \in {"token", "challenge"}
    => t = u

(* No code is accepted twice for one secret, neither for a login and a       *)
(* switching off nor in two logins, whatever steps were tried in between.    *)
CodesOnce == ~ replayed

(* Once the second factor is on, every session was opened with it, by        *)
(* succession or at the login; but for those of a change of password that    *)
(* had been read before.                                                     *)
VerifiedSinceEnabled ==
  factor.enabled => \A t \in Active : session[t].verified \/ session[t].late
=============================================================================
