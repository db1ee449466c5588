-------------------------- MODULE Sessions_proofs --------------------------
(***************************************************************************)
(* Proofs about Sessions, for every set of tokens, codes and requests: the *)
(* rows are typed, what is handed out opens one session, a code is         *)
(* accepted once, and the sessions of a user with a second factor have     *)
(* been opened with it.                                                    *)
(***************************************************************************)
EXTENDS Sessions, TLAPS

Contexts ==
  {Idle} \union [op : {"login"}, password : 0 .. MaxPassword]
    \union [op : {"refresh"}, t : Tokens]
    \union [op : {"change"}, t : Tokens, version : 0 .. MaxVersion]

Origins ==
  ({"login", "change"} \X {0}) \union ({"token"} \X Tokens)
    \union ({"challenge"} \X (1 .. MaxChallenge))

Rows ==
  [state : {"active", "revoked"}, verified : BOOLEAN, late : BOOLEAN, from : Origins]

Factors ==
  [ enabled : BOOLEAN, pending : {"none", "open", "expired"},
    last : 0 .. MaxTime + 1, recovery : SUBSET Recovery,
    challenge : [n : 0 .. MaxChallenge, password : 0 .. MaxPassword, live : BOOLEAN],
    handed : 0 .. MaxChallenge, version : 0 .. MaxVersion,
    failed : 0 .. MaxAttempts, lock : {"none", "locked", "over"} ]

(* The count of the attempts reaches the limit only with a lock; a live      *)
(* challenge was handed out, and none later.                                 *)
Sound(f) ==
  /\ f.lock = "none" => f.failed < MaxAttempts
  /\ f.challenge.n <= f.handed
  /\ f.challenge.live => f.challenge.n > 0

(* A token that a request presents stays on record.                          *)
Presented ==
  \A r \in Requests : req[r].op \in {"refresh", "change"} => session[req[r].t] \in Rows

(* The type invariant, with the contexts of the requests.                    *)
Typed ==
  /\ session \in [Tokens -> {NoSession} \union Rows]
  /\ factor \in Factors
  /\ Sound(factor)
  /\ password \in 0 .. MaxPassword /\ now \in 2 .. MaxTime
  /\ spent \subseteq Codes /\ replayed \in BOOLEAN
  /\ req \in [Requests -> Contexts]

(* The pieces of a step that several actions share.                          *)
LEMMA RevokedTyped ==
  ASSUME session \in [Tokens -> {NoSession} \union Rows], NEW S \in SUBSET Active
  PROVE  Revoked(S) \in [Tokens -> {NoSession} \union Rows]
<1>1. ASSUME NEW t \in S PROVE [session[t] EXCEPT !.state = "revoked"] \in Rows
  BY <1>1 DEF Active, NoSession, Rows
<1>2. QED
  BY <1>1 DEF Revoked

LEMMA CountTyped ==
  ASSUME NEW f \in Factors, Sound(f), NEW count \in 0 .. MaxAttempts,
         NEW lock \in {"none", "locked", "over"}, lock = "none" => count < MaxAttempts
  PROVE  /\ [f EXCEPT !.failed = count, !.lock = lock] \in Factors
         /\ Sound([f EXCEPT !.failed = count, !.lock = lock])
<1> DEFINE g == [f EXCEPT !.failed = count]
           h == [g EXCEPT !.lock = lock]
<1>1. /\ g \in Factors
      /\ g.failed = count /\ g.challenge = f.challenge /\ g.handed = f.handed
  BY DEF Factors
<1> HIDE DEF g
<1>2. /\ h \in Factors /\ h.lock = lock
      /\ h.failed = count /\ h.challenge = f.challenge /\ h.handed = f.handed
  BY <1>1 DEF Factors
<1> HIDE DEF h
<1>3. Sound(h)
  BY <1>2 DEF Sound
<1>4. QED
  BY <1>2, <1>3 DEF g, h

LEMMA ChallengeTyped ==
  ASSUME NEW f \in Factors, Sound(f), NEW handed \in 0 .. MaxChallenge,
         NEW c \in [n : 0 .. MaxChallenge, password : 0 .. MaxPassword, live : BOOLEAN],
         c.n <= handed, c.live => c.n > 0
  PROVE  /\ [f EXCEPT !.handed = handed, !.challenge = c] \in Factors
         /\ Sound([f EXCEPT !.handed = handed, !.challenge = c])
<1> DEFINE g == [f EXCEPT !.handed = handed]
           h == [g EXCEPT !.challenge = c]
<1>1. /\ g \in Factors
      /\ g.handed = handed /\ g.failed = f.failed /\ g.lock = f.lock
  BY DEF Factors
<1> HIDE DEF g
<1>2. /\ h \in Factors /\ h.challenge = c
      /\ h.handed = handed /\ h.failed = f.failed /\ h.lock = f.lock
  BY <1>1 DEF Factors
<1> HIDE DEF h
<1>3. Sound(h)
  BY <1>2 DEF Sound
<1>4. QED
  BY <1>2, <1>3 DEF g, h

LEMMA NoChallengeTyped ==
  /\ NoChallenge \in [n : 0 .. MaxChallenge, password : 0 .. MaxPassword, live : BOOLEAN]
  /\ NoChallenge.n = 0 /\ ~ NoChallenge.live
BY SessionsAssumption DEF NoChallenge

LEMMA AfterTyped ==
  ASSUME factor \in Factors, Sound(factor), NEW code \in Codes
  PROVE  /\ After(code) \in Factors /\ Sound(After(code))
         /\ After(code).version = factor.version /\ After(code).handed = factor.handed
         /\ After(code).enabled = factor.enabled
<1>1. CASE code \in Recovery
  BY <1>1 DEF After, Factors, Sound
<1>2. CASE code \notin Recovery
  <2>1. code \in 0 .. MaxTime + 1
    BY <1>2, SessionsAssumption DEF Codes
  <2>2. QED
    BY <1>2, <2>1 DEF After, Factors, Sound
<1>3. QED
  BY <1>1, <1>2

LEMMA AcceptedTyped ==
  ASSUME factor \in Factors, Sound(factor), NEW code \in Codes
  PROVE  /\ Accepted(code) \in Factors /\ Sound(Accepted(code))
         /\ Accepted(code).challenge = NoChallenge
         /\ Accepted(code).last = After(code).last
         /\ Accepted(code).recovery = After(code).recovery
         /\ Accepted(code).enabled = factor.enabled
         /\ Accepted(code).version = factor.version /\ Accepted(code).handed = factor.handed
<1> DEFINE f == After(code)
           g == [f EXCEPT !.challenge = NoChallenge]
           h == [g EXCEPT !.failed = 0, !.lock = "none"]
<1>1. /\ f \in Factors /\ Sound(f) /\ f.enabled = factor.enabled
      /\ f.version = factor.version /\ f.handed = factor.handed
  BY AfterTyped
<1> HIDE DEF f
<1>2. /\ g \in Factors /\ g.challenge = NoChallenge
      /\ g.failed = f.failed /\ g.lock = f.lock
      /\ g.last = f.last /\ g.recovery = f.recovery /\ g.enabled = factor.enabled
      /\ g.version = factor.version /\ g.handed = factor.handed
  BY <1>1, NoChallengeTyped DEF Factors
<1>3. Sound(g)
  BY <1>1, <1>2, NoChallengeTyped DEF Sound, Factors
<1> HIDE DEF g
<1>4. h \in Factors /\ Sound(h)
  <2>1. 0 \in 0 .. MaxAttempts /\ 0 < MaxAttempts
    BY SessionsAssumption
  <2>2. QED
    BY <1>2, <1>3, <2>1, CountTyped, Zenon
<1>5. /\ h.challenge = NoChallenge
      /\ h.last = f.last /\ h.recovery = f.recovery /\ h.enabled = factor.enabled
      /\ h.version = factor.version /\ h.handed = factor.handed
  BY <1>2 DEF Factors
<1>6. QED
  BY <1>4, <1>5 DEF f, g, h, Accepted

LEMMA ConfirmedTyped ==
  ASSUME factor \in Factors, Sound(factor), NEW code \in Codes, factor.version < MaxVersion
  PROVE  /\ Confirmed(code) \in Factors /\ Sound(Confirmed(code))
         /\ Confirmed(code).version = factor.version + 1
         /\ Confirmed(code).challenge = NoChallenge
         /\ Confirmed(code).handed = factor.handed
         /\ Confirmed(code).enabled /\ Confirmed(code).last = After(code).last
<1> DEFINE f == Accepted(code)
           g == [f EXCEPT !.enabled = TRUE]
           h == [g EXCEPT !.pending = "none"]
           i == [h EXCEPT !.recovery = Recovery]
           j == [i EXCEPT !.version = @ + 1]
           Rest(row) == /\ row \in Factors /\ Sound(row)
                        /\ row.challenge = NoChallenge /\ row.handed = factor.handed
                        /\ row.last = After(code).last
<1>1. Rest(f) /\ f.version = factor.version
  BY AcceptedTyped
<1> HIDE DEF f
<1>2. Rest(g) /\ g.version = factor.version /\ g.enabled
  BY <1>1 DEF Factors, Sound
<1> HIDE DEF g
<1>3. Rest(h) /\ h.version = factor.version /\ h.enabled
  BY <1>2 DEF Factors, Sound
<1> HIDE DEF h
<1>4. Rest(i) /\ i.version = factor.version /\ i.enabled
  BY <1>3 DEF Factors, Sound
<1> HIDE DEF i
<1>5. i.version + 1 \in 0 .. MaxVersion
  BY <1>1, <1>4, SessionsAssumption DEF Factors
<1>6. Rest(j) /\ j.version = factor.version + 1 /\ j.enabled
  BY <1>4, <1>5 DEF Factors, Sound
<1>7. QED
  BY <1>6 DEF f, g, h, i, j, Confirmed

LEMMA FailedTyped ==
  ASSUME factor \in Factors, Sound(factor), ~ Locked, failed
  PROVE  /\ factor' \in Factors /\ Sound(factor')
         /\ factor'.challenge = factor.challenge /\ factor'.handed = factor.handed
         /\ factor'.version = factor.version /\ factor'.enabled = factor.enabled
         /\ factor'.last = factor.last /\ factor'.recovery = factor.recovery
<1> DEFINE count == IF factor.lock = "over" THEN 1 ELSE factor.failed + 1
           lock == IF count >= MaxAttempts THEN "locked" ELSE "none"
<1>1. factor.failed \in 0 .. MaxAttempts /\ factor.lock \in {"none", "locked", "over"}
  BY DEF Factors
<1>2. count \in 0 .. MaxAttempts
  BY <1>1, SessionsAssumption DEF Sound, Locked
<1>3. factor' = [factor EXCEPT !.failed = count, !.lock = lock]
  BY DEF failed
<1> HIDE DEF count
<1>4. lock \in {"none", "locked", "over"} /\ (lock = "none" => count < MaxAttempts)
  BY <1>2, SessionsAssumption
<1> HIDE DEF lock
<1>5. factor' \in Factors /\ Sound(factor')
  BY <1>2, <1>3, <1>4, CountTyped
<1> DEFINE f == [factor EXCEPT !.failed = count]
<1>6. \A field \in DOMAIN factor \ {"failed"} : f[field] = factor[field]
  OBVIOUS
<1>7. factor' = [f EXCEPT !.lock = lock] /\ DOMAIN f = DOMAIN factor
  BY <1>3
<1> HIDE DEF f
<1>8. \A field \in DOMAIN factor \ {"failed", "lock"} : factor'[field] = factor[field]
  BY <1>6, <1>7
<1>9. {"challenge", "handed", "version", "enabled", "last", "recovery"} \subseteq DOMAIN factor
  BY DEF Factors
<1>10. QED
  BY <1>5, <1>8, <1>9

LEMMA ClearedTyped ==
  ASSUME NEW version \in 0 .. MaxVersion, NEW handed \in 0 .. MaxChallenge,
         factor' = Cleared(version, handed)
  PROVE  factor' \in Factors /\ Sound(factor')
<1>1. factor' \in Factors
  BY SessionsAssumption DEF Cleared, Factors, NoChallenge
<1>2. Sound(factor')
  BY SessionsAssumption DEF Cleared, NoChallenge, Sound
<1>3. QED
  BY <1>1, <1>2

LEMMA ClearTyped ==
  ASSUME Typed, Clear
  PROVE  /\ factor' \in Factors /\ Sound(factor')
         /\ session' \in [Tokens -> {NoSession} \union Rows]
<1>1. factor' \in Factors /\ Sound(factor')
  <2>1. factor.version + 1 \in 0 .. MaxVersion /\ factor.handed \in 0 .. MaxChallenge
    BY SessionsAssumption DEF Typed, Clear, Factors
  <2>2. QED
    BY <2>1, ClearedTyped DEF Clear
<1>2. session' \in [Tokens -> {NoSession} \union Rows]
  BY RevokedTyped DEF Typed, Clear
<1>3. QED
  BY <1>1, <1>2

LEMMA SetupTyped ==
  ASSUME factor \in Factors, Sound(factor), startSetup
  PROVE  /\ factor' \in Factors /\ Sound(factor') /\ factor'.last = 0
         /\ factor'.challenge = factor.challenge /\ factor'.handed = factor.handed
         /\ factor'.version = factor.version /\ factor'.enabled = factor.enabled
<1> DEFINE f == [factor EXCEPT !.pending = "open"]
           g == [f EXCEPT !.last = 0]
           Rest(row) == /\ row \in Factors /\ Sound(row)
                        /\ row.challenge = factor.challenge /\ row.handed = factor.handed
                        /\ row.version = factor.version /\ row.enabled = factor.enabled
<1>1. Rest(f)
  BY DEF Factors, Sound
<1>2. factor' = g
  BY DEF startSetup
<1> HIDE DEF f
<1>3. Rest(g) /\ g.last = 0
  BY <1>1, SessionsAssumption DEF Factors, Sound
<1> HIDE DEF g
<1>4. QED
  BY <1>2, <1>3

(* A session that is opened over typed sessions.                             *)
LEMMA OpenTyped ==
  ASSUME NEW S \in [Tokens -> {NoSession} \union Rows], NEW t \in Tokens,
         NEW from \in Origins, NEW verified \in BOOLEAN, NEW late \in BOOLEAN
  PROVE  [S EXCEPT ![t] = Session(from, verified, late)]
           \in [Tokens -> {NoSession} \union Rows]
BY DEF Session, Rows

LEMMA InitTyped == Init => Typed /\ Presented
<1> SUFFICES ASSUME Init PROVE Typed /\ Presented
  OBVIOUS
<1>1. factor \in Factors /\ Sound(factor)
  <2>1. factor \in Factors
    BY SessionsAssumption DEF Init, Cleared, Factors, NoChallenge
  <2>2. Sound(factor)
    BY SessionsAssumption DEF Init, Cleared, NoChallenge, Sound
  <2>3. QED
    BY <2>1, <2>2
<1>2. session \in [Tokens -> {NoSession} \union Rows] /\ req \in [Requests -> Contexts]
  BY DEF Init, Contexts
<1>3. password \in 0 .. MaxPassword /\ now \in 2 .. MaxTime
  BY SessionsAssumption DEF Init
<1>4. spent \subseteq Codes /\ replayed \in BOOLEAN
  BY DEF Init
<1>5. Presented
  BY DEF Init, Presented, Idle
<1>6. QED
  BY <1>1, <1>2, <1>3, <1>4, <1>5 DEF Typed

LEMMA StepTyped == Typed /\ Presented /\ [Next]_vars => Typed'
<1> SUFFICES ASSUME Typed, Presented, [Next]_vars PROVE Typed'
  OBVIOUS
<1> USE DEF Typed
<1>1. ASSUME NEW r \in Requests, ReadLogin(r) PROVE Typed'
  BY <1>1 DEF ReadLogin, Start, Contexts, Sound
<1>2. ASSUME NEW r \in Requests, login(r) PROVE Typed'
  <2>1. req' \in [Requests -> Contexts]
    BY <1>2 DEF login, Finish, Contexts
  <2>2. << "login", 0 >> \in Origins
    BY DEF Origins
  <2>3. session' \in [Tokens -> {NoSession} \union Rows]
    <3>1. CASE UNCHANGED session
      BY <3>1
    <3>2. CASE ~ UNCHANGED session
      <4>1. PICK t \in Tokens :
              session' = [session EXCEPT ![t] = Session(<< "login", 0 >>, FALSE, FALSE)]
        BY <1>2, <3>2 DEF login
      <4>2. QED
        BY <2>2, <4>1, OpenTyped
    <3>3. QED
      BY <3>1, <3>2
  <2>4. factor' \in Factors /\ Sound(factor')
    <3>1. CASE UNCHANGED factor
      BY <3>1 DEF Sound
    <3>2. CASE ~ UNCHANGED factor
      <4>1. /\ factor.handed < MaxChallenge
            /\ factor' = [factor EXCEPT !.handed = @ + 1,
                 !.challenge = [n |-> factor.handed + 1, password |-> password, live |-> TRUE]]
        BY <1>2, <3>2 DEF login
      <4> DEFINE c == [n |-> factor.handed + 1, password |-> password, live |-> TRUE]
      <4>2. factor.handed + 1 \in 0 .. MaxChallenge /\ factor.handed \in Nat
        BY <4>1, SessionsAssumption DEF Factors
      <4>3. /\ c \in [n : 0 .. MaxChallenge, password : 0 .. MaxPassword, live : BOOLEAN]
            /\ c.n <= factor.handed + 1 /\ c.n > 0
        BY <4>2
      <4>4. factor' = [factor EXCEPT !.handed = factor.handed + 1, !.challenge = c]
        BY <4>1
      <4> HIDE DEF c
      <4>5. QED
        BY <4>2, <4>3, <4>4, ChallengeTyped
    <3>3. QED
      BY <3>1, <3>2
  <2>5. QED
    BY <1>2, <2>1, <2>3, <2>4 DEF login
<1>3. ASSUME NEW code \in Codes, completeLogin(code) PROVE Typed'
  <2>1. factor' \in Factors /\ Sound(factor')
    BY <1>3, AcceptedTyped DEF completeLogin
  <2>2. factor.challenge.n \in 1 .. MaxChallenge
    BY <1>3, SessionsAssumption DEF completeLogin, Sound, Factors
  <2>3. << "challenge", factor.challenge.n >> \in Origins
    BY <2>2 DEF Origins
  <2>4. PICK t \in Tokens :
          session' = [session EXCEPT ![t] =
                        Session(<< "challenge", factor.challenge.n >>, TRUE, FALSE)]
    BY <1>3 DEF completeLogin
  <2>5. session' \in [Tokens -> {NoSession} \union Rows]
    BY <2>3, <2>4, OpenTyped
  <2>6. spent' \subseteq Codes /\ replayed' \in BOOLEAN
    BY <1>3 DEF completeLogin, Spend
  <2>7. QED
    BY <1>3, <2>1, <2>5, <2>6 DEF completeLogin
<1>4. ASSUME NEW r \in Requests, NEW t \in Tokens, ReadRefresh(r, t) PROVE Typed'
  BY <1>4 DEF ReadRefresh, Start, Contexts, Sound
<1>5. ASSUME NEW r \in Requests, refreshToken(r) PROVE Typed'
  <2> DEFINE t == req[r].t
  <2>1. t \in Active /\ req' \in [Requests -> Contexts]
    BY <1>5 DEF refreshToken, Finish, Contexts
  <2>2. /\ << "token", t >> \in Origins
        /\ session[t].verified \in BOOLEAN /\ session[t].late \in BOOLEAN
    BY <2>1 DEF Active, Rows, NoSession, Origins
  <2>3. Revoked({t}) \in [Tokens -> {NoSession} \union Rows]
    BY <2>1, RevokedTyped
  <2>4. session' \in [Tokens -> {NoSession} \union Rows]
    <3>1. PICK u \in Tokens :
            session' = [Revoked({t}) EXCEPT ![u] =
                          Session(<< "token", t >>, session[t].verified, session[t].late)]
      BY <1>5 DEF refreshToken
    <3> HIDE DEF t
    <3>2. QED
      BY <2>2, <2>3, <3>1, OpenTyped
  <2>5. QED
    BY <1>5, <2>1, <2>4 DEF refreshToken, Sound
<1>6. ASSUME NEW t \in Tokens, logout(t) PROVE Typed'
  BY <1>6, RevokedTyped DEF logout, Sound
<1>7. ASSUME NEW r \in Requests, NEW t \in Tokens, ReadChange(r, t) PROVE Typed'
  BY <1>7 DEF ReadChange, Start, Contexts, Sound, Factors
<1>8. ASSUME NEW r \in Requests, changeOwn(r) PROVE Typed'
  <2> DEFINE old == session[req[r].t]
             late == old.late \/ req[r].version # factor.version
  <2>1. old \in Rows
    BY <1>8 DEF changeOwn, Finish, Presented
  <2>2. old.verified \in BOOLEAN /\ late \in BOOLEAN
    BY <2>1 DEF Rows
  <2>3. << "change", 0 >> \in Origins
    BY DEF Origins
  <2>4. Revoked(Active) \in [Tokens -> {NoSession} \union Rows]
    BY RevokedTyped
  <2>5. PICK t \in Tokens :
          session' = [Revoked(Active) EXCEPT ![t] =
                        Session(<< "change", 0 >>, old.verified, late)]
    BY <1>8 DEF changeOwn
  <2> HIDE DEF old, late
  <2>6. session' \in [Tokens -> {NoSession} \union Rows]
    BY <2>2, <2>3, <2>4, <2>5, OpenTyped
  <2>7. password' \in 0 .. MaxPassword /\ req' \in [Requests -> Contexts]
    BY <1>8, SessionsAssumption DEF changeOwn, Finish, Contexts
  <2>8. QED
    BY <1>8, <2>6, <2>7 DEF changeOwn, Sound
<1>9. CASE startSetup
  BY <1>9, SetupTyped DEF startSetup
<1>10. ASSUME NEW code \in Codes, confirmSetup(code) PROVE Typed'
  <2>1. factor' \in Factors /\ Sound(factor')
    BY <1>10, ConfirmedTyped DEF confirmSetup
  <2>2. session' \in [Tokens -> {NoSession} \union Rows]
    BY <1>10, RevokedTyped DEF confirmSetup
  <2>3. spent' \subseteq Codes /\ replayed' \in BOOLEAN
    BY <1>10 DEF confirmSetup, Spend
  <2>4. QED
    BY <1>10, <2>1, <2>2, <2>3 DEF confirmSetup
<1>11. ASSUME NEW code \in Codes, disable(code) PROVE Typed'
  <2>1. replayed' \in BOOLEAN
    BY <1>11 DEF disable
  <2>2. QED
    BY <1>11, <2>1, ClearTyped DEF disable, Clear
<1>12. CASE adminReset
  BY <1>12, ClearTyped DEF adminReset, Clear
<1>13. CASE Fail
  BY <1>13, FailedTyped DEF Fail
<1>14. CASE Tick
  BY <1>14, SessionsAssumption DEF Tick, Sound
<1>15. CASE Pass
  <2>1. CASE factor.lock = "locked" /\ factor' = [factor EXCEPT !.lock = "over"]
    BY <1>15, <2>1 DEF Pass, Factors, Sound
  <2>2. CASE factor' = [factor EXCEPT !.pending = "expired"]
    BY <1>15, <2>2 DEF Pass, Factors, Sound
  <2>3. CASE factor' = [factor EXCEPT !.challenge.live = FALSE]
    <3> DEFINE c == [factor.challenge EXCEPT !.live = FALSE]
    <3>1. /\ c \in [n : 0 .. MaxChallenge, password : 0 .. MaxPassword, live : BOOLEAN]
          /\ c.n = factor.challenge.n /\ ~ c.live
      BY DEF Factors
    <3>2. factor' = [factor EXCEPT !.challenge = c]
      BY <2>3
    <3> HIDE DEF c
    <3>3. factor' \in Factors /\ Sound(factor')
      BY <3>1, <3>2 DEF Factors, Sound
    <3>4. QED
      BY <1>15, <3>3 DEF Pass
  <2>4. QED
    BY <1>15, <2>1, <2>2, <2>3 DEF Pass
<1>16. ASSUME NEW r \in Requests, Abort(r) PROVE Typed'
  BY <1>16 DEF Abort, Contexts, Sound
<1>17. CASE UNCHANGED vars
  BY <1>17 DEF vars, Sound
<1>18. QED
  BY <1>1, <1>2, <1>3, <1>4, <1>5, <1>6, <1>7, <1>8, <1>9, <1>10, <1>11, <1>12,
     <1>13, <1>14, <1>15, <1>16, <1>17 DEF Next

-----------------------------------------------------------------------------
(* What a step leaves of a session that is on record.                        *)
Keeps(new, old) ==
  /\ new # NoSession
  /\ new.from = old.from /\ new.verified = old.verified /\ new.late = old.late
  /\ old.state = "revoked" => new.state = "revoked"

(* No session is opened.                                                     *)
OpensNone == \A t \in Tokens : session[t] = NoSession => session'[t] = NoSession

(* The one session that is opened, and how.                                  *)
Opens(t, from, verified, late) ==
  /\ Fresh(t)
  /\ session'[t] = Session(from, verified, late)
  /\ \A u \in Tokens \ {t} : session[u] = NoSession => session'[u] = NoSession

Sessions0 == session \in [Tokens -> {NoSession} \union Rows]

LEMMA RowTyped ==
  ASSUME Sessions0, NEW t \in Tokens, session[t] # NoSession
  PROVE  session[t] \in Rows
BY DEF Sessions0

LEMMA RevokedKeeps ==
  ASSUME Sessions0, NEW S \in SUBSET Active
  PROVE  /\ \A t \in Tokens : session[t] # NoSession => Keeps(Revoked(S)[t], session[t])
         /\ \A t \in Tokens : session[t] = NoSession => Revoked(S)[t] = NoSession
         /\ \A t \in S : Revoked(S)[t].state = "revoked"
<1>1. ASSUME NEW t \in Tokens, session[t] # NoSession
      PROVE  Keeps(Revoked(S)[t], session[t])
  <2>1. session[t] \in Rows
    BY <1>1, RowTyped
  <2>2. CASE t \in S
    <3>1. Revoked(S)[t] = [session[t] EXCEPT !.state = "revoked"]
      BY <2>2 DEF Revoked
    <3>2. QED
      BY <2>1, <3>1 DEF Keeps, Rows, NoSession
  <2>3. CASE t \notin S
    <3>1. Revoked(S)[t] = session[t]
      BY <2>3 DEF Revoked
    <3>2. QED
      BY <1>1, <3>1 DEF Keeps
  <2>4. QED
    BY <2>2, <2>3
<1>2. ASSUME NEW t \in Tokens, session[t] = NoSession
      PROVE  Revoked(S)[t] = NoSession
  BY <1>2 DEF Revoked, Active, NoSession
<1>3. ASSUME NEW t \in S
      PROVE  Revoked(S)[t].state = "revoked"
  <2>1. t \in Tokens /\ session[t] \in Rows
    BY RowTyped DEF Active, NoSession
  <2>2. Revoked(S)[t] = [session[t] EXCEPT !.state = "revoked"]
    BY <2>1 DEF Revoked
  <2>3. QED
    BY <2>1, <2>2 DEF Rows
<1>4. QED
  BY <1>1, <1>2, <1>3

LEMMA OpenedKeeps ==
  ASSUME Sessions0, NEW S \in SUBSET Active, NEW t \in Tokens, Fresh(t),
         NEW from, NEW verified, NEW late,
         session' = [Revoked(S) EXCEPT ![t] = Session(from, verified, late)]
  PROVE  /\ \A u \in Tokens : session[u] # NoSession => Keeps(session'[u], session[u])
         /\ Opens(t, from, verified, late)
         /\ \A u \in S : session'[u].state = "revoked"
<1>1. \A u \in Tokens \ {t} : session'[u] = Revoked(S)[u]
  BY DEF Revoked
<1>2. session'[t] = Session(from, verified, late)
  BY DEF Revoked
<1>3. t \notin S
  BY DEF Fresh, Active, NoSession
<1>4. QED
  BY <1>1, <1>2, <1>3, RevokedKeeps DEF Opens, Fresh, Active

LEMMA OpenedAlone ==
  ASSUME Sessions0, NEW t \in Tokens, Fresh(t), NEW from, NEW verified, NEW late,
         session' = [session EXCEPT ![t] = Session(from, verified, late)]
  PROVE  /\ \A u \in Tokens : session[u] # NoSession => Keeps(session'[u], session[u])
         /\ Opens(t, from, verified, late)
<1>1. \A u \in Tokens \ {t} : session'[u] = session[u]
  BY DEF Sessions0
<1>2. session'[t] = Session(from, verified, late)
  BY DEF Sessions0
<1>3. QED
  BY <1>1, <1>2 DEF Opens, Fresh, Keeps

(* Every step keeps the sessions on record, and opens one at most.           *)
LEMMA SessionStep ==
  ASSUME Typed, Presented, [Next]_vars
  PROVE  /\ \A t \in Tokens : session[t] # NoSession => Keeps(session'[t], session[t])
         /\ \/ OpensNone
            \/ /\ ~ factor.enabled /\ UNCHANGED factor
               /\ \E t \in Tokens : Opens(t, << "login", 0 >>, FALSE, FALSE)
            \/ /\ \E code \in Codes : completeLogin(code)
               /\ \E t \in Tokens : Opens(t, << "challenge", factor.challenge.n >>, TRUE, FALSE)
            \/ \E r \in Requests :
                 /\ refreshToken(r) /\ session'[req[r].t].state = "revoked"
                 /\ \E t \in Tokens :
                      Opens(t, << "token", req[r].t >>, session[req[r].t].verified,
                            session[req[r].t].late)
            \/ \E r \in Requests :
                 /\ changeOwn(r)
                 /\ \E t \in Tokens :
                      Opens(t, << "change", 0 >>, session[req[r].t].verified,
                            session[req[r].t].late \/ req[r].version # factor.version)
<1> DEFINE Kept == \A t \in Tokens : session[t] # NoSession => Keeps(session'[t], session[t])
<1>0. Sessions0
  BY DEF Typed, Sessions0
<1>1. ASSUME UNCHANGED session PROVE Kept /\ OpensNone
  BY <1>1 DEF Keeps, OpensNone
<1>2. ASSUME NEW S \in SUBSET Active, session' = Revoked(S) PROVE Kept /\ OpensNone
  BY <1>0, <1>2, RevokedKeeps DEF OpensNone
<1>3. ASSUME NEW r \in Requests, login(r), ~ UNCHANGED session
      PROVE  /\ Kept /\ ~ factor.enabled /\ UNCHANGED factor
             /\ \E t \in Tokens : Opens(t, << "login", 0 >>, FALSE, FALSE)
  <2>1. PICK t \in Tokens :
          /\ Fresh(t)
          /\ session' = [session EXCEPT ![t] = Session(<< "login", 0 >>, FALSE, FALSE)]
    BY <1>3 DEF login
  <2>2. Kept /\ Opens(t, << "login", 0 >>, FALSE, FALSE)
    BY <1>0, <2>1, OpenedAlone
  <2>3. ~ factor.enabled /\ UNCHANGED factor
    BY <1>3 DEF login
  <2>4. QED
    BY <2>2, <2>3
<1>4. ASSUME NEW code \in Codes, completeLogin(code)
      PROVE  /\ Kept
             /\ \E t \in Tokens : Opens(t, << "challenge", factor.challenge.n >>, TRUE, FALSE)
  <2>1. PICK t \in Tokens :
          /\ Fresh(t)
          /\ session' = [session EXCEPT ![t] =
               Session(<< "challenge", factor.challenge.n >>, TRUE, FALSE)]
    BY <1>4 DEF completeLogin
  <2>2. QED
    BY <1>0, <2>1, OpenedAlone
<1>5. ASSUME NEW r \in Requests, refreshToken(r)
      PROVE  /\ Kept /\ session'[req[r].t].state = "revoked"
             /\ \E t \in Tokens :
                  Opens(t, << "token", req[r].t >>, session[req[r].t].verified,
                        session[req[r].t].late)
  <2> DEFINE verified == session[req[r].t].verified
             late == session[req[r].t].late
  <2>1. PICK t \in Tokens :
          /\ Fresh(t)
          /\ session' = [Revoked({req[r].t}) EXCEPT ![t] =
               Session(<< "token", req[r].t >>, verified, late)]
    BY <1>5 DEF refreshToken
  <2>2. {req[r].t} \in SUBSET Active
    BY <1>5 DEF refreshToken
  <2> HIDE DEF verified, late
  <2>3. /\ Kept /\ Opens(t, << "token", req[r].t >>, verified, late)
        /\ \A u \in {req[r].t} : session'[u].state = "revoked"
    BY <1>0, <2>1, <2>2, OpenedKeeps
  <2>4. QED
    BY <2>3 DEF verified, late
<1>6. ASSUME NEW r \in Requests, changeOwn(r)
      PROVE  /\ Kept
             /\ \E t \in Tokens :
                  Opens(t, << "change", 0 >>, session[req[r].t].verified,
                        session[req[r].t].late \/ req[r].version # factor.version)
  <2> DEFINE verified == session[req[r].t].verified
             late == session[req[r].t].late \/ req[r].version # factor.version
  <2>1. PICK t \in Tokens :
          /\ Fresh(t)
          /\ session' = [Revoked(Active) EXCEPT ![t] = Session(<< "change", 0 >>, verified, late)]
    BY <1>6 DEF changeOwn
  <2> HIDE DEF verified, late
  <2>2. Kept /\ Opens(t, << "change", 0 >>, verified, late)
    <3>1. Active \in SUBSET Active
      OBVIOUS
    <3>2. QED
      BY <1>0, <2>1, <3>1, OpenedKeeps
  <2>3. QED
    BY <2>2 DEF verified, late
<1>7. ASSUME NEW t \in Tokens, logout(t) PROVE Kept /\ OpensNone
  BY <1>2, <1>7 DEF logout
<1>8. ASSUME NEW code \in Codes, confirmSetup(code) \/ disable(code) PROVE Kept /\ OpensNone
  BY <1>2, <1>8 DEF confirmSetup, disable, Clear
<1>9. CASE adminReset
  BY <1>2, <1>9 DEF adminReset, Clear
<1>10. CASE startSetup \/ Fail \/ Tick \/ Pass \/ UNCHANGED vars
  BY <1>1, <1>10 DEF startSetup, Fail, Tick, Pass, vars
<1>11. ASSUME NEW r \in Requests, NEW t \in Tokens, ReadRefresh(r, t) \/ ReadChange(r, t)
       PROVE  Kept /\ OpensNone
  BY <1>1, <1>11 DEF ReadRefresh, ReadChange
<1>12. ASSUME NEW r \in Requests, ReadLogin(r) \/ Abort(r) PROVE Kept /\ OpensNone
  BY <1>1, <1>12 DEF ReadLogin, Abort
<1> HIDE DEF Kept
<1>13. ASSUME NEW r \in Requests, login(r)
       PROVE  /\ Kept
              /\ \/ OpensNone
                 \/ /\ ~ factor.enabled /\ UNCHANGED factor
                    /\ \E t \in Tokens : Opens(t, << "login", 0 >>, FALSE, FALSE)
  BY <1>1, <1>3, <1>13
<1>14. QED
  BY <1>4, <1>5, <1>6, <1>7, <1>8, <1>9, <1>10, <1>11, <1>12, <1>13 DEF Next, Kept

-----------------------------------------------------------------------------
(* What a request presents; only the two reads of a token add a context.     *)
Reads(context) ==
  \E t \in Active : \/ context = [op |-> "refresh", t |-> t]
                   \/ context = [op |-> "change", t |-> t, version |-> factor.version]

LEMMA RequestStep ==
  ASSUME Typed, [Next]_vars, NEW r \in Requests, req'[r].op \in {"refresh", "change"}
  PROVE  \/ req'[r] = req[r]
         \/ session' = session /\ factor' = factor /\ Reads(req'[r])
<1> DEFINE Same == req'[r] = req[r]
           Added == session' = session /\ factor' = factor /\ Reads(req'[r])
<1>0. req \in [Requests -> Contexts]
  BY DEF Typed
<1>1. ASSUME NEW q \in Requests, NEW op, Finish(q, op) PROVE Same
  BY <1>0, <1>1 DEF Finish, Idle
<1>2. ASSUME NEW q \in Requests, Abort(q) PROVE Same
  BY <1>0, <1>2 DEF Abort, Idle
<1>3. ASSUME NEW q \in Requests, ReadLogin(q) PROVE Same
  BY <1>0, <1>3 DEF ReadLogin, Start
<1>4. ASSUME NEW q \in Requests, NEW t \in Tokens, ReadRefresh(q, t) PROVE Same \/ Added
  BY <1>0, <1>4 DEF ReadRefresh, Start, Reads
<1>5. ASSUME NEW q \in Requests, NEW t \in Tokens, ReadChange(q, t) PROVE Same \/ Added
  BY <1>0, <1>5 DEF ReadChange, Start, Reads
<1>6. ASSUME UNCHANGED req PROVE Same
  BY <1>6
<1> HIDE DEF Same, Added
<1>7. ASSUME NEW q \in Requests, login(q) \/ refreshToken(q) \/ changeOwn(q) PROVE Same
  BY <1>1, <1>7 DEF login, refreshToken, changeOwn
<1>8. ASSUME NEW t \in Tokens, logout(t) PROVE Same
  BY <1>6, <1>8 DEF logout
<1>9. ASSUME NEW code \in Codes, completeLogin(code) \/ confirmSetup(code) \/ disable(code)
      PROVE  Same
  BY <1>6, <1>9 DEF completeLogin, confirmSetup, disable, Clear
<1>10. ASSUME startSetup \/ adminReset \/ Fail \/ Tick \/ Pass \/ UNCHANGED vars PROVE Same
  BY <1>6, <1>10 DEF startSetup, adminReset, Clear, Fail, Tick, Pass, vars
<1>11. Same \/ Added
  BY <1>2, <1>3, <1>4, <1>5, <1>7, <1>8, <1>9, <1>10 DEF Next
<1>12. QED
  BY <1>11 DEF Same, Added

LEMMA PresentedStep == Typed /\ Presented /\ [Next]_vars => Presented'
<1> SUFFICES ASSUME Typed, Presented, [Next]_vars,
                    NEW r \in Requests, req'[r].op \in {"refresh", "change"}
             PROVE  session'[req'[r].t] \in Rows
  BY DEF Presented
<1>1. session' \in [Tokens -> {NoSession} \union Rows]
  <2>1. Typed'
    BY StepTyped
  <2>2. QED
    BY <2>1 DEF Typed
<1>2. CASE req'[r] = req[r]
  <2>1. session[req[r].t] \in Rows
    BY <1>2 DEF Presented
  <2>2. req[r] \in Contexts /\ req[r].op \in {"refresh", "change"}
    BY <1>2 DEF Typed
  <2>3. req[r].t \in Tokens
    BY <2>2 DEF Contexts, Idle
  <2>4. session[req[r].t] # NoSession
    BY <2>1 DEF Rows, NoSession
  <2>5. session'[req[r].t] # NoSession
    BY <2>3, <2>4, SessionStep DEF Keeps
  <2>6. QED
    BY <1>1, <1>2, <2>3, <2>5
<1>3. CASE session' = session /\ Reads(req'[r])
  <2>1. req'[r].t \in Active
    BY <1>3 DEF Reads
  <2>2. session[req'[r].t] \in Rows
    BY <2>1 DEF Typed, Active, NoSession
  <2>3. QED
    BY <1>3, <2>2
<1>4. QED
  BY <1>2, <1>3, RequestStep

(* The rows of the tokens and of the requests have their types.              *)
THEOREM Typing == Spec => []TypeOK
<1>1. Init => Typed /\ Presented
  BY InitTyped
<1>2. Typed /\ Presented /\ [Next]_vars => (Typed /\ Presented)'
  BY StepTyped, PresentedStep
<1>3. Typed => TypeOK
  BY DEF Typed, TypeOK, Rows, Origins, Factors
<1>4. QED
  BY <1>1, <1>2, <1>3, PTL DEF Spec

-----------------------------------------------------------------------------
(* A token that was exchanged is revoked, and a challenge that opened a      *)
(* session is not the one in hand.                                           *)
Opened ==
  /\ OpenedOnce
  /\ \A t \in Tokens :
       session[t] # NoSession /\ session[t].from[1] = "token"
       => session[session[t].from[2]].state = "revoked"
  /\ \A t \in Tokens :
       session[t] # NoSession /\ session[t].from[1] = "challenge"
       => /\ session[t].from[2] <= factor.handed
          /\ factor.challenge.live => session[t].from[2] # factor.challenge.n

(* A live challenge is the one there was or a newer one; the numbers grow.   *)
LEMMA ChallengeStep ==
  ASSUME Typed, [Next]_vars
  PROVE  /\ factor'.handed >= factor.handed
         /\ factor'.challenge.live =>
              \/ factor.challenge.live /\ factor'.challenge.n = factor.challenge.n
              \/ factor'.challenge.n > factor.handed
         /\ \A code \in Codes : completeLogin(code) => ~ factor'.challenge.live
<1> DEFINE Grows ==
      /\ factor'.handed >= factor.handed
      /\ factor'.challenge.live =>
           \/ factor.challenge.live /\ factor'.challenge.n = factor.challenge.n
           \/ factor'.challenge.n > factor.handed
<1>0. factor \in Factors /\ Sound(factor) /\ factor.handed \in Nat
  BY SessionsAssumption DEF Typed, Factors
<1>1. ASSUME factor'.handed = factor.handed, factor'.challenge = factor.challenge PROVE Grows
  BY <1>0, <1>1
<1>2. ASSUME factor'.handed = factor.handed, ~ factor'.challenge.live PROVE Grows
  BY <1>0, <1>2
<1> HIDE DEF Grows
<1>3. ASSUME UNCHANGED factor PROVE Grows
  BY <1>1, <1>3
<1>4. ASSUME NEW r \in Requests, login(r) PROVE Grows
  <2>1. CASE UNCHANGED factor
    BY <1>3, <2>1
  <2>2. CASE ~ UNCHANGED factor
    <3> DEFINE f == [factor EXCEPT !.handed = factor.handed + 1]
               c == [n |-> factor.handed + 1, password |-> password, live |-> TRUE]
    <3>1. factor' = [f EXCEPT !.challenge = c]
      BY <1>4, <2>2 DEF login
    <3>2. f.handed = factor.handed + 1 /\ DOMAIN f = DOMAIN factor /\ c.n = factor.handed + 1
      BY <1>0 DEF Factors
    <3>3. "challenge" \in DOMAIN factor /\ "handed" \in DOMAIN factor
      BY <1>0 DEF Factors
    <3> HIDE DEF f, c
    <3>4. factor'.handed = factor.handed + 1 /\ factor'.challenge.n = factor.handed + 1
      BY <3>1, <3>2, <3>3
    <3>5. QED
      BY <1>0, <3>4 DEF Grows
  <2>3. QED
    BY <2>1, <2>2
<1>5. ASSUME NEW code \in Codes, completeLogin(code)
      PROVE  Grows /\ ~ factor'.challenge.live
  <2>1. ~ factor'.challenge.live /\ factor'.handed = factor.handed
    BY <1>0, <1>5, AcceptedTyped, NoChallengeTyped DEF completeLogin
  <2>2. QED
    BY <1>2, <2>1
<1>6. ASSUME NEW code \in Codes, confirmSetup(code) PROVE Grows
  BY <1>0, <1>2, <1>6, ConfirmedTyped, NoChallengeTyped DEF confirmSetup
<1>7. ASSUME Clear PROVE Grows
  BY <1>2, <1>7 DEF Clear, Cleared, NoChallenge
<1>8. ASSUME startSetup PROVE Grows
  BY <1>0, <1>1, <1>8, SetupTyped
<1>9. ASSUME Fail PROVE Grows
  BY <1>0, <1>1, <1>9, FailedTyped DEF Fail
<1>10. ASSUME Pass PROVE Grows
  <2>1. CASE factor' = [factor EXCEPT !.lock = "over"]
    BY <1>0, <1>1, <2>1 DEF Factors
  <2>2. CASE factor' = [factor EXCEPT !.pending = "expired"]
    BY <1>0, <1>1, <2>2 DEF Factors
  <2>3. CASE factor' = [factor EXCEPT !.challenge.live = FALSE]
    <3> DEFINE c == [factor.challenge EXCEPT !.live = FALSE]
    <3>1. ~ c.live /\ factor' = [factor EXCEPT !.challenge = c]
      BY <1>0, <2>3 DEF Factors
    <3> HIDE DEF c
    <3>2. ~ factor'.challenge.live /\ factor'.handed = factor.handed
      BY <1>0, <3>1 DEF Factors
    <3>3. QED
      BY <1>2, <3>2
  <2>4. QED
    BY <1>10, <2>1, <2>2, <2>3 DEF Pass
<1>11. Grows
  BY <1>3, <1>4, <1>5, <1>6, <1>7, <1>8, <1>9, <1>10
     DEF Next, ReadLogin, ReadRefresh, ReadChange, refreshToken, changeOwn, Abort, logout,
         disable, adminReset, Tick, vars
<1>12. QED
  BY <1>5, <1>11 DEF Grows

(* What a session was opened from, when it was from a token or a challenge.  *)
LEMMA OriginTyped ==
  ASSUME Typed, NEW t \in Tokens, session[t] # NoSession
  PROVE  /\ session[t].from[1] = "token" => session[t].from[2] \in Tokens
         /\ session[t].from[1] = "challenge" => session[t].from[2] \in Nat
<1>1. session[t].from \in Origins
  BY DEF Typed, Rows
<1>2. QED
  BY <1>1, SessionsAssumption DEF Origins

LEMMA OpenedStep == Typed /\ Presented /\ Opened /\ [Next]_vars => Opened'
<1> SUFFICES ASSUME Typed, Presented, Opened, [Next]_vars PROVE Opened'
  OBVIOUS
<1>1. \A t \in Tokens : session[t] # NoSession => Keeps(session'[t], session[t])
  BY SessionStep
<1>2. /\ factor'.handed >= factor.handed
      /\ factor'.challenge.live =>
           \/ factor.challenge.live /\ factor'.challenge.n = factor.challenge.n
           \/ factor'.challenge.n > factor.handed
      /\ \A code \in Codes : completeLogin(code) => ~ factor'.challenge.live
  BY ChallengeStep
<1>3. /\ factor \in Factors /\ factor' \in Factors
      /\ factor.handed \in Nat /\ factor'.handed \in Nat
      /\ factor.challenge.n \in Nat /\ factor'.challenge.n \in Nat
  <2>1. Typed'
    BY StepTyped
  <2>2. factor \in Factors /\ factor' \in Factors
    BY <2>1 DEF Typed
  <2>3. QED
    BY <2>2, SessionsAssumption DEF Factors
<1> DEFINE Old(t) == session[t] # NoSession

(* Sessions that were on record stay apart.                                  *)
<1>4. ASSUME NEW t \in Tokens, Old(t)
      PROVE  /\ session'[t].from = session[t].from
             /\ session'[t].from[1] = "token" =>
                  session'[session'[t].from[2]].state = "revoked"
             /\ session'[t].from[1] = "challenge" =>
                  /\ session'[t].from[2] <= factor'.handed
                  /\ factor'.challenge.live => session'[t].from[2] # factor'.challenge.n
  <2>1. session'[t].from = session[t].from
    BY <1>1, <1>4 DEF Keeps
  <2>2. ASSUME session[t].from[1] = "token"
        PROVE  session'[session[t].from[2]].state = "revoked"
    <3>1. session[t].from[2] \in Tokens /\ session[session[t].from[2]].state = "revoked"
      BY <1>4, <2>2, OriginTyped DEF Opened
    <3>2. session[session[t].from[2]] # NoSession
      BY <3>1 DEF NoSession
    <3>3. QED
      BY <1>1, <3>1, <3>2 DEF Keeps
  <2>3. ASSUME session[t].from[1] = "challenge"
        PROVE  /\ session[t].from[2] <= factor'.handed
               /\ factor'.challenge.live => session[t].from[2] # factor'.challenge.n
    <3>1. /\ session[t].from[2] \in Nat /\ session[t].from[2] <= factor.handed
          /\ factor.challenge.live => session[t].from[2] # factor.challenge.n
      BY <1>4, <2>3, OriginTyped DEF Opened
    <3>2. QED
      BY <1>2, <1>3, <3>1
  <2>4. QED
    BY <2>1, <2>2, <2>3
<1> DEFINE Settled(t) ==
      /\ session'[t].from[1] = "token" => session'[session'[t].from[2]].state = "revoked"
      /\ session'[t].from[1] = "challenge" =>
           /\ session'[t].from[2] <= factor'.handed
           /\ factor'.challenge.live => session'[t].from[2] # factor'.challenge.n

(* The session that is opened is the first from where it comes.              *)
<1>5. ASSUME NEW t \in Tokens, ~ Old(t), session'[t] # NoSession
      PROVE  /\ Settled(t)
             /\ \A u \in Tokens \ {t} : ~ Old(u) => session'[u] = NoSession
             /\ session'[t].from[1] \in {"token", "challenge"} =>
                  \A u \in Tokens : Old(u) => session[u].from # session'[t].from
  <2> DEFINE First ==
        /\ Settled(t)
        /\ \A u \in Tokens \ {t} : ~ Old(u) => session'[u] = NoSession
        /\ session'[t].from[1] \in {"token", "challenge"} =>
             \A u \in Tokens : Old(u) => session[u].from # session'[t].from
  <2>1. ASSUME NEW from, NEW verified, NEW late, NEW u \in Tokens,
               Opens(u, from, verified, late)
        PROVE  /\ session'[t].from = from
               /\ \A w \in Tokens \ {t} : ~ Old(w) => session'[w] = NoSession
    <3>1. t = u
      BY <1>5, <2>1 DEF Opens
    <3>2. QED
      BY <2>1, <3>1 DEF Opens, Session
  <2>2. ASSUME NEW op \in {"login", "change"}, NEW verified, NEW late, NEW u \in Tokens,
               Opens(u, << op, 0 >>, verified, late)
        PROVE  First
    <3>1. /\ session'[t].from = << op, 0 >>
          /\ \A w \in Tokens \ {t} : ~ Old(w) => session'[w] = NoSession
      BY <2>1, <2>2
    <3>2. session'[t].from[1] = op
      BY <3>1
    <3>3. QED
      BY <3>1, <3>2
  <2>3. ASSUME NEW code \in Codes, completeLogin(code), NEW u \in Tokens,
               Opens(u, << "challenge", factor.challenge.n >>, TRUE, FALSE)
        PROVE  First
    <3>1. /\ session'[t].from = << "challenge", factor.challenge.n >>
          /\ \A w \in Tokens \ {t} : ~ Old(w) => session'[w] = NoSession
      BY <2>1, <2>3
    <3>2. factor.challenge.live /\ ~ factor'.challenge.live
      BY <1>2, <2>3 DEF completeLogin
    <3>3. factor.challenge.n <= factor'.handed
      <4>1. factor.challenge.n <= factor.handed
        BY DEF Typed, Sound
      <4>2. QED
        BY <1>2, <1>3, <4>1
    <3>4. ASSUME NEW w \in Tokens, Old(w)
          PROVE  session[w].from # << "challenge", factor.challenge.n >>
      BY <3>2, <3>4 DEF Opened
    <3>5. QED
      BY <3>1, <3>2, <3>3, <3>4
  <2>4. ASSUME NEW r \in Requests, refreshToken(r), session'[req[r].t].state = "revoked",
               NEW u \in Tokens, NEW verified, NEW late,
               Opens(u, << "token", req[r].t >>, verified, late)
        PROVE  First
    <3>1. /\ session'[t].from = << "token", req[r].t >>
          /\ \A w \in Tokens \ {t} : ~ Old(w) => session'[w] = NoSession
      BY <2>1, <2>4
    <3>2. session[req[r].t].state = "active"
      BY <2>4 DEF refreshToken, Active
    <3>3. ASSUME NEW w \in Tokens, Old(w) PROVE session[w].from # << "token", req[r].t >>
      BY <3>2, <3>3 DEF Opened
    <3>4. QED
      BY <2>4, <3>1, <3>3
  <2>5. ~ OpensNone
    BY <1>5 DEF OpensNone
  <2> HIDE DEF First
  <2>6. First
    BY <2>2, <2>3, <2>4, <2>5, SessionStep
  <2>7. QED
    BY <2>6 DEF First
<1>6. OpenedOnce'
  <2> SUFFICES ASSUME NEW t \in Tokens, NEW u \in Tokens,
                      session'[t] # NoSession, session'[u] # NoSession,
                      session'[t].from = session'[u].from,
                      session'[t].from[1] \in {"token", "challenge"}
               PROVE  t = u
    BY DEF OpenedOnce
  <2>1. CASE Old(t) /\ Old(u)
    BY <1>4, <2>1 DEF Opened, OpenedOnce
  <2>2. CASE Old(t) /\ ~ Old(u)
    BY <1>4, <1>5, <2>2
  <2>3. CASE ~ Old(t) /\ Old(u)
    BY <1>4, <1>5, <2>3
  <2>4. CASE ~ Old(t) /\ ~ Old(u)
    BY <1>5, <2>4
  <2>5. QED
    BY <2>1, <2>2, <2>3, <2>4
<1>7. ASSUME NEW t \in Tokens, session'[t] # NoSession PROVE Settled(t)
  BY <1>4, <1>5, <1>7
<1>8. QED
  BY <1>6, <1>7 DEF Opened

-----------------------------------------------------------------------------
(* A session that was opened with the second factor, or is known not to be.  *)
Vouched(row) == row.verified \/ row.late

(* A change of password that read while the second factor was on, and is not *)
(* late, read a session that was opened with it.                             *)
Verified ==
  /\ VerifiedSinceEnabled
  /\ \A r \in Requests :
       req[r].op = "change"
       => /\ req[r].version <= factor.version
          /\ factor.enabled /\ req[r].version = factor.version => Vouched(session[req[r].t])

(* The second factor is switched with the version, and no session stays.     *)
LEMMA VersionStep ==
  ASSUME Typed, Presented, [Next]_vars
  PROVE  \/ factor'.version = factor.version /\ factor'.enabled = factor.enabled
         \/ factor'.version = factor.version + 1 /\ Active' = {}
<1> DEFINE Same == factor'.version = factor.version /\ factor'.enabled = factor.enabled
           Switched == factor'.version = factor.version + 1 /\ Active' = {}
<1>0. factor \in Factors /\ Sound(factor)
  BY DEF Typed
<1>1. ASSUME session' = Revoked(Active) PROVE Active' = {}
  <2>1. Sessions0 /\ Active \in SUBSET Active
    BY DEF Typed, Sessions0
  <2>2. ASSUME NEW t \in Tokens PROVE session'[t].state # "active"
    <3>1. CASE t \in Active
      BY <1>1, <2>1, <3>1, RevokedKeeps
    <3>2. CASE t \notin Active
      BY <1>1, <3>2 DEF Revoked, Active
    <3>3. QED
      BY <3>1, <3>2
  <2>3. QED
    BY <2>2 DEF Active
<1>2. ASSUME NEW r \in Requests, login(r) PROVE Same
  <2>1. CASE UNCHANGED factor
    BY <2>1
  <2>2. CASE ~ UNCHANGED factor
    <3> DEFINE f == [factor EXCEPT !.handed = factor.handed + 1]
               c == [n |-> factor.handed + 1, password |-> password, live |-> TRUE]
    <3>1. factor' = [f EXCEPT !.challenge = c]
      BY <1>2, <2>2 DEF login
    <3>2. f.version = factor.version /\ f.enabled = factor.enabled /\ DOMAIN f = DOMAIN factor
      BY <1>0 DEF Factors
    <3>3. "version" \in DOMAIN factor /\ "enabled" \in DOMAIN factor
      BY <1>0 DEF Factors
    <3> HIDE DEF f, c
    <3>4. QED
      BY <3>1, <3>2, <3>3
  <2>3. QED
    BY <2>1, <2>2
<1>3. ASSUME NEW code \in Codes, completeLogin(code) PROVE Same
  BY <1>0, <1>3, AcceptedTyped DEF completeLogin
<1>4. ASSUME NEW code \in Codes, confirmSetup(code) PROVE Switched
  BY <1>0, <1>1, <1>4, ConfirmedTyped DEF confirmSetup
<1>5. ASSUME Clear PROVE Switched
  BY <1>1, <1>5 DEF Clear, Cleared
<1>6. ASSUME startSetup PROVE Same
  BY <1>0, <1>6, SetupTyped
<1>7. ASSUME Fail PROVE Same
  BY <1>0, <1>7, FailedTyped DEF Fail
<1>8. ASSUME Pass PROVE Same
  BY <1>0, <1>8 DEF Pass, Factors
<1>9. ASSUME UNCHANGED factor PROVE Same
  BY <1>9
<1> HIDE DEF Same, Switched
<1>10. Same \/ Switched
  BY <1>2, <1>3, <1>4, <1>5, <1>6, <1>7, <1>8, <1>9
     DEF Next, ReadLogin, ReadRefresh, ReadChange, refreshToken, changeOwn, Abort, logout,
         disable, adminReset, Tick, vars
<1>11. QED
  BY <1>10 DEF Same, Switched

LEMMA VerifiedStep == Typed /\ Presented /\ Verified /\ [Next]_vars => Verified'
<1> SUFFICES ASSUME Typed, Presented, Verified, [Next]_vars PROVE Verified'
  OBVIOUS
<1>0. /\ factor.version \in Nat /\ factor'.version \in Nat
      /\ session' \in [Tokens -> {NoSession} \union Rows]
  <2>1. Typed'
    BY StepTyped
  <2>2. QED
    BY <2>1, SessionsAssumption DEF Typed, Factors
<1>1. \/ factor'.version = factor.version /\ factor'.enabled = factor.enabled
      \/ factor'.version = factor.version + 1 /\ Active' = {}
  BY VersionStep
<1>2. \A t \in Tokens : session[t] # NoSession => Keeps(session'[t], session[t])
  BY SessionStep
<1>3. VerifiedSinceEnabled'
  <2> SUFFICES ASSUME factor'.enabled, NEW t \in Tokens, session'[t].state = "active"
               PROVE  Vouched(session'[t])
    BY DEF VerifiedSinceEnabled, Active, Vouched
  <2>1. factor.enabled /\ factor'.version = factor.version
    BY <1>1 DEF Active
  <2>2. session'[t] # NoSession
    BY DEF NoSession
  <2>3. CASE session[t] # NoSession
    <3>1. Keeps(session'[t], session[t]) /\ session[t] \in Rows
      BY <1>2, <2>3 DEF Typed
    <3>2. session[t].state = "active"
      BY <3>1 DEF Keeps, Rows
    <3>3. Vouched(session[t])
      BY <2>1, <3>2 DEF Verified, VerifiedSinceEnabled, Active, Vouched
    <3>4. QED
      BY <3>1, <3>3 DEF Keeps, Vouched
  <2>4. CASE session[t] = NoSession
    <3>1. ~ OpensNone
      BY <2>2, <2>4 DEF OpensNone
    <3>2. ASSUME NEW from, NEW verified, NEW late, NEW u \in Tokens,
                 Opens(u, from, verified, late)
          PROVE  session'[t].verified = verified /\ session'[t].late = late
      <4>1. t = u
        BY <2>2, <2>4, <3>2 DEF Opens
      <4>2. QED
        BY <3>2, <4>1 DEF Opens, Session
    <3>3. ASSUME NEW u \in Tokens, Opens(u, << "challenge", factor.challenge.n >>, TRUE, FALSE)
          PROVE  Vouched(session'[t])
      BY <3>2, <3>3 DEF Vouched
    <3>4. ASSUME NEW r \in Requests, refreshToken(r), NEW u \in Tokens,
                 Opens(u, << "token", req[r].t >>, session[req[r].t].verified,
                       session[req[r].t].late)
          PROVE  Vouched(session'[t])
      <4>1. Vouched(session[req[r].t])
        BY <2>1, <3>4 DEF refreshToken, Verified, VerifiedSinceEnabled, Vouched
      <4> DEFINE verified == session[req[r].t].verified
                 late == session[req[r].t].late
      <4>2. Opens(u, << "token", req[r].t >>, verified, late)
        BY <3>4
      <4> HIDE DEF verified, late
      <4>3. session'[t].verified = verified /\ session'[t].late = late
        BY <3>2, <4>2
      <4>4. QED
        BY <4>1, <4>3 DEF Vouched, verified, late
    <3>5. ASSUME NEW r \in Requests, changeOwn(r), NEW u \in Tokens,
                 Opens(u, << "change", 0 >>, session[req[r].t].verified,
                       session[req[r].t].late \/ req[r].version # factor.version)
          PROVE  Vouched(session'[t])
      <4>1. req[r].version = factor.version => Vouched(session[req[r].t])
        BY <2>1, <3>5 DEF changeOwn, Finish, Verified
      <4> DEFINE verified == session[req[r].t].verified
                 late == session[req[r].t].late \/ req[r].version # factor.version
      <4>2. Opens(u, << "change", 0 >>, verified, late)
        BY <3>5
      <4> HIDE DEF verified, late
      <4>3. session'[t].verified = verified /\ session'[t].late = late
        BY <3>2, <4>2
      <4>4. QED
        BY <4>1, <4>3 DEF Vouched, verified, late
    <3>6. QED
      BY <2>1, <3>1, <3>3, <3>4, <3>5, SessionStep
  <2>5. QED
    BY <2>3, <2>4
<1>4. ASSUME NEW r \in Requests, req'[r].op = "change"
      PROVE  /\ req'[r].version <= factor'.version
             /\ factor'.enabled /\ req'[r].version = factor'.version
                  => Vouched(session'[req'[r].t])
  <2>1. CASE req'[r] = req[r]
    <3>1. /\ req[r].version <= factor.version
          /\ factor.enabled /\ req[r].version = factor.version => Vouched(session[req[r].t])
      BY <1>4, <2>1 DEF Verified
    <3>2. req[r].version \in Nat /\ req[r].t \in Tokens /\ session[req[r].t] \in Rows
      <4>1. req[r] \in Contexts /\ req[r].op = "change"
        BY <1>4, <2>1 DEF Typed
      <4>2. QED
        BY <4>1, SessionsAssumption DEF Contexts, Idle, Presented
    <3>3. session[req[r].t] # NoSession
      BY <3>2 DEF Rows, NoSession
    <3>4. Vouched(session[req[r].t]) => Vouched(session'[req[r].t])
      BY <1>2, <3>2, <3>3 DEF Keeps, Vouched
    <3>5. QED
      BY <1>0, <1>1, <2>1, <3>1, <3>2, <3>4
  <2>2. CASE session' = session /\ factor' = factor /\ Reads(req'[r])
    <3>1. req'[r].t \in Active /\ req'[r].version = factor.version
      BY <1>4, <2>2 DEF Reads
    <3>2. factor.enabled => Vouched(session[req'[r].t])
      BY <3>1 DEF Verified, VerifiedSinceEnabled, Vouched
    <3>3. QED
      BY <1>0, <2>2, <3>1, <3>2
  <2>3. QED
    BY <1>4, <2>1, <2>2, RequestStep
<1>5. QED
  BY <1>3, <1>4 DEF Verified

-----------------------------------------------------------------------------
(* A code that was accepted for the secret in use is not valid any more.     *)
Accounted ==
  /\ CodesOnce
  /\ ~ factor.enabled => spent = {}
  /\ \A code \in spent : IF code \in Recovery THEN code \notin factor.recovery
                                            ELSE code <= factor.last

LEMMA ValidIsNew ==
  ASSUME Typed, Accounted, NEW code \in Codes, Valid(code)
  PROVE  code \notin spent
<1>1. CASE code \in Recovery
  <2>1. code \notin (now - 1) .. (now + 1)
    BY <1>1, SessionsAssumption DEF Typed
  <2>2. QED
    BY <1>1, <2>1 DEF Valid, Accounted
<1>2. CASE code \notin Recovery
  <2>1. code \in Int /\ factor.last \in Int /\ code \notin factor.recovery
    BY <1>2, SessionsAssumption DEF Typed, Factors, Codes
  <2>2. code > factor.last
    BY <2>1 DEF Valid
  <2>3. QED
    BY <1>2, <2>1, <2>2 DEF Accounted
<1>3. QED
  BY <1>1, <1>2

(* What accepting a code does to the account.                                *)
LEMMA SpendStep ==
  ASSUME Typed, Accounted, NEW code \in Codes, Valid(code), Spend(code),
         factor'.enabled, factor'.last = After(code).last,
         factor'.recovery = After(code).recovery \/ (code \notin Recovery /\ spent = {})
  PROVE  Accounted'
<1>0. factor \in Factors
  BY DEF Typed
<1>1. CodesOnce'
  BY ValidIsNew DEF Accounted, CodesOnce, Spend
<1>2. CASE code \in Recovery
  <2>1. factor'.last = factor.last /\ factor'.recovery = factor.recovery \ {code}
    BY <1>0, <1>2 DEF After, Factors
  <2>2. QED
    BY <1>1, <1>2, <2>1 DEF Accounted, Spend
<1>3. CASE code \notin Recovery
  <2>1. factor'.last = code /\ (factor'.recovery = factor.recovery \/ spent = {})
    BY <1>0, <1>3 DEF After, Factors
  <2>2. code \in Int /\ factor.last \in Int /\ code > factor.last
    BY <1>0, <1>3, SessionsAssumption DEF Valid, Factors, Codes
  <2>3. ASSUME NEW c \in spent, c \notin Recovery PROVE c <= factor'.last
    <3>1. c \in Int /\ c <= factor.last
      BY <2>3, SessionsAssumption DEF Accounted, Typed, Codes
    <3>2. QED
      BY <2>1, <2>2, <3>1
  <2>4. ASSUME NEW c \in spent', c \notin Recovery PROVE c <= factor'.last
    BY <2>1, <2>2, <2>3, <2>4 DEF Spend
  <2>5. ASSUME NEW c \in spent', c \in Recovery PROVE c \notin factor'.recovery
    BY <1>3, <2>1, <2>5 DEF Accounted, Spend
  <2>6. QED
    BY <1>1, <2>4, <2>5 DEF Accounted
<1>4. QED
  BY <1>2, <1>3

LEMMA AccountedStep == Typed /\ Presented /\ Accounted /\ [Next]_vars => Accounted'
<1> SUFFICES ASSUME Typed, Presented, Accounted, [Next]_vars PROVE Accounted'
  OBVIOUS
<1>0. factor \in Factors /\ Sound(factor)
  BY DEF Typed
<1>1. ASSUME UNCHANGED << spent, replayed >>, factor'.enabled = factor.enabled,
             factor'.last = factor.last, factor'.recovery = factor.recovery
      PROVE  Accounted'
  BY <1>1 DEF Accounted, CodesOnce
<1>2. ASSUME UNCHANGED << spent, replayed, factor >> PROVE Accounted'
  BY <1>1, <1>2
<1>3. ASSUME NEW r \in Requests, login(r) PROVE Accounted'
  <2>1. CASE UNCHANGED factor
    BY <1>2, <1>3, <2>1 DEF login
  <2>2. CASE ~ UNCHANGED factor
    <3> DEFINE f == [factor EXCEPT !.handed = factor.handed + 1]
               c == [n |-> factor.handed + 1, password |-> password, live |-> TRUE]
    <3>1. factor' = [f EXCEPT !.challenge = c]
      BY <1>3, <2>2 DEF login
    <3>2. /\ f.enabled = factor.enabled /\ f.last = factor.last
          /\ f.recovery = factor.recovery /\ DOMAIN f = DOMAIN factor
      BY <1>0 DEF Factors
    <3>3. {"enabled", "last", "recovery"} \subseteq DOMAIN factor
      BY <1>0 DEF Factors
    <3> HIDE DEF f, c
    <3>4. /\ factor'.enabled = factor.enabled /\ factor'.last = factor.last
          /\ factor'.recovery = factor.recovery
      BY <3>1, <3>2, <3>3
    <3>5. QED
      BY <1>1, <1>3, <3>4 DEF login
  <2>3. QED
    BY <2>1, <2>2
<1>4. ASSUME NEW code \in Codes, completeLogin(code) PROVE Accounted'
  BY <1>0, <1>4, AcceptedTyped, SpendStep DEF completeLogin
<1>5. ASSUME NEW code \in Codes, confirmSetup(code) PROVE Accounted'
  BY <1>0, <1>5, ConfirmedTyped, SpendStep DEF confirmSetup, Accounted
<1>6. ASSUME Clear, UNCHANGED replayed PROVE Accounted'
  BY <1>6 DEF Clear, Accounted, CodesOnce
<1>7. ASSUME NEW code \in Codes, disable(code) PROVE Accounted'
  <2>1. ~ replayed'
    BY <1>7, ValidIsNew DEF disable, Accounted, CodesOnce
  <2>2. QED
    BY <1>7, <2>1 DEF disable, Clear, Accounted, CodesOnce
<1>8. CASE startSetup
  BY <1>8 DEF startSetup, Accounted, CodesOnce
<1>9. CASE Fail
  BY <1>0, <1>1, <1>9, FailedTyped DEF Fail
<1>10. CASE Pass
  <2>1. /\ factor'.enabled = factor.enabled /\ factor'.last = factor.last
        /\ factor'.recovery = factor.recovery
    BY <1>0, <1>10 DEF Pass, Factors
  <2>2. QED
    BY <1>1, <1>10, <2>1 DEF Pass
<1>11. QED
  BY <1>2, <1>3, <1>4, <1>5, <1>6, <1>7, <1>8, <1>9, <1>10
     DEF Next, ReadLogin, ReadRefresh, ReadChange, refreshToken, changeOwn, Abort, logout,
         adminReset, Tick, vars

-----------------------------------------------------------------------------
(* The inductive invariant.                                                  *)
Inductive == Typed /\ Presented /\ Opened /\ Verified /\ Accounted

LEMMA InductiveInit == Init => Inductive
<1> SUFFICES ASSUME Init PROVE Inductive
  OBVIOUS
<1>1. Opened /\ Verified /\ Accounted
  BY DEF Init, Opened, OpenedOnce, Verified, VerifiedSinceEnabled, Accounted, CodesOnce,
         Cleared, Idle
<1>2. QED
  BY <1>1, InitTyped DEF Inductive

LEMMA InductiveStep == Inductive /\ [Next]_vars => Inductive'
BY StepTyped, PresentedStep, OpenedStep, VerifiedStep, AccountedStep DEF Inductive

(* A refresh token has one successor and a challenge opens one session, for  *)
(* every number of clients that present them, in every order of the steps.   *)
THEOREM Opening == Spec => []OpenedOnce
<1>1. Inductive => OpenedOnce
  BY DEF Inductive, Opened
<1>2. QED
  BY <1>1, InductiveInit, InductiveStep, PTL DEF Spec

(* No code is accepted twice for one secret.                                 *)
THEOREM Acceptance == Spec => []CodesOnce
<1>1. Inductive => CodesOnce
  BY DEF Inductive, Accounted
<1>2. QED
  BY <1>1, InductiveInit, InductiveStep, PTL DEF Spec

(* While the second factor is on, every session was opened with it or by a   *)
(* change of password that was read before.                                  *)
THEOREM Verification == Spec => []VerifiedSinceEnabled
<1>1. Inductive => VerifiedSinceEnabled
  BY DEF Inductive, Verified
<1>2. QED
  BY <1>1, InductiveInit, InductiveStep, PTL DEF Spec
=============================================================================
