-------------------------- MODULE ConnectionProofs --------------------------
(***************************************************************************)
(* Proofs about Connection: types, the authentication invariants, the      *)
(* bound on wrong attempts at a temporary password.                        *)
(***************************************************************************)
EXTENDS Connection, FiniteSets, FiniteSetTheorems, TLAPS

(* The strengthening, field by field of one connection: what a handler may *)
(* rely on when it resumes, authorized or not, e being the keys for which  *)
(* a code was accepted.                                                    *)
Vouched == {"Click", "SwitchSides"}

\* The phases in which a connection that is not authorized may log in again.
Retryable(l) ==
    \/ l.phase \in {"new", "open", "verify", "accepted", "stored"}
    \/ l.phase = "prepare" /\ l.caller = "ask"

Logon(l) == l.phase = "logon" \/ (l.phase = "prepare" /\ l.caller # "ask")

LocalInv(l, auth, e) ==
    /\ l.phase \in {"new", "verify", "accepted", "stored", "prepare"} => ~auth
    /\ l.phase \in {"accepted", "stored"} => l.pw \in Nat /\ l.primary = "Temporary"
    /\ l.phase \in {"verify", "accepted", "stored"} => l.caller = "login"
    /\ l.phase = "logon" => l.caller # "ask"
    /\ ~auth /\ Retryable(l) => l.primary \notin Vouched
    /\ ~auth /\ l.phase = "logon" /\ l.primary \in Vouched
          => l.fromSwitch \/ l.twoFa # "pending"
    /\ l.fromSwitch => l.primary \in Vouched
    /\ l.twoFa = "cleared" \/ (auth /\ l.twoFa # "off")
          => l.second # "None" \/ l.primary \in Vouched
    /\ l.phase = "prepare" /\ l.caller # "ask" /\ l.twoFa = "pending"
          => l.second = "Totp" \/ l.fromSwitch
    /\ auth \/ Logon(l) => l.primary # "None" \/ (l.second = "Totp" /\ l.twoFa # "pending")
    /\ l.phase \in {"logon", "prepare"} /\ l.caller = "2fa" => l.key \in e

IInv ==
    /\ TypeOK
    /\ \A c \in Conns : LocalInv(conn[c], Authorized(c), earned)
    /\ SecondFactorEarned

-----------------------------------------------------------------------------
(* Records: what an update of struct Connection's fields leaves. *)

\* Idle and Ended only touch the phase and what a returning handler forgets.
LEMMA IdleLocal ==
    ASSUME NEW l \in Local
    PROVE  Idle(l) \in Local /\ Ended(l) \in Local
<1> DEFINE returns(p) == [[[l EXCEPT !.phase = p] EXCEPT !.pw = Empty] EXCEPT !.caller = "login"]
<1>1. ASSUME NEW p \in Phases PROVE returns(p) \in Local
  <2> DEFINE l1 == [l EXCEPT !.phase = p]
             l2 == [l1 EXCEPT !.pw = Empty]
  <2>1. l1 \in Local  BY DEF Local
  <2> HIDE DEF l1
  <2>2. l2 \in Local  BY <2>1 DEF Local, Passwords
  <2> HIDE DEF l2
  <2>3. [l2 EXCEPT !.caller = "login"] \in Local  BY <2>2 DEF Local
  <2> QED  BY <2>3 DEF l1, l2
<1>2. Idle(l) = returns("open") /\ Ended(l) = returns("ended")
  BY DEF Idle, Ended
<1> HIDE DEF returns
<1> QED  BY <1>1, <1>2 DEF Phases

\* What a login request leaves in the connection.
LEMMA RequestedLocal ==
    ASSUME NEW c \in Conns, conn[c] \in Local, tempPw \in Nat, NEW known \in BOOLEAN,
           NEW r, r.key \in Keys, r.pw \in Passwords, r.scope \in ScopeNames
    PROVE  Requested(c, r, known) \in Local
<1> DEFINE l0 == conn[c]
           l1 == [l0 EXCEPT !.key = r.key]
           l2 == [l1 EXCEPT !.pw = r.pw]
           l3 == [l2 EXCEPT !.scope = r.scope]
           l4 == [l3 EXCEPT !.twoFa = IF known THEN "cleared" ELSE l0.twoFa]
           l5 == [l4 EXCEPT !.second = IF known THEN "TrustedDevice" ELSE l0.second]
           l6 == [l5 EXCEPT !.cmUp = l0.cmUp \/ r.scope # "OsTerminal"]
           l7 == [l6 EXCEPT !.caller = "login"]
<1>0. /\ l0.twoFa \in {"off", "pending", "cleared"}
      /\ l0.second \in {"None", "Totp", "TrustedDevice"}
  BY DEF Local
<1>1. l1 \in Local  BY DEF Local, AllKeys
<1> HIDE DEF l1
<1>2. l2 \in Local  BY <1>1 DEF Local
<1> HIDE DEF l2
<1>3. l3 \in Local  BY <1>2 DEF Local
<1> HIDE DEF l3
<1>4. l4 \in Local  BY <1>0, <1>3 DEF Local
<1> HIDE DEF l4
<1>5. l5 \in Local  BY <1>0, <1>4 DEF Local
<1> HIDE DEF l5
<1>6. l6 \in Local  BY <1>5 DEF Local
<1> HIDE DEF l6
<1>7. l7 \in Local  BY <1>6 DEF Local
<1>8. Requested(c, r, known) = l7
  BY DEF Requested, l1, l2, l3, l4, l5, l6
<1> QED  BY <1>7, <1>8

\* prepare_terminal_login_for_authorization changes two flags.
LEMMA PreparedLocal ==
    ASSUME NEW c \in Conns, conn[c] \in Local
    PROVE  Prepared(c) \in Local
<1> DEFINE l1 == [conn[c] EXCEPT !.token = @ \/ conn[c].scope \in {"Terminal", "OsTerminal"}]
           l2 == [l1 EXCEPT !.cmUp = conn[c].cmUp \/ (conn[c].scope = "OsTerminal" /\ ~conn[c].token)]
<1>1. l1 \in Local  BY DEF Local
<1> HIDE DEF l1
<1>2. l2 \in Local  BY <1>1 DEF Local
<1>3. Prepared(c) = l2  BY DEF Prepared, l1
<1> QED  BY <1>2, <1>3

-----------------------------------------------------------------------------
(* The session map *)

\* A map of sessions in which the second factor is remembered only where a
\* code was accepted since the last login with the temporary password.
Sound(s) == s \in [AllKeys -> Session] /\ \A k \in AllKeys : s[k].tfa => k \in verified

\* The operations on SESSIONS never invent a second factor.
LEMMA SessionsSound ==
    ASSUME IInv, NEW c \in Conns
    PROVE  /\ Sound(sessions) /\ Sound(Retained) /\ Sound(Touched(c, sessions))
           /\ \A s : Sound(s) => Sound(CheckRemoveSession(c, s))
           /\ \A s : Sound(s) /\ conn[c].pw \in Nat => Sound(WithPassword(s, conn[c].key, conn[c].pw))
<1> USE DEF Sound
<1>0. NoSession \in Session /\ ~NoSession.tfa
  BY DEF NoSession, Session
<1>1. sessions \in [AllKeys -> Session] /\ \A k \in AllKeys : sessions[k].tfa => k \in verified
  BY DEF IInv, TypeOK, SecondFactorEarned
<1>2. authed[c].key \in AllKeys /\ conn[c].key \in AllKeys
  BY DEF IInv, TypeOK, AuthedConn, Local
<1>3. Sound(Retained)
  BY <1>0, <1>1 DEF Retained
<1>4. Sound(Touched(c, sessions))
  BY <1>1, <1>2 DEF Touched, Session
<1>5. ASSUME NEW s, Sound(s) PROVE Sound(CheckRemoveSession(c, s))
  BY <1>0, <1>2, <1>5 DEF CheckRemoveSession
<1>6. ASSUME NEW s, Sound(s), conn[c].pw \in Nat
      PROVE  Sound(WithPassword(s, conn[c].key, conn[c].pw))
  <2> DEFINE e == [pw |-> conn[c].pw, tfa |-> FALSE, present |-> TRUE,
                   live |-> IF s[conn[c].key].present THEN s[conn[c].key].live ELSE TRUE]
  <2>1. e \in Session /\ ~e.tfa  BY <1>2, <1>6 DEF Session
  <2> HIDE DEF e
  <2>2. Sound([s EXCEPT ![conn[c].key] = e])  BY <1>2, <1>6, <2>1
  <2> QED  BY <2>2 DEF WithPassword, e
<1> QED  BY <1>1, <1>3, <1>4, <1>5, <1>6

\* Storing a map keeps the types.
LEMMA SetSessionsTypes ==
    ASSUME IInv, NEW s, Sound(s), SetSessions(s)
    PROVE  sessions' = s /\ sharesClock' \in [Conns -> BOOLEAN]
BY DEF SetSessions, Sound, IInv, TypeOK, AuthedConn, Session

-----------------------------------------------------------------------------
(* One step of one connection *)

\* The types of the shared state.
SharedOK ==
    /\ sharesClock \in [Conns -> BOOLEAN]
    /\ sessions \in [AllKeys -> Session]
    /\ tempPw \in Nat
    /\ tempState \in [pw : Nat, failures : Nat]
    /\ trusted \subseteq Peers \cup {NoKey}
    /\ switchUuid \in [Peers -> {"none", "fresh", "stale"}]
    /\ earned \subseteq AllKeys /\ verified \subseteq AllKeys
    /\ inserted \in Nat /\ switched \in Nat /\ misses \in Nat

\* A step that changes only connection c, and leaves it in order, keeps IInv.
LEMMA ConnStep ==
    ASSUME IInv, NEW c \in Conns, NEW l \in Local, conn' = [conn EXCEPT ![c] = l],
           authed' \in [Conns -> AuthedConn], \A d \in Conns \ {c} : authed'[d] = authed[d],
           earned \subseteq earned', LocalInv(l, Authorized(c)', earned'),
           SharedOK', SecondFactorEarned'
    PROVE  IInv'
<1>1. conn \in [Conns -> Local]
  BY DEF IInv, TypeOK
<1>2. conn' \in [Conns -> Local] /\ conn'[c] = l /\ \A d \in Conns \ {c} : conn'[d] = conn[d]
  BY <1>1
<1>3. TypeOK'
  BY <1>2 DEF TypeOK, SharedOK
<1>4. ASSUME NEW d \in Conns PROVE LocalInv(conn'[d], Authorized(d)', earned')
  <2>1. CASE d = c  BY <1>2, <2>1
  <2>2. CASE d # c
    <3>1. LocalInv(conn[d], Authorized(d), earned)  BY DEF IInv
    <3>2. conn'[d] = conn[d] /\ Authorized(d)' = Authorized(d)
      BY <1>2, <2>2 DEF Authorized
    <3>3. LocalInv(conn[d], Authorized(d), earned')
      BY <3>1 DEF LocalInv
    <3> QED  BY <3>2, <3>3
  <2> QED  BY <2>1, <2>2
<1> QED  BY <1>3, <1>4 DEF IInv

\* The common case: nothing shared changes.
LEMMA OwnStep ==
    ASSUME IInv, NEW c \in Conns, NEW l \in Local, conn' = [conn EXCEPT ![c] = l],
           LocalInv(l, Authorized(c), earned), UNCHANGED <<authed, shared, history>>
    PROVE  IInv'
<1>1. Authorized(c)' = Authorized(c)
  BY DEF Authorized
<1>2. SharedOK' /\ SecondFactorEarned' /\ authed' \in [Conns -> AuthedConn]
  BY DEF IInv, TypeOK, SharedOK, SecondFactorEarned, shared, history
<1>3. earned' = earned
  BY DEF history
<1> QED  BY <1>1, <1>2, <1>3, ConnStep

\* A step of c that also stores a sound map of sessions.
LEMMA SessionStep ==
    ASSUME IInv, NEW c \in Conns, NEW l \in Local, conn' = [conn EXCEPT ![c] = l],
           LocalInv(l, Authorized(c), earned), NEW s, Sound(s), SetSessions(s),
           UNCHANGED <<authed, tempPw, tempState, trusted, switchUuid, history>>
    PROVE  IInv'
<1>1. Authorized(c)' = Authorized(c) /\ UNCHANGED <<earned, verified>>
  BY DEF Authorized, history
<1>2. sessions' = s /\ sharesClock' \in [Conns -> BOOLEAN]
  BY SetSessionsTypes
<1>3. SharedOK' /\ authed' \in [Conns -> AuthedConn]
  BY <1>2 DEF IInv, TypeOK, SharedOK, Sound, history
<1>4. SecondFactorEarned'
  BY <1>1, <1>2 DEF IInv, SecondFactorEarned, Sound
<1> QED  BY <1>1, <1>3, <1>4, ConnStep

-----------------------------------------------------------------------------
(* LoginRequest *)

\* What is known of one connection.
LEMMA ConnFacts ==
    ASSUME IInv, NEW c \in Conns
    PROVE  /\ conn[c] \in Local
           /\ LocalInv(conn[c], Authorized(c), earned)
           /\ Authorized(c) \in BOOLEAN
BY DEF IInv, TypeOK, Authorized

\* The connection after a login request is not authorized, nobody vouched for
\* it, and if its second factor is settled then by a trusted device or a code.
LEMMA LoginFacts ==
    ASSUME IInv, NEW c \in Conns, NEW r \in Requests, NEW known \in BOOLEAN,
           LoginStarts(c, r, known), NEW q, q = Requested(c, r, known)
    PROVE  /\ q \in Local /\ ~Authorized(c)
           /\ q.phase = "open" /\ q.caller = "login" /\ q.pw = r.pw
           /\ q.primary \notin Vouched /\ ~q.fromSwitch
           /\ q.twoFa = "cleared" => q.second # "None"
<1>1. conn[c] \in Local /\ LocalInv(conn[c], FALSE, earned) /\ ~Authorized(c)
      /\ conn[c].phase = "open"
  BY ConnFacts DEF LoginStarts
<1>2. r.key \in Keys /\ r.pw \in Passwords /\ r.scope \in ScopeNames /\ tempPw \in Nat
  BY OfferedNamed, ScopesNamed DEF Requests, Passwords, IInv, TypeOK
<1>3. q \in Local
  BY <1>1, <1>2, RequestedLocal
<1>4. conn[c].primary \notin Vouched /\ ~conn[c].fromSwitch
      /\ (conn[c].twoFa = "cleared" => conn[c].second # "None")
  BY <1>1 DEF LocalInv, Retryable, Local
<1>5. /\ q.phase = "open" /\ q.caller = "login" /\ q.pw = r.pw
      /\ q.primary = conn[c].primary /\ q.fromSwitch = conn[c].fromSwitch
      /\ q.twoFa = IF known THEN "cleared" ELSE conn[c].twoFa
      /\ q.second = IF known THEN "TrustedDevice" ELSE conn[c].second
  BY <1>1 DEF Requested, Local
<1> QED  BY <1>1, <1>3, <1>4, <1>5

\* Every way a login request can leave the connection is in order.
LEMMA LoginOutcomes ==
    ASSUME NEW q \in Local, NEW e,
           q.phase = "open", q.caller = "login", q.primary \notin Vouched, ~q.fromSwitch,
           q.twoFa = "cleared" => q.second # "None"
    PROVE  /\ LocalInv(Ended(q), FALSE, e) /\ Ended(q) \in Local
           /\ LocalInv(Idle(q), FALSE, e) /\ Idle(q) \in Local
           /\ LET l == [Idle(q) EXCEPT !.asked = TRUE] IN LocalInv(l, FALSE, e) /\ l \in Local
           /\ LET l == [Idle(q) EXCEPT !.primary = "Temporary"]
              IN  LocalInv(l, FALSE, e) /\ l \in Local
           /\ LET l == [q EXCEPT !.phase = "verify"] IN LocalInv(l, FALSE, e) /\ l \in Local
           /\ LET l == [q EXCEPT !.phase = "prepare", !.caller = "ask"]
              IN  LocalInv(l, FALSE, e) /\ l \in Local
           /\ LET l == [q EXCEPT !.phase = "logon", !.primary = "Temporary"]
              IN  LocalInv(l, FALSE, e) /\ l \in Local
<1> USE DEF LocalInv, Retryable, Logon, Vouched
<1> DEFINE i == Idle(q)
           d == Ended(q)
<1>1. i \in Local /\ d \in Local
  BY IdleLocal
<1>2. /\ i.phase = "open" /\ d.phase = "ended" /\ i.caller = "login" /\ d.caller = "login"
      /\ i.primary = q.primary /\ i.fromSwitch = q.fromSwitch /\ i.twoFa = q.twoFa
      /\ i.second = q.second
      /\ d.primary = q.primary /\ d.fromSwitch = q.fromSwitch /\ d.twoFa = q.twoFa
      /\ d.second = q.second
  BY DEF Idle, Ended, Local
<1> HIDE DEF i, d
<1>3. LocalInv(d, FALSE, e) /\ LocalInv(i, FALSE, e)
  BY <1>2
<1>4. /\ [i EXCEPT !.asked = TRUE] \in Local
      /\ [i EXCEPT !.primary = "Temporary"] \in Local
      /\ [q EXCEPT !.phase = "verify"] \in Local
  BY <1>1 DEF Local, Phases
<1>5. /\ LocalInv([i EXCEPT !.asked = TRUE], FALSE, e)
      /\ LocalInv([i EXCEPT !.primary = "Temporary"], FALSE, e)
  BY <1>1, <1>2 DEF Local
<1>6. LocalInv([q EXCEPT !.phase = "verify"], FALSE, e)
  BY DEF Local
<1>7. LET l == [q EXCEPT !.phase = "prepare", !.caller = "ask"]
      IN  LocalInv(l, FALSE, e) /\ l \in Local
  <2> DEFINE l1 == [q EXCEPT !.phase = "prepare"]
             l2 == [l1 EXCEPT !.caller = "ask"]
  <2>1. l1 \in Local  BY DEF Local, Phases
  <2>2. l2 \in Local  BY <2>1 DEF Local
  <2>3. l2 = [q EXCEPT !.phase = "prepare", !.caller = "ask"]  OBVIOUS
  <2>4. LocalInv(l2, FALSE, e)  BY DEF Local
  <2> QED  BY <2>2, <2>3, <2>4
<1>8. LET l == [q EXCEPT !.phase = "logon", !.primary = "Temporary"]
      IN  LocalInv(l, FALSE, e) /\ l \in Local
  <2> DEFINE l1 == [q EXCEPT !.phase = "logon"]
             l2 == [l1 EXCEPT !.primary = "Temporary"]
  <2>1. l1 \in Local  BY DEF Local, Phases
  <2>2. l2 \in Local  BY <2>1 DEF Local
  <2>3. l2 = [q EXCEPT !.phase = "logon", !.primary = "Temporary"]  OBVIOUS
  <2>4. LocalInv(l2, FALSE, e)  BY DEF Local
  <2> QED  BY <2>2, <2>3, <2>4
<1> QED  BY <1>1, <1>3, <1>4, <1>5, <1>6, <1>7, <1>8 DEF i, d

\* The verdicts that change nothing but the connection.
LEMMA LoginLocalSteps ==
    ASSUME IInv, NEW c \in Conns, LoginRefused(c) \/ LoginNotReady(c) \/ LoginByClick(c)
    PROVE  IInv'
<1>1. PICK r \in Requests, known \in BOOLEAN :
         /\ LoginStarts(c, r, known)
         /\ LET q == Requested(c, r, known)
            IN  \/ conn' = [conn EXCEPT ![c] = Ended(q)]
                \/ conn' = [conn EXCEPT ![c] = Idle(q)]
                \/ conn' = [conn EXCEPT ![c] = [q EXCEPT !.phase = "prepare", !.caller = "ask"]]
                \/ conn' = [conn EXCEPT ![c] = [Idle(q) EXCEPT !.asked = TRUE]]
  BY Zenon DEF LoginRefused, LoginNotReady, LoginByClick
<1>2. UNCHANGED <<authed, shared, history>>
  BY DEF LoginRefused, LoginNotReady, LoginByClick
<1> DEFINE q == Requested(c, r, known)
<1> HIDE DEF q
<1>3. /\ q \in Local /\ ~Authorized(c) /\ q.phase = "open" /\ q.caller = "login"
      /\ q.primary \notin Vouched /\ ~q.fromSwitch
      /\ (q.twoFa = "cleared" => q.second # "None")
  BY <1>1, LoginFacts DEF q
<1>4. PICK l \in Local : LocalInv(l, FALSE, earned) /\ conn' = [conn EXCEPT ![c] = l]
  BY <1>1, <1>3, LoginOutcomes, Zenon DEF q
<1>5. LocalInv(l, Authorized(c), earned)
  BY <1>3, <1>4 DEF LocalInv
<1> QED  BY <1>2, <1>4, <1>5, OwnStep

\* The verdicts that purge SESSIONS as well.
LEMMA LoginSessionSteps ==
    ASSUME IInv, NEW c \in Conns, LoginRecent(c) \/ LoginEmpty(c) \/ LoginPassword(c)
    PROVE  IInv'
<1>1. PICK r \in Requests, known \in BOOLEAN :
         /\ LoginStarts(c, r, known)
         /\ LET q == Requested(c, r, known)
            IN  \/ conn' = [conn EXCEPT ![c] = [q EXCEPT !.phase = "logon", !.primary = "Temporary"]]
                \/ conn' = [conn EXCEPT ![c] = [Idle(q) EXCEPT !.primary = "Temporary"]]
                \/ conn' = [conn EXCEPT ![c] = [q EXCEPT !.phase = "prepare", !.caller = "ask"]]
                \/ conn' = [conn EXCEPT ![c] = [Idle(q) EXCEPT !.asked = TRUE]]
                \/ conn' = [conn EXCEPT ![c] = [q EXCEPT !.phase = "verify"]]
                \/ conn' = [conn EXCEPT ![c] = Idle(q)]
  <2>1. CASE LoginRecent(c)  BY <2>1, ZenonT(30) DEF LoginRecent
  <2>2. CASE LoginEmpty(c)  BY <2>2, ZenonT(30) DEF LoginEmpty
  <2>3. CASE LoginPassword(c)  BY <2>3, ZenonT(30) DEF LoginPassword
  <2> QED  BY <2>1, <2>2, <2>3
<1>2. /\ SetSessions(Retained)
      /\ UNCHANGED <<authed, tempPw, tempState, trusted, switchUuid, history>>
  BY DEF LoginRecent, LoginEmpty, LoginPassword
<1> DEFINE q == Requested(c, r, known)
<1> HIDE DEF q
<1>3. /\ q \in Local /\ ~Authorized(c) /\ q.phase = "open" /\ q.caller = "login"
      /\ q.primary \notin Vouched /\ ~q.fromSwitch
      /\ (q.twoFa = "cleared" => q.second # "None")
  BY <1>1, LoginFacts DEF q
<1>4. PICK l \in Local : LocalInv(l, FALSE, earned) /\ conn' = [conn EXCEPT ![c] = l]
  BY <1>1, <1>3, LoginOutcomes, Zenon DEF q
<1>5. LocalInv(l, Authorized(c), earned)
  BY <1>3, <1>4 DEF LocalInv
<1>6. Sound(Retained)
  BY SessionsSound
<1> QED  BY <1>2, <1>4, <1>5, <1>6, SessionStep

-----------------------------------------------------------------------------
(* Steps of a connection that change only its own fields *)

LEMMA OwnSteps ==
    ASSUME IInv, NEW c \in Conns,
           \/ Open(c) \/ OpenRefused(c) \/ ValidateTemporary(c) \/ ValidatePermanent(c)
           \/ PrepareFails(c) \/ PreparedAsk(c) \/ CmAuthorize(c) \/ Disconnect(c)
           \/ EnterTunnel(c)
    PROVE  IInv'
<1> USE DEF LocalInv, Retryable, Logon, Vouched
<1> DEFINE l0 == conn[c]
           a == Authorized(c)
<1>0. l0 \in Local /\ LocalInv(l0, a, earned) /\ conn \in [Conns -> Local] /\ tempPw \in Nat
  BY ConnFacts DEF IInv, TypeOK
<1>u. UNCHANGED <<authed, shared, history>>
  BY DEF Open, OpenRefused, ValidateTemporary, ValidatePermanent, PrepareFails, PreparedAsk,
         CmAuthorize, Disconnect, EnterTunnel
<1> SUFFICES ASSUME TRUE
             PROVE  \E l \in Local : LocalInv(l, a, earned) /\ conn' = [conn EXCEPT ![c] = l]
  BY <1>u, OwnStep
<1> HIDE DEF a
<1>1. CASE Open(c)
  <2>1. PICK v \in Require2fa :
           conn' = [conn EXCEPT ![c] = [l0 EXCEPT !.phase = "open", !.twoFa = v]]
    BY <1>1 DEF Open
  <2> DEFINE l1 == [l0 EXCEPT !.phase = "open"]
             l == [l1 EXCEPT !.twoFa = v]
  <2>2. l1 \in Local  BY <1>0 DEF Local, Phases
  <2>3. l \in Local  BY <2>2, Require2faNamed DEF Local
  <2>4. LocalInv(l, a, earned)  BY <1>0, <1>1, Require2faNamed DEF Open, Local
  <2>5. conn' = [conn EXCEPT ![c] = l]  BY <2>1
  <2> QED  BY <2>3, <2>4, <2>5
<1>2. CASE OpenRefused(c)
  <2> DEFINE l == [l0 EXCEPT !.phase = "gone"]
  <2>1. l \in Local  BY <1>0 DEF Local, Phases
  <2>2. LocalInv(l, a, earned)  BY <1>0 DEF Local
  <2>3. conn' = [conn EXCEPT ![c] = l]  BY <1>0, <1>2 DEF OpenRefused
  <2> QED  BY <2>1, <2>2, <2>3
<1>3. CASE ValidateTemporary(c)
  <2> DEFINE l1 == [l0 EXCEPT !.phase = "accepted"]
             l == [l1 EXCEPT !.primary = "Temporary"]
  <2>1. l1 \in Local  BY <1>0 DEF Local, Phases
  <2>2. l \in Local  BY <2>1 DEF Local
  <2>3. LocalInv(l, a, earned)  BY <1>0, <1>3 DEF ValidateTemporary, Local
  <2>4. conn' = [conn EXCEPT ![c] = l]  BY <1>3 DEF ValidateTemporary
  <2> QED  BY <2>2, <2>3, <2>4
<1>4. CASE ValidatePermanent(c)
  <2>1. CASE conn' = [conn EXCEPT ![c] = [l0 EXCEPT !.phase = "logon", !.primary = "Permanent"]]
    <3> DEFINE l1 == [l0 EXCEPT !.phase = "logon"]
               l == [l1 EXCEPT !.primary = "Permanent"]
    <3>1. l1 \in Local  BY <1>0 DEF Local, Phases
    <3>2. l \in Local  BY <3>1 DEF Local
    <3>3. LocalInv(l, a, earned)  BY <1>0, <1>4 DEF ValidatePermanent, Local
    <3> QED  BY <2>1, <3>2, <3>3
  <2>2. CASE conn' = [conn EXCEPT ![c] = [Idle(l0) EXCEPT !.primary = "Permanent"]]
    <3> DEFINE l == [Idle(l0) EXCEPT !.primary = "Permanent"]
    <3>1. l \in Local  BY <1>0, IdleLocal DEF Local
    <3>2. LocalInv(l, a, earned)  BY <1>0, <1>4 DEF ValidatePermanent, Local, Idle
    <3> QED  BY <2>2, <3>1, <3>2
  <2> QED  BY <1>4, <2>1, <2>2 DEF ValidatePermanent
<1>5. CASE PrepareFails(c)
  <2>1. Ended(l0) \in Local  BY <1>0, IdleLocal
  <2>2. LocalInv(Ended(l0), a, earned)  BY <1>0 DEF Ended, Local
  <2> QED  BY <1>5, <2>1, <2>2 DEF PrepareFails
<1>6. CASE PreparedAsk(c)
  <2> DEFINE p == Prepared(c)
             l == [Idle(p) EXCEPT !.asked = TRUE]
  <2>1. p \in Local  BY <1>0, PreparedLocal
  <2>2. /\ p.phase = l0.phase /\ p.primary = l0.primary /\ p.fromSwitch = l0.fromSwitch
        /\ p.twoFa = l0.twoFa /\ p.second = l0.second
    BY <1>0 DEF Prepared, Local
  <2> HIDE DEF p
  <2>3. Idle(p) \in Local  BY <2>1, IdleLocal
  <2>4. l \in Local  BY <1>0, <2>3 DEF Local
  <2>5. LocalInv(l, a, earned)  BY <1>0, <1>6, <2>1, <2>2 DEF PreparedAsk, Local, Idle
  <2> QED  BY <1>6, <2>4, <2>5 DEF PreparedAsk, p
<1>7. CASE CmAuthorize(c)
  <2> DEFINE l1 == [l0 EXCEPT !.phase = "logon"]
             l2 == [l1 EXCEPT !.caller = "cm"]
             l3 == [l2 EXCEPT !.primary = "Click"]
             l == [l3 EXCEPT !.twoFa = IF l0.twoFa = "pending" THEN "cleared" ELSE l0.twoFa]
  <2>1. l1 \in Local  BY <1>0 DEF Local, Phases
  <2>2. l2 \in Local  BY <2>1 DEF Local
  <2>3. l3 \in Local  BY <2>2 DEF Local
  <2>4. l \in Local  BY <1>0, <2>3 DEF Local
  <2>5. LocalInv(l, a, earned)  BY <1>0 DEF Local
  <2>6. conn' = [conn EXCEPT ![c] = l]  BY <1>7 DEF CmAuthorize
  <2> HIDE DEF l
  <2> QED  BY <2>4, <2>5, <2>6
<1>8. CASE Disconnect(c)
  <2> DEFINE l == [l0 EXCEPT !.phase = "ended"]
  <2>1. l \in Local  BY <1>0 DEF Local, Phases
  <2>2. LocalInv(l, a, earned)  BY <1>0 DEF Local
  <2>3. conn' = [conn EXCEPT ![c] = l]  BY <1>0, <1>8 DEF Disconnect
  <2> QED  BY <2>1, <2>2, <2>3
<1>9. CASE EnterTunnel(c)
  <2> DEFINE l == [l0 EXCEPT !.phase = "tunnelled"]
  <2>1. l \in Local  BY <1>0 DEF Local, Phases
  <2>2. LocalInv(l, a, earned)  BY <1>0 DEF Local
  <2>3. conn' = [conn EXCEPT ![c] = l]  BY <1>0, <1>9 DEF EnterTunnel
  <2> QED  BY <2>1, <2>2, <2>3
<1> QED  BY <1>1, <1>2, <1>3, <1>4, <1>5, <1>6, <1>7, <1>8, <1>9

-----------------------------------------------------------------------------
(* Steps that also store a map of sessions *)

LEMMA SessionSteps ==
    ASSUME IInv, NEW c \in Conns,
           LogonNeedsTfa(c) \/ LogonProceeds(c) \/ CloseNoRetry(c) \/ ForwardEnds(c)
    PROVE  IInv'
<1> USE DEF LocalInv, Retryable, Logon, Vouched
<1> DEFINE l0 == conn[c]
           a == Authorized(c)
<1>0. l0 \in Local /\ LocalInv(l0, a, earned) /\ conn \in [Conns -> Local]
  BY ConnFacts DEF IInv, TypeOK
<1>s. Sound(sessions) /\ Sound(Retained) /\ Sound(Touched(c, sessions))
      /\ \A s : Sound(s) => Sound(CheckRemoveSession(c, s))
  BY SessionsSound
<1>a. a = Authorized(c) /\ a \in BOOLEAN
  BY ConnFacts
<1> HIDE DEF a
<1>1. CASE LogonNeedsTfa(c)
  <2> DEFINE i == Idle(l0)
             l == [i EXCEPT !.asked = TRUE]
  <2>0. i \in Local  BY <1>0, IdleLocal
  <2>1. l \in Local  BY <2>0 DEF Local
  <2>2. ~l0.fromSwitch /\ l0.twoFa = "pending" /\ l0.phase = "logon" /\ ~a
    BY <1>1, <1>a DEF LogonNeedsTfa, RequiresTfa
  <2>3. LocalInv(l, a, earned)  BY <1>0, <2>2 DEF Local, Idle
  <2>4. conn' = [conn EXCEPT ![c] = l]  BY <1>1 DEF LogonNeedsTfa
  <2> HIDE DEF l
  <2> QED  BY <1>1, <1>s, <2>1, <2>3, <2>4, SessionStep DEF a, LogonNeedsTfa
<1>2. CASE LogonProceeds(c) /\ l0.twoFa = "pending"
  <2> DEFINE v == IF RecentTfa(Retained, l0.key, l0.pw) THEN "Totp" ELSE l0.second
             l1 == [l0 EXCEPT !.phase = "prepare"]
             l == [l1 EXCEPT !.second = v]
  <2>0. v \in {"None", "Totp", "TrustedDevice"}  BY <1>0 DEF Local
  <2>1. v = "Totp" \/ (l0.fromSwitch /\ v = l0.second)
    BY <1>2 DEF LogonProceeds, RequiresTfa
  <2>2. conn' = [conn EXCEPT ![c] = l]  BY <1>2 DEF LogonProceeds
  <2>3. l0.phase = "logon" /\ ~a  BY <1>2, <1>a DEF LogonProceeds
  <2> HIDE DEF v
  <2>4. l1 \in Local  BY <1>0 DEF Local, Phases
  <2>5. l \in Local  BY <2>0, <2>4 DEF Local
  <2>6. LocalInv(l, a, earned)  BY <1>0, <1>2, <2>1, <2>3 DEF Local
  <2> HIDE DEF l
  <2> QED  BY <1>2, <1>s, <2>2, <2>5, <2>6, SessionStep DEF a, LogonProceeds
<1>3. CASE LogonProceeds(c) /\ l0.twoFa # "pending"
  <2> DEFINE l == [l0 EXCEPT !.phase = "prepare"]
  <2>1. l \in Local  BY <1>0 DEF Local, Phases
  <2>2. l0.phase = "logon" /\ ~a  BY <1>3, <1>a DEF LogonProceeds
  <2>3. LocalInv(l, a, earned)  BY <1>0, <1>3, <2>2 DEF Local
  <2>4. conn' = [conn EXCEPT ![c] = l]  BY <1>3 DEF LogonProceeds
  <2>5. UNCHANGED <<authed, shared, history>>  BY <1>3 DEF LogonProceeds, shared
  <2> HIDE DEF l
  <2> QED  BY <2>1, <2>3, <2>4, <2>5, OwnStep DEF a
<1>4. CASE CloseNoRetry(c)
  <2> DEFINE l == [l0 EXCEPT !.phase = "ended"]
  <2>1. l \in Local  BY <1>0 DEF Local, Phases
  <2>2. LocalInv(l, a, earned)  BY <1>0 DEF Local
  <2>3. conn' = [conn EXCEPT ![c] = l]  BY <1>0, <1>4 DEF CloseNoRetry
  <2>4. PICK s : Sound(s) /\ SetSessions(CheckRemoveSession(c, s))
    BY <1>4, <1>s DEF CloseNoRetry
  <2>5. Sound(CheckRemoveSession(c, s))  BY <1>s, <2>4
  <2> HIDE DEF l
  <2> QED  BY <1>4, <2>1, <2>2, <2>3, <2>4, <2>5, SessionStep DEF a, CloseNoRetry
<1>5. CASE ForwardEnds(c)
  <2> DEFINE l == [l0 EXCEPT !.phase = "dropping"]
  <2>1. l \in Local  BY <1>0 DEF Local, Phases
  <2>2. LocalInv(l, a, earned)  BY <1>0 DEF Local
  <2>3. conn' = [conn EXCEPT ![c] = l]  BY <1>0, <1>5 DEF ForwardEnds
  <2>4. Sound(CheckRemoveSession(c, sessions))  BY <1>s
  <2> HIDE DEF l
  <2> QED  BY <1>5, <2>1, <2>2, <2>3, <2>4, SessionStep DEF a, ForwardEnds
<1> QED  BY <1>1, <1>2, <1>3, <1>4, <1>5

-----------------------------------------------------------------------------
(* Steps that change the temporary password or the trusted devices *)

LEMMA PasswordTypes ==
    ASSUME IInv, NEW success \in BOOLEAN, NEW enabled \in BOOLEAN,
           check_update_temporary_password(success, enabled)
    PROVE  /\ tempPw' \in Nat /\ misses' \in Nat
           /\ tempState' \in [pw : Nat, failures : Nat]
BY DEF check_update_temporary_password, update_temporary_password, IInv, TypeOK

\* A device becomes a trusted one only after its session accepted a code.
LEMMA TrustEarned ==
    ASSUME IInv, NEW c \in Conns, conn[c].phase \in {"logon", "prepare"}, Trust(c)
    PROVE  /\ trusted' \subseteq Peers \cup {NoKey}
           /\ \A p \in trusted' : \E k \in earned : Device(k) = p
<1>1. /\ trusted \subseteq Peers \cup {NoKey} /\ conn[c].key \in AllKeys
      /\ \A p \in trusted : \E k \in earned : Device(k) = p
      /\ conn[c].caller = "2fa" => conn[c].key \in earned
  BY ConnFacts DEF IInv, TypeOK, SecondFactorEarned, Local, LocalInv
<1>2. Device(conn[c].key) \in Peers \cup {NoKey}
  BY <1>1 DEF AllKeys, Keys, Device
<1> QED  BY <1>1, <1>2 DEF Trust

LEMMA PasswordSteps ==
    ASSUME IInv, NEW c \in Conns, ResetFailures(c) \/ ValidateWrong(c) \/ LeaveLoop(c)
    PROVE  IInv'
<1> USE DEF LocalInv, Retryable, Logon, Vouched
<1> DEFINE l0 == conn[c]
           a == Authorized(c)
<1>0. l0 \in Local /\ LocalInv(l0, a, earned) /\ conn \in [Conns -> Local]
  BY ConnFacts DEF IInv, TypeOK
<1>a. Authorized(c)' = a
  BY DEF Authorized, ResetFailures, ValidateWrong, LeaveLoop
<1> HIDE DEF a
<1>i. Idle(l0) \in Local
  BY <1>0, IdleLocal
<1>t. tempPw' \in Nat /\ misses' \in Nat /\ tempState' \in [pw : Nat, failures : Nat]
  <2>1. CASE ResetFailures(c)  BY <2>1, PasswordTypes DEF ResetFailures
  <2>2. CASE ValidateWrong(c)  BY <2>2, PasswordTypes DEF ValidateWrong
  <2>3. CASE LeaveLoop(c)
    BY <2>3 DEF LeaveLoop, update_temporary_password, IInv, TypeOK
  <2> QED  BY <2>1, <2>2, <2>3
<1>u. UNCHANGED <<authed, trusted, switchUuid, earned, inserted, switched>>
  BY DEF ResetFailures, ValidateWrong, LeaveLoop
<1>s. UNCHANGED <<sessions, sharesClock, verified>>
  BY DEF ResetFailures, ValidateWrong, LeaveLoop
<1>w. SharedOK' /\ SecondFactorEarned' /\ authed' \in [Conns -> AuthedConn] /\ earned' = earned
  BY <1>t, <1>u, <1>s DEF IInv, TypeOK, SharedOK, SecondFactorEarned
<1> SUFFICES ASSUME TRUE
             PROVE  \E l \in Local : LocalInv(l, a, earned) /\ conn' = [conn EXCEPT ![c] = l]
  BY <1>a, <1>u, <1>w, ConnStep
<1>1. CASE ResetFailures(c)
  <2> DEFINE l == [l0 EXCEPT !.phase = "logon"]
  <2>1. l \in Local  BY <1>0 DEF Local, Phases
  <2>2. l0.phase = "stored"  BY <1>1 DEF ResetFailures
  <2>3. l0.primary # "None"  BY <1>0, <2>2
  <2>4. LocalInv(l, a, earned)  BY <1>0, <2>2, <2>3 DEF Local
  <2>5. LocalInv(Idle(l0), a, earned)  BY <1>0, <2>2 DEF Local, Idle
  <2>6. conn' = [conn EXCEPT ![c] = l] \/ conn' = [conn EXCEPT ![c] = Idle(l0)]
    BY <1>0, <1>1 DEF ResetFailures
  <2> HIDE DEF l
  <2> QED  BY <1>i, <2>1, <2>4, <2>5, <2>6
<1>2. CASE ValidateWrong(c)
  <2>1. PICK ready \in BOOLEAN :
           conn' = [conn EXCEPT ![c] = [Idle(l0) EXCEPT !.asked = l0.asked \/ ready]]
    BY <1>2 DEF ValidateWrong
  <2> DEFINE i == Idle(l0)
             l == [i EXCEPT !.asked = l0.asked \/ ready]
  <2>2. l \in Local  BY <1>i DEF Local
  <2>3. LocalInv(l, a, earned)  BY <1>0, <1>2 DEF ValidateWrong, Local, Idle
  <2>4. conn' = [conn EXCEPT ![c] = l]  BY <2>1
  <2> HIDE DEF l
  <2> QED  BY <2>2, <2>3, <2>4
<1>3. CASE LeaveLoop(c)
  <2> DEFINE v == IF l0.phase = "tunnelled" THEN "forward" ELSE "dropping"
             l == [l0 EXCEPT !.phase = v]
  <2>0. v \in {"forward", "dropping"}  OBVIOUS
  <2>1. conn' = [conn EXCEPT ![c] = l]  BY <1>0, <1>3 DEF LeaveLoop
  <2> HIDE DEF v
  <2>2. l \in Local  BY <1>0, <2>0 DEF Local, Phases
  <2>3. LocalInv(l, a, earned)  BY <1>0, <2>0 DEF Local
  <2> HIDE DEF l
  <2> QED  BY <2>1, <2>2, <2>3
<1> QED  BY <1>1, <1>2, <1>3

\* The password is stored: the session forgets its second factor.
LEMMA AcceptStep ==
    ASSUME IInv, NEW c \in Conns, AcceptTemporary(c)
    PROVE  IInv'
<1> USE DEF LocalInv, Retryable, Logon, Vouched
<1> DEFINE l0 == conn[c]
           a == Authorized(c)
           s == WithPassword(sessions, l0.key, l0.pw)
           l == [l0 EXCEPT !.phase = "stored"]
<1>0. l0 \in Local /\ LocalInv(l0, a, earned) /\ conn \in [Conns -> Local] /\ l0.phase = "accepted"
  BY ConnFacts DEF IInv, TypeOK, AcceptTemporary
<1>1. Sound(s)
  BY <1>0, SessionsSound
<1>2. l0.key \in AllKeys /\ sessions \in [AllKeys -> Session]
  BY <1>0 DEF Local, IInv, TypeOK
<1>3. ~s[l0.key].tfa
  BY <1>2 DEF WithPassword
<1>4. SetSessions(s)
  BY DEF AcceptTemporary
<1> HIDE DEF s, a
<1>5. sessions' = s /\ sharesClock' \in [Conns -> BOOLEAN]
  BY <1>1, <1>4, SetSessionsTypes
<1>6. /\ verified' = verified \ {l0.key}
      /\ UNCHANGED <<authed, tempPw, tempState, trusted, switchUuid,
                     earned, inserted, switched, misses>>
  BY DEF AcceptTemporary
<1>7. /\ sessions' \in [AllKeys -> Session]
      /\ \A k \in AllKeys : sessions'[k].tfa => k \in verified'
  BY <1>1, <1>3, <1>5, <1>6 DEF Sound
<1>8. SharedOK' /\ authed' \in [Conns -> AuthedConn]
  BY <1>5, <1>6, <1>7 DEF IInv, TypeOK, SharedOK
<1>9. SecondFactorEarned'
  BY <1>6, <1>7 DEF IInv, SecondFactorEarned
<1>10. l \in Local
  BY <1>0 DEF Local, Phases
<1>11. LocalInv(l, a, earned)
  BY <1>0 DEF Local
<1>12. conn' = [conn EXCEPT ![c] = l]
  BY <1>0 DEF AcceptTemporary
<1> HIDE DEF l
<1>13. Authorized(c)' = a
  BY <1>6 DEF Authorized, a
<1> QED
  BY <1>6, <1>8, <1>9, <1>10, <1>11, <1>12, <1>13, ConnStep

\* The end of a logon, and the end of a connection.
LEMMA GrantSteps ==
    ASSUME IInv, NEW c \in Conns, LogonAlready(c) \/ Grant(c) \/ Drop(c)
    PROVE  IInv'
<1> USE DEF LocalInv, Retryable, Logon, Vouched
<1> DEFINE l0 == conn[c]
           a == Authorized(c)
<1>0. l0 \in Local /\ LocalInv(l0, a, earned) /\ conn \in [Conns -> Local]
  BY ConnFacts DEF IInv, TypeOK
<1>1. CASE LogonAlready(c)
  <2>a. a /\ l0.phase = "logon" /\ Authorized(c)' = a  BY <1>1 DEF LogonAlready, Authorized
  <2>t. /\ trusted' \subseteq Peers \cup {NoKey}
        /\ \A p \in trusted' : \E k \in earned : Device(k) = p
    BY <1>1, <2>a, TrustEarned DEF LogonAlready
  <2> DEFINE v == IF l0.caller = "cm" /\ authed[c].type = "PortForward" THEN "tunnelled" ELSE "open"
             i == Idle(l0)
             l == [i EXCEPT !.phase = v]
  <2>1. conn' = [conn EXCEPT ![c] = l]  BY <1>1 DEF LogonAlready
  <2>2. v \in {"tunnelled", "open"}  OBVIOUS
  <2> HIDE DEF v, a
  <2>3. i \in Local  BY <1>0, IdleLocal
  <2>4. l \in Local  BY <2>2, <2>3 DEF Local, Phases
  <2>5. LocalInv(l, a, earned)  BY <1>0, <2>a, <2>2 DEF Local, Idle
  <2> HIDE DEF l
  <2>6. SharedOK' /\ SecondFactorEarned' /\ authed' \in [Conns -> AuthedConn] /\ earned' = earned
    BY <1>1, <2>t DEF LogonAlready, IInv, TypeOK, SharedOK, SecondFactorEarned, history
  <2>7. \A d \in Conns \ {c} : authed'[d] = authed[d]  BY <1>1 DEF LogonAlready
  <2>8. LocalInv(l, Authorized(c)', earned') /\ earned \subseteq earned'  BY <2>a, <2>5, <2>6
  <2> QED  BY <2>1, <2>4, <2>6, <2>7, <2>8, ConnStep
<1>2. CASE Grant(c)
  <2>t. /\ trusted' \subseteq Peers \cup {NoKey}
        /\ \A p \in trusted' : \E k \in earned : Device(k) = p
    BY <1>2, TrustEarned DEF Grant
  <2> DEFINE w == IF l0.primary \in {"Click", "SwitchSides"} THEN "None" ELSE l0.second
             i == Idle(Prepared(c))
             ac == [type |-> TypeOf(l0.scope), key |-> l0.key]
  <2>1. PICK v \in {"open", "tunnelled"} :
           conn' = [conn EXCEPT ![c] = [i EXCEPT !.phase = v, !.second = w]]
    BY <1>2 DEF Grant
  <2>2. w \in {"None", "Totp", "TrustedDevice"} /\ (w = l0.second \/ l0.primary \in Vouched)
    BY <1>0 DEF Local
  <2>3. Prepared(c) \in Local  BY <1>0, PreparedLocal
  <2>4. /\ i.primary = l0.primary /\ i.fromSwitch = l0.fromSwitch /\ i.twoFa = l0.twoFa
        /\ i.key = l0.key /\ i.caller = "login"
    BY <1>0, <2>3 DEF Idle, Prepared, Local
  <2>5. i \in Local  BY <2>3, IdleLocal
  <2> HIDE DEF i, w
  <2> DEFINE l1 == [i EXCEPT !.phase = v]
             l == [l1 EXCEPT !.second = w]
  <2>6. l1 \in Local  BY <2>5 DEF Local, Phases
  <2>7. l \in Local  BY <2>2, <2>6 DEF Local
  <2>8. l0.phase = "prepare" /\ l0.caller # "ask"  BY <1>2 DEF Grant
  <2>9. /\ l.phase = v /\ l.primary = l0.primary /\ l.fromSwitch = l0.fromSwitch
        /\ l.twoFa = l0.twoFa /\ l.second = w /\ l0.twoFa \in {"off", "pending", "cleared"}
    BY <1>0, <2>4, <2>5 DEF Local
  <2>10. conn' = [conn EXCEPT ![c] = l]  BY <2>1
  <2> HIDE DEF l, a
  <2>11. LocalInv(l, TRUE, earned)  BY <1>0, <2>2, <2>8, <2>9
  <2>12. ac \in AuthedConn /\ ac # NotAuthed
    BY <1>0 DEF Local, AuthedConn, TypeOf, ScopeNames, NotAuthed
  <2>13. authed' = [authed EXCEPT ![c] = ac]  BY <1>2 DEF Grant
  <2> HIDE DEF ac
  <2>14. /\ authed' \in [Conns -> AuthedConn] /\ \A d \in Conns \ {c} : authed'[d] = authed[d]
         /\ Authorized(c)' = TRUE
    BY <2>12, <2>13 DEF IInv, TypeOK, Authorized
  <2>15. sharesClock' \in [Conns -> BOOLEAN]
    BY <1>0, <1>2 DEF Grant, IInv, TypeOK, Local, Session
  <2>16. SharedOK' /\ SecondFactorEarned' /\ earned' = earned
    BY <1>2, <2>t, <2>15 DEF Grant, IInv, TypeOK, SharedOK, SecondFactorEarned, history
  <2> QED  BY <2>7, <2>10, <2>11, <2>14, <2>16, ConnStep
<1>3. CASE Drop(c)
  <2> DEFINE l == [Fresh EXCEPT !.phase = "gone"]
  <2>1. l \in Local
    BY DEF Fresh, Local, Phases, AllKeys, Passwords, ScopeNames
  <2>2. LocalInv(l, FALSE, earned)  BY DEF Fresh
  <2>3. conn' = [conn EXCEPT ![c] = l]  BY <1>3 DEF Drop
  <2> HIDE DEF l
  <2>4. NotAuthed \in AuthedConn  BY DEF NotAuthed, AuthedConn, AllKeys
  <2>5. /\ authed' \in [Conns -> AuthedConn] /\ \A d \in Conns \ {c} : authed'[d] = authed[d]
        /\ Authorized(c)' = FALSE
    BY <1>3, <2>4 DEF Drop, IInv, TypeOK, Authorized
  <2>6. SharedOK' /\ SecondFactorEarned' /\ earned' = earned
    BY <1>3 DEF Drop, IInv, TypeOK, SharedOK, SecondFactorEarned, history
  <2> QED  BY <2>1, <2>2, <2>3, <2>5, <2>6, ConnStep
<1> QED  BY <1>1, <1>2, <1>3

-----------------------------------------------------------------------------
(* Messages other than a login, the local user and time *)

\* The connections stay, and the shared state keeps its types.
LEMMA QuietStep ==
    ASSUME IInv, UNCHANGED <<conn, authed, earned>>, SharedOK', SecondFactorEarned'
    PROVE  IInv'
<1>1. TypeOK'
  BY DEF IInv, TypeOK, SharedOK
<1>2. \A c \in Conns : Authorized(c)' = Authorized(c)
  BY DEF Authorized
<1> QED  BY <1>1, <1>2 DEF IInv

LEMMA UuidTypes ==
    ASSUME IInv, NEW p \in Peers
    PROVE  UuidsWithout(p) \in [Peers -> {"none", "fresh", "stale"}]
BY DEF UuidsWithout, IInv, TypeOK

LEMMA QuietSteps ==
    ASSUME IInv,
           \/ \E c \in Conns : SwitchSidesMismatch(c) \/ Traffic(c)
           \/ \E p \in Peers : InsertSwitchUuid(p) \/ UuidExpires(p)
           \/ \E k \in AllKeys : SessionIdle(k)
           \/ RefreshPassword
    PROVE  IInv'
<1>1. ASSUME NEW c \in Conns, SwitchSidesMismatch(c) \/ Traffic(c) PROVE IInv'
  <2>1. Sound(Touched(c, sessions)) /\ SetSessions(Touched(c, sessions))
    BY <1>1, SessionsSound DEF SwitchSidesMismatch, Traffic
  <2>2. /\ sessions' \in [AllKeys -> Session] /\ sharesClock' \in [Conns -> BOOLEAN]
        /\ \A k \in AllKeys : sessions'[k].tfa => k \in verified
    BY <2>1, SetSessionsTypes DEF Sound
  <2>3. switchUuid' \in [Peers -> {"none", "fresh", "stale"}]
    BY <1>1, UuidTypes DEF SwitchSidesMismatch, Traffic, IInv, TypeOK
  <2>4. UNCHANGED <<conn, authed, tempPw, tempState, trusted, history>>
    BY <1>1 DEF SwitchSidesMismatch, Traffic
  <2>5. SharedOK' /\ SecondFactorEarned'
    BY <2>2, <2>3, <2>4 DEF IInv, TypeOK, SharedOK, SecondFactorEarned, history
  <2> QED  BY <2>4, <2>5, QuietStep DEF history
<1>2. ASSUME NEW p \in Peers, InsertSwitchUuid(p) \/ UuidExpires(p) PROVE IInv'
  <2>1. switchUuid' \in [Peers -> {"none", "fresh", "stale"}] /\ inserted' \in Nat
    BY <1>2 DEF InsertSwitchUuid, UuidExpires, history, IInv, TypeOK
  <2>2. UNCHANGED <<conn, authed, sessions, sharesClock, tempPw, tempState, trusted,
                    earned, verified, switched, misses>>
    BY <1>2 DEF InsertSwitchUuid, UuidExpires, history
  <2>3. SharedOK' /\ SecondFactorEarned'
    BY <2>1, <2>2 DEF IInv, TypeOK, SharedOK, SecondFactorEarned
  <2> QED  BY <2>2, <2>3, QuietStep
<1>3. ASSUME NEW k \in AllKeys, SessionIdle(k) PROVE IInv'
  <2>0. sessions \in [AllKeys -> Session] /\ sessions' = [sessions EXCEPT ![k].live = FALSE]
        /\ \A j \in AllKeys : sessions[j].tfa => j \in verified
    BY <1>3 DEF SessionIdle, IInv, TypeOK, SecondFactorEarned
  <2>1. /\ sessions' \in [AllKeys -> Session]
        /\ \A j \in AllKeys : sessions'[j].tfa => j \in verified
    BY <2>0 DEF Session
  <2>2. UNCHANGED <<conn, authed, sharesClock, tempPw, tempState, trusted, switchUuid, history>>
    BY <1>3 DEF SessionIdle
  <2>3. SharedOK' /\ SecondFactorEarned'
    BY <2>1, <2>2 DEF IInv, TypeOK, SharedOK, SecondFactorEarned, history
  <2> QED  BY <2>2, <2>3, QuietStep DEF history
<1>4. CASE RefreshPassword
  <2>1. SharedOK' /\ SecondFactorEarned'
    BY <1>4 DEF RefreshPassword, update_temporary_password, IInv, TypeOK, SharedOK,
               SecondFactorEarned
  <2> QED  BY <1>4, <2>1, QuietStep DEF RefreshPassword
<1> QED  BY <1>1, <1>2, <1>3, <1>4

LEMMA Auth2faStep ==
    ASSUME IInv, NEW c \in Conns, Auth2fa(c)
    PROVE  IInv'
<1> USE DEF LocalInv, Retryable, Logon, Vouched
<1> DEFINE l0 == conn[c]
           a == Authorized(c)
           s0 == Touched(c, sessions)
           n == [pw |-> s0[l0.key].pw, tfa |-> TRUE, present |-> TRUE,
                 live |-> IF s0[l0.key].present THEN s0[l0.key].live ELSE TRUE]
           s == [s0 EXCEPT ![l0.key] = n]
<1>0. l0 \in Local /\ LocalInv(l0, a, earned) /\ conn \in [Conns -> Local]
  BY ConnFacts DEF IInv, TypeOK
<1>k. l0.key \in AllKeys
  BY <1>0 DEF Local
<1>1. /\ earned' = earned \cup {l0.key} /\ verified' = verified \cup {l0.key}
      /\ Authorized(c)' = a
  BY DEF Auth2fa, Authorized
<1>2. Sound(s0)
  BY SessionsSound
<1>3. SetSessions(s)
  BY DEF Auth2fa, WithTfa
<1> HIDE DEF s0
<1>4. n \in Session
  BY <1>2, <1>k DEF Sound, Session
<1> HIDE DEF n, a
<1>5. s \in [AllKeys -> Session] /\ \A k \in AllKeys : s[k].tfa => k \in verified'
  BY <1>1, <1>2, <1>4, <1>k DEF Sound
<1>6. sessions' = s /\ sharesClock' \in [Conns -> BOOLEAN]
  BY <1>3, <1>5 DEF SetSessions, IInv, TypeOK, AuthedConn, Session
<1>7. UNCHANGED <<authed, tempPw, tempState, trusted, switchUuid, inserted, switched, misses>>
  BY DEF Auth2fa
<1>8. SharedOK' /\ SecondFactorEarned' /\ authed' \in [Conns -> AuthedConn]
  BY <1>1, <1>5, <1>6, <1>7, <1>k DEF IInv, TypeOK, SharedOK, SecondFactorEarned
<1> DEFINE l1 == [l0 EXCEPT !.phase = "logon"]
           l2 == [l1 EXCEPT !.caller = "2fa"]
           l3 == [l2 EXCEPT !.twoFa = "cleared"]
           l == [l3 EXCEPT !.second = "Totp"]
<1>9. l1 \in Local  BY <1>0 DEF Local, Phases
<1>10. l2 \in Local  BY <1>9 DEF Local
<1>11. l3 \in Local  BY <1>10 DEF Local
<1>12. l \in Local  BY <1>11 DEF Local
<1>13. conn' = [conn EXCEPT ![c] = l]  BY DEF Auth2fa
<1>14. /\ l.phase = "logon" /\ l.caller = "2fa" /\ l.twoFa = "cleared" /\ l.second = "Totp"
       /\ l.primary = l0.primary /\ l.fromSwitch = l0.fromSwitch /\ l.key = l0.key
  BY <1>0 DEF Local
<1> HIDE DEF l
<1>15. LocalInv(l, a, earned')  BY <1>0, <1>1, <1>14
<1> QED  BY <1>1, <1>7, <1>8, <1>12, <1>13, <1>15, ConnStep

LEMMA SwitchSidesStep ==
    ASSUME IInv, NEW c \in Conns, SwitchSides(c)
    PROVE  IInv'
<1> USE DEF LocalInv, Retryable, Logon, Vouched
<1> DEFINE l0 == conn[c]
           a == Authorized(c)
<1>0. l0 \in Local /\ LocalInv(l0, a, earned) /\ conn \in [Conns -> Local] /\ tempPw \in Nat
  BY ConnFacts DEF IInv, TypeOK
<1>1. PICK k \in Keys, known \in BOOLEAN :
         LET r == [key |-> k, pw |-> Empty, scope |-> "Remote"]
         IN  /\ switchUuid' = UuidsWithout(k[1])
             /\ \/ conn' = [conn EXCEPT ![c] = [Requested(c, r, known) EXCEPT
                      !.phase = "logon", !.fromSwitch = TRUE, !.primary = "SwitchSides"]]
                   /\ switched' = switched + 1
                \/ conn' = [conn EXCEPT ![c] = Ended(l0)] /\ UNCHANGED switched
  BY Zenon DEF SwitchSides
<1> DEFINE r == [key |-> k, pw |-> Empty, scope |-> "Remote"]
           q == Requested(c, r, known)
<1>2. Sound(Touched(c, sessions)) /\ SetSessions(Touched(c, sessions))
  BY SessionsSound DEF SwitchSides
<1>3. /\ sessions' \in [AllKeys -> Session] /\ sharesClock' \in [Conns -> BOOLEAN]
      /\ \A j \in AllKeys : sessions'[j].tfa => j \in verified
  BY <1>2, SetSessionsTypes DEF Sound
<1>4. UNCHANGED <<authed, tempPw, tempState, trusted, earned, verified, inserted, misses>>
  BY DEF SwitchSides
<1>5. switchUuid' \in [Peers -> {"none", "fresh", "stale"}] /\ switched' \in Nat
  BY <1>1, UuidTypes DEF Keys, IInv, TypeOK
<1>6. /\ SharedOK' /\ SecondFactorEarned' /\ authed' \in [Conns -> AuthedConn]
      /\ Authorized(c)' = a
  BY <1>3, <1>4, <1>5 DEF IInv, TypeOK, SharedOK, SecondFactorEarned, Authorized
<1> HIDE DEF a
<1>7. CASE conn' = [conn EXCEPT ![c] = Ended(l0)]
  <2>1. Ended(l0) \in Local  BY <1>0, IdleLocal
  <2>2. LocalInv(Ended(l0), a, earned)  BY <1>0 DEF Ended, Local
  <2> QED  BY <1>4, <1>6, <1>7, <2>1, <2>2, ConnStep
<1>8. CASE conn' = [conn EXCEPT ![c] = [q EXCEPT
              !.phase = "logon", !.fromSwitch = TRUE, !.primary = "SwitchSides"]]
  <2>1. r.key \in Keys /\ r.pw \in Passwords /\ r.scope \in ScopeNames
    BY DEF Passwords, ScopeNames
  <2>2. q.caller = "login"  BY <1>0 DEF Requested, Local
  <2> HIDE DEF r
  <2>3. q \in Local  BY <1>0, <2>1, RequestedLocal
  <2> HIDE DEF q
  <2> DEFINE l1 == [q EXCEPT !.phase = "logon"]
             l2 == [l1 EXCEPT !.fromSwitch = TRUE]
             l == [l2 EXCEPT !.primary = "SwitchSides"]
  <2>4. l1 \in Local  BY <2>3 DEF Local, Phases
  <2>5. l2 \in Local  BY <2>4 DEF Local
  <2>6. l \in Local  BY <2>5 DEF Local
  <2>7. l.phase = "logon" /\ l.caller = "login" /\ l.fromSwitch /\ l.primary = "SwitchSides"
    BY <2>2, <2>3 DEF Local
  <2>8. conn' = [conn EXCEPT ![c] = l]  BY <1>8
  <2> HIDE DEF l
  <2>9. LocalInv(l, a, earned)  BY <2>7
  <2> QED  BY <1>4, <1>6, <2>6, <2>8, <2>9, ConnStep
<1> QED  BY <1>1, <1>7, <1>8

-----------------------------------------------------------------------------
(* Theorems *)

LEMMA InitIInv == Init => IInv
<1> SUFFICES ASSUME Init PROVE IInv
  OBVIOUS
<1>1. Fresh \in Local
  BY DEF Fresh, Local, Phases, AllKeys, Passwords, ScopeNames
<1>2. NotAuthed \in AuthedConn /\ NoSession \in Session /\ ~NoSession.tfa
  BY DEF NotAuthed, AuthedConn, AllKeys, NoSession, Session
<1>3. TypeOK
  BY <1>1, <1>2 DEF Init, TypeOK
<1>4. SecondFactorEarned
  BY <1>2 DEF Init, SecondFactorEarned
<1>5. ASSUME NEW c \in Conns PROVE LocalInv(conn[c], Authorized(c), earned)
  <2>1. conn[c] = Fresh /\ Authorized(c) = FALSE
    BY DEF Init, Authorized
  <2>2. LocalInv(Fresh, FALSE, earned)
    BY DEF Fresh, LocalInv, Retryable, Logon, Vouched
  <2> QED  BY <2>1, <2>2
<1> QED  BY <1>3, <1>4, <1>5 DEF IInv

LEMMA StutterIInv == ASSUME IInv, UNCHANGED vars PROVE IInv'
<1>1. UNCHANGED <<conn, authed, earned>> /\ SharedOK' /\ SecondFactorEarned'
  BY DEF vars, shared, history, IInv, TypeOK, SharedOK, SecondFactorEarned
<1> QED  BY <1>1, QuietStep

LEMMA NextIInv == ASSUME IInv, Next PROVE IInv'
<1>1. ASSUME NEW c \in Conns, ConnNext(c) PROVE IInv'
  BY <1>1, OwnSteps, LoginLocalSteps, LoginSessionSteps, SessionSteps, PasswordSteps,
     AcceptStep, GrantSteps, Auth2faStep, SwitchSidesStep, QuietSteps, Zenon DEF ConnNext
<1> QED  BY <1>1, QuietSteps, Zenon DEF Next

LEMMA AlwaysIInv == Spec => []IInv
<1>1. IInv /\ [Next]_vars => IInv'
  BY NextIInv, StutterIInv
<1> QED  BY InitIInv, <1>1, PTL DEF Spec

\* The variables keep their types whatever the peers, the local user and the
\* connection tasks do.
THEOREM TypeCorrect == Spec => []TypeOK
<1>1. IInv => TypeOK  BY DEF IInv
<1> QED  BY AlwaysIInv, <1>1, PTL

\* No interleaving of handlers authorizes a connection that was not
\* authenticated.
THEOREM Authenticated == Spec => []AuthorizedWasAuthenticated
<1>1. IInv => AuthorizedWasAuthenticated
  BY DEF IInv, LocalInv, AuthorizedWasAuthenticated
<1> QED  BY AlwaysIInv, <1>1, PTL

\* The second factor is never skipped, for any number of connections, peers
\* and sessions.
THEOREM SecondFactor == Spec => []SecondFactorRespected
<1>1. IInv => SecondFactorRespected
  BY DEF IInv, LocalInv, Vouched, SecondFactorRespected
<1> QED  BY AlwaysIInv, <1>1, PTL

\* A session or device that is exempt from the code has had one accepted.
THEOREM SecondFactorOnlyEarned == Spec => []SecondFactorEarned
<1>1. IInv => SecondFactorEarned  BY DEF IInv
<1> QED  BY AlwaysIInv, <1>1, PTL

-----------------------------------------------------------------------------
(* The temporary password: the stored count is the true one as long as it  *)
(* belongs to the current password.                                        *)
Seen == IF tempState.pw = tempPw THEN tempState.failures ELSE 0

MissInv ==
    /\ TypeOK
    /\ tempState.pw <= tempPw
    /\ misses = Seen
    /\ misses < MaxConsecutiveFailures

LEMMA MissCheck ==
    ASSUME MissInv, NEW success \in BOOLEAN, NEW enabled \in BOOLEAN,
           check_update_temporary_password(success, enabled), TypeOK'
    PROVE  MissInv'
BY FailureLimit DEF MissInv, Seen, check_update_temporary_password, update_temporary_password,
                    TypeOK

LEMMA MissUpdate ==
    ASSUME MissInv, update_temporary_password, UNCHANGED tempState, TypeOK'
    PROVE  MissInv'
BY FailureLimit DEF MissInv, Seen, update_temporary_password, TypeOK

LEMMA MissSame ==
    ASSUME MissInv, UNCHANGED <<tempPw, tempState, misses>>, TypeOK'
    PROVE  MissInv'
BY DEF MissInv, Seen

LEMMA MissStep == ASSUME MissInv, [Next]_vars, TypeOK' PROVE MissInv'
<1>1. CASE UNCHANGED vars
  BY <1>1, MissSame DEF vars, shared, history
<1>2. CASE RefreshPassword
  BY <1>2, MissUpdate DEF RefreshPassword
<1>3. ASSUME NEW p \in Peers, InsertSwitchUuid(p) \/ UuidExpires(p) PROVE MissInv'
  BY <1>3, MissSame DEF InsertSwitchUuid, UuidExpires, history
<1>4. ASSUME NEW k \in AllKeys, SessionIdle(k) PROVE MissInv'
  BY <1>4, MissSame DEF SessionIdle, history
<1>5. ASSUME NEW c \in Conns, ConnNext(c) PROVE MissInv'
  <2>1. CASE ResetFailures(c)  BY <2>1, MissCheck DEF ResetFailures
  <2>2. CASE ValidateWrong(c)  BY <2>2, MissCheck DEF ValidateWrong
  <2>3. CASE LeaveLoop(c)  BY <2>3, MissUpdate, MissSame DEF LeaveLoop
  <2>4. CASE UNCHANGED <<tempPw, tempState, misses>>  BY <2>4, MissSame
  <2>5. \/ ResetFailures(c) \/ ValidateWrong(c) \/ LeaveLoop(c)
        \/ UNCHANGED <<tempPw, tempState, misses>>
    BY <1>5 DEF ConnNext, shared, history, Open, OpenRefused, LoginRefused, LoginNotReady,
       LoginByClick, LoginRecent, LoginEmpty, LoginPassword, ValidateTemporary,
       AcceptTemporary, ValidatePermanent, LogonAlready, LogonNeedsTfa, LogonProceeds, PrepareFails,
       PreparedAsk, Grant, CmAuthorize, Auth2fa, SwitchSides, SwitchSidesMismatch, Traffic,
       Disconnect, CloseNoRetry, EnterTunnel, ForwardEnds, Drop
  <2> QED  BY <2>1, <2>2, <2>3, <2>4, <2>5
<1> QED  BY <1>1, <1>2, <1>3, <1>4, <1>5 DEF Next

\* Whatever rotates the temporary password meanwhile, and from however many
\* connections, it never outlives MAX_CONSECUTIVE_FAILURES wrong attempts.
THEOREM MissesBounded == Spec => []ConsecutiveMissesBounded
<1>1. Init /\ TypeOK => MissInv
  BY FailureLimit DEF Init, MissInv, Seen
<1>2. MissInv /\ [Next]_vars /\ TypeOK' => MissInv'
  BY MissStep
<1>3. MissInv => ConsecutiveMissesBounded
  BY DEF MissInv, ConsecutiveMissesBounded
<1> QED  BY TypeCorrect, <1>1, <1>2, <1>3, PTL DEF Spec

-----------------------------------------------------------------------------
(* Switching sides: every uuid accepted or still stored was handed out. *)
Outstanding == {p \in Peers : switchUuid[p] # "none"}

UuidInv ==
    /\ TypeOK
    /\ IsFiniteSet(Outstanding)
    /\ switched + Cardinality(Outstanding) <= inserted

\* The uuids are left alone, or fewer are stored and none was accepted.
LEMMA UuidFewer ==
    ASSUME UuidInv, TypeOK', Outstanding' \subseteq Outstanding,
           UNCHANGED <<switched, inserted>>
    PROVE  UuidInv'
<1>1. IsFiniteSet(Outstanding') /\ Cardinality(Outstanding') <= Cardinality(Outstanding)
  BY FS_Subset DEF UuidInv
<1>2. Cardinality(Outstanding) \in Nat /\ Cardinality(Outstanding') \in Nat
  BY <1>1, FS_CardinalityType DEF UuidInv
<1> QED  BY <1>1, <1>2 DEF UuidInv, TypeOK

\* An accepted uuid is one of the stored ones.
LEMMA UuidTaken ==
    ASSUME UuidInv, TypeOK', NEW p \in Outstanding, Outstanding' \subseteq Outstanding \ {p},
           switched' = switched + 1, UNCHANGED inserted
    PROVE  UuidInv'
<1>1. IsFiniteSet(Outstanding \ {p})
      /\ Cardinality(Outstanding \ {p}) = Cardinality(Outstanding) - 1
  BY FS_RemoveElement DEF UuidInv
<1>2. IsFiniteSet(Outstanding') /\ Cardinality(Outstanding') <= Cardinality(Outstanding) - 1
  BY <1>1, FS_Subset
<1>3. Cardinality(Outstanding) \in Nat /\ Cardinality(Outstanding') \in Nat
  BY <1>2, FS_CardinalityType DEF UuidInv
<1> QED  BY <1>2, <1>3 DEF UuidInv, TypeOK

\* A uuid handed out replaces the one stored for the peer, if any.
LEMMA UuidGiven ==
    ASSUME UuidInv, TypeOK', NEW p \in Peers, Outstanding' \subseteq Outstanding \cup {p},
           UNCHANGED switched, inserted' = inserted + 1
    PROVE  UuidInv'
<1>1. /\ IsFiniteSet(Outstanding \cup {p})
      /\ Cardinality(Outstanding \cup {p}) <= Cardinality(Outstanding) + 1
  <2>1. Cardinality(Outstanding) \in Nat  BY FS_CardinalityType DEF UuidInv
  <2> QED  BY <2>1, FS_AddElement DEF UuidInv
<1>2. IsFiniteSet(Outstanding') /\ Cardinality(Outstanding') <= Cardinality(Outstanding \cup {p})
  BY <1>1, FS_Subset
<1>3. /\ Cardinality(Outstanding) \in Nat /\ Cardinality(Outstanding') \in Nat
      /\ Cardinality(Outstanding \cup {p}) \in Nat
  BY <1>1, <1>2, FS_CardinalityType DEF UuidInv
<1> QED  BY <1>1, <1>2, <1>3 DEF UuidInv, TypeOK

LEMMA UuidStep == ASSUME UuidInv, [Next]_vars, TypeOK' PROVE UuidInv'
<1>0. ASSUME UNCHANGED <<switchUuid, switched, inserted>> PROVE UuidInv'
  BY <1>0, UuidFewer DEF Outstanding
<1>1. CASE UNCHANGED vars \/ RefreshPassword
  BY <1>0, <1>1 DEF vars, shared, history, RefreshPassword
<1>2. ASSUME NEW p \in Peers, InsertSwitchUuid(p) PROVE UuidInv'
  <2>1. Outstanding' \subseteq Outstanding \cup {p}
    BY <1>2 DEF Outstanding, InsertSwitchUuid, UuidInv, TypeOK
  <2> QED  BY <1>2, <2>1, UuidGiven DEF InsertSwitchUuid
<1>3. ASSUME NEW p \in Peers, UuidExpires(p) PROVE UuidInv'
  <2>1. Outstanding' \subseteq Outstanding
    BY <1>3 DEF Outstanding, UuidExpires, UuidInv, TypeOK
  <2> QED  BY <1>3, <2>1, UuidFewer DEF UuidExpires, history
<1>4. ASSUME NEW k \in AllKeys, SessionIdle(k) PROVE UuidInv'
  BY <1>0, <1>4 DEF SessionIdle, history
<1>5. ASSUME NEW c \in Conns, ConnNext(c) PROVE UuidInv'
  <2>1. CASE SwitchSides(c)
    <3>1. PICK p \in Peers : /\ switchUuid[p] = "fresh" /\ switchUuid' = UuidsWithout(p)
                             /\ switched' = switched + 1 \/ UNCHANGED switched
      BY <2>1 DEF SwitchSides, Keys
    <3>2. p \in Outstanding /\ Outstanding' \subseteq Outstanding \ {p}
      BY <3>1 DEF Outstanding, UuidsWithout
    <3>3. UNCHANGED inserted  BY <2>1 DEF SwitchSides
    <3> QED  BY <3>1, <3>2, <3>3, UuidTaken, UuidFewer
  <2>2. CASE SwitchSidesMismatch(c)
    <3>1. PICK p \in Peers : switchUuid' = UuidsWithout(p)
      BY <2>2 DEF SwitchSidesMismatch
    <3>2. Outstanding' \subseteq Outstanding
      BY <3>1 DEF Outstanding, UuidsWithout
    <3> QED  BY <2>2, <3>2, UuidFewer DEF SwitchSidesMismatch, history
  <2>3. \/ SwitchSides(c) \/ SwitchSidesMismatch(c)
        \/ UNCHANGED <<switchUuid, switched, inserted>>
    BY <1>5 DEF ConnNext, shared, history, Open, OpenRefused, LoginRefused, LoginNotReady,
       LoginByClick, LoginRecent, LoginEmpty, LoginPassword, ValidateTemporary,
       AcceptTemporary, ResetFailures, ValidatePermanent, ValidateWrong, LogonAlready, LogonNeedsTfa,
       LogonProceeds, PrepareFails, PreparedAsk, Grant, CmAuthorize, Auth2fa, Traffic,
       Disconnect, CloseNoRetry, EnterTunnel, LeaveLoop, ForwardEnds, Drop
  <2> QED  BY <1>0, <2>1, <2>2, <2>3
<1> QED  BY <1>1, <1>2, <1>3, <1>4, <1>5 DEF Next

\* However many connections race for it, a switch-sides uuid admits one.
THEOREM UuidOnce == Spec => []SwitchUuidOnce
<1>1. Init /\ TypeOK => UuidInv
  <2> SUFFICES ASSUME Init, TypeOK PROVE UuidInv
    OBVIOUS
  <2>1. Outstanding = {}  BY DEF Init, Outstanding
  <2>2. IsFiniteSet({}) /\ Cardinality({}) = 0  BY FS_EmptySet
  <2> QED  BY <2>1, <2>2 DEF Init, UuidInv
<1>2. UuidInv /\ [Next]_vars /\ TypeOK' => UuidInv'
  BY UuidStep
<1>3. UuidInv => SwitchUuidOnce
  <2> SUFFICES ASSUME UuidInv PROVE SwitchUuidOnce
    OBVIOUS
  <2>1. Cardinality(Outstanding) \in Nat  BY FS_CardinalityType DEF UuidInv
  <2> QED  BY <2>1 DEF UuidInv, TypeOK, SwitchUuidOnce
<1> QED  BY TypeCorrect, <1>1, <1>2, <1>3, PTL DEF Spec
=============================================================================
