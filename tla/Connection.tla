----------------------------- MODULE Connection -----------------------------
(***************************************************************************)
(* Authorization of incoming connections: the login half of                *)
(* src/server/connection.rs.  Every connection is a task that handles one  *)
(* message at a time (from the peer, or from the connection manager, CM);  *)
(* the tasks share SESSIONS, AUTHED_CONNS, the temporary password, the     *)
(* trusted devices and SWITCH_SIDES_UUID, each behind a lock of its own.   *)
(* A handler is cut where another task can run in between.                 *)
(*                                                                         *)
(* Left to other modules: the limiter of wrong attempts (LoginFailures),   *)
(* here any verdict; what an authorized connection then does.              *)
(* The configuration is read afresh at every use and may change at any     *)
(* time, so every read of an option is a free choice.                      *)
(***************************************************************************)
EXTENDS Naturals

CONSTANTS
    Conns,                     \* connection ids; never reused
    Peers, Sids,               \* peer devices and the session ids they choose
    NoKey,                     \* session key, and device id, before any login
    Empty, Permanent, Wrong,   \* an empty, the permanent, a wrong password
    Offered,                   \* those of them a peer tries, beside temporary ones
    Scopes,                    \* what a login may ask for
    Require2fa,                \* "pending" and / or "off": is a second factor set up
    MaxConsecutiveFailures,    \* 10 in the code
    MaxGeneration,             \* bound: no rotation by wrong attempts beyond it
    MaxUuids                   \* bound: switch-sides requests of the local user

ScopeNames == {"Remote", "FileTransfer", "ViewCamera", "Terminal", "OsTerminal", "PortForward"}

ASSUME ScopesNamed == Scopes \subseteq ScopeNames
ASSUME Require2faNamed == Require2fa \subseteq {"off", "pending"}
ASSUME KeysDistinct == NoKey \notin Peers \X Sids /\ NoKey \notin Peers
ASSUME PasswordsDistinct ==
    /\ {Empty, Permanent, Wrong} \cap Nat = {}
    /\ Empty # Permanent /\ Empty # Wrong /\ Permanent # Wrong
ASSUME OfferedNamed == Offered \subseteq {Empty, Permanent, Wrong}
ASSUME FailureLimit == MaxConsecutiveFailures \in Nat \ {0}
ASSUME Bounds == MaxGeneration \in Nat /\ MaxUuids \in Nat

Keys == Peers \X Sids
AllKeys == Keys \cup {NoKey}
Passwords == {Empty, Permanent, Wrong} \cup Nat    \* n: temporary password no. n

\* OsTerminal is a terminal login that carries operating-system credentials.
TypeOf(scope) == IF scope = "OsTerminal" THEN "Terminal" ELSE scope

VARIABLES
    conn,        \* conn[c]: the fields of struct Connection, see Local
    authed,      \* AUTHED_CONNS: [type, key] of c, or NotAuthed
    sharesClock, \* session_last_recv_time of c is the one in SESSIONS
    sessions,    \* SESSIONS: [pw, tfa, live] per key, or NoSession
    tempPw,      \* number of the current temporary password
    tempState,   \* TEMPORARY_PASSWORD_FAILURES
    trusted,     \* ids of the trusted devices
    switchUuid,  \* SWITCH_SIDES_UUID: "none", "fresh" or "stale" per peer
    earned,      \* history: keys for which a TOTP code was accepted
    verified,    \* history: those with no temporary-password login since then
    inserted,    \* history: switch-sides uuids handed out
    switched,    \* history: switch-sides uuids accepted
    misses       \* history: wrong attempts in a row at this temporary password

shared == <<sessions, sharesClock, tempPw, tempState, trusted, switchUuid>>
history == <<earned, verified, inserted, switched, misses>>
vars == <<conn, authed, shared, history>>

NotAuthed == [type |-> "None", key |-> NoKey]
NoSession == [pw |-> Empty, tfa |-> FALSE, live |-> FALSE, present |-> FALSE]
Authorized(c) == authed[c] # NotAuthed

Phases == {"new", "open", "verify", "accepted", "stored", "logon", "prepare",
           "ended", "tunnelled", "forward", "dropping", "gone"}
Local ==
    [phase : Phases, key : AllKeys, pw : Passwords, scope : ScopeNames,
     twoFa : {"off", "pending", "cleared"},   \* off, require_2fa is Some, taken
     fromSwitch : BOOLEAN,
     primary : {"None", "Temporary", "Permanent", "Click", "SwitchSides"},
     second : {"None", "Totp", "TrustedDevice"},
     cmUp : BOOLEAN,        \* the CM process is attached (start_cm_ipc_para taken)
     asked : BOOLEAN,       \* the CM was asked to accept or refuse c
     token : BOOLEAN,       \* terminal_user_token is Some
     caller : {"login", "2fa", "cm", "ask"}]  \* handler that awaits the logon
     \* pw and caller are read only while a handler runs and are forgotten
     \* when it returns.

Fresh ==
    [phase |-> "new", key |-> NoKey, pw |-> Empty, scope |-> "Remote",
     twoFa |-> "off", fromSwitch |-> FALSE, primary |-> "None", second |-> "None",
     cmUp |-> FALSE, asked |-> FALSE, token |-> FALSE, caller |-> "login"]

\* The handler returns true: the next message is awaited.
Idle(l) == [l EXCEPT !.phase = "open", !.pw = Empty, !.caller = "login"]

\* The handler returns false, or closes the connection: the loop is left.
Ended(l) == [l EXCEPT !.phase = "ended", !.pw = Empty, !.caller = "login"]

Init ==
    /\ conn = [c \in Conns |-> Fresh]
    /\ authed = [c \in Conns |-> NotAuthed]
    /\ sharesClock = [c \in Conns |-> FALSE]
    /\ sessions = [k \in AllKeys |-> NoSession]
    /\ tempPw = 1
    /\ tempState = [pw |-> 0, failures |-> 0]
    /\ trusted = {}
    /\ switchUuid = [p \in Peers |-> "none"]
    /\ earned = {} /\ verified = {}
    /\ inserted = 0
    /\ switched = 0
    /\ misses = 0

-----------------------------------------------------------------------------
(* SESSIONS *)

\* Replace the map; a removed session takes its clock with it.
SetSessions(s) ==
    /\ sessions' = s
    /\ sharesClock' = [c \in Conns |-> sharesClock[c] /\ s[authed[c].key].present]

\* The retain of is_recent_session: sessions idle for 30 s are dropped.
Retained == [k \in AllKeys |-> IF sessions[k].live THEN sessions[k] ELSE NoSession]

\* A message of c moves the clock it shares with its session.
Touched(c, s) == IF sharesClock[c] THEN [s EXCEPT ![authed[c].key].live = TRUE] ELSE s

\* is_recent_session(false) and is_recent_session(true), over the retained map
RecentPassword(s, k, pw) == pw # Empty /\ s[k].present /\ s[k].pw = pw
RecentTfa(s, k, pw) == pw # Empty /\ s[k].present /\ s[k].tfa

\* Variant for mutation: the second factor is not reset by a password login.
Bug_PasswordKeepsTfa(s, k, pw) ==
    [s EXCEPT ![k] = [pw |-> pw, tfa |-> s[k].tfa, present |-> TRUE,
                      live |-> IF s[k].present THEN s[k].live ELSE TRUE]]

\* update_or_insert_session(key, Some(pw), Some(false))
WithPassword(s, k, pw) ==
    [s EXCEPT ![k] = [pw |-> pw, tfa |-> FALSE, present |-> TRUE,
                      live |-> IF s[k].present THEN s[k].live ELSE TRUE]]

\* set_session_2fa(key)
WithTfa(s, k) ==
    [s EXCEPT ![k] = [pw |-> s[k].pw, tfa |-> TRUE, present |-> TRUE,
                      live |-> IF s[k].present THEN s[k].live ELSE TRUE]]

\* Variant for mutation: the other connections of the session are forgotten.
Bug_RemoveAlways(c, s) == [s EXCEPT ![conn[c].key] = NoSession]

\* check_remove_session(c, session_key of c)
CheckRemoveSession(c, s) ==
    LET k == conn[c].key
        another_remote == \E d \in Conns \ {c} : authed[d] = [type |-> "Remote", key |-> k]
    IN  IF authed[c].type = "Remote" \/ ~another_remote THEN [s EXCEPT ![k] = NoSession] ELSE s

(* The temporary password *)

update_temporary_password ==
    /\ tempPw' = tempPw + 1
    /\ misses' = 0

\* Variant for mutation: off by one, the password is replaced a failure late.
Bug_RotateLate(success, enabled) ==
    LET seen == IF tempState.pw = tempPw THEN tempState.failures ELSE 0
        rotate == ~success /\ seen >= MaxConsecutiveFailures
    IN  IF ~enabled
        THEN UNCHANGED <<tempPw, tempState, misses>>
        ELSE IF rotate
        THEN /\ tempPw < MaxGeneration
             /\ update_temporary_password
             /\ tempState' = [pw |-> tempPw + 1, failures |-> 0]
        ELSE /\ tempState' = [pw |-> tempPw, failures |-> IF success THEN 0 ELSE seen + 1]
             /\ misses' = IF success THEN 0 ELSE misses + 1
             /\ UNCHANGED tempPw

\* check_update_temporary_password(success); enabled: temporary_enabled()
check_update_temporary_password(success, enabled) ==
    LET seen == IF tempState.pw = tempPw THEN tempState.failures ELSE 0
        rotate == ~success /\ seen + 1 >= MaxConsecutiveFailures
    IN  IF ~enabled
        THEN UNCHANGED <<tempPw, tempState, misses>>
        ELSE IF rotate
        THEN /\ tempPw < MaxGeneration
             /\ update_temporary_password
             /\ tempState' = [pw |-> tempPw + 1, failures |-> 0]
        ELSE /\ tempState' = [pw |-> tempPw, failures |-> IF success THEN 0 ELSE seen + 1]
             /\ misses' = IF success THEN 0 ELSE misses + 1
             /\ UNCHANGED tempPw

-----------------------------------------------------------------------------
(* Opening a connection *)

\* on_open succeeds; require_2fa is read once, here.
Open(c) ==
    /\ conn[c].phase = "new"
    /\ \E required \in Require2fa :
          conn' = [conn EXCEPT ![c] = [conn[c] EXCEPT !.phase = "open", !.twoFa = required]]
    /\ UNCHANGED <<authed, shared, history>>

\* on_open fails: not on the whitelist, or the main window must be open.
OpenRefused(c) ==
    /\ conn[c].phase = "new"
    /\ conn' = [conn EXCEPT ![c].phase = "gone"]
    /\ UNCHANGED <<authed, shared, history>>

-----------------------------------------------------------------------------
(* LoginRequest *)

Requests == [key : Keys, pw : Offered \cup 1..tempPw, scope : Scopes]

\* handle_login_request_without_validation, and the scope of the request;
\* known: the device of the request is a trusted one and not outdated.
Requested(c, r, known) ==
    [conn[c] EXCEPT !.key = r.key, !.pw = r.pw, !.scope = r.scope,
                    !.twoFa = IF known THEN "cleared" ELSE @,
                    !.second = IF known THEN "TrustedDevice" ELSE @,
                    !.cmUp = @ \/ r.scope # "OsTerminal",
                    !.caller = "login"]

MayBeKnown(c, r, known) == known => conn[c].twoFa = "pending" /\ r.key[1] \in trusted

LoginStarts(c, r, known) ==
    /\ conn[c].phase = "open"
    /\ ~Authorized(c)
    /\ r \in Requests
    /\ known \in BOOLEAN
    /\ MayBeKnown(c, r, known)

\* No permission for the scope, privacy mode of another connection, a wrong
\* id, no console user: the handler returns false.
LoginRefused(c) ==
    /\ \E r \in Requests, known \in BOOLEAN :
          /\ LoginStarts(c, r, known)
          /\ conn' = [conn EXCEPT ![c] = Ended(Requested(c, r, known))]
    /\ UNCHANGED <<authed, shared, history>>

\* Variant for mutation: the early return after the error is missing.
Bug_NotReadyGoesOn(c) ==
    /\ \E r \in Requests, known \in BOOLEAN :
          /\ LoginStarts(c, r, known)
          /\ conn' = [conn EXCEPT ![c] = [Requested(c, r, known) EXCEPT !.phase = "logon"]]
    /\ UNCHANGED <<authed, shared, history>>

\* The headless desktop cannot be started: an error is sent, c stays.
LoginNotReady(c) ==
    /\ \E r \in Requests, known \in BOOLEAN :
          /\ LoginStarts(c, r, known)
          /\ conn' = [conn EXCEPT ![c] = Idle(Requested(c, r, known))]
    /\ UNCHANGED <<authed, shared, history>>

\* The local user must accept: approve mode "click", or "both" without a
\* usable password.
LoginByClick(c) ==
    /\ \E r \in Requests, known \in BOOLEAN :
          /\ LoginStarts(c, r, known)
          /\ conn' = [conn EXCEPT ![c] =
               IF r.scope = "OsTerminal"
               THEN [Requested(c, r, known) EXCEPT !.phase = "prepare", !.caller = "ask"]
               ELSE [Idle(Requested(c, r, known)) EXCEPT !.asked = TRUE]]
    /\ UNCHANGED <<authed, shared, history>>

\* The password is that of a session seen within the last 30 s.
LoginRecent(c) ==
    /\ \E r \in Requests, known \in BOOLEAN :
          /\ LoginStarts(c, r, known)
          /\ RecentPassword(Retained, r.key, r.pw)
          /\ \/ conn' = [conn EXCEPT ![c] = [Requested(c, r, known) EXCEPT
                                               !.phase = "logon", !.primary = "Temporary"]]
             \/ conn' = [conn EXCEPT ![c] = [Idle(Requested(c, r, known)) EXCEPT
                                               !.primary = "Temporary"]]  \* desktop not ready
    /\ SetSessions(Retained)
    /\ UNCHANGED <<authed, tempPw, tempState, trusted, switchUuid, history>>

\* An empty password: the local user may accept.
LoginEmpty(c) ==
    /\ \E r \in Requests, known \in BOOLEAN :
          /\ LoginStarts(c, r, known)
          /\ r.pw = Empty
          /\ \/ conn' = [conn EXCEPT ![c] =
                  IF r.scope = "OsTerminal"
                  THEN [Requested(c, r, known) EXCEPT !.phase = "prepare", !.caller = "ask"]
                  ELSE [Idle(Requested(c, r, known)) EXCEPT !.asked = TRUE]]
             \/ conn' = [conn EXCEPT ![c] = Idle(Requested(c, r, known))]  \* desktop not ready
    /\ SetSessions(Retained)
    /\ UNCHANGED <<authed, tempPw, tempState, trusted, switchUuid, history>>

\* A password to verify; check_failure(0) may stop the attempt.
LoginPassword(c) ==
    /\ \E r \in Requests, known \in BOOLEAN :
          /\ LoginStarts(c, r, known)
          /\ r.pw # Empty
          /\ ~RecentPassword(Retained, r.key, r.pw)
          /\ \/ conn' = [conn EXCEPT ![c] = [Requested(c, r, known) EXCEPT !.phase = "verify"]]
             \/ conn' = [conn EXCEPT ![c] = Idle(Requested(c, r, known))]
    /\ SetSessions(Retained)
    /\ UNCHANGED <<authed, tempPw, tempState, trusted, switchUuid, history>>

(* validate_password *)

\* Variant for mutation: the password before the current one is accepted too.
Bug_AcceptsPrevious(c) ==
    /\ conn[c].phase = "verify"
    /\ conn[c].pw \in {tempPw - 1, tempPw}
    /\ conn' = [conn EXCEPT ![c] = [conn[c] EXCEPT !.phase = "accepted", !.primary = "Temporary"]]
    /\ UNCHANGED <<authed, shared, history>>

\* The temporary password is read and matches; it is stored a step later.
ValidateTemporary(c) ==
    /\ conn[c].phase = "verify"
    /\ conn[c].pw = tempPw
    /\ conn' = [conn EXCEPT ![c] = [conn[c] EXCEPT !.phase = "accepted", !.primary = "Temporary"]]
    /\ UNCHANGED <<authed, shared, history>>

\* The session stores the password and forgets the second factor.
AcceptTemporary(c) ==
    /\ conn[c].phase = "accepted"
    /\ SetSessions(WithPassword(sessions, conn[c].key, conn[c].pw))
    /\ verified' = verified \ {conn[c].key}
    /\ conn' = [conn EXCEPT ![c].phase = "stored"]
    /\ UNCHANGED <<authed, tempPw, tempState, trusted, switchUuid,
                   earned, inserted, switched, misses>>

\* The wrong attempts are forgotten, and the handler goes on to the logon or,
\* when the desktop is not ready, to an error.
ResetFailures(c) ==
    /\ conn[c].phase = "stored"
    /\ \E enabled \in BOOLEAN : check_update_temporary_password(TRUE, enabled)
    /\ \/ conn' = [conn EXCEPT ![c].phase = "logon"]
       \/ conn' = [conn EXCEPT ![c] = Idle(conn[c])]
    /\ UNCHANGED <<authed, sessions, sharesClock, trusted, switchUuid,
                   earned, verified, inserted, switched>>

ValidatePermanent(c) ==
    /\ conn[c].phase = "verify"
    /\ conn[c].pw = Permanent
    /\ \/ conn' = [conn EXCEPT ![c] = [conn[c] EXCEPT !.phase = "logon", !.primary = "Permanent"]]
       \/ conn' = [conn EXCEPT ![c] = [Idle(conn[c]) EXCEPT !.primary = "Permanent"]]
    /\ UNCHANGED <<authed, shared, history>>

\* Neither matches, or the kind of password that would match is disabled.
ValidateWrong(c) ==
    /\ conn[c].phase = "verify"
    /\ \E enabled \in BOOLEAN : check_update_temporary_password(FALSE, enabled)
    /\ \E ready \in BOOLEAN :
          conn' = [conn EXCEPT ![c] = [Idle(conn[c]) EXCEPT !.asked = conn[c].asked \/ ready]]
    /\ UNCHANGED <<authed, sessions, sharesClock, trusted, switchUuid,
                   earned, verified, inserted, switched>>

-----------------------------------------------------------------------------
(* send_logon_response_and_keep_alive *)

\* Variant for mutation: any recent session of the key stands for its code.
Bug_AnyRecentSession(c) ==
    /\ conn[c].twoFa = "pending"
    /\ ~(conn[c].pw # Empty /\ Retained[conn[c].key].present)
    /\ ~conn[c].fromSwitch

RequiresTfa(c) ==
    /\ conn[c].twoFa = "pending"
    /\ ~RecentTfa(Retained, conn[c].key, conn[c].pw)
    /\ ~conn[c].fromSwitch

\* Variant for mutation: the session key is registered in place of the device.
Bug_TrustSessionKey(c) ==
    \E add \in BOOLEAN :
        trusted' = IF add /\ conn[c].caller = "2fa"
                   THEN trusted \cup {conn[c].key} ELSE trusted

\* The id of the device that made the last login request, if there was one.
Device(k) == IF k = NoKey THEN NoKey ELSE k[1]

\* The Auth2fa handler may register the device once the logon has returned.
Trust(c) ==
    \E add \in BOOLEAN :
        trusted' = IF add /\ conn[c].caller = "2fa"
                   THEN trusted \cup {Device(conn[c].key)} ELSE trusted

LogonAlready(c) ==
    /\ conn[c].phase = "logon"
    /\ Authorized(c)
    /\ conn' = [conn EXCEPT ![c] = [Idle(conn[c]) EXCEPT !.phase =
         IF conn[c].caller = "cm" /\ authed[c].type = "PortForward" THEN "tunnelled" ELSE "open"]]
    /\ Trust(c)
    /\ UNCHANGED <<authed, sessions, sharesClock, tempPw, tempState, switchUuid, history>>

\* REQUIRE_2FA is sent; the connection is kept and the CM is told.
LogonNeedsTfa(c) ==
    /\ conn[c].phase = "logon"
    /\ ~Authorized(c)
    /\ RequiresTfa(c)
    /\ conn' = [conn EXCEPT ![c] = [Idle(conn[c]) EXCEPT !.asked = TRUE]]
    /\ SetSessions(Retained)
    /\ UNCHANGED <<authed, tempPw, tempState, trusted, switchUuid, history>>

LogonProceeds(c) ==
    /\ conn[c].phase = "logon"
    /\ ~Authorized(c)
    /\ ~RequiresTfa(c)
    /\ IF conn[c].twoFa = "pending"
       THEN /\ conn' = [conn EXCEPT ![c] = [conn[c] EXCEPT
                 !.phase = "prepare",
                 !.second = IF RecentTfa(Retained, conn[c].key, conn[c].pw)
                            THEN "Totp" ELSE conn[c].second]]
            /\ SetSessions(Retained)
       ELSE /\ conn' = [conn EXCEPT ![c].phase = "prepare"]
            /\ UNCHANGED <<sessions, sharesClock>>
    /\ UNCHANGED <<authed, tempPw, tempState, trusted, switchUuid, history>>

\* prepare_terminal_login_for_authorization or connect_port_forward_if_needed
\* fails; the first is skipped when a token is held from an earlier login.
PrepareFails(c) ==
    /\ conn[c].phase = "prepare"
    /\ \/ conn[c].scope \in {"Terminal", "OsTerminal"} /\ ~conn[c].token
       \/ conn[c].scope = "PortForward"
    /\ conn' = [conn EXCEPT ![c] = Ended(conn[c])]
    /\ UNCHANGED <<authed, shared, history>>

\* prepare_terminal_login_for_authorization succeeds or has nothing to do.
Prepared(c) ==
    [conn[c] EXCEPT
       !.token = @ \/ conn[c].scope \in {"Terminal", "OsTerminal"},
       !.cmUp = @ \/ (conn[c].scope = "OsTerminal" /\ ~conn[c].token)]

\* Credentials of the operating system were right; the local user is asked.
PreparedAsk(c) ==
    /\ conn[c].phase = "prepare"
    /\ conn[c].caller = "ask"
    /\ conn' = [conn EXCEPT ![c] = [Idle(Prepared(c)) EXCEPT !.asked = TRUE]]
    /\ UNCHANGED <<authed, shared, history>>

\* authorized = true, AuthedConnID::new, session_last_recv_time and
\* normalize_conn_audit_auth_fields.  A tunnel leaves the message loop at
\* once, or stays while a TestDelay is unanswered.
Grant(c) ==
    /\ conn[c].phase = "prepare"
    /\ conn[c].caller # "ask"
    /\ \E p \in IF conn[c].scope # "PortForward" THEN {"open"}
              ELSE IF conn[c].caller = "cm" THEN {"tunnelled"} ELSE {"open", "tunnelled"} :
          conn' = [conn EXCEPT ![c] =
             [Idle(Prepared(c)) EXCEPT
                !.phase = p,
                !.second = IF conn[c].primary \in {"Click", "SwitchSides"}
                           THEN "None" ELSE conn[c].second]]
    /\ authed' = [authed EXCEPT ![c] = [type |-> TypeOf(conn[c].scope), key |-> conn[c].key]]
    /\ sharesClock' = [sharesClock EXCEPT ![c] = sessions[conn[c].key].present]
    /\ Trust(c)
    /\ UNCHANGED <<sessions, tempPw, tempState, switchUuid, history>>

-----------------------------------------------------------------------------
(* The other messages that lead to a logon *)

\* Messages of a limited session type other than Remote never get this far.
InScope(c) == ~Authorized(c) \/ authed[c].type = "Remote"

\* The local user accepts in the CM; the click may cross other messages.
CmAuthorize(c) ==
    /\ conn[c].phase = "open"
    /\ conn[c].cmUp /\ conn[c].asked
    /\ conn' = [conn EXCEPT ![c] = [conn[c] EXCEPT
                   !.phase = "logon", !.caller = "cm", !.primary = "Click",
                   !.twoFa = IF conn[c].twoFa = "pending" THEN "cleared" ELSE conn[c].twoFa]]
    /\ UNCHANGED <<authed, shared, history>>

\* Auth2fa with the right code (a wrong one, or none pending, changes only
\* the limiter).
Auth2fa(c) ==
    /\ conn[c].phase = "open"
    /\ InScope(c)
    /\ conn[c].twoFa = "pending"
    /\ conn' = [conn EXCEPT ![c] = [conn[c] EXCEPT !.phase = "logon", !.caller = "2fa",
                                        !.twoFa = "cleared", !.second = "Totp"]]
    /\ SetSessions(WithTfa(Touched(c, sessions), conn[c].key))
    /\ earned' = earned \cup {conn[c].key}
    /\ verified' = verified \cup {conn[c].key}
    /\ UNCHANGED <<authed, tempPw, tempState, trusted, switchUuid, inserted, switched, misses>>

\* Variant for mutation: the uuid is looked up and not removed.
Bug_UuidStays(p) == [q \in Peers |-> IF switchUuid[q] = "stale" THEN "none" ELSE switchUuid[q]]

\* The uuids left after retain and after removing that of peer p.
UuidsWithout(p) ==
    [q \in Peers |-> IF q = p \/ switchUuid[q] = "stale" THEN "none" ELSE switchUuid[q]]

\* SwitchSidesResponse with the uuid the local user's request handed out.
SwitchSides(c) ==
    /\ conn[c].phase = "open"
    /\ InScope(c)
    /\ \E k \in Keys, known \in BOOLEAN :
          LET r == [key |-> k, pw |-> Empty, scope |-> "Remote"]
          IN  /\ switchUuid[k[1]] = "fresh"
              /\ switchUuid' = UuidsWithout(k[1])
              /\ MayBeKnown(c, r, known)
              /\ \/ conn' = [conn EXCEPT ![c] =
                         [Requested(c, r, known) EXCEPT
                            !.phase = "logon", !.fromSwitch = TRUE, !.primary = "SwitchSides"]]
                    /\ switched' = switched + 1
                 \/ conn' = [conn EXCEPT ![c] = Ended(conn[c])]  \* not a desktop session
                    /\ UNCHANGED switched
    /\ SetSessions(Touched(c, sessions))
    /\ UNCHANGED <<authed, tempPw, tempState, trusted, earned, verified, inserted, misses>>

\* A uuid that does not match still uses up the stored one.
SwitchSidesMismatch(c) ==
    /\ conn[c].phase = "open"
    /\ InScope(c)
    /\ \E p \in Peers : /\ switchUuid[p] # "none"
                        /\ switchUuid' = UuidsWithout(p)
    /\ SetSessions(Touched(c, sessions))
    /\ UNCHANGED <<conn, authed, tempPw, tempState, trusted, history>>

\* Any other message of an authorized peer.
Traffic(c) ==
    /\ conn[c].phase = "open"
    /\ sharesClock[c]
    /\ SetSessions(Touched(c, sessions))
    /\ UNCHANGED <<conn, authed, tempPw, tempState, trusted, switchUuid, history>>

-----------------------------------------------------------------------------
(* The end of a connection *)

\* Stream errors, timeouts and a lost CM: the peer may retry.
Disconnect(c) ==
    /\ conn[c].phase = "open"
    /\ conn' = [conn EXCEPT ![c].phase = "ended"]
    /\ UNCHANGED <<authed, shared, history>>

\* send_close_reason_no_retry (CM, web console, service stop, inactivity), or
\* a CloseReason of the peer, which is a message and moves the clock.
CloseNoRetry(c) ==
    /\ conn[c].phase = "open"
    /\ conn' = [conn EXCEPT ![c].phase = "ended"]
    /\ \E s \in {sessions, Touched(c, sessions)} : SetSessions(CheckRemoveSession(c, s))
    /\ UNCHANGED <<authed, tempPw, tempState, trusted, switchUuid, history>>

\* A tunnel whose TestDelay has been answered.
EnterTunnel(c) ==
    /\ conn[c].phase = "open"
    /\ authed[c].type = "PortForward"
    /\ conn' = [conn EXCEPT ![c].phase = "tunnelled"]
    /\ UNCHANGED <<authed, shared, history>>

\* After the loop: the temporary password is replaced if c was authorized.
LeaveLoop(c) ==
    /\ conn[c].phase \in {"ended", "tunnelled"}
    /\ conn' = [conn EXCEPT ![c].phase = IF @ = "tunnelled" THEN "forward" ELSE "dropping"]
    /\ IF Authorized(c) THEN update_temporary_password ELSE UNCHANGED <<tempPw, misses>>
    /\ UNCHANGED <<authed, sessions, sharesClock, tempState, trusted, switchUuid,
                   earned, verified, inserted, switched>>

\* try_port_forward_loop returns an error.
ForwardEnds(c) ==
    /\ conn[c].phase = "forward"
    /\ conn' = [conn EXCEPT ![c].phase = "dropping"]
    /\ SetSessions(CheckRemoveSession(c, sessions))
    /\ UNCHANGED <<authed, tempPw, tempState, trusted, switchUuid, history>>

\* Connection and its AuthedConnID are dropped.
Drop(c) ==
    /\ conn[c].phase = "dropping"
    /\ conn' = [conn EXCEPT ![c] = [Fresh EXCEPT !.phase = "gone"]]
    /\ authed' = [authed EXCEPT ![c] = NotAuthed]
    /\ sharesClock' = [sharesClock EXCEPT ![c] = FALSE]
    /\ UNCHANGED <<sessions, tempPw, tempState, trusted, switchUuid, history>>

-----------------------------------------------------------------------------
(* The local user and time *)

InsertSwitchUuid(p) ==
    /\ inserted < MaxUuids
    /\ switchUuid' = [switchUuid EXCEPT ![p] = "fresh"]
    /\ inserted' = inserted + 1
    /\ UNCHANGED <<conn, authed, sessions, sharesClock, tempPw, tempState, trusted,
                   earned, verified, switched, misses>>

\* Ten seconds have passed.
UuidExpires(p) ==
    /\ switchUuid[p] = "fresh"
    /\ switchUuid' = [switchUuid EXCEPT ![p] = "stale"]
    /\ UNCHANGED <<conn, authed, sessions, sharesClock, tempPw, tempState, trusted, history>>

\* Thirty seconds without a message have passed.
SessionIdle(k) ==
    /\ sessions[k].live
    /\ sessions' = [sessions EXCEPT ![k].live = FALSE]
    /\ UNCHANGED <<conn, authed, sharesClock, tempPw, tempState, trusted, switchUuid, history>>

RefreshPassword ==
    /\ tempPw < MaxGeneration
    /\ update_temporary_password
    /\ UNCHANGED <<conn, authed, sessions, sharesClock, tempState, trusted, switchUuid,
                   earned, verified, inserted, switched>>

-----------------------------------------------------------------------------
ConnNext(c) ==
    \/ Open(c) \/ OpenRefused(c)
    \/ LoginRefused(c) \/ LoginNotReady(c) \/ LoginByClick(c) \/ LoginRecent(c)
    \/ LoginEmpty(c) \/ LoginPassword(c)
    \/ ValidateTemporary(c) \/ AcceptTemporary(c) \/ ResetFailures(c)
    \/ ValidatePermanent(c) \/ ValidateWrong(c)
    \/ LogonAlready(c) \/ LogonNeedsTfa(c) \/ LogonProceeds(c)
    \/ PrepareFails(c) \/ PreparedAsk(c) \/ Grant(c)
    \/ CmAuthorize(c) \/ Auth2fa(c) \/ SwitchSides(c) \/ SwitchSidesMismatch(c) \/ Traffic(c)
    \/ Disconnect(c) \/ CloseNoRetry(c) \/ EnterTunnel(c) \/ LeaveLoop(c) \/ ForwardEnds(c)
    \/ Drop(c)

Next ==
    \/ \E c \in Conns : ConnNext(c)
    \/ \E p \in Peers : InsertSwitchUuid(p) \/ UuidExpires(p)
    \/ \E k \in AllKeys : SessionIdle(k)
    \/ RefreshPassword

Spec == Init /\ [][Next]_vars

-----------------------------------------------------------------------------
(* Properties *)

Session == [pw : {Empty} \cup Nat, tfa : BOOLEAN, live : BOOLEAN, present : BOOLEAN]
AuthedConn == [type : {"None"} \cup ScopeNames, key : AllKeys]

\* The fields of struct Connection and the shared maps keep their ranges.
TypeOK ==
    /\ conn \in [Conns -> Local]
    /\ authed \in [Conns -> AuthedConn]
    /\ sharesClock \in [Conns -> BOOLEAN]
    /\ sessions \in [AllKeys -> Session]
    /\ tempPw \in Nat
    /\ tempState \in [pw : Nat, failures : Nat]
    /\ trusted \subseteq Peers \cup {NoKey}
    /\ switchUuid \in [Peers -> {"none", "fresh", "stale"}]
    /\ earned \subseteq AllKeys /\ verified \subseteq AllKeys
    /\ inserted \in Nat /\ switched \in Nat /\ misses \in Nat

\* Every authorized connection was authenticated: by a password, by the local
\* user, by a switch-sides uuid, or by the pending second factor.
AuthorizedWasAuthenticated ==
    \A c \in Conns : Authorized(c) => conn[c].primary # "None" \/ conn[c].second = "Totp"

\* A connection that opened with a second factor required is authorized only
\* with a second factor (a code, a recent session that had one, a trusted
\* device), by the local user's click, or as the reply to a switch of sides.
SecondFactorRespected ==
    \A c \in Conns :
        Authorized(c) /\ conn[c].twoFa # "off"
            => conn[c].second # "None" \/ conn[c].primary \in {"Click", "SwitchSides"}

\* A session remembers the second factor only if a code was accepted for it
\* after its last login with the temporary password, which forgets it; and a
\* device is a trusted one only if a code was accepted from it.
SecondFactorEarned ==
    /\ \A k \in AllKeys : sessions[k].tfa => k \in verified
    /\ \A p \in trusted : \E k \in earned : Device(k) = p

\* "Two-factor authentication": a connection admitted by a code has passed a
\* first factor as well.
CodeIsSecondFactor ==
    \A c \in Conns : Authorized(c) /\ conn[c].second = "Totp" => conn[c].primary # "None"

\* A switch-sides uuid admits at most one connection, however many race for it.
SwitchUuidOnce == switched <= inserted

\* No temporary password survives MAX_CONSECUTIVE_FAILURES wrong attempts in a
\* row, whichever connections they come from and whatever rotates it meanwhile.
ConsecutiveMissesBounded == misses < MaxConsecutiveFailures

\* Password number g would be accepted: a session stores it, or is about to.
Held(g) ==
    \/ \E k \in AllKeys : sessions[k].present /\ sessions[k].pw = g
    \/ \E c \in Conns : conn[c].phase = "accepted" /\ conn[c].pw = g

\* A replaced temporary password that no session remembers never comes back.
RetiredStaysRetired ==
    [][\A g \in 1..tempPw : g # tempPw /\ ~Held(g) => ~Held(g)']_vars

\* A session in use by an authorized remote connection is dropped only when
\* idle or when a remote connection closes, never by the close of a file
\* transfer or tunnel of the same session.
SessionKeptForRemote ==
    [][\A c \in Conns :
          /\ authed[c].type = "Remote"
          /\ sessions[authed[c].key].live
          /\ ~sessions'[authed[c].key].present
          => \E d \in Conns : authed[d].type = "Remote" /\ conn[d].phase = "open"
                              /\ conn'[d].phase = "ended"]_vars

\* "No two remote connections with the same session key" (check_remove_session).
OneRemotePerSession ==
    \A c, d \in Conns : c # d /\ authed[c].type = "Remote" => authed[c] # authed[d]
=============================================================================
