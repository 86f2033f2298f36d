# Formal models of remote-client

TLA+ models of the Rust core of remote-client, model-checked with TLC on small
instances and, for the properties that matter most, proved with TLAPS for every
value of the constants. The models follow the source, not the documentation;
`PROJECT.json` maps each definition to its lines.

## The system

The controlled side runs a `Server` (`src/server.rs`) that owns *services*
(video per display, audio, clipboard, input, terminal). Each incoming connection
is an async task (`src/server/connection.rs`) that handles one message at a time,
from the peer or from the connection manager (CM, the local window that accepts
and refuses). An unauthorized connection may only log in; an authorized one
subscribes to services. A service runs its own thread and sends to its
subscribers. Tasks and threads share global maps, each behind its own lock:
`LOGIN_FAILURES`, `SESSIONS`, `AUTHED_CONNS`, `SWITCH_SIDES_UUID`, the temporary
password, `DISPLAY_CONN_IDS` and `FRAME_FETCHED_NOTIFIERS`. A lock is held for a
read or an update, not for a handler, so what a task read may be stale when it
acts.

The controlling side (`src/client.rs`, `src/client/io_loop.rs`) connects, logs in
and decodes. `src/rendezvous_mediator.rs` registers the device with a rendezvous
server. Around these are privacy mode, file transfer, clipboards, the terminal
service, IPC between local processes, the portable service, platform code and
the user interfaces. The protocol library `camellia_remote_protocol` is not in
the tree; what the code uses of it is modelled from the calls and marked
external.

### Inventory

| Part | Source | State |
| --- | --- | --- |
| Login-attempt limiter | `server/connection.rs` | modelled: `LoginFailures` |
| Connection authorization, sessions, temporary password | `server/connection.rs` | all but permissions, audit and the switching side: `Connection` |
| Service subscriptions, `Server` | `server/service.rs`, `server.rs` | one service: `VideoService` |
| Video service | `server/video_service.rs` | partly: `VideoService` |
| Authorized-connection registry | `server/connection.rs` | partly: `Connection` |
| Connection after authorization | `server/connection.rs` | partly |
| OS credential backoff | `server/login_failure_check.rs` | planned |
| Privacy mode | `privacy_mode.rs`, `privacy_mode/` | planned |
| Video quality of service | `server/video_qos.rs` | planned |
| Terminal service and helper | `server/terminal_*.rs` | planned |
| Rendezvous mediator | `rendezvous_mediator.rs` | planned |
| Client connection and loop | `client.rs`, `client/io_loop.rs` | planned |
| File transfer, CM interface | `ipc/fs.rs`, `ui_cm_interface.rs` | planned |
| Clipboards | `clipboard*.rs`, `libs/clipboard` | planned |
| IPC, portable service | `ipc.rs`, `ipc/auth.rs`, `server/portable_service.rs` | planned |
| Display, input, audio services | `server/*_service.rs` | mostly device I/O |
| Codecs, capture, platform, UI, languages, packaging | `libs/`, `platform/`, `flutter*` | not modelled |

## Modules

**LoginFailures** models one of the two maps of wrong attempts (passwords, and
second factors). An attempt is a sequence of separately locked steps: the
netblock entries and the address entry are read one after the other
(`CheckBlocked`, `CheckAllowed`), the credential is verified without a lock, and
the outcome is recorded (`RecordWrong`, `RecordRight`, `NoVerdict`). An attempt
reads the wall clock once, as it begins; `ClockSetBack` says whether the clock
may go back between attempts. The history `log` keeps, for each key, the minutes
of the wrong attempts in the order they were recorded; the properties count
these, not the counters of the code.

**Connection** models authorization. A connection's fields are one record;
`authed`, `sessions`, `tempPw`, `tempState`, `trusted` and `switchUuid` are the
shared maps. A handler is cut into several actions where another task can run:
a `LoginRequest` is received (`Login...`), the password verified
(`Validate...`; a matching temporary password is stored in the session,
`AcceptTemporary`, and then the count of wrong ones is reset, `ResetFailures`,
each under its own lock), the logon decided
(`LogonAlready`, `LogonNeedsTfa`, `LogonProceeds`), the terminal or tunnel
prepared, and the connection registered (`Grant`). `CmAuthorize`, `Auth2fa` and
`SwitchSides` are the other ways to the logon. Configuration is read afresh at
each use and may change at any time, so an option is a free choice. The limiter
appears as a free verdict. The handler of `Auth2fa` completes a logon on its
own, without looking at how the password step ended: this is what the code does,
and why `AuthorizedWasAuthenticated` counts an accepted code as authentication;
the run `conn_code_alone` reports it. Two histories record accepted codes:
`earned` keeps every session key that had one, `verified` only those without a
login by temporary password since, which is when the session must ask again.

**VideoService** models one video service: the maps `subscribes` and
`new_subscribes`, the connection tasks that change them under the write lock of
`Server`, and the capture thread, which does not take that lock. `is_subed` is
two steps, as it locks twice. The thread sets up an encoder, runs its checks,
captures, decides about new subscribers, sends, publishes whom it waits for, and
waits for acknowledgements up to three seconds. Codec, display and privacy-mode
changes are one action, `SwitchOnChange`. The histories `started` and `viewers`
say whether the encoder at work has put out a frame, and who got the last one
and is still subscribed.

`MCLoginFailures`, `MCConnection` and `MCVideoService` instantiate them for TLC.
The operators named `Bug_...` are variants of the definition that follows them,
each a plausible slip; with one in place the property named in `PROJECT.json`
fails, so no property holds vacuously.

## Runs

| Run | Checks | Result |
| --- | --- | --- |
| `login_failures` | no failure lost; totals overshot by at most the attempts in flight; attempts of one minute bounded while outcomes are recorded in order; lockout is permanent | holds |
| `login_minute_rule` | over the limit of the current minute, "Please try 1 minute later" | violated |
| `conn_two_factor` | authorized implies authenticated; second factor respected; remembered only where a code was accepted since the last temporary-password login | holds |
| `conn_passwords` | a uuid admits once; wrong attempts rotate the password in time; retired passwords stay retired | holds |
| `conn_scopes` | closing a tunnel or terminal keeps the session of a remote connection | holds |
| `conn_one_remote` | "No two remote connections with the same session key" | violated |
| `conn_code_alone` | a code is a second factor, after another | violated |
| `video_service` | no subscriber after removal; no subscription and no refresh lost; newcomers get a new encoder unless everybody watching has left | holds |
| `video_live` | refreshes and new subscribers are served | holds |
| `video_unsubscribe` | an unsubscription takes effect | violated |
| `video_early_break` | the wait ends early only when the current frame was received | violated |

The five violations are places where a comment or a message of the program
promises more than the code does:

- An entry of the limiter counts the attempts of one minute. An attempt that
  began before the minute changed and is recorded after a newer one sets the
  entry back to the old minute, so the newer minute is counted from 1 again. Late
  records need no change of the clock: the run has `ClockSetBack = FALSE`. While
  outcomes are recorded in the order of their minutes the rule does hold
  (`MinuteBounded`), and the totals hold in any order (`TotalBounded`).
- A TOTP code alone authorizes a connection that was opened with a second factor
  required: `Auth2fa` checks `require_2fa`, which is set as the connection opens,
  and not that a first factor was given.
- Two remote connections can hold one session key when a peer logs in again
  before its old connection is gone. When one of them is closed without retry,
  `check_remove_session` removes the session the other still uses: it keeps a
  session only when the closing connection is not a remote one.
  `SessionKeptForRemote` is about that case, the close of a tunnel or terminal.
- `is_subed` reads its two maps under two locks. A swap by the capture thread in
  between hides a subscriber from both reads, and `Server::subscribe(.., false)`
  returns without unsubscribing. The opposite slip cannot happen
  (`SubscribeHonoured`).
- Acknowledgements carry no frame number. One that arrives after the wait for
  its frame timed out is counted for the next frame.

### Bounds

- Limiter: two connections of one address and one neighbour; limits of 1 to 3
  for the code's 30 to 100, and 0 for the 6 per minute, so that each rule blocks
  within a few attempts and concurrent attempts overshoot it. `login_minute_rule`
  has 1 per minute and totals of 4, so that the rule for one minute is the one
  that decides.
- Connection: two connections of one peer and one session id, which is where
  they share everything. Each run offers the passwords, scopes and second-factor
  setting of its question. `MaxConsecutiveFailures` is 2 (10 in the code);
  `MaxGeneration` bounds the rotations caused by wrong attempts and by the user,
  `MaxUuids` the switch-sides requests.
- Video: two connections, so that one watches while the other joins.
  `MaxUnacked` saturates the history `unacked`: the value stands for that many
  frames or more (`OneMore`, a bound of the model without counterpart in the code).
  `MaxSwitches` bounds restarts caused from outside; it is 0 in the liveness run,
  which therefore assumes that these causes cease.
- Symmetry over connections is used only in runs without liveness properties.
- Deadlock checking is off for `Connection` and `VideoService`: connections end
  for good, and the capture thread exits when the service is joined.

### Fairness

`FairSpec` of `VideoService` assumes weak fairness of the capture thread (it is
an OS thread), weak fairness of `WaitTimeout` (the wait has a deadline), and
strong fairness of `SetupEncoder` and `Snapshot`: a set-up that is tried again
and again succeeds at some time, and a frame is captured now and then. Nothing is
assumed of connections: they may never acknowledge, stall or die.
`NewSubscriberServed` excepts times with a refresh pending, since peers that
refresh without end keep the thread restarting.

## Proofs

All theorems hold for every set of connections, keys and peers and all limits,
under the `ASSUME`s of the modules (finiteness of the connections, distinct
constants, limits that are naturals).

- `LoginFailuresProofs`. `NothingLost` is inductive together with
  the types. `Bounded` is not:
  an attempt past its check may still add one. `TotalPlusInflight`, which counts
  those attempts with the total, is (`Overshoot`), and implies it. `Lockout` is
  an action property that needs only types.
- `ConnectionProofs`. `IInv` adds to types what each phase of a handler has
  established (`LocalInv`): nobody is authorized while verifying or preparing; a
  vouched login (click, switch of sides) left behind by an unfinished handler
  cannot be reused; a cleared second factor was given or vouched for; a
  preparation with the factor still pending comes from a remembered code or a
  switch. `Authenticated`, `SecondFactor` and `SecondFactorOnlyEarned` follow; the
  last says that an exempt session had a code accepted since its last login by
  temporary password, and an exempt device at some time.
  `MissesBounded` rests on `MissInv`: the history of misses equals the counter
  when the counter belongs to the current password. `UuidOnce` rests on
  `UuidInv`: uuids accepted and outstanding together never exceed those handed
  out.
- `VideoServiceProofs`. `IInv` adds that a requester stays until its request is
  done, that viewers are subscribed, that the audience of an encoder is either
  nobody or all subscribers, and that before its loop an encoder has put out
  nothing (`FreshBeforeLoop`); `NoGhost`, `Subscribes`, `FreshEncoder` and, as an
  action property, `RefreshKept` follow. The types are proved here
  (`TypeCorrect`) and not part of a run.

`JoinsSwitchEncoder` (`FreshEncoder`) has one exception, `Orphaned`. The snapshot
looks at new subscribers first and at old ones afterwards; if everybody who
watched leaves in between, the newcomer gets the running stream, and has to ask
for a refresh. The code makes no statement about this case.

Hazards without a property are listed in `PROJECT.json` with the reason. Three
races are in the models and no property judges them, since nothing in the
repository says which outcome is meant: which login a click of the local user is
for, whether a failure recorded during a successful login survives it, and
whether a second factor read just before another login resets it may be used.

Model-checked only: `MinuteBounded`, `RetiredStaysRetired`,
`SessionKeptForRemote`, and the liveness properties (fairness and `ENABLED` are
beyond the prover).

## Plan

1. `PrivacyMode`: owner, asynchronous turn-on with its 7.5 s timeout, the close
   path, and what a failed turn-on does to another owner.
2. `OsCredentialPolicy` (backoff, as functions and a state machine) and
   `AuthedConns` (wake lock, wallpaper, resolutions), composed with `Connection`.
3. `TerminalService`, `VideoQoS` (scaled integers against a reference), two
   video services on one acknowledgement channel.
4. `Rendezvous`, client login and reconnection composed with `Connection`, file
   transfer jobs, clipboard ownership, IPC and the portable service.
5. An abstract specification of a service (subscribe, unsubscribe, deliver) that
   `VideoService` implements, and of admission that `Connection` implements.
6. Proofs of `MinuteBounded`, `RetiredStaysRetired` and the safety of 1 to 3.

Not planned: user interfaces, translations, codecs and capture back ends,
platform calls and packaging, which are I/O or data without a protocol.
