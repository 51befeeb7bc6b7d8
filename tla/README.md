# SecureWebIotPlatform: specification and verification

TLA+ models of the parts of the platform whose correctness depends on the order
in which things happen: the event bus, the membership of domains and its copies
in other services, the rooms of sockets and what dashboards show of domains and
devices, pairing codes, accounts and their profiles, and the tokens of sessions and
of password resets. TLC checks them on small instances; TLAPS proves the most
important results for every value of the constants. Paths below are relative to `src/services` unless they start with
`app/`.

## 1. The system

| Part | State it keeps | Operations | What is hard |
|---|---|---|---|
| `eventbus` | server process: `isListening`; per worker: a semaphore, a loop, connections; in Redis: streams, consumer groups, pending entries (PEL) | `send`, `listen`, `processStream`, `processPendingMessages`, `close`; `init`, `start`, `stop` of the server, which forks the worker and talks to it by IPC | concurrency under a semaphore, crashes, failing handlers, a graceful stop across two processes |
| `domain` | Postgres: `domains`, `user_domains`, `user_roles`, profiles | create, delete, add, remove, leave, change role, transfer | checks in queries before the transaction; announcement after it |
| `devicecontrol` | Mongo: devices, telemetry, a copy of the roles; Redis: pairing codes; socket rooms | bus handlers, sockets, MQTT, pairing | copies fed by events in any order; a permission, a device or a code read before an await and used after it; two channels (HTTP, MQTT) that write one document |
| `ledger` | Postgres: transactions, a copy of the roles | bus handlers, one query | two transactions in each handler |
| `authentication` | Postgres: users; Redis: blocklist, reset tokens; cookies of the browser | register, login, refresh, logout, reset, change, delete | check and block in two round trips; several tabs; a reset token under two keys that are written one by one |
| `mailer` (Go) | none of its own | bus handlers that send mail | redelivery, shutdown of goroutines |
| `app` | access token, one refresh promise per tab; the list of domains; the devices of each domain | requests with a retry after 401; the dashboard's lists, socket events and own changes | answers that arrive after a logout; a list and events that overtake each other; broken connections |
| `common` | none | transaction wrapper, roles, validators, telemetry | process exit on signals |

How they interact: a service writes its database, then appends an event to a
Redis stream (`EventSender.send`). Every other service has a consumer group and
one forked worker process per instance, which runs the registered handlers. The
domain service is the origin of domains and roles; device control and the ledger
keep copies of the roles and decide by them. Authentication is the origin of
users. Requests come over HTTP, sockets and MQTT. Nothing is transactional across
a database and the bus.

What makes each part correct:

* event bus, service: a stop returns when the worker has gone, not earlier, and it does
  return; readiness is reported while the worker listens;
* event bus, worker: a message is acknowledged only after its handler resolved; tokens of
  the semaphore are conserved and no message waits while one is free; `close()`
  cuts no handler short and comes to an end;
* domain: the two tables of a membership agree; a domain has one owner, who is
  the only one to give the role away;
* copies: they converge to the original and grant nothing that was never granted;
* ledger: what is acknowledged is written down, and written down once unless
  something failed;
* devices: a pairing code makes one device, for a user who manages the domain; the
  state of a device is legal and says what the device has; a deletion is final and
  announced once;
* rooms: the sockets that receive what a domain's devices report are those of its members;
* dashboards: an up-to-date dashboard lists the domains its user is in and the devices
  there are, with the values they reported;
* accounts: a row has an address of its own; one reset token at a time, used once; an
  answer says what was done; profiles follow their accounts;
* tokens: a refresh token is good for one refresh; a session that has ended stays
  ended; of tabs that refresh at the same time one wins, and whatever the losers' pages then
  do, no browser is left with a token that has been used.

`PROJECT.json` lists the hazards at their lines with the properties that cover
them, and says why where none does.

## 2. Modules

```
AtLeastOnce            what the bus promises (abstract)
EventListener          a worker's listener + semaphore + Redis consumer group
  BusLifecycle           EXTENDS EventListener: the server process and its worker
    EventBusProofs         both
DomainMembership       tables and requests of one domain
  DomainMembershipProofs also the lemmas about ReplicaDelivery
  ReplicaDelivery        EXTENDS DomainMembership: its events on their way to a subscriber
    DeviceControlReplica   the handlers of device control
      SocketRooms            sockets and the room of the domain
        DomainList             the list of domains on a dashboard
          ReplicaProofs
    LedgerReplica          the handlers of the ledger
      LedgerProofs
Capabilities           what devices can do, and the values that go with it (operators)
DeviceControl          EXTENDS Capabilities: devices, pairing codes, control, telemetry
  DeviceControlProofs
  Dashboard              EXTENDS DeviceControl: the devices a dashboard shows
    DashboardProofs        EXTENDS DeviceControlProofs
TokenRotation          refresh tokens, blocklist, browser
  TokenRotationProofs
Accounts               accounts and reset tokens of authentication
  Profiles               EXTENDS Accounts: the domain service's profiles, reset mails
    AccountsProofs         both
MC*                    model values, symmetry and bounds for the runs
```

### EventListener

JavaScript runs one callback at a time, so an action is what happens between two
awaits that really wait for I/O.

| Code | Model |
|---|---|
| Redis stream, group, PEL | `sent`, `group`, `pel`; `aged` are the entries idle for 60 s |
| `semaphore.count`, `.queue`, holders of a token | `count`, `queue`, `running` |
| `listening`, `waitPromise` | `listening`, `closing` |
| `init`, `processPendingMessages` | `Start`, `Claim` (one page of each stream, in order) |
| `listen` | `BeginListening`, `ReadGroup`; an answer on its way is `reply` |
| `processStream`: acquire, handler, then / catch / finally | `Receive` (all acquires of a batch), `HandlerSucceeds`, `HandlerFails`, both with `Release` |
| the un-awaited `xAck` | `acking` and `AckApplied` |
| `close`, exit of the worker | `Close`, `Exit`, and `Crash` at any time |

`handled` and `failed` are history variables. What the error handler does, tracing
and the block time (an empty answer changes nothing) are left out.

### BusLifecycle

A service as two processes. It extends `EventListener`, whose actions happen here when
a flag or the running worker causes them.

| Code | Model |
|---|---|
| `index.ts`: `app.listen`, `EventBus.init`, `start` | `Boot`, `Fork` (sends CREATE and START) |
| the IPC channel | `toWorker`, `toServer`, two queues; the event `exit` comes last |
| handlers of the flags | `WorkerHears` (`Create`, `StartListening`, `StopListening`), `ServerHears` |
| `onReady`, a loop that rejects, `close()` resolved | `ReportReady`, `ReportError`, `ReportStopped` |
| `shutdown`, `stop`, `waitForStop` | `Shutdown`, `Stop`, `StopReturns` |
| the telemetry's `process.exit`, a second signal | `CutShort` |
| the worker's own SIGINT and SIGTERM (`base_worker.ts:165`) | `WorkerSignalled` |
| a killed server, a worker that dies | `Killed`, `WorkerDies`; nobody forks another worker |

The server is process 1 of its container, so its end is the worker's (`Ends`); a
container that ended may be started again (`Boot`).

### DomainMembership

One domain. A request is a process with the program counter `check1`, `check2`,
`commit`, `publish`. Each query is an action, a transaction is one action
(`transactionWrap`; its statements take row locks until COMMIT) that repeats the
conditions the unique indexes and row counts impose and no others, because the
code repeats no others. Any transaction may be rolled back, any send may fail or
never happen. The validators and the services' checks of their arguments are the
set `Calls`. Soft-deleted rows are absent rows; the unique indexes cover live rows
only. The results of `updateRole` and `updateOwner` inside a transfer are ignored
by the code, hence `Regraded`. `overlapped` records which kinds of operations ran
while another request was open: the hypothesis under which ownership is safe.

### ReplicaDelivery, DeviceControlReplica, LedgerReplica

`ReplicaDelivery` reduces `EventListener` to what handlers can observe: a batch is
everything unread, handled concurrently in any order; a failed or rejected message
is parked; a restarted worker claims, stream by stream, whichever parked messages
have been idle long enough. A handler takes two steps after a fetch, its (first)
write and its end, so that a fault may come between them. Left out against
`EventListener`: the semaphore (100 tokens, at most 10 messages of each of five
streams) and the COUNT of a read.

`DeviceControlReplica` has `dcRole`, the live rows of Mongo's `UserRoles`. An
insert is refused by the unique index while a live row exists; update and delete
do nothing without one. `LedgerReplica` has `ledgerRole` and the bag `journal`:
the role is written in `Write`, the row in `Log`, or in `LogUnheard` when the answer to the
COMMIT is lost and the handler throws with its row written; a delete without a live row
throws, and additions and removals must name an initiator.

Handlers of `USER_DELETED` are not modelled there because they cannot succeed: the event
carries `userId` and they read `id` (`Profiles` has the one of the domain service).

### SocketRooms and DomainList

`SocketRooms` follows a socket of each user: it connects, reads its user's domains in
Mongo (`ReadDomains`), waits, and joins (`JoinRooms`). Meanwhile the bus worker, a
process of its own, publishes commands on Redis when a handler has written (`Tell`),
and the server obeys them in order (`Obey`). A command finds sockets by the room they
are in and passes by one that has read and not joined yet; `bypassed` remembers those,
and the users whose command is never published because the worker stopped first. A
new connection clears it unless a command about the user is still on its way
(`Commanded`), which may be as old as the copy the socket is about to read.

`DomainList` is the entry of one domain on the page of each user in `Watchers`, fed
from three sides that overtake one another:

| Code (`app/src/pages/dashboard`) | Model |
|---|---|
| GET `/domain` at start-up and after a new access token; GET after JOINED_DOMAIN | `ReadList`, `GetArrives`, `GetFails`, `Renew`, `Expired`, `HearJoined` |
| GET of the members, which a late answer adds to an entry that is gone | `ViewDetails`, `ReadUsers`, `GetArrives` |
| LEFT_DOMAIN, DOMAIN_DELETED, ROLE_UPDATED | `HearLeft`, `HearDeleted`, `HearRoleUpdated` |
| answers to the page's own creation, departure, deletion | `Created`, `Left`, `Deleted` |
| socket.io to the user's room or to the domain's | `Emit` (with `Obey`), `Break` |

What the page offers limits the requests of its user (`Offered`). A list joins the
user's roles with deleted rows included (`domain/src/models/domain_model.ts:74`), hence
`formerly`. `outdated` marks pages that lost or reordered what they were told, or that the
failing worker forgot to tell (`ServeBus`); the list they fetch clears it only if
nothing about their user is still at the server or in the socket (`Underway`).

### Capabilities and DeviceControl

A request, or a message of a socket or of MQTT, is a process whose program counter
names the answer it waits for. What the code does after an answer, up to its next
`await` on a database, Redis or the broker, is one action.

| Code (`devicecontrol/src`) | Model |
|---|---|
| `DeviceModel`: checks of capabilities and values, first state | `Acceptable`, `VerifyCapabilityValue`, `InitialValue` in `Capabilities` |
| live row of `UserRoles`; bus handlers that change it | `role`; `RoleChanges`, at any time |
| pairing code in Redis: SET NX EX, GETDEL, expiry | `code`; `SetCode`, `GetDel`, `Expire` |
| `create_pairing_code_service` | `CheckPermissions`, `SetCode` |
| `add_device_service` | `GetDel`, `CheckPermissions`, `Create`, `Tell`, `Send` |
| `delete_device_service`, `update_device_service` | `Find`, `CheckPermissions`, `Write`, `Tell`, `Send` |
| `device_control_update_handler` | `CheckPermissions`, `Find`, `Save`, `Publish`, `Tell` |
| `device_telemetry_handler` | `Find`, `Save`, `Tell` |
| `device_status_handler` | `Find`, `Tell` |
| a failing database, broker or Redis; a stopped process | `Fail`, at any wait |

Details that matter. A control names its domain itself, and the permission is
checked for that domain and not for the device's: `Calls` therefore leaves the two
independent. `findOne` returns a document whose values `save()` writes back one by
one (Mongoose sends the changed path only), without asking again whether the
device is live: `Save` changes one value, of a deleted device too. A device reports
from when the answer of its activation gave it a token (`HasToken`). The only field
that an update can change is `name`. `madeBy`, `managed`, `lost` and `shaky` are
history variables: which activation made a device, whose user managed the domain
meanwhile, which devices have a change whose event was not sent, and of which
devices two values overlapped, failed or were refused.

Left out: the telemetry collection (a row written without waiting, read by one
query), the characters of a pairing code (a member of `Codes` passes
`VerifyPairingCode`), and the command that a device may refuse: `onDevice` is what
the device reported or was sent.

### Dashboard

One domain, `Home`, as `app/src/pages/dashboard` shows it to users who stay members.
`listing` are the requests for the list (`AskForDevices`, `CheckMember`,
`FindDevices`, `DevicesArrive`, `RequestFails`): the effect that fetches runs again when a
token or another domain's entry changes, so several of one page, told apart by `Fetches`,
may be under way and the second answer replaces what the first brought; `shown` is the
entry of the domain in `domainDevices`, and `loaded` says that there is one.
`emitted[Home]` is what the service emitted to the room; `position` is how far a
socket has got with it (`Receive` applies the handlers of the socket's events,
`Changed`). `Disconnect` and `Connect` lose what was emitted in between, and the
page does not fetch the list again. `Turn` is a control: it changes the card at
once. The page deletes and renames devices itself (`Edit`) and applies the answers
when they arrive (`DeleteDone`, `RenameDone`, `EditFails`), which may be after the
messages about the same device. A card has the fields `name`, `currentState` and `online`.

Left out: controls that are made while the socket is not connected (socket.io would
keep and send them later), and the change from one domain to another. The domains
themselves are in `DomainList`.

### TokenRotation

One user, one browser (`jar` is its cookie jar), any number of requests of any
tabs. A pair of refresh and xsrf token is one `jti`; `session` names the login it
descends from; `exp` is the expiry, which a rotation hands on. A refresh goes
through `called` (the xsrf cookie is read), `arriving` (the browser attaches the
cookies it has by then), `get` (verified; GET of the blocklist), `mint` (the GET
is answered; the new token is created), `set` (SET EX NX) and `reply`. `now` is in
seconds and may advance between any two of these; Redis may drop an entry at any
time from the second its time to live ends. Redis may fail, having executed the
command or not, and any request or answer may be lost. A logout and the end of an
account deletion treat the token alike.

A 401 is more than an answer: `AuthClientRequest.refresh` makes it `ErrInvalidRefreshToken`
(`app/src/helpers/client_request.ts:70`), and the pages call `logout()` for that
(`app/src/pages/dashboard/dashboard.tsx:86`, `:121`). A refresh that is answered 401, whether
`refused` with the cookies kept (header and cookie differ, or the token is blocked) or
`clear` (the cookie is not valid), is therefore `refused` after `Deliver`, and either
`PageLogsOut`, which turns it into a logout with whatever cookies the browser has by then,
or `PageIgnores`, when the page has been left. A refresh without an xsrf cookie is refused
without a request.

### Accounts and Profiles

`Accounts` has the requests of authentication, one process each; every query of
Postgres, command of Redis and send is an action.

| Code (`authentication/src`) | Model |
|---|---|
| table `users`; its soft delete; the unique index on `email`, which covers deleted rows | `live`, `gone`, `email`, `password`; `EmailFree` |
| the keys token -> user and user -> token, five minutes each | `resetUser`, `resetToken`; `ExpireToken`, `ExpireIndex` |
| `register_service`, `login_service`, `get_user_service` | `EmailTaken`, `Create`; `Login`; `GetUser` |
| `credential_change`, `delete_user` | `VerifyCurrent`, `Change`, `Delete` |
| `forgot_password`, `reset_password` | `Forgot`; `Redeem`, `ReadUser`, `Reset` |
| `InvalidateResetToken`, `CreateResetToken` | `LookUp`, `DropToken`, `DropIndex`; `SetToken`, `SetIndex` |
| the send and the answer; an await that throws | `Send`; `Fails` |

A hash is a tagged plaintext; a random token is one nobody else has. `raced` names the
users whose reset requests overlapped or broke off, `did` and `told` what requests have
changed and sent.

`Profiles` adds the profile table of the domain service, fed by the events in any order
with parked failures and restarts; `PATCH /profile/me`, which may change the address
there; and the mails of resets, from which alone a reset token is known. `createSetValues`
refuses a change that names a field the profile lacks, and for a change of nothing it makes
an UPDATE that Postgres refuses: `Applicable`.

## 3. Runs

| Run | Bounds | Shows |
|---|---|---|
| `listener_safety` | 2 workers, 1 stream of 3 messages, pages of 2, 1 token | `IInv`, `TokensConserved`, `WaitingMeansSaturated`, `DrainedIsIdle`, `NoWorkAfterClose`, and that the listener implements `AtLeastOnce` |
| `listener_live` | 1 service and its worker, 3 streams of 1 message, pages of 2, 1 token | `NewMessageAttempted`, `CloseTerminates`, `StopTerminates` under fairness, and `StopAwaitsTheWorker` |
| `domain_safety` | 3 users, 2 requests, all roles | `IInv`, `MembershipMatchesRole`, `OneOwnerUnlessTransferRaced`, `OnlyOwnersGrantOwnership` |
| `domain_one_owner` | same | violated: `ExactlyOneOwner` |
| `replica_safety` | 3 users, 2 requests, 2 roles to grant, 2 faults | `SpacedChangesConverge`, `OnlyRolesOnceHeld` |
| `ledger_safety` | 2 users, 2 requests, 1 role to grant, 2 faults | `SpacedChangesConverge`, `AcknowledgedIsJournalled`, `LoggedAgainOnlyAfterFaults` |
| `rooms_safety` | 2 users, one with a page, 2 requests, 1 fault or broken connection | `RoomsFollowRoles`, `PagesShowTheMembership` |
| `rotation_safety` | 3 requests, 4 tokens, lifetime 2 s, clock to 3 s | `IInv`, `OneLiveTokenPerSession`, `RacingTabsHaveAWinner`, `NoUsedTokenIsKept`, `EndedSessionsStayEnded` |
| `device_safety` | 1 user, 1 domain, 2 devices, 1 code, 3 requests, 2 capability maps, 3 values, 1 change of a role | `DeviceInv`, `StatesFitTheirCapabilities`, `OneDevicePerCode`, `PairedByManagers`, `TwinInSync`, `QuietMeansAnnounced`, `DeletedStaysDeleted` |
| `dashboard_safety` | 1 user, 1 device, 3 requests, 2 lists under way, 1 broken connection | `UpToDateDashboardsListTheDevices`, `ReportsReachTheDashboards` |
| `accounts_safety` | 2 users, 2 addresses, 2 passwords, 2 reset tokens, 2 requests | `AccountsInv`, `OneTokenUnlessRaced`, `ResetTokensAreUsedOnce`, `AnswersAreHonest` |
| `profiles_safety` | same with 1 reset token, 2 faults, 1 change of a profile | `ProfilesFollowAccounts` |

Why the bounds suffice to make the interesting cases happen. Listener: with three
messages, pages of two and one token there are messages that wait, a second page,
and a worker that claims what the other still processes; the liveness run has three
streams so that a batch spans them and waits for the token, and a service that may be
started, stopped, cut short and killed any number of times. Domain: every defect found by hand needs two
requests and at most three users, and the initial state is any domain that earlier
requests can have left, so two requests reach what a longer history would; the
proofs remove the bound. Replicas: two requests give up to three events in up to
three streams; each of two faults is a restart or a failing handler before or after its
write, so that what one parked the other can claim. Rooms and pages: `MCDomainList`
constrains the run to what the two properties speak of, requests one after the other
with their events sent (the constraint `Bounded` names the rest: at most two answers on
their way, and one thing that goes wrong, where a renewed token counts with the
disconnections); one page is enough, since pages share nothing; a
failure of the worker and a broken connection may both happen, which is what shows that
a socket can be passed by again after it has connected anew. Rotation: three requests cover two racing refreshes and a login or
logout, or three refreshes whose losers' pages log out; four tokens are one for each request and the initial one; a lifetime of
two seconds leaves room for a check before and a block after the expiry. Devices:
three requests are a code and two activations that race for it, a deletion with two
values on their way, or a pair of deletions and a rename; the devices that exist at
the start stand for earlier activations; of the two capability maps one passes
every check and the other, an ENUM without values, passes the first and makes the
creation throw; of the three values one is allowed and is not the first, one is the
first and one has the wrong type. Dashboard: three requests are a creation, a report
and a deletion about one card; a second device would be another card and touch
none of the first. The constraint `SomeViewerIsNotStale` ends the run where the only viewer has
missed a message: he stays `stale` and the properties say nothing of him any more. Accounts: every race of the reset tokens is one of two requests, and
the initial states are those earlier requests can have left, deleted accounts and
tokens not yet redeemed included; the proofs remove the bound. Profiles: the second of
two accounts can take the address the first gave up, and two faults let a creation be
applied twice.

Symmetry is used in the safety runs only: the permuted sets appear nowhere ordered
or chosen. In `device_safety` those are the devices and the requests (the `CHOOSE` of
`Message` has one candidate), in `dashboard_safety` the requests and the lists under way, in `rooms_safety` the requests; the
`CHOOSE` in the initial state of `Accounts` has one candidate too. Deadlock is checked
except in `rotation_safety`, where the requests and the clock come to their bound.
The specifications of requests stutter explicitly once every request is answered.

### Fairness

Only `listener_live` assumes any (`FairBusSpec`): Redis answers (`Claim`, `ReadGroup`,
`AckApplied`), callbacks run (`Receive`, `ReportReady`, `ReportStopped`), handlers end
one way or the other (`Handler`; they are database operations of bounded time), flags
are delivered (`ServerHears`, `WorkerHears`), and a server that was told to shut down
answers its last request and polls `isListening` (`Stop`, `StopReturns`). All of it is
weak fairness, since nothing takes an enabled action of these away except the end of
the process. Sending, starting, signals, crashes and the passing of a minute are owed by
nobody, and so is a restart: whether a parked message is ever claimed is left open.

### What the violated run shows

`domain_one_owner`: two overlapping transfers, or a transfer and the departure of the new
owner, break "Each domain must have an owner" (`domain/README.md:15`).

### What the other runs take as it is

The models do what the code does; a reader should know where that is surprising, since
the properties name these cases as exceptions.

* A message whose handler threw is not handled again while the worker lives, although
  the comment at `eventbus/src/event_bus_components.ts:174` says it "will be retried after
  the block time": the loop reads `>` only, and pending messages are claimed at start-up.
* A worker that dies is not forked again, and one whose loop rejected leaves `isListening`
  as it was (`ReadyMeansListening` excepts it). A `stop` before READY returns at once.
* An addition and the removal after it are in different streams of one batch; handled the
  other way round they leave the removed user with a role in device control
  (`devicecontrol/src/bus/handlers/domain_user_removed_handler.ts:20`).
* The event of a departure has no `initiatorId` (`leave_domain_service.ts:31`), which the
  ledger demands: its copy keeps the role of who left. Its rows for creations and changes
  of roles name the user concerned as their initiator.
* The service emits the changes of a control as `{capability, value}`
  (`devicecontrol/src/handlers/socket/device_control_update_handler.ts:79`) and the page
  merges them as if these were names of capabilities (`app/src/pages/dashboard/dashboard.tsx:201`):
  other dashboards never show the value. The message about a rename
  (`update_device_service.ts:43`) has another form than `socket_events.ts:22` documents and
  changes no card either. `Changed` does both.
* On the page, adding a user sends no role and is refused
  (`app/src/pages/dashboard/domain_view/domain_view.tsx:168`), and the dialog for a new name
  of a domain calls nothing when it is saved; `Offered` leaves both out.
* `USER_DELETED` names its user `userId` and its handlers read `id`: the profile of a
  deleted account stays. A change of credentials that touches a forename, or a password
  alone, is refused by the profile's handler and parked.
* Two tabs that refresh with one token: the loser's 401 makes its page log out, with the
  cookies the winner has just brought. The winner's token is blocked, the cookies are
  cleared, and the user is signed out in every tab by having two of them. When the
  logout overtakes the winner's answer, the answer brings a live session back to a browser
  that has just logged out. `RacingTabsHaveAWinner` is stated up to the moment when a page or
  the user logs out; what remains after that is `NoUsedTokenIsKept`.
* Two resets that overlap are both carried out with one token: both pass `VerifyResetToken`
  before either invalidates it (`authentication/src/services/reset_password.ts:36`). Two
  requests for a reset that overlap leave two valid tokens, of which the index names one
  (`authentication/src/helpers/password_reset_helpers.ts:33`). `ResetTokensAreUsedOnce` and
  `OneTokenUnlessRaced` except both cases (`raced`) and say what holds of the others.
* `domain/src/db/profile_table.sql:4` wants the user id of a profile "to be enforced with
  index", but the index there is not unique: `USER_CREATED` handled again after a failure makes
  a second row. `ProfilesFollowAccounts` allows one more row for each fault.
* `maxAge` of the cookies is given epoch seconds and taken as milliseconds
  (`authentication/src/config/cookies.ts:17`): about twenty days, longer than the tokens'
  week. In `TokenRotation` the browser therefore never drops a cookie by itself.

## 4. Proofs

| Module | Theorems |
|---|---|
| `EventBusProofs` | `InductiveInvariant`, `TypeCorrect`, `AckedWasHandledAlways`, `TokensConservedAlways`, `WaitingMeansSaturatedAlways`, `DrainedIsIdleAlways`, `NoWorkAfterCloseAlways`, `BusImplementsAtLeastOnce`, `BusImplementsListener`, `BusInvariant`, `StopAwaitsTheWorkerAlways`, `ReadyMeansListeningAlways` |
| `DomainMembershipProofs` | `InductiveInvariant`, `TypeCorrect`, `MembershipMatchesRoleAlways`, `OneOwnerUnlessTransferRacedAlways`, `OnlyOwnersGrantOwnershipAlways` |
| `ReplicaProofs` | `ReplicaImplementsDomain`, `ListImplementsReplica`, `ReplicaInvariant`, `OnlyRolesOnceHeldAlways`, `CopyInvariant`, `SpacedChangesConvergeAlways`, `RoomsInvariant`, `RoomsFollowRolesAlways`, `PagesInvariant`, `PagesShowTheMembershipAlways`, `ListTypeCorrect` |
| `LedgerProofs` | `LedgerImplementsDomain`, `LedgerInvariant`, `AcknowledgedIsJournalledAlways`, `LoggedAgainOnlyAfterFaultsAlways`, `LedgerCopyInvariant`, `SpacedChangesConvergeAlways` |
| `AccountsProofs` | `InductiveInvariant`, `AccountsInvAlways`, `AnswersAreHonestAlways`, `OneTokenUnlessRacedAlways`, `ResetTokensAreUsedOnceAlways`, `ProfilesImplementAccounts`, `ProfilesInvariant`, `ProfilesFollowAccountsAlways` |
| `TokenRotationProofs` | `InductiveInvariant`, `TypeCorrect`, `OneLiveTokenPerSessionAlways`, `EndedSessionsStayEndedAlways`, `RacingTabsHaveAWinnerAlways`, `NoUsedTokenIsKeptAlways` |
| `DeviceControlProofs` | `InductiveInvariant`, `TypeCorrect`, `StatesFitTheirCapabilitiesAlways`, `OneDevicePerCodeAlways`, `PairedByManagersAlways`, `UnlinkedOnlyIfGoneAlways`, `DeletedStaysDeletedAlways`, `TwinInvariant`, `TwinInSyncAlways`, `AnnouncedInvariant`, `QuietMeansAnnouncedAlways` |
| `DashboardProofs` | `DashboardsUseTheService`, `DashboardInvariant`, `UpToDateDashboardsListTheDevicesAlways`, `ReportsReachTheDashboardsAlways` |

The only assumptions are the named ones on the constants, `ListenerAssumption`
(finitely many streams, numbered; positive page and semaphore sizes),
`MembershipAssumption` (`NoUser` is no user; nobody is granted OWNER by a request
that asks for a role), `RotationAssumption` (`NoToken` is no token; a positive
lifetime), `DeviceAssumption` (`Nobody` is nobody; bus handlers write one of the
four roles), `OffersAssumption` (bounds of a capability are integers, its values
strings: JavaScript's fractions are left out), `DashboardAssumption` (a dashboard belongs to a user), `AccountsAssumption` (`None` is nothing
else; a form names at least one field), `DeliveryAssumption`, `ReplicaAssumption` and
`LedgerAssumption` (which streams have a handler: device control all but UPDATED, the ledger all but
DELETED), `RoomsAssumption` (only users have pages), `ListAssumption` (`Unasked` is no
answer) and `ProfilesAssumption`. TLC evaluates them on the runs of these modules.

*Listener.* That an acknowledged message was handled is not inductive: an XACK on
its way may belong to anything. `HoldingsInv` adds that what a worker holds was
delivered and what it acknowledges was handled; `RedisInv` that the PEL consists
of delivered messages. That nothing runs twice needs that a batch is received by an
idle worker (`NoDoubleInWorker`) and has no repetition (`ReplyInv`). The semaphore
needs `SemaphoreInv`: a message waits only with no token free, and `close()` waits
exactly while one is in use. The refinement maps sent messages, handled messages
and "delivered and not pending" to the abstract state; each step is an abstract
step or a stutter, and `Exit` settles several messages at once.

*Service.* Every step of a service is a step of its listener or leaves it alone
(`BusImplementsListener`), so whatever was proved of `EventListener` holds inside a
service, by transitivity at-least-once delivery too. That a stop waits for the worker is
not inductive: the server acts on `isListening`, which lags behind. `TellsThePhase` says
what the flags on their way may be: nothing before READY, at most that one while the
worker listens, the end of the worker last; `WorkersHaveServers` that a server that
stops still believes in its worker or has none; `DownIsFresh` that a worker without a
process holds nothing.

*Membership.* `MembershipMatchesRole` is preserved by every transaction on its own.
Ownership is not: `ExclusiveInv` says, for histories in which no transfer
overlapped another request, that what an open request was told about the role
OWNER still holds when its transaction runs; `ProvenanceInv` that who passed the
first check of a transfer has been an owner.

*Copies.* Nothing that listens to the domain service influences it: `ListSpec` implements
`DCSpec`, which implements the `Spec` of `DomainMembership`, and so does `LedgerSpec`;
the theorems about membership are used in the proofs about copies by citing that.
`DeliveryInv` (an event is in one place of the delivery, and only subscribed ones are) is
proved once, for any handlers, in `DomainMembershipProofs`. `OnlyRolesOnceHeld` needs
that each event, sent or still to be sent by an open request, names a role its user
really had (`HeldInv`), which comes from `IInv` of the membership: without an overlapping
transfer, what a request was told about roles still holds when its transaction runs.
`AcknowledgedIsJournalled` is inductive given `DeliveryInv`: an event leaves `written` for
`acking` in the step that writes its row. The bound on rows needs `RowsPerFault`, which
counts one less for an event that can still be logged again.

*Convergence.* `SpacedChangesConverge` is about histories in which the events of one request
have been handled before the next request commits (`Spaced`). Still a handler may have
failed after its write, and its event, handled already, waits to be handled again while
later ones arrive. `SpacedInv` says which events can be outstanding together: those of
one request that are not handled yet, and handled ones among `Unsettled`, each about what
is still so. `CopyInv` says of each user that the copy holds his role unless an
unhandled event about him is outstanding, and what the copy holds then: enough for the
event to be accepted and to make it right (`Holds`). Both are stated in `ReplicaDelivery`
with the copy as a parameter and used for both services. In the ledger a departure is
never handled, so the copy may keep the role of who left on his own until an
addition is refused for it; this is the exception the property makes.

*Rooms.* That a room holds the sockets of its members is one end of a chain copy, worker,
orders, socket. `MovesInv` follows the chain for each user: either the worker has still
to tell the server something about him (`TellsLater`), or the last command about him on
its way agrees with the copy (`LastMoveAgrees`) and, when there is none, the socket is where
the copy says or has read an answer that says so (`PlaceAgrees`). `RehandledInv` is needed
because a handler that runs again tells the server again: what it says then must still
be so.

*Pages.* `Faithful` says of a page that is not `outdated`, with six sources that overtake one
another, why it will be right in the end. Of a member (`Lists`): it is going to read a list,
or an event that brings the domain is on its way, or the one answer that has been read
lists it, or the page does. Of anybody else (`Omits`), the same the other way round. And
`Corrected`: every message on its way that is no longer true is followed by one that puts
it right, either later in the same queue or earlier in the chain. `AnswerInv` relates the
answers of the page's own requests to the events those send.

The search for these invariants showed that two exceptions had been drawn too narrowly:
after a failure of the worker and a broken connection together, a socket that had
connected anew could be passed by a second time, and a page that had fetched its list
could be told something older. The run had not shown it, its bound allowed one of the two;
now it allows both, and the properties except `Commanded` and `Underway` users.

*Accounts.* That a token is used once follows from the invariant at any moment only
because `TokensAreIndexed` says, for users whose reset requests came one by one, where
each request between the two keys has got to and which tokens can still be stored;
`TokensHaveOneHolder` that a token stands for one user for good, stored or presented; and
`UsedTokensAreGone` that a token which has changed a password is gone or about to be
deleted by the request that used it. `AnswersAreHonest` needs `ProgressIsRecorded`, what a
request has done by what it waits for.

*Profiles.* Requests that wait for one another's events (`~hurried`) leave at most one
event outstanding, and nobody at work while it is (`OneAtATime`); `FeedInv` says that no
event is lost between the stream, the handlers and the parked entries. `ProfileOK` then
follows one account: it has no profile exactly while its creation is still to be sent or
handled (`Nameless`), the addresses may differ only while a change is (`Outdated`), and
what is outstanding has the address the account has. Handled twice, a creation makes a
second row; `Repeatable` counts the faults that takes. The property had been stated of
histories in which the event of every request that changed a row was sent. A reset of a
password changes a row and has no event, so one reset made it say nothing any more; it
is now stated of each account, with the exceptions that concern that account.

*Tokens.* `OneLiveTokenPerSession` needs: the entry of a blocked token outlives it
(`EntryInv`), which needs that the time to live computed before the SET is still
enough when Redis executes it (`AwaitInv`: the clock only advances); and the token
a refresh is about to hand out is fresh, of the same session and nobody else's
(`MintedInv`). With that, the SET NX is what hands the session over: the request
that wins has made the old token dead in the same step. `RacingTabsHaveAWinner`, for
histories in which only refreshes of one session overlap and Redis answers, needs
`RacingInv`: requests that overlap are refreshes (`AloneInv`), they and the browser carry
tokens of the last login (`BrowserInv`, `RefreshesInv`), and the session's live token is
in the browser or on its way to it in exactly one answer, when no request carries it yet
(`KeptInv`). `NoUsedTokenIsKept` allows every overlap, and a logout may use the token that a
refresh has handed out and the browser not received: that needs `OnItsWayInv`, a token in
an answer is in no cookie, carried by no request and not used; and `UsedInv`, when the
token in the browser has been used, the request that used it is still to answer, with
another token or with no cookies. A request that used it and was not answered is a lost
answer, the exception `disturbed` makes.

*Devices.* A request acts on what earlier answers told it, and `StageInv` says which
of that still holds when it acts: a device that was found exists for ever, its
capabilities never change (lemma `Kept`: a step keeps a document, or changes one
value, its name or its status), hence the value that was checked in `Find` still
fits when `Save` writes it. `OneDevicePerCode` is not inductive either: `CodeInv`
says that every code in Redis and every one that was spent comes from one request
that is over, no two from the same, which needs that GETDEL takes and removes in
one step; `ActivationInv` that a device was created by an activation which had such
a code, has a manager, and creates no other. `DeviceInv` is their conjunction with
the three safety properties that are inductive given them.

*Twins and events.* A control writes the document and then the device, a report comes from
the device and is then written. `TwinInv` names the request between the two (`Midway`):
while document and device differ there is exactly one, about that value, and the side
that is ahead has what the request carries. `AnnouncedInv` relates the bus to the requests:
an event of a creation is by the activation that made the device, which is over; a
deletion is announced, about to be, or lost, and only one request can be about to, as the
filter of the update lets one deletion through. Counting is left to the end: sets with
one element at most have the cardinality that `QuietMeansAnnounced` wants.

*Dashboards.* Every step of a dashboard is a step of the service or leaves it alone, so
`DeviceInv`, `TwinInv` and `AnnouncedInv` hold below it and are cited. The chain from a
document to a card is taken link by link. `MadeInv`: who makes a device is between its
write and its message at most once (`Making`), and what a request tells is about what it
wrote. `LogInv`: what the room was told has happened, an addition before every report of
the device, and of a deletion it has been told unless the request that made it is about to
or was cut off. `ValuesInv`: the value of a device whose values come from reports alone
(`Steady`) is the last one told, or about to be, or the first one if none was. `ViewsInv`
then says of each card, on the page or in a list on its way, that it is right or what makes
it right is still `Ahead` of the socket or about to be told (`CardRight`). The hard case is
the list: it is read while messages wait for the socket and arrives after some of them,
so the invariant is about the document and the messages ahead, never about the
moment when the card was made. A rename that is answered late makes a card out of
nothing; this is the exception `stale` makes.

Only model-checked: the liveness properties (fairness and ENABLED are out of
TLAPS's reach) and the run that is violated. Every other invariant and action property
of the runs is stated by a theorem.
No module declares a RECURSIVE operator, and no proof needs induction over data.

## 5. Not modelled

* The mailer beyond whom it addresses: a Go service on a bus library whose source is not
  in this repository. Of the demo device nothing: it is a sample client.
* The React components: presentation and form state. Of the dashboard, the members within
  the entry of a domain (late answers there can throw inside React,
  `app/src/pages/dashboard/dashboard_sidebar.tsx:234`), and the sheets that show the ledger and the
  telemetry, which only read.
* The telemetry collection (rows written without waiting, read by one query), the ledger's
  handlers of device events (they add a row and nothing else) and its query.
* The retry of a request after a 401 in the page, which changes no state modelled here
  except that it renews the token.
* Whether a message that outlives its claim time is processed by two instances at once:
  reachable in `EventListener` and allowed by at-least-once delivery. Whether parked
  messages are ever claimed: it takes a restart, which nothing schedules.
* Validation of inputs beyond what the sets of calls say, logging, tracing and metrics,
  password hashing and signatures (a token is what its claims say).
