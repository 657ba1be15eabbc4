# wechatcopilot in TLA+

`wechatcopilot` is a local daemon that runs the official WeChat and WeCom
clients in containers and gives agents accounts, conversations, messages,
two-phase sends and client surfaces over a Unix socket. This directory models
the daemon's concurrent core (account lifecycle, send transactions, login
challenges), the two drivers with their persistent identities, and the way of a
notification into the message index; checks them with TLC; and proves with
TLAPS the safety properties of the lifecycle, of the sends, of the login, of
both drivers, of the profile of a WeCom account and of the message index.

Paths below are relative to the repository root (`src/` in `PROJECT.json`).

## 1. Inventory

| component | state | operations | hard behaviour |
|---|---|---|---|
| account registry `internal/account/store.go` | `accounts.json`: platform, active flag, deletion marker, last state | Add, Activate, Deactivate, UpdateStatus, BeginDelete, FinalizeDelete, Open | late status writes, a failed write between two effects, restart |
| runtime manager `internal/runtime/manager.go` | one operation mutex and one published runtime per platform; per runtime `ingestMu`, a cancel function and a done channel | Activate, Restore, Deactivate, Status, Sync, BeginDelete, Purge, Shutdown, ingest loop and its repair | stop with a timeout, failed stops and starts, repair goroutines, three nested mutexes, containers that outlive the daemon |
| service `internal/service/service.go`, `transactions.go` | `deleteMu`, `sendMu`, prepared transactions and their staging directories | account requests, reads, PrepareSend, CommitSend, reaper | expiry during a commit, repeated keys, journal failures, crash between reservation and outcome |
| send journal (`internal/index/store.go`) | one row per idempotency key and account | reserve, finalise, withdraw, look up | the same |
| message index (`internal/index/store.go`) | messages, conversations, ownership metadata | AddMessages, reads, adoption of a legacy index | duplicates and gaps, a file that belongs to another account |
| daemon `internal/daemon` | socket, state lock, restore retry | serve, restore, shutdown | bounded retry with deadlines, shutdown during requests |
| login challenge `internal/auth/manager.go` | per challenge: public state, candidacy, code and action counters, tombstones | Begin, Status, SubmitCode, CloseAll, monitor, five page handlers | snapshots taken without the mutex and applied later, replay of consumed actions, retention, expiry |
| WeChat driver `internal/driver/wechat` | container, profile files, operation mutex, surface sessions, UI index | Start, Stop, Purge, Send, surfaces, PerformAuthAction | uncertain outcomes, one-shot actions, stale observations, a profile whose creation was interrupted |
| WeCom driver and runtime `internal/driver/wecom` | container, companion connection, surfaces, send memos, profile markers, approvals | the same, with a proof of the running container's identity | a screen that changes between look and act, late acts, two-document publication with rollback, cleanup of a failed start |
| Android companion `android/companion` | observation sequence, snapshot guard, event journal | local RPC, snapshots, actions | main-thread timeouts, sequence checks |
| WeChat UI driver `deploy/wechat/ui_driver.py` | none between calls | control operations on the client window | target changes between look and act |
| configuration, state mount, provisioning `internal/config`, `scripts` | paths, mount identity | checks, provisioning steps with rollback | partial failure |
| CLI, MCP server, client, API types | none | translation to the socket | none |

How they interact: the CLI and the MCP server call the daemon's HTTP handlers,
one goroutine each. A handler calls the service, which calls the runtime
manager (lifecycle, drivers), the account registry and the journal. The
manager owns the drivers and one ingest goroutine per runtime; the login
manager owns one monitor goroutine and one HTTP server per challenge and calls
the same drivers. Shared state is protected by mutexes whose sections are
short; what is slow (a stop, a start, a snapshot, a send) happens between two
sections, and that is where the properties bite.

What makes each modelled component correct:

- lifecycle: at most one requested account and one client per platform; a
  published runtime is the requested account's; nothing reads, ingests or runs
  on an account that is being removed; one ingest loop per runtime, and always
  one again after a stop that failed; requests return; removals can be resumed;
- sends: per account and key at most one send action, never unrecorded, and
  truthful, consistent answers; attachments live exactly as long as needed;
- login: an operation that may have reached the client is neither dispatched
  nor offered again; one code; success is final and stays visible; every
  challenge ends and leaves nothing behind;
- drivers: what was offered once is done at most once, on the screen it was
  offered for, whatever is retried, lost or late; a send reported verified was
  clicked in its conversation, and made unless the client showed a bubble that
  cannot be told from it;
- identities: a client runs only with the identity and the data that are its
  account's, through crashes at any write; an approval is used once;
- messages: what the index lacks it says it lacks, and rows keep their order.

`PROJECT.json` lists under `hazards` where in the code these can go wrong.

## 2. Modules

| module | models |
|---|---|
| `AccountStore` | the registry as pure operators from registry to registry; a mutator clones, writes with an atomic rename, then publishes, so memory and disk agree between two mutators |
| `RuntimeManager` | extends `AccountStore`: the manager, the service's account requests, the restore retry, shutdown, crash and restart |
| `SendOnce` | abstract specification: what a send promises for one slot (account and key) |
| `SendTransactions` | prepare, commit, journal, driver send, reaper, staging, crash; implements `SendOnce` |
| `AuthChallenge` | the login challenge: manager, monitors, handlers |
| `OneShot` | abstract specification: a capability is used at most once |
| `WeChatClient` | the WeChat driver, its Docker backend, profile and UI index; implements `OneShot` |
| `WeComClient` | the WeCom driver's surfaces, sends and login actions over the accessibility companion; implements `OneShot` |
| `WeComProfile` | the WeCom account's data: markers, approvals, migration, start, stop, purge; its approvals implement `OneShot` |
| `Notifications` | companion journal, WeCom readers, ingest round and message index, composed |
| `MC*` | symmetry, views and screens for TLC |
| `LifecycleProofs`, `IngestProofs` | theorems about `RuntimeManager` |
| `SendProofs`, `AuthProofs`, `WeChatProofs`, `WeComProofs`, `ProfileProofs`, `NotificationProofs` | theorems about `SendTransactions`, `AuthChallenge`, `WeChatClient`, `WeComClient`, `WeComProfile`, `Notifications` |

The modules meet at the interfaces of the code. `RuntimeManager` knows a
driver's Start, Stop and Purge by their outcomes, `WeChatClient` and
`WeComProfile` say what happens inside them. `SendTransactions` knows a
driver's Send as "refused, acted, verified", `WeChatClient` and `WeComClient`
show why a send acts once per key and what "verified" is worth. `AuthChallenge`
takes from the drivers that a classified error without the consumed mark means
that nothing was dispatched. `Notifications` is the inside of the ingest round
that `RuntimeManager` runs as one step under `ingestMu`.

### RuntimeManager

A process is a request handler, the restore goroutine, or the goroutine that
`Shutdown` starts for a platform (named after the platform). `pc` says between
which two blocking points it is: `lock` waits for the operation mutex; `stop`,
`stop_wait`, `stop_mu`, `stop_driver` are `stopRuntime` (cancel the loop, wait
for its done channel or time out, take `ingestMu`, call the driver); then
`drop`, `register`, `start`, `publish` follow for an activation, `unregister`
for a deactivation; `rm_*` are the phases of a removal under `deleteMu`.
`reg`, `dir`, `client` are durable or outside the daemon: they survive
`Terminate` (a crash, a kill or the end of the shutdown budget).

Runtime objects and done channels come from finite pools; an object nothing
refers to may be reused, which is what garbage collection allows and keeps the
state finite. Contexts are not modelled as objects: wherever the code selects
on one, the step that ends with it (`LockTimeout`, `StopTimeout`, `StartFail`,
a failing `Refresh` or `Status`) is possible at any time. In `Shutdown` the code
holds both operation mutexes until every stop ended; the model hands each mutex
to the platform's stop goroutine, which makes no difference because the closed
flag is already set.

Abstractions: aliases, identities, error texts and time stamps are left out.
All states a running driver reports are one state `LIVE`. `LeakyStart` says
whether a failed start may leave its container running (the driver's cleanup
itself may fail). `stray` is a history variable: the accounts whose container a
failed start or a daemon that ended left running, until a start takes it over or
it is stopped.

### SendTransactions

`PrepareStage`/`PrepareInsert` are `PrepareSend` (copy the attachments, then
enter the transaction under `transactionsMu`). A commit waits for `sendMu`,
takes the transaction or searches the journals (`FindCommitted`), looks its
key up, reserves the row, calls the driver (`SendRefused`: before any action;
`SendActs`: the point of no return; `SendVerifies`), and finalises or withdraws
the row. A request hash is a member of `Content`. The journal is one table per
account. The driver's memo of a key's result is modelled because a repeated
call inside one driver run is answered from it. `ui` counts, per key, the send
actions that were issued; the refinement maps the count, so that a second action
is no step of `SendOnce`. `PrepareStage` may fail, and then fail to remove what it
has copied: `orphans` are directories no transaction knows.

### AuthChallenge

A handler looks at the challenge under its mutex, takes a snapshot without it,
and takes the mutex again. The snapshot is chosen in the step that applies it:
the client may show anything at any time, so a snapshot taken earlier and
applied later is just a member of `Screens`, however stale, and every order of
taking and applying is covered. Time is a tick that ages all challenges at
once, capped where the code's comparisons no longer change. An action's error
has a class (retryable, final, none) and the consumed mark. The driver's
promise, which the drivers' code states and the model takes over, is that a
classified error without the mark means nothing was dispatched.

`hits` and `accepted` are history variables: how many dispatches may have had
an effect, and how many codes the driver accepted.

### WeChatClient

`op` is the operation that holds `operationMu`, with the step it is at:
`metadata`, `machine`, `fill`, `check`, `docker` are a Start (the profile's two
files, then the container); `open`, `act`, `close` and the steps of a send wait
for the client's answer. Reads of the visible messages take no operation mutex
and interleave with everything. Durable are `profile.json`, the machine-id
file and the container, which is `foreign` when it does not pass the
verification of `DockerBackend.Start`. A failed call says nothing about what
the client did: the dispatch is counted in `clicks` when the call is made.

A capability (`Cap`) is named for the lifetime the code gives it: an action of
a surface, the close of a surface, a card reference of one index, a key of one
run of the driver. That is the promise's limit too: memos and tombstones are
lost when the driver is stopped, and across restarts the journal of
`SendTransactions` takes over for sends.

Abstractions: an action is its effect, its window, the frame and whether it is
the twin of a control that looks the same. A conversation is the sequence of its
bubbles, `mine` for the text being sent, of which the last `Viewport` are
visible. Snapshots, closes and sends of assets that only read are one step.

### WeComClient

The screen is a page, the conversation on it, what the input holds and a
content number: in a chat, how many outgoing bubbles with the requested text are
in view. `BubblesChange` changes it without the driver (the text is sent or
recalled from another device, or the messages scroll). The companion numbers the changes it notices and arms its guard
with the last observation; `Perform` is the companion's check of an act and the
act, which the companion does on its main thread in one go. A request the
driver has given up on is `late` and may still be performed. `Fails` is every
error after the first step of an operation, the end of the caller's context
included. `r.shown` is the screen the act was decided on, kept with the request
for `ActsOnWhatWasShown` only. `delivered` and `stray` are history variables: the
sends the client made rather than swallowed, and those that were watched while a
bubble from elsewhere came into view.

### WeComProfile

A directory is its inode; `path` is the one the registered name leads to and
may be exchanged between any two steps (`Exchange`). `pc` walks through Start:
classify what is on disk, bind, recover, migrate or take over a legacy profile,
publish temporary file, sentinel and metadata, verify, then network, container,
live proof, and four stages of Android commands, each of which repeats the
proof. The container's execution epoch is a counter. `proven` is a history
variable: the directories the daemon created or found empty, the operator ran,
a consumed approval named, or the account's running container had mounted; an
approval that is withdrawn or still waits proves nothing. `swapped` are the
directories bound by an approval that was checked against another one.
`MaxFaults` bounds what comes from outside: exchanges of the path, runs by the
operator, removals of files that fail.

`Init` covers a new account, one older than the markers, one with schema 1
metadata, and a directory of unknown origin. A rollback may fail to
remove the metadata and remove the sentinel all the same, as the code does.
`PurgeBegin` marks the account before it looks at the directory, as the registry
does. The purge of a directory without markers goes by the registered path alone:
it deletes, but binds nothing and starts nothing, and is not counted as use.

### Notifications

`observed` says what each number of the companion was given to, also when the
notification was lost because the companion was down or the journal evicted it:
that is what gaps are measured against. The ingest round is `ListConversations`,
opening the index, `UpsertConversations`, the two halves of `ReadMessages` (the
page first, then the oldest record), `AddMessages`; the companion evicts between
any two. The index file is missing, empty, legacy with or without rows, bound,
or another account's. A client pages through the rows at the same time.

## 3. Runs

| run | instance | checks |
|---|---|---|
| `Switching` | 2 accounts of one platform, 2 handlers (activate, deactivate), restore, shutdown, 1 restart, leaky starts | `TypeOK`, `OneIngestLoop`, `InactiveIsStopped`, `OnlyRequestsMoveTheSlot` |
| `Removal` | 1 account, 2 handlers, every request, 1 restart, leaky starts | `RegistryConsistent`, `PublishedIsRequested`, `IngestOnlyWhileUp`, `ReadersKeepTheProfile`, `NoClientWithoutProfile` |
| `IngestResumes` | 1 WeChat account, 1 handler (deactivate, read, remove) next to loop, repairs and restore, 1 restart, leaky starts, fair goroutines | `IngestAlwaysResumes`, `RequestsReturn`, `RemovalResumes` |
| `WeComRemoval` | 1 WeCom account, 1 handler, fair goroutines | `RemovalCompletes` is violated |
| `SendCommits` | 2 callers, 2 transactions, 2 keys, 2 contents, 1 crash | `StagedUntilSent`, `NoUnrecordedSend`, `CallersAgree`, `AnswersAreTrue`, `SendsOnce` |
| `SendReclaims` | 2 callers, 1 transaction, 1 crash, fair goroutines | `StagingReclaimed`, `CommitsReturn` |
| `LoginActions` | 1 challenge, 2 handlers, all requests, 2 IDs of one operation | `TypeOK`, `NoReplay`, `CodeOnce`, `OnlineIsFinal`, `OffersAreFresh` |
| `LoginEnds` | 2 challenges of one account, image requests, fair monitors | `SuccessStaysVisible`, `ChallengesEnd` |
| `WeChatOneShot` | 2 surfaces, windows, frames, keys, 2 starts, crashes at any time | `VerifiedIsNew`, `StableIdentity`, `CapabilitiesAreOneShot`, `NoRevival` |
| `WeComActs` | 2 conversations with up to 2 bubbles of the text, 1 key, 1 surface, 2 login pages, 3 operations, 1 change from outside, 1 late act, 1 restart | `VerifiedIsSent`, `CapabilitiesAreOneShot`, `ActsOnWhatWasShown`, `SendsHitTheirTarget` |
| `WeComBinding` | 3 directories, 2 crashes, 3 faults, 2 approvals | `OnlyVouchedData`, `CrashesAreRecovered`, `ApprovalsAreOneShot`, `BindingIsStable` |
| `NotificationsIndexed` | 2 conversations, a journal of 2, pages of 1, 4 observations, 1 crash | `NoSilentGap`, `Collected` |

Deadlock is checked except where the system really may stop: the send runs
(every account removed) and the runs of the drivers (the account removed, or the
bounds on operations used up with nothing under way).

The bounds. Two handlers (or callers) are enough for every race of two
requests, and the background goroutines come on top. Two accounts of one
platform make a switch; platforms share nothing but the registry file. Three
channels allow a live loop, one that is ending and one that a repair starts.
`MaxAttempts = 1` because attempts do not differ; `MaxRepairs = 1` because all
but the first repair of a channel find nothing to do; one restart or crash,
because a second one starts from a state of the same kind. In `LoginActions`
the limits are two so that a definitive rejection, a retry and a refusal at
the limit all happen; the clocks are as short as possible, because what
matters there is the order of events; `LoginEnds` has clocks with an interior,
and with its window of one tick a completion takes two observations anyway.

In the driver runs two of everything that is handed out is enough for one to be
mistaken for the other, and two starts for one to leave something to the next.
`WeComActs` has one surface because a second one never shares the screen, and one
key because a restart makes another send of it; one change from outside is a screen that leaves between look and act, a bubble that is
there before a send, or one that comes while the send is watched, and the driver's
own acts change the screen on top of it; the third operation acts on what two
earlier ones left. Five observations let a second send, after a restart, begin
where a first one has left its bubble. In `WeComBinding` two crashes interrupt a start and its recovery; three
faults exchange the directory, exchange it back and do one thing more, and the
third directory is the one to create. `IngestResumes` has no request to activate:
the restore of the restarted daemon is the activation that may fail and leave its
container. Four observations
overrun a journal of two while a page of one is under way.

The symmetry sets permute only constants that no other definition names;
liveness runs use neither symmetry nor a view. The view of the lifecycle runs
hides what is left in objects nothing refers to. The views of `SendCommits` and
`LoginActions` hide answers nobody compares any more: no step reads an answer,
the action properties look at it in the step that gives it, and `CallersAgree`,
which compares answers of earlier steps, keeps the outcomes it compares.

### The properties

- `OneIngestLoop`: however stops time out, fail and are repaired, a runtime
  has one loop: the generation check of `restartIngestAfterExit`.
- `InactiveIsStopped`: a switch stops the previous client first, and a failed
  stop keeps the previous account in place. An account that is not requested runs
  only if its container is `stray`: left by a failed start or by a daemon that
  ended, and taken over by no start since. With `RegistryConsistent` it gives one
  client per platform but for those (`IngestProofs!OneClientCorrect`).
- `OnlyRequestsMoveTheSlot`: no restore, failed restore, status write or
  shutdown moves a platform's slot.
- `RegistryConsistent`, `PublishedIsRequested`: consequences of `LifecycleInv`,
  what a process relies on between two of its steps, which is proved.
- `IngestOnlyWhileUp`, `ReadersKeepTheProfile`, `NoClientWithoutProfile`:
  draining before a stop, `deleteMu`, and the purge's check of a running
  container keep an account whole for whoever uses it.
- `IngestAlwaysResumes`, `RequestsReturn`: liveness.
- `RemovalCompletes` is what docs/architecture.md says of a repeated removal, and
  fails. `RemovalResumes` is what holds of WeChat accounts: the only thing that can
  keep a repeated removal from being completed is a container left running.
- `SendsOnce`: every step of the commit maps to a step of `SendOnce` or to
  nothing, and a slot counts the actions issued for it; `NoUnrecordedSend`, `CallersAgree`, `AnswersAreTrue`,
  `StagedUntilSent` relate the journal, the client, the answers and the
  staging directory.
- `NoReplay`, `OffersAreFresh`: the tombstones cover the operation, not only
  the generation's ID, and are released only by a definitive rejection.
- `CodeOnce`, `OnlineIsFinal`, `SuccessStaysVisible`, `ChallengesEnd`.
- `CapabilitiesAreOneShot` (both drivers), `ApprovalsAreOneShot`: the detailed
  specification implements `OneShot`; consumption before dispatch, tombstones,
  memos and leases are what makes it true.
- `NoRevival`: a snapshot offers nothing that was written already, under
  whatever ID.
- `ActsOnWhatWasShown`, `SendsHitTheirTarget`: an act that reaches the client,
  in time or late, finds the screen it was decided on.
- `StagingReclaimed`: a staging directory goes once its transaction is done with;
  one that its own failed preparation could not remove goes with the next daemon.
- `VerifiedIsNew`, `VerifiedIsSent`: what "verified" is worth; for WeCom, that the
  send was clicked in this run of the driver, and made by the client unless a
  bubble of the same text came into view from elsewhere while it was watched.
- `StableIdentity`, `BindingIsStable`, `OnlyVouchedData`, `CrashesAreRecovered`:
  identity files published in several writes, with a crash between any two, and
  the directory exchanged under them.
- `NoSilentGap`, `Collected`: the index, and a client that pages through it,
  is told of everything it lacks, in order; and the index catches up.

`TypeOK` of `SendTransactions`, `WeChatClient`, `WeComClient`, `WeComProfile` and
`Notifications` is proved and in no run: the runs are for the hazards.

Every property has a mutant: the definition changed the way a plausible bug
would (named in a comment `Mutant:` in the module), on which TLC finds the
property violated.

### Fairness

Goroutines that can run do run: weak fairness of every step that waits for
nothing a client does. Go mutexes are starvation-free (a waiter that has waited
for a millisecond is served first), so a step that needs a mutex others keep
taking has strong fairness. Driver calls return, because they run under a
context with a deadline. Clients are not fair: nothing makes them issue
requests. `RemovalCompletes` and `RemovalResumes` assume in their own statement,
`RemovalRetried`, what the document they come from assumes: the operator repeats
the removal, and failures are transient. A check that refuses is no such failure:
a purge that finds a running container, or a directory missing, refuses as often
as it is asked. In `LoginEnds` time passes and the monitor's ticker and
the closing goroutines run; probes may fail for ever.

In `NotificationsIndexed` the ingest loop, the restart of the daemon (systemd) and
of the companion (Android) are weakly fair; `Collected` assumes in its own
statement that the index is not refused for ever and no page stays unacceptable.

## 4. Findings and observations

Finding, with a run. `WeComRemoval`: after the directories are gone and the
registry write failed, the WeCom driver's purge refuses the missing directory,
so the removal can never be resumed (docs/architecture.md:41 says it can). The
WeChat driver accepts a missing profile.

Observations, without a run of their own.

Lifecycle and sends:
- A removal of either platform can also be stuck on a container: Purge refuses a
  running one (docker.go:478), and one is left running by a `docker run` that was
  cut off after the container had started (docker.go:441 only returns the error)
  or by a daemon that ended. Once the account is marked deleting nothing stops it:
  activation and deactivation refuse a marked account, and Stop of a fresh driver
  does nothing. docs/architecture.md:41 claims resumption across restarts.
  `RemovalCompletes` is violated for a WeChat account too, with
  `Requests = {"activate", "remove"}`, `LeakyStart = TRUE` and no restart: that is
  the exception `RemovalResumes` makes.
- Client containers survive a crash of the daemon and a leaky start; an activation
  that overtakes the restore starts a second client of the platform next to the
  one left running (manager.go:144; skills/wechatcopilot/references/accounts.md:25
  says only one account per platform runs). `InactiveIsStopped` excepts exactly
  those containers.
- A preparation that fails and then cannot remove what it has copied leaves a
  directory no transaction knows (transactions.go:162-166); the reaper never sees
  it, and only the start of the next daemon removes it.
- `findCommittedSend` (service.go:509) returns the first error it meets, so a
  repeated commit is refused while another account is marked deleting, although
  its result is in the journal (docs/mcp.md:33). Nothing is sent meanwhile.
- `Manager.Status` may write a live state on an account deactivated meanwhile.

Login:
- An action that reached the client and failed verification is answered as
  retryable although it stays consumed (auth/manager.go:726;
  skills/wechatcopilot/references/accounts.md:21). It is not replayed.
- A login may complete between its expiry and the monitor's next tick, through
  a late image request; `CloseAll` does not wait for the monitors, so the
  process may exit before a link's QR code is removed; `Begin` leaves its
  directory when the code cannot be written.

WeChat driver:
- `ActSurface` (driver.go:586-641) looks at the offered actions, not at the
  tombstones: when the snapshot after a write cannot be stored, the session
  keeps its earlier offers, and a second control with the same replay identity
  in that frame can still be dispatched. `NoRevival` is therefore about what a
  later frame offers.
- A crash between the exclusive creation of machine-id and its content
  (profile.go:267) leaves it empty; from then on Start refuses the profile.
- `Send` with a shared surface uses the locator of its share action without
  consuming it (driver.go:437-466).

WeCom:
- A notification without a title, or behind more than 500 newer conversations,
  breaks the foreign key of its page and stalls the ingest until it is evicted.
- A listener that Android has not bound yet loses notifications without a mark,
  and a clock set back makes the companion number below the daemon's cursor.
- `consumeLegacyProfileApprovalForData` looks the data directory up through its
  path again and compares the approval with whatever is there
  (legacy_approval.go:279, 307), not with the directory the start has pinned; the
  check after it (profile.go:1229) compares the path with the pinned one. A
  directory exchanged before the consumption and back after it is therefore marked
  with another directory's approval, although profile.go:1226 says that the
  consumption binds the original canonical inode, and docs/architecture.md:148
  calls the approval bound to the inode. It takes an exchange before the start and
  two around the consumption: `touched \cup Sentinels \subseteq proven` is violated in
  the instance of `WeComBinding`. `OnlyVouchedData` excepts exactly the directories
  that were bound that way, `swapped`.
- A rollback of a publication (profile.go:1311-1316) whose removal of the metadata
  fails removes the sentinel all the same; later starts refuse the directory.
- A purge of a directory without markers goes by the registered path alone.
- A crash while the sentinel's temporary file is written leaves that file, and
  later starts refuse the directory (`CrashesAreRecovered` names the case).
- `waitForDirectionalOutgoingBubble` (driver.go:2606-2631) takes a send for made
  when there is one more outgoing bubble with its text, wherever it comes from:
  sent from another device or scrolled into view. A click the client swallowed is
  then reported as verified (docs/architecture.md:140 says that the driver verifies
  the resulting message). `VerifiedIsSent` excepts exactly the sends that were
  watched while such a bubble appeared, `stray`; without the exception it is
  violated in the instance of `WeComActs`.
- Two conversations of the same title are not told apart; `SubmitAuthCode` does not
  read back what it typed.

## 5. Proofs

`tlapm` checks, for every value of the constants that satisfies the named
assumptions (pools disjoint, `Nil` in no set, bounds natural numbers):

- `LifecycleProofs!TypeCorrect`: `Spec => []TypeOK`. `TypeOK` is
  inductive; one lemma per group of actions, one step per action.
- `LifecycleProofs!LifecycleCorrect`: `Spec => []LifecycleInv`, and from it
  `RegistryCorrect` and `PublishedCorrect`. `PublishedIsRequested` is not
  inductive: that a publication finds its account usable and requested depends
  on what happened since the mutex was taken. `LifecycleInv` adds, per process
  and label, what it relies on: it holds its mutex, its account is usable, its
  slot is empty or its own, its marker is set. The argument is rely-guarantee:
  a step changes only the slot whose mutex its process holds (`LocalOthers`,
  `LocalPublished`) or nothing that others rely on (`QuietOthers`), so only the
  process that moves needs a proof of its own.
- `IngestProofs`, in three layers on top of that. `HostCorrect`
  (`Spec => []HostInv`): which operation is at which label, that a reader excludes
  removals, that usable accounts and containers have their directories; from it
  `ReadersCorrect`, `ClientsCorrect` and the action property `SlotsCorrect`.
  `HeapCorrect` (`Spec => []HeapInv`): a live loop is the current generation of
  its runtime (`Generations`) and feeds the published one of a usable account
  (`Feeds`), an object in use and its channel name each other (`Objects`),
  whoever is in a driver call holds the ingest mutex (`Mutexes`), a stop works
  on the runtime of its platform and is past its loop when it drains it
  (`Stops`); from it `OneLoopCorrect` and `IngestCorrect`. Neither property is
  inductive: that a repair starts no second loop rests on the generation it
  finds, and that a stopping driver has no reader rests on who holds the mutex.
  `InactiveCorrect` needs `RunInv`: a container that is not `stray` runs only under
  the published runtime or the activation about to publish it. It has no hypothesis:
  starts may leak, and the daemon may end and start again any number of times.
  `OneClientCorrect` follows.
- `SendProofs!SendInvariant`: `Spec => []SendInv`, and from it
  `SendTypeCorrect`, `StagedCorrect`, `RecordedCorrect`, `AgreeCorrect`,
  `TruthfulCorrect` and the refinement of `SendOnce`, `SendsOnceCorrect`. None of
  the properties is inductive: what a caller is told rests on the row it wrote
  steps ago. `SendInv` says who owns what: a caller past `FindCommitted` holds
  `sendMu` (`Locals`); its transaction is staged and protected from the reaper
  (`Staged`); only the caller that reserved a row is between the reservation
  and its outcome (`Owners`); a transaction has at most one row (`Rows`), an
  action issued for a key left its row and a spent transaction stays spent
  (`Spent`); and what was answered is what the row says, for good
  (`Agreement`). For the refinement every step is mapped to a step of `SendOnce`
  on the one slot it changes (`ReserveMaps`, `ActsMaps`, ...), all others
  leave every slot and its count alone; that `SendActs` finds its slot reserved and
  its count at zero is what makes at most one action of it.
- `AuthProofs`: `NoReplayCorrect` from `ReplayInv`, which adds to the types that
  one handler per challenge is between `ac_reserve` and `ac_leave`
  (`Exclusive`), that the operation it dispatches is entombed and has had no
  effect (`Reserved`), and that every operation that may have had an effect is
  entombed and will not be released (`Spent`). `CodeOnceCorrect` from `CodeInv`:
  the owner of `codeInFlight` is the only one that may still change what is
  known about the code. `LoginTypeCorrect` from `LoginInv`, and on it the action
  properties `OnlineIsFinalCorrect` and `OffersCorrect`: an answer is computed
  under the mutex from the record, not from the handler's snapshot, and the
  record only moves forward. `SuccessStaysVisibleCorrect` needs `Listing` on top:
  a listed challenge is open and watched, and its monitor is about to remove it
  only for a reason that lasts.
- `WeChatProofs`: `StableIdentityCorrect` from `Identity` (what has booted is the
  recorded identity, and a Start past its metadata step has it recorded and
  agreed), `VerifiedIsNewCorrect` from `Bubbles` (the count taken before a send
  never exceeds the bubbles there are), with lemmas on the window of a growing
  conversation; `OneShotCorrect` (the refinement of `OneShot`),
  `NoRevivalCorrect` and `ClientTypeCorrect` from `ClientInv`. Its `Sessions`,
  `Cards` and `Sends` say for each kind of capability where a dispatch is
  remembered until its lifetime ends.
- `WeComProofs`: `ActsCorrect` and `TargetsCorrect` from `ActInv`. The heart is
  `Screened`: a request that names the companion's current number was decided
  on the screen recorded under it, so a guard that passes proves the screen;
  `Awaited` ties what the driver waits for to its own last request.
  `VerifiedCorrect` needs `SentInv`, whose heart is `Watching`: from the baseline of
  a send on no click but its own can pass the guard, so a bubble more than the
  baseline is the client's answer to it or makes the send `stray`, however many
  bubbles come and go. `OneShotCorrect` (the refinement of `OneShot`)
  needs `OnceInv`: what is on the wire or was performed is spent, each spent key
  has its memo or its watcher, and each spent control is consumed or entombed
  wherever it could be offered again.
- `ProfileProofs`: `VouchedCorrect`, `RecoveryCorrect`, `BindingCorrect`,
  `ProfileTypeCorrect` and `ApprovalsCorrect` (the refinement of `OneShot`) from
  `ProfileInv`. Its shape ties the labels of Start and Purge to the metadata, the
  pinned directory and profile, the container and the mark of a removal. On it,
  `Unspent`: an approval that is given or consumed has bound nothing, and one
  that is consumed is gone; `Settled`: what Android was used with is bound by
  metadata no publication takes back; `Undisturbed`: a new account that was only
  crashed has either no container and no data, or a directory that agrees with
  its metadata. `Proven` and `Vouched`
  say who vouches for the directory a start has pinned, step by step: the daemon
  that created it, the container that has it mounted, or the approval it consumed,
  and then for the directory that was at the path or as `swapped`. There is no
  bound on the faults in them.
- `NotificationProofs`: `GapsCorrect` and `NotificationTypeCorrect` from
  `IndexInv`, which follows a notification through the places it passes. The
  journal is the end of what was posted, and a record without a mark has its
  predecessor there (`Suffix`); what the cursor has passed is indexed (`Passed`);
  a page stays a cut of the journal, which meanwhile gets only newer records and
  loses only old ones, and an event of it without a gap has its predecessor in the
  page or in the index (`Paged`); so has a row, in an earlier row (`Followed`). That a
  page is stored in its order rests on a lemma about ranks in finite sets of
  numbers (`Ranks`), from the theorem that an injection between finite sets of
  one size is onto. The argument does not need the gaps that `ReadOldest` adds
  when the journal has evicted something after the cursor: the companion's own
  marks already stand for them.

The assumptions are the ones the modules declare: `Nil` is none of the values
it marks the absence of, pools are disjoint, bounds are natural numbers, limits
that the code keeps positive are positive. In `WeComClient` that includes
`MaxSequence`, the number of observations a companion run is followed for, and in
`WeComProfile` `MaxProfiles` and `MaxEpochs`: an account may begin with an
identity and a run.

Only model-checked:
- the liveness properties `IngestAlwaysResumes`, `RemovalResumes`,
  `RequestsReturn`, `StagingReclaimed`, `CommitsReturn`, `ChallengesEnd` and
  `Collected`: fairness and `ENABLED` are out of the prover's reach.

Every invariant, action property and refinement that a passing run checks is
stated by a theorem, none of them with a hypothesis. `RemovalCompletes` is false of
the code and has none.

## 6. Not modelled, and the plan

Not modelled:
- CLI, MCP server, client and API types: they translate requests and keep no
  state (the two offline commands, index adoption and profile approval, are
  actions of `Notifications` and `WeComProfile`).
- Installer and artifact download: file and network I/O with a digest check.
- Configuration, state mount, provisioning script: checks of the host made once;
  nothing interleaves with them.
- The WeChat UI driver (`deploy/wechat/ui_driver.py`) and the companion beyond the
  parts the drivers rely on (the replay identity and effect of a control; the
  observation sequence, the snapshot guard, the event journal): image handling,
  geometry, recognition of texts, the companion's main-thread dispatcher and its
  transport.
- Recognition of sensitive WeCom screens (`semantic_guards.go`): a pure
  classification of texts; the models use its verdict as the kind of a page.
- Full-text search and single reads of the index; owner and mode checks of its
  path; the socket's peer check and the state lock; the choice of a LAN address
  and the login page's script.

Left to do:
1. The companion's dispatcher and transport: an act that times out on the main
   thread and is retried is one late act in `WeComClient`, not a queue.
