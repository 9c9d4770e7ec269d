# Specification of aimount-go

TLA+ models of the Go SDK in `src/`, checked with TLC on small instances, and theorems about
them proved with TLAPS for all instances.

The SDK keeps almost no data. What is hard about it is time, concurrency and the network: a
worker with several goroutines per call, slots, deadlines, a shutdown that may come at any
point, and HTTP requests whose outcome the caller may never learn.

## 1. Inventory

| Component | Source | State | Operations |
| --- | --- | --- | --- |
| Worker: claim loop | `agent/serverapi/tool_worker.go` 70-178 | slots `sem`, `wg`, registration, claim key and the token it was built for, attempt counter | register, take a slot, claim, hand on, poll, shut down |
| Worker: a call | the same, 143-172, 180-197, 293-314 | result channel, call context, outcome context | run handler, await, drain until the deadline, deliver, retry |
| Worker: heartbeat | the same, 239-291 | registration (shared, under a lock), timer | heartbeat, re-register |
| Outcome of an execution | the same, 199-237 | none | classify result, error, panic, unknown tool |
| Tool protocol client | `agent/serverapi/tool_protocol.go` | none | register, heartbeat, claim, outcome, publish manifest |
| Exchange and errors | `internal/httpjson`, `agent/serverapi/client.go`, `types.go` | none | one HTTP exchange, `IsRetryable` |
| Memory API | `agent/serverapi/memory.go` | none in the client; versioned blocks and idempotency keys in the cloud | list, create, update, delete |
| Session API | `agent/serverapi/session.go` | none in the client; sessions in the cloud | create, archive, restore, delete |
| Tool definition | `agent/tool.go` | none | describe input, validate keys, decode, call, encode, clone |
| Manifest publication | `tool_manifest.go`, `tool_protocol.go` 81-111 | manifest and its token in the cloud | publish under a conflict policy |
| CLI | `internal/cli`, `cmd/aimount` | the process: resolved organization, created version, exit code | whoami, list, set agent, create and release an instruction |
| Console API client | `internal/consoleapi` | none; agents and instruction versions in the cloud | get principal, list, upsert agent, create and release a version |
| Construction, access tokens | `tool_manifest.go` 26-42, `client.go` 34-84, `tool_worker.go` 29-68 | none after construction | validate a configuration, issue a token |
| Redaction | `redact.go` | none | replace secrets in log text |

How they interact. `Run` starts one heartbeat goroutine and, per claimed call, a call goroutine
and a handler goroutine. They share `sem` (taken by the main loop, returned by the handler
goroutine), `wg`, the registration (written by the heartbeat, read by the claim loop) and the
result channel with its one-element buffer. Contexts tie them together: the context of `Run`,
`runCtx` below it, `callCtx` below that with the claim deadline, and an outcome context that is
deliberately *not* below any of them, so that results are delivered during a shutdown. Every
request goes through one HTTP exchange, and what its error says decides between retrying and
giving up. The memory methods share the classification of errors and add `OutcomeUnknown`; the
session, manifest and Console API methods do not, so their callers live with errors that say nothing of
the outcome. The CLI runs two requests of the Console API one after the other and may end between
them.

What is hard, and which properties make each component correct:

- *Slots.* They are taken in one goroutine and returned in another, over five paths. None may be
  lost or returned twice (`SlotsBalanced`), and a handler that ignores its context still counts
  (`HandlerBound`).
- *Lost replies.* A claim may be granted and its reply lost. The key is kept so that the retry
  finds it (`GrantNotForgotten`, `GrantRecovered`), but no call may start twice
  (`HandedOutOnce`).
- *Deadlines.* A result must not be dropped while it can still be delivered (`NoResultDropped`),
  retries stop at the deadline (`OneAttemptPastDeadline`) but not before (`RetriedUntilDeadline`).
- *Shutdown.* `Run` ends whatever handlers and the server do (`ShutdownCompletes`, `CallsEnd`) and
  leaves nothing behind (`ReturnedClean`).
- *Heartbeat.* The token must not lapse (`NeverLapses`), the server must hear from the worker
  (`HeardEveryInterval`), and the goroutine must not spin (`NeverSpins`).
- *Memory.* An error without `OutcomeUnknown` must be the truth (`RejectedNeverApplied`), nothing
  happens twice (`WrittenOnce`), nothing unread is overwritten (`ReplacesWhatWasRead`), and
  success is real (`SuccessIsTrue`).
- *Execution of a tool.* The handler gets what the input says and nothing else
  (`HandlerSeesItsInput`), a good input is not refused (`RefusedForReason`), and there is an outcome
  whatever the tool does (`OutcomeDeliverable`).
- *Sessions.* A command repeated after any error, by its caller, by net/http or by a redirect, happens
  once (`AppliedOnce`), an acknowledgement is the truth (`AcknowledgedIsTrue`), and an older archive or
  restore does not come back (`LastWordStands`). What a delete reports is not always true
  (`DeletedIsTrue`, section 7).
- *Manifests.* A publication has no key; only its policy keeps it from undoing one that its publisher
  has not seen (`ReplacesByConsent`), and its result is that of its own tools (`ResultIsOwn`).
- *CLI.* The exit code and the version in the output are all that is left of a run. They must be true,
  but for a release or an upsert that somebody else's 2xx ended (`ExitZeroIsTrue`, `FailureNamesVersion`;
  section 7), nothing may happen in an organization nobody meant (`OrgNamedOrSole`), and the last run
  that succeeded decides (`LastRunStands`).

## 2. Plan

The modules, in the order they were written:

| Modules | Part | Instance for TLC | Theorems |
| --- | --- | --- | --- |
| `ApiErrors` | exchanges and errors, used by all | | |
| `ToolWorker`, `CallContract` (abstract), `ToolWorkerProperties` | worker | `MCToolWorker` | `ToolWorkerTheorems`, `DeliveryTheorems` |
| `Heartbeat` | heartbeat and its clock | `MCHeartbeat` | `HeartbeatTheorems` |
| `Memory`, `CommandContract` (abstract) | memory API | `MCMemory` | `MemoryTheorems` |
| `ToolExecution` | execution of a tool and its outcome | `MCToolExecution` | `ToolExecutionTheorems` |
| `Session`, `CommandContract` again | session API | `MCSession` | `SessionTheorems` |
| `Manifest` | manifest publication | `MCManifest` | `ManifestTheorems` |
| `ConsoleCli` | CLI over the Console API client | `MCConsoleCli` | `ConsoleCliTheorems` |

What is left: the composition of `ToolWorker` with the clock of `Heartbeat` (a claim made with a
token that has lapsed while the network was down). Every safety property and every refinement that a
passing run checks has a theorem.

## 3. Modules

### ApiErrors

An HTTP exchange is a record: a reply with a status and a body that is accepted (`"good"`) or not
(`"bad"`), or no reply and its cause. A Go error is the record of the questions `IsRetryable` asks
of it. `DoErr` is `client.do` over `httpjson.Do`, `SubmitErr` is `submitOutcome`, `IsRetryable` and
`RetryableStatus` are the functions of these names. `MayApply` is what may be assumed of the
server: a 4xx other than 408 means that nothing happened.

### ToolWorker

One run of `ToolWorker.Run`. Variables and code:

| Variable | Code |
| --- | --- |
| `pc` | the place of the main loop: `"acquired"` after the select (92), `"claiming"` in `claim` (107), `"deliver"` in the branch of an invalid deadline (132), `"stopping"` after the loop (174) |
| `sem`, `wg` | the fill of the channel and the counter of the WaitGroup |
| `token`, `attempt`, `claimKey` | the registration's token by serial number, the counter, `claimKey` and `claimToken` as one record |
| `call[c]` | the call goroutine: `await` (152), `drain` (160), `send` and `inflight` (296), `backoff` (303), and how it ended |
| `handler[c]` | the handler goroutine: `running`, `sent` (result buffered, slot not yet returned), `exited` |
| `deadline[c]` | the clock against `ClaimExpiresAt`: `early`, `late` (within the poll interval), `expired`, or `unset` for a zero time |
| `octx[c]` | the context of the outcome: the deadline (311), 30 seconds (313), or 30 seconds under `runCtx` (132), and whether it is over |
| `grant[c]` | the server: under which key the claim was granted |

Time is reduced to the comparisons in the code. A request ends in any of `Exchanges`, or, once its
context is over, with a cancellation. A select with several ready cases takes any of them: a slot
although the context is done (91), the timer although the result is there (160). The server
grants a claim once, under the key of the request, and answers a repeated key with the same claim;
this is what the retained key is for, and it is the one thing assumed of the server beyond HTTP.

Left out: `runtime.Goexit` inside a handler (its slot comes back but no result does), logging, the
claimed call's content, `ErrWorkerAlreadyRun` (a second `Run` changes nothing). The worker's own
requests are lost, or carried out with their reply lost, but not delayed: what the server does with one it
does before the exchange has ended for the worker, not after the worker has given it up. The send of the
result into its buffer (147) is one step that never waits.

`CallContract` is the abstract specification: a call is opened once, runs at most one handler, is
closed; at most `Limit` handlers at a time; nothing is open when the worker has returned.
`ToolWorkerProperties` holds the properties, the fairness and the refinement mapping:
stages from `call`, running handlers from `handler`, returned from `pc`. `Curable` is what the
properties of the runs `transient` and `recovery` assume of every exchange (`OnlyCurable`): it
succeeds, or fails in a way that a retry can cure. It speaks of status codes and causes only; that the
code takes just these exchanges for a success or a retryable error is proved (`CurableMeans`).

### Heartbeat

The heartbeat goroutine with a clock in whole units. `MaintenanceDelay` is `maintenanceDelay`,
`Fire` the decision of `maintainRegistration` (strictly after the due time: register; otherwise:
heartbeat). The timer is prompt and a call takes at most `Latency`. `Timely` states when the
configuration leaves room for one heartbeat and `MaxFails` registrations that fail. With the
defaults of the code (skew 10 s, client timeout 30 s) it holds only while calls take less than
5 s: a heartbeat that hangs until the client's timeout can let the token lapse.

### Memory

Applications (`Intents`), the client, a network and the cloud. An instance gives the combinations of intents (`Kinds`), of which a
behaviour has one. A call goes through `Dispatch` (or
fails before it: `RejectedLocally`, `CanceledBeforeDispatch`), its request lies on `wire` until the
cloud handles it, possibly after the call has failed, possibly never, and the call ends by the
cloud's answer (`Receives`), by an error or a gateway's answer (`AnsweredForCloud`), or by a refusal
on the way (`RefusedForCloud`). `MayHaveApplied` is the rule behind `OutcomeUnknown`. `Follows` is
the redirect policy, which differs for reads and writes. The cloud is modelled from how the client
and the repository's README describe it: `If-Match` on update and delete, replay of an
idempotency key, no ID used twice, an update to the same text keeps the version. The applications
do what that README asks of them. One thing the model taught: an application must keep its key
even after an error that is certain and retryable. An uncertain create, whose replay is refused
with 429, followed by a retry without the key makes two blocks. Keys do not expire in the model
(24 hours in the cloud).

### CommandContract

What the memory and the session methods have in common, with nothing of keys, versions or the
network: a command is new, open, refused or a success, and has its effect once at most, while it is
open; a success comes after the effect, and a refusal is one of a command without effect, which may
be begun again. An effect may come long after the last call has ended: a command whose outcome is
unknown stays open. In `Memory` a command is an intent: it is open while one of its calls is under
way or ended with an unknown outcome, and refused while each was rejected for certain or only
listed the blocks. In `Session` no error says that much, so a command is never refused, and what a
delete reports is left out, since it is not always true (section 7).

### ToolExecution

One call of `ToolWorker.execute`. The input is chosen lexeme by lexeme, each of them any lexeme of
JSON, so every prefix an input can have is tried, not only the well-formed ones. `After` is
`validateInputKeys` with the rules of `json.Decoder.Token` it relies on; it stops at the first
offending lexeme, as the code does. `Decodes` is the second decoder, with what `encoding/json`
does by itself: it takes the last of several equal keys, ignores their case and lets null leave a
field as it is. That it never gets to do so is what `HandlerSeesItsInput` is about. The required
fields of the schema are not enforced by the code at execution and not by the model. The check for
trailing JSON after decoding (114) has no branch: validation ended at the end of the input. A
handler returns a result that can be encoded or not, or fails with an error of its own, a recovered
panic, a nil pointer, or a `ToolError` (made by `NewToolError`, zero, or nil, bare or wrapped).
`ToolWorker` sees all of this as one step, `HandlerReturns`.

`encoding/json` is taken at its documentation. Strings are the names of fields, one of them in
another case, and one that is no field; escapes and invalid UTF-8 are abstracted.

### Session

Commands of applications, each under the key its application chose, the client with net/http
below it, and the cloud. `Dispatch` is a call that passed its local checks (`HasSession` stands for
all of them), a first one or the repetition of one that failed with any error: nothing in an error
of these methods says that the command did not happen. It ends with the cloud's answer (`Receives`)
or without it (`AnsweredForCloud`). What sets these methods apart from memory is below the client:
its `http.Client` follows redirects, a 301, 302 or 303 with a GET without the body
(`FollowedAsRead`), a 307 or 308 with the same request, and net/http takes an `Idempotency-Key` for
the permission to send a request again when a reused connection breaks (`SentAgain`). `CommandErr`
is how an acknowledgement is decoded; a delete decodes nothing and has no key. In the cloud, a key
names one command (`Replays`), and each transition has one state it starts from.

### Manifest

Publishers under every policy, also with options that do not fit or a namespace that cannot be
published (which `Dispatch` refuses), and the cloud, which gives each manifest a token, here its
number. `ValidOptions` and `Publishable` are the checks of `PublishToolManifest`, `Request` is what
`publishManifest` sends. `LearnsToken` is an application that takes a token from a result, its own
or another's, before it tries again. `Permits` is what the cloud does with a policy. The repository
describes this nowhere: it is assumed from the names of the policies (`types.go` 14-15) and from the
checks that `publishManifest` makes of the token they need (`tool_protocol.go` 84-99). That tools which
are in force already are answered with their token is assumed as well.

### ConsoleCli

Runs of the CLI. A run begins in `"start"`, with arguments that do not fit (`BadUsage`), with "help"
among them (`ShowsHelp`), or with a task (`Begins`), which reads the file of an instruction at once;
`pc` then follows `run.go`: the client (`NewClient`), the organization if `--org` is missing
(`ResolvesOrg`), and the requests, for an instruction a create and, from `"created"`, a release.
`Ends` is what each answer leads to, with the exit code and the version that the output names.
`Killed` ends a run at any point. `ReleaseErr` differs from `DecodedErr` because the body of the
answer to a release is discarded: any 2xx is a success. A 2xx may be that of a proxy
(`AnsweredForCloud`), or of a GET in place of the request, since `http.DefaultClient` follows a 301, 302
or 303 (`FollowedAsRead`); the GET may also find an agent where the PUT of it was redirected, while
where versions are made there is none to be read. A run that takes such an answer for the cloud's
(`PassesForCloud`) exits with 0 although nothing may have happened. The history variable `misled` keeps
these runs, and the properties say where they make an exception of them. The cloud makes a version
per create it handles, however often a request is sent, and releases what it is told to if it belongs to
the organization.

## 4. Runs

| Run | Instance | What it shows |
| --- | --- | --- |
| `safety` | 2 claims, 2 slots, all faults, a token rotation | type invariant, slots, no double hand-out, no dropped result, deadline, clean return; the worker implements `CallContract` |
| `transient` | 2 claims, 1 slot, retryable faults only, 3 claim keys | no more handlers than slots, outcomes are retried up to the deadline, a lost grant is still asked for |
| `shutdown` | 2 claims, fairness | `Run` returns and calls end, with handlers that hang and a server that is silent |
| `recovery` | 2 claims, retryable faults, more fairness | a lost grant reaches the worker |
| `nil_return` | all faults | expected violation, see section 7 |
| `heartbeat` | interval 9, skew 6, lifetimes 6, 7 and 17, clock to 40 | token, interval, no spinning |
| `memory` | an update beside a create or a delete, 3 calls each, 2 block IDs | nothing twice, success is real, certain errors are true, no blind overwrite; the methods implement `CommandContract` |
| `tool_execution` | a field of each kind, two other strings, inputs of up to two members | the handler sees its input, no good input is refused, an outcome in every case |
| `session` | create, archive, restore and delete of one session, create of another, a fault of each kind | commands happen once, acknowledgements are true, the last word stands; the methods implement `CommandContract` |
| `session_redirect` | create and delete, redirects only | expected violation, see section 7 |
| `manifest` | 8 publishers, all policies and one that is none, bad options and bad namespaces, 3 tokens | no lost update, results are one's own |
| `console_cli` | 2 runs with any arguments, 2 organizations, 3 versions, 2 texts | named versions are true, and exit codes unless a 2xx of somebody else misled the run; the right organization, the last run stands |

Bounds. Two claims are enough for one to hold the slot the other waits for, and for a key to be
confused between two claims. `MaxAttempts` bounds the keys one run builds (one more than the
claims in `transient`, so that a key can be dropped and rebuilt) and `MaxToken = 2` allows one rotation at any
point. The clock of `Heartbeat` runs over several intervals; lifetimes are the skew itself, one
more, and one longer than skew and interval. Three calls let an update list, fail and be
repeated, and let a create be uncertain, refused and repeated; two block IDs let a create and a
replay of it both find room. Two members let a key be repeated, in the same case or another.
One session with all its commands lets copies of each meet the others, and a second create could
take its ID or its key. The five exchanges of `session` stand for all: what the methods and net/http
make of an exchange without the cloud is an error, a redirect to a GET, or the same request again.
Three tokens are a manifest, its replacement and a late copy that would undo
it; two publishers share tools, and two compare tokens. Two runs of the CLI are one that succeeds
and one that comes later, or in between; three versions leave one for a create that is sent twice.
Claims, and the names of `ConsoleCli`, are symmetric where a cfg says so (they occur in no CHOOSE and no order); the
liveness runs use no symmetry. `CHECK_DEADLOCK FALSE` is set because the
system ends: `Run` returns once, the intents, commands and publications of applications are over,
processes exit, and the heartbeat stops with its context or at the bound of the clock.

What is assumed of the cloud, which is not in the repository. A key is replayed and not carried out
again; tokens, session IDs, block IDs and version IDs are never used twice; `If-Match` and the
policy of a publication are compared with what is in force. Of everything between client and cloud:
requests are lost, delayed and repeated, and answered by proxies with any status, but only the
cloud sends a body that is accepted for the call (`AnswersAssumption`). In `Manifest` no 301, 302 or
303 is among the answers: a GET in place of the PUT ends in a document without the fields it asks
for, as does `Reply(200, "bad")`, with an exception that stays outside the model: a manifest that can
be read at the URL of its PUT could be taken for its publication. `ConsoleCli` has all of these
answers; of a create that is followed as a GET it is assumed that no single version is found.

Fairness. Weak fairness on every goroutine's own steps: the Go scheduler runs what is ready. A
request must end only once its context is over, which `net/http` guarantees, so a silent server is
allowed; timers fire and deadlines pass. Handlers have no fairness. `HbStops` has strong fairness:
its select may take a timer that is ready again and again, but Go chooses at random among ready
cases, and the timer is not ready while the delay, which is positive, runs. `GrantRecovered` is
checked under `RecoverySpec`, which adds what no shutdown needs: handlers return, and among the
replies some get through.

## 5. Proofs

`ToolWorkerTheorems` proves, for every finite set of claims, any number of slots, any set of
exchanges and any bounds:

- `NeverHandedOutTwice`: `HandedOutOnce`. The invariant `Typed /\ Keyed` says that a claim the worker
  has taken was granted under a key that is not the current one, and that a current key carries
  the latest attempt, so old keys cannot come back.
- `WellTyped`, `SlotsAccounted`, `ReturnsClean`: `TypeOK`, `SlotsBalanced`, `HandlerBound` and
  `ReturnedClean`. The type invariant is not inductive: `sem` and `wg` stay in their ranges only because
  they count something. `Staged` relates the places of the goroutines to each other (which call
  states go with which handler, context and `pc`), and `Counted` says that `sem` counts busy
  handlers and the slot of the loop, and `wg` the open calls that are not the main loop's own.
  Together they are `InductiveInvariant`.
- `GrantsRemembered`: `GrantNotForgotten`, if `OnlyCurable`. `Named` adds that two claims are never granted
  under one key, so that receiving one cannot lose the other, that no key is newer than the token, so that
  a rotation leaves behind what it should, and that nothing is granted before the registration.
  The hypothesis is needed in one step: a claim that fails keeps its key (`CurableMeans`).
- `NilIsShutdown`: `NilMeansShutdown`, if no exchange ends with a context error of the HTTP client's own
  (`NoClientTimeout`). The run `nil_return` violates the property; the theorem says that the client's
  timeout is the only cause.

`DeliveryTheorems` builds on them:

- `ResultsKept` and `NoRetryPastDeadline`: `NoResultDropped` and `OneAttemptPastDeadline`. The invariant
  `Delivery` says which context an outcome has: the 30 seconds only if the deadline has passed or
  could not be read, and for an outcome that is sent again the deadline itself, if there is one.
  It also needs that a shutdown is never taken back (`DoneStays`), which rests on `Staged`.
- `ImplementsContract`: the refinement of `CallContract`. A claim taken maps to `Begin`, whose bound on
  handlers follows from `Counted`; the return maps to `Return`, for which `ReturnsClean` is needed.
- `RetriedWhileTimeIsLeft`: `RetriedUntilDeadline`, if `OnlyCurable`. A context that is over stays over and
  a deadline does not move back (`ContextStays`, `Persistent`), so what was true when an outcome was given
  up remains so; without the hypothesis the property is false, as the client's own timeout is not retried.

`ToolExecutionTheorems` proves `ExecutionTyped`, `InputFaithful`, `RefusalsJustified` and `AlwaysDeliverable` for every
schema and inputs of any length. The invariant `Reader` counts: k whole members have been read,
their keys are exactly `seen` and differ from each other, their values are scalars, and no brace is
closed yet. From it the decoder sets each field from one member (`DecodingFaithful`), and a lexeme
that is refused does not fit its position (`RefusalJustified`).

`HeartbeatTheorems` proves, for all durations: `HeartbeatTyped`, `AlwaysHeard`, `SpinFree` and, under `Timely`,
`TokenKeptAlive`. The invariant `Clocked` bounds the timer by the delay from the last call; the third
adds a budget: after n failed registrations at most n + 1 latencies and seconds of the skew are
used up (`BudgetStep`, `BudgetMonotone`).

`MemoryTheorems` proves `MemoryTyped`, `IntentsOnce`, `SuccessTrue`, `RejectionsTrue` and
`NothingUnreadReplaced` for any intents, blocks, faults and number of calls. The properties speak of
what callers were told and of what happened, so the invariant `Inductive` ties both to the requests on
their way: a write has one request and none once it is known to be rejected (`Single`), an update or a
delete is only made again after calls that changed nothing (`Alone`), the calls of a create have one
key (`Keyed`), an answer is the truth about the present call (`Answered`), and a listing shows a block as
it is or at an earlier version (`Listed`), so a version that matches has the text that was read.
`ImplementsContract` is the refinement of `CommandContract`. It needs one more invariant, that a success ends
its intent (`Final`). The effects of an intent, over all its calls, are counted as a set of pairs,
which has one element at most by `WrittenOnce` (`EffectsOf`). A step of the application or the network
ends or begins one call (`Moves`), which takes the status from new or refused to open, or from open to success
or refused; a request that is carried out is the effect (`EffectMoves`), and finds its command open, since
its own call is neither rejected nor, while nothing has happened, a success.

`SessionTheorems` proves `SessionTyped`, `CarriedOutOnce`, `AcknowledgementsTrue` and `LastWordKept`. The
copies of a request are all alike (`Alike`), a key is remembered (`Counted`), each create has its own
session (`Own`), nobody but the cloud acknowledges (`Told`), and of two commands on one session the
one begun after the other's success is carried out last (`Obeyed`). The same invariant gives
`ImplementsContract`, the refinement of `CommandContract`: the first call is `Begin`, a request carried out is
`Effect`, an accepted acknowledgement is `Succeed`, and everything sent again is a stuttering step.
`DeletionsTrue` bounds the finding of `session_redirect`: `DeletedIsTrue` holds where nothing between client
and cloud answers with a 2xx or with a redirect that becomes a GET (`OnlyCloudSucceeds`). Its invariant
`Gone` rests on the deletion being final and on a command keeping its session (`DeletedStays`).

`ManifestTheorems` proves `ManifestTyped`, `NoLostUpdate` and `ResultsOwn`: every copy of a request carries
options that passed the checks (`Checked`), and the cloud compares tokens.

`ConsoleCliTheorems` proves `CliTyped`, `ExitCodeTrue`, `FailureInformative`, `OrgUnambiguous` and
`LastRunKept` for any number of runs. `ExitZeroIsTrue` and `LastRunStands` make an exception of runs that
were misled, and `LastRunStands` of organizations where another run was. `AlwaysTold` names where the
exception is empty: if nobody but the cloud answers with a 2xx or with a redirect that becomes a GET
(`OnlyCloudSucceeds`), exit code 0 always means that the agent was set or the version released. The
invariant says how far a run is when one of its requests is
under way (`Staged`, `Requested`), what its answers say (`Told`), and that a run whose requests were sent
once has none left to undo the release of a later one (`Once`).

The assumptions are those in the modules: the claims and the organizations are finite, the bounds and
durations are positive, the exchanges are exchanges, only the cloud acknowledges, and names that must
differ do. Theorems that need more of the network name it as a hypothesis: `OnlyCurable`, which the instance of
`transient` and `recovery` satisfies (`TransientFaultsAssumption`), `NoClientTimeout` and `OnlyCloudSucceeds`.

Only model-checked: liveness, which is out of reach of the provers here (`ShutdownCompletes`, `CallsEnd`,
`GrantRecovered`).

## 6. Not modelled

The definition of a tool (`describeInput`, `NewTool`, `NewToolNamespace`) is built once by reflection and
has no protocol. Construction of clients and workers, access tokens and redaction are single checks, a
single exchange or text replacement, without state, and stay out. `auth whoami` and `agents list` of
the CLI, and `ListAgents`, change nothing. The content of messages, the wording of errors, slugs, labels
and logging are abstracted everywhere. Hazards without a property are noted in `PROJECT.json`.

## 7. Findings

`Run` returns nil for any registration error that is `context.DeadlineExceeded`
(`tool_worker.go` 76). The timeout of the `http.Client` is such an error. A server that does not
answer the first registration within 30 seconds therefore makes `Run` return nil although its
context is alive, and a caller that takes nil for a shutdown exits quietly. The run `nil_return`
shows it in three states. The test of this branch
(`TestWorkerTreatsInitialRegistrationDeadlineAsNormalShutdown`) uses a context whose deadline has
passed.

`DeleteSession` can return nil although nothing was deleted. It asks for no result and its client
follows redirects (`session.go` 168): a 301, 302 or 303 of the DELETE is followed with a GET, and any
2xx of that ends the call. `memory.go` 213 guards its writes against exactly this. The run
`session_redirect` shows it: the create is acknowledged, the delete is redirected, and it has
succeeded while the session is still active.

A release by the CLI has the same flaw. `ReleaseAgentInstructionVersion` asks for no result
(`consoleapi/client.go` 94) and its client is `http.DefaultClient` (54), so "released instruction" can be
printed, with exit code 0, when nothing was released; and a release that is still under way then may be
carried out after that of a later run. There is no run of its own for this: `ExitZeroIsTrue` and
`LastRunStands` are violated in the instance of `console_cli` as soon as their exception of `misled`
is removed.
