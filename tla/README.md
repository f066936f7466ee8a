# Verification of happy-wakey-web-server

TLA+ models of the web server in this repository, the TLC runs that check them
on small instances, and TLAPS proofs for every instance. Everything is
translated from the code; paths and lines below are those of the commit the
project was written against. `L` stands for `crates/common/src/lib.rs`.

    tlc -workers 2 -config TlsThree.cfg MCTlsWait.tla        # one run
    tlapm TlsChannelProofs.tla                               # one proof module

`PROJECT.json` lists the runs, the code lines behind every definition (`map`),
the hazards, the findings, and for each checked property a mutation of the model
that breaks it (`mutants`; the mutated actions are the definitions commented
"Mutant" and are part of no specification).

## 1. The system

The server renders one page, the dashboard, from three binaries (mash, leptos,
dioxus) that share the crate `crates/common`. A request carries a bearer; the
server has Shared Auth introspect it, gets the alarms of its owner in one of
four interaction modes fixed at startup, and returns HTML or a `WebError`.

| Part | Code | State it keeps | Operations | Talks to |
|---|---|---|---|---|
| renderers | `frontends/*/src/main.rs` | none | `main`: from argv to the bound port; one axum handler per request, whose future axum drops when the browser leaves | startup, dashboard |
| dashboard | L 283-361, 618-632, 204-251 | none across requests | `bearer`, `introspect`, mode dispatch, `emit`, error mapping | Shared Auth (HTTPS), the mode, telemetry |
| direct_db_read | L 363-389 | `Runtime.direct: OnceCell<ReadContext>` | `fetch_direct` | PostgreSQL or CockroachDB, through `happy-wakey-lib-core` |
| stateless_https | L 391-417 | none | `fetch_http` | API |
| stateful_tls | L 419-500, 635-657 | `Runtime.tcp: Mutex<Option<TcpChannel>>` | `fetch_tcp`, `connect_tcp`, `tcp_exchange` | API, length-delimited frames on one shared connection |
| async_jetstream | L 502-616, 752-781 | `Runtime.nats: OnceCell<NatsTransport>` | `fetch_async`, `connect_nats`, stream validation | API (registration), NATS JetStream (signal, response) |
| service contract | L 714-746 | none | `service_request`, `decode_service_response` | used by the two modes above |
| bounded bodies | L 659-712 | none | `bounded_body`, `bounded_auth_body`, `extend_bounded` | used by HTTPS calls |
| startup | L 67-144, 254-281, 783-983 | `Runtime.config`, `Runtime.mode` | `from_env`, `validate_config`, `Runtime::new` | flags |
| flags | `crates/common/src/flags.rs` | a `OnceLock` of resolved values | `process_control`, `resolve_from` | argv, environment, dotenv |
| lint toolkit, CI, deployment | `.ores-lint`, `.github`, `deploy`, `test` | none at run time | | |

The handlers of one process run concurrently and interleave at every `.await`.
They meet in three pieces of shared state, `direct`, `tcp` and `nats`, and in the
world outside: two requests on one TLS connection, a registration that reaches
the API after its request has given up, a broker that stores a signal whose
acknowledgement is lost. What is hard about this code is therefore:

- *a future that is dropped at an await* runs none of the code behind it. What
  it leaves in shared state is what the next request finds (L 433, 540, 641);
- *a retry* that competes for the mutex again with everybody else in between
  (L 426-443);
- *late answers*: of a peer to a frame nobody waits for, of Shared Auth about a
  bearer that has been revoked meanwhile, of a worker after the deadline;
- *one step of several failing*: after the registration, after the publish,
  after the acknowledgement (L 519-573);
- *restarts* of a broker that holds the only copy of a pending operation;
- *deadlines* that are looked at between two calls only (L 568), and waits that
  have none: for the guard of the connection, behind everybody else (L 427);
- *what was checked once and is used much later*: the streams (L 606), a bearer
  (L 285);
- *what was not checked at all*: settings that startup asks only to be there, and
  whose readers refuse them in every request (L 490, 813).

What makes the parts correct: the alarms on a page are its owner's, in every
mode and whatever the requests of other people do (identity); a bearer is
vouched for in the request that uses it (freshness); locks and cells are passed
on, on every way out (progress); a pending operation is durable (durability);
errors and telemetry say what happened (honesty); what a mode needs is there
before the port is bound, and the peers that the code vets are vetted (startup).

## 2. The modules

    ServiceContract ---- AlarmService                 (pure contract; abstract promise)
          |                   ^  ^
          |        implements |  | implements
          +---- TlsChannel ---+  |            TlsWait = TlsChannel + its timers
          +---- JetStreamOperation
          +---- Dashboard  (uses the promise of the two transports)
                   ^
        implements |
                WebServer = Dashboard + TlsChannel + JetStreamOperation
    FairLock     (INSTANCEd by TlsChannel, JetStreamOperation, Dashboard)
    BoundedBody  (on its own)
    Startup      (on its own: what the mode of all the others starts from)

- **ServiceContract** - requests, bearers, response bodies, results, and
  `decode_service_response` as `DecodeServiceResponse`. A response is the
  operation it names, the class of its body, and whose alarms it carries.
  Identities are the bearers themselves: alarms "of alice" are those looked up
  for alice's bearer.
- **AlarmService** - the promise: a request is answered once; alarms are handed
  out only for the bearer it presented, and only after the API introspected that
  bearer for that operation; a request that went away is not answered.
- **FairLock** - tokio's FIFO semaphore, under both `Mutex` and `OnceCell`:
  take, queue, hand over, leave the queue. External, with its lemmas.
- **TlsChannel** - stateful_tls. `pc` is the await a request is at;
  `holder`/`waiters` the mutex; `channel` whether `Runtime.tcp` is `Some`;
  `toApi`/`toWeb` the bytes under way. Actions: `Begin` (to the first lock),
  `Acquired`, `ConnectSucceeds/Fails` (`connect_tcp`), `WriteFrame`,
  `ReadLength`, `ReadPayload` (`tcp_exchange`, decode), `ExchangeFails` (the
  error arm), `Relock` (second iteration), `ClientLeaves` (dropped future; in a
  write it may leave half a frame), and the peer's `ApiAnswers`, `ApiMisreads`.
- **TlsWait** - TlsChannel with time: `left`, of the timer the holder of the guard
  runs under (5 s for the connect and 5 s for the handshake, `IO_TIMEOUT` per
  write and read), and `waited`, per request. `Step` is any step of TlsChannel;
  `Tick` passes time, not past that timer and not while a woken future is unpolled.
- **JetStreamOperation** - async_jetstream. `holder`/`waiters`/`connections` are
  `Runtime.nats`; `posted`/`registry` the registrations; `publishing`/`signals`/
  `responses`/`streams` the broker. Actions follow `fetch_async` from await to
  await: `Begin`, `RegisterAccepted/Fails`, `InitSucceeds/Shared/Fails`,
  `SendSignal`, `SignalAcknowledged/Fails`, `PollFinds/Misses`, `Wake`; the
  environment registers, stores, responds (again, if the worker died before
  acknowledging; and, if it mixes operations up, with the response to another one),
  restarts, and lets time pass (`Tick`). Streams that are not
  `steady` may lose a message to their limits (`BrokerDiscards`) or be given other
  settings after `connect_nats` looked at them (`StreamsReconfigured`).
- **Dashboard** - `Runtime::dashboard` in all four modes: bearer, introspection,
  dispatch, telemetry. direct_db_read (`Connect*`, `Query*` on a shared cell) and
  stateless_https are modelled here; of the two transports above it uses what
  they were shown to implement, alarms of the presented bearer after an
  authorisation by the API, or an error.
- **WebServer** - the whole process: each action of Dashboard outside the two
  transports (`OutsideFetch`), and in their place the actions of TlsChannel
  (`FetchTcp`) and JetStreamOperation (`FetchAsync`), whose returned results become
  the page, the failure and the events of `dashboard` in the same step, as `?` does.
  A browser that leaves drops the future of `dashboard` and of its fetch together
  (`LeavesFetch`). The API, free in the two parts, looks bearers up while they are
  being revoked.
- **Startup** - one process from argv to its first requests: `ProcessControl`
  (`process_control`, `resolve_from`: four layers into one map), `LoadConfig`
  (`Config::from_env`), `RuntimeNew` (`validate_middleware_contract`,
  `validate_config`), `Bind`, and the lookups `FetchDirect`, `ConnectTcp`,
  `ConnectNats`... in which a request reads the configuration again and may find a
  setting missing (`Absent`) or of no use (`Refused`: a server name that is none, a
  file that cannot be read, a URL that cannot be parsed). A value is the
  class the code tells apart (a URL: its scheme, kind of host, user info, path).
- **BoundedBody** - `bounded_body`, `bounded_auth_body`, `extend_bounded`: a
  declared length, chunks of any length, a buffer and its limit. `usize` keeps
  its width (`MaxUsize`), since the code checks the addition.
- **MC...** - instances for TLC. **...Proofs** - theorems; those of BoundedBody,
  and the lemmas of FairLock, are in these modules themselves.

Abstractions. A request's frame and a response's payload are atomic, its four
length bytes travel whole; the bytes of a payload that are read as a length
exceed the limit (they are JSON, above 2^24). Time is kept only where a deadline
is a property: in JetStreamOperation and in TlsWait as ticks of a clock, of which
every sleep, get and timeout is a number (`SleepTime`, `GetBound`...), so that a
deadline falls anywhere in them; computing takes none, nor does the unbounded `fs::read` of
the CA file (L 466). Telemetry is modelled in TlsChannel, Dashboard and WebServer,
which gives JetStreamOperation its events. flags2env, which parses argv and dotenv
files and coerces types, is external to the repository and modelled as flags.rs
uses it. TLS, NATS, the database, Shared Auth and the API are environment: they may
answer, answer wrongly, late or never.

## 3. What is checked

| Run | Instance | Shows |
|---|---|---|
| `tls_three` | MCTlsWait: 3 requests, 2 people, API answers ok or unavailable, with time | `OwnAlarmsOnly`: only the presented bearer's alarms, authorised for that operation. `CleanHandover`, `RetryOnFreshStream`: unless a future was dropped in mid-exchange nobody finds foreign bytes, and a retry never finds its own. `ContractBlame`: 422 only after such a drop, or for a bearer too long to frame. `LockIsReleased`. `WaitIsBounded`: the wait for the guard is at most one connect and one exchange of each other request, also before a retry |
| `tls_bodies` | 3 requests, one bearer too long, all 7 body classes, fair | `LongFailsAlone`: a bearer too long to frame costs nobody the connection, and its own request is told the truth; stateful_tls implements `AlarmService` (`ServiceSpec`); `EveryRequestFinishes` |
| `tls_blame` | 2 requests | finding 1 |
| `tls_emit` | 2 requests | finding 2 |
| `async_two` | 2 operations, right topology, each of 9 wrong ones, and 2 unsteady ones, 3 body classes, a worker that mixes operations up, deadline and get of 1 tick, sleep of 2 | `SignalIsRegistered`; `DurableOperation`, `ResponseSurvives` through broker restarts, in steady streams; `PollIsBounded`: with a sleep that runs past the deadline and a get behind it; `OneTransport` and `InitIsPassedOn` for a raced first connection; async_jetstream implements `AlarmService`, unsteady streams included |
| `async_live` | 2 operations, right and unsteady topologies, fair | `EveryOperationFinishes` |
| `dashboard_modes` | 4 requests, 2 people, one without a bearer, 4 modes, revocation | `OwnPage`, `NoPageAfterRevocation`, `NoFallback`, `AuditTrail`, `OneContext` |
| `web_server` | MCWebServer: 2 requests, 2 people, 4 modes, revocation, streams that discard, fair | `DashboardSpec`: the process with the real transports is a Dashboard; `EveryPageFinishes` |
| `dashboard_emit` | 4 requests | finding 3 |
| `body` | limit 6, `usize` 0..9, chunks and declared lengths 0..9 | `WithinLimit`, `WholeOrRefused` at, below and above the limit and at the overflow |
| `startup` | MCStartup: a complete environment per mode, with one or two changed settings in any layers | `HighestLayerWins`; `VettedPeers`: Shared Auth, the API and NATS are contacted only as `validate_config` allows, whichever layer the setting came from; `NothingMissing`: a request fails for no setting that is missing, only for a value nobody read; `ControlComesFirst` |
| `startup_limit` | the same | finding 4 |

The refinements chain: `tls_bodies` and `async_two` show that the transports keep
the promise, Dashboard is built on the promise, and `web_server` shows that
putting the transports themselves in its place leaves it a Dashboard. Each of the
three is also proved. There the
properties of `dashboard_modes` hold of the real thing as well, with what the
parts cannot say: a bearer revoked while its request waits for the guard, or
between its two attempts. That such a bearer travels on a connection which has carried
it before takes two requests with one bearer: they are in `tls_three`, where
`OwnAlarmsOnly` asks for an authorisation of each, and for the whole process in the
theorem `IsDashboard`; the two requests of `web_server` have a bearer each.

Two limits of what these properties say. `VettedPeers` is what the code checks and no
more: the in-cluster NATS URL is in clear text, and neither `tcp_address` nor the host
of NATS nor `DATABASE_URL`, which carries credentials, is looked at.
`NoPageAfterRevocation` is about bearers revoked before their request began: one that
is revoked between introspection and query still gets its page in direct_db_read.

**Bounds.** Every request is used once, so the number of requests bounds the
run; nothing else is cut off. Three requests are a holder, a waiter and a third
that overtakes or leaves the middle of the queue; two people of whom one has two
requests tell "own alarms" from "alarms of this operation". Two attempts are
the code's. `SleepTime` is 2 ticks and `AsyncTimeout` and `GetBound` are 1, so that
the deadline falls in a sleep, in a get, and on their border, and the longest overrun
that `PollIsBounded` allows, one sleep and one get less a tick, is reached; the proofs
cover all values, among them the 15 s and 100 ms of the code in any unit. `elapsed` is
bounded by `PollBound` without a guard, which is itself the property. Three operations
would not fit beside all topologies and bodies; two race for the cell as holder and
waiter, and the theorems hold for any number. Runs with one or two body classes ask
about locks and time, which do not depend on them; `tls_bodies` has all seven, and
`async_two` three: a response with alarms, an error, and the two together.
`ConnectTimeout` is 2 and `IoTimeout` 1 (10 s each in the code), so that the awaits
differ in length; the longest wait they allow is reached. In `web_server` a get takes
no time (the deadline is `async_two`'s matter), bodies are "ok" (errors are
`tls_bodies`'s), and its streams may discard messages, which includes that they do
not.
`MaxU32` is 20 and `MaxPort` 9, past the 16 of the limit and with a successor
that is refused. A host of `startup` differs in one setting from a complete one,
or in two that one check reads together, or in one setting in two layers: no
check of the code reads more than that.

**Deadlock** is checked everywhere: `Idle` (`Exited` in Startup) is the one way to
stop, when all requests are over.

**Fairness.** `WF(HandlerStep(r))`, per request: tokio polls a future that was
woken, and each await a handler is at is either a lock or cell, granted in order
of arrival, or an I/O under a timeout (connect 5 s twice, each read and write
`IO_TIMEOUT`, HTTP `IO_TIMEOUT`, the NATS client's own request and
acknowledgement timeouts), whose expiry is the `...Fails` action, enabled
throughout. `WF(Tick)`: time passes. The API, the broker, the worker, Shared
Auth and the browser get no fairness. Nor does the database: nothing in this
repository bounds `ReadContext::connect` or `alarms_for_subject`, so
`EveryPageFinishes` leaves direct_db_read out. `SystemFairness` of WebServer is the
same, over the step each part takes for a request. Startup and TlsWait state none.

## 4. What is proved

For any number of requests, people, bodies, topologies and deadlines, assuming
only the named assumptions on constants (`IdentityAssumption`: the "none" values
are none of the real ones; `ApiAssumption`, `AsyncAssumption`, `TopologyAssumption`,
`WebServerAssumption`, `DashboardAssumption`, `StartupAssumption`: typing;
`ResolvedAssumption`: no map of settings is the "none" value; `WidthAssumption`: the
limit of a body fits `usize`; `TimeoutAssumption`: timeouts are numbers, and a
process serves finitely many requests, without which "one hold of each other
request" is no bound).

*TlsChannelProofs*

- `TypeCorrect`.
- `OwnAlarms`, from the invariant `AuthenticWire`: every response with alarms
  that is anywhere on the connection carries those of the operation it names,
  which was authorised. `OwnAlarmsOnly` alone is not inductive, since it does
  not speak of answers nobody has read. The decoder compares the operation, so
  what is decoded "ok" is one's own (`OwnDecoded`).
- `Implements`: `Spec => ServiceSpec`. A return is the abstract answer, a
  dropped future the abstract going away, an API answer the authorisation.
- `LockReleased`, from `LockInv`: whoever is between grant and release is the
  holder, and who is locking is the holder or in the queue, where nobody else is;
  over the queue lemmas of FairLock.
- `LongAlone`, from `LongInv`: a request whose bearer is too long is new or over, and
  told so; so it is neither the holder nor in the queue, by `LockInv`.
- `RetriesAfresh`, from `UnsentInv`: a request has bytes on the connection (`OnWire`)
  only between its write and the end of that exchange, or after it is over. The
  error arm keeps it, since it drops the connection before the guard.
- `HandedOverClean` and `BlamedForCause`, from `WireInv`: until somebody abandons an
  exchange the connection is in step with its holder. It is empty if nobody
  exchanges (`Quiet`); else it carries, of the one who does, a frame or its answer or
  what is left of that, and nothing of anybody else (`Carries`). `CleanHandover` alone
  is not inductive: it is silent while somebody exchanges, when the debts are made.
  That the answer in step is the request's own, and conforming, is what keeps a
  conforming API from being blamed (`OwnConforms`).

*TlsWaitProofs*

- `StaysInStep`: `TimedSpec => Spec`, so that all the above holds with timers too.
- `WaitBounded`, from `WaitInv`: what the k-th in the queue has waited, what is left of
  the current hold (`Remaining`: the timer, and the awaits after it), and one whole
  hold for each of the k-1 before it, make up the bound (`QueueInv`). A tick moves
  time from the second to the first; a release moves a hold from the third to the
  second. That whoever joins finds room in the bound takes `QueueIsShort`: nobody is
  queued twice and the holder is not queued, so the queue is shorter than the number
  of requests. The steps of TlsChannel are sorted by what they do to the queue
  (`QueueMotion`: nothing, an await further, join, pass on, quit).
- `TimedTypeCorrect`.

*JetStreamOperationProofs*

- `TypeCorrect`; `Implements`, from `AuthenticResponses`: a response with alarms, on
  whatever subject a worker put it, carries those of the operation it names, which is
  registered. That the decoder compares the operation makes them the request's own.
- `OnlyRegisteredSignals`, `PolledIsDurable`, `ResponseStays`, from
  `DurableInv`: past the registration a request is registered, past the cell the
  streams are validated, and a signal that was sent is in the request stream, on
  its way, or answered. A restart then takes nothing, both streams being
  file-backed. The last two facts are conditional on `steady` streams: the code
  looks at the streams once, and at none of their limits.
- `SingleTransport`, `InitPassedOn`, from `CellInv`: the permit is closed with
  the first success, so nobody holds it while the cell is full.
- `PollBounded`, from `TimeInv`: a sleep starts before the deadline, so the get behind it
  starts less than a sleep past it, and elapsed plus remaining time stays below the
  bound. One sleep and one get is what the code allows: it looks at the clock before the
  sleep, not behind it (L 568-572).

*BoundedBody*: `TypeCorrect`, `Bounded` and `Faithful`, from `BodyInv`: while a body is
read, the buffer is all that was sent.

*DashboardProofs*

- `TypeCorrect`, `NoModeFallsBack`, from `ModeInv`, which typing needs: the status a
  failed fetch is reported with is only defined for the modes that have one.
- `OwnPages`, `NoStaleVerdict`, from `IdentityInv`: whoever is past `introspect` was
  found active for this request, by a bearer that was active when it began, since
  none becomes active again; and its identity is its bearer's.
- `Audited`, from `EventsInv`: the events a request has emitted are determined by
  where it is and what it returned.
- `SingleContext`, from `CellInv`, as for the NATS transport.

*StartupProofs*, for any surroundings (`Hosts`) and any values

- `NothingIsMissing`, `PeersAreVetted`, `ControlFirst`, from `StartInv`: past
  `process_control` the settings are what the layers resolve to, and typed; past
  `from_env` the configuration is what it reads of them; past `Runtime::new` it is
  valid for its mode; and a request contacts only what its mode was validated for, and
  fails only for what `validate_config` did not read.
- `HighestWins`, over `HighestIsRaw` (what layering does) and `FromEnvAt` (what
  `from_env` does with each kind of setting).
- `TypeCorrect`, on top of `StartInv`, since a configuration is only typed if the
  settings it is read from have been resolved.

*WebServerProofs*: the composition.

- `TlsInside`, `NatsInside`: the process does to its connection what TlsChannel does
  (in stateful_tls), and to its NATS transport what JetStreamOperation does (in every
  mode), so that every theorem on them holds inside the process. The first needs
  `Resting`: nobody writes to the transport of another mode.
- `IsDashboard`: `SystemSpec => DashboardSpec`, each step being one of Dashboard or
  none. A fetch that returns alarms is a `FetchReturns` by the identity invariants of the
  two transports (`ReturnsOwn`, `OwnAlarmsOnly`), one that fails is a `FetchFails` with
  the event that belongs to its error (`ReturnsFailure`), and an answer of the API is an
  `ApiAuthorises` by `Linked`: only a request that was introspected has a frame on the
  connection or a registration under way.
- `ProcessKeeps`: what DashboardProofs proves of Dashboard, of the process.

*FairLock* has the lemmas on the fair mutex these rest on; what a response decodes to is
`Decoded`, stated in the proofs of each transport.

Every invariant the runs check is proved, and so are the refinements and the action
property. *Only model-checked* is liveness (`EveryRequestFinishes`,
`EveryOperationFinishes`, `EveryPageFinishes`): fairness and ENABLED are out of reach
of the prover. The four properties of section 5 are refuted, not proved.

## 5. Findings

1. **A dropped exchange puts the shared connection out of step** (`tls_blame`,
   L 433). A browser that leaves between the write and the read of
   `tcp_exchange` leaves its answer on the connection in `Runtime.tcp`. The next
   request reads it, is refused by the decoder, which rightly shows it nothing,
   and returns 422 "service response did not match its request", not retryable;
   its own answer then waits for the one after it. Nothing drops the connection
   until an I/O error does. Dropping the channel when the decoder refuses, or
   taking it out of the `Option` for the time of the exchange, would end it.
2. **API outcomes without an event** (`tls_emit`, L 424, 429, 433), where
   README.md:24 says every outcome is emitted.
3. **An authentication outcome without an event** (`dashboard_emit`, L 349-354):
   an active token without a usable subject is refused in silence.
4. **A connection limit that is neither refused nor obeyed** (`startup_limit`,
   L 128-131): `HAPPY_WAKEY_DATABASE_MAX_CONNECTIONS=-1` or 4294967296 passes the
   flag contract, which asks for an integer, does not parse as `u32`, and comes up
   as 4, where 0 and 17 are refused with "must be between 1 and 16" (L 800).

## 6. Not modelled, and the plan

Not modelled: the HTML of the renderers and the preference merge (pure, the latter
external); the lint toolkit, CI and deployment files (no run-time behaviour).

Hazards without a property: a database that hangs in `ReadContext::connect`, which
nothing in this repository bounds (L 384); the sum of the timeouts a burst of
requests waits for when each fails to connect to NATS (L 540), timeouts that are
the NATS client's; a 401 of Shared Auth that is about the server's own
credential (L 331), which the wire does not tell from one about the bearer; and the age
of a verdict in direct_db_read (L 287), which neither the code nor a document bounds.

A secret is there and short enough, or not: that the characters of
`HAPPY_WAKEY_SHARED_AUTH_INTROSPECT_SECRET` may be none for an HTTP header, which ends
every introspection in `AuthUnavailable`, is left out, `validate_config` and the model
looking at its length only.

Planned: the safety half of the three liveness properties, as action properties that
can be proved: every step of a handler advances it along a bounded measure of its
place and its attempt, and no step of anybody else takes it back, so that under the
fairness of section 3 it can only end. And, should the code come to take the channel
out of the `Option` for the time of an exchange (finding 1), `WireInv` without its
premise that nobody abandons, and `ConformingApiNeverBlamed` with it.
